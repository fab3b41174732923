SPECIFICATION FairSpec
CONSTANTS
    Instances = {old, new}
    Configs <- MCConfigs
    unix_mode = unix_mode
    NoTable = NoTable
    Broken = Broken
    None = None
INVARIANTS
    TypeOK
    ServedWithMode
    RaceHasWinner
    OwnFilesHarmless
PROPERTIES
    StartSettles
    HealthConverges
