SPECIFICATION Spec
CONSTANTS
    Instances = {server}
    Configs <- UnixAlone
    unix_mode = unix_mode
    NoTable = NoTable
    Broken = Broken
    None = None
PROPERTIES
    NonSocketKept
