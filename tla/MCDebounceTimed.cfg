SPECIFICATION TimedSpec
CONSTANTS
    Tasks = {t1, t2, t3}
    PRs = {p1, p2}
    NoTask = NoTask
    Window = 3
SYMMETRY Symmetry
INVARIANTS
    TenSeconds
PROPERTIES
    LeavesWhenQuiet
    AttemptsSpaced
