SPECIFICATION Spec
CONSTANTS
    repo = repo
    fork = fork
    main = main
    dev = dev
    lock = lock
    source = source
    axios = axios
    None = None
    PullRequests <- MCPullRequests
    Rules <- MCRules
    MaxRules = 2
CHECK_DEADLOCK FALSE
INVARIANTS
    TypeOK
    FirstFit
    FailuresExplained
    PrefilterSound
