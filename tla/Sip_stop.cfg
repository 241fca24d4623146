SPECIFICATION FairSpec
CONSTANTS
    host1port1 = host1port1
    host1port2 = host1port2
    host2port1 = host2port1
    Host <- MCHost
    None = None
    CallIds = {c1, c2}
    Infos = {i1, i2}
    Addrs = {host1port1}
    SdpAddrs = {host1port1}
    Repeated = {}
    max_retries = 1
INVARIANTS
    TasksAreTracked
    NothingIsLeftBehind
PROPERTIES
    TeardownsEnd
    CallsEndWithTheirStream
    StopEnds
CHECK_DEADLOCK FALSE
