SPECIFICATION Spec
CONSTANTS
    host1port1 = host1port1
    host1port2 = host1port2
    host2port1 = host2port1
    Host <- MCHost
    None = None
    CallIds = {c1}
    Infos = {i1, i2, i3}
    Addrs = {host1port1, host1port2, host2port1}
    SdpAddrs = {host1port1, host2port1}
    Repeated = {"INVITE", "ACK"}
    max_retries = 1
INVARIANTS
    ReleasedMeansReleased
    RoutesStayOnHost
PROPERTY TeardownRunsOnce
CHECK_DEADLOCK FALSE
