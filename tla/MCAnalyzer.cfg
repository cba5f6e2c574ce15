CONSTANTS
    a1 = a1
    a2 = a2
    http = http
    ssh = ssh
    dns = dns
    e1 = e1
    e2 = e2
    Addresses = {a1, a2}
    HostPorts = {http, ssh}
    RemotePorts = {dns}
    Ephemeral = {e1, e2}
    SynFloodThreshold = 1
    SynFloodWindow = 2
    PortScanThreshold = 1
    PortScanWindow = 1
    MaxStates = 1
    PruneEvery = 1
    EvictAge = 2
    LimitTime = 2
    BlockTime = 4
    MaxEvents = 3
    MaxFails = 1
SYMMETRY Symmetry
SPECIFICATION Spec
INVARIANTS FlaggedIsBlocked FewServicesNoScan
PROPERTIES FloodIsFlagged
