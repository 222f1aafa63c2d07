SPECIFICATION FilledSpec
CONSTANTS
    Addrs <- MCNames
    Ips <- MCNames
    NoIp = "none"
    IpOf <- MCIpOf
    FamilyOf <- MCFamilyOf
    SubnetOf <- MCIpOf
    LanIps = {}
    LoopbackIps = {}
    MaxAddresses = 8
    UnstorableAddrs = {}
    MulticastIps = {}
    Peers <- MCPeers
    IdBits = 4
    K = 4
    LimitIp = 1
    LimitSubnet = 2
    AllowLoopback = FALSE
    SwapThreshold = 35
    TrustProtection = 70
    LiveThreshold = 0
    MaxSeq = 0
    ConnectLists <- MCConnectLists
    TrustFns <- MCTrustFns
    ObservedAddrs = {}
    PublishLists = {}
    Tasks = {}
    MaxRevalidations = 2
    Responsive = {8, 12}
    Rejected = {8, 12}
    MaxSweeps = 0
    PromptBroadcast = FALSE
INVARIANT
    ConsumersKnowTable
