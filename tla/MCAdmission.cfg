SPECIFICATION Spec
CONSTANTS
    Addrs <- MCIps
    Ips <- MCIps
    NoIp = "none"
    IpOf <- MCIpOf
    FamilyOf <- MCFamilyOf
    SubnetOf <- MCSubnetOf
    LanIps = {}
    LoopbackIps = {}
    MaxAddresses = 8
    UnstorableAddrs = {}
    MulticastIps = {}
    Peers <- MCPeers
    IdBits = 4
    K = 4
    LimitIp = 1
    LimitSubnet = 2
    AllowLoopback = FALSE
    SwapThreshold = 35
    TrustProtection = 70
    LiveThreshold = 0
    MaxSeq = 0
    ConnectLists <- MCConnectLists
    TrustFns <- MCTrustFns
    ObservedAddrs = {}
    PublishLists = {}
INVARIANTS
    TypeOK
    BucketCapacity
    EventsTellMembership
    BucketDiversity
    LiveTrustedPeersKeepSlots
