SPECIFICATION Spec
CONSTANTS
    Addrs <- MCAddrs
    Ips <- MCIps
    NoIp = "none"
    IpOf <- MCIpOf
    FamilyOf <- MCFamilyOf
    SubnetOf <- MCSubnetOf
    LanIps = {"192.168.0.1", "127.0.0.1"}
    LoopbackIps = {"127.0.0.1"}
    MaxAddresses = 4
    UnstorableAddrs = {"wild"}
    MulticastIps = {}
    Peers = {8, 9}
    IdBits = 4
    K = 4
    LimitIp = 1
    LimitSubnet = 2
    AllowLoopback = FALSE
    SwapThreshold = 35
    TrustProtection = 70
    LiveThreshold = 0
    MaxSeq = 2
    ConnectLists <- MCConnectLists
    TrustFns <- MCTrustFns
    ObservedAddrs <- MCObservedAddrs
    PublishLists <- MCPublishLists
INVARIANTS
    PublicationsOfMembers
    EventsTellMembership
PROPERTY
    PublishedSnapshotStable
