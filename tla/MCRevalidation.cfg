SPECIFICATION TwoBucketSpec
CONSTANTS
    Addrs <- TwoBucketNames
    Ips <- TwoBucketNames
    NoIp = "none"
    IpOf <- TwoBucketIpOf
    FamilyOf <- TwoBucketFamilyOf
    SubnetOf <- TwoBucketIpOf
    LanIps = {}
    LoopbackIps = {}
    MaxAddresses = 8
    UnstorableAddrs = {}
    MulticastIps = {}
    Peers <- TwoBucketPeers
    IdBits = 5
    K = 4
    LimitIp = 1
    LimitSubnet = 2
    AllowLoopback = FALSE
    SwapThreshold = 35
    TrustProtection = 70
    LiveThreshold = 0
    MaxSeq = 0
    ConnectLists <- TwoBucketLists
    TrustFns <- TwoBucketTrust
    ObservedAddrs = {}
    PublishLists = {}
    Tasks = {"t1", "t2", "t3"}
    MaxRevalidations = 2
    Responsive = {8}
    Rejected = {20}
    MaxSweeps = 1
    PromptBroadcast = TRUE
INVARIANTS
    RevalidationTypeOK
    RevalidationsBounded
    MembersAnnounced
PROPERTY SlotsComeBack
