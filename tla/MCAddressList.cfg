SPECIFICATION Spec
CONSTANTS
    Addrs <- MCAddrs
    Ips <- MCIps
    NoIp = "none"
    IpOf <- MCIpOf
    FamilyOf <- MCFamilyOf
    SubnetOf <- MCSubnetOf
    LanIps = {"192.168.0.1", "127.0.0.1"}
    LoopbackIps = {"127.0.0.1"}
    UnstorableAddrs = {"wild"}
    MaxAddresses = 7
    AdmissionLists <- MCAdmissionLists
    Observations <- MCObservations
    PublishedLists <- MCPublishedLists
INVARIANT FamilyCap
PROPERTIES
    NoLoopbackInjection
    ImplementsRecord
