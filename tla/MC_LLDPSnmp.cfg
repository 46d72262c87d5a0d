CONSTANTS
    c1 = c1
    c2 = c2
    i1 = i1
    NoData = NoData
    NumPorts = 1
    TsWrap = 2
    ChassisIds <- MCChassisIds
    PortIds <- MCPortIds
    Infos <- MCInfos
    LocalAddr <- MCLocalAddr
    LocalLinkStatus <- MCLocalLinkStatus

SPECIFICATION SnmpSpec

SYMMETRY MCSymmetry

PROPERTY
    SnmpReadsEncodeStore
