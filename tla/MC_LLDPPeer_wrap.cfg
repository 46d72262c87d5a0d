CONSTANTS
    c1 = c1
    c2 = c2
    i1 = i1
    x1 = x1
    x2 = x2
    NoData = NoData
    NumPorts = 1
    TsWrap = 3
    ChassisIds <- MCChassisIds
    PortIds <- MCPortIds
    Infos <- MCInfos

SPECIFICATION Spec

SYMMETRY MCSymmetry


PROPERTY TimestampMonotonic
