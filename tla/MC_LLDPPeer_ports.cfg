CONSTANTS
    c1 = c1
    c2 = c2
    i1 = i1
    x1 = x1
    x2 = x2
    NoData = NoData
    NumPorts = 2
    TsWrap = 2
    ChassisIds <- MCChassisIds
    PortIds <- MCPortIds
    Infos <- MCInfos1

SPECIFICATION Spec

SYMMETRY MCSymmetry

INVARIANT TypeOK
INVARIANT BufferOwnership

PROPERTY ReceivedFrameIsStored
PROPERTY ReadsMatchStore
PROPERTY TimestampMarksChange
PROPERTY AlarmOnPeerReplaced
PROPERTY RefinesAbstract
