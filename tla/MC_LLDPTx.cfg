\* One stack thread: pf_lldp_tx_restart never overlaps the timeout callback.
CONSTANTS
    NumPorts = 4
    Oversized <- MCOversized
    MaxTimerIds = 3
    Serialized = TRUE

SPECIFICATION Spec

INVARIANTS
    TypeOK
    TimerChain
    TxInv

PROPERTIES
    SendRoundComplete
    EveryPortAdvertised
    RefinesAbstract
