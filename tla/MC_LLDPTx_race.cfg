\* The app and the scheduler on different threads (spec 5): a
\* pf_lldp_tx_restart may run between a timeout firing and its callback.
CONSTANTS
    NumPorts = 2
    Oversized <- MCOversized1
    MaxTimerIds = 3
    Serialized = FALSE

SPECIFICATION Spec

INVARIANT TimerChain
