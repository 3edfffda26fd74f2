SPECIFICATION RelayFairSpec
CONSTANTS
    MaxCalls = 3
    MaxShutdowns = 2
CHECK_DEADLOCK FALSE
INVARIANTS PulseAccounted
PROPERTIES NoRiseAfterShutdown CallsReturn
