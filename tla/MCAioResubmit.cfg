CONSTANTS
    NReq = 2
    NRetries = 5
SPECIFICATION Spec
INVARIANT NoReturnInFlight
CHECK_DEADLOCK FALSE
