CONSTANTS
    s1 = s1
    t1 = t1
    Proc <- MCProc
    Calls <- StartCalls
    Ops <- StartOps
    Intents <- NoIntents
    Available <- MCAvailable
    Kept = {TRUE, FALSE}
    LateFailures = {"install"}
    Mortal = {"start"}
SPECIFICATION Spec
PROPERTY AcceptedIsApplied
CHECK_DEADLOCK FALSE
