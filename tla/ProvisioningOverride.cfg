CONSTANTS
    s1 = s1
    t1 = t1
    Proc <- OneProc
    Calls <- OneCalls
    Ops <- OneOps
    Intents <- MCIntents
    Available <- MCAvailable
    Kept = {TRUE, FALSE}
    LateFailures = {"install"}
    Mortal = {"start"}
SPECIFICATION Spec
INVARIANT SatisfiedIsTrue
CHECK_DEADLOCK FALSE
