SPECIFICATION FairSpec
CONSTANTS
    a = a  b = b  a2 = a2  ab = ab  ba = ba  ja = ja  jb = jb  ja2 = ja2  jx = jx
    NumParts = 2  KeyName <- MCKeyName  NoKey = NoKey  HashOf <- MCHashOf
    Job = {ab, ba, ja2, jx}  Key <- MCKey  Key2 <- MCKey2
    Cap = 2  MaxAttempts = 2  None = None
INVARIANTS NoSendOnClosed CloseLosesNothing
PROPERTIES KeepsPromise ShutdownEnds
