\* Crashes, lost acks, a spurious ack-wait expiry and a malformed message.
CONSTANTS
    i1 = i1  i2 = i2  r1 = r1  r2 = r2
    None = None
    Instances <- MCInstances
    Requests <- MCRequests
    Malformed = {r2}
    MaxCrashes = 1
    MaxSpurious = 1
    MaxAckLosses = 1
SPECIFICATION Spec
INVARIANT TypeOK
PROPERTY ImplementsWorkQueue
PROPERTY EventuallyRebased
\* An idle queue (everything handled, or every instance shut down) waits forever.
CHECK_DEADLOCK FALSE
