\* No crash and no lost ack: only an ack-wait expiry racing a live holder.
CONSTANTS
    i1 = i1  i2 = i2  r1 = r1  r2 = r2
    None = None
    Instances <- MCInstances
    Requests <- MCRequests
    Malformed = {}
    MaxCrashes = 0
    MaxSpurious = 1
    MaxAckLosses = 0
SPECIFICATION Spec
\* An idle queue (everything handled, or every instance shut down) waits forever.
CHECK_DEADLOCK FALSE
INVARIANT AtMostOnceRebased
