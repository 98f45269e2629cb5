\* One filter; the shutdown token may be cancelled.
CONSTANTS
    s1 = s1  s2 = s2
    Everything = Everything
    Kinds <- MCKinds
    Subscribers <- MCSubscribers
    Filters <- OneFilter
    Capacity = 2
    MaxPublish = 2
    Sequential = TRUE
    MaxAckLosses = 0
SPECIFICATION Spec
\* Every subscriber idle on an empty receiver is a normal resting state.
CHECK_DEADLOCK FALSE
PROPERTY NoIntakeAfterShutdown
