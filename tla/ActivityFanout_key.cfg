\* Subscribes one after another, naming the same two kinds in different orders.
CONSTANTS
    s1 = s1  s2 = s2
    Everything = Everything
    Kinds <- MCKinds
    Subscribers <- MCSubscribers
    Filters <- PermutedFilters
    Capacity = 2
    MaxPublish = 1
    Sequential = TRUE
    MaxAckLosses = 0
SPECIFICATION Spec
\* Every subscriber idle on an empty receiver is a normal resting state.
CHECK_DEADLOCK FALSE
PROPERTY DeliveredToSubscribers
