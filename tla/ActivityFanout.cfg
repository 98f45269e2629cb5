\* Subscribes issued one after another with one filter: the fast and the
\* slow path, a lagging receiver, reordered process_message tasks and a
\* shutdown; consumer creation may fail at any of its awaits.
CONSTANTS
    s1 = s1  s2 = s2
    Everything = Everything
    Kinds <- MCKinds
    Subscribers <- MCSubscribers
    Filters <- OneFilter
    Capacity = 1
    MaxPublish = 2
    Sequential = TRUE
    MaxAckLosses = 1
SPECIFICATION Spec
\* Every subscriber idle on an empty receiver is a normal resting state.
CHECK_DEADLOCK FALSE
INVARIANT TypeOK
INVARIANT FilterRespected
INVARIANT OneStreamPerFilter
PROPERTY DeliveredToSubscribers
