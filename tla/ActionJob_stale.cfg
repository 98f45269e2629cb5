\* A failure after process_and_record_execution committed a success.
CONSTANTS
    Kinds = {"Create", "Destroy"}
    HandlerErrors = FALSE
SPECIFICATION Spec
CHECK_DEADLOCK FALSE
INVARIANT NoFailureAfterSuccess
