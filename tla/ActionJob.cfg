\* One ActionJob, either kind, run inline by the SyncProcessor, with errors at
\* every step of inner_run and of process_failed_action, and a possible crash.
CONSTANTS
    Kinds = {"Create", "Destroy"}
    HandlerErrors = TRUE
SPECIFICATION Spec
\* A job whose enqueue_job returned, or whose process died, stays where it is;
\* a job nobody enqueues stays queued.
CHECK_DEADLOCK FALSE
INVARIANT
    NotLeftRunning
