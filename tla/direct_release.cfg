\* Two dialer runs with peer connects and drops; a stream open may fail on
\* a live connection.
SPECIFICATION Spec
CONSTANTS
    Callers <- TwoCallers
    StreamFails = TRUE
    MaxEvents = 3
INVARIANTS
    LeakOnlyByStreamFailure
\* Every dialer run ends; the system may stop.
CHECK_DEADLOCK FALSE
