SPECIFICATION Spec
CONSTANTS
    Explored = {"driver"}
INVARIANTS
    CompletionSettlesItsPlayback
CHECK_DEADLOCK FALSE
