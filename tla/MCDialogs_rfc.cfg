SPECIFICATION Spec
CONSTANTS
    Absent = Absent
    capacity = 3
    max_navigation_hops = 2
    max_nesting_depth = 2
    MaxGeneration = 2
    MaxRoots = 2
    MaxWork = 2
    dm_capacity = 2
    dm_max_navigation_hops = 2
    max_script_steps = 2
    SessionStops = {"RUNNING", "NAVIGATING", "SUBMITTING", "SCRIPTING", "EXITED"}
    MaxDialogs = 2
    MaxDialogWork = 2
    Explored = {"uri"}
INVARIANTS
    ResolvesByRfc
CHECK_DEADLOCK FALSE
