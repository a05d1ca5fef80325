SPECIFICATION Spec
CONSTANTS
    Absent = Absent
    capacity = 3
    max_navigation_hops = 2
    max_nesting_depth = 2
    MaxGeneration = 2
    MaxRoots = 2
    MaxWork = 2
    dm_capacity = 2
    dm_max_navigation_hops = 2
    max_script_steps = 2
    SessionStops = {"RUNNING", "NAVIGATING", "SUBMITTING", "SCRIPTING", "EXITED"}
    MaxDialogs = 2
    MaxDialogWork = 2
    Explored = {"uri", "store", "subdialogs", "dialogs", "dialogs_stops",
             "conditionals", "leaves", "documents",
             "reports", "faults", "ends", "live", "exec_data", "exec_sends", "exec_nested",
             "events", "donedata", "lifecycle", "teardown", "event_admission", "invoke_admission",
             "data", "ccxml", "ccxml_again", "pattern"}
INVARIANTS
    InvocationSound
    ExecSound
    MetadataSound
    InitSound
    DataSound
    CcxmlSound
    UriSound
    StoreSound
    OwnerSound
    DialogSound
    ExecutableSound
    DocumentSound
PROPERTIES
    SessionsProgress
    DialogsProgress
CHECK_DEADLOCK FALSE
