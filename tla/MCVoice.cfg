SPECIFICATION Spec
CONSTANTS
    Explored = {"field", "menu", "utterance", "record", "mixed", "driver", "driver_single",
             "manual", "blocks", "native", "fields", "media", "rivals"}
INVARIANTS
    MediaSound
    PromptSound
    FiaSound
PROPERTIES
    VoiceProgress
CHECK_DEADLOCK FALSE
