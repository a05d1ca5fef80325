SPECIFICATION BridgesSpec
CONSTANTS
    Explored = {"egress", "ingress", "frames", "fence", "chttp", "chttp_again", "chttp_two",
             "processor", "resource", "codec", "submit"}
    capacity = 2
    max_payload_bytes = 2
    max_writes = 2
    CnetRoom = 2
    MaxPrepared = 4
    MaxRefused = 2
    ring_capacity = 2
    max_chunk_bytes = 1
    max_events = 2
    MaxChunks = 5
    Base = 2
    max_frame_bytes = 2
    max_receive_bytes = 2
    max_frames = 2
    MaxBytes = 6
    Generations = {1, 2, 3}
    MaxWork = 2
    MaxBindings = 2
    MaxStops = 3
    max_response_body_bytes = 1
    MaxSize = 2
    MaxResponses = 2
INVARIANTS
    EgressSound
    IngressSound
    FrameSound
    FenceSound
    ChttpSound
    ProcessorSound
    ResourceSound
    CodecSound
    SubmitSound
PROPERTIES
    QuiescenceStable
    BridgesProgress
CHECK_DEADLOCK FALSE
