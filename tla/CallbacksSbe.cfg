SPECIFICATION Spec
CONSTANTS
    Entries = {"sbe.Decoder", "Sequencer"}
    MaxDepth = 2
    MaxEvents = 3
INVARIANTS NoSilentDangling
CHECK_DEADLOCK FALSE
