SPECIFICATION Spec
CONSTANTS
    Entries = {"EventLogReader", "Sequencer"}
    MaxDepth = 2
    MaxEvents = 3
INVARIANTS TypeOK NoSilentDangling
CHECK_DEADLOCK FALSE
