SPECIFICATION Spec
CONSTANTS
    CLUSTERS = 2
    UNITS = 2
    MAX_SIZE = 4
    ENTRIES = 3
    Formats <- FormatsValue
    AHCI_MAX_PORTS = 2
    AHCI_MAX_COMMANDS = 2
    MAX_INITS = 3
    CPUs = {c1, c2}
    NoCpu = NoCpu
    MAX_SEC_ENTRIES = 2
    Pids = {1, 2, 3}
    Caps = {read, write}
    MAX_TIMER_CALLBACKS = 2
    TPS = 100
    Intervals = {5, 20}
    WORD = 3
    DriverVectors = {0, 40}
    KLOG_RING_SIZE = 3
    Writers = {thread, handler}
    TERM_ROWS = 3
    MAX_HISTORY = 2
    MAX_COMMANDS = 3
    VGA_WIDTH = 3
    VGA_HEIGHT = 2
    TAB = 2
    MAX_TOP = 2
    PCI_MAX_BUSES = 2
    PCI_MAX_DEVICES = 2
    PCI_MAX_FUNCTIONS = 2
INVARIANTS
    BuffersFreed
    ReadIsFile
    DmaGivenBack
    SpinExclusion
    FlagsRestored
    CapsAsGranted
    OnTime
    LinesAcknowledged
    LogIsRecent
    ShowsRecent
    ScreenIsSheet
    FunctionsFound
\* A damaged drive or a crash stops the system.
CHECK_DEADLOCK FALSE
