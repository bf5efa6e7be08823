CONSTANTS
    Proc = {p1, p2, p3}
    NULL = NULL
    Boot = Boot
    MAX_PROCESSES = 3
    MAX_TASKS = 2
    MAX_PRIORITY = 1
    SCHEDULER_QUANTUM = 2
    MaxHeld = 1
SPECIFICATION YieldSpec
PROPERTY WaiterProceeds
CHECK_DEADLOCK FALSE
