CONSTANTS
    Proc = {p1, p2, p3}
    NULL = NULL
    Boot = Boot
    MAX_PROCESSES = 3
    MAX_TASKS = 2
    MAX_PRIORITY = 1
    SCHEDULER_QUANTUM = 2
SPECIFICATION FairSpec
INVARIANTS TypeOK PidIsSlot ContextsKept 
PROPERTIES PicksHighest FirstTaskRuns
\* Without a free process_t for the idle process the scheduler never starts.
CHECK_DEADLOCK FALSE
