CONSTANTS
    Proc = {p1, p2, p3, p4}
    Cond <- QueueConditions
    MaxMessages = 2
    MaxSize = 2
    Faults = {{}, {"no_memory", "small_buffer"}}
SYMMETRY ProcSymmetry
SPECIFICATION Spec
INVARIANTS SleepersAreListed NoReceiverForgotten NoSenderForgotten CloserWillWake
CHECK_DEADLOCK FALSE
