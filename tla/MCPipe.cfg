CONSTANTS
    Proc = {p1, p2, p3}
    Readers = {p1, p2}
    Writers = {p3}
    Sem <- PipeSemaphores
    Byte <- Bytes
    Data <- Texts
    Size = {2}
    PIPE_BUFFER_SIZE = 2
    MaxPermits = 4
    Faults = {{}, {"no_memory"}}
SPECIFICATION Spec
INVARIANTS PermitsKept NoStandstill
PROPERTIES ChannelSpec
CHECK_DEADLOCK FALSE
