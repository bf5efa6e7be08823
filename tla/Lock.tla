-------------------------------- MODULE Lock --------------------------------
(***************************************************************************)
(* What a lock promises: it is granted to one process at a time, to a      *)
(* process that asked for it, only while nobody holds it, and only its     *)
(* holder gives it back.  In which order those who ask are served is left  *)
(* open.                                                                   *)
(***************************************************************************)
CONSTANTS Proc,  \* the processes
          NULL   \* no process

VARIABLES holder,   \* the process that holds the lock, or NULL
          waiting   \* the processes whose request has not been granted

lockVars == <<holder, waiting>>

Init == holder = NULL /\ waiting = {}

Request(p) ==
    /\ p \notin waiting
    /\ holder \notin {NULL, p}
    /\ waiting' = waiting \cup {p}
    /\ UNCHANGED holder

Grant(p) ==
    /\ holder = NULL
    /\ holder' = p
    /\ waiting' = waiting \ {p}

Release(p) ==
    /\ holder = p
    /\ holder' = NULL
    /\ UNCHANGED waiting

Next == \E p \in Proc : Request(p) \/ Grant(p) \/ Release(p)

Spec == Init /\ [][Next]_lockVars

=============================================================================
