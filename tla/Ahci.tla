-------------------------------- MODULE Ahci --------------------------------
(***************************************************************************)
(* drivers/ahci.c.  ahci_init sets up the ports with a drive one after the *)
(* other, with DMA memory for each that may run out, and read commands go  *)
(* to the slots of a port.  Memory is named by the index that ahci.c gives *)
(* the port; ahci_read_sectors takes that index for the number of the port *)
(* and, with a gap between the drives, waits on a port that has none.      *)
(* Without a controller, or without an address space for its registers,    *)
(* ahci_init changes nothing.                                              *)
(*                                                                         *)
(* The module follows which buffers are given to memory_free_dma.  That is *)
(* kfree, which frees a pointer only if it starts a block: the aligned one *)
(* of kmalloc_aligned need not (module Heap), and then the block stays in  *)
(* use.                                                                    *)
(***************************************************************************)
EXTENDS Integers, FiniteSets, FiniteSetsExt

CONSTANTS AHCI_MAX_PORTS,
          AHCI_MAX_COMMANDS,
          MAX_INITS            \* bound on the calls of ahci_init
                               \* after a failure port_count stays: ports past
                               \* AHCI_MAX_PORTS are not explored

ASSUME AhciAssumption ==
    AHCI_MAX_PORTS \in Nat \ {0} /\ AHCI_MAX_COMMANDS \in Nat \ {0} /\ MAX_INITS \in Nat

VARIABLES drives,        \* the ports that have an active drive
          port_count,    \* ahci_state.port_count
          initialized,   \* ahci_state.initialized
          owed,          \* buffers got and not yet given to memory_free_dma: <<port index, part>>
          twice,         \* a buffer was given to memory_free_dma a second time
          todo,          \* the ports the running ahci_init has still to set up
          inits,         \* calls of ahci_init so far
          ci,            \* the slots the controller is working on, by port
          tfes,          \* ports whose interrupt status says task file error
          command        \* the read under way: its port and slot, or <<>>

ahciVars == <<drives, port_count, initialized, owed, twice, todo, inits, ci, tfes, command>>

Port == 0 .. AHCI_MAX_PORTS - 1
Slot == 0 .. AHCI_MAX_COMMANDS - 1
CmdList == -2
FisBase == -1
Part == {CmdList, FisBase} \cup Slot

AhciInit ==
    /\ drives \in SUBSET Port
    /\ port_count = 0
    /\ initialized = FALSE
    /\ owed = {}
    /\ twice = FALSE
    /\ todo = {}
    /\ inits = 0
    /\ ci = [p \in Port |-> {}]
    /\ tfes = {}
    /\ command = <<>>

-----------------------------------------------------------------------------
ahci_init ==
    /\ ~initialized /\ todo = {}
    /\ inits < MAX_INITS
    /\ inits' = inits + 1
    /\ todo' = drives
    /\ initialized' = (drives = {})
    /\ UNCHANGED <<drives, port_count, owed, twice, ci, tfes, command>>

(***************************************************************************)
(* ahci_port_initialize takes the parts of a port in turn.  When the       *)
(* memory runs out it frees those before; ahci_init then frees the ports   *)
(* before, those that an earlier call freed included, and leaves           *)
(* port_count as it is.                                                    *)
(***************************************************************************)
PortParts(index) == {index} \X Part

\* The parts of the port that are taken when the memory runs out.
Partial(index) ==
    {{}, {<<index, CmdList>>}}
      \cup {{<<index, CmdList>>, <<index, FisBase>>} \cup ({index} \X (0 .. k - 1)) : k \in Slot}

\* Mutant: the command tables of the port are not freed.
PortErrorTables(taken) == {m \in taken : m[2] \in {CmdList, FisBase}}

\* What ahci_port_initialize frees of the parts it has taken.
PortError(taken) == taken

ahci_port_initialize ==
    /\ todo # {}
    /\ port_count < AHCI_MAX_PORTS
    /\ owed' = owed \cup PortParts(port_count)
    /\ port_count' = port_count + 1
    /\ todo' = todo \ {Min(todo)}
    /\ initialized' = (todo' = {})
    /\ UNCHANGED <<drives, twice, inits, ci, tfes, command>>

PortsBefore(k) == UNION {PortParts(j) : j \in 0 .. k - 1}

InitError ==
    /\ todo # {}
    /\ \E taken \in Partial(port_count) :
          owed' = ((owed \cup taken) \ PortError(taken)) \ PortsBefore(port_count)
    /\ twice' = (twice \/ ~(PortsBefore(port_count) \subseteq owed))
    /\ todo' = {}
    /\ UNCHANGED <<drives, port_count, initialized, inits, ci, tfes, command>>

-----------------------------------------------------------------------------
FreeSlots(p) == Slot \ ci[p]

ahci_find_cmdslot(p) == Min(FreeSlots(p))

(***************************************************************************)
(* ahci_read_sectors, until the command is issued and after.  The slot of  *)
(* a command that failed stays set, and so does the error.                 *)
(***************************************************************************)
ahci_read_sectors(p) ==
    /\ command = <<>>
    /\ initialized /\ p < port_count
    /\ FreeSlots(p) # {}
    /\ command' = <<p, ahci_find_cmdslot(p)>>
    /\ ci' = [ci EXCEPT ![p] = @ \cup {ahci_find_cmdslot(p)}]
    /\ UNCHANGED <<drives, port_count, initialized, owed, twice, todo, inits, tfes>>

ReadReturns ==
    /\ command # <<>>
    /\ command[2] \notin ci[command[1]] \/ command[1] \in tfes
    /\ command' = <<>>
    /\ UNCHANGED <<drives, port_count, initialized, owed, twice, todo, inits, ci, tfes>>

\* External: the controller finishes a command, or reports an error.
Completes ==
    /\ command # <<>>
    /\ command[1] \in drives \ tfes
    /\ \/ ci' = [ci EXCEPT ![command[1]] = @ \ {command[2]}] /\ UNCHANGED tfes
       \/ tfes' = tfes \cup {command[1]} /\ UNCHANGED ci
    /\ UNCHANGED <<drives, port_count, initialized, owed, twice, todo, inits, command>>

AhciNext ==
    \/ ahci_init \/ ahci_port_initialize \/ InitError
    \/ \E p \in Port : ahci_read_sectors(p)
    \/ ReadReturns \/ Completes

AhciSpec == AhciInit /\ [][AhciNext]_ahciVars

-----------------------------------------------------------------------------
(***************************************************************************)
(* When ahci_init gives up, at whatever port and part, and however often   *)
(* it is tried again, it has given every buffer it got to memory_free_dma; *)
(* none twice as long as it is called once.  When the first call succeeds  *)
(* every port it counts has all of its parts (ahci_init,                   *)
(* ahci_port_initialize).  A later call counts on from the ports that the  *)
(* first one freed, and frees them again if it fails too.                  *)
(***************************************************************************)
DmaGivenBack ==
    /\ ~initialized /\ todo = {} => owed = {}
    /\ inits <= 1 => ~twice
    /\ initialized /\ inits = 1 => owed = PortsBefore(port_count)

=============================================================================
