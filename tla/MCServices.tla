----------------------------- MODULE MCServices -----------------------------
(***************************************************************************)
(* The services that share no state: an instance explores one of them, its *)
(* part, and leaves the others as they start.                              *)
(***************************************************************************)
EXTENDS Fat32, Ahci, Spinlock, Capabilities, Interrupts, Logging, Terminal, Vga, Pci

\* A sound boot sector, and ones that differ from it in one field.
FormatsValue ==
    LET sound == [signature |-> TRUE, sectors |-> 2, sectors_per_cluster |-> 1]
    IN  {sound, [sound EXCEPT !.signature = FALSE]}
          \cup {[sound EXCEPT !.sectors = n] : n \in {256, 257}}
          \cup {[sound EXCEPT !.sectors_per_cluster = n] : n \in {0, 2}}

VARIABLE part       \* the service that is explored

vars == <<fatVars, ahciVars, spinVars, capVars, intVars, logVars, termVars, vgaVars, pciVars, part>>

Parts == {"fat32", "ahci", "spinlock", "capabilities", "interrupts", "logging", "terminal", "vga", "pci"}

Init ==
    /\ part \in Parts
    /\ IF part = "fat32" THEN disk \in Image ELSE disk = CHOOSE image \in Image : TRUE
    /\ IF part = "ahci" THEN drives \in SUBSET Port ELSE drives = {}
    /\ IF part = "spinlock" THEN enabled \in [CPUs -> Bit] ELSE enabled = [c \in CPUs |-> 1]
    /\ IF part = "pci" THEN TRUE
       ELSE present = {} /\ multi = {} /\ bar = [f \in Functions |-> CHOOSE layout \in Layouts : TRUE]
    /\ FatInit /\ AhciInit /\ SpinInit /\ CapInit /\ IntInit /\ LogInit /\ TermInit /\ VgaInit /\ PciInit

Next ==
    \/ /\ part = "fat32" /\ FatNext
       /\ UNCHANGED <<ahciVars, spinVars, capVars, intVars, logVars, termVars, vgaVars, pciVars, part>>
    \/ /\ part = "ahci" /\ AhciNext
       /\ UNCHANGED <<fatVars, spinVars, capVars, intVars, logVars, termVars, vgaVars, pciVars, part>>
    \/ /\ part = "spinlock" /\ SpinNext
       /\ UNCHANGED <<fatVars, ahciVars, capVars, intVars, logVars, termVars, vgaVars, pciVars, part>>
    \/ /\ part = "capabilities" /\ CapNext
       /\ UNCHANGED <<fatVars, ahciVars, spinVars, intVars, logVars, termVars, vgaVars, pciVars, part>>
    \/ /\ part = "interrupts" /\ IntNext
       /\ UNCHANGED <<fatVars, ahciVars, spinVars, capVars, logVars, termVars, vgaVars, pciVars, part>>
    \/ /\ part = "logging" /\ LogNext
       /\ UNCHANGED <<fatVars, ahciVars, spinVars, capVars, intVars, termVars, vgaVars, pciVars, part>>
    \/ /\ part = "terminal" /\ TermNext
       /\ UNCHANGED <<fatVars, ahciVars, spinVars, capVars, intVars, logVars, vgaVars, pciVars, part>>
    \/ /\ part = "vga" /\ VgaNext
       /\ UNCHANGED <<fatVars, ahciVars, spinVars, capVars, intVars, logVars, termVars, pciVars, part>>
    \/ /\ part = "pci" /\ PciNext
       /\ UNCHANGED <<fatVars, ahciVars, spinVars, capVars, intVars, logVars, termVars, vgaVars, part>>

Spec == Init /\ [][Next]_vars

=============================================================================
