-------------------------------- MODULE Pci --------------------------------
(***************************************************************************)
(* drivers/pci.c: the scan of the buses.  A function answers or it does    *)
(* not, whatever is on the bus; a header that does not answer reads as all *)
(* ones and so as that of several host controllers.  Command registers and *)
(* sizes of base addresses are left out.                                   *)
(***************************************************************************)
EXTENDS Naturals, Sequences

CONSTANTS PCI_MAX_BUSES, PCI_MAX_DEVICES, PCI_MAX_FUNCTIONS

ASSUME PciAssumption ==
    /\ PCI_MAX_BUSES \in Nat
    /\ PCI_MAX_DEVICES \in Nat \ {0}
    /\ PCI_MAX_FUNCTIONS \in 1 .. PCI_MAX_BUSES

VARIABLES present,          \* external: the functions that answer
          multi,            \* external: the devices whose header says several functions
          bar,              \* the base address registers of every function
          devices,          \* pci_state.devices
          scan,             \* the loop variables of pci_init and pci_check_device
          pci_initialized

pciVars == <<present, multi, bar, devices, scan, pci_initialized>>

Function == 0 .. PCI_MAX_FUNCTIONS - 1
Device == (0 .. PCI_MAX_BUSES - 1) \X (0 .. PCI_MAX_DEVICES - 1)
Address(d, f) == <<d[1], d[2], f>>
Functions == (0 .. PCI_MAX_BUSES - 1) \X (0 .. PCI_MAX_DEVICES - 1) \X Function
MAX_ENTRIES == PCI_MAX_BUSES * PCI_MAX_DEVICES * PCI_MAX_FUNCTIONS

\* An I/O port, 32 bit memory, and 64 bit memory in two registers.
Layouts == {<<"io", "memory", "memory">>, <<"low", "high", "io">>, <<"memory", "low", "high">>}
Register == 1 .. 3

Position(h, b, d, f) == [host |-> h, bus |-> b, device |-> d, function |-> f]

\* The loops of a host controller begin at the bus of its number; past the
\* last host nothing is scanned.
From(host) == Position(host, host, 0, 0)

PciInit ==
    /\ present \in SUBSET Functions
    /\ multi \in SUBSET {d \in Device : Address(d, 0) \in present}
    /\ \E layout \in Layouts : bar = [f \in Functions |-> layout]
    /\ devices = <<>>
    /\ scan = From(PCI_MAX_FUNCTIONS)
    /\ pci_initialized = FALSE

-----------------------------------------------------------------------------
Single == Address(<<0, 0>>, 0) \in present /\ <<0, 0>> \notin multi
Hosts == IF Single THEN {0} ELSE {f \in Function : Address(<<0, 0>>, f) \in present}

pci_init ==
    /\ ~pci_initialized /\ scan.host = PCI_MAX_FUNCTIONS
    /\ devices' = <<>>
    /\ scan' = From(0)
    /\ UNCHANGED <<present, multi, bar, pci_initialized>>

\* Mutant: the header is not looked at.
ChecksAll(d, f) == Address(d, 0) \in present /\ Address(d, f) \in present

\* pci_check_device calls pci_check_function for function f of d, which answers.
Checks(d, f) ==
    /\ Address(d, 0) \in present /\ Address(d, f) \in present
    /\ f = 0 \/ d \in multi

\* The upper registers of 64 bit addresses, which the loop steps over.
Upper(b) ==
    LET upper[r \in Register] == r > 1 /\ b[r - 1] = "low" /\ ~upper[r - 1] IN upper

\* The size of an address is read by writing ones; then bar is written back,
\* which for a 64 bit address is the lower half.
WrittenBack(b) == [r \in Register |-> IF Upper(b)[r] THEN b[r - 1] ELSE b[r]]

\* The next function, of the next device after the last, of the next bus.
Advance(c) ==
    IF c.function + 1 < PCI_MAX_FUNCTIONS THEN Position(c.host, c.bus, c.device, c.function + 1)
    ELSE IF c.device + 1 < PCI_MAX_DEVICES THEN Position(c.host, c.bus, c.device + 1, 0)
    ELSE Position(c.host, c.bus + 1, 0, 0)

pci_check_function ==
    /\ scan.host \in Hosts /\ scan.bus < PCI_MAX_BUSES
    /\ LET d == <<scan.bus, scan.device>>
           here == Address(d, scan.function)
       IN  IF Checks(d, scan.function) /\ Len(devices) < MAX_ENTRIES
           THEN /\ devices' = Append(devices, [at |-> here, bar |-> bar[here]])
                /\ bar' = [bar EXCEPT ![here] = WrittenBack(@)]
           ELSE UNCHANGED <<devices, bar>>
    /\ scan' = Advance(scan)
    /\ UNCHANGED <<present, multi, pci_initialized>>

\* A host controller is done with, or does not answer.
next_host ==
    /\ scan.host < PCI_MAX_FUNCTIONS
    /\ scan.host \in Hosts => scan.bus = PCI_MAX_BUSES
    /\ scan' = From(scan.host + 1)
    /\ pci_initialized' = (scan'.host = PCI_MAX_FUNCTIONS)
    /\ UNCHANGED <<present, multi, bar, devices>>

PciNext == pci_init \/ pci_check_function \/ next_host

PciSpec == PciInit /\ [][PciNext]_pciVars

-----------------------------------------------------------------------------
\* The functions that a driver may ask for: of a device that answers, the
\* first, and if its header says so the others that answer.
Answering ==
    {g \in present : Address(g, 0) \in present /\ (g[3] = 0 \/ <<g[1], g[2]>> \in multi)}

(***************************************************************************)
(* When the first host controller answers, a finished scan has every       *)
(* function of every device that answers, and with a single host           *)
(* controller each once.  With several, the buses of the later ones are    *)
(* scanned again (pci_init), and what is then recorded twice may fill the  *)
(* table, but only after every function is in it.  A function is first     *)
(* recorded with the addresses the firmware gave it, and except for the    *)
(* upper halves of 64 bit addresses the scan leaves them as they were.     *)
(***************************************************************************)
FunctionsFound ==
    /\ pci_initialized /\ Address(<<0, 0>>, 0) \in present =>
          {devices[i].at : i \in DOMAIN devices} = Answering
    /\ Single => \A i, j \in DOMAIN devices : devices[i].at = devices[j].at => i = j
    /\ \A i \in DOMAIN devices :
          \/ devices[i].bar \in Layouts
          \/ \E j \in 1 .. i - 1 : devices[j].at = devices[i].at
    /\ \E layout \in Layouts : \A f \in Functions, r \in Register :
          layout[r] # "high" => bar[f][r] = layout[r]

=============================================================================
