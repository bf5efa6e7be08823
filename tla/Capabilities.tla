---------------------------- MODULE Capabilities ----------------------------
(***************************************************************************)
(* kernel/security.c: the table of capabilities by pid.  An entry is never *)
(* given back.                                                             *)
(***************************************************************************)
EXTENDS Naturals

CONSTANTS MAX_SEC_ENTRIES, Pids, Caps

ASSUME CapabilitiesAssumption == MAX_SEC_ENTRIES \in Nat

VARIABLES cap_table, sec_initialized,
          granted         \* granted and not revoked, by pid

capVars == <<cap_table, sec_initialized, granted>>

Entry == 1 .. MAX_SEC_ENTRIES
NoEntry == [active |-> FALSE, pid |-> 0, caps |-> {}]

CapInit ==
    /\ cap_table = [i \in Entry |-> NoEntry]
    /\ sec_initialized = FALSE
    /\ granted = [p \in Pids |-> {}]

sec_init ==
    /\ ~sec_initialized
    /\ cap_table' = [i \in Entry |-> NoEntry]
    /\ sec_initialized' = TRUE
    /\ UNCHANGED granted

First(S) == CHOOSE i \in S : \A j \in S : i <= j

sec_find_entry(pid) == {i \in Entry : cap_table[i].active /\ cap_table[i].pid = pid}
sec_alloc_entry == {i \in Entry : ~cap_table[i].active}

\* Mutant: every grant takes an entry of its own.
GrantEntriesNew(pid) == sec_alloc_entry

\* The entries sec_grant_cap chooses the first of.
GrantEntries(pid) == IF sec_find_entry(pid) # {} THEN sec_find_entry(pid) ELSE sec_alloc_entry

sec_grant_cap(pid, caps) ==
    /\ sec_initialized
    /\ GrantEntries(pid) # {}
    /\ cap_table' = [cap_table EXCEPT ![First(GrantEntries(pid))] =
                        [active |-> TRUE, pid |-> pid,
                         caps |-> caps \cup (IF @.active THEN @.caps ELSE {})]]
    /\ granted' = [granted EXCEPT ![pid] = @ \cup caps]
    /\ UNCHANGED sec_initialized

sec_revoke_cap(pid, caps) ==
    /\ sec_initialized
    /\ sec_find_entry(pid) # {}
    /\ cap_table' = [cap_table EXCEPT ![First(sec_find_entry(pid))].caps = @ \ caps]
    /\ granted' = [granted EXCEPT ![pid] = @ \ caps]
    /\ UNCHANGED sec_initialized

sec_get_caps(pid) ==
    IF sec_initialized /\ sec_find_entry(pid) # {}
    THEN cap_table[First(sec_find_entry(pid))].caps ELSE {}

sec_check_cap(pid, caps) ==
    sec_initialized /\ sec_find_entry(pid) # {} /\ caps \subseteq sec_get_caps(pid)

CapNext ==
    \/ sec_init
    \/ \E pid \in Pids, caps \in (SUBSET Caps) \ {{}} : sec_grant_cap(pid, caps) \/ sec_revoke_cap(pid, caps)

CapSpec == CapInit /\ [][CapNext]_capVars

-----------------------------------------------------------------------------
(***************************************************************************)
(* sec_check_cap says yes for exactly what was granted to the pid and not  *)
(* revoked since, with the table full or not, and whatever was granted to  *)
(* others.                                                                 *)
(***************************************************************************)
CapsAsGranted ==
    \A pid \in Pids : \A caps \in (SUBSET Caps) \ {{}} :
        sec_check_cap(pid, caps) <=> caps \subseteq granted[pid]

=============================================================================
