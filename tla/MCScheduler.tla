---------------------------- MODULE MCScheduler ----------------------------
(***************************************************************************)
(* Instances of Scheduler for TLC.                                         *)
(***************************************************************************)
EXTENDS Scheduler

(***************************************************************************)
(* The exchange loop of scheduler_add_task, slot by slot, as the reference *)
(* that SortPass is compared with.                                         *)
(***************************************************************************)
Exchange(mem, s, i) ==
    IF mem[s[i]].priority > mem[s[i - 1]].priority
    THEN [s EXCEPT ![i] = s[i - 1], ![i - 1] = s[i]]
    ELSE s

ExchangeLoop(mem, s) ==
    LET after[i \in 1 .. Len(s)] ==
            IF i = Len(s) THEN s ELSE Exchange(mem, after[i + 1], i + 1)
    IN  IF s = <<>> THEN s ELSE after[1]

(***************************************************************************)
(* SortPass is the exchange loop on every list of up to 4 entries, sorted  *)
(* or not, with and without repeated entries.                              *)
(***************************************************************************)
ASSUME SortPassIsExchangeLoop ==
    \A priorities \in [1 .. 3 -> 0 .. 2] :
        LET mem == [p \in 1 .. 3 |-> [priority |-> priorities[p]]]
        IN  \A n \in 1 .. 4 : \A s \in [1 .. n -> 1 .. 3] :
                SortPass(mem, s) = ExchangeLoop(mem, s)

=============================================================================
