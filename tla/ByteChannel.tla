---------------------------- MODULE ByteChannel ----------------------------
(***************************************************************************)
(* What a pipe promises about the bytes: they come out in the order in     *)
(* which they went in, none lost, none twice, at most Capacity in between. *)
(* A process holds bytes only during a call, and while the channel is open *)
(* its call ends only when all its bytes went in, or as many as it asked   *)
(* for came out.                                                           *)
(***************************************************************************)
EXTENDS Naturals, Sequences

CONSTANTS Proc,     \* the processes at both ends
          Byte,     \* the bytes
          Capacity  \* bound on the bytes in the channel

VARIABLES contents,  \* the bytes put in and not yet taken out
          closed,    \* whether the channel is closed
          op,        \* per process, its call
          size,      \* per process, how many bytes its read asks for
          hand       \* per process, bytes it has taken out or has still to put in

channelVars == <<contents, closed, op, size, hand>>

Init ==
    /\ contents = <<>>
    /\ closed = FALSE
    /\ op = [p \in Proc |-> "none"]
    /\ size = [p \in Proc |-> 0]
    /\ hand = [p \in Proc |-> <<>>]

(***************************************************************************)
(* A call begins: to put bytes in, to take some out, or to close.          *)
(***************************************************************************)
BeginWrite(p) ==
    /\ op[p] = "none" /\ ~closed
    /\ op' = [op EXCEPT ![p] = "write"]
    /\ hand'[p] \in Seq(Byte) \ {<<>>}
    /\ hand' = [hand EXCEPT ![p] = hand'[p]]
    /\ UNCHANGED <<contents, closed, size>>

BeginRead(p) ==
    /\ op[p] = "none" /\ ~closed
    /\ op' = [op EXCEPT ![p] = "read"]
    /\ size'[p] \in Nat \ {0}
    /\ size' = [size EXCEPT ![p] = size'[p]]
    /\ UNCHANGED <<contents, closed, hand>>

Close(p) ==
    /\ op[p] = "none"
    /\ op' = [op EXCEPT ![p] = "close"]
    /\ closed' = TRUE
    /\ UNCHANGED <<contents, size, hand>>

(***************************************************************************)
(* The first k bytes in the hand of p go in, or the first k bytes inside   *)
(* come out to it.                                                         *)
(***************************************************************************)
Put(p, k) ==
    /\ op[p] = "write" /\ ~closed
    /\ Len(contents) + k <= Capacity
    /\ contents' = contents \o SubSeq(hand[p], 1, k)
    /\ hand' = [hand EXCEPT ![p] = SubSeq(@, k + 1, Len(@))]
    /\ UNCHANGED <<closed, op, size>>

Get(p, k) ==
    /\ op[p] = "read" /\ ~closed
    /\ Len(hand[p]) + k <= size[p]
    /\ hand' = [hand EXCEPT ![p] = @ \o SubSeq(contents, 1, k)]
    /\ contents' = SubSeq(contents, k + 1, Len(contents))
    /\ UNCHANGED <<closed, op, size>>

(***************************************************************************)
(* A call ends, and hands over what it took out.                           *)
(***************************************************************************)
End(p) ==
    /\ \/ op[p] = "write" /\ (hand[p] = <<>> \/ closed)
       \/ op[p] = "read" /\ (Len(hand[p]) = size[p] \/ closed)
       \/ op[p] = "close"
    /\ op' = [op EXCEPT ![p] = "none"]
    /\ size' = [size EXCEPT ![p] = 0]
    /\ hand' = [hand EXCEPT ![p] = <<>>]
    /\ UNCHANGED <<contents, closed>>

Next ==
    \E p \in Proc :
        \/ BeginWrite(p)
        \/ BeginRead(p)
        \/ Close(p)
        \/ \E k \in 0 .. Len(hand[p]) : Put(p, k)
        \/ \E k \in 0 .. Len(contents) : Get(p, k)
        \/ End(p)

Spec == Init /\ [][Next]_channelVars

=============================================================================
