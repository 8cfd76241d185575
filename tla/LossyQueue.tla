----------------------------- MODULE LossyQueue -----------------------------
(***************************************************************************)
(* What a UDP socket promises whoever sends through it: packets leave in    *)
(* the order in which they were handed over, each at most once; a packet    *)
(* may be dropped when it is its turn, never overtaken.                     *)
(***************************************************************************)
EXTENDS Sequences

CONSTANT Packet

VARIABLES queue,   \* packets handed over and not yet gone
          sent     \* packets on the wire, in order

qVars == <<queue, sent>>

QInit == queue = << >> /\ sent = << >>

Offer == \E p \in Packet : queue' = Append(queue, p) /\ UNCHANGED sent

Deliver == /\ queue # << >>
           /\ sent' = Append(sent, Head(queue))
           /\ queue' = Tail(queue)

Drop == /\ queue # << >>
        /\ queue' = Tail(queue)
        /\ UNCHANGED sent

QNext == Offer \/ Deliver \/ Drop

QSpec == QInit /\ [][QNext]_qVars
=============================================================================
