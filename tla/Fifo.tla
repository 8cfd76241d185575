-------------------------------- MODULE Fifo --------------------------------
(***************************************************************************)
(* What a LockFreeQueue promises its two threads: elements leave in the    *)
(* order in which they entered, none is lost, duplicated or invented.      *)
(* The whole history is the state: `in' is everything ever published and   *)
(* `out' everything ever taken.                                            *)
(***************************************************************************)
EXTENDS Naturals, Sequences

CONSTANT Values   \* the elements (T of LockFreeQueue<T>)

VARIABLES in, out

fifoVars == <<in, out>>

FifoInit == in = << >> /\ out = << >>

\* One element becomes visible to the consumer.
Put == \E v \in Values : in' = Append(in, v) /\ UNCHANGED out

\* The oldest element not yet taken is taken.
Get == /\ Len(out) < Len(in)
       /\ out' = Append(out, in[Len(out) + 1])
       /\ UNCHANGED in

FifoNext == Put \/ Get

FifoSpec == FifoInit /\ [][FifoNext]_fifoVars
=============================================================================
