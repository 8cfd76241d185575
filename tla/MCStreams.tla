------------------------------ MODULE MCStreams ------------------------------
(***************************************************************************)
(* Model checking the streams of an RtcWorker (StreamManager) and what      *)
(* their PeerConnections offer and are answered (Negotiation).  The two     *)
(* have no variable in common and no property speaks of both, so one of     *)
(* them takes its steps while the other is where it begins.                 *)
(*                                                                         *)
(* There are enough streams for a push to be replaced while it is pulled.   *)
(***************************************************************************)
EXTENDS StreamManager, MCNegotiation

CONSTANTS u1, u2, n1, p1, p2

MCUid    == {u1, u2}
MCPc     == {p1, p2}

\* One of the states the manager begins in: while offers are made, one is enough.
AnyManager == Init /\ by = u1

\* PeerConnections that are not there are alike: of both, p1 is made first.
P1First == (\A p \in Pc : peer[p] = Null) => peer'[p2] = Null

StreamsNext ==
  \/ Next /\ NegotiationInit /\ UNCHANGED negotiationVars
  \/ NegotiationNext /\ P1First /\ AnyManager /\ UNCHANGED vars

StreamsInit == Init /\ NegotiationInit

StreamsSpec == StreamsInit /\ [][StreamsNext]_<<vars, negotiationVars>> /\ Fairness
=============================================================================
