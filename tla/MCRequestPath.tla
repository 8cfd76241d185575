---------------------------- MODULE MCRequestPath ----------------------------
(***************************************************************************)
(* Model checking what carries a request: the bytes of a connection         *)
(* (TcpFraming) and the queue between two threads (LockFreeQueue).  They     *)
(* have no variable in common and no property speaks of both, so one of     *)
(* them takes its steps while the other is where it begins.                 *)
(*                                                                         *)
(* There are enough addresses for every node to be live at once, and few    *)
(* enough for deleted ones to be reused.                                    *)
(***************************************************************************)
EXTENDS LockFreeQueue, MCTcpFraming

CONSTANTS a1, a2, a3, a4, a5, v1, v2

MCAddr   == {a1, a2, a3, a4, a5}
MCOrder  == <<a1, a2, a3, a4, a5>>
MCValues == {v1, v2}

\* One of the states a connection begins in: while the queue moves, one is enough.
AnyConnection == FramingInit /\ body = 0 /\ magic /\ valid

\* Addresses that were not used yet are alike; the queue takes them in this order.
FirstUseInOrder ==
  \A i \in 1..(Len(MCOrder) - 1) :
    LET Used == {chain'[k] : k \in DOMAIN chain'} IN
    MCOrder[i + 1] \in Used => MCOrder[i] \in Used

RequestPathInit == Init /\ divider = a1 /\ value[a1] = v1 /\ FramingInit

RequestPathNext ==
  \/ Next /\ FirstUseInOrder /\ AnyConnection /\ UNCHANGED framingVars
  \/ FramingNext /\ Init /\ UNCHANGED vars

RequestPathSpec ==
  RequestPathInit /\ [][RequestPathNext]_<<vars, framingVars>> /\ FramingFairness
=============================================================================
