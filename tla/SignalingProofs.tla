---------------------------- MODULE SignalingProofs ----------------------------
(***************************************************************************)
(* What holds of the control plane for any number of clients, workers,      *)
(* descriptors and streams, and for pipes of any size.                      *)
(*                                                                         *)
(* Four inductive invariants, each on top of the ones before it:            *)
(*   IInv        a pipe's ints and the notify() calls in progress count the *)
(*               messages of the queue; descriptors, tables and connections *)
(*               agree;                                                     *)
(*   RequestInv  a client asks once, and its one message is on its route;   *)
(*   ReplyInv    no reply overtakes a message, and a connection holds       *)
(*               another client's only when that client is gone;            *)
(*   OrderInv    what was received for one RtcWorker stays in order in the  *)
(*               queues on the way and in what was executed.                *)
(* From them follow the four invariants of the model.                       *)
(***************************************************************************)
EXTENDS Signaling, FiniteSetTheorems, TLAPS

-----------------------------------------------------------------------------
(* Sequences, and counting in them *)

\* What appending does to a queue.
LEMMA AppendFacts ==
  ASSUME NEW S, NEW s \in Seq(S), NEW e \in S
  PROVE  /\ Append(s, e) \in Seq(S) /\ Len(s) \in Nat
         /\ Len(Append(s, e)) = Len(s) + 1
         /\ \A i \in 1..Len(s) : Append(s, e)[i] = s[i]
         /\ Append(s, e)[Len(s) + 1] = e
  OBVIOUS

\* What taking the first element off does to a queue.
LEMMA TailFacts ==
  ASSUME NEW S, NEW s \in Seq(S), s # << >>
  PROVE  /\ Head(s) \in S /\ Head(s) = s[1] /\ Tail(s) \in Seq(S)
         /\ Len(s) \in Nat /\ Len(s) >= 1 /\ Len(Tail(s)) = Len(s) - 1
         /\ \A i \in 1..(Len(s) - 1) : Tail(s)[i] = s[i + 1]
  OBVIOUS

\* An int has finitely many places in a pipe.
LEMMA PlacesFinite ==
  ASSUME NEW S, NEW s \in Seq(S), NEW x
  PROVE  IsFiniteSet(Places(s, x)) /\ Cardinality(Places(s, x)) \in Nat
<1>1. IsFiniteSet(1..Len(s))
  BY FS_Interval
<1>2. Places(s, x) \in SUBSET (1..Len(s))
  BY DEF Places
<1>3. IsFiniteSet(Places(s, x))
  BY <1>1, <1>2, FS_Subset
<1> QED BY <1>3, FS_CardinalityType

\* write() adds one place of what is written.
LEMMA PlacesAppend ==
  ASSUME NEW S, NEW s \in Seq(S), NEW e \in S, NEW x
  PROVE  Cardinality(Places(Append(s, e), x)) =
           IF e = x THEN Cardinality(Places(s, x)) + 1 ELSE Cardinality(Places(s, x))
<1>1. /\ Len(s) \in Nat /\ Len(Append(s, e)) = Len(s) + 1
      /\ \A i \in 1..Len(s) : Append(s, e)[i] = s[i]
      /\ Append(s, e)[Len(s) + 1] = e
  BY AppendFacts
<1>2. Len(s) + 1 \notin Places(s, x)
  BY <1>1 DEF Places
<1>3. CASE e = x
  <2>1. Places(Append(s, e), x) = Places(s, x) \cup {Len(s) + 1}
    BY <1>1, <1>3 DEF Places
  <2> QED BY <1>2, <1>3, <2>1, PlacesFinite, FS_AddElement
<1>4. CASE e # x
  <2>1. Places(Append(s, e), x) = Places(s, x)
    BY <1>1, <1>4 DEF Places
  <2> QED BY <1>4, <2>1
<1> QED BY <1>3, <1>4

\* read() takes one place of what is read.
LEMMA PlacesTail ==
  ASSUME NEW S, NEW s \in Seq(S), s # << >>, NEW x
  PROVE  Cardinality(Places(Tail(s), x)) =
           IF Head(s) = x THEN Cardinality(Places(s, x)) - 1 ELSE Cardinality(Places(s, x))
<1> DEFINE P == Places(Tail(s), x)
           Q == Places(s, x) \ {1}
           up == [i \in P |-> i + 1]
<1>1. /\ Head(s) = s[1] /\ Len(s) \in Nat /\ Len(s) >= 1
      /\ Tail(s) \in Seq(S) /\ Len(Tail(s)) = Len(s) - 1
      /\ \A i \in 1..(Len(s) - 1) : Tail(s)[i] = s[i + 1]
  BY TailFacts
<1>2. up \in [P -> Q]
  BY <1>1 DEF Places
<1>3. \A i, j \in P : up[i] = up[j] => i = j
  BY <1>1 DEF Places
<1>4. \A k \in Q : \E i \in P : up[i] = k
  <2> SUFFICES ASSUME NEW k \in Q PROVE k - 1 \in P /\ up[k - 1] = k
    OBVIOUS
  <2> QED BY <1>1 DEF Places
<1>5. ExistsBijection(P, Q)
  BY <1>2, <1>3, <1>4
     DEF ExistsBijection, Bijection, Injection, Surjection, IsInjective
<1>6. IsFiniteSet(P) /\ IsFiniteSet(Places(s, x))
  BY <1>1, PlacesFinite
<1>7. Cardinality(Q) = Cardinality(P)
  BY <1>5, <1>6, FS_Bijection
<1>8. Cardinality(Q) =
        IF 1 \in Places(s, x) THEN Cardinality(Places(s, x)) - 1 ELSE Cardinality(Places(s, x))
  BY <1>6, FS_RemoveElement
<1>9. 1 \in Places(s, x) <=> Head(s) = x
  BY <1>1 DEF Places
<1> QED BY <1>7, <1>8, <1>9

\* There are finitely many threads.
LEMMA ThreadFinite == IsFiniteSet(Thread)
<1>1. IsFiniteSet(SigWorkers)
  BY FS_Interval, SignalingAssumption DEF SigWorkers
<1>2. IsFiniteSet({RtcSrv}) /\ IsFiniteSet({SigSrv})
  BY FS_Singleton
<1> QED BY <1>1, <1>2, FS_Union, SignalingAssumption DEF Thread, Receiver

\* So finitely many wait to write.
LEMMA WritersFinite ==
  ASSUME NEW t, NEW int
  PROVE  IsFiniteSet(Writers(t, int)) /\ Cardinality(Writers(t, int)) \in Nat
<1>1. Writers(t, int) \in SUBSET Thread
  BY DEF Writers
<1>2. IsFiniteSet(Writers(t, int))
  BY <1>1, ThreadFinite, FS_Subset
<1> QED BY <1>2, FS_CardinalityType

-----------------------------------------------------------------------------
(* Pipes *)

\* notify() by a thread that was looping: one more writer, of that int to that pipe.
LEMMA WritersSend ==
  ASSUME TypeOK, NEW u \in Thread, Looping(u), NEW to \in Receiver,
         NEW int \in {"NEW_CONN", "RTC_MSG"}, Notifies(u, to, int),
         NEW t \in Receiver, NEW k \in {"NEW_CONN", "RTC_MSG"}
  PROVE  Cardinality(Writers(t, k)') =
           IF t = to /\ k = int THEN Cardinality(Writers(t, k)) + 1
                                ELSE Cardinality(Writers(t, k))
<1> DEFINE m == [to |-> to, int |-> int]
<1>1. m \in Pend /\ m # Null
  BY SignalingAssumption DEF Pend
<1>2. pend' = [pend EXCEPT ![u] = m] /\ pend[u] = Null /\ pend \in [Thread -> Pend \cup {Null}]
  BY DEF Notifies, Looping, TypeOK
<1>3. [to |-> t, int |-> k] = m <=> t = to /\ k = int
  OBVIOUS
<1>4. [to |-> t, int |-> k] # Null
  BY SignalingAssumption DEF Pend
<1> HIDE DEF m
<1>5. CASE t = to /\ k = int
  <2>1. u \notin Writers(t, k)
    BY <1>1, <1>2, <1>3, <1>5 DEF Writers
  <2>2. Writers(t, k)' = Writers(t, k) \cup {u}
    BY <1>2, <1>3, <1>5 DEF Writers
  <2> QED BY <1>5, <2>1, <2>2, WritersFinite, FS_AddElement
<1>6. CASE ~ (t = to /\ k = int)
  <2>1. Writers(t, k)' = Writers(t, k)
    BY <1>2, <1>3, <1>4, <1>6 DEF Writers
  <2> QED BY <1>6, <2>1
<1> QED BY <1>5, <1>6

\* A handler that reads its pipe takes one int of the kind it was woken by.
LEMMA PlacesRead ==
  ASSUME TypeOK, NEW u \in Receiver, NEW int \in {"NEW_CONN", "RTC_MSG"},
         Notified(u, int), ReadPipe(u), NEW t \in Receiver, NEW k
  PROVE  /\ pipe' \in [Receiver -> Seq({"NEW_CONN", "RTC_MSG"})]
         /\ Cardinality(Places(pipe'[t], k)) =
              IF t = u /\ k = int THEN Cardinality(Places(pipe[t], k)) - 1
                                  ELSE Cardinality(Places(pipe[t], k))
         /\ Cardinality(Places(pipe[u], int)) > 0
<1>1. /\ pipe \in [Receiver -> Seq({"NEW_CONN", "RTC_MSG"})]
      /\ pipe' = [pipe EXCEPT ![u] = Tail(pipe[u])] /\ pipe[u] # << >> /\ Head(pipe[u]) = int
  BY DEF TypeOK, ReadPipe, Notified
<1>2. pipe[u] \in Seq({"NEW_CONN", "RTC_MSG"}) /\ pipe[t] \in Seq({"NEW_CONN", "RTC_MSG"})
  BY <1>1
<1>3. Tail(pipe[u]) \in Seq({"NEW_CONN", "RTC_MSG"})
  BY <1>1, <1>2, TailFacts
<1>4. 1 \in Places(pipe[u], int)
  BY <1>1, <1>2, TailFacts DEF Places
<1>5. Cardinality(Places(pipe[u], int)) > 0
  BY <1>2, <1>4, PlacesFinite, FS_EmptySet
<1>6. CASE t = u
  <2>1. pipe'[t] = Tail(pipe[t]) /\ pipe[t] # << >> /\ Head(pipe[t]) = int
    BY <1>1, <1>6
  <2>2. Cardinality(Places(Tail(pipe[t]), k)) =
          IF Head(pipe[t]) = k THEN Cardinality(Places(pipe[t], k)) - 1
                               ELSE Cardinality(Places(pipe[t], k))
    BY <1>2, <2>1, PlacesTail
  <2> QED BY <1>1, <1>3, <1>5, <1>6, <2>1, <2>2
<1>7. CASE t # u
  BY <1>1, <1>3, <1>5, <1>7
<1> QED BY <1>6, <1>7

\* write() of notify() returns: an int that was to be written is in the pipe.
LEMMA NotifyInts ==
  ASSUME TypeOK, NEW u \in Thread, Notify(u)
  PROVE  /\ pipe' \in [Receiver -> Seq({"NEW_CONN", "RTC_MSG"})]
         /\ pend' \in [Thread -> Pend \cup {Null}]
         /\ \A t \in Receiver, k \in {"NEW_CONN", "RTC_MSG"} : Ints(t, k)' = Ints(t, k)
<1> DEFINE to == pend[u].to
           int == pend[u].int
<1>1. /\ pend \in [Thread -> Pend \cup {Null}] /\ pend[u] \in Pend
      /\ to \in Receiver /\ int \in {"NEW_CONN", "RTC_MSG"}
      /\ pend[u] = [to |-> to, int |-> int]
  BY DEF Notify, Looping, TypeOK, Pend
<1>2. /\ pipe' = [pipe EXCEPT ![to] = Append(pipe[to], int)]
      /\ pend' = [pend EXCEPT ![u] = Null]
      /\ pipe \in [Receiver -> Seq({"NEW_CONN", "RTC_MSG"})]
  BY DEF Notify, TypeOK
<1> HIDE DEF to, int
<1>3. pipe' \in [Receiver -> Seq({"NEW_CONN", "RTC_MSG"})]
  BY <1>1, <1>2
<1>4. ASSUME NEW t \in Receiver, NEW k \in {"NEW_CONN", "RTC_MSG"}
      PROVE  Ints(t, k)' = Ints(t, k)
  <2>1. /\ Cardinality(Places(pipe[t], k)) \in Nat
        /\ Cardinality(Places(pipe'[t], k)) =
             IF t = to /\ k = int THEN Cardinality(Places(pipe[t], k)) + 1
                                  ELSE Cardinality(Places(pipe[t], k))
    <3>1. pipe[t] \in Seq({"NEW_CONN", "RTC_MSG"})
      BY <1>2
    <3>2. Cardinality(Places(Append(pipe[t], int), k)) =
            IF int = k THEN Cardinality(Places(pipe[t], k)) + 1
                       ELSE Cardinality(Places(pipe[t], k))
      BY <1>1, <3>1, PlacesAppend
    <3>3. Cardinality(Places(pipe[t], k)) \in Nat
      BY <3>1, PlacesFinite
    <3> QED BY <1>2, <3>2, <3>3
  <2>2. /\ Cardinality(Writers(t, k)) \in Nat
        /\ Cardinality(Writers(t, k)') =
             IF t = to /\ k = int THEN Cardinality(Writers(t, k)) - 1
                                  ELSE Cardinality(Writers(t, k))
    <3>1. [to |-> t, int |-> k] # Null
      BY SignalingAssumption DEF Pend
    <3>2. [to |-> t, int |-> k] = pend[u] <=> t = to /\ k = int
      BY <1>1
    <3>3. Writers(t, k)' = Writers(t, k) \ {u}
      BY <1>1, <1>2, <3>1 DEF Writers
    <3>4. u \in Writers(t, k) <=> t = to /\ k = int
      BY <3>2 DEF Writers
    <3> QED BY <3>3, <3>4, WritersFinite, FS_RemoveElement, ZenonT(40)
  <2>3. /\ Ints(t, k) = Cardinality(Places(pipe[t], k)) + Cardinality(Writers(t, k))
        /\ Ints(t, k)' = Cardinality(Places(pipe'[t], k)) + Cardinality(Writers(t, k)')
    BY DEF Ints
  <2> QED BY <2>1, <2>2, <2>3
<1> QED BY <1>1, <1>2, <1>3, <1>4

\* The ints of a receiver after a handler has read its pipe and before it notifies.
LEMMA IntsRead ==
  ASSUME TypeOK, NEW u \in Receiver, NEW int \in {"NEW_CONN", "RTC_MSG"},
         Notified(u, int), ReadPipe(u), pend' = pend
  PROVE  /\ pipe' \in [Receiver -> Seq({"NEW_CONN", "RTC_MSG"})]
         /\ Ints(u, int) > 0
         /\ \A t \in Receiver, k \in {"NEW_CONN", "RTC_MSG"} :
              /\ Ints(t, k) \in Nat
              /\ Ints(t, k)' = IF t = u /\ k = int THEN Ints(t, k) - 1 ELSE Ints(t, k)
<1>1. ASSUME NEW t \in Receiver, NEW k \in {"NEW_CONN", "RTC_MSG"}
      PROVE  /\ Ints(t, k) \in Nat
             /\ Ints(t, k)' = IF t = u /\ k = int THEN Ints(t, k) - 1 ELSE Ints(t, k)
  <2>1. Cardinality(Places(pipe[t], k)) \in Nat /\ Cardinality(Writers(t, k)) \in Nat
    BY PlacesFinite, WritersFinite DEF TypeOK
  <2>2. Writers(t, k)' = Writers(t, k)
    BY DEF Writers
  <2>3. Cardinality(Places(pipe'[t], k)) =
          IF t = u /\ k = int THEN Cardinality(Places(pipe[t], k)) - 1
                              ELSE Cardinality(Places(pipe[t], k))
    BY PlacesRead, ZenonT(40)
  <2> QED BY <2>1, <2>2, <2>3 DEF Ints
<1>2. Ints(u, int) > 0 /\ pipe' \in [Receiver -> Seq({"NEW_CONN", "RTC_MSG"})]
  <2>1. Cardinality(Places(pipe[u], int)) \in Nat /\ Cardinality(Writers(u, int)) \in Nat
    BY PlacesFinite, WritersFinite DEF TypeOK
  <2>2. /\ Cardinality(Places(pipe[u], int)) > 0
        /\ pipe' \in [Receiver -> Seq({"NEW_CONN", "RTC_MSG"})]
    BY PlacesRead
  <2> QED BY <2>1, <2>2 DEF Ints
<1> QED BY <1>1, <1>2

\* The ints of a receiver after a thread that read nothing has begun to notify.
LEMMA IntsSend ==
  ASSUME TypeOK, NEW u \in Thread, Looping(u), NEW to \in Receiver,
         NEW int \in {"NEW_CONN", "RTC_MSG"}, Notifies(u, to, int), pipe' = pipe
  PROVE  /\ pend' \in [Thread -> Pend \cup {Null}]
         /\ \A t \in Receiver, k \in {"NEW_CONN", "RTC_MSG"} :
              /\ Ints(t, k) \in Nat
              /\ Ints(t, k)' = IF t = to /\ k = int THEN Ints(t, k) + 1 ELSE Ints(t, k)
<1>1. ASSUME NEW t \in Receiver, NEW k \in {"NEW_CONN", "RTC_MSG"}
      PROVE  /\ Ints(t, k) \in Nat
             /\ Ints(t, k)' = IF t = to /\ k = int THEN Ints(t, k) + 1 ELSE Ints(t, k)
  <2>1. Cardinality(Places(pipe[t], k)) \in Nat /\ Cardinality(Writers(t, k)) \in Nat
    BY PlacesFinite, WritersFinite DEF TypeOK
  <2> QED BY <2>1, WritersSend DEF Ints
<1>2. pend' \in [Thread -> Pend \cup {Null}]
  BY DEF Notifies, TypeOK, Pend
<1> QED BY <1>1, <1>2

\* The ints of a receiver after a handler has read its pipe and begun to notify.
LEMMA IntsPass ==
  ASSUME TypeOK, NEW u \in Receiver, Notified(u, "RTC_MSG"), ReadPipe(u),
         NEW to \in Receiver, to # u, Notifies(u, to, "RTC_MSG")
  PROVE  /\ pipe' \in [Receiver -> Seq({"NEW_CONN", "RTC_MSG"})]
         /\ pend' \in [Thread -> Pend \cup {Null}]
         /\ Ints(u, "RTC_MSG") > 0
         /\ \A t \in Receiver, k \in {"NEW_CONN", "RTC_MSG"} :
              /\ Ints(t, k) \in Nat
              /\ Ints(t, k)' = IF t = u /\ k = "RTC_MSG" THEN Ints(t, k) - 1
                               ELSE IF t = to /\ k = "RTC_MSG" THEN Ints(t, k) + 1
                               ELSE Ints(t, k)
<1>1. u \in Thread /\ Looping(u)
  BY DEF Thread, Notified
<1>2. ASSUME NEW t \in Receiver, NEW k \in {"NEW_CONN", "RTC_MSG"}
      PROVE  /\ Ints(t, k) \in Nat
             /\ Ints(t, k)' = IF t = u /\ k = "RTC_MSG" THEN Ints(t, k) - 1
                              ELSE IF t = to /\ k = "RTC_MSG" THEN Ints(t, k) + 1
                              ELSE Ints(t, k)
  <2>1. Cardinality(Places(pipe[t], k)) \in Nat /\ Cardinality(Writers(t, k)) \in Nat
    BY PlacesFinite, WritersFinite DEF TypeOK
  <2>2. Cardinality(Places(pipe'[t], k)) =
          IF t = u /\ k = "RTC_MSG" THEN Cardinality(Places(pipe[t], k)) - 1
                                    ELSE Cardinality(Places(pipe[t], k))
    BY PlacesRead, ZenonT(40)
  <2>3. Cardinality(Writers(t, k)') =
          IF t = to /\ k = "RTC_MSG" THEN Cardinality(Writers(t, k)) + 1
                                     ELSE Cardinality(Writers(t, k))
    BY <1>1, WritersSend
  <2> QED BY <2>1, <2>2, <2>3 DEF Ints
<1>3. Ints(u, "RTC_MSG") > 0 /\ pipe' \in [Receiver -> Seq({"NEW_CONN", "RTC_MSG"})]
  <2>1. /\ Cardinality(Places(pipe[u], "RTC_MSG")) \in Nat
        /\ Cardinality(Writers(u, "RTC_MSG")) \in Nat
    BY PlacesFinite, WritersFinite DEF TypeOK
  <2> QED BY <2>1, PlacesRead DEF Ints
<1>4. pend' \in [Thread -> Pend \cup {Null}]
  BY DEF Notifies, TypeOK, Pend
<1> QED BY <1>2, <1>3, <1>4

-----------------------------------------------------------------------------
(* Queues *)

\* push_msg() on the queues q, whose elements are of S, leaves the queues r.
LEMMA PushFacts ==
  ASSUME NEW D, NEW S, NEW q \in [D -> Seq(S)], NEW t \in D, NEW m \in S,
         NEW r, r = Push(q, t, m)
  PROVE  /\ r \in [D -> Seq(S)]
         /\ \A u \in D : u # t => r[u] = q[u]
         /\ Len(q[t]) \in Nat /\ Len(r[t]) = Len(q[t]) + 1
         /\ \A i \in 1..Len(q[t]) : r[t][i] = q[t][i]
         /\ r[t][Len(q[t]) + 1] = m
<1>1. q[t] \in Seq(S)
  OBVIOUS
<1>2. r[t] = Append(q[t], m)
  BY DEF Push
<1>3. Append(q[t], m) \in Seq(S)
  BY <1>1, AppendFacts
<1>4. r \in [D -> Seq(S)] /\ \A u \in D : u # t => r[u] = q[u]
  BY <1>3 DEF Push
<1> QED BY <1>1, <1>2, <1>4, AppendFacts

\* pop_msg() on the queues q.
LEMMA PopFacts ==
  ASSUME NEW D, NEW S, NEW q \in [D -> Seq(S)], NEW t \in D, q[t] # << >>
  PROVE  /\ Pop(q, t) \in [D -> Seq(S)]
         /\ \A u \in D : u # t => Pop(q, t)[u] = q[u]
         /\ Head(q[t]) \in S /\ Head(q[t]) = q[t][1]
         /\ Len(q[t]) \in Nat /\ Len(q[t]) >= 1 /\ Len(Pop(q, t)[t]) = Len(q[t]) - 1
         /\ \A i \in 1..(Len(q[t]) - 1) : Pop(q, t)[t][i] = q[t][i + 1]
<1>1. q[t] \in Seq(S)
  OBVIOUS
<1>2. Pop(q, t)[t] = Tail(q[t])
  BY DEF Pop
<1>3. Tail(q[t]) \in Seq(S)
  BY <1>1, TailFacts
<1>4. Pop(q, t) \in [D -> Seq(S)] /\ \A u \in D : u # t => Pop(q, t)[u] = q[u]
  BY <1>3 DEF Pop
<1> QED BY <1>1, <1>2, <1>4, TailFacts

\* The same of the queues of messages.
LEMMA PushMsgFacts ==
  ASSUME NEW q \in [Receiver -> Seq(Request)], NEW t \in Receiver, NEW m \in Request,
         NEW r, r = Push(q, t, m)
  PROVE  /\ r \in [Receiver -> Seq(Request)]
         /\ \A u \in Receiver : u # t => r[u] = q[u]
         /\ Len(q[t]) \in Nat /\ Len(r[t]) = Len(q[t]) + 1
         /\ \A i \in 1..Len(q[t]) : r[t][i] = q[t][i]
         /\ r[t][Len(q[t]) + 1] = m
BY PushFacts

\* A message goes from the head of one queue to the end of another.
LEMMA PassFacts ==
  ASSUME NEW q \in [Receiver -> Seq(Request)], NEW t \in Receiver, NEW u \in Receiver,
         t # u, q[t] # << >>, NEW r, r = Push(Pop(q, t), u, Head(q[t]))
  PROVE  /\ r \in [Receiver -> Seq(Request)]
         /\ \A v \in Receiver : v # t /\ v # u => r[v] = q[v]
         /\ Head(q[t]) \in Request /\ Head(q[t]) = q[t][1]
         /\ Len(q[t]) \in Nat /\ Len(q[t]) >= 1 /\ Len(r[t]) = Len(q[t]) - 1
         /\ \A i \in 1..(Len(q[t]) - 1) : r[t][i] = q[t][i + 1]
         /\ Len(q[u]) \in Nat /\ Len(r[u]) = Len(q[u]) + 1
         /\ \A i \in 1..Len(q[u]) : r[u][i] = q[u][i]
         /\ r[u][Len(q[u]) + 1] = Head(q[t])
<1>1. q[t] \in Seq(Request) /\ q[u] \in Seq(Request)
  OBVIOUS
<1>2. Head(q[t]) \in Request /\ Tail(q[t]) \in Seq(Request)
  BY <1>1, TailFacts
<1>3. Append(q[u], Head(q[t])) \in Seq(Request)
  BY <1>1, <1>2, AppendFacts
<1>4. r = [q EXCEPT ![t] = Tail(q[t]), ![u] = Append(q[u], Head(q[t]))]
  BY DEF Push, Pop
<1>5. /\ r \in [Receiver -> Seq(Request)] /\ \A v \in Receiver : v # t /\ v # u => r[v] = q[v]
      /\ r[t] = Tail(q[t]) /\ r[u] = Append(q[u], Head(q[t]))
  BY <1>2, <1>3, <1>4
<1>6. /\ Head(q[t]) = q[t][1] /\ Len(q[t]) \in Nat /\ Len(q[t]) >= 1
      /\ Len(Tail(q[t])) = Len(q[t]) - 1
      /\ \A i \in 1..(Len(q[t]) - 1) : Tail(q[t])[i] = q[t][i + 1]
  BY <1>1, TailFacts
<1>7. /\ Len(q[u]) \in Nat /\ Len(Append(q[u], Head(q[t]))) = Len(q[u]) + 1
      /\ \A i \in 1..Len(q[u]) : Append(q[u], Head(q[t]))[i] = q[u][i]
      /\ Append(q[u], Head(q[t]))[Len(q[u]) + 1] = Head(q[t])
  BY <1>1, <1>2, AppendFacts
<1> QED BY <1>2, <1>5, <1>6, <1>7

-----------------------------------------------------------------------------
(* Descriptors *)

\* What a worker's table says of the connection it finds there.
LEMMA ConnFacts ==
  ASSUME IInv, NEW w \in SigWorkers, NEW f \in Fd, tcpConns[w][f] # Null
  PROVE  /\ tcpConns[w][f] \in Ptr /\ conn[tcpConns[w][f]] \in Conn
         /\ conn[tcpConns[w][f]] # Null
         /\ conn[tcpConns[w][f]].fd = f /\ conn[tcpConns[w][f]].client \in Client
         /\ \A v \in SigWorkers, g \in Fd : tcpConns[v][g] = tcpConns[w][f] => v = w /\ g = f
<1>1. tcpConns[w][f] \in Ptr
  BY DEF IInv, TypeOK
<1>2. conn[tcpConns[w][f]] # Null /\ conn[tcpConns[w][f]].fd = f
  BY DEF IInv, OneOwnerPerFd
<1>3. conn[tcpConns[w][f]] \in Conn
  BY <1>1, <1>2 DEF IInv, TypeOK
<1>4. conn[tcpConns[w][f]].client \in Client
  BY <1>3 DEF Conn
<1>5. ASSUME NEW v \in SigWorkers, NEW g \in Fd, tcpConns[v][g] = tcpConns[w][f]
      PROVE  v = w /\ g = f
  <2>1. conn[tcpConns[v][g]].fd = g
    BY <1>5 DEF IInv, OneOwnerPerFd
  <2>2. g = f
    BY <1>2, <1>5, <2>1
  <2> QED BY <1>5, <2>2 DEF IInv, OneFdPerClient
<1> QED BY <1>1, <1>2, <1>3, <1>4, <1>5

\* And of the descriptor, unless the worker is just closing it.
LEMMA OpenFacts ==
  ASSUME IInv, NEW w \in SigWorkers, NEW f \in Fd, tcpConns[w][f] # Null,
         closing[w] # tcpConns[w][f]
  PROVE  /\ sock[f] = conn[tcpConns[w][f]].client /\ sock[f] # Null
         /\ \A v \in SigWorkers : v # w => tcpConns[v][f] \in {Null, closing[v]}
<1>1. /\ sock[f] = conn[tcpConns[w][f]].client
      /\ \A v \in SigWorkers : v # w => tcpConns[v][f] \in {Null, closing[v]}
  BY DEF IInv, OneOwnerPerFd
<1>2. sock[f] # Null
  BY <1>1, ConnFacts, SignalingAssumption
<1> QED BY <1>1, <1>2

\* A step that opens, closes and hands over no descriptor keeps what is known of them.
LEMMA FdsKept ==
  ASSUME IInv, UNCHANGED <<closing, tcpConns, connq, sock, phase>>,
         \A p \in Ptr : /\ conn'[p] = Null <=> conn[p] = Null
                        /\ conn[p] # Null => /\ conn'[p].fd = conn[p].fd
                                             /\ conn'[p].client = conn[p].client
  PROVE  OneOwnerPerFd' /\ QueuedFds' /\ OneFdPerClient' /\ ClosedIsOwn'
<1>1. OneOwnerPerFd'
  <2> SUFFICES ASSUME NEW w \in SigWorkers, NEW f \in Fd, tcpConns[w][f] # Null
               PROVE  /\ conn'[tcpConns[w][f]] # Null
                      /\ conn'[tcpConns[w][f]].fd = f
                      /\ closing[w] # tcpConns[w][f] =>
                           /\ sock[f] = conn'[tcpConns[w][f]].client
                           /\ \A v \in SigWorkers \ {w} : tcpConns[v][f] \in {Null, closing[v]}
    BY DEF OneOwnerPerFd
  <2> QED BY ConnFacts, OpenFacts
<1>2. QueuedFds'
  BY DEF IInv, QueuedFds
<1>3. OneFdPerClient'
  BY DEF IInv, OneFdPerClient
<1>4. ClosedIsOwn'
  <2>1. \A w \in SigWorkers : closing[w] # Null =>
          /\ closing[w] \in Ptr /\ conn[closing[w]] # Null
          /\ tcpConns[w][conn[closing[w]].fd] = closing[w]
          /\ phase[conn[closing[w]].client] = "gone"
    BY DEF IInv, ClosedIsOwn, TypeOK
  <2> QED BY <2>1 DEF ClosedIsOwn
<1> QED BY <1>1, <1>2, <1>3, <1>4

\* close() leaves every other connection and descriptor alone.
LEMMA CloseFds ==
  ASSUME IInv, NEW w \in SigWorkers, NEW f \in Fd, tcpConns[w][f] # Null,
         closing[w] = Null, CloseConn(w, tcpConns[w][f]), UNCHANGED <<tcpConns, connq>>,
         \A p \in Ptr : /\ conn'[p] = Null <=> conn[p] = Null
                        /\ conn[p] # Null => /\ conn'[p].fd = conn[p].fd
                                             /\ conn'[p].client = conn[p].client
  PROVE  /\ OneOwnerPerFd' /\ QueuedFds' /\ OneFdPerClient' /\ ClosedIsOwn'
         /\ sock' \in [Fd -> Client \cup {Null}]
         /\ phase' \in [Client -> {"new", "open", "gone"}]
         /\ closing' \in [SigWorkers -> Ptr \cup {Null}]
<1> DEFINE p == tcpConns[w][f]
           c == conn[p].client
<1>1. /\ p \in Ptr /\ conn[p] \in Conn /\ conn[p] # Null /\ conn[p].fd = f /\ c \in Client
      /\ \A v \in SigWorkers, g \in Fd : tcpConns[v][g] = p => v = w /\ g = f
  BY ConnFacts
<1>2. /\ sock[f] = c /\ sock[f] # Null
      /\ \A v \in SigWorkers : v # w => tcpConns[v][f] \in {Null, closing[v]}
  BY OpenFacts
<1>3. /\ sock' = [sock EXCEPT ![f] = Null]
      /\ phase' = [phase EXCEPT ![c] = "gone"]
      /\ closing' = [closing EXCEPT ![w] = p]
  BY <1>1 DEF CloseConn
<1>4. /\ sock \in [Fd -> Client \cup {Null}]
      /\ phase \in [Client -> {"new", "open", "gone"}]
      /\ closing \in [SigWorkers -> Ptr \cup {Null}]
      /\ tcpConns \in [SigWorkers -> [Fd -> Ptr \cup {Null}]]
      /\ conn \in [Ptr -> Conn \cup {Null}]
      /\ connq \in [SigWorkers -> Seq(Fd)]
  BY DEF IInv, TypeOK
<1>5. p # Null /\ tcpConns[w][f] = p
  OBVIOUS
<1> HIDE DEF p, c
<1>6. /\ sock' \in [Fd -> Client \cup {Null}]
      /\ phase' \in [Client -> {"new", "open", "gone"}]
      /\ closing' \in [SigWorkers -> Ptr \cup {Null}]
  BY <1>1, <1>3, <1>4
<1>7. /\ \A g \in Fd : sock'[g] = IF g = f THEN Null ELSE sock[g]
      /\ \A v \in SigWorkers : closing'[v] = IF v = w THEN p ELSE closing[v]
      /\ \A d \in Client : phase'[d] = IF d = c THEN "gone" ELSE phase[d]
  BY <1>1, <1>3, <1>4
<1>8. OneOwnerPerFd'
  <2> SUFFICES ASSUME NEW v \in SigWorkers, NEW g \in Fd, tcpConns[v][g] # Null
               PROVE  /\ conn'[tcpConns[v][g]] # Null
                      /\ conn'[tcpConns[v][g]].fd = g
                      /\ closing'[v] # tcpConns[v][g] =>
                           /\ sock'[g] = conn'[tcpConns[v][g]].client
                           /\ \A u \in SigWorkers \ {v} : tcpConns[u][g] \in {Null, closing'[u]}
    BY DEF OneOwnerPerFd
  <2>1. /\ tcpConns[v][g] \in Ptr /\ conn[tcpConns[v][g]] # Null /\ conn[tcpConns[v][g]].fd = g
    BY ConnFacts
  <2>2. ASSUME closing'[v] # tcpConns[v][g]
        PROVE  /\ sock'[g] = conn'[tcpConns[v][g]].client
               /\ \A u \in SigWorkers \ {v} : tcpConns[u][g] \in {Null, closing'[u]}
    <3>1. closing[v] # tcpConns[v][g]
      BY <1>7, <2>2
    <3>2. /\ sock[g] = conn[tcpConns[v][g]].client
          /\ \A u \in SigWorkers : u # v => tcpConns[u][g] \in {Null, closing[u]}
      BY <3>1, OpenFacts
    <3>3. g # f
      BY <1>5, <1>7, <2>2, <3>2
    <3>4. sock'[g] = conn'[tcpConns[v][g]].client
      BY <1>7, <2>1, <3>2, <3>3
    <3>5. \A u \in SigWorkers \ {v} : tcpConns[u][g] \in {Null, closing'[u]}
      BY <1>7, <3>2
    <3> QED BY <3>4, <3>5
  <2> QED BY <2>1, <2>2
<1>9. QueuedFds'
  <2>1. \A v \in SigWorkers : \A i \in 1..Len(connq[v]) :
          connq[v][i] \in Fd /\ connq[v][i] # f
    BY <1>4, <1>5 DEF IInv, QueuedFds
  <2>2. \A v \in SigWorkers : \A i \in 1..Len(connq[v]) :
          /\ sock'[connq[v][i]] # Null
          /\ \A u \in SigWorkers : tcpConns[u][connq[v][i]] \in {Null, closing'[u]}
    BY <1>7, <2>1 DEF IInv, QueuedFds
  <2>3. \A v, u \in SigWorkers : \A i \in 1..Len(connq[v]), j \in 1..Len(connq[u]) :
          connq[v][i] = connq[u][j] => v = u /\ i = j
    BY DEF IInv, QueuedFds
  <2>4. connq' = connq /\ tcpConns' = tcpConns
    OBVIOUS
  <2> QED BY <2>2, <2>3, <2>4 DEF QueuedFds
<1>10. OneFdPerClient'
  <2>1. \A g \in Fd : sock'[g] # Null => g # f /\ sock'[g] = sock[g]
    BY <1>7
  <2>2. \A g, h \in Fd : sock[g] # Null /\ sock[g] = sock[h] => g = h
    BY DEF IInv, OneFdPerClient
  <2>3. \A g \in Fd : sock'[g] # Null => phase'[sock'[g]] = "open"
    <3> SUFFICES ASSUME NEW g \in Fd, sock'[g] # Null PROVE phase'[sock'[g]] = "open"
      OBVIOUS
    <3>1. sock[g] # c /\ sock[g] \in Client /\ phase[sock[g]] = "open"
      BY <1>2, <1>4, <2>1, <2>2 DEF IInv, OneFdPerClient
    <3> QED BY <1>7, <2>1, <3>1
  <2>4. \A g, h \in Fd : sock'[g] # Null /\ sock'[g] = sock'[h] => g = h
    BY <2>1, <2>2
  <2>5. /\ \A q \in Ptr : conn'[q] # Null => \E v \in SigWorkers : tcpConns[v][conn'[q].fd] = q
        /\ \A v, u \in SigWorkers, g \in Fd :
             tcpConns[v][g] # Null /\ tcpConns[v][g] = tcpConns[u][g] => v = u
        /\ \A q, r \in Ptr :
             conn'[q] # Null /\ conn'[r] # Null /\ conn'[q].client = conn'[r].client => q = r
    BY DEF IInv, OneFdPerClient
  <2> QED BY <2>3, <2>4, <2>5 DEF OneFdPerClient
<1>11. ClosedIsOwn'
  <2> SUFFICES ASSUME NEW v \in SigWorkers, closing'[v] # Null
               PROVE  /\ conn'[closing'[v]] # Null
                      /\ tcpConns[v][conn'[closing'[v]].fd] = closing'[v]
                      /\ phase'[conn'[closing'[v]].client] = "gone"
    BY DEF ClosedIsOwn
  <2>1. CASE v = w
    BY <1>1, <1>5, <1>7, <2>1 DEF c
  <2>2. CASE v # w
    <3>1. closing'[v] = closing[v] /\ closing[v] \in Ptr
      BY <1>4, <1>7, <2>2
    <3>2. /\ conn[closing[v]] # Null /\ tcpConns[v][conn[closing[v]].fd] = closing[v]
          /\ phase[conn[closing[v]].client] = "gone"
      BY <3>1 DEF IInv, ClosedIsOwn
    <3>3. conn[closing[v]].client \in Client
      BY <1>4, <3>1, <3>2 DEF Conn
    <3> QED BY <1>7, <3>1, <3>2, <3>3
  <2> QED BY <2>1, <2>2
<1> QED BY <1>6, <1>8, <1>9, <1>10, <1>11

\* _remove_conn() takes one connection out of one table.
LEMMA RemoveFds ==
  ASSUME IInv, NEW w \in SigWorkers, RemoveConn(w)
  PROVE  /\ OneOwnerPerFd' /\ QueuedFds' /\ OneFdPerClient' /\ ClosedIsOwn'
         /\ closing' \in [SigWorkers -> Ptr \cup {Null}]
         /\ tcpConns' \in [SigWorkers -> [Fd -> Ptr \cup {Null}]]
         /\ conn' \in [Ptr -> Conn \cup {Null}]
<1> DEFINE p == closing[w]
           f == conn[p].fd
<1>1. /\ sock \in [Fd -> Client \cup {Null}]
      /\ closing \in [SigWorkers -> Ptr \cup {Null}]
      /\ tcpConns \in [SigWorkers -> [Fd -> Ptr \cup {Null}]]
      /\ conn \in [Ptr -> Conn \cup {Null}]
      /\ connq \in [SigWorkers -> Seq(Fd)]
  BY DEF IInv, TypeOK
<1>2. /\ p # Null /\ UNCHANGED <<connq, sock, phase>>
      /\ tcpConns' = [tcpConns EXCEPT ![w][f] = Null]
      /\ conn' = [conn EXCEPT ![p] = Null]
      /\ closing' = [closing EXCEPT ![w] = Null]
  BY DEF RemoveConn, net
<1>3. p \in Ptr /\ conn[p] # Null /\ tcpConns[w][f] = p
  BY <1>1, <1>2 DEF IInv, ClosedIsOwn
<1>4. f \in Fd
  BY <1>1, <1>3 DEF Conn
<1>5. \A v \in SigWorkers, g \in Fd : tcpConns[v][g] = p => v = w /\ g = f
  BY <1>2, <1>3, <1>4, ConnFacts
<1>6. closing[w] = p
  OBVIOUS
<1> HIDE DEF p, f
<1>7. /\ closing' \in [SigWorkers -> Ptr \cup {Null}]
      /\ tcpConns' \in [SigWorkers -> [Fd -> Ptr \cup {Null}]]
      /\ conn' \in [Ptr -> Conn \cup {Null}]
  BY <1>1, <1>2, <1>3, <1>4
<1>8. /\ \A v \in SigWorkers, g \in Fd :
           tcpConns'[v][g] = IF v = w /\ g = f THEN Null ELSE tcpConns[v][g]
      /\ \A v \in SigWorkers : closing'[v] = IF v = w THEN Null ELSE closing[v]
      /\ \A q \in Ptr : conn'[q] = IF q = p THEN Null ELSE conn[q]
  BY <1>1, <1>2, <1>3, <1>4
<1>9. OneOwnerPerFd'
  <2> SUFFICES ASSUME NEW v \in SigWorkers, NEW g \in Fd, tcpConns'[v][g] # Null
               PROVE  /\ conn'[tcpConns'[v][g]] # Null
                      /\ conn'[tcpConns'[v][g]].fd = g
                      /\ closing'[v] # tcpConns'[v][g] =>
                           /\ sock[g] = conn'[tcpConns'[v][g]].client
                           /\ \A u \in SigWorkers \ {v} :
                                tcpConns'[u][g] \in {Null, closing'[u]}
    BY <1>2 DEF OneOwnerPerFd
  <2>1. tcpConns'[v][g] = tcpConns[v][g] /\ tcpConns[v][g] # p /\ tcpConns[v][g] # Null
    BY <1>5, <1>8
  <2>2. /\ tcpConns[v][g] \in Ptr /\ conn[tcpConns[v][g]] # Null
        /\ conn[tcpConns[v][g]].fd = g
    BY <2>1, ConnFacts
  <2>3. conn'[tcpConns[v][g]] = conn[tcpConns[v][g]]
    BY <1>8, <2>1, <2>2
  <2>4. ASSUME closing'[v] # tcpConns[v][g]
        PROVE  /\ sock[g] = conn[tcpConns[v][g]].client
               /\ \A u \in SigWorkers \ {v} : tcpConns'[u][g] \in {Null, closing'[u]}
    <3>1. closing[v] # tcpConns[v][g]
      BY <1>6, <1>8, <2>1, <2>4
    <3>2. /\ sock[g] = conn[tcpConns[v][g]].client
          /\ \A u \in SigWorkers : u # v => tcpConns[u][g] \in {Null, closing[u]}
      BY <2>1, <3>1, OpenFacts
    <3> QED BY <1>5, <1>6, <1>8, <3>2
  <2> QED BY <2>1, <2>2, <2>3, <2>4
<1>10. QueuedFds'
  <2>1. \A v \in SigWorkers : \A i \in 1..Len(connq[v]) :
          /\ sock[connq[v][i]] # Null /\ connq[v][i] \in Fd
          /\ \A u \in SigWorkers : tcpConns[u][connq[v][i]] \in {Null, closing[u]}
    BY <1>1 DEF IInv, QueuedFds
  <2>2. \A v \in SigWorkers : \A i \in 1..Len(connq[v]) :
          \A u \in SigWorkers : tcpConns'[u][connq[v][i]] \in {Null, closing'[u]}
    BY <1>5, <1>6, <1>8, <2>1
  <2> QED BY <1>2, <2>1, <2>2 DEF IInv, QueuedFds
<1>11. OneFdPerClient'
  <2>1. ASSUME NEW q \in Ptr, conn'[q] # Null
        PROVE  \E v \in SigWorkers : tcpConns'[v][conn'[q].fd] = q
    <3>1. q # p /\ conn'[q] = conn[q]
      BY <1>8, <2>1
    <3>2. PICK v \in SigWorkers : tcpConns[v][conn[q].fd] = q
      BY <2>1, <3>1 DEF IInv, OneFdPerClient
    <3>3. conn[q].fd \in Fd
      BY <1>1, <2>1, <3>1 DEF Conn
    <3> QED BY <1>3, <1>8, <3>1, <3>2, <3>3
  <2>2. \A v, u \in SigWorkers, g \in Fd :
          tcpConns'[v][g] # Null /\ tcpConns'[v][g] = tcpConns'[u][g] => v = u
    BY <1>8 DEF IInv, OneFdPerClient
  <2>3. \A q, r \in Ptr :
          conn'[q] # Null /\ conn'[r] # Null /\ conn'[q].client = conn'[r].client => q = r
    BY <1>8 DEF IInv, OneFdPerClient
  <2> QED BY <1>2, <2>1, <2>2, <2>3 DEF IInv, OneFdPerClient
<1>12. ClosedIsOwn'
  <2> SUFFICES ASSUME NEW v \in SigWorkers, closing'[v] # Null
               PROVE  /\ conn'[closing'[v]] # Null
                      /\ tcpConns'[v][conn'[closing'[v]].fd] = closing'[v]
                      /\ phase[conn'[closing'[v]].client] = "gone"
    BY <1>2 DEF ClosedIsOwn
  <2>1. v # w /\ closing'[v] = closing[v] /\ closing[v] \in Ptr
    BY <1>1, <1>8
  <2>2. /\ conn[closing[v]] # Null /\ tcpConns[v][conn[closing[v]].fd] = closing[v]
        /\ phase[conn[closing[v]].client] = "gone"
    BY <2>1 DEF IInv, ClosedIsOwn
  <2>3. conn[closing[v]].fd \in Fd
    BY <1>1, <2>1, <2>2 DEF Conn
  <2>4. closing[v] # p
    BY <1>5, <2>1, <2>2, <2>3
  <2> QED BY <1>8, <2>1, <2>2, <2>3, <2>4
<1> QED BY <1>7, <1>9, <1>10, <1>11, <1>12

-----------------------------------------------------------------------------
(* Every step keeps queues, pipes and descriptors in order *)

\* The threads and the receivers of messages.
LEMMA Receivers ==
  /\ \A w \in SigWorkers : w \in Receiver /\ w \in Thread /\ w \notin RtcWorker /\ w # RtcSrv
  /\ \A r \in RtcWorker : r \in Receiver /\ r \in Thread /\ r \notin SigWorkers /\ r # RtcSrv
  /\ RtcSrv \in Receiver /\ RtcSrv \in Thread /\ SigSrv \in Thread
BY SignalingAssumption DEF Receiver, Thread

\* write() of notify() keeps the invariant.
LEMMA NotifyInv ==
  ASSUME IInv, NEW u \in Thread, Notify(u) PROVE IInv'
<1>1. UNCHANGED <<connq, msgq, table, nextWorker, net, hist>>
  BY DEF Notify
<1>2. /\ pipe' \in [Receiver -> Seq({"NEW_CONN", "RTC_MSG"})]
      /\ pend' \in [Thread -> Pend \cup {Null}]
      /\ \A t \in Receiver, k \in {"NEW_CONN", "RTC_MSG"} : Ints(t, k)' = Ints(t, k)
  BY NotifyInts DEF IInv
<1>3. TypeOK'
  BY <1>1, <1>2 DEF IInv, TypeOK, table, net, hist
<1>4. WakeupPerMessage'
  BY <1>1, <1>2, Receivers DEF IInv, WakeupPerMessage
<1>5. OneOwnerPerFd' /\ QueuedFds' /\ OneFdPerClient' /\ ClosedIsOwn'
  BY <1>1, FdsKept DEF table, net
<1> QED BY <1>3, <1>4, <1>5 DEF IInv

\* A new connection keeps the invariant.
LEMMA AcceptInv ==
  ASSUME IInv, NEW c \in Client, NEW f \in Fd, Accept(c, f) PROVE IInv'
<1> DEFINE w == nextWorker
<1>1. w \in SigWorkers /\ w \in Receiver /\ SigSrv \in Thread
  BY Receivers DEF IInv, TypeOK
<1>2. /\ Looping(SigSrv) /\ phase[c] = "new" /\ sock[f] = Null
      /\ sock' = [sock EXCEPT ![f] = c] /\ phase' = [phase EXCEPT ![c] = "open"]
      /\ connq' = Push(connq, w, f) /\ Notifies(SigSrv, w, "NEW_CONN")
      /\ nextWorker' = NextIndex(w)
      /\ UNCHANGED <<pipe, msgq, table, got, hist>>
  BY DEF Accept, TcpAccept, NotifyNewConn
<1>3. /\ sock \in [Fd -> Client \cup {Null}] /\ connq \in [SigWorkers -> Seq(Fd)]
      /\ phase \in [Client -> {"new", "open", "gone"}]
      /\ tcpConns \in [SigWorkers -> [Fd -> Ptr \cup {Null}]]
      /\ conn \in [Ptr -> Conn \cup {Null}]
  BY DEF IInv, TypeOK
<1>4. nextWorker' \in SigWorkers
  BY <1>1, <1>2, SignalingAssumption DEF NextIndex, SigWorkers
<1> HIDE DEF w
<1>5. /\ connq' \in [SigWorkers -> Seq(Fd)]
      /\ \A v \in SigWorkers : v # w => connq'[v] = connq[v]
      /\ Len(connq[w]) \in Nat /\ Len(connq'[w]) = Len(connq[w]) + 1
      /\ \A i \in 1..Len(connq[w]) : connq'[w][i] = connq[w][i]
      /\ connq'[w][Len(connq[w]) + 1] = f
  <2>1. connq \in [SigWorkers -> Seq(Fd)] /\ w \in SigWorkers /\ connq' = Push(connq, w, f)
    BY <1>1, <1>2, <1>3
  <2> QED BY <2>1, PushFacts
<1>6. /\ pend' \in [Thread -> Pend \cup {Null}]
      /\ \A t \in Receiver, k \in {"NEW_CONN", "RTC_MSG"} :
           /\ Ints(t, k) \in Nat
           /\ Ints(t, k)' = IF t = w /\ k = "NEW_CONN" THEN Ints(t, k) + 1 ELSE Ints(t, k)
  BY <1>1, <1>2, IntsSend DEF IInv
<1>7. TypeOK'
  BY <1>2, <1>3, <1>4, <1>5, <1>6 DEF IInv, TypeOK, table, hist
<1>8. WakeupPerMessage'
  <2>1. \A t \in Receiver : Ints(t, "RTC_MSG")' = Len(msgq'[t])
    BY <1>2, <1>6 DEF IInv, WakeupPerMessage
  <2>2. \A v \in SigWorkers : Ints(v, "NEW_CONN")' = Len(connq'[v])
    BY <1>5, <1>6, Receivers DEF IInv, WakeupPerMessage
  <2> QED BY <2>1, <2>2 DEF WakeupPerMessage
<1>9. UNCHANGED <<closing, tcpConns, conn>>
  BY <1>2 DEF table
<1>10. \A v \in SigWorkers : tcpConns[v][f] \in {Null, closing[v]}
  BY <1>2, OpenFacts
<1>11. \A v \in SigWorkers : \A i \in 1..Len(connq[v]) : connq[v][i] \in Fd /\ connq[v][i] # f
  BY <1>2, <1>3 DEF IInv, QueuedFds
<1>12. \A g \in Fd : sock'[g] = IF g = f THEN c ELSE sock[g]
  BY <1>2, <1>3
<1>13. c # Null
  BY SignalingAssumption
<1>14. OneOwnerPerFd'
  <2> SUFFICES ASSUME NEW v \in SigWorkers, NEW g \in Fd, tcpConns[v][g] # Null
               PROVE  /\ conn[tcpConns[v][g]] # Null
                      /\ conn[tcpConns[v][g]].fd = g
                      /\ closing[v] # tcpConns[v][g] =>
                           /\ sock'[g] = conn[tcpConns[v][g]].client
                           /\ \A u \in SigWorkers \ {v} : tcpConns[u][g] \in {Null, closing[u]}
    BY <1>9 DEF OneOwnerPerFd
  <2>1. closing[v] # tcpConns[v][g] => g # f
    BY <1>10
  <2> QED BY <1>12, <2>1, ConnFacts, OpenFacts
<1>15. QueuedFds'
  <2>1. \A v \in SigWorkers : \A i \in 1..Len(connq'[v]) :
          \/ i \in 1..Len(connq[v]) /\ connq'[v][i] = connq[v][i]
          \/ v = w /\ i = Len(connq[w]) + 1 /\ connq'[v][i] = f
    BY <1>5
  <2>2. \A v \in SigWorkers : \A i \in 1..Len(connq'[v]) :
          /\ sock'[connq'[v][i]] # Null
          /\ \A u \in SigWorkers : tcpConns'[u][connq'[v][i]] \in {Null, closing'[u]}
    BY <1>9, <1>10, <1>11, <1>12, <1>13, <2>1, SMTT(40) DEF IInv, QueuedFds
  <2>3. \A v, u \in SigWorkers : \A i \in 1..Len(connq'[v]), j \in 1..Len(connq'[u]) :
          connq'[v][i] = connq'[u][j] => v = u /\ i = j
    BY <1>11, <2>1, SMTT(40) DEF IInv, QueuedFds
  <2> QED BY <2>2, <2>3 DEF QueuedFds
<1>16. OneFdPerClient'
  <2>1. \A g \in Fd : sock[g] # c
    BY <1>2, <1>13 DEF IInv, OneFdPerClient
  <2>2. \A g, h \in Fd : sock'[g] # Null /\ sock'[g] = sock'[h] => g = h
    BY <1>12, <2>1 DEF IInv, OneFdPerClient
  <2>3. ASSUME NEW g \in Fd, sock'[g] # Null PROVE phase'[sock'[g]] = "open"
    <3>1. sock'[g] \in Client
      BY <1>3, <1>12, <2>3
    <3> QED BY <1>2, <1>3, <1>12, <2>1, <2>3, <3>1 DEF IInv, OneFdPerClient
  <2> QED BY <1>9, <2>2, <2>3 DEF IInv, OneFdPerClient
<1>17. ClosedIsOwn'
  <2> SUFFICES ASSUME NEW v \in SigWorkers, closing[v] # Null
               PROVE  /\ conn[closing[v]] # Null
                      /\ tcpConns[v][conn[closing[v]].fd] = closing[v]
                      /\ phase'[conn[closing[v]].client] = "gone"
    BY <1>9 DEF ClosedIsOwn
  <2>1. /\ conn[closing[v]] # Null /\ tcpConns[v][conn[closing[v]].fd] = closing[v]
        /\ phase[conn[closing[v]].client] = "gone" /\ closing[v] \in Ptr
    BY DEF IInv, ClosedIsOwn, TypeOK
  <2>2. conn[closing[v]].client \in Client /\ conn[closing[v]].client # c
    BY <1>2, <1>3, <2>1 DEF Conn
  <2> QED BY <1>2, <1>3, <2>1, <2>2
<1> QED BY <1>7, <1>8, <1>14, <1>15, <1>16, <1>17 DEF IInv

\* _new_conn() keeps the invariant.
LEMMA NewConnInv ==
  ASSUME IInv, NEW w \in SigWorkers, NewConn(w) PROVE IInv'
<1>1. /\ Notified(w, "NEW_CONN") /\ ReadPipe(w)
      /\ UNCHANGED <<pend, msgq, nextWorker, net, hist>>
  BY DEF NewConn
<1>2. w \in Receiver
  BY Receivers
<1>3. /\ pipe' \in [Receiver -> Seq({"NEW_CONN", "RTC_MSG"})]
      /\ Ints(w, "NEW_CONN") > 0
      /\ \A t \in Receiver, k \in {"NEW_CONN", "RTC_MSG"} :
           /\ Ints(t, k) \in Nat
           /\ Ints(t, k)' = IF t = w /\ k = "NEW_CONN" THEN Ints(t, k) - 1 ELSE Ints(t, k)
  BY <1>1, <1>2, IntsRead DEF IInv
<1>4. /\ sock \in [Fd -> Client \cup {Null}] /\ connq \in [SigWorkers -> Seq(Fd)]
      /\ tcpConns \in [SigWorkers -> [Fd -> Ptr \cup {Null}]]
      /\ conn \in [Ptr -> Conn \cup {Null}]
  BY DEF IInv, TypeOK
<1>5. connq[w] # << >>
  BY <1>3 DEF IInv, WakeupPerMessage
<1> DEFINE f == Head(connq[w])
           new == [fd |-> f, client |-> sock[f], sealed |-> FALSE, replies |-> << >>]
<1>6. PICK p \in FreePtr :
        /\ connq' = Pop(connq, w)
        /\ conn' = [conn EXCEPT ![p] = new]
        /\ tcpConns' = [tcpConns EXCEPT ![w][f] = p]
        /\ UNCHANGED closing
  BY <1>5 DEF NewConn
<1>7. /\ connq' \in [SigWorkers -> Seq(Fd)]
      /\ \A v \in SigWorkers : v # w => connq'[v] = connq[v]
      /\ f \in Fd /\ f = connq[w][1]
      /\ Len(connq[w]) \in Nat /\ Len(connq[w]) >= 1 /\ Len(connq'[w]) = Len(connq[w]) - 1
      /\ \A i \in 1..(Len(connq[w]) - 1) : connq'[w][i] = connq[w][i + 1]
  BY <1>4, <1>5, <1>6, PopFacts
<1>8. /\ sock[f] # Null /\ sock[f] \in Client
      /\ \A v \in SigWorkers : tcpConns[v][f] \in {Null, closing[v]}
      /\ closing[w] = Null
  BY <1>1, <1>4, <1>7, SMTT(40) DEF IInv, QueuedFds, Notified, Looping
<1>9. p \in Ptr /\ conn[p] = Null
  BY <1>6 DEF FreePtr
<1>10. new \in Conn /\ new # Null /\ new.fd = f /\ new.client = sock[f]
  <2>1. << >> \in Seq(Request)
    OBVIOUS
  <2>2. new \in Conn
    BY <1>7, <1>8, <2>1 DEF Conn
  <2> QED BY <2>2, SignalingAssumption
<1> HIDE DEF f, new
<1>11. conn' \in [Ptr -> Conn \cup {Null}] /\ tcpConns' \in [SigWorkers -> [Fd -> Ptr \cup {Null}]]
  BY <1>4, <1>6, <1>7, <1>9, <1>10
<1>12. TypeOK'
  BY <1>1, <1>3, <1>6, <1>7, <1>11 DEF IInv, TypeOK, net, hist
<1>13. WakeupPerMessage'
  <2>1. \A t \in Receiver : Ints(t, "RTC_MSG")' = Len(msgq'[t])
    BY <1>1, <1>3 DEF IInv, WakeupPerMessage
  <2>2. \A v \in SigWorkers : Ints(v, "NEW_CONN")' = Len(connq'[v])
    BY <1>3, <1>7, Receivers DEF IInv, WakeupPerMessage
  <2> QED BY <2>1, <2>2 DEF WakeupPerMessage
<1>14. \A v \in SigWorkers, g \in Fd :
         tcpConns'[v][g] = IF v = w /\ g = f THEN p ELSE tcpConns[v][g]
  BY <1>4, <1>6, <1>7, <1>9
<1>15. \A q \in Ptr : conn'[q] = IF q = p THEN new ELSE conn[q]
  BY <1>4, <1>6, <1>9
<1>16. sock' = sock /\ phase' = phase
  BY <1>1 DEF net
<1>17. p # Null
  BY <1>9, SignalingAssumption
<1>18. OneOwnerPerFd'
  <2> SUFFICES ASSUME NEW v \in SigWorkers, NEW g \in Fd, tcpConns'[v][g] # Null
               PROVE  /\ conn'[tcpConns'[v][g]] # Null
                      /\ conn'[tcpConns'[v][g]].fd = g
                      /\ closing[v] # tcpConns'[v][g] =>
                           /\ sock[g] = conn'[tcpConns'[v][g]].client
                           /\ \A u \in SigWorkers \ {v} :
                                tcpConns'[u][g] \in {Null, closing[u]}
    BY <1>6, <1>16 DEF OneOwnerPerFd
  <2>1. CASE v = w /\ g = f
    BY <1>8, <1>9, <1>10, <1>14, <1>15, <2>1
  <2>2. CASE ~ (v = w /\ g = f)
    <3>1. tcpConns'[v][g] = tcpConns[v][g] /\ tcpConns[v][g] # Null
      BY <1>14, <2>2
    <3>2. /\ tcpConns[v][g] \in Ptr /\ conn[tcpConns[v][g]] # Null
          /\ conn[tcpConns[v][g]].fd = g
      BY <3>1, ConnFacts
    <3>3. conn'[tcpConns[v][g]] = conn[tcpConns[v][g]]
      BY <1>9, <1>15, <3>2
    <3>4. ASSUME closing[v] # tcpConns[v][g]
          PROVE  /\ sock[g] = conn[tcpConns[v][g]].client
                 /\ \A u \in SigWorkers \ {v} : tcpConns'[u][g] \in {Null, closing[u]}
      <4>1. g # f
        BY <1>8, <3>1, <3>4
      <4>2. /\ sock[g] = conn[tcpConns[v][g]].client
            /\ \A u \in SigWorkers : u # v => tcpConns[u][g] \in {Null, closing[u]}
        BY <3>1, <3>4, OpenFacts
      <4> QED BY <1>14, <4>1, <4>2
    <3> QED BY <3>1, <3>2, <3>3, <3>4
  <2> QED BY <2>1, <2>2
<1>19. QueuedFds'
  <2>1. \A v \in SigWorkers : \A i \in 1..Len(connq'[v]) :
          IF v = w THEN i + 1 \in 1..Len(connq[v]) /\ connq'[v][i] = connq[v][i + 1]
                   ELSE i \in 1..Len(connq[v]) /\ connq'[v][i] = connq[v][i]
    BY <1>7
  <2>2. 1 \in 1..Len(connq[w])
    BY <1>7
  <2>3. \A v \in SigWorkers : \A i \in 1..Len(connq'[v]) :
          connq'[v][i] # f /\ connq'[v][i] \in Fd
    <3> SUFFICES ASSUME NEW v \in SigWorkers, NEW i \in 1..Len(connq'[v])
                 PROVE  connq'[v][i] # f /\ connq'[v][i] \in Fd
      OBVIOUS
    <3>1. connq'[v][i] \in Fd
      BY <1>7
    <3>2. CASE v = w
      BY <1>7, <2>1, <2>2, <3>1, <3>2 DEF IInv, QueuedFds
    <3>3. CASE v # w
      BY <1>7, <2>1, <2>2, <3>1, <3>3 DEF IInv, QueuedFds
    <3> QED BY <3>2, <3>3
  <2>4. \A v \in SigWorkers : \A i \in 1..Len(connq'[v]) :
          /\ sock'[connq'[v][i]] # Null
          /\ \A u \in SigWorkers : tcpConns'[u][connq'[v][i]] \in {Null, closing'[u]}
    BY <1>6, <1>14, <1>16, <2>1, <2>3, SMTT(40) DEF IInv, QueuedFds
  <2>5. ASSUME NEW v \in SigWorkers, NEW u \in SigWorkers,
               NEW i \in 1..Len(connq'[v]), NEW j \in 1..Len(connq'[u]),
               connq'[v][i] = connq'[u][j]
        PROVE  v = u /\ i = j
    <3>1. \A a, b \in SigWorkers : \A k \in 1..Len(connq[a]), l \in 1..Len(connq[b]) :
            connq[a][k] = connq[b][l] => a = b /\ k = l
      BY DEF IInv, QueuedFds
    <3>2. PICK k \in 1..Len(connq[v]) :
            connq'[v][i] = connq[v][k] /\ k = IF v = w THEN i + 1 ELSE i
      BY <2>1
    <3>3. PICK l \in 1..Len(connq[u]) :
            connq'[u][j] = connq[u][l] /\ l = IF u = w THEN j + 1 ELSE j
      BY <2>1
    <3>4. connq[v][k] = connq[u][l]
      BY <2>5, <3>2, <3>3
    <3>5. v = u /\ k = l
      BY <3>1, <3>4, Zenon
    <3> QED BY <3>2, <3>3, <3>5
  <2> QED BY <2>4, <2>5 DEF QueuedFds
<1>20. OneFdPerClient'
  <2>1. ASSUME NEW q \in Ptr, conn'[q] # Null
        PROVE  \E v \in SigWorkers : tcpConns'[v][conn'[q].fd] = q
    <3>1. CASE q = p
      BY <1>7, <1>10, <1>14, <1>15, <3>1
    <3>2. CASE q # p
      <4>1. conn'[q] = conn[q]
        BY <1>15, <3>2
      <4>2. PICK v \in SigWorkers : tcpConns[v][conn[q].fd] = q
        BY <2>1, <4>1 DEF IInv, OneFdPerClient
      <4>3. conn[q].fd \in Fd /\ q # Null
        BY <1>4, <2>1, <4>1, SignalingAssumption DEF Conn
      <4>4. ~ (v = w /\ conn[q].fd = f)
        BY <1>8, <4>2, <4>3
      <4> QED BY <1>14, <4>1, <4>2, <4>3, <4>4
    <3> QED BY <3>1, <3>2
  <2>2. \A v \in SigWorkers, g \in Fd : tcpConns[v][g] # p
    BY <1>9, <1>17, ConnFacts
  <2>3. \A v, u \in SigWorkers, g \in Fd :
          tcpConns'[v][g] # Null /\ tcpConns'[v][g] = tcpConns'[u][g] => v = u
    BY <1>14, <2>2 DEF IInv, OneFdPerClient
  <2>4. ASSUME NEW q \in Ptr, conn[q] # Null PROVE conn[q].client # sock[f]
    <3>1. PICK v \in SigWorkers : tcpConns[v][conn[q].fd] = q
      BY <2>4 DEF IInv, OneFdPerClient
    <3>2. conn[q].fd \in Fd /\ q # Null /\ phase[sock[f]] = "open"
      BY <1>4, <1>7, <1>8, <2>4, SignalingAssumption DEF Conn, IInv, OneFdPerClient
    <3>3. CASE closing[v] = q
      <4>1. phase[conn[q].client] = "gone"
        BY <3>2, <3>3 DEF IInv, ClosedIsOwn
      <4> QED BY <3>2, <4>1
    <3>4. CASE closing[v] # q
      <4>1. sock[conn[q].fd] = conn[q].client
        BY <3>1, <3>2, <3>4, OpenFacts
      <4>2. conn[q].fd # f
        BY <1>8, <3>1, <3>2, <3>4
      <4> QED BY <1>7, <1>8, <3>2, <4>1, <4>2 DEF IInv, OneFdPerClient
    <3> QED BY <3>3, <3>4
  <2>5. \A q, r \in Ptr :
          conn'[q] # Null /\ conn'[r] # Null /\ conn'[q].client = conn'[r].client => q = r
    BY <1>10, <1>15, <2>4 DEF IInv, OneFdPerClient
  <2> QED BY <1>16, <2>1, <2>3, <2>5 DEF IInv, OneFdPerClient
<1>21. ClosedIsOwn'
  <2> SUFFICES ASSUME NEW v \in SigWorkers, closing[v] # Null
               PROVE  /\ conn'[closing[v]] # Null
                      /\ tcpConns'[v][conn'[closing[v]].fd] = closing[v]
                      /\ phase[conn'[closing[v]].client] = "gone"
    BY <1>6, <1>16 DEF ClosedIsOwn
  <2>1. /\ conn[closing[v]] # Null /\ tcpConns[v][conn[closing[v]].fd] = closing[v]
        /\ phase[conn[closing[v]].client] = "gone" /\ closing[v] \in Ptr
    BY DEF IInv, ClosedIsOwn, TypeOK
  <2>2. conn[closing[v]].fd \in Fd /\ closing[v] # p /\ v # w
    BY <1>4, <1>8, <1>9, <2>1 DEF Conn
  <2> QED BY <1>14, <1>15, <2>1, <2>2
<1> QED BY <1>12, <1>13, <1>18, <1>19, <1>20, <1>21 DEF IInv

\* The RtcMsg of a request has its type.
LEMMA MsgType ==
  ASSUME IInv, NEW w \in SigWorkers, NEW f \in Fd, tcpConns[w][f] # Null
  PROVE  Msg(w, tcpConns[w][f]) \in Request
<1> DEFINE p == tcpConns[w][f]
<1>1. p \in Ptr /\ conn[p].client \in Client /\ conn[p].fd = f
  BY ConnFacts
<1> HIDE DEF p
<1>2. Msg(w, p) \in Request
  BY <1>1 DEF Msg, Request
<1> QED BY <1>2 DEF p

\* A request keeps the invariant.
LEMMA ReadRequestInv ==
  ASSUME IInv, NEW w \in SigWorkers, NEW f \in Fd, ReadRequest(w, f) PROVE IInv'
<1> DEFINE p == tcpConns[w][f]
           m == Msg(w, p)
<1>1. /\ Looping(w) /\ p # Null /\ MayRequest(p)
      /\ msgq' = Push(msgq, RtcSrv, m) /\ Notifies(w, RtcSrv, "RTC_MSG")
      /\ conn' = [conn EXCEPT ![p].sealed = TRUE]
      /\ accepted' = Append(accepted, conn[p].client)
      /\ UNCHANGED <<pipe, closing, connq, tcpConns, nextWorker, net, handled, dropped>>
  BY DEF ReadRequest
<1>2. m \in Request
  BY <1>1, MsgType
<1>3. p \in Ptr /\ conn[p] \in Conn /\ conn[p] # Null /\ conn[p].client \in Client
  BY <1>1, ConnFacts
<1> HIDE DEF p, m
<1>4. /\ msgq \in [Receiver -> Seq(Request)] /\ conn \in [Ptr -> Conn \cup {Null}]
      /\ accepted \in Seq(Client) /\ w \in Thread /\ RtcSrv \in Receiver
  BY Receivers DEF IInv, TypeOK
<1>5. /\ msgq' \in [Receiver -> Seq(Request)]
      /\ \A t \in Receiver : t # RtcSrv => msgq'[t] = msgq[t]
      /\ Len(msgq[RtcSrv]) \in Nat /\ Len(msgq'[RtcSrv]) = Len(msgq[RtcSrv]) + 1
  <2>1. msgq' = Push(msgq, RtcSrv, m)
    BY <1>1
  <2> QED BY <1>2, <1>4, <2>1, PushFacts
<1>6. /\ pend' \in [Thread -> Pend \cup {Null}]
      /\ \A t \in Receiver, k \in {"NEW_CONN", "RTC_MSG"} :
           /\ Ints(t, k) \in Nat
           /\ Ints(t, k)' = IF t = RtcSrv /\ k = "RTC_MSG" THEN Ints(t, k) + 1 ELSE Ints(t, k)
  BY <1>1, <1>4, IntsSend DEF IInv
<1>7. /\ conn'[p] \in Conn /\ conn'[p].fd = conn[p].fd /\ conn'[p].client = conn[p].client
      /\ \A q \in Ptr : q # p => conn'[q] = conn[q]
      /\ conn' \in [Ptr -> Conn \cup {Null}]
  <2>1. [conn[p] EXCEPT !.sealed = TRUE] \in Conn
    BY <1>3 DEF Conn
  <2> QED BY <1>1, <1>3, <1>4, <2>1 DEF Conn
<1>8. conn'[p] # Null
  BY <1>7, SignalingAssumption
<1>9. accepted' \in Seq(Client)
  BY <1>1, <1>3, <1>4, AppendFacts
<1>10. TypeOK'
  BY <1>1, <1>5, <1>6, <1>7, <1>9 DEF IInv, TypeOK, net
<1>11. WakeupPerMessage'
  <2>1. \A t \in Receiver : Ints(t, "RTC_MSG")' = Len(msgq'[t])
    BY <1>4, <1>5, <1>6 DEF IInv, WakeupPerMessage
  <2>2. \A v \in SigWorkers : Ints(v, "NEW_CONN")' = Len(connq'[v])
    BY <1>1, <1>6, Receivers DEF IInv, WakeupPerMessage
  <2> QED BY <2>1, <2>2 DEF WakeupPerMessage
<1>12. OneOwnerPerFd' /\ QueuedFds' /\ OneFdPerClient' /\ ClosedIsOwn'
  BY <1>1, <1>3, <1>7, <1>8, FdsKept DEF net
<1> QED BY <1>10, <1>11, <1>12 DEF IInv

\* close() keeps the invariant.
LEMMA CloseInv ==
  ASSUME IInv, NEW w \in SigWorkers, NEW f \in Fd, tcpConns[w][f] # Null,
         closing[w] = Null, CloseConn(w, tcpConns[w][f]),
         got' \in [Client -> Seq(Client)],
         conn' \in [Ptr -> Conn \cup {Null}],
         \A p \in Ptr : /\ conn'[p] = Null <=> conn[p] = Null
                        /\ conn[p] # Null => /\ conn'[p].fd = conn[p].fd
                                             /\ conn'[p].client = conn[p].client,
         UNCHANGED <<pipe, pend, connq, msgq, tcpConns, nextWorker, hist>>
  PROVE  IInv'
<1>1. /\ OneOwnerPerFd' /\ QueuedFds' /\ OneFdPerClient' /\ ClosedIsOwn'
      /\ sock' \in [Fd -> Client \cup {Null}]
      /\ phase' \in [Client -> {"new", "open", "gone"}]
      /\ closing' \in [SigWorkers -> Ptr \cup {Null}]
  BY CloseFds
<1>2. TypeOK'
  BY <1>1 DEF IInv, TypeOK, hist
<1>3. WakeupPerMessage'
  BY DEF IInv, WakeupPerMessage, Ints, Writers
<1> QED BY <1>1, <1>2, <1>3 DEF IInv

\* _remove_conn() keeps the invariant.
LEMMA RemoveInv ==
  ASSUME IInv, NEW w \in SigWorkers, RemoveConn(w) PROVE IInv'
<1>1. UNCHANGED <<pipe, pend, connq, msgq, nextWorker, net, hist>>
  BY DEF RemoveConn
<1>2. /\ OneOwnerPerFd' /\ QueuedFds' /\ OneFdPerClient' /\ ClosedIsOwn'
      /\ closing' \in [SigWorkers -> Ptr \cup {Null}]
      /\ tcpConns' \in [SigWorkers -> [Fd -> Ptr \cup {Null}]]
      /\ conn' \in [Ptr -> Conn \cup {Null}]
  BY RemoveFds
<1>3. TypeOK'
  BY <1>1, <1>2 DEF IInv, TypeOK, net, hist
<1>4. WakeupPerMessage'
  BY <1>1 DEF IInv, WakeupPerMessage, Ints, Writers
<1> QED BY <1>2, <1>3, <1>4 DEF IInv

\* A reply that reaches its worker keeps the invariant.
LEMMA RespondInv ==
  ASSUME IInv, NEW w \in SigWorkers, Respond(w) PROVE IInv'
<1>1. /\ Notified(w, "RTC_MSG") /\ ReadPipe(w)
      /\ UNCHANGED <<pend, closing, connq, tcpConns, nextWorker, net, hist>>
  BY DEF Respond
<1>2. w \in Receiver
  BY Receivers
<1>3. /\ pipe' \in [Receiver -> Seq({"NEW_CONN", "RTC_MSG"})]
      /\ Ints(w, "RTC_MSG") > 0
      /\ \A t \in Receiver, k \in {"NEW_CONN", "RTC_MSG"} :
           /\ Ints(t, k) \in Nat
           /\ Ints(t, k)' = IF t = w /\ k = "RTC_MSG" THEN Ints(t, k) - 1 ELSE Ints(t, k)
  BY <1>1, <1>2, IntsRead DEF IInv
<1>4. msgq[w] # << >>
  BY <1>2, <1>3 DEF IInv, WakeupPerMessage
<1> DEFINE m == Head(msgq[w])
           p == tcpConns[w][m.fd]
<1>5. /\ msgq' = Pop(msgq, w)
      /\ IF SameConn(m)
         THEN conn' = [conn EXCEPT ![p].replies = Append(@, m)]
         ELSE conn' = conn
  BY <1>4 DEF Respond
<1>6. /\ msgq' \in [Receiver -> Seq(Request)]
      /\ \A t \in Receiver : t # w => msgq'[t] = msgq[t]
      /\ m \in Request
      /\ Len(msgq[w]) \in Nat /\ Len(msgq[w]) >= 1 /\ Len(msgq'[w]) = Len(msgq[w]) - 1
  <2>1. msgq \in [Receiver -> Seq(Request)]
    BY DEF IInv, TypeOK
  <2>2. /\ Pop(msgq, w) \in [Receiver -> Seq(Request)]
        /\ \A t \in Receiver : t # w => Pop(msgq, w)[t] = msgq[t]
        /\ Head(msgq[w]) \in Request /\ Head(msgq[w]) = msgq[w][1]
        /\ Len(msgq[w]) \in Nat /\ Len(msgq[w]) >= 1
        /\ Len(Pop(msgq, w)[w]) = Len(msgq[w]) - 1
        /\ \A i \in 1..(Len(msgq[w]) - 1) : Pop(msgq, w)[w][i] = msgq[w][i + 1]
    BY <1>2, <1>4, <2>1, PopFacts
  <2>3. msgq' = Pop(msgq, w)
    BY <1>5
  <2> QED BY <2>2, <2>3, ZenonT(40)
<1>7. conn \in [Ptr -> Conn \cup {Null}]
  BY DEF IInv, TypeOK
<1> HIDE DEF m, p
<1>8. /\ conn' \in [Ptr -> Conn \cup {Null}]
      /\ \A q \in Ptr : /\ conn'[q] = Null <=> conn[q] = Null
                        /\ conn[q] # Null => /\ conn'[q].fd = conn[q].fd
                                             /\ conn'[q].client = conn[q].client
  <2>1. CASE SameConn(m) /\ p \in Ptr /\ conn[p] # Null
    <3>1. conn[p] \in Conn /\ conn[p].replies \in Seq(Request)
      BY <1>7, <2>1 DEF Conn
    <3>2. Append(conn[p].replies, m) \in Seq(Request)
      BY <1>6, <3>1, AppendFacts
    <3> DEFINE new == [conn[p] EXCEPT !.replies = Append(conn[p].replies, m)]
    <3>3. new \in Conn /\ new.fd = conn[p].fd /\ new.client = conn[p].client
      BY <3>1, <3>2 DEF Conn
    <3>4. new # Null
      BY <3>3, SignalingAssumption
    <3>5. conn' = [conn EXCEPT ![p] = new]
      BY <1>5, <2>1
    <3> HIDE DEF new
    <3> QED BY <1>7, <2>1, <3>3, <3>4, <3>5
  <2>2. CASE SameConn(m) /\ p \notin Ptr
    BY <1>5, <1>7, <2>2
  <2>3. CASE SameConn(m) /\ p \in Ptr /\ conn[p] = Null
    <3>1. w \in SigWorkers /\ m.fd \in Fd /\ p # Null
      BY <1>6, <2>3, SignalingAssumption DEF Request
    <3> QED BY <2>3, <3>1, ConnFacts DEF p
  <2>4. CASE ~ SameConn(m)
    BY <1>5, <1>7, <2>4
  <2> QED BY <2>1, <2>2, <2>3, <2>4
<1>9. TypeOK'
  BY <1>1, <1>3, <1>6, <1>8 DEF IInv, TypeOK, net, hist
<1>10. WakeupPerMessage'
  <2>1. \A t \in Receiver : Ints(t, "RTC_MSG")' = Len(msgq'[t])
    BY <1>2, <1>3, <1>6 DEF IInv, WakeupPerMessage
  <2>2. \A v \in SigWorkers : Ints(v, "NEW_CONN")' = Len(connq'[v])
    BY <1>1, <1>3, Receivers DEF IInv, WakeupPerMessage
  <2> QED BY <2>1, <2>2 DEF WakeupPerMessage
<1>11. OneOwnerPerFd' /\ QueuedFds' /\ OneFdPerClient' /\ ClosedIsOwn'
  BY <1>1, <1>8, FdsKept DEF net
<1> QED BY <1>9, <1>10, <1>11 DEF IInv

\* What _write_query() sends are requests' clients.
LEMMA SentType ==
  ASSUME IInv, NEW p \in Ptr, conn[p] # Null, NEW sent \in 0..Len(conn[p].replies),
         NEW c \in Client
  PROVE  got[c] \o [i \in 1..sent |-> conn[p].replies[i].client] \in Seq(Client)
<1>1. conn[p].replies \in Seq(Request) /\ got[c] \in Seq(Client)
  BY DEF IInv, TypeOK, Conn
<1>2. \A i \in 1..sent : conn[p].replies[i].client \in Client
  <2>1. \A i \in 1..Len(conn[p].replies) : conn[p].replies[i] \in Request
    BY <1>1
  <2>2. \A i \in 1..sent : i \in 1..Len(conn[p].replies)
    BY <1>1
  <2>3. \A m \in Request : m.client \in Client
    BY DEF Request
  <2> QED BY <2>1, <2>2, <2>3
<1>3. [i \in 1..sent |-> conn[p].replies[i].client] \in Seq(Client)
  <2>1. sent \in Nat
    BY <1>1
  <2> QED BY <1>2, <2>1
<1> QED BY <1>1, <1>3

\* What _write_query() leaves of a list of replies.
LEMMA RestFacts ==
  ASSUME NEW r \in Seq(Request), NEW sent \in 0..Len(r)
  PROVE  /\ SubSeq(r, sent + 1, Len(r)) \in Seq(Request)
         /\ Len(SubSeq(r, sent + 1, Len(r))) = Len(r) - sent
         /\ \A i \in 1..(Len(r) - sent) : SubSeq(r, sent + 1, Len(r))[i] = r[sent + i]
<1>1. Len(r) \in Nat /\ sent \in Nat /\ sent <= Len(r)
  OBVIOUS
<1> QED BY <1>1

\* What _write_query() does to the connection: the replies sent are off its list.
LEMMA WriteFacts ==
  ASSUME IInv, NEW p \in Ptr, conn[p] # Null, NEW sent \in 0..Len(conn[p].replies),
         conn' = [conn EXCEPT ![p].replies =
                    SubSeq(conn[p].replies, sent + 1, Len(conn[p].replies))]
  PROVE  /\ conn' \in [Ptr -> Conn \cup {Null}]
         /\ \A q \in Ptr : /\ conn'[q] = Null <=> conn[q] = Null
                           /\ conn[q] # Null => /\ conn'[q].fd = conn[q].fd
                                                /\ conn'[q].client = conn[q].client
                                                /\ conn'[q].sealed = conn[q].sealed
         /\ \A q \in Ptr : q # p => conn'[q] = conn[q]
         /\ conn'[p].replies = SubSeq(conn[p].replies, sent + 1, Len(conn[p].replies))
<1> DEFINE rest == SubSeq(conn[p].replies, sent + 1, Len(conn[p].replies))
           new == [conn[p] EXCEPT !.replies = rest]
<1>1. conn \in [Ptr -> Conn \cup {Null}] /\ conn[p] \in Conn
  BY DEF IInv, TypeOK
<1>2. conn[p].replies \in Seq(Request)
  BY <1>1 DEF Conn
<1>3. rest \in Seq(Request)
  BY <1>2, RestFacts
<1>4. conn' = [conn EXCEPT ![p] = new]
  OBVIOUS
<1> HIDE DEF rest
<1>5. /\ new \in Conn /\ new.fd = conn[p].fd /\ new.client = conn[p].client
      /\ new.sealed = conn[p].sealed /\ new.replies = rest
  BY <1>1, <1>3 DEF Conn
<1>6. new # Null
  BY <1>5, SignalingAssumption
<1> HIDE DEF new
<1> QED BY <1>1, <1>4, <1>5, <1>6 DEF rest

\* Sending replies keeps the invariant.
LEMMA WriteQueryInv ==
  ASSUME IInv, NEW w \in SigWorkers, NEW f \in Fd, WriteQuery(w, f) PROVE IInv'
<1> DEFINE p == tcpConns[w][f]
           c == conn[p].client
           r == conn[p].replies
<1>1. /\ p # Null /\ closing[w] = Null
      /\ UNCHANGED <<pipe, pend, connq, msgq, tcpConns, nextWorker, hist>>
  BY DEF WriteQuery, Looping
<1>2. PICK sent \in 0..Len(r) :
        /\ got' = [got EXCEPT ![c] = got[c] \o [i \in 1..sent |-> r[i].client]]
        /\ conn' = [conn EXCEPT ![p].replies = SubSeq(r, sent + 1, Len(r))]
        /\ IF sent = Len(r) THEN UNCHANGED <<closing, sock, phase>>
                            ELSE CloseConn(w, p)
  BY DEF WriteQuery
<1>3. p \in Ptr /\ conn[p] \in Conn /\ conn[p] # Null /\ c \in Client
  BY <1>1, ConnFacts
<1>4. got' \in [Client -> Seq(Client)]
  <2>1. got[c] \o [i \in 1..sent |-> r[i].client] \in Seq(Client)
    BY <1>3, SentType
  <2>2. got \in [Client -> Seq(Client)]
    BY DEF IInv, TypeOK
  <2> HIDE DEF c, r
  <2> QED BY <1>2, <1>3, <2>1, <2>2
<1>5. /\ conn' \in [Ptr -> Conn \cup {Null}]
      /\ \A q \in Ptr : /\ conn'[q] = Null <=> conn[q] = Null
                        /\ conn[q] # Null => /\ conn'[q].fd = conn[q].fd
                                             /\ conn'[q].client = conn[q].client
  BY <1>2, <1>3, WriteFacts
<1>6. CASE sent # Len(r)
  BY <1>1, <1>2, <1>4, <1>5, <1>6, CloseInv
<1>7. CASE sent = Len(r)
  <2>1. UNCHANGED <<closing, sock, phase>>
    BY <1>2, <1>7
  <2>2. OneOwnerPerFd' /\ QueuedFds' /\ OneFdPerClient' /\ ClosedIsOwn'
    BY <1>1, <1>5, <2>1, FdsKept
  <2>3. TypeOK'
    BY <1>1, <1>4, <1>5, <2>1 DEF IInv, TypeOK, hist
  <2>4. WakeupPerMessage'
    BY <1>1 DEF IInv, WakeupPerMessage, Ints, Writers
  <2> QED BY <2>2, <2>3, <2>4 DEF IInv
<1> QED BY <1>6, <1>7

\* The RtcWorker of a message is one of the set.
LEMMA RouteType ==
  ASSUME NEW m \in Request PROVE Route(m) \in RtcWorker
BY SignalingAssumption DEF Request, Route

\* A message that passes through the handler of t: from its queue to the one of u.
LEMMA PassInv ==
  ASSUME IInv, NEW t \in Receiver, Notified(t, "RTC_MSG"), ReadPipe(t),
         NEW u \in Receiver, t # u,
         msgq' = Push(Pop(msgq, t), u, Head(msgq[t])), Notifies(t, u, "RTC_MSG"),
         UNCHANGED <<connq, table, nextWorker, net, accepted>>,
         handled' \in Seq(Client), dropped' \subseteq Client
  PROVE  IInv'
<1>1. /\ pipe' \in [Receiver -> Seq({"NEW_CONN", "RTC_MSG"})]
      /\ pend' \in [Thread -> Pend \cup {Null}]
      /\ Ints(t, "RTC_MSG") > 0
      /\ \A v \in Receiver, k \in {"NEW_CONN", "RTC_MSG"} :
           /\ Ints(v, k) \in Nat
           /\ Ints(v, k)' = IF v = t /\ k = "RTC_MSG" THEN Ints(v, k) - 1
                            ELSE IF v = u /\ k = "RTC_MSG" THEN Ints(v, k) + 1
                            ELSE Ints(v, k)
  BY IntsPass DEF IInv
<1>2. msgq[t] # << >> /\ msgq \in [Receiver -> Seq(Request)]
  BY <1>1, SMTT(40) DEF IInv, TypeOK, WakeupPerMessage
<1>3. /\ msgq' \in [Receiver -> Seq(Request)]
      /\ \A v \in Receiver : v # t /\ v # u => msgq'[v] = msgq[v]
      /\ Len(msgq[t]) \in Nat /\ Len(msgq[t]) >= 1 /\ Len(msgq'[t]) = Len(msgq[t]) - 1
      /\ Len(msgq[u]) \in Nat /\ Len(msgq'[u]) = Len(msgq[u]) + 1
  BY <1>2, PassFacts
<1>4. TypeOK'
  BY <1>1, <1>3 DEF IInv, TypeOK, table, net
<1>5. WakeupPerMessage'
  <2>1. \A v \in Receiver : Ints(v, "RTC_MSG")' = Len(msgq'[v])
    BY <1>1, <1>3 DEF IInv, WakeupPerMessage
  <2>2. \A v \in SigWorkers : Ints(v, "NEW_CONN")' = Len(connq'[v])
    BY <1>1, Receivers DEF IInv, WakeupPerMessage
  <2> QED BY <2>1, <2>2 DEF WakeupPerMessage
<1>6. OneOwnerPerFd' /\ QueuedFds' /\ OneFdPerClient' /\ ClosedIsOwn'
  BY FdsKept DEF table, net
<1> QED BY <1>4, <1>5, <1>6 DEF IInv

\* A handler that is woken by RTC_MSG finds a message.
LEMMA WokenHasMessage ==
  ASSUME IInv, NEW t \in Receiver, Notified(t, "RTC_MSG"), ReadPipe(t)
  PROVE  msgq[t] # << >> /\ Head(msgq[t]) \in Request
<1>1. pipe[t] \in Seq({"NEW_CONN", "RTC_MSG"}) /\ msgq[t] \in Seq(Request)
  BY DEF IInv, TypeOK
<1>2. Cardinality(Places(pipe[t], "RTC_MSG")) > 0
  BY PlacesRead DEF IInv
<1>3. /\ Cardinality(Places(pipe[t], "RTC_MSG")) \in Nat
      /\ Cardinality(Writers(t, "RTC_MSG")) \in Nat
  BY <1>1, PlacesFinite, WritersFinite
<1>4. Len(msgq[t]) > 0
  BY <1>2, <1>3 DEF IInv, WakeupPerMessage, Ints
<1> QED BY <1>1, <1>4

\* RtcServer keeps the invariant.
LEMMA RouteMsgInv ==
  ASSUME IInv, RouteMsg PROVE IInv'
<1> DEFINE m == Head(msgq[RtcSrv])
<1>1. /\ Notified(RtcSrv, "RTC_MSG") /\ ReadPipe(RtcSrv) /\ RtcSrv \in Receiver
      /\ UNCHANGED <<connq, table, nextWorker, net, accepted, handled>>
  BY Receivers DEF RouteMsg
<1>2. msgq[RtcSrv] # << >> /\ m \in Request
  BY <1>1, WokenHasMessage
<1>3. Route(m) \in Receiver /\ Route(m) # RtcSrv
  BY <1>2, RouteType, Receivers
<1>4. handled \in Seq(Client) /\ dropped \subseteq Client /\ m.client \in Client
  BY <1>2 DEF IInv, TypeOK, Request
<1>5. CASE msgq' = Push(Pop(msgq, RtcSrv), Route(m), m) /\ Notifies(RtcSrv, Route(m), "RTC_MSG")
           /\ UNCHANGED dropped
  BY <1>1, <1>3, <1>4, <1>5, PassInv
<1>6. CASE /\ msgq' = Pop(msgq, RtcSrv) /\ dropped' = dropped \cup {m.client}
           /\ UNCHANGED pend
  <2>1. /\ pipe' \in [Receiver -> Seq({"NEW_CONN", "RTC_MSG"})]
        /\ \A t \in Receiver, k \in {"NEW_CONN", "RTC_MSG"} :
             /\ Ints(t, k) \in Nat
             /\ Ints(t, k)' = IF t = RtcSrv /\ k = "RTC_MSG" THEN Ints(t, k) - 1
                                                            ELSE Ints(t, k)
    BY <1>1, <1>6, IntsRead DEF IInv
  <2>2. /\ msgq' \in [Receiver -> Seq(Request)]
        /\ \A t \in Receiver : t # RtcSrv => msgq'[t] = msgq[t]
        /\ Len(msgq[RtcSrv]) \in Nat /\ Len(msgq'[RtcSrv]) = Len(msgq[RtcSrv]) - 1
    <3>1. msgq \in [Receiver -> Seq(Request)] /\ msgq' = Pop(msgq, RtcSrv)
      BY <1>6 DEF IInv, TypeOK
    <3> QED BY <1>1, <1>2, <3>1, PopFacts
  <2>3. TypeOK'
    BY <1>1, <1>4, <1>6, <2>1, <2>2 DEF IInv, TypeOK, table, net
  <2>4. WakeupPerMessage'
    <3>1. \A v \in Receiver : Ints(v, "RTC_MSG")' = Len(msgq'[v])
      BY <1>1, <2>1, <2>2 DEF IInv, WakeupPerMessage
    <3>2. \A v \in SigWorkers : Ints(v, "NEW_CONN")' = Len(connq'[v])
      BY <1>1, <2>1, Receivers DEF IInv, WakeupPerMessage
    <3> QED BY <3>1, <3>2 DEF WakeupPerMessage
  <2>5. OneOwnerPerFd' /\ QueuedFds' /\ OneFdPerClient' /\ ClosedIsOwn'
    BY <1>1, FdsKept DEF table, net
  <2> QED BY <2>3, <2>4, <2>5 DEF IInv
<1> QED BY <1>5, <1>6 DEF RouteMsg

\* An RtcWorker keeps the invariant.
LEMMA ExecuteInv ==
  ASSUME IInv, NEW r \in RtcWorker, Execute(r) PROVE IInv'
<1> DEFINE m == Head(msgq[r])
<1>1. /\ Notified(r, "RTC_MSG") /\ ReadPipe(r) /\ r \in Receiver
      /\ UNCHANGED <<connq, table, nextWorker, net, accepted, dropped>>
  BY Receivers DEF Execute
<1>2. msgq[r] # << >> /\ m \in Request
  BY <1>1, WokenHasMessage
<1>3. /\ msgq' = Push(Pop(msgq, r), m.worker, m) /\ Notifies(r, m.worker, "RTC_MSG")
      /\ handled' = Append(handled, m.client)
  BY <1>2 DEF Execute
<1>4. m.worker \in SigWorkers /\ m.client \in Client
  BY <1>2 DEF Request
<1>5. m.worker \in Receiver /\ m.worker # r
  BY <1>4, Receivers
<1>6. handled' \in Seq(Client) /\ dropped' \subseteq Client
  BY <1>1, <1>3, <1>4, AppendFacts DEF IInv, TypeOK
<1> QED BY <1>1, <1>3, <1>5, <1>6, PassInv

\* Every step keeps the invariant.
LEMMA StepInv ==
  ASSUME IInv, [Next]_vars PROVE IInv'
<1>1. CASE UNCHANGED vars
  BY <1>1 DEF vars, IInv, TypeOK, WakeupPerMessage, Ints, Writers, OneOwnerPerFd, QueuedFds,
              OneFdPerClient, ClosedIsOwn
<1>2. ASSUME NEW t \in Thread, Notify(t) PROVE IInv'
  BY <1>2, NotifyInv
<1>3. ASSUME NEW c \in Client, NEW f \in Fd, Accept(c, f) PROVE IInv'
  BY <1>3, AcceptInv
<1>4. ASSUME NEW w \in SigWorkers, NewConn(w) \/ Respond(w) \/ RemoveConn(w) PROVE IInv'
  BY <1>4, NewConnInv, RespondInv, RemoveInv
<1>5. ASSUME NEW w \in SigWorkers, NEW f \in Fd, ConnIo(w, f) \/ Timeout(w, f) PROVE IInv'
  <2>1. got \in [Client -> Seq(Client)] /\ conn \in [Ptr -> Conn \cup {Null}]
    BY DEF IInv, TypeOK
  <2>2. ASSUME ReadClose(w, f) \/ Timeout(w, f) PROVE IInv'
    BY <2>1, <2>2, CloseInv DEF ReadClose, Timeout, Looping
  <2> QED BY <1>5, <2>2, ReadRequestInv, WriteQueryInv DEF ConnIo
<1>6. CASE RouteMsg
  BY <1>6, RouteMsgInv
<1>7. ASSUME NEW r \in RtcWorker, Execute(r) PROVE IInv'
  BY <1>7, ExecuteInv
<1> QED BY <1>1, <1>2, <1>3, <1>4, <1>5, <1>6, <1>7 DEF Next

\* The threads start with the invariant.
LEMMA InitInv == Init => IInv
<1> SUFFICES ASSUME Init PROVE IInv
  OBVIOUS
<1>1. 1 \in SigWorkers
  BY SignalingAssumption DEF SigWorkers
<1>2. TypeOK
  BY <1>1 DEF Init, TypeOK
<1>3. WakeupPerMessage
  <2>1. \A t \in Receiver, k \in {"NEW_CONN", "RTC_MSG"} : Ints(t, k) = 0
    <3> SUFFICES ASSUME NEW t \in Receiver, NEW k \in {"NEW_CONN", "RTC_MSG"}
                 PROVE  Ints(t, k) = 0
      OBVIOUS
    <3>1. [to |-> t, int |-> k] # Null
      BY SignalingAssumption DEF Pend
    <3>2. Writers(t, k) = {}
      BY <3>1 DEF Init, Writers
    <3>3. Places(pipe[t], k) = {}
      BY DEF Init, Places
    <3> QED BY <3>2, <3>3, FS_EmptySet DEF Ints
  <2>2. (\A t \in Receiver : Len(msgq[t]) = 0) /\ (\A w \in SigWorkers : Len(connq[w]) = 0)
    BY DEF Init
  <2> QED BY <2>1, <2>2, Receivers DEF WakeupPerMessage
<1>4. OneOwnerPerFd /\ QueuedFds /\ OneFdPerClient /\ ClosedIsOwn
  <2>1. \A w \in SigWorkers : Len(connq[w]) = 0
    BY DEF Init
  <2> QED BY <2>1 DEF Init, OneOwnerPerFd, QueuedFds, OneFdPerClient, ClosedIsOwn
<1> QED BY <1>2, <1>3, <1>4 DEF IInv

\* Queues, pipes and descriptors of the control plane are always in order.
THEOREM ControlPlaneInvariance == Spec => []IInv
<1>1. Init => IInv
  BY InitInv
<1>2. IInv /\ [Next]_vars => IInv'
  BY StepInv
<1> QED BY <1>1, <1>2, PTL DEF Spec

\* push_msg() followed by a write() that may block loses and invents no wake-up,
\* whatever the size of the pipes: no handler finds its queue empty.
THEOREM WakeupsMatch == Spec => []WakeupPerMessage
<1>1. IInv => WakeupPerMessage
  BY DEF IInv
<1> QED BY <1>1, ControlPlaneInvariance, PTL

\* A descriptor has one owner although the kernel reuses its number as soon as close()
\* returns, before the old owner's entry is cleared.
THEOREM FdHasOneOwner == Spec => []OneOwnerPerFd
<1>1. IInv => OneOwnerPerFd
  BY DEF IInv
<1> QED BY <1>1, ControlPlaneInvariance, PTL

-----------------------------------------------------------------------------
(* A client asks once *)

\* Connections of one client are one connection.
LEMMA OneConnPerClient ==
  ASSUME IInv, NEW p \in Ptr, NEW q \in Ptr, conn[p] # Null, conn[q] # Null,
         conn[p].client = conn[q].client
  PROVE  p = q
BY DEF IInv, OneFdPerClient

\* Messages of one client are one message.
LEMMA SameMessage ==
  ASSUME RequestInv, NEW x \in Receiver, NEW z \in Receiver,
         NEW k \in 1..Len(msgq[x]), NEW l \in 1..Len(msgq[z]),
         msgq[x][k].client = msgq[z][l].client
  PROVE  x = z /\ k = l
BY DEF RequestInv, OneInFlight

\* A step that leaves messages and requests alone keeps what is known of them.
LEMMA RequestKept ==
  ASSUME RequestInv, UNCHANGED <<msgq, accepted>> PROVE InFlight' /\ OneInFlight'
<1>1. Asked' = Asked
  BY DEF Asked
<1>2. InFlight'
  BY <1>1 DEF RequestInv, InFlight, Route
<1>3. OneInFlight'
  BY DEF RequestInv, OneInFlight
<1> QED BY <1>2, <1>3

\* A message that passes keeps what is known of messages, if it goes where it should.
LEMMA RequestPassed ==
  ASSUME IInv, RequestInv, NEW t \in Receiver, NEW u \in Receiver, t # u, msgq[t] # << >>,
         msgq' = Push(Pop(msgq, t), u, Head(msgq[t])), accepted' = accepted,
         u \in SigWorkers => u = Head(msgq[t]).worker,
         u \in RtcWorker => u = Route(Head(msgq[t]))
  PROVE  InFlight' /\ OneInFlight'
<1>1. msgq \in [Receiver -> Seq(Request)]
  BY DEF IInv, TypeOK
<1>2. /\ \A v \in Receiver : v # t /\ v # u => msgq'[v] = msgq[v]
      /\ Head(msgq[t]) = msgq[t][1]
      /\ Len(msgq[t]) \in Nat /\ Len(msgq[t]) >= 1 /\ Len(msgq'[t]) = Len(msgq[t]) - 1
      /\ \A i \in 1..(Len(msgq[t]) - 1) : msgq'[t][i] = msgq[t][i + 1]
      /\ Len(msgq[u]) \in Nat /\ Len(msgq'[u]) = Len(msgq[u]) + 1
      /\ \A i \in 1..Len(msgq[u]) : msgq'[u][i] = msgq[u][i]
      /\ msgq'[u][Len(msgq[u]) + 1] = Head(msgq[t])
  BY <1>1, PassFacts
<1> DEFINE last(v, i) == v = u /\ i = Len(msgq[u]) + 1
           from(v, i) == IF last(v, i) THEN t ELSE v
           at(v, i) == IF v = t THEN i + 1 ELSE IF last(v, i) THEN 1 ELSE i
<1>3. ASSUME NEW v \in Receiver, NEW i \in 1..Len(msgq'[v])
      PROVE  /\ from(v, i) \in Receiver /\ at(v, i) \in 1..Len(msgq[from(v, i)])
             /\ msgq'[v][i] = msgq[from(v, i)][at(v, i)]
  <2>1. CASE v = t
    BY <1>2, <2>1
  <2>2. CASE last(v, i)
    BY <1>2, <2>2
  <2>3. CASE v # t /\ ~ last(v, i)
    BY <1>2, <2>3
  <2> QED BY <2>1, <2>2, <2>3
<1>4. InFlight'
  <2> SUFFICES ASSUME NEW v \in Receiver, NEW i \in 1..Len(msgq'[v])
               PROVE  /\ msgq'[v][i].client \in Asked'
                      /\ msgq'[v][i].name = StreamOf[msgq'[v][i].client]
                      /\ v \in SigWorkers => v = msgq'[v][i].worker
                      /\ v \in RtcWorker => v = Route(msgq'[v][i])
    BY DEF InFlight, Route
  <2> DEFINE x == from(v, i)
             k == at(v, i)
  <2>1. x \in Receiver /\ k \in 1..Len(msgq[x]) /\ msgq'[v][i] = msgq[x][k]
    BY <1>3
  <2>2. last(v, i) => x = t /\ k = 1
    OBVIOUS
  <2>3. ~ last(v, i) => x = v
    OBVIOUS
  <2> HIDE DEF x, k
  <2>4. /\ msgq[x][k].client \in Asked /\ msgq[x][k].name = StreamOf[msgq[x][k].client]
        /\ x \in SigWorkers => x = msgq[x][k].worker
        /\ x \in RtcWorker => x = Route(msgq[x][k])
    BY <2>1 DEF RequestInv, InFlight
  <2>5. Asked' = Asked
    BY DEF Asked
  <2>6. CASE last(v, i)
    BY <1>2, <2>1, <2>2, <2>4, <2>5, <2>6
  <2>7. CASE ~ last(v, i)
    BY <2>1, <2>3, <2>4, <2>5, <2>7
  <2> QED BY <2>6, <2>7
<1>5. OneInFlight'
  <2> SUFFICES ASSUME NEW v \in Receiver, NEW i \in 1..Len(msgq'[v]),
                      NEW y \in Receiver, NEW j \in 1..Len(msgq'[y]),
                      msgq'[v][i].client = msgq'[y][j].client
               PROVE  v = y /\ i = j
    BY DEF OneInFlight
  <2> DEFINE x == from(v, i)
             k == at(v, i)
             z == from(y, j)
             l == at(y, j)
  <2>1. x \in Receiver /\ k \in 1..Len(msgq[x]) /\ msgq'[v][i] = msgq[x][k]
    BY <1>3
  <2>2. z \in Receiver /\ l \in 1..Len(msgq[z]) /\ msgq'[y][j] = msgq[z][l]
    BY <1>3
  <2>3. x = z /\ k = l => v = y /\ i = j
    BY <1>2
  <2> HIDE DEF x, k, z, l
  <2>4. msgq[x][k].client = msgq[z][l].client
    BY <2>1, <2>2
  <2>5. x = z /\ k = l
    BY <2>1, <2>2, <2>4, SameMessage
  <2> QED BY <2>3, <2>5
<1> QED BY <1>4, <1>5

\* A message that is taken off its queue leaves what is known of the others.
LEMMA RequestPopped ==
  ASSUME IInv, RequestInv, NEW t \in Receiver, msgq[t] # << >>,
         msgq' = Pop(msgq, t), accepted' = accepted
  PROVE  InFlight' /\ OneInFlight'
<1>1. msgq \in [Receiver -> Seq(Request)]
  BY DEF IInv, TypeOK
<1>2. /\ \A v \in Receiver : v # t => msgq'[v] = msgq[v]
      /\ Len(msgq[t]) \in Nat /\ Len(msgq[t]) >= 1 /\ Len(msgq'[t]) = Len(msgq[t]) - 1
      /\ \A i \in 1..(Len(msgq[t]) - 1) : msgq'[t][i] = msgq[t][i + 1]
  BY <1>1, PopFacts
<1> DEFINE at(v, i) == IF v = t THEN i + 1 ELSE i
<1>3. ASSUME NEW v \in Receiver, NEW i \in 1..Len(msgq'[v])
      PROVE  at(v, i) \in 1..Len(msgq[v]) /\ msgq'[v][i] = msgq[v][at(v, i)]
  BY <1>2
<1>4. InFlight'
  <2> SUFFICES ASSUME NEW v \in Receiver, NEW i \in 1..Len(msgq'[v])
               PROVE  /\ msgq'[v][i].client \in Asked'
                      /\ msgq'[v][i].name = StreamOf[msgq'[v][i].client]
                      /\ v \in SigWorkers => v = msgq'[v][i].worker
                      /\ v \in RtcWorker => v = Route(msgq'[v][i])
    BY DEF InFlight, Route
  <2> DEFINE k == at(v, i)
  <2>1. k \in 1..Len(msgq[v]) /\ msgq'[v][i] = msgq[v][k]
    BY <1>3
  <2>2. Asked' = Asked
    BY DEF Asked
  <2> HIDE DEF k
  <2> QED BY <2>1, <2>2 DEF RequestInv, InFlight
<1>5. OneInFlight'
  <2> SUFFICES ASSUME NEW v \in Receiver, NEW i \in 1..Len(msgq'[v]),
                      NEW y \in Receiver, NEW j \in 1..Len(msgq'[y]),
                      msgq'[v][i].client = msgq'[y][j].client
               PROVE  v = y /\ i = j
    BY DEF OneInFlight
  <2> DEFINE k == at(v, i)
             l == at(y, j)
  <2>1. k \in 1..Len(msgq[v]) /\ msgq'[v][i] = msgq[v][k]
    BY <1>3
  <2>2. l \in 1..Len(msgq[y]) /\ msgq'[y][j] = msgq[y][l]
    BY <1>3
  <2>3. v = y /\ k = l => i = j
    OBVIOUS
  <2> HIDE DEF k, l
  <2>4. v = y /\ k = l
    BY <2>1, <2>2, SameMessage
  <2> QED BY <2>3, <2>4
<1> QED BY <1>4, <1>5

\* A step that leaves clients, descriptors and seals alone keeps AskOnce.
LEMMA AskKept ==
  ASSUME IInv, RequestInv, UNCHANGED <<accepted, phase, connq, sock>>,
         \A p \in Ptr : conn'[p] # Null => /\ conn[p] # Null
                                           /\ conn'[p].client = conn[p].client
                                           /\ conn[p].sealed => conn'[p].sealed
  PROVE  AskOnce'
<1>1. Asked' = Asked
  BY DEF Asked
<1>2. \A c \in Client : phase'[c] = "new" => c \notin Asked'
  BY <1>1 DEF RequestInv, AskOnce
<1>3. \A i, j \in 1..Len(accepted') : accepted'[i] = accepted'[j] => i = j
  BY DEF RequestInv, AskOnce
<1>4. \A w \in SigWorkers : \A i \in 1..Len(connq'[w]) : sock'[connq'[w][i]] \notin Asked'
  BY <1>1 DEF RequestInv, AskOnce
<1>5. \A p \in Ptr : conn'[p] # Null /\ conn'[p].client \in Asked' => conn'[p].sealed
  BY <1>1 DEF RequestInv, AskOnce
<1> QED BY <1>2, <1>3, <1>4, <1>5 DEF AskOnce

\* close() lets nobody ask again.
LEMMA AskClosed ==
  ASSUME IInv, RequestInv, NEW w \in SigWorkers, NEW f \in Fd, tcpConns[w][f] # Null,
         closing[w] = Null, CloseConn(w, tcpConns[w][f]), UNCHANGED <<connq, accepted>>,
         \A p \in Ptr : conn'[p] # Null => /\ conn[p] # Null
                                           /\ conn'[p].client = conn[p].client
                                           /\ conn[p].sealed => conn'[p].sealed
  PROVE  AskOnce'
<1> DEFINE p == tcpConns[w][f]
<1>1. p \in Ptr /\ conn[p].fd = f /\ conn[p].client \in Client
  BY ConnFacts
<1>2. /\ sock' = [sock EXCEPT ![f] = Null]
      /\ phase' = [phase EXCEPT ![conn[p].client] = "gone"]
  BY <1>1 DEF CloseConn
<1>3. /\ sock \in [Fd -> Client \cup {Null}] /\ connq \in [SigWorkers -> Seq(Fd)]
      /\ phase \in [Client -> {"new", "open", "gone"}]
  BY DEF IInv, TypeOK
<1>4. Asked' = Asked
  BY DEF Asked
<1>5. \A v \in SigWorkers : \A i \in 1..Len(connq[v]) : connq[v][i] # f /\ connq[v][i] \in Fd
  BY <1>3 DEF IInv, QueuedFds
<1> HIDE DEF p
<1>6. \A v \in SigWorkers : \A i \in 1..Len(connq'[v]) : sock'[connq'[v][i]] \notin Asked'
  BY <1>2, <1>3, <1>4, <1>5 DEF RequestInv, AskOnce
<1>7. \A c \in Client : phase'[c] = "new" => c \notin Asked'
  BY <1>2, <1>3, <1>4 DEF RequestInv, AskOnce
<1>8. \A q \in Ptr : conn'[q] # Null /\ conn'[q].client \in Asked' => conn'[q].sealed
  BY <1>4 DEF RequestInv, AskOnce
<1> QED BY <1>6, <1>7, <1>8 DEF RequestInv, AskOnce

\* _remove_conn() lets nobody ask again.
LEMMA RequestRemoved ==
  ASSUME IInv, RequestInv, NEW w \in SigWorkers, RemoveConn(w) PROVE RequestInv'
<1>1. UNCHANGED <<connq, msgq, sock, phase, accepted>>
  BY DEF RemoveConn, net, hist
<1>2. /\ conn \in [Ptr -> Conn \cup {Null}]
      /\ conn' = [conn EXCEPT ![closing[w]] = Null]
  BY DEF RemoveConn, IInv, TypeOK
<1>3. \A p \in Ptr : conn'[p] # Null => conn'[p] = conn[p]
  BY <1>2
<1>4. AskOnce'
  BY <1>1, <1>3, AskKept
<1> QED BY <1>1, <1>4, RequestKept DEF RequestInv

\* A client that is accepted has not asked.
LEMMA AskAccept ==
  ASSUME IInv, RequestInv, NEW c \in Client, NEW f \in Fd, Accept(c, f) PROVE RequestInv'
<1> DEFINE w == nextWorker
<1>1. /\ phase[c] = "new" /\ sock[f] = Null /\ w \in SigWorkers
      /\ sock' = [sock EXCEPT ![f] = c] /\ phase' = [phase EXCEPT ![c] = "open"]
      /\ connq' = Push(connq, w, f) /\ UNCHANGED <<msgq, conn, accepted>>
  BY DEF Accept, TcpAccept, NotifyNewConn, table, hist, IInv, TypeOK
<1>2. /\ sock \in [Fd -> Client \cup {Null}] /\ connq \in [SigWorkers -> Seq(Fd)]
      /\ phase \in [Client -> {"new", "open", "gone"}]
  BY DEF IInv, TypeOK
<1>3. Asked' = Asked
  BY <1>1 DEF Asked
<1>4. c \notin Asked
  BY <1>1 DEF RequestInv, AskOnce
<1> HIDE DEF w
<1>5. /\ \A v \in SigWorkers : v # w => connq'[v] = connq[v]
      /\ Len(connq[w]) \in Nat /\ Len(connq'[w]) = Len(connq[w]) + 1
      /\ \A i \in 1..Len(connq[w]) : connq'[w][i] = connq[w][i]
      /\ connq'[w][Len(connq[w]) + 1] = f
  <2>1. connq \in [SigWorkers -> Seq(Fd)] /\ w \in SigWorkers /\ connq' = Push(connq, w, f)
    BY <1>1, <1>2
  <2> QED BY <2>1, PushFacts
<1>6. \A v \in SigWorkers : \A i \in 1..Len(connq[v]) : connq[v][i] # f /\ connq[v][i] \in Fd
  BY <1>1, <1>2 DEF IInv, QueuedFds
<1>7. ASSUME NEW v \in SigWorkers, NEW i \in 1..Len(connq'[v])
      PROVE  sock'[connq'[v][i]] \notin Asked'
  <2>1. CASE v = w /\ i = Len(connq[w]) + 1
    BY <1>1, <1>2, <1>3, <1>4, <1>5, <2>1
  <2>2. CASE ~ (v = w /\ i = Len(connq[w]) + 1)
    <3>1. i \in 1..Len(connq[v]) /\ connq'[v][i] = connq[v][i]
      BY <1>5, <2>2
    <3> QED BY <1>1, <1>2, <1>3, <1>6, <3>1 DEF RequestInv, AskOnce
  <2> QED BY <2>1, <2>2
<1>8. \A d \in Client : phase'[d] = "new" => d \notin Asked'
  BY <1>1, <1>2, <1>3 DEF RequestInv, AskOnce
<1>9. AskOnce'
  BY <1>1, <1>3, <1>7, <1>8 DEF RequestInv, AskOnce
<1> QED BY <1>1, <1>9, RequestKept DEF RequestInv

\* A connection that a worker takes over has not asked.
LEMMA AskNewConn ==
  ASSUME IInv, RequestInv, NEW w \in SigWorkers, NewConn(w) PROVE RequestInv'
<1> DEFINE f == Head(connq[w])
           new == [fd |-> f, client |-> sock[f], sealed |-> FALSE, replies |-> << >>]
<1>1. /\ Notified(w, "NEW_CONN") /\ ReadPipe(w) /\ w \in Receiver
      /\ UNCHANGED <<pend, msgq, sock, phase, accepted>>
  BY Receivers DEF NewConn, net, hist
<1>2. Ints(w, "NEW_CONN") > 0
  BY <1>1, IntsRead DEF IInv
<1>3. connq \in [SigWorkers -> Seq(Fd)] /\ conn \in [Ptr -> Conn \cup {Null}]
  BY DEF IInv, TypeOK
<1>4. connq[w] # << >>
  BY <1>2 DEF IInv, WakeupPerMessage
<1>5. PICK p \in FreePtr : connq' = Pop(connq, w) /\ conn' = [conn EXCEPT ![p] = new]
  BY <1>4 DEF NewConn
<1>6. /\ \A v \in SigWorkers : v # w => connq'[v] = connq[v]
      /\ f = connq[w][1] /\ Len(connq[w]) \in Nat /\ Len(connq[w]) >= 1
      /\ Len(connq'[w]) = Len(connq[w]) - 1
      /\ \A i \in 1..(Len(connq[w]) - 1) : connq'[w][i] = connq[w][i + 1]
  BY <1>3, <1>4, <1>5, PopFacts
<1>7. Asked' = Asked
  BY <1>1 DEF Asked
<1>8. sock[f] \notin Asked
  BY <1>6 DEF RequestInv, AskOnce
<1>9. new.client = sock[f]
  OBVIOUS
<1> HIDE DEF f, new
<1>10. ASSUME NEW v \in SigWorkers, NEW i \in 1..Len(connq'[v])
       PROVE  sock'[connq'[v][i]] \notin Asked'
  <2>1. CASE v = w
    <3>1. i + 1 \in 1..Len(connq[v]) /\ connq'[v][i] = connq[v][i + 1]
      BY <1>6, <2>1
    <3> QED BY <1>1, <1>7, <3>1 DEF RequestInv, AskOnce
  <2>2. CASE v # w
    BY <1>1, <1>6, <1>7, <2>2 DEF RequestInv, AskOnce
  <2> QED BY <2>1, <2>2
<1>11. ASSUME NEW q \in Ptr, conn'[q] # Null, conn'[q].client \in Asked'
       PROVE  conn'[q].sealed
  <2>1. CASE q = p
    BY <1>3, <1>5, <1>7, <1>8, <1>9, <1>11, <2>1
  <2>2. CASE q # p
    BY <1>3, <1>5, <1>7, <1>11, <2>2 DEF RequestInv, AskOnce
  <2> QED BY <2>1, <2>2
<1>12. AskOnce'
  BY <1>1, <1>7, <1>10, <1>11 DEF RequestInv, AskOnce
<1> QED BY <1>1, <1>12, RequestKept DEF RequestInv

\* A request seals its connection, so that no other can follow.
LEMMA AskRequest ==
  ASSUME IInv, RequestInv, NEW w \in SigWorkers, NEW f \in Fd, ReadRequest(w, f)
  PROVE  RequestInv'
<1> DEFINE p == tcpConns[w][f]
           c == conn[p].client
           m == Msg(w, p)
<1>1. /\ p # Null /\ ~ conn[p].sealed /\ closing[w] = Null
      /\ msgq' = Push(msgq, RtcSrv, m)
      /\ conn' = [conn EXCEPT ![p].sealed = TRUE]
      /\ accepted' = Append(accepted, c)
      /\ UNCHANGED <<connq, sock, phase>>
  BY DEF ReadRequest, net, MayRequest, Looping
<1>2. /\ p \in Ptr /\ conn[p] \in Conn /\ conn[p] # Null /\ c \in Client
      /\ sock[f] = c /\ sock[f] # Null
  BY <1>1, ConnFacts, OpenFacts
<1>3. m \in Request /\ m.client = c /\ m.name = StreamOf[c]
  BY <1>1, MsgType DEF Msg
<1>4. c \notin Asked
  BY <1>1, <1>2 DEF RequestInv, AskOnce
<1> HIDE DEF p, c, m
<1>5. /\ msgq \in [Receiver -> Seq(Request)] /\ conn \in [Ptr -> Conn \cup {Null}]
      /\ accepted \in Seq(Client) /\ RtcSrv \in Receiver
      /\ connq \in [SigWorkers -> Seq(Fd)]
  BY Receivers DEF IInv, TypeOK
<1>6. /\ Len(accepted) \in Nat /\ Len(accepted') = Len(accepted) + 1
      /\ \A i \in 1..Len(accepted) : accepted'[i] = accepted[i]
      /\ accepted'[Len(accepted) + 1] = c
  BY <1>1, <1>2, <1>5, AppendFacts
<1>7. Asked' = Asked \cup {c}
  BY <1>6 DEF Asked
<1>8. /\ \A t \in Receiver : t # RtcSrv => msgq'[t] = msgq[t]
      /\ Len(msgq[RtcSrv]) \in Nat /\ Len(msgq'[RtcSrv]) = Len(msgq[RtcSrv]) + 1
      /\ \A i \in 1..Len(msgq[RtcSrv]) : msgq'[RtcSrv][i] = msgq[RtcSrv][i]
      /\ msgq'[RtcSrv][Len(msgq[RtcSrv]) + 1] = m
  <2>1. /\ msgq \in [Receiver -> Seq(Request)] /\ RtcSrv \in Receiver /\ m \in Request
        /\ msgq' = Push(msgq, RtcSrv, m)
    BY <1>1, <1>3, <1>5
  <2> QED BY <2>1, PushMsgFacts
<1>9. ASSUME NEW t \in Receiver, NEW i \in 1..Len(msgq'[t])
      PROVE  \/ i \in 1..Len(msgq[t]) /\ msgq'[t][i] = msgq[t][i] /\ msgq[t][i].client \in Asked
             \/ t = RtcSrv /\ i = Len(msgq[t]) + 1 /\ msgq'[t][i] = m
  <2>1. CASE t = RtcSrv /\ i = Len(msgq[t]) + 1
    BY <1>8, <2>1
  <2>2. CASE ~ (t = RtcSrv /\ i = Len(msgq[t]) + 1)
    <3>1. i \in 1..Len(msgq[t]) /\ msgq'[t][i] = msgq[t][i]
      BY <1>8, <2>2
    <3> QED BY <3>1 DEF RequestInv, InFlight
  <2> QED BY <2>1, <2>2
<1>10. InFlight'
  <2> SUFFICES ASSUME NEW t \in Receiver, NEW i \in 1..Len(msgq'[t])
               PROVE  /\ msgq'[t][i].client \in Asked'
                      /\ msgq'[t][i].name = StreamOf[msgq'[t][i].client]
                      /\ t \in SigWorkers => t = msgq'[t][i].worker
                      /\ t \in RtcWorker => t = Route(msgq'[t][i])
    BY DEF InFlight, Route
  <2>1. CASE i \in 1..Len(msgq[t]) /\ msgq'[t][i] = msgq[t][i]
    BY <1>7, <2>1 DEF RequestInv, InFlight
  <2>2. CASE t = RtcSrv /\ msgq'[t][i] = m
    BY <1>3, <1>7, <2>2, Receivers
  <2> QED BY <1>9, <2>1, <2>2
<1>11. OneInFlight'
  <2> SUFFICES ASSUME NEW v \in Receiver, NEW i \in 1..Len(msgq'[v]),
                      NEW y \in Receiver, NEW j \in 1..Len(msgq'[y]),
                      msgq'[v][i].client = msgq'[y][j].client
               PROVE  v = y /\ i = j
    BY DEF OneInFlight
  <2>1. CASE i \in 1..Len(msgq[v]) /\ msgq'[v][i] = msgq[v][i]
             /\ j \in 1..Len(msgq[y]) /\ msgq'[y][j] = msgq[y][j]
    BY <2>1, SameMessage
  <2>2. CASE ~ (i \in 1..Len(msgq[v]) /\ j \in 1..Len(msgq[y]))
    BY <1>3, <1>4, <1>9, <2>2, ZenonT(40)
  <2> QED BY <1>9, <2>1, <2>2
<1>12. AskOnce'
  <2>1. \A i, j \in 1..Len(accepted') : accepted'[i] = accepted'[j] => i = j
    <3>1. \A i \in 1..Len(accepted') :
            \/ i \in 1..Len(accepted) /\ accepted'[i] = accepted[i] /\ accepted[i] # c
            \/ i = Len(accepted) + 1 /\ accepted'[i] = c
      BY <1>4, <1>6 DEF Asked
    <3> QED BY <3>1 DEF RequestInv, AskOnce
  <2>2. \A d \in Client : phase'[d] = "new" => d \notin Asked'
    BY <1>1, <1>2, <1>7 DEF RequestInv, AskOnce, IInv, OneFdPerClient
  <2>3. ASSUME NEW v \in SigWorkers, NEW i \in 1..Len(connq'[v])
        PROVE  sock'[connq'[v][i]] \notin Asked'
    <3>1. connq[v][i] \in Fd /\ connq[v][i] # f
      <4>1. connq[v][i] \in Fd /\ tcpConns[w][connq[v][i]] \in {Null, closing[w]}
        BY <1>1, <1>5, <2>3 DEF IInv, QueuedFds
      <4> QED BY <1>1, <4>1 DEF p
    <3>2. sock[connq[v][i]] # c
      BY <1>2, <3>1 DEF IInv, OneFdPerClient
    <3> QED BY <1>1, <1>7, <2>3, <3>2 DEF RequestInv, AskOnce
  <2>4. ASSUME NEW q \in Ptr, conn'[q] # Null, conn'[q].client \in Asked'
        PROVE  conn'[q].sealed
    <3>1. CASE q = p
      BY <1>1, <1>2, <1>5, <3>1 DEF Conn
    <3>2. CASE q # p
      <4>1. conn'[q] = conn[q] /\ conn[q] # Null
        BY <1>1, <1>5, <2>4, <3>2
      <4>2. conn[q].client # c
        BY <1>2, <3>2, <4>1, OneConnPerClient DEF c
      <4> QED BY <1>7, <2>4, <4>1, <4>2 DEF RequestInv, AskOnce
    <3> QED BY <3>1, <3>2
  <2> QED BY <2>1, <2>2, <2>3, <2>4 DEF AskOnce
<1> QED BY <1>10, <1>11, <1>12 DEF RequestInv

\* What _response_server_offer() and _add_reply() change: the reply goes to the
\* connection the message names, if its worker still has it in its table.
LEMMA RespondFacts ==
  ASSUME IInv, RequestInv, NEW w \in SigWorkers, Respond(w)
  PROVE  /\ w \in Receiver /\ msgq[w] # << >> /\ Head(msgq[w]) \in Request
         /\ Head(msgq[w]) = msgq[w][1] /\ 1 \in 1..Len(msgq[w])
         /\ msgq' = Pop(msgq, w)
         /\ UNCHANGED <<connq, tcpConns, sock, phase, got, accepted, handled, dropped>>
         /\ \A q \in Ptr :
              /\ conn'[q] = Null <=> conn[q] = Null
              /\ conn[q] # Null =>
                   /\ conn'[q].client = conn[q].client /\ conn'[q].sealed = conn[q].sealed
                   /\ conn'[q].fd = conn[q].fd
                   /\ \/ conn'[q].replies = conn[q].replies
                      \/ /\ conn'[q].replies = Append(conn[q].replies, Head(msgq[w]))
                         /\ q = Head(msgq[w]).conn /\ conn[q].fd = Head(msgq[w]).fd
<1> DEFINE m == Head(msgq[w])
           p == tcpConns[w][m.fd]
<1>1. /\ Notified(w, "RTC_MSG") /\ ReadPipe(w) /\ w \in Receiver
      /\ UNCHANGED <<connq, tcpConns, sock, phase, got, accepted, handled, dropped>>
  BY Receivers DEF Respond, net, hist
<1>2. msgq[w] # << >> /\ m \in Request
  BY <1>1, WokenHasMessage
<1>3. msgq[w] \in Seq(Request)
  BY <1>1 DEF IInv, TypeOK
<1>4. m = msgq[w][1] /\ 1 \in 1..Len(msgq[w])
  BY <1>2, <1>3, TailFacts
<1>5. m.worker = w
  BY <1>1, <1>4 DEF RequestInv, InFlight
<1>6. /\ msgq' = Pop(msgq, w)
      /\ IF SameConn(m)
         THEN conn' = [conn EXCEPT ![p].replies = Append(@, m)]
         ELSE conn' = conn
  BY <1>2 DEF Respond
<1>7. /\ m.conn \in Ptr /\ m.conn # Null /\ m.fd \in Fd
  BY <1>2, SignalingAssumption DEF Request
<1>8. conn \in [Ptr -> Conn \cup {Null}]
  BY DEF IInv, TypeOK
<1>9. CASE SameConn(m)
  <2>1. p = m.conn
    BY <1>5, <1>9 DEF SameConn
  <2>2. conn[p] # Null /\ conn[p] \in Conn /\ conn[p].fd = m.fd
    BY <1>7, <2>1, ConnFacts
  <2> HIDE DEF m, p
  <2> DEFINE new == [conn[p] EXCEPT !.replies = Append(conn[p].replies, m)]
  <2>3. conn[p].replies \in Seq(Request)
    BY <2>2 DEF Conn
  <2>4. Append(conn[p].replies, m) \in Seq(Request)
    BY <1>2, <2>3, AppendFacts
  <2>5. /\ new \in Conn /\ new.client = conn[p].client /\ new.sealed = conn[p].sealed
        /\ new.fd = conn[p].fd /\ new.replies = Append(conn[p].replies, m)
    BY <2>2, <2>4 DEF Conn
  <2>6. new # Null
    BY <2>5, SignalingAssumption
  <2>7. conn' = [conn EXCEPT ![p] = new]
    BY <1>6, <1>9
  <2> HIDE DEF new
  <2>8. \A q \in Ptr : conn'[q] = IF q = p THEN new ELSE conn[q]
    BY <1>7, <1>8, <2>1, <2>7
  <2>9. ASSUME NEW q \in Ptr
        PROVE  /\ conn'[q] = Null <=> conn[q] = Null
               /\ conn[q] # Null =>
                    /\ conn'[q].client = conn[q].client /\ conn'[q].sealed = conn[q].sealed
                    /\ conn'[q].fd = conn[q].fd
                    /\ \/ conn'[q].replies = conn[q].replies
                       \/ /\ conn'[q].replies = Append(conn[q].replies, m)
                          /\ q = m.conn /\ conn[q].fd = m.fd
    <3>1. CASE q # p
      BY <2>8, <3>1
    <3>2. CASE q = p
      <4>1. conn'[q] = new /\ conn[q] = conn[p] /\ q = m.conn
        BY <2>1, <2>8, <3>2
      <4> QED BY <2>2, <2>5, <2>6, <4>1
    <3> QED BY <3>1, <3>2
  <2> QED BY <1>1, <1>2, <1>4, <1>6, <2>9 DEF m
<1>10. CASE ~ SameConn(m)
  BY <1>1, <1>2, <1>4, <1>6, <1>10
<1> QED BY <1>9, <1>10

\* Every step lets a client ask at most once, and its message go only where it should.
LEMMA RequestStep ==
  ASSUME IInv, RequestInv, [Next]_vars PROVE RequestInv'
<1>1. CASE UNCHANGED vars
  BY <1>1, RequestKept, AskKept DEF vars, RequestInv
<1>2. ASSUME NEW t \in Thread, Notify(t) PROVE RequestInv'
  BY <1>2, RequestKept, AskKept DEF Notify, table, net, hist, RequestInv
<1>3. ASSUME NEW c \in Client, NEW f \in Fd, Accept(c, f) PROVE RequestInv'
  BY <1>3, AskAccept
<1>4. ASSUME NEW w \in SigWorkers, NewConn(w) PROVE RequestInv'
  BY <1>4, AskNewConn
<1>5. ASSUME NEW w \in SigWorkers, Respond(w) PROVE RequestInv'
  <2>1. /\ w \in Receiver /\ msgq[w] # << >> /\ msgq' = Pop(msgq, w)
        /\ UNCHANGED <<connq, sock, phase, accepted>>
        /\ \A q \in Ptr : conn'[q] # Null => /\ conn[q] # Null
                                             /\ conn'[q].client = conn[q].client
                                             /\ conn[q].sealed => conn'[q].sealed
    BY <1>5, RespondFacts
  <2>2. InFlight' /\ OneInFlight'
    BY <2>1, RequestPopped
  <2>3. AskOnce'
    BY <2>1, AskKept
  <2> QED BY <2>2, <2>3 DEF RequestInv
<1>6. ASSUME NEW w \in SigWorkers, NEW f \in Fd, ReadRequest(w, f) PROVE RequestInv'
  BY <1>6, AskRequest
<1>7. ASSUME NEW w \in SigWorkers, NEW f \in Fd, ReadClose(w, f) \/ Timeout(w, f)
      PROVE  RequestInv'
  <2>1. /\ tcpConns[w][f] # Null /\ closing[w] = Null /\ CloseConn(w, tcpConns[w][f])
        /\ UNCHANGED <<connq, msgq, conn, accepted>>
    BY <1>7 DEF ReadClose, Timeout, hist, Looping
  <2>2. AskOnce'
    BY <2>1, AskClosed
  <2> QED BY <2>1, <2>2, RequestKept DEF RequestInv
<1>8. ASSUME NEW w \in SigWorkers, NEW f \in Fd, WriteQuery(w, f) PROVE RequestInv'
  <2> DEFINE p == tcpConns[w][f]
             r == conn[p].replies
  <2>1. p # Null /\ closing[w] = Null /\ UNCHANGED <<connq, msgq, accepted>>
    BY <1>8 DEF WriteQuery, hist, Looping
  <2>2. PICK sent \in 0..Len(r) :
          /\ conn' = [conn EXCEPT ![p].replies = SubSeq(r, sent + 1, Len(r))]
          /\ UNCHANGED <<sock, phase>> \/ CloseConn(w, p)
    BY <1>8 DEF WriteQuery
  <2>3. p \in Ptr /\ conn[p] # Null
    BY <2>1, ConnFacts
  <2>4. \A q \in Ptr : conn'[q] # Null => /\ conn[q] # Null
                                          /\ conn'[q].client = conn[q].client
                                          /\ conn[q].sealed => conn'[q].sealed
    BY <2>2, <2>3, WriteFacts
  <2>5. AskOnce'
    BY <2>1, <2>2, <2>4, AskKept, AskClosed
  <2> QED BY <2>1, <2>5, RequestKept DEF RequestInv
<1>9. CASE RouteMsg
  <2> DEFINE m == Head(msgq[RtcSrv])
  <2>1. /\ Notified(RtcSrv, "RTC_MSG") /\ ReadPipe(RtcSrv) /\ RtcSrv \in Receiver
        /\ UNCHANGED <<connq, conn, sock, phase, accepted>>
    BY <1>9, Receivers DEF RouteMsg, table, net
  <2>2. msgq[RtcSrv] # << >> /\ m \in Request
    BY <2>1, WokenHasMessage
  <2>3. Route(m) \in RtcWorker /\ Route(m) \in Receiver /\ Route(m) # RtcSrv
        /\ Route(m) \notin SigWorkers
    BY <2>2, RouteType, Receivers, SignalingAssumption
  <2>4. AskOnce'
    BY <2>1, AskKept
  <2>5. \/ msgq' = Push(Pop(msgq, RtcSrv), Route(m), m)
        \/ msgq' = Pop(msgq, RtcSrv)
    BY <1>9 DEF RouteMsg
  <2>6. InFlight' /\ OneInFlight'
    BY <2>1, <2>2, <2>3, <2>5, RequestPassed, RequestPopped
  <2> QED BY <2>4, <2>6 DEF RequestInv
<1>10. ASSUME NEW r \in RtcWorker, Execute(r) PROVE RequestInv'
  <2> DEFINE m == Head(msgq[r])
  <2>1. /\ Notified(r, "RTC_MSG") /\ ReadPipe(r) /\ r \in Receiver
        /\ UNCHANGED <<connq, conn, sock, phase, accepted>>
    BY <1>10, Receivers DEF Execute, table, net
  <2>2. msgq[r] # << >> /\ m \in Request
    BY <2>1, WokenHasMessage
  <2>3. m.worker \in SigWorkers
    BY <2>2 DEF Request
  <2>4. m.worker \in Receiver /\ m.worker # r /\ m.worker \notin RtcWorker
    BY <2>3, Receivers, SignalingAssumption
  <2>5. AskOnce'
    BY <2>1, AskKept
  <2>6. msgq' = Push(Pop(msgq, r), m.worker, m)
    BY <1>10, <2>2 DEF Execute
  <2>7. InFlight' /\ OneInFlight'
    BY <2>1, <2>2, <2>4, <2>6, RequestPassed
  <2> QED BY <2>5, <2>7 DEF RequestInv
<1>11. ASSUME NEW w \in SigWorkers, RemoveConn(w) PROVE RequestInv'
  BY <1>11, RequestRemoved
<1> QED BY <1>1, <1>2, <1>3, <1>4, <1>5, <1>6, <1>7, <1>8, <1>9, <1>10, <1>11 DEF Next, ConnIo

\* A client asks RtcServer at most once, and there is never a second message of it.
THEOREM RequestsAskOnce == Spec => []RequestInv
<1>1. Init => RequestInv
  <2> SUFFICES ASSUME Init PROVE RequestInv
    OBVIOUS
  <2>1. /\ accepted = << >> /\ \A t \in Receiver : msgq[t] = << >>
        /\ \A w \in SigWorkers : connq[w] = << >>
        /\ \A p \in Ptr : conn[p] = Null
    BY DEF Init
  <2>2. Asked = {}
    BY <2>1 DEF Asked
  <2> QED BY <2>1, <2>2 DEF RequestInv, AskOnce, InFlight, OneInFlight
<1>2. IInv /\ RequestInv /\ [Next]_vars => RequestInv'
  BY RequestStep
<1> QED BY <1>1, <1>2, ControlPlaneInvariance, PTL DEF Spec

-----------------------------------------------------------------------------
(* Replies *)

\* The messages in the queues.
Flying == UNION {{msgq[t][i] : i \in 1..Len(msgq[t])} : t \in Receiver}

\* No reply has overtaken m, and it names its client's own connection unless that is gone.
Awaited(m) ==
  /\ \A p \in Ptr : conn[p] # Null =>
       \A k \in 1..Len(conn[p].replies) : conn[p].replies[k].client # m.client
  /\ \A d \in Client : \A k \in 1..Len(got[d]) : got[d][k] # m.client
  /\ phase[m.client] # "gone" => conn[m.conn] # Null /\ conn[m.conn].client = m.client

LEMMA UnansweredFlying == Unanswered <=> \A m \in Flying : Awaited(m)
BY DEF Unanswered, Flying, Awaited

LEMMA UnansweredFlyingPrime == Unanswered' <=> \A m \in Flying' : Awaited(m)'
BY DEF Unanswered, Flying, Awaited

\* c, whose reply is the i-th queued on p, asked, waits for it nowhere else, and lost its
\* connection if p is another's.
QueuedOnce(p, i, c) ==
  /\ c \in Asked
  /\ c # conn[p].client => phase[c] = "gone"
  /\ \A d \in Client : \A k \in 1..Len(got[d]) : got[d][k] # c
  /\ \A q \in Ptr : conn[q] # Null => \A j \in 1..Len(conn[q].replies) :
       conn[q].replies[j].client = c => p = q /\ i = j

LEMMA QueuedReplies ==
  ReplyQueuedOnce <=>
    \A p \in Ptr : conn[p] # Null => \A i \in 1..Len(conn[p].replies) :
      QueuedOnce(p, i, conn[p].replies[i].client)
BY DEF ReplyQueuedOnce, QueuedOnce

LEMMA QueuedRepliesPrime ==
  ASSUME \A p \in Ptr : conn'[p] # Null => \A i \in 1..Len(conn'[p].replies) :
           \A c : c = conn'[p].replies[i].client => QueuedOnce(p, i, c)'
  PROVE  ReplyQueuedOnce'
<1> SUFFICES ASSUME NEW p \in Ptr, conn'[p] # Null, NEW i \in 1..Len(conn'[p].replies),
                    NEW c, c = conn'[p].replies[i].client
             PROVE  /\ c \in Asked'
                    /\ c # conn'[p].client => phase'[c] = "gone"
                    /\ \A d \in Client : \A k \in 1..Len(got'[d]) : got'[d][k] # c
                    /\ \A q \in Ptr : conn'[q] # Null => \A j \in 1..Len(conn'[q].replies) :
                         conn'[q].replies[j].client = c => p = q /\ i = j
  BY DEF ReplyQueuedOnce
<1>1. QueuedOnce(p, i, c)'
  OBVIOUS
<1> QED BY <1>1 DEF QueuedOnce

\* A queued reply is a request's.
LEMMA ReplyType ==
  ASSUME IInv, NEW p \in Ptr, conn[p] # Null, NEW i \in 1..Len(conn[p].replies)
  PROVE  conn[p].replies[i] \in Request /\ conn[p].replies[i].client \in Client
<1>1. conn[p].replies \in Seq(Request)
  BY DEF IInv, TypeOK, Conn
<1>2. conn[p].replies[i] \in Request
  BY <1>1
<1> QED BY <1>2 DEF Request

\* A message in a queue is of a client that asked.
LEMMA FlyingAsked ==
  ASSUME IInv, RequestInv, NEW m \in Flying
  PROVE  m \in Request /\ m.client \in Asked
<1>1. PICK t \in Receiver : \E i \in 1..Len(msgq[t]) : m = msgq[t][i]
  BY DEF Flying
<1>2. PICK i \in 1..Len(msgq[t]) : m = msgq[t][i]
  BY <1>1
<1>3. msgq[t] \in Seq(Request)
  BY DEF IInv, TypeOK
<1> QED BY <1>2, <1>3 DEF RequestInv, InFlight

\* A message that passes from one queue to another is the same message.
LEMMA FlyingPassed ==
  ASSUME IInv, NEW t \in Receiver, NEW u \in Receiver, t # u, msgq[t] # << >>,
         msgq' = Push(Pop(msgq, t), u, Head(msgq[t]))
  PROVE  Flying' \subseteq Flying
<1>1. msgq \in [Receiver -> Seq(Request)]
  BY DEF IInv, TypeOK
<1>2. /\ \A v \in Receiver : v # t /\ v # u => msgq'[v] = msgq[v]
      /\ Head(msgq[t]) = msgq[t][1]
      /\ Len(msgq[t]) \in Nat /\ Len(msgq[t]) >= 1 /\ Len(msgq'[t]) = Len(msgq[t]) - 1
      /\ \A i \in 1..(Len(msgq[t]) - 1) : msgq'[t][i] = msgq[t][i + 1]
      /\ Len(msgq[u]) \in Nat /\ Len(msgq'[u]) = Len(msgq[u]) + 1
      /\ \A i \in 1..Len(msgq[u]) : msgq'[u][i] = msgq[u][i]
      /\ msgq'[u][Len(msgq[u]) + 1] = Head(msgq[t])
  BY <1>1, PassFacts
<1>3. ASSUME NEW v \in Receiver, NEW i \in 1..Len(msgq'[v])
      PROVE  \E x \in Receiver : \E k \in 1..Len(msgq[x]) : msgq'[v][i] = msgq[x][k]
  <2>1. CASE v = t
    <3>1. i + 1 \in 1..Len(msgq[t]) /\ msgq'[v][i] = msgq[t][i + 1]
      BY <1>2, <2>1
    <3> QED BY <3>1
  <2>2. CASE v = u /\ i = Len(msgq[u]) + 1
    BY <1>2, <2>2
  <2>3. CASE v # t /\ ~ (v = u /\ i = Len(msgq[u]) + 1)
    <3>1. i \in 1..Len(msgq[v]) /\ msgq'[v][i] = msgq[v][i]
      BY <1>2, <2>3
    <3> QED BY <3>1
  <2> QED BY <2>1, <2>2, <2>3
<1> QED BY <1>3 DEF Flying

\* A message that is taken off its queue is gone, and no other is of its client.
LEMMA FlyingPopped ==
  ASSUME IInv, RequestInv, NEW t \in Receiver, msgq[t] # << >>, msgq' = Pop(msgq, t)
  PROVE  /\ Flying' \subseteq Flying /\ Head(msgq[t]) \in Flying
         /\ \A m \in Flying' : m.client # Head(msgq[t]).client
<1>1. msgq \in [Receiver -> Seq(Request)]
  BY DEF IInv, TypeOK
<1>2. /\ \A v \in Receiver : v # t => msgq'[v] = msgq[v]
      /\ Head(msgq[t]) = msgq[t][1]
      /\ Len(msgq[t]) \in Nat /\ Len(msgq[t]) >= 1 /\ Len(msgq'[t]) = Len(msgq[t]) - 1
      /\ \A i \in 1..(Len(msgq[t]) - 1) : msgq'[t][i] = msgq[t][i + 1]
  BY <1>1, PopFacts
<1>3. 1 \in 1..Len(msgq[t])
  BY <1>2
<1>4. ASSUME NEW v \in Receiver, NEW i \in 1..Len(msgq'[v])
      PROVE  \E k \in 1..Len(msgq[v]) : /\ msgq'[v][i] = msgq[v][k]
                                        /\ msgq[v][k].client # Head(msgq[t]).client
  <2>1. CASE v = t
    <3>1. i + 1 \in 1..Len(msgq[t]) /\ msgq'[t][i] = msgq[t][i + 1] /\ i + 1 # 1
      BY <1>2, <2>1
    <3> DEFINE k == i + 1
    <3> HIDE DEF k
    <3>2. k \in 1..Len(msgq[t]) /\ msgq'[t][i] = msgq[t][k] /\ k # 1
      BY <3>1 DEF k
    <3>3. msgq[t][k].client # msgq[t][1].client
      BY <1>3, <3>2, SameMessage
    <3> QED BY <1>2, <2>1, <3>2, <3>3
  <2>2. CASE v # t
    <3>1. i \in 1..Len(msgq[v]) /\ msgq'[v][i] = msgq[v][i]
      BY <1>2, <2>2
    <3>2. msgq[v][i].client # msgq[t][1].client
      BY <1>3, <2>2, <3>1, SameMessage
    <3> QED BY <1>2, <3>1, <3>2
  <2> QED BY <2>1, <2>2
<1>5. ASSUME NEW m \in Flying' PROVE m \in Flying /\ m.client # Head(msgq[t]).client
  <2>1. PICK v \in Receiver : \E i \in 1..Len(msgq'[v]) : m = msgq'[v][i]
    BY DEF Flying
  <2>2. PICK i \in 1..Len(msgq'[v]) : m = msgq'[v][i]
    BY <2>1
  <2>3. PICK k \in 1..Len(msgq[v]) : /\ msgq'[v][i] = msgq[v][k]
                                     /\ msgq[v][k].client # Head(msgq[t]).client
    BY <1>4
  <2> QED BY <2>2, <2>3 DEF Flying
<1>6. Head(msgq[t]) \in Flying
  BY <1>2, <1>3 DEF Flying
<1> QED BY <1>5, <1>6

\* A step that sends and receives no reply keeps what is known of them, if those who
\* are gone stay so and only they lose their connection.
LEMMA ReplyKept ==
  ASSUME IInv, RequestInv, ReplyInv, Flying' \subseteq Flying, UNCHANGED <<got, accepted>>,
         \A c \in Client : phase[c] = "gone" => phase'[c] = "gone",
         \A p \in Ptr : conn[p] # Null =>
            \/ phase'[conn[p].client] = "gone"
            \/ conn'[p] # Null /\ conn'[p].client = conn[p].client,
         \A p \in Ptr : conn'[p] # Null =>
            \/ conn'[p].replies = << >>
            \/ /\ conn[p] # Null /\ conn'[p].client = conn[p].client
               /\ conn'[p].fd = conn[p].fd /\ conn'[p].replies = conn[p].replies
  PROVE  ReplyInv'
<1>1. Asked' = Asked
  BY DEF Asked
<1>2. \A p \in Ptr : conn'[p] # Null => \A i \in 1..Len(conn'[p].replies) :
        /\ conn[p] # Null /\ conn'[p].client = conn[p].client
        /\ conn'[p].fd = conn[p].fd /\ conn'[p].replies = conn[p].replies
  OBVIOUS
<1>3. \A p \in Ptr : conn[p] # Null => \A i \in 1..Len(conn[p].replies) :
        conn[p].replies[i].client \in Client
  BY ReplyType
<1>4. Unanswered'
  <2> SUFFICES ASSUME NEW m \in Flying' PROVE Awaited(m)'
    BY UnansweredFlyingPrime
  <2>1. Awaited(m) /\ m \in Request
    BY UnansweredFlying, FlyingAsked DEF ReplyInv
  <2>2. m.conn \in Ptr /\ m.client \in Client
    BY <2>1 DEF Request
  <2>3. \A p \in Ptr : conn'[p] # Null =>
          \A k \in 1..Len(conn'[p].replies) : conn'[p].replies[k].client # m.client
    BY <1>2, <2>1 DEF Awaited
  <2>4. phase'[m.client] # "gone" => conn'[m.conn] # Null /\ conn'[m.conn].client = m.client
    BY <2>1, <2>2 DEF Awaited
  <2> QED BY <2>1, <2>3, <2>4 DEF Awaited
<1>5. ReplyQueuedOnce'
  <2> SUFFICES ASSUME NEW p \in Ptr, conn'[p] # Null, NEW i \in 1..Len(conn'[p].replies),
                      NEW c, c = conn'[p].replies[i].client
               PROVE  QueuedOnce(p, i, c)'
    BY QueuedRepliesPrime
  <2>1. /\ conn[p] # Null /\ conn'[p].client = conn[p].client
        /\ conn'[p].replies = conn[p].replies /\ i \in 1..Len(conn[p].replies)
    BY <1>2
  <2>2. QueuedOnce(p, i, c) /\ c \in Client
    BY <1>3, <2>1, QueuedReplies DEF ReplyInv
  <2>3. ASSUME NEW q \in Ptr, conn'[q] # Null, NEW j \in 1..Len(conn'[q].replies),
               conn'[q].replies[j].client = c
        PROVE  p = q /\ i = j
    <3>1. /\ conn[q] # Null /\ j \in 1..Len(conn[q].replies)
          /\ conn[q].replies[j].client = c
      BY <1>2, <2>3
    <3> QED BY <2>2, <3>1 DEF QueuedOnce
  <2> QED BY <1>1, <2>1, <2>2, <2>3 DEF QueuedOnce
<1>6. OneReplyEach'
  <2>1. \A c, d \in Client : \A i \in 1..Len(got[c]), j \in 1..Len(got[d]) :
          /\ got[c][i] = got[d][j] => c = d /\ i = j
          /\ got[c][i] # c => phase'[got[c][i]] = "gone"
    <3>1. \A c \in Client : \A i \in 1..Len(got[c]) : got[c][i] \in Client
      BY DEF IInv, TypeOK
    <3> QED BY <3>1 DEF ReplyInv, OneReplyEach
  <2>2. \A p \in Ptr : conn'[p] # Null => \A i \in 1..Len(conn'[p].replies) :
          conn'[p].replies[i].conn = p /\ conn'[p].replies[i].fd = conn'[p].fd
    BY <1>2 DEF ReplyInv, OneReplyEach
  <2> QED BY <2>1, <2>2 DEF OneReplyEach
<1>7. \A c \in Client : \A i \in 1..Len(got'[c]) : got'[c][i] \in Asked'
  BY <1>1 DEF ReplyInv
<1> QED BY <1>4, <1>5, <1>6, <1>7 DEF ReplyInv

\* Those who are gone stay so.
LEMMA GoneForGood ==
  ASSUME IInv, [Next]_vars, NEW c \in Client, phase[c] = "gone" PROVE phase'[c] = "gone"
<1>1. phase \in [Client -> {"new", "open", "gone"}]
  BY DEF IInv, TypeOK
<1>2. ASSUME NEW d \in Client, NEW f \in Fd, Accept(d, f) PROVE phase'[c] = "gone"
  BY <1>1, <1>2 DEF Accept, TcpAccept
<1>3. ASSUME NEW w \in SigWorkers, NEW p, CloseConn(w, p) PROVE phase'[c] = "gone"
  BY <1>1, <1>3 DEF CloseConn
<1>4. ASSUME NEW w \in SigWorkers, NEW f \in Fd, ConnIo(w, f) \/ Timeout(w, f)
      PROVE  phase'[c] = "gone"
  BY <1>3, <1>4 DEF ConnIo, ReadRequest, ReadClose, WriteQuery, Timeout, net
<1>5. ASSUME NEW w \in SigWorkers, NewConn(w) \/ Respond(w) \/ RemoveConn(w)
      PROVE  phase'[c] = "gone"
  BY <1>5 DEF NewConn, Respond, RemoveConn, net
<1>6. ASSUME NEW t \in Thread, Notify(t) PROVE phase'[c] = "gone"
  BY <1>6 DEF Notify, net
<1>7. ASSUME RouteMsg \/ \E r \in RtcWorker : Execute(r) PROVE phase'[c] = "gone"
  BY <1>7 DEF RouteMsg, Execute, net
<1> QED BY <1>2, <1>4, <1>5, <1>6, <1>7 DEF Next, vars

\* A new connection holds no reply.
LEMMA ReplyNewConn ==
  ASSUME IInv, RequestInv, ReplyInv, NEW w \in SigWorkers, NewConn(w)
  PROVE  ReplyInv'
<1> DEFINE f == Head(connq[w])
           new == [fd |-> f, client |-> sock[f], sealed |-> FALSE, replies |-> << >>]
<1>1. /\ Notified(w, "NEW_CONN") /\ ReadPipe(w) /\ w \in Receiver
      /\ UNCHANGED <<pend, msgq, phase, got, accepted>>
  BY Receivers DEF NewConn, net, hist
<1>2. Ints(w, "NEW_CONN") > 0
  BY <1>1, IntsRead DEF IInv
<1>3. connq[w] \in Seq(Fd) /\ conn \in [Ptr -> Conn \cup {Null}]
  BY DEF IInv, TypeOK
<1>4. connq[w] # << >>
  BY <1>2 DEF IInv, WakeupPerMessage
<1>5. PICK p \in FreePtr : conn' = [conn EXCEPT ![p] = new]
  BY <1>4 DEF NewConn
<1>6. p \in Ptr /\ conn[p] = Null
  BY <1>5 DEF FreePtr
<1>7. new.replies = << >>
  OBVIOUS
<1>8. Flying' = Flying
  BY <1>1 DEF Flying
<1> HIDE DEF f, new
<1>9. \A q \in Ptr : conn'[q] = IF q = p THEN new ELSE conn[q]
  BY <1>3, <1>5, <1>6
<1> QED BY <1>1, <1>6, <1>7, <1>8, <1>9, ReplyKept

\* A request finds no reply to its client, sent or queued.
LEMMA ReplyRequest ==
  ASSUME IInv, RequestInv, ReplyInv, NEW w \in SigWorkers, NEW f \in Fd, ReadRequest(w, f)
  PROVE  ReplyInv'
<1> DEFINE p == tcpConns[w][f]
           c == conn[p].client
           m == Msg(w, p)
<1>1. /\ p # Null /\ ~ conn[p].sealed
      /\ msgq' = Push(msgq, RtcSrv, m)
      /\ conn' = [conn EXCEPT ![p].sealed = TRUE]
      /\ accepted' = Append(accepted, c) /\ got' = got /\ phase' = phase
  BY DEF ReadRequest, net, MayRequest
<1>2. p \in Ptr /\ conn[p] \in Conn /\ conn[p] # Null /\ c \in Client
  BY <1>1, ConnFacts
<1>3. m \in Request /\ m.client = c /\ m.conn = p
  BY <1>1, MsgType DEF Msg
<1>4. c \notin Asked
  BY <1>1, <1>2 DEF RequestInv, AskOnce
<1>5. conn[p].client = c
  OBVIOUS
<1> HIDE DEF p, c, m
<1>6. conn \in [Ptr -> Conn \cup {Null}] /\ accepted \in Seq(Client)
  BY DEF IInv, TypeOK
<1>7. /\ \A i \in 1..Len(accepted) : accepted'[i] = accepted[i]
      /\ Len(accepted) \in Nat /\ Len(accepted') = Len(accepted) + 1
  BY <1>1, <1>2, <1>6, AppendFacts
<1>8. Asked \subseteq Asked'
  BY <1>7 DEF Asked
<1>9. Flying' \subseteq Flying \cup {m}
  <2>1. /\ msgq \in [Receiver -> Seq(Request)] /\ RtcSrv \in Receiver /\ m \in Request
        /\ msgq' = Push(msgq, RtcSrv, m)
    BY <1>1, <1>3, Receivers DEF IInv, TypeOK
  <2>2. /\ \A t \in Receiver : t # RtcSrv => msgq'[t] = msgq[t]
        /\ Len(msgq[RtcSrv]) \in Nat /\ Len(msgq'[RtcSrv]) = Len(msgq[RtcSrv]) + 1
        /\ \A i \in 1..Len(msgq[RtcSrv]) : msgq'[RtcSrv][i] = msgq[RtcSrv][i]
        /\ msgq'[RtcSrv][Len(msgq[RtcSrv]) + 1] = m
    BY <2>1, PushMsgFacts
  <2>3. ASSUME NEW t \in Receiver, NEW i \in 1..Len(msgq'[t])
        PROVE  \/ msgq'[t][i] = m
               \/ i \in 1..Len(msgq[t]) /\ msgq'[t][i] = msgq[t][i]
    BY <2>2
  <2> QED BY <2>3 DEF Flying
<1>10. \A q \in Ptr : /\ conn'[q] = Null <=> conn[q] = Null
                      /\ conn[q] # Null => /\ conn'[q].client = conn[q].client
                                           /\ conn'[q].fd = conn[q].fd
                                           /\ conn'[q].replies = conn[q].replies
  <2> DEFINE new == [conn[p] EXCEPT !.sealed = TRUE]
  <2>1. /\ new \in Conn /\ new.client = conn[p].client /\ new.replies = conn[p].replies
        /\ new.fd = conn[p].fd
    BY <1>2 DEF Conn
  <2>2. new # Null
    BY <2>1, SignalingAssumption
  <2>3. conn' = [conn EXCEPT ![p] = new]
    BY <1>1
  <2> HIDE DEF new
  <2> QED BY <1>2, <1>6, <2>1, <2>2, <2>3
<1>11. \A n : Awaited(n) => Awaited(n)'
  <2> SUFFICES ASSUME NEW n, Awaited(n) PROVE Awaited(n)'
    OBVIOUS
  <2>1. \A q \in Ptr : conn'[q] # Null =>
          \A k \in 1..Len(conn'[q].replies) : conn'[q].replies[k].client # n.client
    BY <1>10 DEF Awaited
  <2>2. phase[n.client] # "gone" => conn'[n.conn] # Null /\ conn'[n.conn].client = n.client
    <3>1. CASE n.conn \in Ptr
      BY <1>10, <3>1 DEF Awaited
    <3>2. CASE n.conn \notin Ptr
      <4>1. conn'[n.conn] = conn[n.conn]
        BY <1>1, <1>2, <1>6, <3>2
      <4> QED BY <4>1 DEF Awaited
    <3> QED BY <3>1, <3>2
  <2> QED BY <1>1, <2>1, <2>2 DEF Awaited
<1>12. Awaited(m)
  <2>1. \A q \in Ptr : conn[q] # Null =>
          \A k \in 1..Len(conn[q].replies) : conn[q].replies[k].client # c
    BY <1>4 DEF ReplyInv, ReplyQueuedOnce
  <2>2. \A d \in Client : \A k \in 1..Len(got[d]) : got[d][k] # c
    BY <1>4 DEF ReplyInv
  <2> QED BY <1>2, <1>3, <1>5, <2>1, <2>2 DEF Awaited
<1>13. Unanswered'
  <2> SUFFICES ASSUME NEW n \in Flying' PROVE Awaited(n)'
    BY UnansweredFlyingPrime
  <2>1. Awaited(n)
    BY <1>9, <1>12, UnansweredFlying DEF ReplyInv
  <2> QED BY <1>11, <2>1
<1>14. ReplyQueuedOnce'
  <2> SUFFICES ASSUME NEW q \in Ptr, conn'[q] # Null, NEW i \in 1..Len(conn'[q].replies),
                      NEW x, x = conn'[q].replies[i].client
               PROVE  QueuedOnce(q, i, x)'
    BY QueuedRepliesPrime
  <2>1. /\ conn[q] # Null /\ conn'[q].client = conn[q].client
        /\ i \in 1..Len(conn[q].replies) /\ x = conn[q].replies[i].client
    BY <1>10
  <2>2. QueuedOnce(q, i, x)
    BY <2>1, QueuedReplies DEF ReplyInv
  <2>3. ASSUME NEW z \in Ptr, conn'[z] # Null, NEW j \in 1..Len(conn'[z].replies),
               conn'[z].replies[j].client = x
        PROVE  q = z /\ i = j
    <3>1. /\ conn[z] # Null /\ j \in 1..Len(conn[z].replies)
          /\ conn[z].replies[j].client = x
      BY <1>10, <2>3
    <3> QED BY <2>2, <3>1 DEF QueuedOnce
  <2> QED BY <1>1, <1>8, <2>1, <2>2, <2>3 DEF QueuedOnce
<1>15. OneReplyEach'
  BY <1>1, <1>10 DEF ReplyInv, OneReplyEach
<1>16. \A d \in Client : \A i \in 1..Len(got'[d]) : got'[d][i] \in Asked'
  BY <1>1, <1>8 DEF ReplyInv
<1> QED BY <1>13, <1>14, <1>15, <1>16 DEF ReplyInv

\* A reply is queued on the connection the message names, or on none.
LEMMA ReplyRespond ==
  ASSUME IInv, RequestInv, ReplyInv, NEW w \in SigWorkers, Respond(w)
  PROVE  ReplyInv'
<1> DEFINE m == Head(msgq[w])
<1>1. /\ w \in Receiver /\ msgq[w] # << >> /\ msgq' = Pop(msgq, w)
      /\ UNCHANGED <<phase, got, accepted>>
  BY RespondFacts
<1>2. /\ \A q \in Ptr :
           /\ conn'[q] = Null <=> conn[q] = Null
           /\ conn[q] # Null =>
                /\ conn'[q].client = conn[q].client /\ conn'[q].fd = conn[q].fd
                /\ \/ conn'[q].replies = conn[q].replies
                   \/ /\ conn'[q].replies = Append(conn[q].replies, m)
                      /\ q = m.conn /\ conn[q].fd = m.fd
  BY RespondFacts
<1>3. /\ Flying' \subseteq Flying /\ m \in Flying
      /\ \A n \in Flying' : n.client # m.client
  BY <1>1, FlyingPopped
<1>4. Awaited(m)
  BY <1>3, UnansweredFlying DEF ReplyInv
<1>5. m \in Request /\ m.client \in Asked
  BY <1>3, FlyingAsked
<1>6. Asked' = Asked
  BY <1>1 DEF Asked
<1> HIDE DEF m
<1>7. ASSUME NEW q \in Ptr, conn'[q] # Null, NEW i \in 1..Len(conn'[q].replies)
      PROVE  /\ conn[q] # Null /\ conn'[q].client = conn[q].client /\ conn'[q].fd = conn[q].fd
             /\ \/ /\ i \in 1..Len(conn[q].replies)
                   /\ conn'[q].replies[i] = conn[q].replies[i]
                   /\ conn[q].replies[i].client # m.client
                \/ /\ i = Len(conn[q].replies) + 1 /\ conn'[q].replies[i] = m
                   /\ q = m.conn /\ conn[q].fd = m.fd
  <2>1. conn[q] # Null /\ conn'[q].client = conn[q].client /\ conn'[q].fd = conn[q].fd
    BY <1>2, <1>7
  <2>2. conn[q].replies \in Seq(Request)
    BY <2>1 DEF IInv, TypeOK, Conn
  <2>3. \A k \in 1..Len(conn[q].replies) : conn[q].replies[k].client # m.client
    BY <1>4, <2>1 DEF Awaited
  <2>4. CASE conn'[q].replies = conn[q].replies
    BY <1>7, <2>1, <2>3, <2>4
  <2>5. CASE /\ conn'[q].replies = Append(conn[q].replies, m)
             /\ q = m.conn /\ conn[q].fd = m.fd
    BY <1>5, <1>7, <2>1, <2>2, <2>3, <2>5, AppendFacts
  <2> QED BY <1>2, <2>1, <2>4, <2>5
<1>8. Unanswered'
  <2> SUFFICES ASSUME NEW n \in Flying' PROVE Awaited(n)'
    BY UnansweredFlyingPrime
  <2>1. Awaited(n) /\ n.client # m.client /\ n \in Request
    BY <1>3, UnansweredFlying, FlyingAsked DEF ReplyInv
  <2>2. \A q \in Ptr : conn'[q] # Null =>
          \A k \in 1..Len(conn'[q].replies) : conn'[q].replies[k].client # n.client
    BY <1>7, <2>1 DEF Awaited
  <2>3. phase[n.client] # "gone" => conn'[n.conn] # Null /\ conn'[n.conn].client = n.client
    BY <1>2, <2>1 DEF Awaited, Request
  <2> QED BY <1>1, <2>1, <2>2, <2>3 DEF Awaited
<1>9. ReplyQueuedOnce'
  <2> SUFFICES ASSUME NEW q \in Ptr, conn'[q] # Null, NEW i \in 1..Len(conn'[q].replies),
                      NEW c, c = conn'[q].replies[i].client
               PROVE  QueuedOnce(q, i, c)'
    BY QueuedRepliesPrime
  <2>1. conn[q] # Null /\ conn'[q].client = conn[q].client
    BY <1>7
  <2>2. CASE /\ i \in 1..Len(conn[q].replies) /\ c = conn[q].replies[i].client
             /\ c # m.client
    <3>1. QueuedOnce(q, i, c)
      BY <2>1, <2>2, QueuedReplies DEF ReplyInv
    <3>2. ASSUME NEW x \in Ptr, conn'[x] # Null, NEW j \in 1..Len(conn'[x].replies),
                 conn'[x].replies[j].client = c
          PROVE  q = x /\ i = j
      <4>1. /\ conn[x] # Null /\ j \in 1..Len(conn[x].replies)
            /\ conn[x].replies[j].client = c
        BY <1>7, <2>2, <3>2
      <4> QED BY <3>1, <4>1 DEF QueuedOnce
    <3> QED BY <1>1, <1>6, <2>1, <3>1, <3>2 DEF QueuedOnce
  <2>3. CASE i = Len(conn[q].replies) + 1 /\ c = m.client /\ q = m.conn
    <3>1. /\ m.client # conn[q].client => phase[m.client] = "gone"
          /\ \A d \in Client : \A k \in 1..Len(got[d]) : got[d][k] # m.client
      BY <1>4, <2>1, <2>3 DEF Awaited
    <3>2. \A x \in Ptr : conn'[x] # Null => \A j \in 1..Len(conn'[x].replies) :
            conn'[x].replies[j].client = m.client => q = x /\ i = j
      BY <1>7, <2>3
    <3> QED BY <1>1, <1>5, <1>6, <2>1, <2>3, <3>1, <3>2 DEF QueuedOnce
  <2> QED BY <1>7, <2>2, <2>3
<1>10. OneReplyEach'
  <2>1. \A q \in Ptr : conn'[q] # Null => \A i \in 1..Len(conn'[q].replies) :
          conn'[q].replies[i].conn = q /\ conn'[q].replies[i].fd = conn'[q].fd
    BY <1>7 DEF ReplyInv, OneReplyEach
  <2> QED BY <1>1, <2>1 DEF ReplyInv, OneReplyEach
<1> QED BY <1>1, <1>6, <1>8, <1>9, <1>10 DEF ReplyInv

\* Concatenation.
LEMMA ConcatFacts ==
  ASSUME NEW S, NEW g \in Seq(S), NEW s \in Seq(S), NEW h, h = g \o s
  PROVE  /\ Len(g) \in Nat /\ Len(h) = Len(g) + Len(s)
         /\ \A l \in 1..Len(g) : h[l] = g[l]
         /\ \A i \in 1..Len(s) : h[Len(g) + i] = s[i]
<1>1. /\ Len(g) \in Nat /\ Len(g \o s) = Len(g) + Len(s)
      /\ \A l \in 1..Len(g) : (g \o s)[l] = g[l]
      /\ \A i \in 1..Len(s) : (g \o s)[Len(g) + i] = s[i]
  OBVIOUS
<1> QED BY ONLY <1>1, h = g \o s

\* What _write_query() sends leaves the list and is sent once.
LEMMA ReplyWrite ==
  ASSUME IInv, RequestInv, ReplyInv, NEW w \in SigWorkers, NEW f \in Fd, WriteQuery(w, f),
         \A d \in Client : phase[d] = "gone" => phase'[d] = "gone"
  PROVE  ReplyInv'
<1> DEFINE p == tcpConns[w][f]
           c == conn[p].client
           r == conn[p].replies
<1>1. p # Null /\ UNCHANGED <<connq, msgq, accepted>>
  BY DEF WriteQuery, hist
<1>2. PICK sent \in 0..Len(r) :
        /\ got' = [got EXCEPT ![c] = got[c] \o [i \in 1..sent |-> r[i].client]]
        /\ conn' = [conn EXCEPT ![p].replies = SubSeq(r, sent + 1, Len(r))]
  BY DEF WriteQuery
<1>3. p \in Ptr /\ conn[p] \in Conn /\ conn[p] # Null /\ c \in Client
  BY <1>1, ConnFacts
<1>4. Asked' = Asked /\ Flying' = Flying
  BY <1>1 DEF Asked, Flying
<1>5. got \in [Client -> Seq(Client)] /\ r \in Seq(Request)
  BY <1>3 DEF IInv, TypeOK, Conn
<1>6. /\ \A q \in Ptr : /\ conn'[q] = Null <=> conn[q] = Null
                        /\ conn[q] # Null => /\ conn'[q].fd = conn[q].fd
                                             /\ conn'[q].client = conn[q].client
      /\ \A q \in Ptr : q # p => conn'[q] = conn[q]
      /\ conn'[p].replies = SubSeq(r, sent + 1, Len(r))
  BY <1>2, <1>3, WriteFacts
<1>7. r = conn[p].replies /\ c = conn[p].client
  OBVIOUS
<1> HIDE DEF p, c, r
<1>8. /\ Len(r) \in Nat /\ sent \in Nat
      /\ \A q \in Ptr : conn[q] # Null => \A i \in 1..Len(conn[q].replies) :
           conn[q].replies[i].client \in Client
  <2>1. \A q \in Ptr : conn[q] # Null => conn[q].replies \in Seq(Request)
    BY DEF IInv, TypeOK, Conn
  <2>2. \A q \in Ptr : conn[q] # Null => \A i \in 1..Len(conn[q].replies) :
          conn[q].replies[i] \in Request
    BY <2>1
  <2> QED BY <1>5, <2>2 DEF Request
<1>11. \A i \in 1..sent : i \in 1..Len(r)
  BY <1>8
<1>9. \A q \in Ptr : conn'[q] # Null => \A i \in 1..Len(conn'[q].replies) :
        \E k \in 1..Len(conn[q].replies) :
          /\ conn'[q].replies[i] = conn[q].replies[k]
          /\ q = p => k = sent + i
          /\ q # p => k = i
  <2> SUFFICES ASSUME NEW q \in Ptr, conn'[q] # Null, NEW i \in 1..Len(conn'[q].replies)
               PROVE  \E k \in 1..Len(conn[q].replies) :
                        /\ conn'[q].replies[i] = conn[q].replies[k]
                        /\ q = p => k = sent + i
                        /\ q # p => k = i
    OBVIOUS
  <2>1. CASE q = p
    <3>1. i \in 1..(Len(r) - sent) /\ conn'[p].replies[i] = r[sent + i]
      BY <1>5, <1>6, <2>1, RestFacts
    <3>2. sent + i \in 1..Len(r)
      BY <1>8, <3>1
    <3> QED BY <1>7, <2>1, <3>1, <3>2
  <2>2. CASE q # p
    BY <1>6, <2>2
  <2> QED BY <2>1, <2>2
<1>10. \A d \in Client : \A k \in 1..Len(got'[d]) :
         \/ k \in 1..Len(got[d]) /\ got'[d][k] = got[d][k]
         \/ d = c /\ \E i \in 1..sent : k = Len(got[c]) + i /\ got'[d][k] = r[i].client
  <2> SUFFICES ASSUME NEW d \in Client, NEW k \in 1..Len(got'[d])
               PROVE  \/ k \in 1..Len(got[d]) /\ got'[d][k] = got[d][k]
                      \/ /\ d = c
                         /\ \E i \in 1..sent : k = Len(got[c]) + i /\ got'[d][k] = r[i].client
    OBVIOUS
  <2>1. CASE d = c
    <3> DEFINE h == got'[d]
               s == [i \in 1..sent |-> r[i].client]
    <3>1. h = got[c] \o s /\ got[c] \in Seq(Client)
      BY <1>2, <1>3, <1>5, <2>1
    <3>2. \A i \in 1..sent : r[i].client \in Client
      BY <1>3, <1>7, <1>8, <1>11
    <3>3. s \in Seq(Client) /\ Len(s) = sent /\ \A i \in 1..sent : s[i] = r[i].client
      BY <1>8, <3>2
    <3>4. k \in 1..Len(h)
      OBVIOUS
    <3> HIDE DEF h, s
    <3>5. /\ Len(got[c]) \in Nat /\ k \in 1..(Len(got[c]) + sent)
          /\ \A l \in 1..Len(got[c]) : h[l] = got[c][l]
          /\ \A i \in 1..sent : h[Len(got[c]) + i] = s[i]
      BY <3>1, <3>3, <3>4, ConcatFacts
    <3>6. CASE k \in 1..Len(got[c])
      BY <2>1, <3>5, <3>6 DEF h
    <3>7. CASE k \notin 1..Len(got[c])
      <4> DEFINE i == k - Len(got[c])
      <4>1. i \in 1..sent /\ k = Len(got[c]) + i
        BY <1>8, <3>5, <3>7
      <4> HIDE DEF i
      <4>2. h[k] = r[i].client
        BY <3>3, <3>5, <4>1
      <4> QED BY <2>1, <4>1, <4>2 DEF h
    <3> QED BY <3>6, <3>7
  <2>2. CASE d # c
    BY <1>2, <1>3, <1>5, <2>2
  <2> QED BY <2>1, <2>2
<1>12. \A n \in Flying : Awaited(n)'
  <2> SUFFICES ASSUME NEW n \in Flying PROVE Awaited(n)'
    OBVIOUS
  <2>1. Awaited(n) /\ n \in Request
    BY UnansweredFlying, FlyingAsked DEF ReplyInv
  <2>2. n.client \in Client /\ n.conn \in Ptr
    BY <2>1 DEF Request
  <2>3. \A q \in Ptr : conn'[q] # Null =>
          \A i \in 1..Len(conn'[q].replies) : conn'[q].replies[i].client # n.client
    <3> SUFFICES ASSUME NEW q \in Ptr, conn'[q] # Null, NEW i \in 1..Len(conn'[q].replies)
                 PROVE  conn'[q].replies[i].client # n.client
      OBVIOUS
    <3>1. PICK k \in 1..Len(conn[q].replies) : conn'[q].replies[i] = conn[q].replies[k]
      BY <1>9
    <3>2. conn[q] # Null
      BY <1>6
    <3> QED BY <2>1, <3>1, <3>2 DEF Awaited
  <2>4. \A i \in 1..Len(r) : r[i].client # n.client
    BY <1>3, <1>7, <2>1 DEF Awaited
  <2>5. \A d \in Client : \A k \in 1..Len(got'[d]) : got'[d][k] # n.client
    <3> SUFFICES ASSUME NEW d \in Client, NEW k \in 1..Len(got'[d])
                 PROVE  got'[d][k] # n.client
      OBVIOUS
    <3>1. CASE k \in 1..Len(got[d]) /\ got'[d][k] = got[d][k]
      BY <2>1, <3>1 DEF Awaited
    <3>2. CASE \E i \in 1..sent : got'[d][k] = r[i].client
      BY <1>11, <2>4, <3>2
    <3> QED BY <1>10, <3>1, <3>2
  <2>6. phase'[n.client] # "gone" => conn'[n.conn] # Null /\ conn'[n.conn].client = n.client
    BY <1>6, <2>1, <2>2 DEF Awaited
  <2> QED BY <2>3, <2>5, <2>6 DEF Awaited
<1>13. Unanswered'
  BY <1>4, <1>12, UnansweredFlyingPrime
<1>14. ReplyQueuedOnce'
  <2> SUFFICES ASSUME NEW q \in Ptr, conn'[q] # Null, NEW i \in 1..Len(conn'[q].replies),
                      NEW x, x = conn'[q].replies[i].client
               PROVE  QueuedOnce(q, i, x)'
    BY QueuedRepliesPrime
  <2>1. PICK a \in 1..Len(conn[q].replies) :
          /\ conn'[q].replies[i] = conn[q].replies[a]
          /\ q = p => a = sent + i
          /\ q # p => a = i
    BY <1>9
  <2>2. conn[q] # Null /\ conn'[q].client = conn[q].client
    BY <1>6
  <2>3. QueuedOnce(q, a, x) /\ x \in Client
    BY <1>8, <2>1, <2>2, QueuedReplies DEF ReplyInv
  <2>4. \A k \in 1..sent : r[k].client # x
    <3> SUFFICES ASSUME NEW k \in 1..sent, r[k].client = x PROVE FALSE
      OBVIOUS
    <3>1. k \in 1..Len(conn[p].replies) /\ conn[p].replies[k].client = x
      BY <1>7, <1>11
    <3>2. q = p /\ a = k
      BY <1>3, <2>3, <3>1 DEF QueuedOnce
    <3> QED BY <1>8, <2>1, <3>2
  <2>5. ASSUME NEW d \in Client, NEW k \in 1..Len(got'[d]) PROVE got'[d][k] # x
    <3>1. CASE k \in 1..Len(got[d]) /\ got'[d][k] = got[d][k]
      BY <2>3, <3>1 DEF QueuedOnce
    <3>2. CASE \E l \in 1..sent : got'[d][k] = r[l].client
      BY <2>4, <3>2
    <3> QED BY <1>10, <3>1, <3>2
  <2>6. ASSUME NEW z \in Ptr, conn'[z] # Null, NEW j \in 1..Len(conn'[z].replies),
               conn'[z].replies[j].client = x
        PROVE  q = z /\ i = j
    <3>1. PICK b \in 1..Len(conn[z].replies) :
            /\ conn'[z].replies[j] = conn[z].replies[b]
            /\ z = p => b = sent + j
            /\ z # p => b = j
      BY <1>9, <2>6
    <3>2. conn[z] # Null
      BY <1>6, <2>6
    <3>3. conn[z].replies[b].client = x
      BY <2>6, <3>1
    <3>4. q = z /\ a = b
      BY <2>3, <3>2, <3>3 DEF QueuedOnce
    <3> QED BY <1>8, <2>1, <3>1, <3>4
  <2> QED BY <1>4, <2>2, <2>3, <2>5, <2>6 DEF QueuedOnce
<1>15. OneReplyEach'
  <2>1. \A a \in 1..sent : /\ QueuedOnce(p, a, r[a].client) /\ r[a].client \in Client
                           /\ phase[r[a].client] = "gone" => phase'[r[a].client] = "gone"
    BY <1>3, <1>7, <1>8, <1>11, QueuedReplies DEF ReplyInv
  <2>2. \A x \in Client : \A k \in 1..Len(got[x]) :
          /\ got[x][k] \in Client
          /\ got[x][k] # x => phase'[got[x][k]] = "gone"
          /\ \A y \in Client : \A l \in 1..Len(got[y]) :
               got[x][k] = got[y][l] => x = y /\ k = l
    <3>1. \A x \in Client : \A k \in 1..Len(got[x]) : got[x][k] \in Client
      BY <1>5
    <3> QED BY <3>1 DEF ReplyInv, OneReplyEach
  <2>3. \A x \in Client : \A k \in 1..Len(got[x]) : \A a \in 1..sent :
          got[x][k] # r[a].client
    BY <2>1 DEF QueuedOnce
  <2>4. \A a, b \in 1..sent : r[a].client = r[b].client => a = b
    <3> SUFFICES ASSUME NEW a \in 1..sent, NEW b \in 1..sent, r[a].client = r[b].client
                 PROVE  a = b
      OBVIOUS
    <3>1. QueuedOnce(p, a, r[a].client)
      BY <2>1
    <3>2. b \in 1..Len(conn[p].replies) /\ conn[p].replies[b].client = r[a].client
      BY <1>7, <1>11
    <3> QED BY <1>3, <3>1, <3>2 DEF QueuedOnce
  <2>5. ASSUME NEW d \in Client, NEW i \in 1..Len(got'[d])
        PROVE  got'[d][i] # d => phase'[got'[d][i]] = "gone"
    <3>1. CASE i \in 1..Len(got[d]) /\ got'[d][i] = got[d][i]
      BY <2>2, <3>1
    <3>2. CASE d = c /\ \E a \in 1..sent : got'[d][i] = r[a].client
      <4>1. PICK a \in 1..sent : got'[d][i] = r[a].client
        BY <3>2
      <4>2. r[a].client # c => phase[r[a].client] = "gone"
        BY <1>7, <2>1 DEF QueuedOnce
      <4> QED BY <2>1, <3>2, <4>1, <4>2
    <3> QED BY <1>10, <3>1, <3>2
  <2>6. ASSUME NEW d \in Client, NEW e \in Client,
               NEW i \in 1..Len(got'[d]), NEW j \in 1..Len(got'[e]),
               got'[d][i] = got'[e][j]
        PROVE  d = e /\ i = j
    <3>1. \/ i \in 1..Len(got[d]) /\ got'[d][i] = got[d][i]
          \/ d = c /\ \E a \in 1..sent : i = Len(got[c]) + a /\ got'[d][i] = r[a].client
      BY <1>10
    <3>2. \/ j \in 1..Len(got[e]) /\ got'[e][j] = got[e][j]
          \/ e = c /\ \E a \in 1..sent : j = Len(got[c]) + a /\ got'[e][j] = r[a].client
      BY <1>10
    <3>3. CASE /\ i \in 1..Len(got[d]) /\ got'[d][i] = got[d][i]
               /\ j \in 1..Len(got[e]) /\ got'[e][j] = got[e][j]
      <4>1. got[d][i] = got[e][j]
        BY <2>6, <3>3
      <4>2. \A l \in 1..Len(got[e]) : got[d][i] = got[e][l] => d = e /\ i = l
        BY <2>2, <3>3
      <4> QED BY <3>3, <4>1, <4>2
    <3>4. CASE /\ i \in 1..Len(got[d]) /\ got'[d][i] = got[d][i]
               /\ \E a \in 1..sent : got'[e][j] = r[a].client
      BY <2>3, <2>6, <3>4
    <3>5. CASE /\ j \in 1..Len(got[e]) /\ got'[e][j] = got[e][j]
               /\ \E a \in 1..sent : got'[d][i] = r[a].client
      BY <2>3, <2>6, <3>5
    <3>6. ASSUME d = c, e = c, NEW a \in 1..sent, NEW b \in 1..sent,
                 i = Len(got[c]) + a, got'[d][i] = r[a].client,
                 j = Len(got[c]) + b, got'[e][j] = r[b].client
          PROVE  d = e /\ i = j
      <4>1. a = b
        BY <2>4, <2>6, <3>6
      <4> QED BY <3>6, <4>1
    <3> QED BY <3>1, <3>2, <3>3, <3>4, <3>5, <3>6
  <2>7. \A q \in Ptr : conn'[q] # Null => \A i \in 1..Len(conn'[q].replies) :
          conn'[q].replies[i].conn = q /\ conn'[q].replies[i].fd = conn'[q].fd
    <3> SUFFICES ASSUME NEW q \in Ptr, conn'[q] # Null, NEW i \in 1..Len(conn'[q].replies)
                 PROVE  conn'[q].replies[i].conn = q /\ conn'[q].replies[i].fd = conn'[q].fd
      OBVIOUS
    <3>1. PICK k \in 1..Len(conn[q].replies) : conn'[q].replies[i] = conn[q].replies[k]
      BY <1>9
    <3>2. conn[q] # Null /\ conn'[q].fd = conn[q].fd
      BY <1>6
    <3> QED BY <3>1, <3>2 DEF ReplyInv, OneReplyEach
  <2> QED BY <2>5, <2>6, <2>7 DEF OneReplyEach
<1>16. \A d \in Client : \A i \in 1..Len(got'[d]) : got'[d][i] \in Asked'
  <2>1. \A a \in 1..Len(r) : r[a].client \in Asked
    BY <1>3, <1>7 DEF ReplyInv, ReplyQueuedOnce
  <2> QED BY <1>4, <1>10, <1>11, <2>1 DEF ReplyInv
<1> QED BY <1>13, <1>14, <1>15, <1>16 DEF ReplyInv

\* Every step keeps the invariant of replies.
LEMMA ReplyStep ==
  ASSUME IInv, RequestInv, ReplyInv, [Next]_vars PROVE ReplyInv'
<1>1. \A c \in Client : phase[c] = "gone" => phase'[c] = "gone"
  BY GoneForGood
<1>2. ASSUME UNCHANGED <<conn, got, accepted>>, Flying' \subseteq Flying PROVE ReplyInv'
  BY <1>1, <1>2, ReplyKept
<1>3. msgq' = msgq => Flying' \subseteq Flying
  BY DEF Flying
<1>4. CASE UNCHANGED vars
  BY <1>2, <1>3, <1>4 DEF vars
<1>5. ASSUME NEW t \in Thread, Notify(t) PROVE ReplyInv'
  BY <1>2, <1>3, <1>5 DEF Notify, table, net, hist
<1>6. ASSUME NEW c \in Client, NEW f \in Fd, Accept(c, f) PROVE ReplyInv'
  BY <1>2, <1>3, <1>6 DEF Accept, table, hist
<1>7. ASSUME NEW w \in SigWorkers, NewConn(w) \/ Respond(w) PROVE ReplyInv'
  BY <1>7, ReplyNewConn, ReplyRespond
<1>8. ASSUME NEW w \in SigWorkers, RemoveConn(w) PROVE ReplyInv'
  <2> DEFINE p == closing[w]
  <2>1. /\ p # Null /\ conn' = [conn EXCEPT ![p] = Null]
        /\ UNCHANGED <<msgq, phase, got, accepted>>
    BY <1>8 DEF RemoveConn, net, hist
  <2>2. p \in Ptr /\ phase[conn[p].client] = "gone" /\ conn \in [Ptr -> Conn \cup {Null}]
    BY <2>1 DEF IInv, TypeOK, ClosedIsOwn
  <2> HIDE DEF p
  <2>3. \A q \in Ptr : conn'[q] = IF q = p THEN Null ELSE conn[q]
    BY <2>1, <2>2
  <2> QED BY <1>1, <1>3, <2>1, <2>2, <2>3, ReplyKept
<1>9. ASSUME NEW w \in SigWorkers, NEW f \in Fd, ReadClose(w, f) \/ Timeout(w, f)
      PROVE  ReplyInv'
  BY <1>2, <1>3, <1>9 DEF ReadClose, Timeout, hist
<1>10. ASSUME NEW w \in SigWorkers, NEW f \in Fd, ReadRequest(w, f) \/ WriteQuery(w, f)
      PROVE  ReplyInv'
  BY <1>1, <1>10, ReplyRequest, ReplyWrite
<1>11. CASE RouteMsg
  <2> DEFINE m == Head(msgq[RtcSrv])
  <2>1. /\ Notified(RtcSrv, "RTC_MSG") /\ ReadPipe(RtcSrv) /\ RtcSrv \in Receiver
        /\ UNCHANGED <<conn, got, accepted>>
    BY <1>11, Receivers DEF RouteMsg, table, net
  <2>2. msgq[RtcSrv] # << >> /\ m \in Request
    BY <2>1, WokenHasMessage
  <2>3. Route(m) \in Receiver /\ Route(m) # RtcSrv
    BY <2>2, RouteType, Receivers
  <2>4. \/ msgq' = Push(Pop(msgq, RtcSrv), Route(m), m)
        \/ msgq' = Pop(msgq, RtcSrv)
    BY <1>11 DEF RouteMsg
  <2>5. Flying' \subseteq Flying
    BY <2>1, <2>2, <2>3, <2>4, FlyingPassed, FlyingPopped
  <2> QED BY <1>2, <2>1, <2>5
<1>12. ASSUME NEW r \in RtcWorker, Execute(r) PROVE ReplyInv'
  <2> DEFINE m == Head(msgq[r])
  <2>1. /\ Notified(r, "RTC_MSG") /\ ReadPipe(r) /\ r \in Receiver
        /\ UNCHANGED <<conn, got, accepted>>
    BY <1>12, Receivers DEF Execute, table, net
  <2>2. msgq[r] # << >> /\ m \in Request
    BY <2>1, WokenHasMessage
  <2>3. m.worker \in SigWorkers
    BY <2>2 DEF Request
  <2>4. m.worker \in Receiver /\ m.worker # r
    BY <2>3, Receivers
  <2>5. msgq' = Push(Pop(msgq, r), m.worker, m)
    BY <1>12, <2>2 DEF Execute
  <2>6. Flying' \subseteq Flying
    BY <2>1, <2>2, <2>4, <2>5, FlyingPassed
  <2> QED BY <1>2, <2>1, <2>6
<1> QED BY <1>4, <1>5, <1>6, <1>7, <1>8, <1>9, <1>10, <1>11, <1>12 DEF Next, ConnIo

\* A request is answered at most once, and somebody else gets the reply only after its
\* client lost its connection, on one with the same address and descriptor, although the
\* kernel and the allocator hand out descriptors and addresses again at once.
THEOREM RepliesOnce == Spec => []OneReplyEach
<1>1. Init => ReplyInv
  <2> SUFFICES ASSUME Init PROVE ReplyInv
    OBVIOUS
  <2>1. /\ \A t \in Receiver : msgq[t] = << >>
        /\ \A p \in Ptr : conn[p] = Null
        /\ \A c \in Client : got[c] = << >>
    BY DEF Init
  <2>2. Unanswered /\ ReplyQueuedOnce /\ OneReplyEach
    BY <2>1 DEF Unanswered, ReplyQueuedOnce, OneReplyEach
  <2> QED BY <2>1, <2>2 DEF ReplyInv
<1>2. IInv /\ RequestInv /\ ReplyInv /\ [Next]_vars => ReplyInv'
  BY ReplyStep
<1>3. ReplyInv => OneReplyEach
  BY DEF ReplyInv
<1> QED BY <1>1, <1>2, <1>3, ControlPlaneInvariance, RequestsAskOnce, PTL DEF Spec

-----------------------------------------------------------------------------
(* The order of requests *)

\* A request that is received later comes after the others.
LEMMA BeforeAppend ==
  ASSUME NEW S, NEW s \in Seq(S), NEW e \in S, NEW r, r = Append(s, e)
  PROVE  /\ \A c, d : Before(s, c, d) => Before(r, c, d)
         /\ \A i \in 1..Len(s) : Before(r, s[i], e)
<1>1. /\ Len(s) \in Nat /\ Len(r) = Len(s) + 1
      /\ \A i \in 1..Len(s) : r[i] = s[i]
      /\ r[Len(s) + 1] = e
  BY AppendFacts
<1>2. ASSUME NEW c, NEW d, Before(s, c, d) PROVE Before(r, c, d)
  <2>1. PICK a \in 1..Len(s), b \in 1..Len(s) : a < b /\ s[a] = c /\ s[b] = d
    BY <1>2 DEF Before
  <2>2. a \in 1..Len(r) /\ b \in 1..Len(r) /\ a < b /\ r[a] = c /\ r[b] = d
    BY <1>1, <2>1
  <2> QED BY <2>2 DEF Before
<1>3. ASSUME NEW i \in 1..Len(s) PROVE Before(r, s[i], e)
  <2>1. /\ i \in 1..Len(r) /\ Len(s) + 1 \in 1..Len(r) /\ i < Len(s) + 1
        /\ r[i] = s[i] /\ r[Len(s) + 1] = e
    BY <1>1
  <2> QED BY <2>1 DEF Before
<1> QED BY <1>2, <1>3

\* Of two messages in one queue the first was received first.
LEMMA InOneQueue ==
  ASSUME OrderInv, NEW t \in Way, NEW i \in 1..Len(msgq[t]), NEW j \in 1..Len(msgq[t]), i < j
  PROVE  Before(accepted, msgq[t][i].client, msgq[t][j].client)
BY DEF OrderInv, QueuesInOrder

\* What is with an RtcWorker was received before what is still with RtcServer.
LEMMA InTwoQueues ==
  ASSUME OrderInv, NEW r \in RtcWorker, NEW i \in 1..Len(msgq[r]),
         NEW j \in 1..Len(msgq[RtcSrv])
  PROVE  Before(accepted, msgq[r][i].client, msgq[RtcSrv][j].client)
BY DEF OrderInv, QueuesInOrder

\* What was executed is not on the way again, nor behind what is.
LEMMA HandledFirst ==
  ASSUME OrderInv, NEW i \in 1..Len(handled), NEW t \in Way, NEW j \in 1..Len(msgq[t])
  PROVE  /\ handled[i] # msgq[t][j].client
         /\ Hash[StreamOf[handled[i]]] = Route(msgq[t][j])
              => Before(accepted, handled[i], msgq[t][j].client)
BY DEF OrderInv, HandledInOrder

\* A step elsewhere keeps the order.
LEMMA OrderKept ==
  ASSUME OrderInv, UNCHANGED <<accepted, handled, dropped>>,
         \A t \in Way : msgq'[t] = msgq[t]
  PROVE  OrderInv'
<1>1. Asked' = Asked
  BY DEF Asked
<1>2. Outbound'
  BY <1>1 DEF OrderInv, Outbound
<1>3. QueuesInOrder'
  BY DEF OrderInv, QueuesInOrder, Way
<1>4. HandledInOrder'
  BY SMTT(40) DEF OrderInv, HandledInOrder, Route
<1> QED BY <1>2, <1>3, <1>4 DEF OrderInv

\* A message that leaves the head of a queue on the way leaves the others in order.
LEMMA OrderShrunk ==
  ASSUME OrderInv, NEW s \in Way, msgq[s] \in Seq(Request), msgq[s] # << >>,
         \A t \in Way : msgq'[t] = IF t = s THEN Tail(msgq[s]) ELSE msgq[t],
         accepted' = accepted
  PROVE  /\ QueuesInOrder'
         /\ \A t \in Way : \A i \in 1..Len(msgq'[t]) : \E k \in 1..Len(msgq[t]) :
              msgq'[t][i] = msgq[t][k] /\ (t = s => k > 1)
         /\ \A t \in Way : \A k \in 1..Len(msgq[t]) : (t # s \/ k > 1) =>
              \E i \in 1..Len(msgq'[t]) : msgq'[t][i] = msgq[t][k]
<1>1. /\ Len(msgq[s]) \in Nat /\ Len(msgq'[s]) = Len(msgq[s]) - 1
      /\ \A i \in 1..(Len(msgq[s]) - 1) : msgq'[s][i] = msgq[s][i + 1]
  BY TailFacts, ZenonT(40)
<1> DEFINE at(t, i) == IF t = s THEN i + 1 ELSE i
<1>2. ASSUME NEW t \in Way, NEW i \in 1..Len(msgq'[t])
      PROVE  /\ at(t, i) \in 1..Len(msgq[t]) /\ msgq'[t][i] = msgq[t][at(t, i)]
             /\ t = s => at(t, i) > 1
  BY <1>1
<1>3. ASSUME NEW t \in Way, NEW k \in 1..Len(msgq[t]), t # s \/ k > 1
      PROVE  \E i \in 1..Len(msgq'[t]) : msgq'[t][i] = msgq[t][k]
  <2>1. CASE t # s
    BY <2>1
  <2>2. CASE t = s
    <3>1. k - 1 \in 1..Len(msgq'[t]) /\ msgq'[t][k - 1] = msgq[t][k]
      BY <1>1, <1>3, <2>2
    <3> QED BY <3>1
  <2> QED BY <2>1, <2>2
<1>4. ASSUME NEW t \in Way, NEW i \in 1..Len(msgq'[t]), NEW j \in 1..Len(msgq'[t]), i < j
      PROVE  Before(accepted', msgq'[t][i].client, msgq'[t][j].client)
  <2> DEFINE k == at(t, i)
             l == at(t, j)
  <2>1. k \in 1..Len(msgq[t]) /\ msgq'[t][i] = msgq[t][k]
    BY <1>2
  <2>2. l \in 1..Len(msgq[t]) /\ msgq'[t][j] = msgq[t][l]
    BY <1>2
  <2>3. k < l
    BY <1>4
  <2> HIDE DEF k, l
  <2>4. Before(accepted, msgq[t][k].client, msgq[t][l].client)
    BY <2>1, <2>2, <2>3, InOneQueue
  <2> QED BY <2>1, <2>2, <2>4
<1>5. ASSUME NEW r \in RtcWorker, NEW i \in 1..Len(msgq'[r]), NEW j \in 1..Len(msgq'[RtcSrv])
      PROVE  Before(accepted', msgq'[r][i].client, msgq'[RtcSrv][j].client)
  <2> DEFINE k == at(r, i)
             l == at(RtcSrv, j)
  <2>1. k \in 1..Len(msgq[r]) /\ msgq'[r][i] = msgq[r][k]
    BY <1>2 DEF Way
  <2>2. l \in 1..Len(msgq[RtcSrv]) /\ msgq'[RtcSrv][j] = msgq[RtcSrv][l]
    BY <1>2 DEF Way
  <2> HIDE DEF k, l
  <2>3. Before(accepted, msgq[r][k].client, msgq[RtcSrv][l].client)
    BY <2>1, <2>2, InTwoQueues
  <2> QED BY <2>1, <2>2, <2>3
<1>6. QueuesInOrder'
  BY <1>4, <1>5 DEF QueuesInOrder
<1>7. ASSUME NEW t \in Way, NEW i \in 1..Len(msgq'[t])
      PROVE  \E k \in 1..Len(msgq[t]) : msgq'[t][i] = msgq[t][k] /\ (t = s => k > 1)
  <2> DEFINE k == at(t, i)
  <2>1. k \in 1..Len(msgq[t]) /\ msgq'[t][i] = msgq[t][k] /\ (t = s => k > 1)
    BY <1>2
  <2> HIDE DEF k
  <2> QED BY <2>1
<1> QED BY <1>3, <1>6, <1>7

\* RtcServer drops a request: the others keep their order.
LEMMA OrderDropped ==
  ASSUME IInv, OrderInv, msgq[RtcSrv] # << >>, msgq' = Pop(msgq, RtcSrv),
         dropped' = dropped \cup {Head(msgq[RtcSrv]).client}, UNCHANGED <<accepted, handled>>
  PROVE  OrderInv'
<1>1. msgq \in [Receiver -> Seq(Request)] /\ RtcSrv \in Receiver /\ RtcSrv \in Way
      /\ Way \subseteq Receiver
  BY Receivers DEF IInv, TypeOK, Way, Receiver
<1>2. msgq[RtcSrv] \in Seq(Request)
      /\ \A t \in Way : msgq'[t] = IF t = RtcSrv THEN Tail(msgq[RtcSrv]) ELSE msgq[t]
  BY <1>1 DEF Pop
<1>3. QueuesInOrder'
  BY <1>1, <1>2, OrderShrunk
<1>4. \A t \in Way : \A i \in 1..Len(msgq'[t]) : \E k \in 1..Len(msgq[t]) :
        msgq'[t][i] = msgq[t][k]
  BY <1>1, <1>2, OrderShrunk, ZenonT(40)
<1>5. \A t \in Way : \A k \in 1..Len(msgq[t]) : (t # RtcSrv \/ k > 1) =>
        \E i \in 1..Len(msgq'[t]) : msgq'[t][i] = msgq[t][k]
  BY <1>1, <1>2, OrderShrunk
<1>6. Head(msgq[RtcSrv]) = msgq[RtcSrv][1] /\ Len(msgq[RtcSrv]) \in Nat
  BY <1>2, TailFacts
<1>7. Asked' = Asked
  BY DEF Asked
<1>8. HandledInOrder'
  <2>1. ASSUME NEW i \in 1..Len(handled), NEW t \in Way, NEW j \in 1..Len(msgq'[t])
        PROVE  /\ handled[i] # msgq'[t][j].client
               /\ Hash[StreamOf[handled[i]]] = Route(msgq'[t][j])
                    => Before(accepted, handled[i], msgq'[t][j].client)
    <3>1. PICK k \in 1..Len(msgq[t]) : msgq'[t][j] = msgq[t][k]
      BY <1>4
    <3> QED BY <3>1, HandledFirst
  <2>2. \A i, j \in 1..Len(handled) :
          i < j => /\ handled[i] # handled[j]
                   /\ Hash[StreamOf[handled[i]]] = Hash[StreamOf[handled[j]]]
                        => Before(accepted, handled[i], handled[j])
    BY DEF OrderInv, HandledInOrder
  <2> QED BY <2>1, <2>2 DEF HandledInOrder, Route
<1>9. Outbound'
  <2>1. ASSUME NEW c \in Asked
        PROVE  \/ c \in dropped'
               \/ \E j \in 1..Len(handled) : handled[j] = c
               \/ \E t \in Way : \E i \in 1..Len(msgq'[t]) : msgq'[t][i].client = c
    <3>1. CASE c \in dropped \/ \E j \in 1..Len(handled) : handled[j] = c
      BY <3>1
    <3>2. CASE \E t \in Way : \E i \in 1..Len(msgq[t]) : msgq[t][i].client = c
      <4>1. PICK t \in Way : \E i \in 1..Len(msgq[t]) : msgq[t][i].client = c
        BY <3>2
      <4>2. PICK k \in 1..Len(msgq[t]) : msgq[t][k].client = c
        BY <4>1
      <4>3. CASE t = RtcSrv /\ k = 1
        BY <1>6, <4>2, <4>3
      <4>4. CASE t # RtcSrv \/ k > 1
        BY <1>5, <4>2, <4>4
      <4>5. t = RtcSrv => k = 1 \/ k > 1
        BY <1>6
      <4> QED BY <4>3, <4>4, <4>5
    <3> QED BY <3>1, <3>2 DEF OrderInv, Outbound
  <2> QED BY <1>7, <2>1 DEF OrderInv, Outbound
<1> QED BY <1>3, <1>8, <1>9 DEF OrderInv

\* An RtcWorker executes the request that was received first of those on the way to it.
LEMMA OrderExecuted ==
  ASSUME IInv, RequestInv, OrderInv, NEW r \in RtcWorker, msgq[r] # << >>,
         NEW w \in SigWorkers, msgq' = Push(Pop(msgq, r), w, Head(msgq[r])),
         handled' = Append(handled, Head(msgq[r]).client), UNCHANGED <<accepted, dropped>>
  PROVE  OrderInv'
<1>1. /\ msgq \in [Receiver -> Seq(Request)] /\ handled \in Seq(Client)
      /\ r \in Receiver /\ w \in Receiver /\ r \in Way /\ w \notin Way /\ w # r
      /\ Way \subseteq Receiver
  BY Receivers, SignalingAssumption DEF IInv, TypeOK, Way, Receiver
<1>2. /\ msgq[r] \in Seq(Request)
      /\ \A t \in Way : msgq'[t] = IF t = r THEN Tail(msgq[r]) ELSE msgq[t]
  BY <1>1 DEF Pop, Push
<1>3. QueuesInOrder'
  BY <1>1, <1>2, OrderShrunk
<1>4. \A t \in Way : \A i \in 1..Len(msgq'[t]) : \E k \in 1..Len(msgq[t]) :
        msgq'[t][i] = msgq[t][k] /\ (t = r => k > 1)
  BY <1>1, <1>2, OrderShrunk
<1>5. \A t \in Way : \A k \in 1..Len(msgq[t]) : (t # r \/ k > 1) =>
        \E i \in 1..Len(msgq'[t]) : msgq'[t][i] = msgq[t][k]
  BY <1>1, <1>2, OrderShrunk
<1> DEFINE c == Head(msgq[r]).client
<1>6. /\ Head(msgq[r]) = msgq[r][1] /\ Head(msgq[r]) \in Request
      /\ Len(msgq[r]) \in Nat /\ 1 \in 1..Len(msgq[r])
  BY <1>2, TailFacts
<1>7. c = msgq[r][1].client /\ c \in Client /\ c \in Asked
      /\ Route(msgq[r][1]) = r /\ Hash[StreamOf[c]] = r
  BY <1>1, <1>6 DEF RequestInv, InFlight, Request, Route
<1>8. Asked' = Asked
  BY DEF Asked
<1> HIDE DEF c
<1>9. /\ Len(handled) \in Nat /\ Len(handled') = Len(handled) + 1
      /\ \A i \in 1..Len(handled) : handled'[i] = handled[i]
      /\ handled'[Len(handled) + 1] = c
  <2>1. handled' = Append(handled, c) /\ c \in Client /\ handled \in Seq(Client)
    BY <1>1, <1>7 DEF c
  <2> QED BY <2>1, AppendFacts
<1>10. ASSUME NEW i \in 1..Len(handled')
       PROVE  \/ i \in 1..Len(handled) /\ handled'[i] = handled[i]
              \/ i = Len(handled) + 1 /\ handled'[i] = c
  BY <1>9
<1>11. ASSUME NEW i \in 1..Len(handled'), NEW j \in 1..Len(handled'), i < j
       PROVE  /\ handled'[i] # handled'[j]
              /\ Hash[StreamOf[handled'[i]]] = Hash[StreamOf[handled'[j]]]
                   => Before(accepted', handled'[i], handled'[j])
  <2>1. i \in 1..Len(handled) /\ handled'[i] = handled[i]
    BY <1>9, <1>11
  <2>2. CASE j \in 1..Len(handled) /\ handled'[j] = handled[j]
    BY <1>11, <2>1, <2>2 DEF OrderInv, HandledInOrder
  <2>3. CASE j = Len(handled) + 1 /\ handled'[j] = c
    <3>1. /\ handled[i] # msgq[r][1].client
          /\ Hash[StreamOf[handled[i]]] = Route(msgq[r][1])
               => Before(accepted, handled[i], msgq[r][1].client)
      BY <1>1, <1>6, <2>1, HandledFirst
    <3> QED BY <1>7, <2>1, <2>3, <3>1
  <2> QED BY <1>10, <2>2, <2>3
<1>12. ASSUME NEW i \in 1..Len(handled'), NEW t \in Way, NEW j \in 1..Len(msgq'[t])
       PROVE  /\ handled'[i] # msgq'[t][j].client
              /\ Hash[StreamOf[handled'[i]]] = Route(msgq'[t][j])
                   => Before(accepted', handled'[i], msgq'[t][j].client)
  <2>1. PICK k \in 1..Len(msgq[t]) : msgq'[t][j] = msgq[t][k] /\ (t = r => k > 1)
    BY <1>4
  <2>2. CASE i \in 1..Len(handled) /\ handled'[i] = handled[i]
    <3>1. /\ handled[i] # msgq[t][k].client
          /\ Hash[StreamOf[handled[i]]] = Route(msgq[t][k])
               => Before(accepted, handled[i], msgq[t][k].client)
      BY <2>2, HandledFirst
    <3> QED BY <2>1, <2>2, <3>1
  <2>3. CASE handled'[i] = c
    <3>1. t \in Receiver
      BY <1>1
    <3>2. msgq[r][1].client # msgq[t][k].client
      <4>1. ~ (t = r /\ k = 1)
        BY <2>1
      <4> QED BY <1>1, <1>6, <3>1, <4>1, SameMessage
    <3>3. t \in RtcWorker => t = Route(msgq[t][k])
      BY <3>1 DEF RequestInv, InFlight
    <3>4. ASSUME r = Route(msgq[t][k])
          PROVE  Before(accepted, msgq[r][1].client, msgq[t][k].client)
      <4>1. CASE t = r
        <5>1. 1 < k
          BY <2>1, <4>1
        <5> QED BY <1>1, <1>6, <4>1, <5>1, InOneQueue
      <4>2. CASE t = RtcSrv
        BY <1>6, <4>2, InTwoQueues
      <4> QED BY <3>3, <3>4, <4>1, <4>2 DEF Way
    <3> QED BY <1>7, <2>1, <2>3, <3>2, <3>4
  <2> QED BY <1>10, <2>2, <2>3
<1>13. HandledInOrder'
  BY <1>11, <1>12 DEF HandledInOrder, Route
<1>14. Outbound'
  <2>1. ASSUME NEW d \in Asked
        PROVE  \/ d \in dropped
               \/ \E j \in 1..Len(handled') : handled'[j] = d
               \/ \E t \in Way : \E i \in 1..Len(msgq'[t]) : msgq'[t][i].client = d
    <3>1. CASE d \in dropped
      BY <3>1
    <3>2. CASE \E j \in 1..Len(handled) : handled[j] = d
      <4>1. PICK j \in 1..Len(handled) : handled[j] = d
        BY <3>2
      <4>2. j \in 1..Len(handled') /\ handled'[j] = d
        BY <1>9, <4>1
      <4> QED BY <4>2
    <3>3. CASE \E t \in Way : \E i \in 1..Len(msgq[t]) : msgq[t][i].client = d
      <4>1. PICK t \in Way : \E i \in 1..Len(msgq[t]) : msgq[t][i].client = d
        BY <3>3
      <4>2. PICK k \in 1..Len(msgq[t]) : msgq[t][k].client = d
        BY <4>1
      <4>3. CASE t = r /\ k = 1
        <5>1. Len(handled) + 1 \in 1..Len(handled') /\ handled'[Len(handled) + 1] = d
          BY <1>7, <1>9, <4>2, <4>3
        <5> QED BY <5>1
      <4>4. CASE t # r \/ k > 1
        BY <1>5, <4>2, <4>4
      <4>5. t = r => k = 1 \/ k > 1
        BY <1>6
      <4> QED BY <4>3, <4>4, <4>5
    <3> QED BY <3>1, <3>2, <3>3 DEF OrderInv, Outbound
  <2>2. ASSUME NEW j \in 1..Len(handled') PROVE handled'[j] \in Asked
    BY <1>7, <1>10 DEF OrderInv, Outbound
  <2> QED BY <1>8, <2>1, <2>2 DEF Outbound
<1> QED BY <1>3, <1>13, <1>14 DEF OrderInv

\* RtcServer hands on the request that was received first of those it has.
LEMMA OrderRouted ==
  ASSUME IInv, OrderInv, msgq[RtcSrv] # << >>, NEW r \in RtcWorker,
         msgq' = Push(Pop(msgq, RtcSrv), r, Head(msgq[RtcSrv])),
         UNCHANGED <<accepted, handled, dropped>>
  PROVE  OrderInv'
<1>1. /\ msgq \in [Receiver -> Seq(Request)] /\ RtcSrv \in Receiver /\ r \in Receiver
      /\ r \in Way /\ RtcSrv \in Way /\ r # RtcSrv /\ Way \subseteq Receiver
      /\ RtcSrv \notin RtcWorker
  BY Receivers, SignalingAssumption DEF IInv, TypeOK, Way, Receiver
<1>2. /\ \A v \in Receiver : v # RtcSrv /\ v # r => msgq'[v] = msgq[v]
      /\ Head(msgq[RtcSrv]) = msgq[RtcSrv][1]
      /\ Len(msgq[RtcSrv]) \in Nat /\ Len(msgq[RtcSrv]) >= 1
      /\ Len(msgq'[RtcSrv]) = Len(msgq[RtcSrv]) - 1
      /\ \A i \in 1..(Len(msgq[RtcSrv]) - 1) : msgq'[RtcSrv][i] = msgq[RtcSrv][i + 1]
      /\ Len(msgq[r]) \in Nat /\ Len(msgq'[r]) = Len(msgq[r]) + 1
      /\ \A i \in 1..Len(msgq[r]) : msgq'[r][i] = msgq[r][i]
      /\ msgq'[r][Len(msgq[r]) + 1] = Head(msgq[RtcSrv])
  BY <1>1, PassFacts, SMTT(40)
<1> DEFINE last(t, i) == t = r /\ i = Len(msgq[r]) + 1
           from(t, i) == IF last(t, i) THEN RtcSrv ELSE t
           at(t, i) == IF t = RtcSrv THEN i + 1 ELSE IF last(t, i) THEN 1 ELSE i
<1>3. ASSUME NEW t \in Way, NEW i \in 1..Len(msgq'[t])
      PROVE  /\ from(t, i) \in Way /\ at(t, i) \in 1..Len(msgq[from(t, i)])
             /\ msgq'[t][i] = msgq[from(t, i)][at(t, i)]
  <2>1. CASE t = RtcSrv
    BY <1>1, <1>2, <2>1
  <2>2. CASE last(t, i)
    BY <1>1, <1>2, <2>2
  <2>3. CASE t # RtcSrv /\ ~ last(t, i)
    BY <1>1, <1>2, <2>3
  <2> QED BY <2>1, <2>2, <2>3
<1>4. ASSUME NEW t \in Way, NEW i \in 1..Len(msgq'[t]), NEW j \in 1..Len(msgq'[t]), i < j
      PROVE  Before(accepted', msgq'[t][i].client, msgq'[t][j].client)
  <2> DEFINE k == at(t, i)
             l == at(t, j)
  <2>1. /\ from(t, i) \in Way /\ k \in 1..Len(msgq[from(t, i)])
        /\ msgq'[t][i] = msgq[from(t, i)][k]
    BY <1>3
  <2>2. /\ from(t, j) \in Way /\ l \in 1..Len(msgq[from(t, j)])
        /\ msgq'[t][j] = msgq[from(t, j)][l]
    BY <1>3
  <2>3. ~ last(t, i)
    BY <1>2, <1>4
  <2>4. CASE last(t, j)
    <3>1. from(t, i) = r /\ from(t, j) = RtcSrv
      BY <2>3, <2>4
    <3> HIDE DEF k, l, from, last
    <3>2. Before(accepted, msgq[r][k].client, msgq[RtcSrv][l].client)
      BY <2>1, <2>2, <3>1, InTwoQueues
    <3> QED BY <2>1, <2>2, <3>1, <3>2
  <2>5. CASE ~ last(t, j)
    <3>1. from(t, i) = t /\ from(t, j) = t /\ k < l
      BY <1>4, <2>3, <2>5
    <3> HIDE DEF k, l, from, last
    <3>2. Before(accepted, msgq[t][k].client, msgq[t][l].client)
      BY <2>1, <2>2, <3>1, InOneQueue
    <3> QED BY <2>1, <2>2, <3>1, <3>2
  <2> QED BY <2>4, <2>5
<1>5. ASSUME NEW v \in RtcWorker, NEW i \in 1..Len(msgq'[v]), NEW j \in 1..Len(msgq'[RtcSrv])
      PROVE  Before(accepted', msgq'[v][i].client, msgq'[RtcSrv][j].client)
  <2> DEFINE k == at(v, i)
             l == j + 1
  <2>1. /\ from(v, i) \in Way /\ k \in 1..Len(msgq[from(v, i)])
        /\ msgq'[v][i] = msgq[from(v, i)][k]
    BY <1>3 DEF Way
  <2>2. l \in 1..Len(msgq[RtcSrv]) /\ msgq'[RtcSrv][j] = msgq[RtcSrv][l] /\ 1 < l
    BY <1>2, SMTT(40)
  <2>3. CASE last(v, i)
    <3>1. from(v, i) = RtcSrv /\ k = 1
      BY <1>1, <2>3
    <3> HIDE DEF k, l, from, last
    <3>2. Before(accepted, msgq[RtcSrv][k].client, msgq[RtcSrv][l].client)
      BY <1>1, <2>1, <2>2, <3>1, InOneQueue
    <3> QED BY <2>1, <2>2, <3>1, <3>2
  <2>4. CASE ~ last(v, i)
    <3>1. from(v, i) = v
      BY <2>4
    <3> HIDE DEF k, l, from, last
    <3>2. Before(accepted, msgq[v][k].client, msgq[RtcSrv][l].client)
      BY <2>1, <2>2, <3>1, InTwoQueues
    <3> QED BY <2>1, <2>2, <3>1, <3>2
  <2> QED BY <2>3, <2>4
<1>6. QueuesInOrder'
  BY <1>4, <1>5 DEF QueuesInOrder
<1>7. ASSUME NEW i \in 1..Len(handled), NEW t \in Way, NEW j \in 1..Len(msgq'[t])
      PROVE  /\ handled[i] # msgq'[t][j].client
             /\ Hash[StreamOf[handled[i]]] = Route(msgq'[t][j])
                  => Before(accepted, handled[i], msgq'[t][j].client)
  <2> DEFINE x == from(t, j)
             k == at(t, j)
  <2>1. x \in Way /\ k \in 1..Len(msgq[x]) /\ msgq'[t][j] = msgq[x][k]
    BY <1>3
  <2> HIDE DEF x, k
  <2>2. /\ handled[i] # msgq[x][k].client
        /\ Hash[StreamOf[handled[i]]] = Route(msgq[x][k])
             => Before(accepted, handled[i], msgq[x][k].client)
    BY <2>1, HandledFirst
  <2> QED BY <2>1, <2>2
<1>8. HandledInOrder'
  <2>1. \A i, j \in 1..Len(handled) :
          i < j => /\ handled[i] # handled[j]
                   /\ Hash[StreamOf[handled[i]]] = Hash[StreamOf[handled[j]]]
                        => Before(accepted, handled[i], handled[j])
    BY DEF OrderInv, HandledInOrder
  <2> QED BY <1>7, <2>1 DEF HandledInOrder, Route
<1>9. ASSUME NEW t \in Way, NEW k \in 1..Len(msgq[t])
      PROVE  \E x \in Way : \E i \in 1..Len(msgq'[x]) : msgq'[x][i] = msgq[t][k]
  <2>1. CASE t = RtcSrv /\ k = 1
    <3>1. Len(msgq[r]) + 1 \in 1..Len(msgq'[r]) /\ msgq'[r][Len(msgq[r]) + 1] = msgq[t][k]
      BY <1>2, <2>1
    <3> QED BY <1>1, <3>1
  <2>2. CASE t = RtcSrv /\ k # 1
    <3>1. k - 1 \in 1..Len(msgq'[t]) /\ msgq'[t][k - 1] = msgq[t][k]
      BY <1>2, <2>2
    <3> QED BY <3>1
  <2>3. CASE t # RtcSrv
    <3>1. k \in 1..Len(msgq'[t]) /\ msgq'[t][k] = msgq[t][k]
      BY <1>1, <1>2, <2>3
    <3> QED BY <3>1
  <2> QED BY <2>1, <2>2, <2>3
<1>10. Asked' = Asked
  BY DEF Asked
<1>11. ASSUME NEW d \in Asked
       PROVE  \/ d \in dropped
              \/ \E j \in 1..Len(handled) : handled[j] = d
              \/ \E t \in Way : \E i \in 1..Len(msgq'[t]) : msgq'[t][i].client = d
  <2>1. CASE d \in dropped \/ \E j \in 1..Len(handled) : handled[j] = d
    BY <2>1
  <2>2. CASE \E t \in Way : \E i \in 1..Len(msgq[t]) : msgq[t][i].client = d
    <3>1. PICK t \in Way : \E i \in 1..Len(msgq[t]) : msgq[t][i].client = d
      BY <2>2
    <3>2. PICK k \in 1..Len(msgq[t]) : msgq[t][k].client = d
      BY <3>1
    <3>3. PICK x \in Way : \E i \in 1..Len(msgq'[x]) : msgq'[x][i] = msgq[t][k]
      BY <1>9
    <3> QED BY <3>2, <3>3
  <2> QED BY <2>1, <2>2 DEF OrderInv, Outbound
<1>12. Outbound'
  BY <1>10, <1>11 DEF OrderInv, Outbound
<1> QED BY <1>6, <1>8, <1>12 DEF OrderInv

\* A request that RtcServer is sent comes after all it was sent before.
LEMMA OrderRequest ==
  ASSUME IInv, RequestInv, OrderInv, NEW w \in SigWorkers, NEW f \in Fd, ReadRequest(w, f)
  PROVE  OrderInv'
<1> DEFINE p == tcpConns[w][f]
           c == conn[p].client
           m == Msg(w, p)
<1>1. /\ p # Null /\ ~ conn[p].sealed
      /\ msgq' = Push(msgq, RtcSrv, m)
      /\ accepted' = Append(accepted, c) /\ UNCHANGED <<handled, dropped>>
  BY DEF ReadRequest, MayRequest
<1>2. p \in Ptr /\ conn[p] # Null /\ c \in Client
  BY <1>1, ConnFacts
<1>3. m \in Request /\ m.client = c
  BY <1>1, MsgType DEF Msg
<1>4. c \notin Asked
  BY <1>1, <1>2 DEF RequestInv, AskOnce
<1> HIDE DEF p, c, m
<1>5. /\ msgq \in [Receiver -> Seq(Request)] /\ RtcSrv \in Receiver /\ Way \subseteq Receiver
      /\ RtcSrv \in Way /\ accepted \in Seq(Client) /\ RtcSrv \notin RtcWorker
  BY Receivers, SignalingAssumption DEF IInv, TypeOK, Way, Receiver
<1>6. /\ \A t \in Receiver : t # RtcSrv => msgq'[t] = msgq[t]
      /\ Len(msgq[RtcSrv]) \in Nat /\ Len(msgq'[RtcSrv]) = Len(msgq[RtcSrv]) + 1
      /\ \A i \in 1..Len(msgq[RtcSrv]) : msgq'[RtcSrv][i] = msgq[RtcSrv][i]
      /\ msgq'[RtcSrv][Len(msgq[RtcSrv]) + 1] = m
  <2>1. /\ msgq \in [Receiver -> Seq(Request)] /\ RtcSrv \in Receiver /\ m \in Request
        /\ msgq' = Push(msgq, RtcSrv, m)
    BY <1>1, <1>3, <1>5
  <2> QED BY <2>1, PushMsgFacts
<1>7. /\ \A d, e : Before(accepted, d, e) => Before(accepted', d, e)
      /\ \A d \in Asked : Before(accepted', d, c)
  <2>1. accepted \in Seq(Client) /\ c \in Client /\ accepted' = Append(accepted, c)
    BY <1>1, <1>2, <1>5
  <2>2. /\ \A d, e : Before(accepted, d, e) => Before(accepted', d, e)
        /\ \A i \in 1..Len(accepted) : Before(accepted', accepted[i], c)
    BY <2>1, BeforeAppend
  <2> QED BY <2>2 DEF Asked
<1>8. Asked' = Asked \cup {c}
  <2>1. /\ Len(accepted) \in Nat /\ Len(accepted') = Len(accepted) + 1
        /\ \A i \in 1..Len(accepted) : accepted'[i] = accepted[i]
        /\ accepted'[Len(accepted) + 1] = c
    BY <1>1, <1>2, <1>5, AppendFacts
  <2> QED BY <2>1 DEF Asked
<1> DEFINE last(t, i) == t = RtcSrv /\ i = Len(msgq[RtcSrv]) + 1
<1>9. ASSUME NEW t \in Way, NEW i \in 1..Len(msgq'[t])
      PROVE  \/ last(t, i) /\ msgq'[t][i] = m
             \/ /\ i \in 1..Len(msgq[t]) /\ msgq'[t][i] = msgq[t][i]
                /\ msgq[t][i].client \in Asked
  <2>1. CASE last(t, i)
    BY <1>6, <2>1
  <2>2. CASE ~ last(t, i)
    <3>1. i \in 1..Len(msgq[t]) /\ msgq'[t][i] = msgq[t][i] /\ t \in Receiver
      BY <1>5, <1>6, <2>2
    <3> QED BY <3>1 DEF RequestInv, InFlight
  <2> QED BY <2>1, <2>2
<1>10. ASSUME NEW t \in Way, NEW i \in 1..Len(msgq'[t]), NEW j \in 1..Len(msgq'[t]), i < j
       PROVE  Before(accepted', msgq'[t][i].client, msgq'[t][j].client)
  <2>1. ~ last(t, i)
    BY <1>6, <1>10
  <2>2. i \in 1..Len(msgq[t]) /\ msgq'[t][i] = msgq[t][i] /\ msgq[t][i].client \in Asked
    BY <1>9, <2>1
  <2>3. CASE last(t, j) /\ msgq'[t][j] = m
    BY <1>3, <1>7, <2>2, <2>3
  <2>4. CASE j \in 1..Len(msgq[t]) /\ msgq'[t][j] = msgq[t][j]
    <3>1. Before(accepted, msgq[t][i].client, msgq[t][j].client)
      BY <1>10, <2>2, <2>4, InOneQueue
    <3> QED BY <1>7, <2>2, <2>4, <3>1
  <2> QED BY <1>9, <2>3, <2>4
<1>11. ASSUME NEW r \in RtcWorker, NEW i \in 1..Len(msgq'[r]), NEW j \in 1..Len(msgq'[RtcSrv])
       PROVE  Before(accepted', msgq'[r][i].client, msgq'[RtcSrv][j].client)
  <2>1. r \in Way /\ ~ last(r, i)
    BY <1>5 DEF Way
  <2>2. i \in 1..Len(msgq[r]) /\ msgq'[r][i] = msgq[r][i] /\ msgq[r][i].client \in Asked
    BY <1>9, <2>1
  <2>3. CASE msgq'[RtcSrv][j] = m
    BY <1>3, <1>7, <2>2, <2>3
  <2>4. CASE j \in 1..Len(msgq[RtcSrv]) /\ msgq'[RtcSrv][j] = msgq[RtcSrv][j]
    <3>1. Before(accepted, msgq[r][i].client, msgq[RtcSrv][j].client)
      BY <2>2, <2>4, InTwoQueues
    <3> QED BY <1>7, <2>2, <2>4, <3>1
  <2> QED BY <1>5, <1>9, <2>3, <2>4
<1>12. QueuesInOrder'
  BY <1>10, <1>11 DEF QueuesInOrder
<1>13. \A i \in 1..Len(handled) : handled[i] \in Asked
  BY DEF OrderInv, Outbound
<1>14. ASSUME NEW i \in 1..Len(handled), NEW t \in Way, NEW j \in 1..Len(msgq'[t])
       PROVE  /\ handled[i] # msgq'[t][j].client
              /\ Hash[StreamOf[handled[i]]] = Route(msgq'[t][j])
                   => Before(accepted', handled[i], msgq'[t][j].client)
  <2>1. CASE msgq'[t][j] = m
    BY <1>3, <1>4, <1>7, <1>13, <2>1
  <2>2. CASE j \in 1..Len(msgq[t]) /\ msgq'[t][j] = msgq[t][j]
    <3>1. /\ handled[i] # msgq[t][j].client
          /\ Hash[StreamOf[handled[i]]] = Route(msgq[t][j])
               => Before(accepted, handled[i], msgq[t][j].client)
      BY <2>2, HandledFirst
    <3> QED BY <1>7, <2>2, <3>1
  <2> QED BY <1>9, <2>1, <2>2
<1>15. HandledInOrder'
  <2>1. \A i, j \in 1..Len(handled) :
          i < j => /\ handled[i] # handled[j]
                   /\ Hash[StreamOf[handled[i]]] = Hash[StreamOf[handled[j]]]
                        => Before(accepted', handled[i], handled[j])
    BY <1>7 DEF OrderInv, HandledInOrder
  <2> QED BY <1>1, <1>14, <2>1 DEF HandledInOrder, Route
<1>16. ASSUME NEW d \in Asked'
       PROVE  \/ d \in dropped
              \/ \E j \in 1..Len(handled) : handled[j] = d
              \/ \E t \in Way : \E i \in 1..Len(msgq'[t]) : msgq'[t][i].client = d
  <2>1. CASE d = c
    <3>1. /\ Len(msgq[RtcSrv]) + 1 \in 1..Len(msgq'[RtcSrv])
          /\ msgq'[RtcSrv][Len(msgq[RtcSrv]) + 1].client = d
      BY <1>3, <1>6, <2>1
    <3> QED BY <1>5, <3>1
  <2>2. CASE d \in dropped \/ \E j \in 1..Len(handled) : handled[j] = d
    BY <2>2
  <2>3. CASE \E t \in Way : \E i \in 1..Len(msgq[t]) : msgq[t][i].client = d
    <3>1. PICK t \in Way : \E i \in 1..Len(msgq[t]) : msgq[t][i].client = d
      BY <2>3
    <3>2. PICK i \in 1..Len(msgq[t]) : msgq[t][i].client = d
      BY <3>1
    <3>3. i \in 1..Len(msgq'[t]) /\ msgq'[t][i] = msgq[t][i]
      BY <1>5, <1>6
    <3> QED BY <3>2, <3>3
  <2> QED BY <1>8, <2>1, <2>2, <2>3 DEF OrderInv, Outbound
<1>17. Outbound'
  BY <1>1, <1>8, <1>13, <1>16 DEF Outbound
<1> QED BY <1>12, <1>15, <1>17 DEF OrderInv

\* Every step keeps the order.
LEMMA OrderStep ==
  ASSUME IInv, RequestInv, OrderInv, [Next]_vars PROVE OrderInv'
<1>1. ASSUME UNCHANGED <<msgq, accepted, handled, dropped>> PROVE OrderInv'
  BY <1>1, OrderKept
<1>2. CASE UNCHANGED vars
  BY <1>1, <1>2 DEF vars
<1>3. ASSUME NEW t \in Thread, Notify(t) PROVE OrderInv'
  BY <1>1, <1>3 DEF Notify, hist
<1>4. ASSUME NEW c \in Client, NEW f \in Fd, Accept(c, f) PROVE OrderInv'
  BY <1>1, <1>4 DEF Accept, hist
<1>5. ASSUME NEW w \in SigWorkers, NewConn(w) \/ RemoveConn(w) PROVE OrderInv'
  BY <1>1, <1>5 DEF NewConn, RemoveConn, hist
<1>6. ASSUME NEW w \in SigWorkers, Respond(w) PROVE OrderInv'
  <2>1. /\ w \in Receiver /\ msgq' = Pop(msgq, w)
        /\ UNCHANGED <<accepted, handled, dropped>>
    BY <1>6, RespondFacts
  <2>2. w \notin Way /\ Way \subseteq Receiver /\ msgq \in [Receiver -> Seq(Request)]
    BY SignalingAssumption DEF Way, Receiver, IInv, TypeOK
  <2>3. \A t \in Way : msgq'[t] = msgq[t]
    BY <2>1, <2>2 DEF Pop
  <2> QED BY <2>1, <2>3, OrderKept
<1>7. ASSUME NEW w \in SigWorkers, NEW f \in Fd,
             ReadClose(w, f) \/ Timeout(w, f) \/ WriteQuery(w, f)
      PROVE  OrderInv'
  BY <1>1, <1>7 DEF ReadClose, Timeout, WriteQuery, hist
<1>8. ASSUME NEW w \in SigWorkers, NEW f \in Fd, ReadRequest(w, f) PROVE OrderInv'
  BY <1>8, OrderRequest
<1>9. CASE RouteMsg
  <2> DEFINE m == Head(msgq[RtcSrv])
  <2>1. /\ Notified(RtcSrv, "RTC_MSG") /\ ReadPipe(RtcSrv) /\ RtcSrv \in Receiver
        /\ UNCHANGED <<accepted, handled>>
    BY <1>9, Receivers DEF RouteMsg
  <2>2. msgq[RtcSrv] # << >> /\ m \in Request
    BY <2>1, WokenHasMessage
  <2>3. Route(m) \in RtcWorker
    BY <2>2, RouteType
  <2>4. \/ msgq' = Push(Pop(msgq, RtcSrv), Route(m), m) /\ UNCHANGED dropped
        \/ msgq' = Pop(msgq, RtcSrv) /\ dropped' = dropped \cup {m.client}
    BY <1>9 DEF RouteMsg
  <2> QED BY <2>1, <2>2, <2>3, <2>4, OrderRouted, OrderDropped
<1>10. ASSUME NEW r \in RtcWorker, Execute(r) PROVE OrderInv'
  <2> DEFINE m == Head(msgq[r])
  <2>1. /\ Notified(r, "RTC_MSG") /\ ReadPipe(r) /\ r \in Receiver
        /\ UNCHANGED <<accepted, dropped>>
    BY <1>10, Receivers DEF Execute
  <2>2. msgq[r] # << >> /\ m \in Request
    BY <2>1, WokenHasMessage
  <2>3. m.worker \in SigWorkers
    BY <2>2 DEF Request
  <2>4. msgq' = Push(Pop(msgq, r), m.worker, m) /\ handled' = Append(handled, m.client)
    BY <1>10, <2>2 DEF Execute
  <2> QED BY <2>1, <2>2, <2>3, <2>4, OrderExecuted
<1> QED BY <1>2, <1>3, <1>4, <1>5, <1>6, <1>7, <1>8, <1>9, <1>10 DEF Next, ConnIo

\* The order of requests in the queues is the order of execution of a stream.
LEMMA OrderImpliesStreamOrder ==
  ASSUME RequestInv, OrderInv, handled \in Seq(Client), accepted \in Seq(Client)
  PROVE  StreamOrder
<1>1. \A i, j \in 1..Len(accepted) : accepted[i] = accepted[j] => i = j
  BY DEF RequestInv, AskOnce
<1>2. ASSUME NEW a \in 1..Len(accepted), NEW b \in 1..Len(accepted), a < b,
             Before(accepted, accepted[b], accepted[a])
      PROVE  FALSE
  <2>1. PICK x \in 1..Len(accepted), y \in 1..Len(accepted) :
          x < y /\ accepted[x] = accepted[b] /\ accepted[y] = accepted[a]
    BY <1>2 DEF Before
  <2>2. x = b /\ y = a
    BY <1>1, <2>1
  <2> QED BY <1>2, <2>1, <2>2
<1> SUFFICES ASSUME NEW j \in 1..Len(handled)
             PROVE  /\ \A i \in 1..(j - 1) : handled[i] # handled[j]
                    /\ \E b \in 1..Len(accepted) :
                         /\ accepted[b] = handled[j]
                         /\ \A a \in 1..(b - 1) :
                              StreamOf[accepted[a]] = StreamOf[handled[j]]
                                /\ accepted[a] \notin dropped
                                => \E i \in 1..(j - 1) : handled[i] = accepted[a]
  BY DEF StreamOrder
<1>3. ASSUME NEW i \in 1..Len(handled), NEW k \in 1..Len(handled), i < k
      PROVE  /\ handled[i] # handled[k]
             /\ Hash[StreamOf[handled[i]]] = Hash[StreamOf[handled[k]]]
                  => Before(accepted, handled[i], handled[k])
  BY <1>3 DEF OrderInv, HandledInOrder
<1>4. \A i \in 1..(j - 1) : handled[i] # handled[j]
  BY <1>3
<1>5. PICK b \in 1..Len(accepted) : accepted[b] = handled[j]
  BY DEF OrderInv, Outbound, Asked
<1>6. ASSUME NEW a \in 1..(b - 1), StreamOf[accepted[a]] = StreamOf[handled[j]],
             accepted[a] \notin dropped
      PROVE  \E i \in 1..(j - 1) : handled[i] = accepted[a]
  <2>1. a \in 1..Len(accepted) /\ a < b
    OBVIOUS
  <2>2. accepted[a] \in Asked
    BY <2>1 DEF Asked
  <2>3. ~ Before(accepted, handled[j], accepted[a])
    BY <1>2, <1>5, <2>1
  <2>4. CASE \E i \in 1..Len(handled) : handled[i] = accepted[a]
    <3>1. PICK i \in 1..Len(handled) : handled[i] = accepted[a]
      BY <2>4
    <3>2. i # j
      BY <1>1, <1>5, <2>1, <3>1
    <3>3. ~ (j < i)
      BY <1>3, <1>6, <2>3, <3>1
    <3>4. i \in 1..(j - 1)
      BY <3>2, <3>3
    <3> QED BY <3>1, <3>4
  <2>5. CASE \E t \in Way : \E i \in 1..Len(msgq[t]) : msgq[t][i].client = accepted[a]
    <3>1. PICK t \in Way : \E i \in 1..Len(msgq[t]) : msgq[t][i].client = accepted[a]
      BY <2>5
    <3>2. PICK i \in 1..Len(msgq[t]) : msgq[t][i].client = accepted[a]
      BY <3>1
    <3>3. msgq[t][i].name = StreamOf[accepted[a]]
      BY <3>2 DEF RequestInv, InFlight, Way, Receiver
    <3>4. Hash[StreamOf[handled[j]]] = Route(msgq[t][i])
      BY <1>6, <3>3 DEF Route
    <3>5. Before(accepted, handled[j], msgq[t][i].client)
      BY <3>4, HandledFirst
    <3> QED BY <2>3, <3>2, <3>5
  <2> QED BY <1>6, <2>2, <2>4, <2>5 DEF OrderInv, Outbound
<1> QED BY <1>4, <1>5, <1>6

\* The requests of a stream are executed in the order RtcServer received them, each
\* once, whatever the number of workers, streams and connections and however the
\* threads interleave.
THEOREM StreamsInOrder == Spec => []StreamOrder
<1>1. Init => OrderInv
  <2> SUFFICES ASSUME Init PROVE OrderInv
    OBVIOUS
  <2>1. /\ accepted = << >> /\ handled = << >>
        /\ \A t \in Way : msgq[t] = << >>
    BY DEF Init, Way, Receiver
  <2>2. Asked = {}
    BY <2>1 DEF Asked
  <2>3. RtcSrv \in Way /\ RtcWorker \subseteq Way
    BY DEF Way
  <2> QED BY <2>1, <2>2, <2>3 DEF OrderInv, Outbound, QueuesInOrder, HandledInOrder
<1>2. IInv /\ RequestInv /\ OrderInv /\ [Next]_vars => OrderInv'
  BY OrderStep
<1>3. IInv /\ RequestInv /\ OrderInv => StreamOrder
  BY OrderImpliesStreamOrder DEF IInv, TypeOK
<1> QED BY <1>1, <1>2, <1>3, ControlPlaneInvariance, RequestsAskOnce, PTL DEF Spec
=============================================================================
