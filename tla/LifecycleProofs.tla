---------------------------- MODULE LifecycleProofs ----------------------------
(***************************************************************************)
(* The log outlives every thread that writes to it, and a request that      *)
(* overtakes main() has the effects it has and no other: for any number of  *)
(* workers, requests and signals.                                           *)
(*                                                                         *)
(* The invariant has three parts, each with variables of its own.  LogInv   *)
(* is about the log; ControlInv about main(), the threads and their pipes'  *)
(* ends; MessageInv about what is in pipes and queues.  Most steps change   *)
(* the variables of one part only.                                          *)
(***************************************************************************)
EXTENDS Lifecycle, FiniteSetTheorems, TLAPS

-----------------------------------------------------------------------------
(* Threads *)

\* Who is who.
LEMMA Threads ==
  /\ SigSrv \in Server /\ RtcSrv \in Server /\ SigSrv # RtcSrv
  /\ SigSrv \notin Worker /\ RtcSrv \notin Worker
  /\ Server \subseteq Thread /\ Worker \subseteq Thread
  /\ SigWorker \subseteq Worker /\ RtcWorker \subseteq Worker /\ SigWorker \cap RtcWorker = {}
  /\ \A t \in Thread : t \in Worker \/ t = SigSrv \/ t = RtcSrv
  /\ \A w \in Worker : w \in SigWorker \/ w \in RtcWorker
BY LifecycleAssumption DEF Server, Thread, Worker

\* A server's workers are those of its options.
LEMMA OwnWorkers ==
  /\ Elems(Options(SigSrv)) = SigWorker /\ Elems(Options(RtcSrv)) = RtcWorker
  /\ \A s \in Server : Options(s) \in Seq(Elems(Options(s))) /\ Elems(Options(s)) \subseteq Worker
<1>1. Options(SigSrv) = SigWorkers /\ Options(RtcSrv) = RtcWorkers
  BY Threads DEF Options
<1>2. Elems(Options(SigSrv)) = SigWorker /\ Elems(Options(RtcSrv)) = RtcWorker
  BY <1>1 DEF SigWorker, RtcWorker
<1> QED BY <1>1, <1>2, LifecycleAssumption, Threads DEF Server

\* There are finitely many threads.
LEMMA ThreadFinite == IsFiniteSet(Thread)
<1>1. ASSUME NEW S, NEW s \in Seq(S) PROVE IsFiniteSet(Elems(s))
  <2>1. DOMAIN s = 1..Len(s) /\ Len(s) \in Nat
    OBVIOUS
  <2>2. IsFiniteSet(DOMAIN s)
    BY <2>1, FS_Interval
  <2> DEFINE f == [i \in DOMAIN s |-> s[i]]
  <2>3. f \in Surjection(DOMAIN s, Elems(s))
    BY DEF Surjection, Elems
  <2> QED BY <2>2, <2>3, FS_Surjection
<1>2. IsFiniteSet(SigWorker) /\ IsFiniteSet(RtcWorker)
  BY <1>1, LifecycleAssumption DEF SigWorker, RtcWorker
<1>3. IsFiniteSet({SigSrv}) /\ IsFiniteSet({RtcSrv})
  BY FS_Singleton
<1>4. Thread = ({SigSrv} \cup {RtcSrv}) \cup (SigWorker \cup RtcWorker)
  BY DEF Thread, Server, Worker
<1> QED BY <1>2, <1>3, <1>4, FS_Union


-----------------------------------------------------------------------------
(* Counting in the pipes *)

\* What appending does to a queue.
LEMMA AppendFacts ==
  ASSUME NEW S, NEW s \in Seq(S), NEW e \in S
  PROVE  /\ Append(s, e) \in Seq(S) /\ Len(s) \in Nat
         /\ Len(Append(s, e)) = Len(s) + 1
         /\ \A i \in 1..Len(s) : Append(s, e)[i] = s[i]
         /\ Append(s, e)[Len(s) + 1] = e
  OBVIOUS

\* What taking the first element off does to a queue.
LEMMA TailFacts ==
  ASSUME NEW S, NEW s \in Seq(S), s # << >>
  PROVE  /\ Head(s) \in S /\ Head(s) = s[1] /\ Tail(s) \in Seq(S)
         /\ Len(s) \in Nat /\ Len(s) >= 1 /\ Len(Tail(s)) = Len(s) - 1
         /\ \A i \in 1..(Len(s) - 1) : Tail(s)[i] = s[i + 1]
  OBVIOUS

\* An int has finitely many places in a pipe.
LEMMA PlacesFinite ==
  ASSUME NEW S, NEW s \in Seq(S), NEW x
  PROVE  IsFiniteSet(Places(s, x)) /\ Cardinality(Places(s, x)) \in Nat
<1>1. IsFiniteSet(1..Len(s))
  BY FS_Interval
<1>2. Places(s, x) \in SUBSET (1..Len(s))
  BY DEF Places
<1>3. IsFiniteSet(Places(s, x))
  BY <1>1, <1>2, FS_Subset
<1> QED BY <1>3, FS_CardinalityType

\* write() adds one place of what is written.
LEMMA PlacesAppend ==
  ASSUME NEW S, NEW s \in Seq(S), NEW e \in S, NEW x
  PROVE  Cardinality(Places(Append(s, e), x)) =
           IF e = x THEN Cardinality(Places(s, x)) + 1 ELSE Cardinality(Places(s, x))
<1>1. /\ Len(s) \in Nat /\ Len(Append(s, e)) = Len(s) + 1
      /\ \A i \in 1..Len(s) : Append(s, e)[i] = s[i]
      /\ Append(s, e)[Len(s) + 1] = e
  BY AppendFacts
<1>2. Len(s) + 1 \notin Places(s, x)
  BY <1>1 DEF Places
<1>3. CASE e = x
  <2>1. Places(Append(s, e), x) = Places(s, x) \cup {Len(s) + 1}
    BY <1>1, <1>3 DEF Places
  <2> QED BY <1>2, <1>3, <2>1, PlacesFinite, FS_AddElement
<1>4. CASE e # x
  <2>1. Places(Append(s, e), x) = Places(s, x)
    BY <1>1, <1>4 DEF Places
  <2> QED BY <1>4, <2>1
<1> QED BY <1>3, <1>4

\* read() takes one place of what is read.
LEMMA PlacesTail ==
  ASSUME NEW S, NEW s \in Seq(S), s # << >>, NEW x
  PROVE  Cardinality(Places(Tail(s), x)) =
           IF Head(s) = x THEN Cardinality(Places(s, x)) - 1 ELSE Cardinality(Places(s, x))
<1> DEFINE P == Places(Tail(s), x)
           Q == Places(s, x) \ {1}
           up == [i \in P |-> i + 1]
<1>1. /\ Head(s) = s[1] /\ Len(s) \in Nat /\ Len(s) >= 1
      /\ Tail(s) \in Seq(S) /\ Len(Tail(s)) = Len(s) - 1
      /\ \A i \in 1..(Len(s) - 1) : Tail(s)[i] = s[i + 1]
  BY TailFacts
<1>2. up \in [P -> Q]
  BY <1>1 DEF Places
<1>3. \A i, j \in P : up[i] = up[j] => i = j
  BY <1>1 DEF Places
<1>4. \A k \in Q : \E i \in P : up[i] = k
  <2> SUFFICES ASSUME NEW k \in Q PROVE k - 1 \in P /\ up[k - 1] = k
    OBVIOUS
  <2> QED BY <1>1 DEF Places
<1>5. ExistsBijection(P, Q)
  BY <1>2, <1>3, <1>4
     DEF ExistsBijection, Bijection, Injection, Surjection, IsInjective
<1>6. IsFiniteSet(P) /\ IsFiniteSet(Places(s, x))
  BY <1>1, PlacesFinite
<1>7. Cardinality(Q) = Cardinality(P)
  BY <1>5, <1>6, FS_Bijection
<1>8. Cardinality(Q) =
        IF 1 \in Places(s, x) THEN Cardinality(Places(s, x)) - 1 ELSE Cardinality(Places(s, x))
  BY <1>6, FS_RemoveElement
<1>9. 1 \in Places(s, x) <=> Head(s) = x
  BY <1>1 DEF Places
<1> QED BY <1>7, <1>8, <1>9


\* A notification is not Null.
LEMMA NotificationType ==
  ASSUME NEW t \in Worker \cup {RtcSrv}, NEW k \in NotifyInt
  PROVE  [to |-> t, int |-> k] \in Notification /\ [to |-> t, int |-> k] # Null
<1>1. Null \notin Notification
  BY LifecycleAssumption
<1>2. [to |-> t, int |-> k] \in Notification
  BY DEF Notification
<1> QED BY <1>1, <1>2

\* What is counted is finite.
LEMMA CountsFinite ==
  ASSUME MessageTypes, NEW t \in Thread, NEW k
  PROVE  /\ IsFiniteSet(Writers(t, k)) /\ Cardinality(Writers(t, k)) \in Nat
         /\ Cardinality(Places(pipe[t], k)) \in Nat /\ Ints(t, k) \in Nat
         /\ Ints(t, k) >= Cardinality(Places(pipe[t], k))
<1>1. Writers(t, k) \in SUBSET Thread
  BY DEF Writers
<1>2. IsFiniteSet(Writers(t, k)) /\ Cardinality(Writers(t, k)) \in Nat
  BY <1>1, ThreadFinite, FS_Subset, FS_CardinalityType
<1>3. Cardinality(Places(pipe[t], k)) \in Nat
  BY PlacesFinite DEF MessageTypes
<1> QED BY <1>2, <1>3 DEF Ints

\* notify() begins: one more writer, of that int to that pipe.
LEMMA WritersSend ==
  ASSUME MessageTypes, NEW u \in Thread, pend[u] = Null, NEW to \in Worker \cup {RtcSrv},
         NEW int \in NotifyInt, Notifies(u, to, int), NEW t \in Worker \cup {RtcSrv}, NEW k \in NotifyInt
  PROVE  /\ pend' \in [Thread -> Notification \cup {Null}]
         /\ Cardinality(Writers(t, k)') =
              IF t = to /\ k = int THEN Cardinality(Writers(t, k)) + 1
                                   ELSE Cardinality(Writers(t, k))
<1> DEFINE m == [to |-> to, int |-> int]
<1>1. m \in Notification /\ m # Null
  BY NotificationType
<1>2. pend' = [pend EXCEPT ![u] = m] /\ pend \in [Thread -> Notification \cup {Null}]
  BY DEF Notifies, MessageTypes
<1>3. [to |-> t, int |-> k] = m <=> t = to /\ k = int
  OBVIOUS
<1>4. [to |-> t, int |-> k] # Null
  BY NotificationType
<1> HIDE DEF m
<1>5. t \in Thread
  BY Threads
<1>6. CASE t = to /\ k = int
  <2>1. u \notin Writers(t, k)
    BY <1>1, <1>2, <1>3, <1>6 DEF Writers
  <2>2. Writers(t, k)' = Writers(t, k) \cup {u}
    BY <1>2, <1>3, <1>6 DEF Writers
  <2>3. Cardinality(Writers(t, k) \cup {u}) = Cardinality(Writers(t, k)) + 1
    BY <1>5, <2>1, CountsFinite, FS_AddElement
  <2> QED BY <1>1, <1>2, <1>6, <2>2, <2>3
<1>7. CASE ~ (t = to /\ k = int)
  <2>1. Writers(t, k)' = Writers(t, k)
    BY <1>2, <1>3, <1>4, <1>7 DEF Writers
  <2> QED BY <1>1, <1>2, <1>7, <2>1
<1> QED BY <1>6, <1>7

\* notify() ends: one writer less.
LEMMA WritersDone ==
  ASSUME MessageTypes, NEW u \in Thread, pend[u] # Null, pend' = [pend EXCEPT ![u] = Null],
         NEW t \in Worker \cup {RtcSrv}, NEW k \in NotifyInt
  PROVE  /\ pend' \in [Thread -> Notification \cup {Null}]
         /\ Cardinality(Writers(t, k)') =
              IF t = pend[u].to /\ k = pend[u].int THEN Cardinality(Writers(t, k)) - 1
                                                   ELSE Cardinality(Writers(t, k))
<1>1. pend \in [Thread -> Notification \cup {Null}] /\ pend[u] \in Notification
  BY DEF MessageTypes
<1>2. [to |-> t, int |-> k] # Null
  BY NotificationType
<1>3. [to |-> t, int |-> k] = pend[u] <=> t = pend[u].to /\ k = pend[u].int
  BY <1>1 DEF Notification
<1>4. Writers(t, k)' = Writers(t, k) \ {u}
  BY <1>1, <1>2 DEF Writers
<1>5. u \in Writers(t, k) <=> t = pend[u].to /\ k = pend[u].int
  BY <1>3 DEF Writers
<1>6. IsFiniteSet(Writers(t, k))
  BY Threads, CountsFinite
<1>7. Cardinality(Writers(t, k) \ {u}) = IF u \in Writers(t, k) THEN Cardinality(Writers(t, k)) - 1
                                         ELSE Cardinality(Writers(t, k))
  BY <1>6, FS_RemoveElement
<1> QED BY <1>1, <1>4, <1>5, <1>7

\* write() puts the int into an open pipe and into no other.
LEMMA PipeWrite ==
  ASSUME MessageTypes, NEW to \in Thread, NEW int \in NotifyInt, Write(to, int),
         NEW t \in Thread, NEW k \in NotifyInt
  PROVE  /\ pipe' \in [Thread -> Seq(NotifyInt)]
         /\ Cardinality(Places(pipe[t], k)') =
              IF fds[to] = "open" /\ t = to /\ k = int
              THEN Cardinality(Places(pipe[t], k)) + 1 ELSE Cardinality(Places(pipe[t], k))
<1>1. /\ pipe \in [Thread -> Seq(NotifyInt)]
      /\ pipe' = IF fds[to] = "open" THEN [pipe EXCEPT ![to] = Append(pipe[to], int)] ELSE pipe
  <2>1. pipe \in [Thread -> Seq(NotifyInt)]
    BY DEF MessageTypes
  <2> QED BY <2>1 DEF Write
<1>2. pipe[t] \in Seq(NotifyInt) /\ pipe[to] \in Seq(NotifyInt) /\ Append(pipe[to], int) \in Seq(NotifyInt)
  BY <1>1
<1>3. pipe' \in [Thread -> Seq(NotifyInt)]
  BY <1>1, <1>2
<1>4. Places(pipe[t], k)' = Places(pipe'[t], k)
  OBVIOUS
<1>5. Cardinality(Places(Append(pipe[t], int), k)) =
        IF int = k THEN Cardinality(Places(pipe[t], k)) + 1 ELSE Cardinality(Places(pipe[t], k))
  BY <1>2, PlacesAppend
<1>6. pipe'[t] = IF fds[to] = "open" /\ t = to THEN Append(pipe[t], int) ELSE pipe[t]
  BY <1>1, <1>3
<1> QED BY <1>3, <1>4, <1>5, <1>6

\* A callback takes one int of the kind it is about.
LEMMA PipeRead ==
  ASSUME MessageTypes, NEW u \in Thread, NEW int \in NotifyInt, Reads(u, int),
         NEW t \in Thread, NEW k \in NotifyInt
  PROVE  /\ pipe' \in [Thread -> Seq(NotifyInt)]
         /\ Cardinality(Places(pipe[t], k)') =
              IF t = u /\ k = int THEN Cardinality(Places(pipe[t], k)) - 1
                                  ELSE Cardinality(Places(pipe[t], k))
         /\ Cardinality(Places(pipe[u], int)) > 0
<1>1. /\ pipe \in [Thread -> Seq(NotifyInt)] /\ pipe' = [pipe EXCEPT ![u] = Tail(pipe[u])]
      /\ pipe[u] # << >> /\ Head(pipe[u]) = int
  <2>1. pipe \in [Thread -> Seq(NotifyInt)]
    BY DEF MessageTypes
  <2> QED BY <2>1 DEF Reads
<1>2. pipe[u] \in Seq(NotifyInt) /\ pipe[t] \in Seq(NotifyInt)
  BY <1>1
<1>3. Tail(pipe[u]) \in Seq(NotifyInt)
  BY <1>1, <1>2, TailFacts
<1>4. 1 \in Places(pipe[u], int)
  BY <1>1, <1>2, TailFacts DEF Places
<1>5. Cardinality(Places(pipe[u], int)) > 0
  BY <1>2, <1>4, PlacesFinite, FS_EmptySet
<1>6. pipe' \in [Thread -> Seq(NotifyInt)] /\ pipe'[t] = IF t = u THEN Tail(pipe[t]) ELSE pipe[t]
  BY <1>1, <1>3
<1>7. t = u => Cardinality(Places(Tail(pipe[t]), k)) =
                 IF Head(pipe[t]) = k THEN Cardinality(Places(pipe[t], k)) - 1
                                      ELSE Cardinality(Places(pipe[t], k))
  BY <1>1, <1>2, PlacesTail
<1>8. Places(pipe[t], k)' = Places(pipe'[t], k)
  OBVIOUS
<1> QED BY <1>1, <1>5, <1>6, <1>7, <1>8


-----------------------------------------------------------------------------
(* Messages *)

\* The two kinds of ints that are counted.
LEMMA CountedKinds ==
  /\ "RTC_MSG" \in NotifyInt /\ "NEW_CONN" \in NotifyInt /\ "QUIT" \in NotifyInt
  /\ RtcSrv \in Worker \cup {RtcSrv} /\ \A w \in SigWorker : w \in Worker \cup {RtcSrv}
  /\ RtcSrv \in Thread /\ \A w \in SigWorker : w \in Thread
BY Threads DEF NotifyInt

\* A step that leaves pipes and queues alone, and neither opens the RtcServer's pipe
\* again nor fails on a null pointer.
LEMMA MessagesKept ==
  ASSUME MessageInv, ended = "no", UNCHANGED <<pipe, pend, queue, connq, conns, owner, early>>,
         ended' # "SIGSEGV",
         fds'[RtcSrv] \in {"unset", "open"} /\ loop'[RtcSrv] # "quit" =>
           fds[RtcSrv] \in {"unset", "open"} /\ loop[RtcSrv] # "quit"
  PROVE  MessageInv'
<1>1. MessageTypes' /\ Owned' /\ WritesTo'
  BY DEF MessageInv, MessageTypes, Owned, Given, WritesTo
<1>2. \A t, k : Ints(t, k)' = Ints(t, k)
  BY DEF Ints, Writers
<1>3. ConnPerInt'
  BY <1>2 DEF MessageInv, ConnPerInt
<1>4. LateByEarly'
  BY <1>2 DEF MessageInv, EarlyRequests, LateByEarly
<1> QED BY <1>1, <1>3, <1>4 DEF MessageInv, EarlyRequests, CrashOnlyInStartup

\* Nothing was logged of a crash while the process runs.
LEMMA CrashLater ==
  ASSUME ended' # "SIGSEGV" \/ UNCHANGED <<mainPc, ended>>, CrashOnlyInStartup
  PROVE  CrashOnlyInStartup'
BY DEF CrashOnlyInStartup, HasRtcServer

\* notify()
LEMMA NotifyMessages ==
  ASSUME MessageInv, ended = "no", NEW u \in Thread, Notify(u)
  PROVE  MessageInv'
<1> DEFINE to == pend[u].to
           int == pend[u].int
<1>1. /\ pend[u] # Null /\ pend' = [pend EXCEPT ![u] = Null] /\ Write(to, int)
      /\ early' = IF to = RtcSrv /\ fds[RtcSrv] = "unset" THEN early + 1 ELSE early
      /\ UNCHANGED <<queue, connq, conns, owner, loop, fds, mainPc>>
  BY DEF Notify, boot
<1>2. MessageTypes /\ early \in Nat
  BY DEF MessageInv, MessageTypes
<1>3. to \in Worker \cup {RtcSrv} /\ int \in NotifyInt /\ to \in Thread
  BY <1>1, <1>2, Threads DEF MessageTypes, Notification
<1>4. ended' \in {"no", "SIGPIPE"}
  BY <1>1 DEF Write, End
<1>5. to = RtcSrv => int = "RTC_MSG"
  BY <1>1, Threads DEF MessageInv, WritesTo
<1> HIDE DEF to, int
<1>6. ASSUME NEW t \in Worker \cup {RtcSrv}, NEW k \in NotifyInt
      PROVE  /\ pipe' \in [Thread -> Seq(NotifyInt)]
             /\ pend' \in [Thread -> Notification \cup {Null}]
             /\ Ints(t, k) \in Nat
             /\ Ints(t, k)' = IF t = to /\ k = int /\ fds[to] # "open" THEN Ints(t, k) - 1
                                                                       ELSE Ints(t, k)
  <2>1. /\ Cardinality(Writers(t, k)) \in Nat /\ Cardinality(Places(pipe[t], k)) \in Nat
        /\ t \in Thread
    BY <1>2, CountsFinite, Threads
  <2>2. /\ pend' \in [Thread -> Notification \cup {Null}]
        /\ Cardinality(Writers(t, k)') =
             IF t = to /\ k = int THEN Cardinality(Writers(t, k)) - 1
                                  ELSE Cardinality(Writers(t, k))
    BY <1>1, <1>2, WritersDone DEF to, int
  <2>3. /\ pipe' \in [Thread -> Seq(NotifyInt)]
        /\ Cardinality(Places(pipe[t], k)') =
             IF fds[to] = "open" /\ t = to /\ k = int
             THEN Cardinality(Places(pipe[t], k)) + 1 ELSE Cardinality(Places(pipe[t], k))
    BY <1>1, <1>2, <1>3, <2>1, PipeWrite
  <2>4. /\ Ints(t, k) = Cardinality(Places(pipe[t], k)) + Cardinality(Writers(t, k))
        /\ Ints(t, k)' = Cardinality(Places(pipe[t], k)') + Cardinality(Writers(t, k)')
    BY DEF Ints
  <2>5. CASE t = to /\ k = int /\ fds[to] = "open"
    BY <2>1, <2>2, <2>3, <2>4, <2>5
  <2>6. CASE t = to /\ k = int /\ fds[to] # "open"
    BY <2>1, <2>2, <2>3, <2>4, <2>6
  <2>7. CASE ~ (t = to /\ k = int)
    BY <2>1, <2>2, <2>3, <2>4, <2>7
  <2> QED BY <2>5, <2>6, <2>7
<1>7. MessageTypes'
  <2>1. /\ pipe' \in [Thread -> Seq(NotifyInt)]
        /\ pend' \in [Thread -> Notification \cup {Null}]
    BY <1>6, CountedKinds
  <2>2. early' \in Nat
    BY <1>1, <1>2
  <2> QED BY <1>1, <1>2, <2>1, <2>2 DEF MessageTypes
<1>8. Owned'
  BY <1>1 DEF MessageInv, Owned, Given
<1>9. WritesTo'
  BY <1>1, <1>2 DEF MessageInv, WritesTo, MessageTypes
<1>10. ConnPerInt'
  <2> SUFFICES ASSUME NEW w \in SigWorker PROVE Ints(w, "NEW_CONN")' =< Len(connq'[w])
    BY DEF ConnPerInt
  <2>1. /\ Ints(w, "NEW_CONN") \in Nat
        /\ Ints(w, "NEW_CONN")' \in {Ints(w, "NEW_CONN"), Ints(w, "NEW_CONN") - 1}
    BY <1>6, CountedKinds
  <2>2. Ints(w, "NEW_CONN") =< Len(connq[w]) /\ Len(connq[w]) \in Nat
    BY DEF MessageInv, ConnPerInt, Owned
  <2> QED BY <1>1, <2>1, <2>2
<1>11. LateByEarly'
  <2> SUFFICES ASSUME fds[RtcSrv] \in {"unset", "open"}, loop[RtcSrv] # "quit"
               PROVE  Len(queue[RtcSrv]) = Ints(RtcSrv, "RTC_MSG")' + early'
    BY <1>1 DEF LateByEarly
  <2>1. Len(queue[RtcSrv]) = Ints(RtcSrv, "RTC_MSG") + early
    BY DEF MessageInv, EarlyRequests, LateByEarly
  <2>2. /\ Ints(RtcSrv, "RTC_MSG") \in Nat
        /\ Ints(RtcSrv, "RTC_MSG")' =
             IF RtcSrv = to /\ "RTC_MSG" = int /\ fds[to] # "open"
             THEN Ints(RtcSrv, "RTC_MSG") - 1 ELSE Ints(RtcSrv, "RTC_MSG")
    BY <1>6, CountedKinds
  <2> QED BY <1>1, <1>2, <1>5, <2>1, <2>2
<1>12. CrashOnlyInStartup'
  BY <1>4, CrashLater DEF MessageInv, EarlyRequests
<1> QED BY <1>7, <1>8, <1>9, <1>10, <1>11, <1>12 DEF MessageInv, EarlyRequests

\* An int that is neither a request nor a connection goes into a pipe, out of one, or is
\* about to.
LEMMA QuitMessages ==
  ASSUME MessageInv, ended = "no", ended' # "SIGSEGV",
         UNCHANGED <<queue, connq, conns, owner, early>>,
         pipe' \in [Thread -> Seq(NotifyInt)], pend' \in [Thread -> Notification \cup {Null}],
         WritesTo',
         \A t \in Worker \cup {RtcSrv}, k \in {"RTC_MSG", "NEW_CONN"} : Ints(t, k)' = Ints(t, k),
         fds'[RtcSrv] \in {"unset", "open"} /\ loop'[RtcSrv] # "quit" =>
           fds[RtcSrv] \in {"unset", "open"} /\ loop[RtcSrv] # "quit"
  PROVE  MessageInv'
<1>1. MessageTypes'
  BY DEF MessageInv, MessageTypes
<1>2. Owned'
  BY DEF MessageInv, Owned, Given
<1>3. ConnPerInt'
  BY CountedKinds DEF MessageInv, ConnPerInt
<1>4. LateByEarly'
  BY CountedKinds DEF MessageInv, EarlyRequests, LateByEarly
<1> QED BY <1>1, <1>2, <1>3, <1>4 DEF MessageInv, EarlyRequests, CrashOnlyInStartup

\* stop() from the handler of SIGINT.
LEMMA HandleMessages ==
  ASSUME MessageInv, ended = "no", NEW i \in Signal, Handle(i) PROVE MessageInv'
<1>1. PICK s \in Server : Write(s, "QUIT")
  BY Threads DEF Handle
<1>2. /\ UNCHANGED <<fds, loop, pend, queue, connq, conns, owner, early>>
      /\ ended' # "SIGSEGV"
  BY <1>1 DEF Handle, Write, End, media
<1>3. MessageTypes /\ s \in Thread
  BY Threads DEF MessageInv
<1>4. ASSUME NEW t \in Worker \cup {RtcSrv}, NEW k \in {"RTC_MSG", "NEW_CONN"}
      PROVE  pipe' \in [Thread -> Seq(NotifyInt)] /\ Ints(t, k)' = Ints(t, k)
  <2>1. t \in Thread /\ k \in NotifyInt /\ k # "QUIT"
    BY Threads DEF NotifyInt
  <2>2. /\ pipe' \in [Thread -> Seq(NotifyInt)]
        /\ Cardinality(Places(pipe[t], k)') = Cardinality(Places(pipe[t], k))
    BY <1>1, <1>3, <2>1, CountedKinds, PipeWrite
  <2>3. Writers(t, k)' = Writers(t, k)
    BY <1>2 DEF Writers
  <2> QED BY <2>2, <2>3 DEF Ints
<1>5. WritesTo'
  BY <1>2 DEF MessageInv, WritesTo
<1>6. pend' \in [Thread -> Notification \cup {Null}]
  BY <1>2, <1>3 DEF MessageTypes
<1> QED BY <1>2, <1>4, <1>5, <1>6, CountedKinds, QuitMessages

\* A thread reads QUIT.
LEMMA QuitReadMessages ==
  ASSUME MessageInv, ended = "no", NEW u \in Thread, Quit(u) PROVE MessageInv'
<1>1. /\ Reads(u, "QUIT") /\ UNCHANGED <<fds, pend, queue, connq, conns, owner, early, ended>>
      /\ loop' = [loop EXCEPT ![u] = AtQuit(u)] /\ loop[u] = "run"
  BY DEF Quit, Reads, media
<1>2. MessageTypes
  BY DEF MessageInv
<1>3. ASSUME NEW t \in Worker \cup {RtcSrv}, NEW k \in {"RTC_MSG", "NEW_CONN"}
      PROVE  pipe' \in [Thread -> Seq(NotifyInt)] /\ Ints(t, k)' = Ints(t, k)
  <2>1. t \in Thread /\ k \in NotifyInt /\ k # "QUIT"
    BY Threads DEF NotifyInt
  <2>2. /\ pipe' \in [Thread -> Seq(NotifyInt)]
        /\ Cardinality(Places(pipe[t], k)') = Cardinality(Places(pipe[t], k))
    BY <1>1, <1>2, <2>1, CountedKinds, PipeRead
  <2>3. Writers(t, k)' = Writers(t, k)
    BY <1>1 DEF Writers
  <2> QED BY <2>2, <2>3 DEF Ints
<1>4. WritesTo'
  BY <1>1 DEF MessageInv, WritesTo
<1>5. pend' \in [Thread -> Notification \cup {Null}]
  BY <1>1, <1>2 DEF MessageTypes
<1>6. loop'[RtcSrv] # "quit" => loop[RtcSrv] # "quit"
  BY <1>1
<1> QED BY <1>1, <1>3, <1>4, <1>5, <1>6, CountedKinds, QuitMessages

\* A server is about to stop a worker.
LEMMA StopMessages ==
  ASSUME MessageInv, ControlInv, ended = "no", NEW s \in Server, StopWorker(s) PROVE MessageInv'
<1> DEFINE w == workers[s][stopAt[s]]
<1>1. /\ Notifies(s, w, "QUIT") /\ pend[s] = Null /\ stopAt[s] =< Len(workers[s])
      /\ UNCHANGED <<fds, pipe, queue, connq, conns, owner, early, ended>>
      /\ loop' = [loop EXCEPT ![s] = "joinWorker"] /\ loop[s] = "stopWorkers"
  BY DEF StopWorker, Stops, media
<1>2. w \in Worker
  BY <1>1 DEF ControlInv, ControlTypes
<1>3. MessageTypes /\ s \in Thread /\ s \notin SigWorker
  BY Threads DEF MessageInv, Server
<1> HIDE DEF w
<1>4. ASSUME NEW t \in Worker \cup {RtcSrv}, NEW k \in {"RTC_MSG", "NEW_CONN"}
      PROVE  /\ pend' \in [Thread -> Notification \cup {Null}] /\ Ints(t, k)' = Ints(t, k)
  <2>1. k \in NotifyInt /\ k # "QUIT"
    BY DEF NotifyInt
  <2>2. "QUIT" \in NotifyInt /\ w \in Worker \cup {RtcSrv}
    BY <1>2 DEF NotifyInt
  <2>3. s \in Thread /\ pend[s] = Null /\ Notifies(s, w, "QUIT") /\ MessageTypes
    BY <1>1, <1>3
  <2>4. /\ pend' \in [Thread -> Notification \cup {Null}]
        /\ Cardinality(Writers(t, k)') =
             IF t = w /\ k = "QUIT" THEN Cardinality(Writers(t, k)) + 1
                                    ELSE Cardinality(Writers(t, k))
    BY <2>1, <2>2, <2>3, WritersSend
  <2>5. Cardinality(Writers(t, k)') = Cardinality(Writers(t, k))
    BY <2>1, <2>4
  <2> QED BY <1>1, <2>4, <2>5 DEF Ints
<1>5. WritesTo'
  <2>1. pend' = [pend EXCEPT ![s] = [to |-> w, int |-> "QUIT"]]
    BY <1>1 DEF Notifies
  <2> QED BY <1>2, <1>3, <2>1 DEF MessageInv, WritesTo, MessageTypes
<1>6. pipe' \in [Thread -> Seq(NotifyInt)]
  BY <1>1, <1>3 DEF MessageTypes
<1>7. loop'[RtcSrv] # "quit" => loop[RtcSrv] # "quit"
  BY <1>1
<1> QED BY <1>1, <1>4, <1>5, <1>6, <1>7, CountedKinds, QuitMessages


\* What is to come for each thread after a step that begins to notify, ...
LEMMA SendInts ==
  ASSUME MessageTypes, NEW u \in Thread, pend[u] = Null, NEW to \in Worker \cup {RtcSrv},
         NEW int \in NotifyInt, Notifies(u, to, int), pipe' = pipe
  PROVE  /\ pend' \in [Thread -> Notification \cup {Null}]
         /\ \A t \in Worker \cup {RtcSrv}, k \in NotifyInt :
              /\ Ints(t, k) \in Nat
              /\ Ints(t, k)' = IF t = to /\ k = int THEN Ints(t, k) + 1 ELSE Ints(t, k)
<1>1. ASSUME NEW t \in Worker \cup {RtcSrv}, NEW k \in NotifyInt
      PROVE  /\ pend' \in [Thread -> Notification \cup {Null}] /\ Ints(t, k) \in Nat
             /\ Ints(t, k)' = IF t = to /\ k = int THEN Ints(t, k) + 1 ELSE Ints(t, k)
  <2>1. t \in Thread
    BY Threads
  <2>2. Cardinality(Places(pipe[t], k)) \in Nat /\ Cardinality(Writers(t, k)) \in Nat
    BY <2>1, CountsFinite
  <2>3. /\ pend' \in [Thread -> Notification \cup {Null}]
        /\ Cardinality(Writers(t, k)') =
             IF t = to /\ k = int THEN Cardinality(Writers(t, k)) + 1
                                  ELSE Cardinality(Writers(t, k))
    BY WritersSend
  <2>4. Places(pipe[t], k)' = Places(pipe[t], k)
    OBVIOUS
  <2> QED BY <2>2, <2>3, <2>4 DEF Ints
<1> QED BY <1>1, CountedKinds

\* ... after one that reads, ...
LEMMA ReadInts ==
  ASSUME MessageTypes, NEW u \in Thread, NEW int \in NotifyInt, Reads(u, int), pend' = pend,
         NEW t \in Worker \cup {RtcSrv}, NEW k \in NotifyInt
  PROVE  /\ pipe' \in [Thread -> Seq(NotifyInt)] /\ Ints(t, k) \in Nat
         /\ t = u /\ k = int => Ints(t, k) > 0
         /\ Ints(t, k)' = IF t = u /\ k = int THEN Ints(t, k) - 1 ELSE Ints(t, k)
<1>1. t \in Thread
  BY Threads
<1>2. Cardinality(Places(pipe[t], k)) \in Nat /\ Cardinality(Writers(t, k)) \in Nat
  BY <1>1, CountsFinite
<1>3. /\ pipe' \in [Thread -> Seq(NotifyInt)]
      /\ Cardinality(Places(pipe[t], k)') =
           IF t = u /\ k = int THEN Cardinality(Places(pipe[t], k)) - 1
                               ELSE Cardinality(Places(pipe[t], k))
      /\ Cardinality(Places(pipe[u], int)) > 0
  BY <1>1, PipeRead
<1>4. Writers(t, k)' = Writers(t, k)
  BY DEF Writers
<1> QED BY <1>2, <1>3, <1>4 DEF Ints

\* ... and after one that does both.
LEMMA PassInts ==
  ASSUME MessageTypes, NEW u \in Thread, Reads(u, "RTC_MSG"),
         NEW to \in Worker \cup {RtcSrv}, Notifies(u, to, "RTC_MSG"), to # u,
         NEW t \in Worker \cup {RtcSrv}, NEW k \in NotifyInt
  PROVE  /\ pipe' \in [Thread -> Seq(NotifyInt)] /\ Ints(t, k) \in Nat
         /\ pend' \in [Thread -> Notification \cup {Null}]
         /\ t = u /\ k = "RTC_MSG" => Ints(t, k) > 0 /\ Ints(t, k)' = Ints(t, k) - 1
         /\ t = to /\ k = "RTC_MSG" => Ints(t, k)' = Ints(t, k) + 1
         /\ ~ (t \in {u, to} /\ k = "RTC_MSG") => Ints(t, k)' = Ints(t, k)
<1>1. t \in Thread /\ pend[u] = Null /\ "RTC_MSG" \in NotifyInt
  BY Threads, CountedKinds DEF Reads
<1>2. Cardinality(Places(pipe[t], k)) \in Nat /\ Cardinality(Writers(t, k)) \in Nat
  BY <1>1, CountsFinite
<1>3. /\ pipe' \in [Thread -> Seq(NotifyInt)]
      /\ Cardinality(Places(pipe[t], k)') =
           IF t = u /\ k = "RTC_MSG" THEN Cardinality(Places(pipe[t], k)) - 1
                                     ELSE Cardinality(Places(pipe[t], k))
      /\ Cardinality(Places(pipe[u], "RTC_MSG")) > 0
  BY <1>1, PipeRead
<1>4. /\ pend' \in [Thread -> Notification \cup {Null}]
      /\ Cardinality(Writers(t, k)') =
           IF t = to /\ k = "RTC_MSG" THEN Cardinality(Writers(t, k)) + 1
                                      ELSE Cardinality(Writers(t, k))
  BY <1>1, WritersSend
<1>5. /\ Ints(t, k) = Cardinality(Places(pipe[t], k)) + Cardinality(Writers(t, k))
      /\ Ints(t, k)' = Cardinality(Places(pipe[t], k)') + Cardinality(Writers(t, k)')
  BY DEF Ints
<1>6. CASE t = u /\ k = "RTC_MSG"
  BY <1>2, <1>3, <1>4, <1>5, <1>6
<1>7. CASE t = to /\ k = "RTC_MSG"
  BY <1>2, <1>3, <1>4, <1>5, <1>7
<1>8. CASE ~ (t \in {u, to} /\ k = "RTC_MSG")
  BY <1>2, <1>3, <1>4, <1>5, <1>8
<1> QED BY <1>6, <1>7, <1>8

\* A queue of one kind of requests is one of every wider kind.
LEMMA SeqWider ==
  ASSUME NEW A, NEW B, A \subseteq B, NEW s \in Seq(A) PROVE s \in Seq(B)
<1>1. s \in [1..Len(s) -> A] /\ Len(s) \in Nat
  OBVIOUS
<1>2. s \in [1..Len(s) -> B]
  BY <1>1
<1> QED BY <1>1, <1>2

\* accept_new_connect()
LEMMA AcceptMessages ==
  ASSUME MessageInv, ended = "no", NEW r \in Request, NEW w \in SigWorker, Accept(r, w)
  PROVE  MessageInv'
<1>1. /\ pend[SigSrv] = Null /\ owner[r] = Null /\ owner' = [owner EXCEPT ![r] = w]
      /\ connq' = [connq EXCEPT ![w] = Append(connq[w], r)]
      /\ Notifies(SigSrv, w, "NEW_CONN")
      /\ UNCHANGED <<loop, fds, pipe, queue, conns, early, ended, mainPc>>
  BY DEF Accept, boot
<1>2. MessageTypes /\ Owned /\ WritesTo /\ ConnPerInt /\ LateByEarly /\ CrashOnlyInStartup
  BY DEF MessageInv, EarlyRequests
<1>3. w \in Worker /\ w \in Thread /\ w # Null /\ w # RtcSrv /\ SigSrv \in Thread /\ SigSrv \notin SigWorker
  BY Threads, LifecycleAssumption
<1>4. Given \subseteq Given' /\ r \in Given'
  BY <1>1, <1>2, <1>3 DEF Given, MessageTypes
<1>5. /\ pend' \in [Thread -> Notification \cup {Null}]
      /\ \A t \in Worker \cup {RtcSrv}, k \in NotifyInt :
           /\ Ints(t, k) \in Nat
           /\ Ints(t, k)' = IF t = w /\ k = "NEW_CONN" THEN Ints(t, k) + 1 ELSE Ints(t, k)
  <2>1. pipe' = pipe /\ w \in Worker \cup {RtcSrv} /\ "NEW_CONN" \in NotifyInt
    BY <1>1, CountedKinds
  <2>2. MessageTypes /\ SigSrv \in Thread /\ pend[SigSrv] = Null /\ Notifies(SigSrv, w, "NEW_CONN")
    BY <1>1, <1>2, <1>3
  <2> QED BY <2>1, <2>2, SendInts, SMTT(40)
<1>6. MessageTypes'
  <2>1. pend' \in [Thread -> Notification \cup {Null}]
    BY <1>5, CountedKinds
  <2> QED BY <1>1, <1>2, <2>1 DEF MessageTypes
<1>7. /\ Owned' /\ Len(connq'[w]) = Len(connq[w]) + 1
      /\ \A v \in SigWorker : Len(connq[v]) \in Nat /\ (v # w => connq'[v] = connq[v])
  <2>1. queue' \in [Thread -> Seq(Given')]
    BY <1>1, <1>2, <1>4, SeqWider DEF Owned
  <2>2. conns' \in [SigWorker -> SUBSET Given']
    BY <1>1, <1>2, <1>4 DEF Owned
  <2>3. connq \in [SigWorker -> Seq(Given')]
    BY <1>1, <1>2, <1>4, SeqWider DEF Owned
  <2>4. /\ Append(connq[w], r) \in Seq(Given')
        /\ Len(Append(connq[w], r)) = Len(connq[w]) + 1
    BY <1>4, <2>3, AppendFacts
  <2>5. connq' \in [SigWorker -> Seq(Given')] /\ connq'[w] = Append(connq[w], r)
    BY <1>1, <2>3, <2>4
  <2> QED BY <1>1, <2>1, <2>2, <2>3, <2>4, <2>5 DEF Owned
<1>8. WritesTo'
  <2>1. pend' = [pend EXCEPT ![SigSrv] = [to |-> w, int |-> "NEW_CONN"]]
    BY <1>1 DEF Notifies
  <2> QED BY <1>2, <1>3, <2>1 DEF WritesTo, MessageTypes
<1>9. ConnPerInt'
  <2> SUFFICES ASSUME NEW v \in SigWorker PROVE Ints(v, "NEW_CONN")' =< Len(connq'[v])
    BY DEF ConnPerInt
  <2>1. /\ Ints(v, "NEW_CONN") \in Nat
        /\ Ints(v, "NEW_CONN")' = IF v = w THEN Ints(v, "NEW_CONN") + 1 ELSE Ints(v, "NEW_CONN")
    BY <1>5, CountedKinds
  <2>2. Ints(v, "NEW_CONN") =< Len(connq[v])
    BY <1>2 DEF ConnPerInt
  <2> QED BY <1>7, <2>1, <2>2
<1>10. LateByEarly'
  <2>1. Ints(RtcSrv, "RTC_MSG")' = Ints(RtcSrv, "RTC_MSG")
    BY <1>3, <1>5, CountedKinds
  <2> QED BY <1>1, <1>2, <2>1 DEF LateByEarly
<1>11. CrashOnlyInStartup'
  BY <1>1, <1>2, CrashLater
<1> QED BY <1>6, <1>7, <1>8, <1>9, <1>10, <1>11 DEF MessageInv, EarlyRequests

\* A worker takes a connection, and there is one to take.
LEMMA NewConnMessages ==
  ASSUME MessageInv, ended = "no", NEW w \in SigWorker, NewConn(w) PROVE MessageInv'
<1>1. /\ Reads(w, "NEW_CONN")
      /\ conns' = [conns EXCEPT ![w] = conns[w] \cup {Head(connq[w])}]
      /\ connq' = [connq EXCEPT ![w] = Tail(connq[w])]
      /\ UNCHANGED <<loop, fds, pend, queue, owner, early, ended, mainPc>>
  BY DEF NewConn, boot
<1>2. MessageTypes /\ Owned /\ WritesTo /\ ConnPerInt /\ LateByEarly /\ CrashOnlyInStartup
  BY DEF MessageInv, EarlyRequests
<1>3. w \in Worker /\ w \in Thread /\ w # RtcSrv /\ w \in Worker \cup {RtcSrv}
  BY Threads
<1>4. ASSUME NEW t \in Worker \cup {RtcSrv}, NEW k \in NotifyInt
      PROVE  /\ pipe' \in [Thread -> Seq(NotifyInt)] /\ Ints(t, k) \in Nat
             /\ t = w /\ k = "NEW_CONN" => Ints(t, k) > 0
             /\ Ints(t, k)' = IF t = w /\ k = "NEW_CONN" THEN Ints(t, k) - 1 ELSE Ints(t, k)
  BY <1>1, <1>2, <1>3, CountedKinds, ReadInts
<1>5. connq[w] \in Seq(Given) /\ connq[w] # << >>
  <2>1. connq[w] \in Seq(Given) /\ Len(connq[w]) >= Ints(w, "NEW_CONN")
    BY <1>2 DEF Owned, ConnPerInt
  <2>2. Ints(w, "NEW_CONN") \in Nat /\ Ints(w, "NEW_CONN") > 0
    BY <1>3, <1>4, CountedKinds
  <2>3. << >> \in Seq(Given) /\ Len(<< >>) = 0
    OBVIOUS
  <2> QED BY <2>1, <2>2, <2>3
<1>6. /\ Head(connq[w]) \in Given /\ Tail(connq[w]) \in Seq(Given)
      /\ Len(Tail(connq[w])) = Len(connq[w]) - 1
  BY <1>5, TailFacts
<1>7. MessageTypes'
  <2>1. pipe' \in [Thread -> Seq(NotifyInt)]
    BY <1>4, CountedKinds
  <2> QED BY <1>1, <1>2, <2>1 DEF MessageTypes
<1>8. Owned' /\ \A v \in SigWorker : connq'[v] = IF v = w THEN Tail(connq[v]) ELSE connq[v]
  <2>1. Given' = Given
    BY <1>1 DEF Given
  <2> QED BY <1>1, <1>2, <1>6, <2>1 DEF Owned
<1>9. WritesTo'
  BY <1>1, <1>2 DEF WritesTo
<1>10. ConnPerInt'
  <2> SUFFICES ASSUME NEW v \in SigWorker PROVE Ints(v, "NEW_CONN")' =< Len(connq'[v])
    BY DEF ConnPerInt
  <2>1. /\ Ints(v, "NEW_CONN") \in Nat
        /\ Ints(v, "NEW_CONN")' = IF v = w THEN Ints(v, "NEW_CONN") - 1 ELSE Ints(v, "NEW_CONN")
    BY <1>4, CountedKinds
  <2>2. Ints(v, "NEW_CONN") =< Len(connq[v]) /\ Len(connq[v]) \in Nat
    BY <1>2 DEF ConnPerInt, Owned
  <2>3. CASE v = w
    <3>1. Len(connq'[v]) = Len(connq[v]) - 1
      BY <1>6, <1>8, <2>3
    <3> QED BY <2>1, <2>2, <2>3, <3>1
  <2>4. CASE v # w
    <3>1. Len(connq'[v]) = Len(connq[v])
      BY <1>8, <2>4
    <3> QED BY <2>1, <2>2, <2>4, <3>1
  <2> QED BY <2>3, <2>4
<1>11. LateByEarly'
  <2>1. Ints(RtcSrv, "RTC_MSG")' = Ints(RtcSrv, "RTC_MSG")
    BY <1>3, <1>4, CountedKinds
  <2> QED BY <1>1, <1>2, <2>1 DEF LateByEarly
<1>12. CrashOnlyInStartup'
  BY <1>1, <1>2, CrashLater
<1> QED BY <1>7, <1>8, <1>9, <1>10, <1>11, <1>12 DEF MessageInv, EarlyRequests


\* A request goes to the RtcServer, or meets a null pointer.
LEMMA ReadMessages ==
  ASSUME MessageInv, ended = "no", NEW w \in SigWorker, NEW r \in Request, ReadRequest(w, r)
  PROVE  MessageInv'
<1>1. /\ pend[w] = Null /\ r \in conns[w] /\ conns' = [conns EXCEPT ![w] = conns[w] \ {r}]
      /\ UNCHANGED <<loop, fds, connq, owner, early, mainPc>>
  BY DEF ReadRequest, boot
<1>2. MessageTypes /\ Owned /\ WritesTo /\ ConnPerInt /\ LateByEarly /\ CrashOnlyInStartup
  BY DEF MessageInv, EarlyRequests
<1>3. w \in Worker /\ w \in Thread /\ w # RtcSrv /\ w \in Worker \cup {RtcSrv}
  BY Threads
<1>4. Given' = Given /\ r \in Given
  BY <1>1, <1>2 DEF Given, Owned
<1>5. conns' \in [SigWorker -> SUBSET Given]
  BY <1>1, <1>2 DEF Owned
<1>6. CASE HasRtcServer
  <2>1. /\ queue' = [queue EXCEPT ![RtcSrv] = Append(queue[RtcSrv], r)]
        /\ Notifies(w, RtcSrv, "RTC_MSG") /\ pipe' = pipe /\ ended' = ended
    BY <1>6 DEF ReadRequest, Pushes
  <2>2. /\ pend' \in [Thread -> Notification \cup {Null}]
        /\ \A t \in Worker \cup {RtcSrv}, k \in NotifyInt :
             /\ Ints(t, k) \in Nat
             /\ Ints(t, k)' = IF t = RtcSrv /\ k = "RTC_MSG" THEN Ints(t, k) + 1 ELSE Ints(t, k)
    <3>1. /\ MessageTypes /\ w \in Thread /\ pend[w] = Null /\ pipe' = pipe
          /\ "RTC_MSG" \in NotifyInt /\ Notifies(w, RtcSrv, "RTC_MSG")
      BY <1>1, <1>2, <1>3, <2>1, CountedKinds
    <3> QED BY <3>1, SendInts
  <2>3. MessageTypes'
    <3>1. pend' \in [Thread -> Notification \cup {Null}]
      BY <2>2, CountedKinds
    <3> QED BY <1>1, <1>2, <2>1, <3>1 DEF MessageTypes
  <2>4. queue[RtcSrv] \in Seq(Given) /\ queue \in [Thread -> Seq(Given)]
    BY <1>2, CountedKinds DEF Owned
  <2>5. /\ Append(queue[RtcSrv], r) \in Seq(Given) /\ Len(queue[RtcSrv]) \in Nat
        /\ Len(Append(queue[RtcSrv], r)) = Len(queue[RtcSrv]) + 1
    BY <1>4, <2>4, AppendFacts
  <2>6. queue' \in [Thread -> Seq(Given)] /\ queue'[RtcSrv] = Append(queue[RtcSrv], r)
    BY <2>1, <2>4, <2>5, CountedKinds
  <2>7. Owned'
    BY <1>1, <1>2, <1>4, <1>5, <2>6 DEF Owned
  <2>8. WritesTo'
    <3>1. pend' = [pend EXCEPT ![w] = [to |-> RtcSrv, int |-> "RTC_MSG"]]
      BY <2>1 DEF Notifies
    <3> QED BY <1>2, <1>3, <3>1 DEF WritesTo, MessageTypes
  <2>9. ConnPerInt'
    BY <1>1, <1>2, <1>3, <2>2, CountedKinds DEF ConnPerInt
  <2>10. LateByEarly'
    <3>1. /\ Ints(RtcSrv, "RTC_MSG") \in Nat
          /\ Ints(RtcSrv, "RTC_MSG")' = Ints(RtcSrv, "RTC_MSG") + 1
      BY <2>2, CountedKinds
    <3>2. Len(queue'[RtcSrv]) = Len(queue[RtcSrv]) + 1
      BY <2>5, <2>6
    <3>3. early \in Nat
      BY <1>2 DEF MessageTypes
    <3> SUFFICES ASSUME fds[RtcSrv] \in {"unset", "open"}, loop[RtcSrv] # "quit"
                 PROVE  Len(queue'[RtcSrv]) = Ints(RtcSrv, "RTC_MSG")' + early
      BY <1>1 DEF LateByEarly
    <3>4. Len(queue[RtcSrv]) = Ints(RtcSrv, "RTC_MSG") + early
      BY <1>2 DEF LateByEarly
    <3> QED BY <3>1, <3>2, <3>3, <3>4
  <2>11. CrashOnlyInStartup'
    BY <1>1, <1>2, <2>1, CrashLater
  <2> QED BY <2>3, <2>7, <2>8, <2>9, <2>10, <2>11 DEF MessageInv, EarlyRequests
<1>7. CASE ~ HasRtcServer
  <2>1. ended' = "SIGSEGV" /\ UNCHANGED <<queue, pend, pipe>>
    BY <1>7 DEF ReadRequest, End
  <2>2. MessageTypes' /\ WritesTo'
    BY <1>1, <1>2, <2>1 DEF MessageTypes, WritesTo
  <2>3. Owned'
    BY <1>1, <1>2, <1>4, <1>5, <2>1 DEF Owned
  <2>4. ConnPerInt'
    BY <1>1, <1>2, <2>1 DEF ConnPerInt, Ints, Writers
  <2>5. LateByEarly' /\ CrashOnlyInStartup'
    BY <1>1, <1>7, <2>1 DEF LateByEarly, CrashOnlyInStartup, HasRtcServer
  <2> QED BY <2>2, <2>3, <2>4, <2>5 DEF MessageInv, EarlyRequests
<1> QED BY <1>6, <1>7


\* A thread takes a message off its queue and does nothing else, or has none: the rest of
\* a message step in which nothing is passed on.
LEMMA TakenMessages ==
  ASSUME MessageInv, ended = "no", NEW u \in Thread, Reads(u, "RTC_MSG"), pend' = pend,
         UNCHANGED <<loop, fds, connq, conns, owner, early, ended, mainPc>>,
         \/ queue[u] = << >> /\ u # RtcSrv /\ queue' = queue
         \/ queue[u] # << >> /\ queue' = [queue EXCEPT ![u] = Tail(queue[u])]
  PROVE  MessageInv'
<1>1. MessageTypes /\ Owned /\ WritesTo /\ ConnPerInt /\ LateByEarly /\ CrashOnlyInStartup
  BY DEF MessageInv, EarlyRequests
<1>2. ASSUME NEW t \in Worker \cup {RtcSrv}, NEW k \in NotifyInt
      PROVE  /\ pipe' \in [Thread -> Seq(NotifyInt)] /\ Ints(t, k) \in Nat
             /\ Ints(t, k)' = IF t = u /\ k = "RTC_MSG" THEN Ints(t, k) - 1 ELSE Ints(t, k)
  <2>1. "RTC_MSG" \in NotifyInt
    BY CountedKinds
  <2>2. MessageTypes /\ Reads(u, "RTC_MSG") /\ pend' = pend
    BY <1>1
  <2>3. /\ pipe' \in [Thread -> Seq(NotifyInt)] /\ Ints(t, k) \in Nat
        /\ t = u /\ k = "RTC_MSG" => Ints(t, k) > 0
        /\ Ints(t, k)' = IF t = u /\ k = "RTC_MSG" THEN Ints(t, k) - 1 ELSE Ints(t, k)
    BY <2>1, <2>2, ReadInts
  <2> QED BY <2>3
<1>3. MessageTypes'
  <2>1. pipe' \in [Thread -> Seq(NotifyInt)]
    BY <1>2, CountedKinds
  <2> QED BY <1>1, <2>1 DEF MessageTypes
<1>4. Given' = Given /\ queue \in [Thread -> Seq(Given)]
  BY <1>1 DEF Given, Owned
<1>5. queue[u] # << >> => /\ Tail(queue[u]) \in Seq(Given) /\ Len(queue[u]) \in Nat
                          /\ Len(Tail(queue[u])) = Len(queue[u]) - 1
  BY <1>4, TailFacts
<1>6. queue' \in [Thread -> Seq(Given)]
  BY <1>4, <1>5
<1>7. Owned'
  BY <1>1, <1>4, <1>6 DEF Owned
<1>8. WritesTo'
  BY <1>1 DEF WritesTo
<1>9. ConnPerInt'
  BY <1>1, <1>2, CountedKinds DEF ConnPerInt
<1>10. LateByEarly'
  <2> SUFFICES ASSUME fds[RtcSrv] \in {"unset", "open"}, loop[RtcSrv] # "quit"
               PROVE  Len(queue'[RtcSrv]) = Ints(RtcSrv, "RTC_MSG")' + early
    BY DEF LateByEarly
  <2>1. Len(queue[RtcSrv]) = Ints(RtcSrv, "RTC_MSG") + early
    BY <1>1 DEF LateByEarly
  <2>2. /\ Ints(RtcSrv, "RTC_MSG") \in Nat /\ early \in Nat
        /\ Ints(RtcSrv, "RTC_MSG")' = IF RtcSrv = u THEN Ints(RtcSrv, "RTC_MSG") - 1
                                                    ELSE Ints(RtcSrv, "RTC_MSG")
    BY <1>1, <1>2, CountedKinds DEF MessageTypes
  <2>3. Len(queue'[RtcSrv]) = IF RtcSrv = u THEN Len(queue[RtcSrv]) - 1 ELSE Len(queue[RtcSrv])
    BY <1>4, <1>5, CountedKinds
  <2> QED BY <2>1, <2>2, <2>3
<1>11. CrashOnlyInStartup'
  BY <1>1, CrashLater
<1> QED BY <1>3, <1>7, <1>8, <1>9, <1>10, <1>11 DEF MessageInv, EarlyRequests

\* A thread takes a message off its queue and passes it on to a worker.
LEMMA PassedMessages ==
  ASSUME MessageInv, ended = "no", NEW u \in Thread, u \notin SigWorker, Reads(u, "RTC_MSG"),
         NEW to \in Worker, to # u, Notifies(u, to, "RTC_MSG"), queue[u] # << >>,
         queue' = [queue EXCEPT ![u] = Tail(queue[u]),
                                ![to] = Append(queue[to], Head(queue[u]))],
         UNCHANGED <<loop, fds, connq, conns, owner, early, ended, mainPc>>
  PROVE  MessageInv'
<1>1. MessageTypes /\ Owned /\ WritesTo /\ ConnPerInt /\ LateByEarly /\ CrashOnlyInStartup
  BY DEF MessageInv, EarlyRequests
<1>2. to \in Thread /\ to \in Worker \cup {RtcSrv} /\ to # RtcSrv
  BY Threads
<1>3. ASSUME NEW t \in Worker \cup {RtcSrv}, NEW k \in NotifyInt
      PROVE  /\ pipe' \in [Thread -> Seq(NotifyInt)] /\ Ints(t, k) \in Nat
             /\ pend' \in [Thread -> Notification \cup {Null}]
             /\ t = u /\ k = "RTC_MSG" => Ints(t, k) > 0 /\ Ints(t, k)' = Ints(t, k) - 1
             /\ ~ (t \in {u, to} /\ k = "RTC_MSG") => Ints(t, k)' = Ints(t, k)
  BY <1>1, <1>2, PassInts
<1>4. MessageTypes'
  <2>1. /\ pipe' \in [Thread -> Seq(NotifyInt)]
        /\ pend' \in [Thread -> Notification \cup {Null}]
    BY <1>3, CountedKinds
  <2> QED BY <1>1, <2>1 DEF MessageTypes
<1>5. Given' = Given /\ queue \in [Thread -> Seq(Given)]
  BY <1>1 DEF Given, Owned
<1>6. queue[u] \in Seq(Given) /\ queue[to] \in Seq(Given)
  BY <1>2, <1>5
<1>7. /\ Head(queue[u]) \in Given /\ Tail(queue[u]) \in Seq(Given) /\ Len(queue[u]) \in Nat
      /\ Len(Tail(queue[u])) = Len(queue[u]) - 1
  BY <1>6, TailFacts
<1>8. Append(queue[to], Head(queue[u])) \in Seq(Given)
  BY <1>6, <1>7, AppendFacts
<1>9. /\ queue' \in [Thread -> Seq(Given)]
      /\ queue'[RtcSrv] = IF RtcSrv = u THEN Tail(queue[u]) ELSE queue[RtcSrv]
  BY <1>2, <1>5, <1>7, <1>8, CountedKinds
<1>10. Owned'
  BY <1>1, <1>5, <1>9 DEF Owned
<1>11. WritesTo'
  <2>1. pend' = [pend EXCEPT ![u] = [to |-> to, int |-> "RTC_MSG"]]
    BY DEF Notifies
  <2> QED BY <1>1, <1>2, <2>1 DEF WritesTo, MessageTypes
<1>12. ConnPerInt'
  BY <1>1, <1>3, CountedKinds DEF ConnPerInt
<1>13. LateByEarly'
  <2> SUFFICES ASSUME fds[RtcSrv] \in {"unset", "open"}, loop[RtcSrv] # "quit"
               PROVE  Len(queue'[RtcSrv]) = Ints(RtcSrv, "RTC_MSG")' + early
    BY DEF LateByEarly
  <2>1. Len(queue[RtcSrv]) = Ints(RtcSrv, "RTC_MSG") + early
    BY <1>1 DEF LateByEarly
  <2>2. /\ Ints(RtcSrv, "RTC_MSG") \in Nat /\ early \in Nat
        /\ RtcSrv = u => Ints(RtcSrv, "RTC_MSG")' = Ints(RtcSrv, "RTC_MSG") - 1
        /\ RtcSrv # u => Ints(RtcSrv, "RTC_MSG")' = Ints(RtcSrv, "RTC_MSG")
    BY <1>1, <1>2, <1>3, CountedKinds DEF MessageTypes
  <2>3. CASE RtcSrv = u
    <3>1. Len(queue'[RtcSrv]) = Len(queue[RtcSrv]) - 1
      BY <1>7, <1>9, <2>3
    <3> QED BY <2>1, <2>2, <2>3, <3>1
  <2>4. CASE RtcSrv # u
    <3>1. Len(queue'[RtcSrv]) = Len(queue[RtcSrv])
      BY <1>9, <2>4
    <3> QED BY <2>1, <2>2, <2>4, <3>1
  <2> QED BY <2>3, <2>4
<1>14. CrashOnlyInStartup'
  BY <1>1, CrashLater
<1> QED BY <1>4, <1>10, <1>11, <1>12, <1>13, <1>14 DEF MessageInv, EarlyRequests

\* The RtcServer finds a message for every int it reads, and drops it or passes it on.
LEMMA RouteMessages ==
  ASSUME MessageInv, ControlInv, ended = "no", RouteMsg PROVE MessageInv'
<1>1. /\ Reads(RtcSrv, "RTC_MSG") /\ loop[RtcSrv] = "run"
      /\ UNCHANGED <<loop, fds, connq, conns, owner, early, mainPc>>
  BY DEF RouteMsg, Reads, boot
<1>2. MessageTypes /\ Owned /\ LateByEarly /\ RtcSrv \in Thread /\ RtcSrv \notin SigWorker
  BY CountedKinds, Threads DEF MessageInv, EarlyRequests
<1>3. queue[RtcSrv] # << >>
  <2>1. Cardinality(Places(pipe[RtcSrv], "RTC_MSG")) > 0
    BY <1>1, <1>2, CountedKinds, PipeRead
  <2>2. /\ Ints(RtcSrv, "RTC_MSG") \in Nat /\ Cardinality(Places(pipe[RtcSrv], "RTC_MSG")) \in Nat
        /\ Ints(RtcSrv, "RTC_MSG") >= Cardinality(Places(pipe[RtcSrv], "RTC_MSG"))
    BY <1>2, CountsFinite
  <2>3. fds[RtcSrv] = "open"
    BY <1>1 DEF ControlInv, MainAt
  <2>4. Len(queue[RtcSrv]) = Ints(RtcSrv, "RTC_MSG") + early
    BY <1>1, <1>2, <2>3 DEF LateByEarly
  <2>5. early \in Nat
    BY <1>2 DEF MessageTypes
  <2>6. Len(queue[RtcSrv]) # 0
    BY <2>1, <2>2, <2>4, <2>5
  <2> QED BY <2>6
<1> DEFINE r == Head(queue[RtcSrv])
           rest == [queue EXCEPT ![RtcSrv] = Tail(queue[RtcSrv])]
<1>4. ended' = ended /\ \E w \in RtcWorker : ToWorker(w, r, rest) \/ (queue' = rest /\ pend' = pend)
  BY <1>3 DEF RouteMsg
<1>5. PICK w \in RtcWorker : ToWorker(w, r, rest) \/ (queue' = rest /\ pend' = pend)
  BY <1>4
<1>6. CASE queue' = rest /\ pend' = pend
  BY <1>1, <1>2, <1>3, <1>4, <1>6, TakenMessages
<1>7. CASE ToWorker(w, r, rest)
  <2>1. w \in Worker /\ w # RtcSrv /\ w \in Thread
    BY Threads
  <2>2. queue' = [rest EXCEPT ![w] = Append(rest[w], r)] /\ Notifies(RtcSrv, w, "RTC_MSG")
    BY <1>7 DEF ToWorker
  <2>3. queue \in [Thread -> Seq(Given)]
    BY <1>2 DEF Owned
  <2>4. queue' = [queue EXCEPT ![RtcSrv] = Tail(queue[RtcSrv]),
                               ![w] = Append(queue[w], Head(queue[RtcSrv]))]
    BY <1>2, <2>1, <2>2, <2>3
  <2> QED BY <1>1, <1>2, <1>3, <1>4, <2>1, <2>2, <2>4, PassedMessages
<1> QED BY <1>5, <1>6, <1>7

\* An RtcWorker passes a message back to the worker named on it.
LEMMA ExecuteMessages ==
  ASSUME MessageInv, ended = "no", NEW w \in RtcWorker, Execute(w) PROVE MessageInv'
<1>1. /\ Reads(w, "RTC_MSG")
      /\ UNCHANGED <<loop, fds, connq, conns, owner, early, ended, mainPc>>
  BY DEF Execute, boot
<1>2. MessageTypes /\ Owned /\ w \in Thread /\ w \notin SigWorker /\ w # RtcSrv
  BY Threads DEF MessageInv
<1>3. CASE queue[w] = << >>
  <2>1. queue' = queue /\ pend' = pend
    BY <1>3 DEF Execute
  <2> QED BY <1>1, <1>2, <1>3, <2>1, TakenMessages
<1>4. CASE queue[w] # << >>
  <2> DEFINE r == Head(queue[w])
             to == owner[r]
  <2>1. /\ queue' = [queue EXCEPT ![w] = Tail(queue[w]), ![to] = Append(queue[to], r)]
        /\ Notifies(w, to, "RTC_MSG")
    <3>1. /\ queue' = [queue EXCEPT ![w] = Tail(@), ![to] = Append(@, r)]
          /\ Notifies(w, to, "RTC_MSG")
      BY <1>4 DEF Execute
    <3>2. queue[w] \in Seq(Given) /\ queue \in [Thread -> Seq(Given)]
      BY <1>2 DEF Owned
    <3>3. r \in Given
      BY <1>4, <3>2, TailFacts
    <3>4. to \in SigWorker
      BY <1>2, <3>3 DEF Given, MessageTypes
    <3> HIDE DEF to, r
    <3> QED BY <1>2, <3>1, <3>2, <3>4
  <2>2. queue[w] \in Seq(Given)
    BY <1>2 DEF Owned
  <2>3. r \in Given
    BY <1>4, <2>2, TailFacts
  <2>4. to \in SigWorker
    BY <1>2, <2>3 DEF Given, MessageTypes
  <2>5. to \in Worker /\ to # w
    BY <1>2, <2>4, Threads
  <2> HIDE DEF to
  <2> QED BY <1>1, <1>2, <1>4, <2>1, <2>5, PassedMessages
<1> QED BY <1>3, <1>4

\* A SignalingWorker takes an answer.
LEMMA AnswerMessages ==
  ASSUME MessageInv, ended = "no", NEW w \in SigWorker, Answer(w) PROVE MessageInv'
<1>1. /\ Reads(w, "RTC_MSG") /\ pend' = pend
      /\ UNCHANGED <<loop, fds, connq, conns, owner, early, ended, mainPc>>
      /\ \/ queue[w] = << >> /\ queue' = queue
         \/ queue[w] # << >> /\ queue' = [queue EXCEPT ![w] = Tail(queue[w])]
  BY DEF Answer, boot
<1>2. w \in Thread /\ w # RtcSrv
  BY Threads
<1> QED BY <1>1, <1>2, TakenMessages

-----------------------------------------------------------------------------
(* main() and the threads *)

\* A step that moves neither main() nor a thread nor a pipe's end.
LEMMA ControlKept ==
  ASSUME ControlInv, UNCHANGED <<mainPc, created, workers, loop, stopAt, fds>>,
         logPc' = logPc \/ logPc # "none"
  PROVE  ControlInv'
<1>1. ControlTypes'
  BY DEF ControlInv, ControlTypes
<1>2. MainAt'
  BY DEF ControlInv, MainAt, HasRtcServer
<1>3. \A s \in Server : JoinsItsWorkers(s)'
  BY DEF ControlInv, JoinsItsWorkers
<1> QED BY <1>1, <1>2, <1>3 DEF ControlInv

\* A step that only moves main() or a pipe's end.
LEMMA JoinsKept ==
  ASSUME ControlInv, UNCHANGED <<workers, loop, stopAt>>
  PROVE  \A s \in Server : JoinsItsWorkers(s)'
BY DEF ControlInv, JoinsItsWorkers

\* A worker that a server joined is one of its own.
LEMMA JoinedIsOwn ==
  ASSUME ControlInv, NEW s \in Server, NEW i \in DOMAIN workers[s]
  PROVE  /\ workers[s] \in Seq(Worker) /\ workers[s][i] \in Elems(workers[s])
         /\ workers[s][i] \in Elems(Options(s)) /\ workers[s][i] \in Worker
<1>1. workers[s] \in Seq(Worker) /\ Elems(workers[s]) \subseteq Elems(Options(s))
  BY DEF ControlInv, ControlTypes, JoinsItsWorkers
<1>2. workers[s][i] \in Elems(workers[s])
  BY DEF Elems
<1>3. Elems(Options(s)) \subseteq Worker
  BY OwnWorkers
<1> QED BY <1>1, <1>2, <1>3

\* A thread goes from one place of its loop to another.  A worker that ended stays so;
\* a server's place agrees with how far its joins are.
LEMMA LoopJoins ==
  ASSUME ControlInv, NEW t \in Thread, NEW v, loop' = [loop EXCEPT ![t] = v],
         UNCHANGED <<workers, stopAt>>,
         t \in Worker => loop[t] # "none" /\ loop[t] # "done",
         t \in Server => /\ v \in {"none", "run"} => stopAt[t] = 1
                         /\ v \in {"ending", "done"} \/ (t = SigSrv /\ v = "quit")
                              => stopAt[t] > Len(workers[t])
  PROVE  \A s \in Server : JoinsItsWorkers(s)'
<1> SUFFICES ASSUME NEW s \in Server PROVE JoinsItsWorkers(s)'
  OBVIOUS
<1>1. JoinsItsWorkers(s) /\ s \in Thread /\ Elems(Options(s)) \subseteq Worker
  BY Threads, OwnWorkers DEF ControlInv
<1>2. \A x \in Thread : loop'[x] = IF x = t THEN v ELSE loop[x]
  BY DEF ControlInv, ControlTypes
<1>3. t \in Server => t \notin Worker
  BY Threads DEF Server
<1>4. Worker \subseteq Thread
  BY Threads
<1>5. \A w \in Worker : /\ loop'[w] # "none" => loop[w] # "none"
                        /\ loop[w] = "done" => loop'[w] = "done"
  <2> SUFFICES ASSUME NEW w \in Worker
               PROVE  /\ loop'[w] # "none" => loop[w] # "none"
                      /\ loop[w] = "done" => loop'[w] = "done"
    OBVIOUS
  <2>1. CASE w = t
    BY <2>1
  <2>2. CASE w # t
    BY <1>2, <1>4, <2>2
  <2> QED BY <2>1, <2>2
<1>6. \A w \in Elems(Options(s)) : loop'[w] # "none" => w \in Elems(workers'[s])
  BY <1>1, <1>5 DEF JoinsItsWorkers
<1>7. \A i \in DOMAIN workers[s] : i < stopAt[s] => loop'[workers[s][i]] = "done"
  BY <1>1, <1>5, JoinedIsOwn DEF JoinsItsWorkers
<1>8. loop'[s] \in {"none", "run"} => stopAt[s] = 1
  BY <1>1, <1>2 DEF JoinsItsWorkers
<1>9. loop'[s] \in {"ending", "done"} \/ (s = SigSrv /\ loop'[s] = "quit")
        => stopAt[s] > Len(workers[s])
  BY <1>1, <1>2 DEF JoinsItsWorkers
<1>10. Elems(workers'[s]) \subseteq Elems(Options(s))
  BY <1>1 DEF JoinsItsWorkers
<1> QED BY <1>6, <1>7, <1>8, <1>9, <1>10 DEF JoinsItsWorkers

\* The steps of main() that start no thread of a server.
LEMMA MainMoves ==
  ASSUME ControlInv,
         \/ LoadGeneralConf \/ InitLog \/ InitSignaling \/ InitRtc
         \/ NewRtcServer \/ Install \/ MainStopLog \/ Return \/ \E s \in Server : Join(s)
  PROVE  ControlInv'
<1>1. UNCHANGED <<created, workers, loop, stopAt>>
  BY DEF LoadGeneralConf, InitLog, InitSignaling, InitRtc, NewRtcServer, Install, MainStopLog,
         Return, Join, Failure, boot
<1>2. \A s \in Server : JoinsItsWorkers(s)'
  BY <1>1, JoinsKept
<1>3. ControlTypes /\ MainAt /\ RtcSrv \in Thread /\ SigSrv \in Thread /\ SigSrv # RtcSrv
  BY Threads DEF ControlInv
<1>4. SUFFICES ControlTypes' /\ MainAt'
  BY <1>2 DEF ControlInv
<1>5. CASE LoadGeneralConf
  BY <1>1, <1>3, <1>5 DEF LoadGeneralConf, Goto, logVars, ControlTypes, MainAt, HasRtcServer
<1>6. CASE InitLog
  <2>1. CASE mainPc' = "initSig"
    BY <1>1, <1>3, <1>6, <2>1 DEF InitLog, ControlTypes, MainAt, HasRtcServer
  <2>2. CASE mainPc' = mainPc /\ logPc' = logPc
    BY <1>1, <1>3, <1>6, <2>2 DEF InitLog, ControlTypes, MainAt, HasRtcServer
  <2> QED BY <1>6, <2>1, <2>2 DEF InitLog, Goto, logVars
<1>7. ASSUME NEW t, Failure(t) PROVE ControlTypes' /\ MainAt'
  BY <1>3, <1>7 DEF Failure, OnLogMessage, boot, ControlTypes, MainAt, HasRtcServer
<1>8. CASE InitSignaling
  <2>1. CASE Failure(SigSrv)
    BY <1>7, <2>1
  <2>2. CASE ~ Failure(SigSrv)
    <3>1. fds' = [fds EXCEPT ![SigSrv] = "open"] /\ mainPc' = "sigWorkers" /\ mainPc = "initSig"
      BY <1>8, <2>2 DEF InitSignaling, OpenPipe, Goto
    <3> QED BY <1>1, <1>3, <3>1 DEF ControlTypes, MainAt, HasRtcServer
  <2> QED BY <2>1, <2>2
<1>9. CASE InitRtc
  <2>1. CASE Failure(RtcSrv)
    BY <1>7, <2>1
  <2>2. CASE ~ Failure(RtcSrv)
    <3>1. fds' = [fds EXCEPT ![RtcSrv] = "open"] /\ mainPc' = "rtcWorkers" /\ mainPc = "initRtc"
      BY <1>9, <2>2 DEF InitRtc, OpenPipe, Goto
    <3> QED BY <1>1, <1>3, <3>1 DEF ControlTypes, MainAt, HasRtcServer
  <2> QED BY <2>1, <2>2
<1>10. CASE NewRtcServer \/ Install
  BY <1>1, <1>3, <1>10 DEF NewRtcServer, Install, Goto, ControlTypes, MainAt, HasRtcServer
<1>11. CASE MainStopLog \/ Return
  BY <1>1, <1>3, <1>11
     DEF MainStopLog, Return, StopLog, logVars, boot, Goto, ControlTypes, MainAt, HasRtcServer
<1>12. ASSUME NEW s \in Server, Join(s) PROVE ControlTypes' /\ MainAt'
  BY <1>1, <1>3, <1>12 DEF Join, Goto, Server, ControlTypes, MainAt, HasRtcServer
<1> QED BY <1>5, <1>6, <1>8, <1>9, <1>10, <1>11, <1>12

\* start() of a server: its thread begins, with no worker joined.
LEMMA ServerStarts ==
  ASSUME ControlInv, StartSignaling \/ StartRtc PROVE ControlInv'
<1>1. PICK s \in Server : /\ loop' = [loop EXCEPT ![s] = "run"] /\ loop[s] = "none"
                          /\ IF s = SigSrv THEN mainPc = "sigWorkers" /\ mainPc' = "newRtc"
                                           ELSE mainPc = "rtcWorkers" /\ mainPc' = "install"
                          /\ UNCHANGED <<created, workers, stopAt, fds>>
  <2>1. CASE StartSignaling
    <3>1. loop[SigSrv] = "none"
      BY <2>1 DEF StartSignaling, ControlInv, MainAt
    <3> QED BY <2>1, <3>1, Threads DEF StartSignaling, RunLoop, Goto
  <2>2. CASE StartRtc
    <3>1. loop[RtcSrv] = "none"
      BY <2>2 DEF StartRtc, ControlInv, MainAt
    <3> QED BY <2>2, <3>1, Threads DEF StartRtc, RunLoop, Goto
  <2> QED BY <2>1, <2>2
<1>2. s \in Thread /\ s \notin Worker /\ stopAt[s] = 1
  BY <1>1, Threads DEF Server, ControlInv, JoinsItsWorkers
<1>3. \A x \in Server : JoinsItsWorkers(x)'
  BY <1>1, <1>2, LoopJoins
<1>4. ControlTypes'
  BY <1>1 DEF ControlInv, ControlTypes
<1>5. MainAt'
  BY <1>1, <1>2, Threads DEF Server, ControlInv, ControlTypes, MainAt, HasRtcServer
<1> QED BY <1>3, <1>4, <1>5 DEF ControlInv

\* One more worker in _workers.
LEMMA ElemsAppend ==
  ASSUME NEW S, NEW s \in Seq(S), NEW e \in S
  PROVE  Elems(Append(s, e)) = Elems(s) \cup {e}
<1>1. /\ Append(s, e) \in Seq(S) /\ Len(s) \in Nat
      /\ Len(Append(s, e)) = Len(s) + 1
      /\ \A i \in 1..Len(s) : Append(s, e)[i] = s[i]
      /\ Append(s, e)[Len(s) + 1] = e
  BY AppendFacts
<1>2. DOMAIN s = 1..Len(s) /\ DOMAIN Append(s, e) = 1..(Len(s) + 1)
  BY <1>1
<1>3. \A i \in 1..Len(s) : i \in 1..(Len(s) + 1)
  BY <1>1
<1>4. Len(s) + 1 \in 1..(Len(s) + 1)
  BY <1>1
<1>5. \A i \in 1..(Len(s) + 1) : i \in 1..Len(s) \/ i = Len(s) + 1
  BY <1>1
<1> QED BY <1>1, <1>2, <1>3, <1>4, <1>5 DEF Elems

\* init() and start() of a worker of s: the server has no thread yet that could join it.
LEMMA WorkerStarts ==
  ASSUME ControlInv, NEW s \in Server, CreateWorker(s),
         mainPc = IF s = SigSrv THEN "sigWorkers" ELSE "rtcWorkers"
  PROVE  ControlInv'
<1> DEFINE w == Options(s)[created[s] + 1]
<1>1. /\ created[s] < Len(Options(s)) /\ created' = [created EXCEPT ![s] = created[s] + 1]
      /\ UNCHANGED <<mainPc, stopAt, logPc>>
      /\ \/ /\ fds' = [fds EXCEPT ![w] = "open"] /\ loop' = [loop EXCEPT ![w] = "run"]
            /\ workers' = [workers EXCEPT ![s] = Append(workers[s], w)]
         \/ UNCHANGED <<fds, loop, workers>>
  BY DEF CreateWorker, OpenPipe, RunLoop, logVars
<1>2. ControlTypes /\ MainAt /\ \A x \in Server : JoinsItsWorkers(x)
  BY DEF ControlInv
<1>3. w \in Elems(Options(s)) /\ w \in Worker /\ w \in Thread /\ w \notin Server
  <2>1. Options(s) \in Seq(Elems(Options(s))) /\ Elems(Options(s)) \subseteq Worker
    BY OwnWorkers
  <2>2. created[s] \in Nat
    BY <1>2 DEF ControlTypes
  <2>3. created[s] + 1 \in DOMAIN Options(s)
    BY <1>1, <2>1, <2>2
  <2>4. w \in Elems(Options(s))
    BY <2>3 DEF Elems
  <2> QED BY <2>1, <2>4, Threads DEF Server
<1> HIDE DEF w
<1>4. created' \in [Server -> Nat]
  BY <1>1, <1>2 DEF ControlTypes
<1>5. CASE UNCHANGED <<fds, loop, workers>>
  <2>1. ControlTypes'
    BY <1>1, <1>2, <1>4, <1>5 DEF ControlTypes
  <2>2. MainAt'
    BY <1>1, <1>2, <1>5 DEF MainAt, HasRtcServer
  <2>3. \A x \in Server : JoinsItsWorkers(x)'
    BY <1>1, <1>5, JoinsKept
  <2> QED BY <2>1, <2>2, <2>3 DEF ControlInv
<1>6. CASE /\ fds' = [fds EXCEPT ![w] = "open"] /\ loop' = [loop EXCEPT ![w] = "run"]
           /\ workers' = [workers EXCEPT ![s] = Append(workers[s], w)]
  <2>1. workers[s] \in Seq(Worker) /\ workers \in [Server -> Seq(Worker)]
    BY <1>2 DEF ControlTypes
  <2>2. Append(workers[s], w) \in Seq(Worker)
    BY <1>3, <2>1, AppendFacts
  <2>3. /\ workers' \in [Server -> Seq(Worker)] /\ workers'[s] = Append(workers[s], w)
        /\ \A x \in Server : x # s => workers'[x] = workers[x]
    BY <1>6, <2>1, <2>2
  <2>4. ControlTypes'
    BY <1>1, <1>2, <1>3, <1>4, <1>6, <2>3 DEF ControlTypes
  <2>5. /\ \A x \in Thread : x # w => loop'[x] = loop[x] /\ fds'[x] = fds[x]
        /\ loop'[w] = "run"
    BY <1>2, <1>3, <1>6 DEF ControlTypes
  <2>6. /\ loop'[SigSrv] = loop[SigSrv] /\ loop'[RtcSrv] = loop[RtcSrv]
        /\ fds'[RtcSrv] = fds[RtcSrv]
    BY <1>3, <2>5, Threads
  <2>7. MainAt'
    BY <1>1, <1>2, <2>6 DEF MainAt, HasRtcServer
  <2>8. JoinsItsWorkers(s)'
    <3>1. loop[s] = "none" /\ loop'[s] = "none"
      BY <1>2, <2>6 DEF Server, MainAt
    <3>2. stopAt[s] = 1 /\ JoinsItsWorkers(s)
      BY <1>2, <3>1 DEF JoinsItsWorkers
    <3>3. Elems(workers'[s]) = Elems(workers[s]) \cup {w}
      BY <1>3, <2>1, <2>3, ElemsAppend
    <3>4. \A i \in DOMAIN workers'[s] : ~ (i < stopAt'[s])
      BY <1>1, <2>2, <2>3, <3>2
    <3>5. Elems(workers'[s]) \subseteq Elems(Options(s))
      BY <1>3, <3>2, <3>3 DEF JoinsItsWorkers
    <3>6. \A x \in Elems(Options(s)) : loop'[x] # "none" => x \in Elems(workers'[s])
      <4> SUFFICES ASSUME NEW x \in Elems(Options(s)), loop'[x] # "none", x # w
                   PROVE  x \in Elems(workers[s])
        BY <3>3
      <4>1. x \in Thread
        BY OwnWorkers, Threads
      <4> QED BY <2>5, <3>2, <4>1 DEF JoinsItsWorkers
    <3> QED BY <1>1, <3>1, <3>2, <3>4, <3>5, <3>6 DEF JoinsItsWorkers
  <2>9. ASSUME NEW x \in Server, x # s PROVE JoinsItsWorkers(x)'
    <3>1. Elems(Options(x)) \subseteq Worker /\ w \notin Elems(Options(x)) /\ x \in Thread /\ x # w
      BY <1>3, <2>9, OwnWorkers, Threads DEF Server
    <3>2. JoinsItsWorkers(x)
      BY <1>2
    <3>3. \A y \in Elems(Options(x)) : loop'[y] = loop[y]
      BY <2>5, <3>1, Threads
    <3>4. \A i \in DOMAIN workers[x] : loop'[workers[x][i]] = loop[workers[x][i]]
      BY <3>3, JoinedIsOwn
    <3>5. workers'[x] = workers[x] /\ loop'[x] = loop[x] /\ stopAt' = stopAt
      BY <1>1, <2>3, <2>5, <2>9, <3>1
    <3> QED BY <3>2, <3>3, <3>4, <3>5 DEF JoinsItsWorkers
  <2> QED BY <2>4, <2>7, <2>8, <2>9 DEF ControlInv
<1> QED BY <1>1, <1>5, <1>6

\* A thread of a server or a worker leaves its loop.
LEMMA ThreadStops ==
  ASSUME ControlInv, NEW t \in Thread,
         \/ Quit(t) \/ CloseRecv(t) \/ CloseSend(t) \/ ThreadEnds(t)
         \/ t \in Server /\ (StopWorker(t) \/ WorkersStopped(t))
  PROVE  ControlInv'
<1>1. ControlTypes /\ MainAt /\ \A x \in Server : JoinsItsWorkers(x)
  BY DEF ControlInv
<1>2. /\ UNCHANGED <<mainPc, created, workers, stopAt, logPc>> /\ loop[t] \notin {"none", "done"}
  BY DEF Quit, Reads, CloseRecv, CloseSend, ThreadEnds, StopWorker, WorkersStopped, OnLogMessage,
         logVars, boot
<1>3. RtcSrv \in Thread /\ SigSrv \in Thread /\ SigSrv # RtcSrv
  BY Threads
<1>4. CASE CloseRecv(t)
  <2>1. loop' = loop /\ fds' = [fds EXCEPT ![t] = "half"] /\ loop[t] = "quit"
    BY <1>4 DEF CloseRecv
  <2>2. ControlTypes'
    BY <1>1, <1>2, <2>1 DEF ControlTypes
  <2>3. MainAt'
    BY <1>1, <1>2, <1>3, <2>1 DEF ControlTypes, MainAt, HasRtcServer
  <2> QED BY <1>2, <2>1, <2>2, <2>3, JoinsKept DEF ControlInv
<1>5. CASE ~ CloseRecv(t)
  <2>1. PICK v \in {"run", "stopWorkers", "joinWorker", "quit", "ending", "done"} :
             loop' = [loop EXCEPT ![t] = v]
    BY <1>5 DEF Quit, CloseSend, ThreadEnds, StopWorker, WorkersStopped, AtQuit, AfterClose,
                AfterWorkers
  <2>2. loop'[t] = v
    BY <1>1, <2>1 DEF ControlTypes
  <2>3. fds' = fds \/ (fds' = [fds EXCEPT ![t] = "closed"] /\ loop[t] = "quit")
    BY <1>5 DEF Quit, CloseSend, ThreadEnds, StopWorker, WorkersStopped
  <2>4. v # "run" /\ (loop[t] = "done" => v = "done")
    <3>1. loop'[t] # "run"
      BY <1>1, <1>5 DEF Quit, CloseSend, ThreadEnds, StopWorker, WorkersStopped, AtQuit, AfterClose,
                  AfterWorkers, ControlTypes
    <3> QED BY <1>2, <2>2, <3>1
  <2>5. t \in Server /\ (v \in {"ending", "done"} \/ (t = SigSrv /\ v = "quit"))
          => stopAt[t] > Len(workers[t])
    <3> SUFFICES ASSUME t \in Server, loop'[t] \in {"ending", "done"} \/ (t = SigSrv /\ loop'[t] = "quit")
                 PROVE  stopAt[t] > Len(workers[t])
      BY <2>2
    <3>1. JoinsItsWorkers(t)
      BY <1>1
    <3>2. CASE WorkersStopped(t)
      BY <3>2 DEF WorkersStopped
    <3>3. CASE ThreadEnds(t)
      BY <3>1, <3>3 DEF ThreadEnds, JoinsItsWorkers
    <3>4. CASE CloseSend(t)
      <4>1. t = SigSrv
        <5>1. t = RtcSrv => loop'[t] = "stopWorkers"
          BY <1>1, <3>4 DEF CloseSend, AfterClose, ControlTypes
        <5> QED BY <5>1 DEF Server
      <4> QED BY <3>1, <3>4, <4>1 DEF CloseSend, JoinsItsWorkers
    <3>5. CASE Quit(t)
      <4>1. loop'[t] = AtQuit(t)
        BY <1>1, <3>5 DEF Quit, ControlTypes
      <4> QED BY <4>1, <1>3 DEF AtQuit
    <3>6. CASE StopWorker(t)
      <4>1. loop'[t] = "joinWorker"
        BY <1>1, <3>6 DEF StopWorker, ControlTypes
      <4> QED BY <4>1
    <3> QED BY <1>5, <3>2, <3>3, <3>4, <3>5, <3>6
  <2>6. ControlTypes'
    BY <1>1, <1>2, <2>1, <2>3 DEF ControlTypes
  <2>7. MainAt'
    <3>1. \A x \in Thread : loop'[x] = IF x = t THEN v ELSE loop[x]
      BY <1>1, <2>1 DEF ControlTypes
    <3>2. \A x \in Thread : x # t \/ loop[x] # "quit" => fds'[x] = fds[x]
      BY <1>1, <2>3 DEF ControlTypes
    <3> QED BY <1>1, <1>2, <1>3, <2>4, <3>1, <3>2 DEF MainAt, HasRtcServer
  <2>8. \A x \in Server : JoinsItsWorkers(x)'
    <3>1. /\ t \in Worker => loop[t] # "none" /\ loop[t] # "done"
          /\ t \in Server => /\ v \in {"none", "run"} => stopAt[t] = 1
                             /\ v \in {"ending", "done"} \/ (t = SigSrv /\ v = "quit")
                                  => stopAt[t] > Len(workers[t])
      BY <1>2, <2>4, <2>5
    <3> QED BY <1>2, <2>1, <3>1, LoopJoins
  <2> QED BY <2>6, <2>7, <2>8 DEF ControlInv
<1> QED BY <1>4, <1>5

\* join() of a worker returns: the next one's turn.
LEMMA WorkerJoined ==
  ASSUME ControlInv, NEW s \in Server, JoinWorker(s) PROVE ControlInv'
<1>1. /\ loop[s] = "joinWorker" /\ loop[workers[s][stopAt[s]]] = "done"
      /\ stopAt' = [stopAt EXCEPT ![s] = stopAt[s] + 1]
      /\ loop' = [loop EXCEPT ![s] = "stopWorkers"]
      /\ UNCHANGED <<mainPc, created, workers, fds, logPc>>
  BY DEF JoinWorker, Joined, boot, logVars
<1>2. ControlTypes /\ MainAt /\ \A x \in Server : JoinsItsWorkers(x)
  BY DEF ControlInv
<1>3. s \in Thread /\ s \notin Worker
  BY Threads DEF Server
<1>4. \A x \in Thread : loop'[x] = IF x = s THEN "stopWorkers" ELSE loop[x]
  BY <1>1, <1>2 DEF ControlTypes
<1>5. ControlTypes'
  BY <1>1, <1>2, <1>3 DEF ControlTypes
<1>6. MainAt'
  BY <1>1, <1>2, <1>4, Threads DEF MainAt, HasRtcServer
<1>7. \A w \in Worker : loop'[w] = loop[w]
  BY <1>3, <1>4, Threads
<1>8. ASSUME NEW x \in Server PROVE JoinsItsWorkers(x)'
  <2>1. JoinsItsWorkers(x) /\ Elems(Options(x)) \subseteq Worker /\ x \in Thread
    BY <1>2, OwnWorkers, Threads
  <2>2. \A i \in DOMAIN workers[x] : loop'[workers[x][i]] = loop[workers[x][i]]
    BY <1>7, JoinedIsOwn
  <2>3. CASE x = s
    <3>1. loop'[x] = "stopWorkers" /\ stopAt'[x] = stopAt[x] + 1 /\ stopAt[x] \in Nat
      BY <1>1, <1>2, <1>4, <2>1, <2>3 DEF ControlTypes
    <3>2. workers[x] \in Seq(Worker)
      BY <1>2 DEF ControlTypes
    <3>3. \A i \in DOMAIN workers[x] : i < stopAt'[x] => loop[workers[x][i]] = "done"
      <4> SUFFICES ASSUME NEW i \in DOMAIN workers[x], i < stopAt'[x]
                   PROVE  loop[workers[x][i]] = "done"
        OBVIOUS
      <4>1. i < stopAt[x] \/ i = stopAt[x]
        BY <3>1, <3>2
      <4>2. CASE i < stopAt[x]
        BY <2>1, <4>2 DEF JoinsItsWorkers
      <4>3. CASE i = stopAt[x]
        BY <1>1, <2>3, <4>3
      <4> QED BY <4>1, <4>2, <4>3
    <3> QED BY <1>1, <1>7, <2>1, <2>2, <3>1, <3>3 DEF JoinsItsWorkers
  <2>4. CASE x # s
    <3>1. loop'[x] = loop[x] /\ stopAt'[x] = stopAt[x] /\ workers' = workers
      BY <1>1, <1>2, <1>4, <2>1, <2>4 DEF ControlTypes
    <3> QED BY <1>7, <2>1, <2>2, <3>1 DEF JoinsItsWorkers
  <2> QED BY <2>3, <2>4
<1> QED BY <1>5, <1>6, <1>8 DEF ControlInv

-----------------------------------------------------------------------------
(* The log *)

\* Lines in three parts: one more at the end, and a part that moves up.
LEMMA Lines ==
  ASSUME NEW S, NEW a \in Seq(S), NEW b \in Seq(S), NEW c \in Seq(S)
  PROVE  /\ \A e \in S : a \o b \o Append(c, e) = Append(a \o b \o c, e)
         /\ a \o c \o << >> = a \o << >> \o c
         /\ (a \o b) \o << >> \o c = a \o b \o c
<1>1. a \o b \in Seq(S) /\ a \o b \o c \in Seq(S) /\ a \o c \in Seq(S)
  OBVIOUS
<1>2. \A s \in Seq(S) : s \o << >> = s
  OBVIOUS
<1>3. \A e \in S : (a \o b) \o Append(c, e) = Append((a \o b) \o c, e)
  BY <1>1
<1> QED BY <1>1, <1>2, <1>3

\* Every step of the log keeps the lines.
LEMMA LogSteps ==
  ASSUME LogInv(Thread),
         \/ UNCHANGED logVars \/ \E t \in Thread : OnLogMessage(t)
         \/ (logPc = "none" /\ StartLog) \/ StopLog \/ LogThread
  PROVE  LogInv(Thread)'
<1>1. /\ logQueue \in Seq(Thread) /\ tmp \in Seq(Thread) /\ file \in Seq(Thread)
      /\ logged \in Seq(Thread) /\ (logPc # "write" => tmp = << >>) /\ LogOrder
  BY DEF LogInv
<1>2. CASE UNCHANGED logVars
  BY <1>1, <1>2 DEF logVars, LogInv, LogOrder
<1>3. ASSUME NEW t \in Thread, OnLogMessage(t) PROVE LogInv(Thread)'
  <2>1. /\ logQueue' = Append(logQueue, t) /\ logged' = Append(logged, t)
        /\ UNCHANGED <<tmp, file, logPc>>
    BY <1>3 DEF OnLogMessage
  <2>2. logQueue' \in Seq(Thread) /\ logged' \in Seq(Thread)
    BY <1>1, <2>1
  <2>3. file \o tmp \o Append(logQueue, t) = Append(file \o tmp \o logQueue, t)
    BY <1>1, Lines, SMTT(40)
  <2>4. LogOrder'
    BY <1>1, <2>1, <2>3 DEF LogOrder
  <2> QED BY <1>1, <2>1, <2>2, <2>4 DEF LogInv
<1>4. CASE (logPc = "none" /\ StartLog) \/ StopLog
  BY <1>1, <1>4 DEF StartLog, StopLog, LogInv, LogOrder
<1>5. CASE TakeLines
  <2>1. CASE tmp' = logQueue /\ logQueue' = << >> /\ logPc' = "write"
    <3>1. UNCHANGED <<file, logged>> /\ tmp = << >>
      BY <1>1, <1>5 DEF TakeLines
    <3>2. LogOrder'
      BY <1>1, <2>1, <3>1, Lines DEF LogOrder
    <3>3. << >> \in Seq(Thread)
      OBVIOUS
    <3> QED BY <1>1, <2>1, <3>1, <3>2, <3>3 DEF LogInv
  <2>2. CASE logPc' = "done" /\ UNCHANGED <<tmp, logQueue>>
    BY <1>1, <1>5, <2>2 DEF TakeLines, LogInv, LogOrder
  <2> QED BY <1>5, <2>1, <2>2 DEF TakeLines, Take
<1>6. CASE WriteLines
  <2>1. file' = file \o tmp /\ tmp' = << >> /\ UNCHANGED <<logQueue, logged>>
    BY <1>6 DEF WriteLines
  <2>2. LogOrder'
    BY <1>1, <2>1, Lines DEF LogOrder
  <2>3. << >> \in Seq(Thread) /\ file' \in Seq(Thread)
    BY <1>1, <2>1
  <2> QED BY <1>1, <2>1, <2>2, <2>3 DEF LogInv
<1> QED BY <1>2, <1>3, <1>4, <1>5, <1>6 DEF LogThread

-----------------------------------------------------------------------------
(* The invariant *)

\* Nothing happened yet.
LEMMA InitInv == Init => IInv
<1> SUFFICES ASSUME Init PROVE IInv
  OBVIOUS
<1>1. LogInv(Thread)
  BY DEF Init, LogInit, LogInv, LogOrder
<1>2. ControlTypes /\ MainAt
  BY Threads DEF Init, LogInit, ControlTypes, MainAt, HasRtcServer
<1>3. ASSUME NEW s \in Server PROVE JoinsItsWorkers(s)
  <2>1. workers[s] = << >> /\ stopAt[s] = 1 /\ loop[s] = "none"
    BY Threads DEF Init
  <2>2. Elems(workers[s]) = {} /\ DOMAIN workers[s] = {}
    BY <2>1 DEF Elems
  <2>3. \A w \in Elems(Options(s)) : loop[w] = "none"
    BY OwnWorkers, Threads DEF Init
  <2> QED BY <2>1, <2>2, <2>3 DEF JoinsItsWorkers
<1>4. MessageTypes /\ WritesTo
  BY DEF Init, MessageTypes, WritesTo
<1>5. Owned
  BY DEF Init, Owned
<1>6. ASSUME NEW t \in Worker \cup {RtcSrv}, NEW k \in NotifyInt PROVE Ints(t, k) = 0
  <2>1. t \in Thread /\ [to |-> t, int |-> k] # Null
    BY Threads, NotificationType
  <2>2. Places(pipe[t], k) = {}
    BY <2>1 DEF Init, Places
  <2>3. Writers(t, k) = {}
    BY <2>1 DEF Init, Writers
  <2> QED BY <2>2, <2>3, FS_EmptySet DEF Ints
<1>7. ConnPerInt
  BY <1>6, CountedKinds DEF ConnPerInt, Init
<1>8. EarlyRequests
  <2>1. Ints(RtcSrv, "RTC_MSG") = 0
    BY <1>6, CountedKinds
  <2>2. Len(queue[RtcSrv]) = 0 /\ early = 0 /\ ended = "no"
    BY CountedKinds DEF Init
  <2> QED BY <2>1, <2>2 DEF EarlyRequests, LateByEarly, CrashOnlyInStartup
<1> QED BY <1>1, <1>2, <1>3, <1>4, <1>5, <1>7, <1>8 DEF IInv, ControlInv, MessageInv

\* main() leaves the messages alone, and has the RtcServer's pipe open before its thread runs.
LEMMA MainStep ==
  ASSUME IInv, ended = "no", Main PROVE IInv'
<1>1. LogInv(Thread) /\ ControlInv /\ MessageInv
  BY DEF IInv
<1>2. ControlInv'
  <2>1. CASE CreateSignalingWorker
    BY <1>1, <2>1, Threads, WorkerStarts DEF CreateSignalingWorker
  <2>2. CASE CreateRtcWorker
    BY <1>1, <2>2, Threads, WorkerStarts DEF CreateRtcWorker
  <2> QED BY <1>1, <2>1, <2>2, MainMoves, ServerStarts DEF Main
<1>3. LogInv(Thread)'
  <2>1. SigSrv \in Thread /\ RtcSrv \in Thread
    BY Threads
  <2>2. mainPc = "log" => logPc = "none"
    BY <1>1 DEF ControlInv, MainAt
  <2>3. \/ UNCHANGED logVars \/ \E t \in Thread : OnLogMessage(t)
        \/ (logPc = "none" /\ StartLog) \/ StopLog
    BY <2>1, <2>2 DEF Main, LoadGeneralConf, InitLog, InitSignaling, InitRtc, NewRtcServer, Install,
         MainStopLog, Return, Join, Failure, CreateSignalingWorker, CreateRtcWorker, CreateWorker,
         StartSignaling, StartRtc
  <2> QED BY <1>1, <2>3, LogSteps
<1>4. /\ UNCHANGED <<pipe, pend, queue, connq, conns, owner, early>> /\ ended' # "SIGSEGV"
  BY DEF Main, LoadGeneralConf, InitLog, InitSignaling, InitRtc, NewRtcServer, Install,
         MainStopLog, Return, Join, Failure, CreateSignalingWorker, CreateRtcWorker, CreateWorker,
         StartSignaling, StartRtc, media, End
<1>5. \/ fds[RtcSrv] \in {"unset", "open"} /\ loop[RtcSrv] # "quit"
      \/ UNCHANGED <<fds, loop>>
  <2>1. CASE HasRtcServer /\ mainPc \notin {"initRtc", "rtcWorkers"}
    BY <2>1 DEF HasRtcServer, Main, LoadGeneralConf, InitLog, InitSignaling, InitRtc, NewRtcServer, Install,
         MainStopLog, Return, Join, Failure, CreateSignalingWorker, CreateRtcWorker,
         StartSignaling, StartRtc
  <2>2. CASE ~HasRtcServer \/ mainPc \in {"initRtc", "rtcWorkers"}
    BY <1>1, <2>2 DEF ControlInv, MainAt
  <2> QED BY <2>1, <2>2
<1>6. MessageInv'
  BY <1>1, <1>4, <1>5, MessagesKept
<1> QED BY <1>2, <1>3, <1>6 DEF IInv

\* A thread that leaves its loop.
LEMMA StoppingStep ==
  ASSUME IInv, ended = "no", NEW t \in Thread, Stopping(t) PROVE IInv'
<1>1. LogInv(Thread) /\ ControlInv /\ MessageInv
  BY DEF IInv
<1>2. ControlInv'
  BY <1>1, ThreadStops, WorkerJoined DEF Stopping
<1>3. LogInv(Thread)'
  <2>1. UNCHANGED logVars \/ OnLogMessage(t)
    BY DEF Stopping, Quit, CloseRecv, CloseSend, ThreadEnds, StopWorker, JoinWorker, WorkersStopped
  <2> QED BY <1>1, <2>1, LogSteps
<1>4. CASE Quit(t)
  BY <1>1, <1>2, <1>3, <1>4, QuitReadMessages DEF IInv
<1>5. CASE t \in Server /\ StopWorker(t)
  BY <1>1, <1>2, <1>3, <1>5, StopMessages DEF IInv
<1>6. CASE \/ CloseRecv(t) \/ CloseSend(t) \/ ThreadEnds(t)
           \/ t \in Server /\ (JoinWorker(t) \/ WorkersStopped(t))
  <2>1. UNCHANGED <<pipe, pend, queue, connq, conns, owner, early>> /\ ended' # "SIGSEGV"
    BY <1>6 DEF CloseRecv, CloseSend, ThreadEnds, JoinWorker, WorkersStopped, media
  <2>2. \/ fds' = fds /\ loop[t] # "quit"
        \/ fds' = [fds EXCEPT ![t] = "half"] \/ fds' = [fds EXCEPT ![t] = "closed"]
    BY <1>6 DEF CloseRecv, CloseSend, ThreadEnds, JoinWorker, WorkersStopped
  <2>3. \A x \in Thread : x # t => loop'[x] = loop[x] /\ fds'[x] = fds[x]
    BY <1>1, <1>6 DEF CloseRecv, CloseSend, ThreadEnds, JoinWorker, WorkersStopped,
                      ControlInv, ControlTypes
  <2>4. fds'[RtcSrv] \in {"unset", "open"} /\ loop'[RtcSrv] # "quit" =>
           fds[RtcSrv] \in {"unset", "open"} /\ loop[RtcSrv] # "quit"
    <3>1. fds \in [Thread -> {"unset", "open", "half", "closed"}] /\ RtcSrv \in Thread
      BY <1>1, Threads DEF ControlInv, ControlTypes
    <3>2. CASE t = RtcSrv
      BY <2>2, <3>1, <3>2
    <3>3. CASE t # RtcSrv
      BY <2>3, <3>1, <3>3
    <3> QED BY <3>2, <3>3
  <2>5. MessageInv'
    BY <1>1, <2>1, <2>4, MessagesKept
  <2> QED BY <1>2, <1>3, <2>5 DEF IInv
<1> QED BY <1>4, <1>5, <1>6 DEF Stopping

\* What is served and notified moves no thread and logs nothing.
LEMMA ServingStep ==
  ASSUME IInv, ended = "no",
         \/ \E t \in Thread : Notify(t) \/ Serve(t)
         \/ \E r \in Request, w \in SigWorker : Accept(r, w)
         \/ \E i \in Signal : Handle(i)
  PROVE  IInv'
<1>1. LogInv(Thread) /\ ControlInv /\ MessageInv
  BY DEF IInv
<1>2. UNCHANGED <<mainPc, created, workers, loop, stopAt, fds>> /\ UNCHANGED logVars
  BY DEF Notify, Serve, NewConn, Answer, ReadRequest, Execute, RouteMsg, Accept, Handle, boot
<1>3. ControlInv'
  BY <1>1, <1>2, ControlKept DEF logVars
<1>4. LogInv(Thread)'
  BY <1>1, <1>2, LogSteps
<1>5. MessageInv'
  <2>1. ASSUME NEW t \in Thread, Notify(t) PROVE MessageInv'
    BY <1>1, <2>1, NotifyMessages
  <2>2. ASSUME NEW r \in Request, NEW w \in SigWorker, Accept(r, w) PROVE MessageInv'
    BY <1>1, <2>2, AcceptMessages
  <2>3. ASSUME NEW i \in Signal, Handle(i) PROVE MessageInv'
    BY <1>1, <2>3, HandleMessages
  <2>4. ASSUME NEW t \in Thread, Serve(t) PROVE MessageInv'
    <3>1. CASE t \in SigWorker /\ NewConn(t)
      BY <1>1, <3>1, NewConnMessages
    <3>2. CASE t \in SigWorker /\ Answer(t)
      BY <1>1, <3>2, AnswerMessages
    <3>3. CASE t \in SigWorker /\ \E r \in Request : ReadRequest(t, r)
      BY <1>1, <3>3, ReadMessages
    <3>4. CASE t \in RtcWorker /\ Execute(t)
      BY <1>1, <3>4, ExecuteMessages
    <3>5. CASE t = RtcSrv /\ RouteMsg
      BY <1>1, <3>5, RouteMessages
    <3> QED BY <2>4, <3>1, <3>2, <3>3, <3>4, <3>5 DEF Serve
  <2> QED BY <2>1, <2>2, <2>3, <2>4
<1> QED BY <1>3, <1>4, <1>5 DEF IInv

\* The log thread and a SIGINT.
LEMMA OutsideStep ==
  ASSUME IInv, ended = "no", LogStep \/ Sigint PROVE IInv'
<1>1. LogInv(Thread) /\ ControlInv /\ MessageInv
  BY DEF IInv
<1>2. /\ UNCHANGED <<mainPc, created, workers, loop, stopAt, fds>>
      /\ UNCHANGED <<pipe, pend, queue, connq, conns, owner, early>> /\ ended' # "SIGSEGV"
  BY DEF LogStep, Sigint, boot, media, End
<1>3. (UNCHANGED logVars \/ LogThread) /\ (logPc' = logPc \/ logPc # "none")
  BY DEF LogStep, Sigint, LogThread, TakeLines, WriteLines, logVars
<1>4. ControlInv'
  BY <1>1, <1>2, <1>3, ControlKept
<1>5. LogInv(Thread)'
  BY <1>1, <1>3, LogSteps
<1>6. MessageInv'
  BY <1>1, <1>2, MessagesKept
<1> QED BY <1>4, <1>5, <1>6 DEF IInv

\* IInv is an invariant of the process from main() to its end.
THEOREM LifecycleInvariance == Spec => []IInv
<1>1. IInv /\ [Next]_vars => IInv'
  <2> SUFFICES ASSUME IInv, [Next]_vars PROVE IInv'
    OBVIOUS
  <2>1. CASE UNCHANGED vars
    <3>1. LogInv(Thread) /\ ControlInv /\ MessageInv
      BY DEF IInv
    <3>2. /\ UNCHANGED <<mainPc, created, workers, loop, stopAt, fds, ended>> /\ UNCHANGED logVars
          /\ UNCHANGED <<pipe, pend, queue, connq, conns, owner, early>>
      BY <2>1 DEF vars, boot, media
    <3>3. ControlInv'
      BY <3>1, <3>2, ControlKept DEF logVars
    <3>4. LogInv(Thread)'
      BY <3>1, <3>2, LogSteps
    <3>5. MessageInv'
      <4>1. \A t, k : Ints(t, k)' = Ints(t, k)
        BY <3>2 DEF Ints, Writers
      <4>2. ConnPerInt' /\ LateByEarly'
        BY <3>1, <3>2, <4>1 DEF MessageInv, EarlyRequests, ConnPerInt, LateByEarly
      <4>3. MessageTypes' /\ Owned' /\ WritesTo' /\ CrashOnlyInStartup'
        BY <3>1, <3>2 DEF MessageInv, EarlyRequests, MessageTypes, Owned, Given, WritesTo,
                          CrashOnlyInStartup, HasRtcServer
      <4> QED BY <4>2, <4>3 DEF MessageInv, EarlyRequests
    <3> QED BY <3>3, <3>4, <3>5 DEF IInv
  <2>2. CASE Next
    <3>1. ended = "no"
      BY <2>2 DEF Next, ThreadStep
    <3> QED BY <2>2, <3>1, MainStep, StoppingStep, ServingStep, OutsideStep DEF Next, ThreadStep
  <2> QED BY <2>1, <2>2
<1> QED BY <1>1, InitInv, PTL DEF Spec

\* The log stops after every thread that writes to it has ended: each server joined the
\* workers it started, and main() joined both (main.cpp:127-134).
THEOREM LogOutlivesAll == Spec => []LogOutlivesThreads
<1>1. IInv => LogOutlivesThreads
  <2> SUFFICES ASSUME IInv PROVE LogOutlivesThreads
    OBVIOUS
  <2>1. ASSUME mainPc = "joinLog", NEW t \in Thread PROVE loop[t] \in {"none", "done"}
    <3>1. \A s \in Server : loop[s] = "done" /\ JoinsItsWorkers(s)
      BY <2>1 DEF IInv, ControlInv, MainAt, Server
    <3>2. CASE t \in Server
      BY <3>1, <3>2
    <3>3. CASE t \in Worker
      <4>1. PICK s \in Server : t \in Elems(Options(s))
        BY <3>3, OwnWorkers, Threads
      <4>2. SUFFICES ASSUME loop[t] # "none" PROVE loop[t] = "done"
        OBVIOUS
      <4>3. t \in Elems(workers[s])
        BY <3>1, <4>1, <4>2 DEF JoinsItsWorkers
      <4>4. PICK i \in DOMAIN workers[s] : t = workers[s][i]
        BY <4>3 DEF Elems
      <4>5. stopAt[s] > Len(workers[s]) /\ stopAt[s] \in Nat /\ workers[s] \in Seq(Worker)
        BY <3>1 DEF JoinsItsWorkers, IInv, ControlInv, ControlTypes
      <4>6. i < stopAt[s]
        BY <4>4, <4>5
      <4> QED BY <3>1, <4>4, <4>6 DEF JoinsItsWorkers
    <3> QED BY <3>2, <3>3 DEF Thread
  <2> QED BY <2>1 DEF LogOutlivesThreads
<1> QED BY <1>1, LifecycleInvariance, PTL

\* A request that overtakes main() meets a null pointer, or makes the RtcServer late by one
\* message: nothing else does either (signaling_worker.cpp:518, rtc_server.cpp:159 and 201).
THEOREM EarlyRequestsOnly == Spec => []EarlyRequests
<1>1. IInv => EarlyRequests
  BY DEF IInv, MessageInv
<1> QED BY <1>1, LifecycleInvariance, PTL
=============================================================================
