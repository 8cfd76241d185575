----------------------------- MODULE StreamProofs -----------------------------
(***************************************************************************)
(* The streams of one RtcWorker.                                            *)
(*                                                                         *)
(* First StreamManager: what the maps, the timers and a packet on its way   *)
(* can reach was not deleted, no PeerConnection is deleted under its own    *)
(* callback, and only a stream's own user touches it.  The streams a step   *)
(* deletes are the ones Owned() finds by name and uid; NoDanglingEntry says *)
(* that such a stream has that name and kind, so no other entry of the maps *)
(* holds it, and NotYet that a new stream was in no map before.             *)
(*                                                                         *)
(* Then Negotiation, for offers and answers of any length.  The loops of    *)
(* set_remote_sdp() and to_string() are recursive functions: Iteration      *)
(* gives each of them its equations by well-founded induction, and a fact   *)
(* about all rounds of a loop is that a set of numbers is all of Nat        *)
(* (NaturalsClosed).  What the parser knows after n lines is what a reader  *)
(* who follows the RFCs finds in them (AllRead, InfosRead, GroupsRead), and *)
(* an offer's text says to such a reader what its description holds         *)
(* (OfferFacts); the theorems join the two over NegotiationInv.             *)
(***************************************************************************)
EXTENDS StreamManager, Negotiation, WellFoundedInduction, TLAPS

-----------------------------------------------------------------------------
(* The streams and their PeerConnections *)

\* A request finds at most one stream: alive, of that kind, name and user.
LEMMA OwnedFacts ==
  ASSUME IInv, NEW k \in Kind, NEW u, NEW n \in Name, NEW s \in Owned(k, u, n)
  PROVE  /\ s \in Stream /\ s = reg[k][n] /\ s # NoStream
         /\ alive[s] /\ kind[s] = k /\ name[s] = n /\ uid[s] = u
<1>1. s \in Stream /\ s = reg[k][n] /\ uid[s] = u
  BY DEF Owned
<1>2. s # NoStream
  BY <1>1, StreamAssumption DEF Stream, NoStream
<1> QED BY <1>1, <1>2 DEF IInv, NoDanglingEntry

\* _remove_push_stream() and _remove_pull_stream(): the streams in dead are erased and
\* deleted, with timers and states left as ~RtcStream() and the caller leave them.
LEMMA DeleteStep ==
  ASSUME IInv, NEW k \in Kind, NEW u \in Uid, NEW n \in Name,
         NEW dead, dead = Owned(k, u, n) \/ dead = {},
         reg' = Erase(k, n, dead), Delete(dead), made' = made, by' \in Uid,
         timer' \in [Stream -> {"off", "armed", "fired"}],
         \A s \in Stream : timer'[s] # "off" => s \notin dead /\ timer[s] # "off",
         state' \in [Stream -> PcState]
  PROVE  IInv'
<1>1. \A s \in dead : /\ s \in Stream /\ s = reg[k][n] /\ s # NoStream
                      /\ alive[s] /\ kind[s] = k /\ name[s] = n /\ uid[s] = u
  BY OwnedFacts
<1>2. AnyName \in Name /\ AnyUid \in Uid
  BY StreamAssumption DEF AnyName, AnyUid
<1>3. /\ alive' \in [Stream -> BOOLEAN] /\ kind' \in [Stream -> Kind]
      /\ name' \in [Stream -> Name] /\ uid' \in [Stream -> Uid]
      /\ keyed' \in [Stream -> BOOLEAN] /\ source' \in [Stream -> Stream \cup {NoStream}]
      /\ pc' \in [Stream -> {"none", "live", "dying", "gone"}]
  BY <1>2 DEF Delete, Forget, DestroyPc, IInv, TypeOK, Kind
<1>4. \A s \in Stream :
        /\ s \notin dead => /\ alive'[s] = alive[s] /\ kind'[s] = kind[s]
                            /\ name'[s] = name[s] /\ keyed'[s] = keyed[s]
                            /\ source'[s] = source[s] /\ pc'[s] = pc[s]
        /\ s \in dead => ~ alive'[s] /\ ~ keyed'[s] /\ pc'[s] = "dying"
  BY DEF Delete, Forget, DestroyPc, IInv, TypeOK
<1>5. reg' \in [Kind -> [Name -> Stream \cup {NoStream}]]
  BY DEF Erase, IInv, TypeOK
<1>6. TypeOK'
  BY <1>3, <1>4, <1>5 DEF IInv, TypeOK
<1>7. NotYet'
  BY <1>4 DEF IInv, NotYet
<1>8. NoDanglingEntry'
  <2> SUFFICES ASSUME NEW k2 \in Kind, NEW n2 \in Name, reg'[k2][n2] # NoStream
               PROVE  /\ alive'[reg'[k2][n2]] /\ kind'[reg'[k2][n2]] = k2
                      /\ name'[reg'[k2][n2]] = n2
    BY DEF NoDanglingEntry
  <2>1. reg'[k2][n2] = reg[k2][n2] /\ (dead # {} => <<k2, n2>> # <<k, n>>)
    BY DEF Erase, IInv, TypeOK
  <2>2. reg[k2][n2] \in Stream
    BY <2>1 DEF IInv, TypeOK
  <2>3. /\ alive[reg[k2][n2]] /\ kind[reg[k2][n2]] = k2 /\ name[reg[k2][n2]] = n2
    BY <2>1 DEF IInv, NoDanglingEntry
  <2>4. reg[k2][n2] \notin dead
    BY <1>1, <2>1, <2>3
  <2> QED BY <1>4, <2>1, <2>2, <2>3, <2>4
<1>9. NoDanglingCallback'
  BY <1>1, <1>4 DEF IInv, NoDanglingCallback
<1> QED BY <1>6, <1>7, <1>8, <1>9 DEF IInv

\* Timers that are stopped stay timers, and stopped.
LEMMA TimerOffFacts ==
  ASSUME IInv, NEW dead, NEW done
  PROVE  /\ TimerOff(dead, done) \in [Stream -> {"off", "armed", "fired"}]
         /\ \A s \in Stream : TimerOff(dead, done)[s] # "off"
                                => s \notin dead /\ timer[s] # "off"
BY DEF TimerOff, IInv, TypeOK

\* A stream the constructor makes is new, and starts with its PeerConnection and timer.
LEMMA ConstructStep ==
  ASSUME IInv, NEW k \in Kind, NEW u \in Uid, NEW n \in Name, made < MaxStreams,
         NEW dead, dead = Owned(k, u, n) \/ dead = {},
         NEW src \in Stream \cup {NoStream}, k = "pull" => src # NoStream,
         Construct(made + 1, k, u, n, dead, src), by' \in Uid
  PROVE  IInv'
<1> DEFINE new == made + 1
<1>1. new \in Stream /\ new # NoStream /\ made' = new /\ made' \in 0..MaxStreams
  BY StreamAssumption DEF Construct, IInv, TypeOK, Stream, NoStream
<1>2. ~ alive[new] /\ new > made
  BY <1>1 DEF IInv, TypeOK, NotYet
<1>3. \A s \in dead : /\ s \in Stream /\ s = reg[k][n] /\ s # NoStream
                      /\ alive[s] /\ kind[s] = k /\ name[s] = n
  BY OwnedFacts
<1>4. new \notin dead
  BY <1>2, <1>3
<1>5. AnyName \in Name /\ AnyUid \in Uid
  BY StreamAssumption DEF AnyName, AnyUid
<1>6. /\ alive' \in [Stream -> BOOLEAN] /\ kind' \in [Stream -> Kind]
      /\ name' \in [Stream -> Name] /\ uid' \in [Stream -> Uid]
      /\ keyed' \in [Stream -> BOOLEAN] /\ source' \in [Stream -> Stream \cup {NoStream}]
      /\ state' \in [Stream -> PcState]
  BY <1>1, <1>5 DEF Construct, Forget, IInv, TypeOK, Kind, PcState
<1>7. /\ pc' \in [Stream -> {"none", "live", "dying", "gone"}]
      /\ timer' \in [Stream -> {"off", "armed", "fired"}]
  BY <1>1 DEF Construct, StartStream, StartTimer, DestroyPc, TimerOff, IInv, TypeOK
<1>8. reg' \in [Kind -> [Name -> Stream \cup {NoStream}]]
  BY <1>1 DEF Construct, IInv, TypeOK
<1>9. /\ alive'[new] /\ kind'[new] = k /\ name'[new] = n /\ source'[new] = src
      /\ pc'[new] = "live"
  BY <1>1 DEF Construct, StartStream, Forget, DestroyPc
<1>10. \A s \in Stream \ {new} :
        /\ s \notin dead => /\ alive'[s] = alive[s] /\ kind'[s] = kind[s]
                            /\ name'[s] = name[s] /\ keyed'[s] = keyed[s]
                            /\ source'[s] = source[s] /\ pc'[s] = pc[s]
                            /\ timer'[s] = timer[s]
        /\ s \in dead => /\ ~ alive'[s] /\ ~ keyed'[s] /\ pc'[s] = "dying"
                         /\ timer'[s] = "off"
  BY <1>1 DEF Construct, StartStream, StartTimer, Forget, DestroyPc, TimerOff, IInv, TypeOK
<1> HIDE DEF new
<1>11. TypeOK'
  <2>1. ASSUME NEW s \in Stream, alive'[s], kind'[s] = "pull" PROVE source'[s] # NoStream
    <3>1. CASE s = new
      BY <1>9, <2>1, <3>1
    <3>2. CASE s # new
      BY <1>10, <2>1, <3>2 DEF IInv, TypeOK
    <3> QED BY <3>1, <3>2
  <2> QED BY <1>1, <1>6, <1>7, <1>8, <2>1 DEF TypeOK
<1>12. NotYet'
  <2> SUFFICES ASSUME NEW s \in Stream, s > new PROVE ~ alive'[s] /\ ~ keyed'[s]
    BY <1>1 DEF NotYet
  <2>1. s # new /\ s > made
    BY <1>1, <1>2 DEF Stream, IInv, TypeOK
  <2> QED BY <1>10, <2>1 DEF IInv, NotYet
<1>13. NoDanglingEntry'
  <2> SUFFICES ASSUME NEW k2 \in Kind, NEW n2 \in Name, reg'[k2][n2] # NoStream
               PROVE  /\ alive'[reg'[k2][n2]] /\ kind'[reg'[k2][n2]] = k2
                      /\ name'[reg'[k2][n2]] = n2
    BY DEF NoDanglingEntry
  <2>1. CASE k2 = k /\ n2 = n
    <3>1. reg'[k2][n2] = new
      BY <2>1 DEF Construct, IInv, TypeOK, new
    <3> QED BY <1>9, <2>1, <3>1
  <2>2. CASE ~ (k2 = k /\ n2 = n)
    <3>1. reg'[k2][n2] = reg[k2][n2]
      BY <2>2 DEF Construct, IInv, TypeOK
    <3>2. reg[k2][n2] \in Stream
      BY <3>1 DEF IInv, TypeOK
    <3>3. alive[reg[k2][n2]] /\ kind[reg[k2][n2]] = k2 /\ name[reg[k2][n2]] = n2
      BY <3>1 DEF IInv, NoDanglingEntry
    <3>4. reg[k2][n2] \notin dead /\ reg[k2][n2] # new
      BY <1>2, <1>3, <2>2, <3>3
    <3> QED BY <1>10, <3>1, <3>2, <3>3, <3>4
  <2> QED BY <2>1, <2>2
<1>14. NoDanglingCallback'
  BY <1>9, <1>10 DEF IInv, NoDanglingCallback
<1> QED BY <1>11, <1>12, <1>13, <1>14 DEF IInv

\* Every step keeps the invariant.
LEMMA StepInv ==
  ASSUME IInv, [Next]_vars PROVE IInv'
<1>1. CASE UNCHANGED vars
  BY <1>1 DEF vars, IInv, TypeOK, NotYet, NoDanglingEntry, NoDanglingCallback
<1>2. ASSUME NEW u \in Uid, NEW n \in Name, CreatePush(u, n) PROVE IInv'
  BY <1>2, ConstructStep DEF CreatePush, Kind
<1>3. ASSUME NEW u \in Uid, NEW n \in Name, CreatePull(u, n) PROVE IInv'
  <2>1. reg["push"][n] \in Stream \cup {NoStream}
    BY DEF IInv, TypeOK, Kind
  <2> QED BY <1>3, <2>1, ConstructStep DEF CreatePull, Kind
<1>4. ASSUME NEW k \in Kind, NEW u \in Uid, NEW n \in Name, Stop(k, u, n) PROVE IInv'
  <2> DEFINE dead == Owned(k, u, n)
  <2>1. /\ reg' = Erase(k, n, dead) /\ Delete(dead) /\ timer' = TimerOff(dead, {})
        /\ state' = Forget(state, "other", dead) /\ made' = made /\ by' \in Uid
    BY <1>4 DEF Stop
  <2>2. state' \in [Stream -> PcState]
    BY <2>1 DEF Forget, IInv, TypeOK, PcState
  <2> HIDE DEF dead
  <2>3. /\ timer' \in [Stream -> {"off", "armed", "fired"}]
        /\ \A s \in Stream : timer'[s] # "off" => s \notin dead /\ timer[s] # "off"
    BY <2>1, TimerOffFacts
  <2> QED BY <2>1, <2>2, <2>3, DeleteStep DEF dead
<1>5. ASSUME NEW k \in Kind, NEW u \in Uid, NEW n \in Name, NEW parses \in BOOLEAN,
             SetAnswer(k, u, n, parses)
      PROVE  IInv'
  <2>1. PICK s \in Owned(k, u, n) : keyed' = [keyed EXCEPT ![s] = @ \/ parses]
    BY <1>5 DEF SetAnswer, TakeAnswer
  <2>2. s \in Stream /\ alive[s]
    BY OwnedFacts
  <2>3. /\ UNCHANGED <<reg, made, kind, name, uid, alive, state, timer, pc, source>>
        /\ by' \in Uid
    BY <1>5 DEF SetAnswer
  <2>4. /\ keyed' \in [Stream -> BOOLEAN]
        /\ \A t \in Stream : t # s => keyed'[t] = keyed[t]
    BY <2>1, <2>2 DEF IInv, TypeOK
  <2> QED BY <2>2, <2>3, <2>4
      DEF IInv, TypeOK, NotYet, NoDanglingEntry, NoDanglingCallback
<1>6. ASSUME NEW s \in Stream, NEW new \in PcState, ConnectionState(s, new) PROVE IInv'
  <2> DEFINE dead == IF new = "failed" THEN Owned(kind[s], uid[s], name[s]) ELSE {}
             done == IF Settled(new) THEN {s} ELSE {}
  <2>1. /\ reg' = Erase(kind[s], name[s], dead) /\ Delete(dead)
        /\ timer' = TimerOff(dead, done) /\ made' = made /\ by' = uid[s]
        /\ state' = Forget([state EXCEPT ![s] = new], "other", dead)
    BY <1>6 DEF ConnectionState
  <2>2. kind[s] \in Kind /\ name[s] \in Name /\ uid[s] \in Uid
    BY DEF IInv, TypeOK
  <2>3. state' \in [Stream -> PcState]
    BY <2>1 DEF Forget, IInv, TypeOK, PcState
  <2>4. dead = Owned(kind[s], uid[s], name[s]) \/ dead = {}
    OBVIOUS
  <2> HIDE DEF dead, done
  <2>5. /\ timer' \in [Stream -> {"off", "armed", "fired"}]
        /\ \A t \in Stream : timer'[t] # "off" => t \notin dead /\ timer[t] # "off"
    BY <2>1, TimerOffFacts
  <2> QED BY <2>1, <2>2, <2>3, <2>4, <2>5, DeleteStep
<1>7. ASSUME NEW s \in Stream, IceTimeout(s) PROVE IInv'
  <2> DEFINE dead == IF Expired(s) THEN Owned(kind[s], uid[s], name[s]) ELSE {}
  <2>1. /\ reg' = Erase(kind[s], name[s], dead) /\ Delete(dead)
        /\ timer' = [TimerOff(dead, {}) EXCEPT ![s] = IF s \in dead THEN @ ELSE "fired"]
        /\ timer[s] = "armed" /\ made' = made /\ by' = uid[s]
        /\ state' = Forget(state, "other", dead)
    BY <1>7 DEF IceTimeout
  <2>2. kind[s] \in Kind /\ name[s] \in Name /\ uid[s] \in Uid
    BY DEF IInv, TypeOK
  <2>3. state' \in [Stream -> PcState]
    BY <2>1 DEF Forget, IInv, TypeOK, PcState
  <2>4. dead = Owned(kind[s], uid[s], name[s]) \/ dead = {}
    OBVIOUS
  <2> HIDE DEF dead
  <2>5. /\ timer' \in [Stream -> {"off", "armed", "fired"}]
        /\ \A t \in Stream : timer'[t] # "off" => t \notin dead /\ timer[t] # "off"
    BY <2>1 DEF TimerOff, IInv, TypeOK
  <2> QED BY <2>1, <2>2, <2>3, <2>4, <2>5, DeleteStep
<1>8. ASSUME NEW s \in Stream, DestroyTimer(s) PROVE IInv'
  BY <1>8 DEF DestroyTimer, IInv, TypeOK, NotYet, NoDanglingEntry, NoDanglingCallback
<1> QED BY <1>1, <1>2, <1>3, <1>4, <1>5, <1>6, <1>7, <1>8 DEF Next

\* IInv is an invariant of the stream manager.
THEOREM ManagerInvariance == Spec => []IInv
<1>1. Init => IInv
  <2> SUFFICES ASSUME Init PROVE IInv
    OBVIOUS
  <2>1. AnyName \in Name /\ AnyUid \in Uid
    BY StreamAssumption DEF AnyName, AnyUid
  <2>2. TypeOK
    BY <2>1, StreamAssumption DEF Init, TypeOK, Kind, PcState
  <2>3. NotYet /\ NoDanglingEntry /\ NoDanglingCallback
    BY DEF Init, NotYet, NoDanglingEntry, NoDanglingCallback, NoStream
  <2> QED BY <2>2, <2>3 DEF IInv
<1>2. IInv /\ [Next]_vars => IInv'
  BY StepInv
<1> QED BY <1>1, <1>2, PTL DEF Spec

\* Neither the maps of RtcStreamManager, nor a timer, nor a packet that is forwarded
\* ever reaches an object that was deleted.
THEOREM NothingDanglesEver == Spec => []NothingDangles
<1>1. IInv => NothingDangles
  <2> SUFFICES ASSUME IInv PROVE NoDanglingTarget
    BY DEF IInv, NothingDangles
  <2> SUFFICES ASSUME NEW s \in Stream, NEW t \in Stream, Forwards(s, t)
               PROVE  alive[t] /\ kind[t] # kind[s] /\ name[t] = name[s] /\ pc[t] = "live"
    BY DEF NoDanglingTarget
  <2>1. name[s] \in Name /\ kind[s] \in Kind
    BY DEF IInv, TypeOK
  <2>2. PICK k \in Kind : k # kind[s] /\ t = reg[k][name[s]] /\ t # NoStream
    BY <2>1 DEF Forwards, RtpTarget, RtcpTarget, Kind
  <2> QED BY <2>1, <2>2 DEF IInv, NoDanglingEntry, NoDanglingCallback
<1> QED BY <1>1, ManagerInvariance, PTL

\* ~RtcStream() never deletes the PeerConnection whose callback may be running:
\* destroy() leaves that to the 10 ms timer.
THEOREM PcOutlivesItsCallback == Spec => PcOutlivesCallback
<1>1. IInv /\ [Next]_vars => [\A s \in Stream : alive[s] => pc'[s] # "gone"]_vars
  <2> SUFFICES ASSUME IInv, Next, NEW s \in Stream, alive[s] PROVE pc'[s] # "gone"
    OBVIOUS
  <2>1. pc[s] = "live" /\ pc \in [Stream -> {"none", "live", "dying", "gone"}]
    BY DEF IInv, TypeOK, NoDanglingCallback
  <2>2. ASSUME NEW dead, pc' = DestroyPc(dead) PROVE pc'[s] # "gone"
    BY <2>1, <2>2 DEF DestroyPc
  <2>3. ASSUME NEW new, NEW dead, pc' = [DestroyPc(dead) EXCEPT ![new] = "live"]
        PROVE  pc'[s] # "gone"
    BY <2>1, <2>3 DEF DestroyPc
  <2>4. ASSUME NEW u \in Uid, NEW n \in Name, CreatePush(u, n) \/ CreatePull(u, n)
        PROVE  pc'[s] # "gone"
    BY <2>3, <2>4 DEF CreatePush, CreatePull, Construct, StartStream
  <2>5. ASSUME NEW k \in Kind, NEW u \in Uid, NEW n \in Name, Stop(k, u, n)
        PROVE  pc'[s] # "gone"
    BY <2>2, <2>5 DEF Stop, Delete
  <2>6. ASSUME NEW k \in Kind, NEW u \in Uid, NEW n \in Name, NEW parses \in BOOLEAN,
               SetAnswer(k, u, n, parses)
        PROVE  pc'[s] # "gone"
    BY <2>1, <2>6 DEF SetAnswer
  <2>7. ASSUME NEW t \in Stream, NEW new \in PcState, ConnectionState(t, new)
        PROVE  pc'[s] # "gone"
    BY <2>2, <2>7 DEF ConnectionState, Delete
  <2>8. ASSUME NEW t \in Stream, IceTimeout(t) PROVE pc'[s] # "gone"
    BY <2>2, <2>8 DEF IceTimeout, Delete
  <2>9. ASSUME NEW t \in Stream, DestroyTimer(t) PROVE pc'[s] # "gone"
    BY <2>1, <2>9 DEF DestroyTimer
  <2> QED BY <2>4, <2>5, <2>6, <2>7, <2>8, <2>9 DEF Next
<1> QED BY <1>1, ManagerInvariance, PTL DEF Spec, PcOutlivesCallback

\* Deleting by _remove_push_stream() and _remove_pull_stream() ends only streams of u.
LEMMA DeletesOwn ==
  ASSUME IInv, NEW k \in Kind, NEW u, NEW n \in Name,
         NEW dead, dead = Owned(k, u, n) \/ dead = {}, Delete(dead),
         NEW s \in Stream, (alive[s] /\ ~ alive'[s]) \/ keyed'[s] # keyed[s]
  PROVE  uid[s] = u
<1>1. s \in dead
  BY DEF Delete, Forget
<1> QED BY <1>1, OwnedFacts

\* The constructor deletes only streams of u, and answers for none.
LEMMA ConstructsOwn ==
  ASSUME IInv, NEW k \in Kind, NEW u, NEW n \in Name, made < MaxStreams,
         NEW dead, dead = Owned(k, u, n) \/ dead = {}, NEW src,
         Construct(made + 1, k, u, n, dead, src),
         NEW s \in Stream, (alive[s] /\ ~ alive'[s]) \/ keyed'[s] # keyed[s]
  PROVE  uid[s] = u
<1>1. s \in dead
  BY DEF Construct, Forget, IInv, TypeOK
<1> QED BY <1>1, OwnedFacts

\* A request that names another user's stream neither ends it nor gives it an answer.
THEOREM OwnerAlone == Spec => OnlyOwnerTouches
<1> DEFINE Touched(s) == (alive[s] /\ ~ alive'[s]) \/ (keyed'[s] # keyed[s])
<1>1. IInv /\ [Next]_vars => [\A s \in Stream : Touched(s) => by' = uid[s]]_vars
  <2> SUFFICES ASSUME IInv, Next, NEW s \in Stream, Touched(s) PROVE by' = uid[s]
    OBVIOUS
  <2>1. ASSUME NEW u \in Uid, NEW n \in Name, CreatePush(u, n) \/ CreatePull(u, n)
        PROVE  by' = uid[s]
    BY <2>1, ConstructsOwn DEF CreatePush, CreatePull, Kind
  <2>2. ASSUME NEW k \in Kind, NEW u \in Uid, NEW n \in Name, Stop(k, u, n)
        PROVE  by' = uid[s]
    BY <2>2, DeletesOwn DEF Stop
  <2>3. ASSUME NEW k \in Kind, NEW u \in Uid, NEW n \in Name, NEW parses \in BOOLEAN,
               SetAnswer(k, u, n, parses)
        PROVE  by' = uid[s]
    <3>1. PICK t \in Owned(k, u, n) : keyed' = [keyed EXCEPT ![t] = @ \/ parses]
      BY <2>3 DEF SetAnswer, TakeAnswer
    <3>2. s = t
      BY <2>3, <3>1 DEF SetAnswer, IInv, TypeOK
    <3> QED BY <2>3, <3>2, OwnedFacts DEF SetAnswer
  <2>4. ASSUME NEW t \in Stream, NEW new \in PcState, ConnectionState(t, new)
        PROVE  by' = uid[s]
    <3> DEFINE dead == IF new = "failed" THEN Owned(kind[t], uid[t], name[t]) ELSE {}
    <3>1. Delete(dead) /\ by' = uid[t]
      BY <2>4 DEF ConnectionState
    <3>2. dead = Owned(kind[t], uid[t], name[t]) \/ dead = {}
      OBVIOUS
    <3>3. kind[t] \in Kind /\ name[t] \in Name
      BY DEF IInv, TypeOK
    <3> HIDE DEF dead
    <3> QED BY <3>1, <3>2, <3>3, DeletesOwn
  <2>5. ASSUME NEW t \in Stream, IceTimeout(t) PROVE by' = uid[s]
    <3> DEFINE dead == IF Expired(t) THEN Owned(kind[t], uid[t], name[t]) ELSE {}
    <3>1. Delete(dead) /\ by' = uid[t]
      BY <2>5 DEF IceTimeout
    <3>2. dead = Owned(kind[t], uid[t], name[t]) \/ dead = {}
      OBVIOUS
    <3>3. kind[t] \in Kind /\ name[t] \in Name
      BY DEF IInv, TypeOK
    <3> HIDE DEF dead
    <3> QED BY <3>1, <3>2, <3>3, DeletesOwn
  <2>6. ASSUME NEW t \in Stream, DestroyTimer(t) PROVE by' = uid[s]
    BY <2>6 DEF DestroyTimer
  <2> QED BY <2>1, <2>2, <2>3, <2>4, <2>5, <2>6 DEF Next
<1> QED BY <1>1, ManagerInvariance, PTL DEF Spec, OnlyOwnerTouches

-----------------------------------------------------------------------------
(* Recursion *)

\* Induction over the natural numbers, for sets.
LEMMA NaturalsClosed ==
  ASSUME NEW S, 0 \in S, \A n \in Nat : n \in S => n + 1 \in S
  PROVE  \A n \in Nat : n \in S
<1> SUFFICES ASSUME NEW n \in Nat, n \notin S PROVE FALSE
  OBVIOUS
<1> DEFINE T == Nat \ S
<1>1. PICK k \in T : \A j \in T : ~ (<<j, k>> \in OpToRel(<, Nat))
  <2>1. T \subseteq Nat /\ T # {}
    OBVIOUS
  <2> QED BY <2>1, NatLessThanWellFounded, WFMin
<1>2. k \in Nat /\ k \notin S /\ k # 0
  OBVIOUS
<1>3. k - 1 \in Nat /\ (k - 1) + 1 = k /\ k - 1 < k
  BY <1>2
<1>4. k - 1 \in T
  BY <1>2, <1>3
<1>5. <<k - 1, k>> \in OpToRel(<, Nat)
  BY <1>2, <1>3 DEF OpToRel
<1> QED BY <1>1, <1>4, <1>5

\* A loop of N iterations over states of S: what there is, and what behaves like it.
LoopOf(h, N, S, a, g) ==
  h \in [0..N -> S] /\ h[0] = a /\ \A i \in 1..N : h[i] = g[i][h[i - 1]]
LoopLike(f, N, S, a, g) ==
  f[0] = a /\ \A i \in 1..N : f[i - 1] \in S => f[i] = g[i][f[i - 1]]

LEMMA Iteration ==
  ASSUME NEW N \in Nat, NEW S, NEW a \in S, NEW g \in [1..N -> [S -> S]]
  PROVE  \E h : LoopOf(h, N, S, a, g)
<1> DEFINE Loop(h, n) == h \in [0..n -> S] /\ h[0] = a
                         /\ \A i \in 1..n : h[i] = g[i][h[i - 1]]
           T == {n \in Nat : n =< N => \E h : Loop(h, n)}
<1>1. 0 \in T
  <2> DEFINE h == [i \in 0..0 |-> a]
  <2>1. Loop(h, 0)
    OBVIOUS
  <2> QED BY <2>1
<1>2. ASSUME NEW n \in Nat, n \in T PROVE n + 1 \in T
  <2> SUFFICES ASSUME n + 1 =< N PROVE \E h : Loop(h, n + 1)
    OBVIOUS
  <2>1. n =< N
    OBVIOUS
  <2>2. PICK h : Loop(h, n)
    BY <1>2, <2>1
  <2> DEFINE f == [i \in 0..(n + 1) |-> IF i = n + 1 THEN g[n + 1][h[n]] ELSE h[i]]
  <2>3. h[n] \in S /\ n + 1 \in 1..N
    BY <2>2
  <2>4. g[n + 1][h[n]] \in S
    BY <2>3
  <2>5. \A i \in 0..n : h[i] \in S
    BY <2>2
  <2>6. f \in [0..(n + 1) -> S]
    <3>1. ASSUME NEW i \in 0..(n + 1) PROVE (IF i = n + 1 THEN g[n + 1][h[n]] ELSE h[i]) \in S
      BY <2>4, <2>5
    <3> QED BY <3>1
  <2>7. f[0] = a
    BY <2>2
  <2>8. ASSUME NEW i \in 1..(n + 1) PROVE f[i] = g[i][f[i - 1]]
    <3>1. f[i - 1] = h[i - 1]
      OBVIOUS
    <3>2. CASE i = n + 1
      <4>1. f[i] = g[n + 1][h[n]] /\ i - 1 = n
        BY <3>2
      <4> QED BY <3>1, <3>2, <4>1
    <3>3. CASE i # n + 1
      <4>1. i \in 1..n /\ f[i] = h[i]
        BY <3>3
      <4> QED BY <2>2, <3>1, <4>1
    <3> QED BY <3>2, <3>3
  <2> HIDE DEF f
  <2>9. Loop(f, n + 1)
    BY <2>6, <2>7, <2>8
  <2> QED BY <2>9
<1>3. N \in T
  <2> HIDE DEF T
  <2> QED BY <1>1, <1>2, NaturalsClosed
<1> QED BY <1>3 DEF LoopOf

\* ... and everything that is computed like that stays in S.
LEMMA IterationTypes ==
  ASSUME NEW N \in Nat, NEW S, NEW a \in S, NEW g \in [1..N -> [S -> S]],
         NEW f, LoopLike(f, N, S, a, g)
  PROVE  \A i \in 0..N : f[i] \in S
<1> USE DEF LoopLike
<1> DEFINE T == {n \in Nat : n =< N => f[n] \in S}
<1>1. 0 \in T
  OBVIOUS
<1>2. ASSUME NEW n \in Nat, n \in T PROVE n + 1 \in T
  <2> SUFFICES ASSUME n + 1 =< N PROVE f[n + 1] \in S
    OBVIOUS
  <2>1. f[n] \in S
    BY <1>2
  <2>2. n + 1 \in 1..N /\ (n + 1) - 1 = n
    OBVIOUS
  <2>3. f[n + 1] = g[n + 1][f[n]]
    BY <2>1, <2>2
  <2> QED BY <2>1, <2>2, <2>3
<1>3. \A n \in Nat : n \in T
  <2> HIDE DEF T
  <2> QED BY <1>1, <1>2, NaturalsClosed
<1> QED BY <1>3

LEMMA NoWordFacts == NoWord \in Word /\ NoWord \notin Mids
<1>1. NoWord \in Word
  BY SdpAssumption DEF OwnWords
<1>2. NoWord \notin Mids
  BY Zenon DEF NoWord, Mids
<1> QED BY <1>1, <1>2

-----------------------------------------------------------------------------
(* The names of a group *)

LEMMA AddContentNameType ==
  ASSUME NEW s \in Seq(Word), NEW n \in Word
  PROVE  AddContentName(s, n) \in Seq(Word)
BY DEF AddContentName

LEMMA NamesSteps ==
  ASSUME NEW v \in Seq(Word)
  PROVE  \E f : /\ f[0] = << >> /\ ContentNames(v) = f[Len(v)]
                /\ \A i \in 0..Len(v) : f[i] \in Seq(Word)
                /\ \A i \in 1..Len(v) : f[i] = AddContentName(f[i - 1], v[i])
<1> DEFINE N == Len(v)
           S == Seq(Word)
           Body(f) == [i \in 0..N |-> IF i = 0 THEN << >> ELSE AddContentName(f[i - 1], v[i])]
           names == CHOOSE f : f = Body(f)
           g == [i \in 1..N |-> [s \in S |-> AddContentName(s, v[i])]]
<1>1. ContentNames(v) = names[N]
  BY DEF ContentNames
<1>2. N \in Nat /\ << >> \in S
  OBVIOUS
<1>3. g \in [1..N -> [S -> S]]
  <2>1. \A s \in S, i \in 1..N : AddContentName(s, v[i]) \in S
    BY AddContentNameType
  <2> HIDE DEF N, S
  <2> QED BY <2>1
<1> HIDE DEF N, S
<1>4. \A s \in S, i \in 1..N : g[i][s] = AddContentName(s, v[i])
  OBVIOUS
<1> HIDE DEF g
<1>5. PICK h : LoopOf(h, N, S, << >>, g)
  BY <1>2, <1>3, Iteration, Zenon
<1>6. h = Body(h)
  <2>1. ASSUME NEW i \in 1..N PROVE h[i] = AddContentName(h[i - 1], v[i])
    <3>1. h[i - 1] \in S
      BY <1>2, <1>5 DEF LoopOf
    <3> QED BY <1>4, <1>5, <3>1, Zenon DEF LoopOf
  <2>2. ASSUME NEW i \in 0..N
        PROVE  h[i] = IF i = 0 THEN << >> ELSE AddContentName(h[i - 1], v[i])
    <3>1. i = 0 \/ i \in 1..N
      BY <1>2
    <3> QED BY <1>5, <2>1, <3>1, Zenon DEF LoopOf
  <2>3. h = [i \in 0..N |-> h[i]]
    BY <1>5 DEF LoopOf
  <2> QED BY <2>2, <2>3
<1> HIDE DEF Body
<1>7. names = Body(names)
  BY <1>6, Zenon
<1> HIDE DEF names
<1>8. \A i \in 0..N : names[i] = IF i = 0 THEN << >> ELSE AddContentName(names[i - 1], v[i])
  <2>1. \A f : \A i \in 0..N : Body(f)[i] = IF i = 0 THEN << >> ELSE AddContentName(f[i - 1], v[i])
    BY DEF Body
  <2> QED BY <1>7, <2>1, Zenon
<1>9. names[0] = << >>
  <2>1. 0 \in 0..N
    BY <1>2
  <2> QED BY <1>8, <2>1, Zenon
<1>10. \A i \in 1..N : names[i] = AddContentName(names[i - 1], v[i])
  <2>1. \A i \in 1..N : i \in 0..N /\ i # 0
    BY <1>2
  <2> QED BY <1>8, <2>1, Zenon
<1>11. LoopLike(names, N, S, << >>, g)
  BY <1>4, <1>9, <1>10, Zenon DEF LoopLike
<1>12. \A i \in 0..N : names[i] \in S
  BY <1>2, <1>3, <1>11, IterationTypes, Zenon
<1> QED BY <1>1, <1>9, <1>10, <1>12 DEF N, S

-----------------------------------------------------------------------------
(* The first place in a sequence *)

\* The smallest of some natural numbers.
LEMMA Smallest ==
  ASSUME NEW I \in SUBSET Nat, I # {}
  PROVE  Min(I) \in I /\ \A j \in I : Min(I) =< j
<1>1. PICK k \in I : \A j \in I : ~ (<<j, k>> \in OpToRel(<, Nat))
  BY NatLessThanWellFounded, WFMin
<1>2. ASSUME NEW j \in I PROVE k =< j
  <2>1. ~ (j < k)
    BY <1>1 DEF OpToRel
  <2> QED BY <2>1
<1> QED BY <1>1, <1>2 DEF Min

\* What SelectInSeq() finds, if I are the places where its test holds.
Found(at, I) == /\ at = 0 <=> I = {}
                /\ at # 0 => at \in I /\ \A j \in I : at =< j

LEMMA SelectFacts ==
  ASSUME NEW n \in Nat, NEW I \in SUBSET (1..n)
  PROVE  Found(IF I # {} THEN Min(I) ELSE 0, I)
<1>1. I \in SUBSET Nat /\ 0 \notin I
  OBVIOUS
<1>2. CASE I = {}
  BY <1>2 DEF Found
<1>3. CASE I # {}
  <2>1. Min(I) \in I /\ \A j \in I : Min(I) =< j
    BY <1>1, <1>3, Smallest
  <2>2. Min(I) # 0
    BY <1>1, <2>1
  <2> QED BY <1>3, <2>1, <2>2 DEF Found
<1> QED BY <1>2, <1>3

\* The SSRC among those noted so far, and the track among those created.
LEMMA SelectSsrc ==
  ASSUME NEW S, NEW s \in Seq(S), NEW x
  PROVE  Found(SelectInSeq(s, LAMBDA e : e.ssrc = x), {i \in 1..Len(s) : s[i].ssrc = x})
<1>1. {i \in 1..Len(s) : s[i].ssrc = x} \in SUBSET (1..Len(s)) /\ Len(s) \in Nat
  OBVIOUS
<1> QED BY <1>1, SelectFacts DEF SelectInSeq

LEMMA SelectTrack ==
  ASSUME NEW S, NEW s \in Seq(S), NEW x
  PROVE  Found(SelectInSeq(s, LAMBDA t : t.id = x), {i \in 1..Len(s) : s[i].id = x})
<1>1. {i \in 1..Len(s) : s[i].id = x} \in SUBSET (1..Len(s)) /\ Len(s) \in Nat
  OBVIOUS
<1> QED BY <1>1, SelectFacts DEF SelectInSeq

LEMMA SelectMid ==
  ASSUME NEW S, NEW s \in Seq(S), NEW x
  PROVE  Found(SelectInSeq(s, LAMBDA c : c.mid = x), {i \in 1..Len(s) : s[i].mid = x})
<1>1. {i \in 1..Len(s) : s[i].mid = x} \in SUBSET (1..Len(s)) /\ Len(s) \in Nat
  OBVIOUS
<1> QED BY <1>1, SelectFacts DEF SelectInSeq

LEMMA SelectBundle ==
  ASSUME NEW S, NEW s \in Seq(S)
  PROVE  Found(SelectInSeq(s, LAMBDA l : l.k = "bundle"), {i \in 1..Len(s) : s[i].k = "bundle"})
<1>1. {i \in 1..Len(s) : s[i].k = "bundle"} \in SUBSET (1..Len(s)) /\ Len(s) \in Nat
  OBVIOUS
<1> QED BY <1>1, SelectFacts DEF SelectInSeq

\* The first name of a group stays the first, and no name is lost.
LEMMA AddContentNameFacts ==
  ASSUME NEW s \in Seq(Word), NEW n \in Word
  PROVE  /\ Contains(AddContentName(s, n), n)
         /\ \A x : Contains(s, x) => Contains(AddContentName(s, n), x)
         /\ s # << >> => AddContentName(s, n)[1] = s[1] /\ AddContentName(s, n) # << >>
<1>1. CASE Contains(s, n)
  <2>1. s # << >>
    BY <1>1 DEF Contains
  <2> QED BY <1>1, <2>1 DEF AddContentName
<1>2. CASE ~ Contains(s, n)
  <2>1. AddContentName(s, n) = Append(s, n)
    BY <1>2 DEF AddContentName
  <2>2. Len(Append(s, n)) = Len(s) + 1 /\ Append(s, n)[Len(s) + 1] = n /\ Len(s) \in Nat
        /\ \A i \in 1..Len(s) : Append(s, n)[i] = s[i]
    OBVIOUS
  <2>3. Contains(Append(s, n), n)
    BY <2>2 DEF Contains
  <2>4. ASSUME NEW x, Contains(s, x) PROVE Contains(Append(s, n), x)
    <3>1. PICK i \in 1..Len(s) : s[i] = x
      BY <2>4 DEF Contains
    <3>2. i \in 1..(Len(s) + 1) /\ Append(s, n)[i] = x
      BY <2>2, <3>1
    <3> QED BY <2>2, <3>2 DEF Contains
  <2>5. s # << >> => Append(s, n)[1] = s[1] /\ Append(s, n) # << >>
    BY <2>2
  <2> QED BY <2>1, <2>3, <2>4, <2>5
<1> QED BY <1>1, <1>2

LEMMA NamesFacts ==
  ASSUME NEW v \in Seq(Word), v # << >>
  PROVE  /\ ContentNames(v) \in Seq(Word) /\ ContentNames(v) # << >>
         /\ ContentNames(v)[1] = v[1]
         /\ \A i \in 1..Len(v) : Contains(ContentNames(v), v[i])
<1>1. PICK f : /\ f[0] = << >> /\ ContentNames(v) = f[Len(v)]
               /\ \A i \in 0..Len(v) : f[i] \in Seq(Word)
               /\ \A i \in 1..Len(v) : f[i] = AddContentName(f[i - 1], v[i])
  BY NamesSteps
<1> DEFINE P(n) == /\ f[n] # << >> /\ f[n][1] = v[1]
                   /\ \A i \in 1..n : Contains(f[n], v[i])
           T == {n \in Nat : n + 1 =< Len(v) => P(n + 1)}
<1>2. Len(v) \in Nat /\ Len(v) >= 1 /\ \A i \in 1..Len(v) : v[i] \in Word
  OBVIOUS
<1>3. 0 \in T
  <2>1. f[1] = AddContentName(<< >>, v[1]) /\ v[1] \in Word /\ << >> \in Seq(Word)
    BY <1>1, <1>2
  <2>2. f[1] = <<v[1]>> /\ Contains(f[1], v[1])
    <3>1. AddContentName(<< >>, v[1]) = <<v[1]>>
      BY DEF AddContentName, Contains
    <3>2. Contains(<<v[1]>>, v[1])
      BY DEF Contains
    <3> QED BY <2>1, <3>1, <3>2
  <2>3. f[1] # << >> /\ f[1][1] = v[1]
    BY <2>2
  <2>4. \A i \in 1..1 : i = 1
    OBVIOUS
  <2>5. P(1)
    BY <2>2, <2>3, <2>4, Zenon
  <2> QED BY <2>5
<1>4. ASSUME NEW n \in Nat, n \in T PROVE n + 1 \in T
  <2> SUFFICES ASSUME (n + 1) + 1 =< Len(v) PROVE P((n + 1) + 1)
    OBVIOUS
  <2>1. PICK k : k = n + 1
    OBVIOUS
  <2>2. k \in 0..Len(v) /\ k + 1 \in 1..Len(v) /\ (k + 1) - 1 = k /\ k \in Nat
    BY <1>2, <2>1
  <2>3. P(k)
    BY <1>4, <2>1, <2>2
  <2>4. f[k + 1] = AddContentName(f[k], v[k + 1]) /\ f[k] \in Seq(Word) /\ v[k + 1] \in Word
    BY <1>1, <1>2, <2>2
  <2>5. /\ Contains(f[k + 1], v[k + 1])
        /\ \A x : Contains(f[k], x) => Contains(f[k + 1], x)
        /\ f[k + 1][1] = f[k][1] /\ f[k + 1] # << >>
    BY <2>3, <2>4, AddContentNameFacts
  <2>6. ASSUME NEW i \in 1..(k + 1) PROVE Contains(f[k + 1], v[i])
    <3>1. i = k + 1 \/ i \in 1..k
      BY <2>2
    <3> QED BY <2>3, <2>5, <3>1
  <2>7. P(k + 1)
    BY <2>3, <2>5, <2>6
  <2> QED BY <2>1, <2>7
<1>5. \A n \in Nat : n \in T
  <2> HIDE DEF T
  <2> QED BY <1>3, <1>4, NaturalsClosed
<1>6. P(Len(v))
  <2>1. Len(v) - 1 \in Nat /\ (Len(v) - 1) + 1 = Len(v)
    BY <1>2
  <2>2. Len(v) - 1 \in T
    BY <1>5, <2>1
  <2> QED BY <1>2, <2>1, <2>2
<1>7. f[Len(v)] \in Seq(Word)
  BY <1>1, <1>2
<1> QED BY <1>1, <1>6, <1>7

-----------------------------------------------------------------------------
(* One line of an answer *)

InfoSet == [ssrc : Word, cname : Word, stream : Word, track : Word]
StSet == [ok : BOOLEAN, media : Word, contents : Seq(Mids), groups : Seq(Seq(Word)),
          td : [Mids -> TdSet], info : [Mids -> Seq(InfoSet)], ssrcGroups : Seq(Seq(Word))]

\* A line that has m= in it only if it starts a section, and the sections that were
\* started: each has its name in its transport.
PlainLine(l) == HasM(l) => l.k = "m"
Entered(st) == \A x \in Mids : Contains(st.contents, x) => st.td[x].mid = x

LEMMA ContainsAppend ==
  ASSUME NEW S, NEW s \in Seq(S), NEW y \in S, NEW x
  PROVE  Contains(Append(s, y), x) <=> Contains(s, x) \/ x = y
<1>1. Len(Append(s, y)) = Len(s) + 1 /\ Append(s, y)[Len(s) + 1] = y /\ Len(s) \in Nat
      /\ \A i \in 1..Len(s) : Append(s, y)[i] = s[i]
  OBVIOUS
<1>2. \A i \in 1..(Len(s) + 1) : i \in 1..Len(s) \/ i = Len(s) + 1
  BY <1>1
<1>3. \A i \in 1..Len(s) : i \in 1..(Len(s) + 1)
  BY <1>1
<1>4. Len(s) + 1 \in 1..(Len(s) + 1)
  BY <1>1
<1> QED BY <1>1, <1>2, <1>3, <1>4 DEF Contains

\* The state after a line with m= and after a=group:BUNDLE.
LEMMA HeadCases ==
  ASSUME NEW st \in StSet, NEW l \in LineSet
  PROVE  \/ l.k = "bundle" /\ l.v # << >>
            /\ Head_(st, l) = [st EXCEPT !.groups = Append(@, ContentNames(l.v))]
         \/ HasM(l) /\ Head_(st, l) = [st EXCEPT !.ok = FALSE]
         \/ HasM(l) /\ (l.k = "m" => Len(l.v) >= 3) /\ MediaOf(l) \in Mids
            /\ Head_(st, l) = [st EXCEPT !.media = MediaOf(l), !.contents = Append(@, MediaOf(l)),
                                         !.td[MediaOf(l)].mid = MediaOf(l)]
         \/ HasM(l) /\ (l.k = "m" => Len(l.v) >= 3) /\ MediaOf(l) \notin Mids
            /\ Head_(st, l) = [st EXCEPT !.media = MediaOf(l)]
         \/ ~ HasM(l) /\ (l.k = "bundle" => l.v = << >>) /\ Head_(st, l) = st
<1>1. CASE l.k = "bundle" /\ l.v # << >>
  BY <1>1 DEF Head_
<1>2. HasM(l) => l.k # "bundle"
  BY DEF HasM
<1>3. CASE HasM(l)
  <2>1. l.v \in Seq(Word)
    BY DEF LineSet
  <2>2. Items(l) \in Int /\ (l.k = "m" => Items(l) = Len(l.v))
    <3>1. PICK n \in Nat : n = Len(l.v)
      BY <2>1
    <3>2. Items(l) = CASE l.k \in {"ufrag", "pwd"} -> 1 [] l.k = "ssrc" -> n - 1 [] OTHER -> n
      BY <3>1 DEF Items
    <3>3. CASE l.k \in {"ufrag", "pwd"}
      BY <3>2, <3>3
    <3>4. CASE l.k = "ssrc"
      BY <3>1, <3>2, <3>4
    <3>5. CASE l.k \notin {"ufrag", "pwd", "ssrc"}
      BY <3>1, <3>2, <3>5
    <3> QED BY <3>3, <3>4, <3>5
  <2>3. CASE Items(l) < 3
    <3>1. ~ (Items(l) >= 3)
      BY <2>2, <2>3
    <3> QED BY <1>2, <1>3, <2>3, <3>1, Zenon DEF Head_
  <2>4. CASE Items(l) >= 3
    <3>1. ~ (Items(l) < 3)
      BY <2>2, <2>4
    <3>2. CASE MediaOf(l) \in Mids
      BY <1>2, <1>3, <2>2, <2>4, <3>1, <3>2 DEF Head_
    <3>3. CASE MediaOf(l) \notin Mids
      BY <1>2, <1>3, <2>2, <2>4, <3>1, <3>3 DEF Head_
    <3> QED BY <3>2, <3>3
  <2> QED BY <2>2, <2>3, <2>4
<1>4. CASE ~ HasM(l) /\ ~ (l.k = "bundle" /\ l.v # << >>)
  BY <1>4 DEF Head_
<1> QED BY <1>1, <1>3, <1>4

\* What it is, and that it is a state.
HeadReads(st, l, h) ==
  /\ l.k = "m" => Len(l.v) >= 3
  /\ h.media = IF l.k = "m" THEN l.v[1] ELSE st.media
  /\ h.contents = IF l.k = "m" /\ l.v[1] \in Mids THEN Append(st.contents, l.v[1])
                  ELSE st.contents
  /\ h.groups = IF l.k = "bundle" /\ l.v # << >>
                THEN Append(st.groups, ContentNames(l.v)) ELSE st.groups
  /\ h.td = IF l.k = "m" /\ l.v[1] \in Mids
            THEN [st.td EXCEPT ![l.v[1]].mid = l.v[1]] ELSE st.td

LEMMA HeadFacts ==
  ASSUME NEW st \in StSet, NEW l \in LineSet, NEW h, h = Head_(st, l)
  PROVE  /\ h \in StSet /\ h.info = st.info /\ h.ssrcGroups = st.ssrcGroups
         /\ h.ok => st.ok /\ (PlainLine(l) => HeadReads(st, l, h))
         /\ Entered(st) => Entered(h)
<1>1. l.v \in Seq(Word) /\ l.k \in Word
  BY DEF LineSet
<1> DEFINE x == MediaOf(l)
<1>2. PlainLine(l) /\ HasM(l) => l.k = "m" /\ x = l.v[1]
  BY DEF PlainLine, MediaOf
<1>3. ASSUME l.k = "m" => Len(l.v) >= 3 PROVE x \in Word
  BY <1>1, <1>3 DEF MediaOf
<1>4. l.k = "m" => HasM(l)
  BY DEF HasM
<1>5. CASE l.k = "bundle" /\ l.v # << >> /\ h = [st EXCEPT !.groups = Append(@, ContentNames(l.v))]
  <2>1. ContentNames(l.v) \in Seq(Word)
    BY <1>1, <1>5, NamesFacts
  <2>2. Append(st.groups, ContentNames(l.v)) \in Seq(Seq(Word))
    BY <2>1 DEF StSet
  <2>3. h \in StSet
    BY <1>5, <2>2 DEF StSet
  <2>4. /\ h.info = st.info /\ h.ssrcGroups = st.ssrcGroups /\ h.ok = st.ok
        /\ h.media = st.media /\ h.contents = st.contents /\ h.td = st.td
        /\ h.groups = Append(st.groups, ContentNames(l.v))
    BY <1>5 DEF StSet
  <2>5. HeadReads(st, l, h)
    BY <1>5, <2>4 DEF HeadReads
  <2> QED BY <2>3, <2>4, <2>5 DEF Entered
<1>6. CASE HasM(l) /\ h = [st EXCEPT !.ok = FALSE]
  BY <1>6 DEF StSet, Entered
<1>7. CASE /\ HasM(l) /\ (l.k = "m" => Len(l.v) >= 3) /\ x \in Mids
           /\ h = [st EXCEPT !.media = x, !.contents = Append(@, x), !.td[x].mid = x]
  <2>1. x \in Word
    BY <1>3, <1>7
  <2>2. st.td \in [Mids -> TdSet] /\ st.contents \in Seq(Mids)
    BY DEF StSet
  <2>3. PICK td : td = [st.td EXCEPT ![x].mid = x]
    OBVIOUS
  <2>4. [st.td[x] EXCEPT !.mid = x] \in TdSet /\ [st.td[x] EXCEPT !.mid = x].mid = x
    BY <1>7, <2>1, <2>2 DEF TdSet
  <2>5. td \in [Mids -> TdSet] /\ td[x].mid = x /\ \A y \in Mids : y # x => td[y] = st.td[y]
    BY <1>7, <2>2, <2>3, <2>4
  <2>6. h = [st EXCEPT !.media = x, !.contents = Append(st.contents, x), !.td = td]
    BY <1>7, <2>3
  <2>7. Append(st.contents, x) \in Seq(Mids)
    BY <1>7, <2>2
  <2>8. h \in StSet
    BY <2>1, <2>5, <2>6, <2>7 DEF StSet
  <2>9. /\ h.info = st.info /\ h.ssrcGroups = st.ssrcGroups /\ h.ok = st.ok
        /\ h.media = x /\ h.contents = Append(st.contents, x)
        /\ h.td = td /\ h.groups = st.groups
    BY <2>6 DEF StSet
  <2>10. ASSUME PlainLine(l) PROVE HeadReads(st, l, h)
    <3>1. l.k = "m" /\ x = l.v[1] /\ l.k # "bundle"
      BY <1>2, <1>7, <2>10
    <3> HIDE DEF x
    <3> QED BY <1>7, <2>3, <2>9, <3>1 DEF HeadReads
  <2>11. ASSUME Entered(st) PROVE Entered(h)
    <3>1. ASSUME NEW y \in Mids, Contains(h.contents, y) PROVE h.td[y].mid = y
      <4>1. Contains(st.contents, y) \/ y = x
        BY <1>7, <2>2, <2>9, <3>1, ContainsAppend
      <4> HIDE DEF x
      <4> QED BY <2>5, <2>9, <2>11, <4>1 DEF Entered
    <3> QED BY <3>1 DEF Entered
  <2> QED BY <2>8, <2>9, <2>10, <2>11
<1>8. CASE /\ HasM(l) /\ (l.k = "m" => Len(l.v) >= 3) /\ x \notin Mids
           /\ h = [st EXCEPT !.media = x]
  <2>1. x \in Word
    BY <1>3, <1>8
  <2>2. h \in StSet
    BY <1>8, <2>1 DEF StSet
  <2>3. /\ h.info = st.info /\ h.ssrcGroups = st.ssrcGroups /\ h.ok = st.ok
        /\ h.media = x /\ h.contents = st.contents /\ h.td = st.td /\ h.groups = st.groups
    BY <1>8 DEF StSet
  <2>4. PlainLine(l) => HeadReads(st, l, h)
    BY <1>2, <1>8, <2>3 DEF HeadReads
  <2> QED BY <2>2, <2>3, <2>4 DEF Entered
<1>9. CASE ~ HasM(l) /\ (l.k = "bundle" => l.v = << >>) /\ h = st
  BY <1>4, <1>9 DEF HeadReads
<1> QED BY <1>5, <1>6, <1>7, <1>8, <1>9, HeadCases, Zenon

\* parse_transport_info(): what it takes from a line, and what it leaves alone.
Kept(t, st) == /\ t.info = st.info /\ t.ssrcGroups = st.ssrcGroups /\ t.media = st.media
               /\ t.contents = st.contents /\ t.groups = st.groups

LEMMA TransportCases ==
  ASSUME NEW st \in StSet, NEW l \in LineSet, NEW m
  PROVE  \/ l.k \in {"ufrag", "pwd"} /\ Len(l.v) # 1
            /\ TransportInfo(st, l, m) = [st EXCEPT !.ok = FALSE]
         \/ l.k = "ufrag" /\ Len(l.v) = 1
            /\ TransportInfo(st, l, m) = [st EXCEPT !.td[m].ufrag = l.v[1]]
         \/ l.k = "pwd" /\ Len(l.v) = 1
            /\ TransportInfo(st, l, m) = [st EXCEPT !.td[m].pwd = l.v[1]]
         \/ l.k = "fingerprint" /\ (Len(l.v) # 2 \/ ~ IsDigest(l.v))
            /\ TransportInfo(st, l, m) = [st EXCEPT !.ok = FALSE]
         \/ l.k = "fingerprint" /\ Len(l.v) = 2 /\ IsDigest(l.v)
            /\ TransportInfo(st, l, m) = [st EXCEPT !.td[m] = [@ EXCEPT !.alg = Lower[l.v[1]], !.fp = l.v[2]]]
         \/ l.k \notin {"ufrag", "pwd", "fingerprint"} /\ TransportInfo(st, l, m) = st
<1>1. CASE l.k \in {"ufrag", "pwd"} /\ Len(l.v) # 1
  BY <1>1 DEF TransportInfo
<1>2. CASE l.k = "ufrag" /\ Len(l.v) = 1
  BY <1>2 DEF TransportInfo
<1>3. CASE l.k = "pwd" /\ Len(l.v) = 1
  BY <1>3 DEF TransportInfo
<1>4. CASE l.k = "fingerprint" /\ (Len(l.v) # 2 \/ ~ IsDigest(l.v))
  BY <1>4 DEF TransportInfo
<1>5. CASE l.k = "fingerprint" /\ Len(l.v) = 2 /\ IsDigest(l.v)
  BY <1>5 DEF TransportInfo
<1>6. CASE l.k \notin {"ufrag", "pwd", "fingerprint"}
  BY <1>6 DEF TransportInfo
<1> QED BY <1>1, <1>2, <1>3, <1>4, <1>5, <1>6, Zenon

TdAfter(td, l, m, new) ==
  \A x \in Mids :
    /\ new[x].mid = td[x].mid
    /\ new[x].ufrag = IF l.k = "ufrag" /\ x = m THEN l.v[1] ELSE td[x].ufrag
    /\ new[x].pwd = IF l.k = "pwd" /\ x = m THEN l.v[1] ELSE td[x].pwd
    /\ new[x].fp = IF l.k = "fingerprint" /\ x = m THEN l.v[2] ELSE td[x].fp

LEMMA TransportFacts ==
  ASSUME NEW st \in StSet, NEW l \in LineSet, NEW m \in Mids,
         NEW t, t = TransportInfo(st, l, m)
  PROVE  /\ t \in StSet /\ Kept(t, st)
         /\ t.ok => /\ st.ok
                    /\ l.k \in {"ufrag", "pwd"} => Len(l.v) = 1
                    /\ l.k = "fingerprint" => Len(l.v) = 2 /\ IsDigest(l.v)
                    /\ TdAfter(st.td, l, m, t.td)
<1>1. l.v \in Seq(Word)
  BY DEF LineSet
<1>2. st.td \in [Mids -> TdSet] /\ st.td[m] \in TdSet
  BY DEF StSet
<1>3. ASSUME NEW d \in TdSet, t = [st EXCEPT !.td = [st.td EXCEPT ![m] = d]]
      PROVE  t \in StSet /\ Kept(t, st) /\ t.ok = st.ok /\ t.td = [st.td EXCEPT ![m] = d]
  <2>1. [st.td EXCEPT ![m] = d] \in [Mids -> TdSet]
    BY <1>2
  <2> QED BY <1>3, <2>1 DEF StSet, Kept
<1>4. CASE t = [st EXCEPT !.ok = FALSE]
  BY <1>4 DEF StSet, Kept
<1>5. CASE l.k = "ufrag" /\ Len(l.v) = 1 /\ t = [st EXCEPT !.td[m].ufrag = l.v[1]]
  <2> DEFINE d == [st.td[m] EXCEPT !.ufrag = l.v[1]]
  <2>1. d \in TdSet
    BY <1>1, <1>2, <1>5 DEF TdSet
  <2>2. /\ d.ufrag = l.v[1] /\ d.mid = st.td[m].mid /\ d.pwd = st.td[m].pwd
        /\ d.fp = st.td[m].fp
    BY <1>2 DEF TdSet
  <2>3. t = [st EXCEPT !.td = [st.td EXCEPT ![m] = d]]
    BY <1>5
  <2> HIDE DEF d
  <2>4. t \in StSet /\ Kept(t, st) /\ t.ok = st.ok /\ t.td = [st.td EXCEPT ![m] = d]
    BY <1>3, <2>1, <2>3
  <2>5. TdAfter(st.td, l, m, t.td)
    BY <1>2, <1>5, <2>2, <2>4 DEF TdAfter
  <2> QED BY <1>5, <2>4, <2>5
<1>6. CASE l.k = "pwd" /\ Len(l.v) = 1 /\ t = [st EXCEPT !.td[m].pwd = l.v[1]]
  <2> DEFINE d == [st.td[m] EXCEPT !.pwd = l.v[1]]
  <2>1. d \in TdSet
    BY <1>1, <1>2, <1>6 DEF TdSet
  <2>2. /\ d.ufrag = st.td[m].ufrag /\ d.mid = st.td[m].mid /\ d.pwd = l.v[1]
        /\ d.fp = st.td[m].fp
    BY <1>2 DEF TdSet
  <2>3. t = [st EXCEPT !.td = [st.td EXCEPT ![m] = d]]
    BY <1>6
  <2> HIDE DEF d
  <2>4. t \in StSet /\ Kept(t, st) /\ t.ok = st.ok /\ t.td = [st.td EXCEPT ![m] = d]
    BY <1>3, <2>1, <2>3
  <2>5. TdAfter(st.td, l, m, t.td)
    BY <1>2, <1>6, <2>2, <2>4 DEF TdAfter
  <2> QED BY <1>6, <2>4, <2>5
<1>7. CASE /\ l.k = "fingerprint" /\ Len(l.v) = 2 /\ IsDigest(l.v)
           /\ t = [st EXCEPT !.td[m] = [@ EXCEPT !.alg = Lower[l.v[1]], !.fp = l.v[2]]]
  <2> DEFINE d == [st.td[m] EXCEPT !.alg = Lower[l.v[1]], !.fp = l.v[2]]
  <2>1. d \in TdSet
    <3>1. Lower[l.v[1]] \in Word /\ l.v[2] \in Word \cup {Null}
      BY <1>1, <1>7, SdpAssumption DEF IsDigest
    <3> QED BY <1>2, <3>1 DEF TdSet
  <2>2. /\ d.ufrag = st.td[m].ufrag /\ d.mid = st.td[m].mid /\ d.pwd = st.td[m].pwd
        /\ d.fp = l.v[2]
    BY <1>2 DEF TdSet
  <2>3. t = [st EXCEPT !.td = [st.td EXCEPT ![m] = d]]
    BY <1>7
  <2> HIDE DEF d
  <2>4. t \in StSet /\ Kept(t, st) /\ t.ok = st.ok /\ t.td = [st.td EXCEPT ![m] = d]
    BY <1>3, <2>1, <2>3
  <2>5. TdAfter(st.td, l, m, t.td)
    BY <1>2, <1>7, <2>2, <2>4 DEF TdAfter
  <2> QED BY <1>7, <2>4, <2>5
<1>8. CASE l.k \notin {"ufrag", "pwd", "fingerprint"} /\ t = st
  BY <1>8 DEF Kept, TdAfter
<1>9. \/ t = [st EXCEPT !.ok = FALSE]
      \/ l.k = "ufrag" /\ Len(l.v) = 1 /\ t = [st EXCEPT !.td[m].ufrag = l.v[1]]
      \/ l.k = "pwd" /\ Len(l.v) = 1 /\ t = [st EXCEPT !.td[m].pwd = l.v[1]]
      \/ /\ l.k = "fingerprint" /\ Len(l.v) = 2 /\ IsDigest(l.v)
         /\ t = [st EXCEPT !.td[m] = [@ EXCEPT !.alg = Lower[l.v[1]], !.fp = l.v[2]]]
      \/ l.k \notin {"ufrag", "pwd", "fingerprint"} /\ t = st
  BY TransportCases, Zenon
<1> QED BY <1>4, <1>5, <1>6, <1>7, <1>8, <1>9

\* parse_ssrc_group_info()
IsGroup(l) == l.k = "ssrc-group" /\ Len(l.v) >= 2 /\ \A i \in 2..Len(l.v) : l.v[i] \in Ssrc

LEMMA GroupFacts ==
  ASSUME NEW st \in StSet, NEW l \in LineSet, NEW t, t = SsrcGroupInfo(st, l)
  PROVE  /\ t \in StSet /\ t.ok = st.ok /\ t.info = st.info /\ t.media = st.media
         /\ t.contents = st.contents /\ t.groups = st.groups /\ t.td = st.td
         /\ t.ssrcGroups = IF IsGroup(l) THEN Append(st.ssrcGroups, l.v) ELSE st.ssrcGroups
<1>1. l.v \in Seq(Word)
  BY DEF LineSet
<1>2. CASE IsGroup(l)
  <2>1. t = [st EXCEPT !.ssrcGroups = Append(st.ssrcGroups, l.v)]
    BY <1>2 DEF SsrcGroupInfo, IsGroup
  <2>2. Append(st.ssrcGroups, l.v) \in Seq(Seq(Word))
    BY <1>1 DEF StSet
  <2> QED BY <1>2, <2>1, <2>2 DEF StSet
<1>3. CASE ~ IsGroup(l)
  BY <1>3 DEF SsrcGroupInfo, IsGroup
<1> QED BY <1>2, <1>3

\* parse_ssrc_info(): the entry of an SSRC, and the entries there are afterwards.
NewInfo(x) == [ssrc |-> x, cname |-> NoWord, stream |-> NoWord, track |-> NoWord]

HasSsrc(infos, x) == \E i \in 1..Len(infos) : infos[i].ssrc = x

LEMMA WithSsrcFacts ==
  ASSUME NEW infos \in Seq(InfoSet), NEW x \in Word, NEW all, all = WithSsrc(infos, x)
  PROVE  /\ all \in Seq(InfoSet) /\ HasSsrc(all, x)
         /\ all = infos \/ (all = Append(infos, NewInfo(x)) /\ ~ HasSsrc(infos, x))
<1>1. Found(SsrcAt(infos, x), {i \in 1..Len(infos) : infos[i].ssrc = x})
  BY SelectSsrc DEF SsrcAt
<1>2. CASE SsrcAt(infos, x) # 0
  <2>1. all = infos
    BY <1>2 DEF WithSsrc
  <2> QED BY <1>1, <1>2, <2>1 DEF Found, HasSsrc
<1>3. CASE SsrcAt(infos, x) = 0
  <2>1. all = Append(infos, NewInfo(x))
    BY <1>3 DEF WithSsrc, NewInfo
  <2>2. ~ HasSsrc(infos, x)
    BY <1>1, <1>3 DEF Found, HasSsrc
  <2>3. NewInfo(x) \in InfoSet /\ NewInfo(x).ssrc = x
    <3>1. NoWord \in Word
      BY SdpAssumption DEF OwnWords
    <3> QED BY <3>1 DEF NewInfo, InfoSet
  <2>4. Append(infos, NewInfo(x)) \in Seq(InfoSet) /\ Len(infos) \in Nat
        /\ Len(Append(infos, NewInfo(x))) = Len(infos) + 1
        /\ Append(infos, NewInfo(x))[Len(infos) + 1] = NewInfo(x)
    BY <2>3
  <2>5. Len(infos) + 1 \in 1..Len(all) /\ all[Len(infos) + 1].ssrc = x
    BY <2>1, <2>3, <2>4
  <2>6. HasSsrc(all, x)
    BY <2>5 DEF HasSsrc
  <2> QED BY <2>1, <2>2, <2>4, <2>6
<1> QED BY <1>2, <1>3

LEMMA EntryFacts ==
  ASSUME NEW e \in InfoSet, NEW v \in Seq(Word), IsSsrc(v), NEW d, d = SsrcEntry(e, v)
  PROVE  /\ d \in InfoSet /\ d.ssrc = e.ssrc
         /\ d.cname = IF v[2] = "cname" THEN v[3] ELSE e.cname
         /\ d.stream = IF v[2] = "msid" THEN v[3] ELSE e.stream
         /\ d.track = IF v[2] = "msid" /\ Len(v) = 4 THEN v[4] ELSE e.track
<1>1. Len(v) \in Nat /\ Len(v) >= 3 /\ v[3] \in Word /\ (Len(v) = 4 => v[4] \in Word)
      /\ (v[2] = "msid" => Len(v) = 3 \/ Len(v) = 4)
  <2>1. Len(v) \in Nat /\ Len(v) >= 3 /\ (v[2] = "msid" => Len(v) =< 4)
    BY DEF IsSsrc
  <2>2. \A i \in 1..Len(v) : v[i] \in Word
    OBVIOUS
  <2>3. PICK n : n = Len(v)
    OBVIOUS
  <2>4. n \in Nat /\ n >= 3 /\ (v[2] = "msid" => n =< 4)
    BY <2>1, <2>3
  <2>5. v[2] = "msid" => n = 3 \/ n = 4
    BY <2>4
  <2>6. 3 \in 1..n /\ (n = 4 => 4 \in 1..n)
    BY <2>4
  <2> QED BY <2>1, <2>2, <2>3, <2>5, <2>6
<1>2. CASE v[2] = "cname"
  <2>1. d = [e EXCEPT !.cname = v[3]]
    BY <1>2 DEF SsrcEntry
  <2> QED BY <1>1, <1>2, <2>1 DEF InfoSet
<1>3. CASE v[2] = "msid" /\ Len(v) = 3
  <2>1. d = [e EXCEPT !.stream = v[3]]
    BY <1>3 DEF SsrcEntry
  <2> QED BY <1>1, <1>3, <2>1 DEF InfoSet
<1>4. CASE v[2] = "msid" /\ Len(v) = 4
  <2>1. d = [e EXCEPT !.stream = v[3], !.track = v[4]]
    BY <1>4 DEF SsrcEntry
  <2> QED BY <1>1, <1>4, <2>1 DEF InfoSet
<1>5. CASE v[2] # "cname" /\ v[2] # "msid"
  <2>1. d = e
    BY <1>5 DEF SsrcEntry
  <2> QED BY <1>5, <2>1
<1> QED BY <1>1, <1>2, <1>3, <1>4, <1>5

LEMMA InfoFacts ==
  ASSUME NEW infos \in Seq(InfoSet), NEW v \in Seq(Word), IsSsrc(v)
  PROVE  LET all == WithSsrc(infos, v[1])
             new == InfoAfter(infos, v) IN
         \E at \in 1..Len(all) :
           /\ all[at].ssrc = v[1] /\ new \in Seq(InfoSet) /\ Len(new) = Len(all)
           /\ new[at] = SsrcEntry(all[at], v)
           /\ \A i \in 1..Len(all) : i # at => new[i] = all[i]
<1>1. v[1] \in Word
  <2>1. Len(v) >= 3
    BY DEF IsSsrc
  <2> QED BY <2>1
<1>2. PICK x : x = v[1]
  OBVIOUS
<1>3. PICK all : all = WithSsrc(infos, x)
  OBVIOUS
<1>4. all \in Seq(InfoSet) /\ HasSsrc(all, x)
  <2>1. x \in Word
    BY <1>1, <1>2
  <2> QED BY <1>3, <2>1, WithSsrcFacts, Zenon
<1>5. Found(SsrcAt(all, x), {i \in 1..Len(all) : all[i].ssrc = x})
  BY <1>4, SelectSsrc DEF SsrcAt
<1>6. PICK at : at = SsrcAt(all, x)
  OBVIOUS
<1>7. at \in 1..Len(all) /\ all[at].ssrc = x /\ all[at] \in InfoSet
  BY <1>4, <1>5, <1>6 DEF Found, HasSsrc
<1>8. PICK d : d = SsrcEntry(all[at], v)
  OBVIOUS
<1>9. d \in InfoSet
  BY <1>7, <1>8, EntryFacts
<1>10. InfoAfter(infos, v) = [all EXCEPT ![at] = d]
  BY <1>2, <1>3, <1>6, <1>8 DEF InfoAfter
<1>11. PICK new : new = [all EXCEPT ![at] = d]
  OBVIOUS
<1>12. new \in Seq(InfoSet) /\ Len(new) = Len(all) /\ new[at] = d
       /\ \A i \in 1..Len(all) : i # at => new[i] = all[i]
  BY <1>4, <1>7, <1>9, <1>11
<1> QED BY <1>2, <1>3, <1>7, <1>8, <1>10, <1>11, <1>12

InfoTaken(st, l, m, t) ==
  \A x \in Mids :
    t.info[x] = IF l.k = "ssrc" /\ x = m THEN InfoAfter(st.info[x], l.v) ELSE st.info[x]

LEMMA SsrcFacts ==
  ASSUME NEW st \in StSet, NEW l \in LineSet, NEW m \in Mids, NEW t, t = SsrcInfo(st, l, m)
  PROVE  /\ t \in StSet /\ t.media = st.media
         /\ t.ok => /\ st.ok /\ t.td = st.td /\ t.ssrcGroups = st.ssrcGroups
                    /\ t.contents = st.contents /\ t.groups = st.groups
                    /\ l.k = "ssrc" => IsSsrc(l.v)
                    /\ InfoTaken(st, l, m, t)
<1>1. l.v \in Seq(Word)
  BY DEF LineSet
<1>2. CASE l.k # "ssrc"
  <2>1. t = st
    BY <1>2 DEF SsrcInfo
  <2> QED BY <1>2, <2>1 DEF InfoTaken
<1>3. CASE l.k = "ssrc" /\ ~ IsSsrc(l.v)
  <2>1. t = [st EXCEPT !.ok = FALSE]
    BY <1>3 DEF SsrcInfo
  <2> QED BY <2>1 DEF StSet
<1>4. CASE l.k = "ssrc" /\ IsSsrc(l.v)
  <2>1. PICK new : new = InfoAfter(st.info[m], l.v)
    OBVIOUS
  <2>2. t = [st EXCEPT !.info = [st.info EXCEPT ![m] = new]]
    BY <1>4, <2>1 DEF SsrcInfo
  <2>3. st.info \in [Mids -> Seq(InfoSet)] /\ st.info[m] \in Seq(InfoSet)
    BY DEF StSet
  <2>4. new \in Seq(InfoSet)
    BY <1>1, <1>4, <2>1, <2>3, InfoFacts
  <2>5. PICK info : info = [st.info EXCEPT ![m] = new]
    OBVIOUS
  <2>6. info \in [Mids -> Seq(InfoSet)] /\ info[m] = new /\ \A x \in Mids : x # m => info[x] = st.info[x]
    BY <2>3, <2>4, <2>5
  <2>7. t \in StSet
    BY <2>2, <2>5, <2>6 DEF StSet
  <2>8. /\ t.media = st.media /\ t.ok = st.ok /\ t.td = st.td /\ t.ssrcGroups = st.ssrcGroups
        /\ t.contents = st.contents /\ t.groups = st.groups /\ t.info = info
    BY <2>2, <2>5 DEF StSet
  <2>9. InfoTaken(st, l, m, t)
    BY <1>4, <2>1, <2>6, <2>8 DEF InfoTaken
  <2> QED BY <1>4, <2>7, <2>8, <2>9
<1> QED BY <1>2, <1>3, <1>4

\* One iteration of the loop, if it does not end the function.
LineTaken(st, l, n) ==
  /\ n.media = IF l.k = "m" THEN l.v[1] ELSE st.media
  /\ n.contents = IF l.k = "m" /\ l.v[1] \in Mids THEN Append(st.contents, l.v[1])
                  ELSE st.contents
  /\ n.groups = IF l.k = "bundle" /\ l.v # << >> THEN Append(st.groups, ContentNames(l.v))
                ELSE st.groups
  /\ l.k = "m" => Len(l.v) >= 3
TdTaken(st, l, n) ==
  \A x \in Mids :
    /\ n.td[x].mid = IF l.k = "m" /\ x = l.v[1] THEN x ELSE st.td[x].mid
    /\ n.td[x].ufrag = IF l.k = "ufrag" /\ x = n.media THEN l.v[1] ELSE st.td[x].ufrag
    /\ n.td[x].pwd = IF l.k = "pwd" /\ x = n.media THEN l.v[1] ELSE st.td[x].pwd
    /\ n.td[x].fp = IF l.k = "fingerprint" /\ x = n.media THEN l.v[2] ELSE st.td[x].fp
SsrcTaken(st, l, n) ==
  /\ \A x \in Mids : n.info[x] = IF l.k = "ssrc" /\ x = n.media THEN InfoAfter(st.info[x], l.v)
                                 ELSE st.info[x]
  /\ n.ssrcGroups = IF n.media = "video" /\ IsGroup(l) THEN Append(st.ssrcGroups, l.v)
                    ELSE st.ssrcGroups
GoodLine(l) == /\ l.k \in {"ufrag", "pwd"} => Len(l.v) = 1
               /\ l.k = "fingerprint" => Len(l.v) = 2 /\ IsDigest(l.v)
               /\ l.k = "ssrc" => IsSsrc(l.v)
Taken(st, l, n) == /\ LineTaken(st, l, n) /\ TdTaken(st, l, n) /\ SsrcTaken(st, l, n)
                   /\ n.media \in Mids => GoodLine(l)

MidTaken(st, l, h) ==
  \A x \in Mids : /\ h.td[x].mid = IF l.k = "m" /\ x = l.v[1] THEN x ELSE st.td[x].mid
                  /\ h.td[x].ufrag = st.td[x].ufrag /\ h.td[x].pwd = st.td[x].pwd
                  /\ h.td[x].fp = st.td[x].fp

LEMMA HeadTaken ==
  ASSUME NEW st \in StSet, NEW l \in LineSet, PlainLine(l), NEW h, h = Head_(st, l), h.ok
  PROVE  /\ st.ok /\ h \in StSet /\ h.info = st.info /\ h.ssrcGroups = st.ssrcGroups
         /\ LineTaken(st, l, h)
         /\ MidTaken(st, l, h)
<1>1. /\ h \in StSet /\ h.info = st.info /\ h.ssrcGroups = st.ssrcGroups
      /\ st.ok /\ (l.k = "m" => Len(l.v) >= 3)
      /\ h.media = IF l.k = "m" THEN l.v[1] ELSE st.media
      /\ h.contents = IF l.k = "m" /\ l.v[1] \in Mids THEN Append(st.contents, l.v[1])
                      ELSE st.contents
      /\ h.groups = IF l.k = "bundle" /\ l.v # << >>
                    THEN Append(st.groups, ContentNames(l.v)) ELSE st.groups
      /\ h.td = IF l.k = "m" /\ l.v[1] \in Mids
                THEN [st.td EXCEPT ![l.v[1]].mid = l.v[1]] ELSE st.td
  BY HeadFacts DEF HeadReads
<1>2. LineTaken(st, l, h)
  BY <1>1, Zenon DEF LineTaken
<1>3. ASSUME NEW x \in Mids
      PROVE  /\ h.td[x].mid = IF l.k = "m" /\ x = l.v[1] THEN x ELSE st.td[x].mid
             /\ h.td[x].ufrag = st.td[x].ufrag /\ h.td[x].pwd = st.td[x].pwd
             /\ h.td[x].fp = st.td[x].fp
  <2>1. st.td \in [Mids -> TdSet] /\ st.td[x] \in TdSet
    BY DEF StSet
  <2>2. CASE l.k = "m" /\ l.v[1] \in Mids
    <3>1. h.td = [st.td EXCEPT ![l.v[1]] = [st.td[l.v[1]] EXCEPT !.mid = l.v[1]]]
      BY <1>1, <2>2
    <3>2. CASE x = l.v[1]
      <4>1. h.td[x] = [st.td[x] EXCEPT !.mid = x]
        BY <2>1, <3>1, <3>2
      <4> QED BY <2>1, <2>2, <3>2, <4>1 DEF TdSet
    <3>3. CASE x # l.v[1]
      BY <2>1, <3>1, <3>3
    <3> QED BY <3>2, <3>3
  <2>3. CASE ~ (l.k = "m" /\ l.v[1] \in Mids)
    <3>1. h.td = st.td /\ ~ (l.k = "m" /\ x = l.v[1])
      BY <1>1, <2>3
    <3> QED BY <3>1
  <2> QED BY <2>2, <2>3
<1>4. MidTaken(st, l, h)
  BY <1>3 DEF MidTaken
<1> QED BY <1>1, <1>2, <1>4

LEMMA ParseLineFacts ==
  ASSUME NEW st \in StSet, NEW l \in LineSet, NEW n, n = ParseLine(st, l)
  PROVE  /\ n \in StSet
         /\ n.ok => st.ok /\ (Entered(st) => Entered(n)) /\ (PlainLine(l) => Taken(st, l, n))
<1>1. PICK h : h = Head_(st, l)
  OBVIOUS
<1>2. PICK m : m = h.media
  OBVIOUS
<1>3. PICK t : t = TransportInfo(h, l, m)
  OBVIOUS
<1>4. PICK g : g = IF m = "video" THEN SsrcGroupInfo(t, l) ELSE t
  OBVIOUS
<1>5. h \in StSet /\ (h.ok => st.ok) /\ (Entered(st) => Entered(h))
  BY <1>1, HeadFacts, Zenon
<1>6. CASE ~ st.ok
  <2>1. n = st
    BY <1>1, <1>2, <1>3, <1>4, <1>6 DEF ParseLine
  <2> QED BY <1>6, <2>1
<1>7. CASE st.ok /\ ~ h.ok
  <2>1. n = h
    BY <1>1, <1>7 DEF ParseLine
  <2> QED BY <1>5, <1>7, <2>1
<1>8. CASE st.ok /\ h.ok /\ m \notin Mids
  <2>1. n = h
    BY <1>1, <1>2, <1>8 DEF ParseLine
  <2> SUFFICES ASSUME PlainLine(l) PROVE Taken(st, l, n)
    BY <1>5, <1>8, <2>1
  <2>2. /\ h.info = st.info /\ h.ssrcGroups = st.ssrcGroups /\ LineTaken(st, l, h)
        /\ MidTaken(st, l, h)
    BY <1>1, <1>8, HeadTaken, Zenon
  <2>3. \A x \in Mids : x # h.media
    BY <1>2, <1>8
  <2>4. h.media # "video"
    BY <1>2, <1>8 DEF Mids
  <2>5. TdTaken(st, l, h)
    BY <2>2, <2>3 DEF TdTaken, MidTaken
  <2>6. SsrcTaken(st, l, h)
    BY <2>2, <2>3, <2>4 DEF SsrcTaken
  <2> QED BY <1>2, <1>8, <2>1, <2>2, <2>5, <2>6 DEF Taken
<1>9. CASE st.ok /\ h.ok /\ m \in Mids
  <2>1. PlainLine(l) => /\ h.info = st.info /\ h.ssrcGroups = st.ssrcGroups
                        /\ LineTaken(st, l, h) /\ MidTaken(st, l, h)
    BY <1>1, <1>9, HeadTaken, Zenon
  <2>2. /\ t \in StSet /\ Kept(t, h)
        /\ t.ok => /\ l.k \in {"ufrag", "pwd"} => Len(l.v) = 1
                   /\ l.k = "fingerprint" => Len(l.v) = 2 /\ IsDigest(l.v)
                   /\ TdAfter(h.td, l, m, t.td)
    BY <1>3, <1>5, <1>9, TransportFacts, Zenon
  <2>3. CASE ~ t.ok
    <3>1. n = t
      BY <1>1, <1>2, <1>3, <1>9, <2>3 DEF ParseLine
    <3> QED BY <2>2, <2>3, <3>1
  <2>4. CASE t.ok
    <3>1. n = SsrcInfo(g, l, m)
      BY <1>1, <1>2, <1>3, <1>4, <1>9, <2>4 DEF ParseLine
    <3>2. /\ g \in StSet /\ g.info = t.info /\ g.media = t.media
          /\ g.contents = t.contents /\ g.groups = t.groups /\ g.td = t.td
          /\ g.ssrcGroups = IF m = "video" /\ IsGroup(l) THEN Append(t.ssrcGroups, l.v)
                            ELSE t.ssrcGroups
      <4>1. CASE m = "video"
        <5>1. g = SsrcGroupInfo(t, l)
          BY <1>4, <4>1
        <5> QED BY <2>2, <4>1, <5>1, GroupFacts
      <4>2. CASE m # "video"
        BY <1>4, <2>2, <4>2
      <4> QED BY <4>1, <4>2
    <3>3. /\ n \in StSet /\ n.media = g.media
          /\ n.ok => /\ n.td = g.td /\ n.ssrcGroups = g.ssrcGroups
                     /\ n.contents = g.contents /\ n.groups = g.groups
                     /\ l.k = "ssrc" => IsSsrc(l.v)
                     /\ InfoTaken(g, l, m, n)
      <4>1. g \in StSet /\ m \in Mids
        BY <1>9, <3>2
      <4> QED BY <3>1, <4>1, SsrcFacts
    <3> SUFFICES ASSUME n.ok
                 PROVE  (Entered(st) => Entered(n)) /\ (PlainLine(l) => Taken(st, l, n))
      BY <1>9, <3>3
    <3>9. ASSUME Entered(st) PROVE Entered(n)
      <4>1. n.contents = h.contents /\ \A x \in Mids : n.td[x].mid = h.td[x].mid
        BY <2>2, <2>4, <3>2, <3>3 DEF Kept, TdAfter
      <4> QED BY <1>5, <3>9, <4>1 DEF Entered
    <3> SUFFICES ASSUME PlainLine(l) PROVE Taken(st, l, n)
      BY <3>9
    <3>4. n.media = m /\ h.media = m
      BY <1>2, <2>2, <3>2, <3>3 DEF Kept
    <3>5. LineTaken(st, l, n)
      BY <2>1, <2>2, <3>2, <3>3, <3>4 DEF LineTaken, Kept
    <3>6. TdTaken(st, l, n)
      BY <2>1, <2>2, <2>4, <3>2, <3>3, <3>4 DEF TdTaken, TdAfter, MidTaken
    <3>7. SsrcTaken(st, l, n)
      <4>1. h.ssrcGroups = t.ssrcGroups /\ h.info = t.info
        BY <2>2 DEF Kept
      <4> QED BY <2>1, <3>2, <3>3, <3>4, <4>1 DEF SsrcTaken, InfoTaken
    <3>8. GoodLine(l)
      BY <2>2, <2>4, <3>3 DEF GoodLine
    <3> QED BY <3>5, <3>6, <3>7, <3>8 DEF Taken
  <2> QED BY <2>3, <2>4
<1> QED BY <1>6, <1>7, <1>8, <1>9

-----------------------------------------------------------------------------
(* The lines of an answer *)

LEMMA StripFacts ==
  ASSUME NEW text \in TextSet, NEW i \in 1..Len(text.lines), NEW l, l = Strip(text, i)
  PROVE  /\ l \in LineSet /\ text.lines[i] \in LineSet /\ l.k = text.lines[i].k
         /\ \/ l = text.lines[i]
            \/ ~ text.end /\ i = Len(text.lines) /\ l.v[Len(l.v)] = "cut"
         /\ PlainLine(text.lines[i]) => PlainLine(l)
<1>1. text.lines \in Seq(LineSet) /\ text.lines[i] \in LineSet
  BY DEF TextSet
<1>2. PICK o : o = text.lines[i]
  OBVIOUS
<1>3. CASE ~ (text.rn /\ ~ text.end /\ i = Len(text.lines))
  BY <1>1, <1>3 DEF Strip
<1>4. CASE text.rn /\ ~ text.end /\ i = Len(text.lines)
  <2>1. l = [o EXCEPT !.v = [o.v EXCEPT ![Len(o.v)] = "cut"]]
    BY <1>2, <1>4 DEF Strip
  <2>2. o \in LineSet /\ o.v \in Seq(Word)
    BY <1>1, <1>2 DEF LineSet
  <2>3. PICK w : w = [o.v EXCEPT ![Len(o.v)] = "cut"]
    OBVIOUS
  <2>4. "cut" \in Word
    BY SdpAssumption DEF OwnWords
  <2>5. w \in Seq(Word) /\ Len(w) = Len(o.v) /\ (Len(o.v) # 0 => w[Len(w)] = "cut")
    <3>1. PICK u \in Seq(Word), k \in Nat : u = o.v /\ k = Len(u)
      BY <2>2
    <3>2. w = [u EXCEPT ![k] = "cut"] /\ k \in Nat
      BY <2>3, <3>1
    <3>3. w \in Seq(Word) /\ Len(w) = k
      <4>1. CASE k = 0
        <5>1. k \notin DOMAIN u
          <6>1. DOMAIN u = 1..Len(u)
            BY <3>1
          <6>2. 0 \notin 1..0
            OBVIOUS
          <6> QED BY <3>1, <4>1, <6>1, <6>2
        <5>2. u = [x \in DOMAIN u |-> u[x]]
          BY <3>1
        <5>3. w = [x \in DOMAIN u |-> IF x = k THEN "cut" ELSE u[x]]
          BY <3>2, <5>2
        <5>4. w = u
          BY <5>1, <5>2, <5>3
        <5> QED BY <3>1, <5>4
      <4>2. CASE k # 0
        <5>1. k \in 1..Len(u)
          BY <3>1, <3>2, <4>2
        <5> QED BY <2>4, <3>1, <3>2, <5>1
      <4> QED BY <4>1, <4>2
    <3>4. k # 0 => k \in 1..k
      BY <3>2
    <3>5. k # 0 => w[k] = "cut"
      BY <3>1, <3>2, <3>4
    <3> QED BY <3>1, <3>3, <3>5
  <2>6. Len(o.v) = 0 => w = o.v
    BY <2>2, <2>3
  <2>7. l \in LineSet /\ l.k = o.k /\ l.v = w
    BY <2>1, <2>2, <2>3, <2>5 DEF LineSet
  <2>8. Len(o.v) = 0 => l = o
    BY <2>1, <2>2, <2>3, <2>6 DEF LineSet
  <2>9. ASSUME PlainLine(o) PROVE PlainLine(l)
    <3> SUFFICES ASSUME HasM(l), l.k # "m" PROVE FALSE
      BY DEF PlainLine
    <3>1. o.k # "m" /\ o.k # "bundle"
      BY <2>7 DEF HasM
    <3>2. PICK x \in 1..Len(w) : w[x] \in WithM
      BY <2>7 DEF HasM
    <3>3. w[x] = "cut" \/ w[x] = o.v[x]
      BY <2>2, <2>3, <2>5, <3>2
    <3>4. o.v[x] \in WithM /\ x \in 1..Len(o.v)
      BY <2>5, <3>2, <3>3, SdpAssumption DEF OwnWords
    <3> QED BY <2>9, <3>1, <3>4 DEF PlainLine, HasM
  <2> QED BY <1>1, <1>2, <1>4, <2>5, <2>7, <2>8, <2>9
<1> QED BY <1>3, <1>4

LEMMA StartFacts ==
  /\ Start.media = NoWord /\ Start.contents = << >> /\ Start.groups = << >>
  /\ Start.ssrcGroups = << >>
  /\ \A x \in Mids : /\ Start.info[x] = << >> /\ Start.td[x].mid = NoWord
                     /\ Start.td[x].fp = Null
BY DEF Start, EmptyTd

LEMMA StartType == Start \in StSet
<1>1. EmptyTd \in TdSet
  <2>1. NoWord \in Word /\ "none" \in Word
    BY SdpAssumption DEF OwnWords
  <2> QED BY <2>1 DEF EmptyTd, TdSet
<1>2. [m \in Mids |-> EmptyTd] \in [Mids -> TdSet]
  BY <1>1
<1>3. [m \in Mids |-> << >>] \in [Mids -> Seq(InfoSet)]
  OBVIOUS
<1>4. NoWord \in Word
  BY SdpAssumption DEF OwnWords
<1>5. << >> \in Seq(Mids) /\ << >> \in Seq(Seq(Word)) /\ TRUE \in BOOLEAN
  OBVIOUS
<1> QED BY <1>2, <1>3, <1>4, <1>5, Zenon DEF Start, StSet


\* The states of the loop, line by line.
LEMMA ParsedSteps ==
  ASSUME NEW text \in TextSet
  PROVE  \E f : /\ f[0] = Start /\ \A n : Parsed(text, n) = f[n]
                /\ \A i \in 0..Len(text.lines) : f[i] \in StSet
                /\ \A i \in 1..Len(text.lines) : f[i] = ParseLine(f[i - 1], Strip(text, i))
<1> DEFINE N == Len(text.lines)
           S == StSet
           Body(f) == [i \in 0..N |-> IF i = 0 THEN Start ELSE ParseLine(f[i - 1], Strip(text, i))]
           F == CHOOSE f : f = Body(f)
           g == [i \in 1..N |-> [s \in S |-> ParseLine(s, Strip(text, i))]]
<1>1. \A n : Parsed(text, n) = F[n]
  BY DEF Parsed
<1>2. N \in Nat /\ Start \in S
  BY StartType DEF TextSet
<1>3. g \in [1..N -> [S -> S]]
  <2>1. \A s \in S, i \in 1..N : ParseLine(s, Strip(text, i)) \in S
    BY StripFacts, ParseLineFacts
  <2> HIDE DEF N, S
  <2> QED BY <2>1
<1> HIDE DEF N, S
<1>4. \A s \in S, i \in 1..N : g[i][s] = ParseLine(s, Strip(text, i))
  OBVIOUS
<1> HIDE DEF g
<1>5. PICK h : LoopOf(h, N, S, Start, g)
  BY <1>2, <1>3, Iteration, Zenon
<1>6. h = Body(h)
  <2>1. ASSUME NEW i \in 1..N PROVE h[i] = ParseLine(h[i - 1], Strip(text, i))
    <3>1. h[i - 1] \in S
      BY <1>2, <1>5 DEF LoopOf
    <3> QED BY <1>4, <1>5, <3>1, Zenon DEF LoopOf
  <2>2. ASSUME NEW i \in 0..N
        PROVE  h[i] = IF i = 0 THEN Start ELSE ParseLine(h[i - 1], Strip(text, i))
    <3>1. i = 0 \/ i \in 1..N
      BY <1>2
    <3> QED BY <1>5, <2>1, <3>1, Zenon DEF LoopOf
  <2>3. h = [i \in 0..N |-> h[i]]
    BY <1>5 DEF LoopOf
  <2> QED BY <2>2, <2>3
<1> HIDE DEF Body
<1>7. F = Body(F)
  BY <1>6, Zenon
<1> HIDE DEF F
<1>8. \A i \in 0..N : F[i] = IF i = 0 THEN Start ELSE ParseLine(F[i - 1], Strip(text, i))
  <2>1. \A f : \A i \in 0..N : Body(f)[i] = IF i = 0 THEN Start ELSE ParseLine(f[i - 1], Strip(text, i))
    BY DEF Body
  <2> QED BY <1>7, <2>1, Zenon
<1>9. F[0] = Start
  <2>1. 0 \in 0..N
    BY <1>2
  <2> QED BY <1>8, <2>1, Zenon
<1>10. \A i \in 1..N : F[i] = ParseLine(F[i - 1], Strip(text, i))
  <2>1. \A i \in 1..N : i \in 0..N /\ i # 0
    BY <1>2
  <2> QED BY <1>8, <2>1, Zenon
<1>11. LoopLike(F, N, S, Start, g)
  BY <1>4, <1>9, <1>10, Zenon DEF LoopLike
<1>12. \A i \in 0..N : F[i] \in S
  BY <1>2, <1>3, <1>11, IterationTypes, Zenon
<1> QED BY <1>1, <1>9, <1>10, <1>12, Zenon DEF N, S


LEMMA ParsedFacts ==
  ASSUME NEW text \in TextSet
  PROVE  /\ Parsed(text, 0) = Start
         /\ \A i \in 0..Len(text.lines) : Parsed(text, i) \in StSet
         /\ \A i \in 1..Len(text.lines) :
              Parsed(text, i) = ParseLine(Parsed(text, i - 1), Strip(text, i))
BY ParsedSteps

\* The section a line is in, from that of the line before it.
LEMMA SectionSteps ==
  ASSUME NEW text, Len(text.lines) \in Nat
  PROVE  /\ SectionOf(text, 0) = NoWord
         /\ \A i \in 1..Len(text.lines) :
              SectionOf(text, i) = IF text.lines[i].k = "m" THEN text.lines[i].v[1]
                                   ELSE SectionOf(text, i - 1)
<1> DEFINE ms(i) == {j \in 1..i : text.lines[j].k = "m"}
<1>1. ms(0) = {}
  OBVIOUS
<1>2. SectionOf(text, 0) = NoWord
  BY <1>1 DEF SectionOf
<1>3. ASSUME NEW i \in 1..Len(text.lines)
      PROVE  SectionOf(text, i) = IF text.lines[i].k = "m" THEN text.lines[i].v[1]
                                  ELSE SectionOf(text, i - 1)
  <2>1. CASE text.lines[i].k = "m"
    <3>1. i \in ms(i) /\ \A k \in ms(i) : k =< i
      BY <2>1
    <3>2. \A j \in ms(i) : (\A k \in ms(i) : k =< j) => j = i
      BY <3>1
    <3>3. (CHOOSE j \in ms(i) : \A k \in ms(i) : k =< j) = i
      <4> HIDE DEF ms
      <4> QED BY <3>1, <3>2
    <3>4. ms(i) # {}
      BY <3>1
    <3>5. SectionOf(text, i) = text.lines[CHOOSE j \in ms(i) : \A k \in ms(i) : k =< j].v[1]
      BY <3>4 DEF SectionOf
    <3> QED BY <2>1, <3>3, <3>5
  <2>2. CASE text.lines[i].k # "m"
    <3>1. ms(i) = ms(i - 1)
      BY <2>2
    <3>2. \A n : SectionOf(text, n) =
                   IF ms(n) = {} THEN NoWord
                   ELSE text.lines[CHOOSE j \in ms(n) : \A k \in ms(n) : k =< j].v[1]
      BY DEF SectionOf
    <3> HIDE DEF ms
    <3>3. SectionOf(text, i) = SectionOf(text, i - 1)
      BY <3>1, <3>2
    <3> QED BY <2>2, <3>3
  <2> QED BY <2>1, <2>2
<1> QED BY <1>2, <1>3

\* Lines that are read as they are.
LEMMA Unstripped ==
  ASSUME NEW text \in TextSet, EndsWell(text), NEW i \in 1..Len(text.lines),
         text.lines[i].k \in {"m", "bundle", "ufrag", "pwd"}
  PROVE  Strip(text, i) = text.lines[i]
<1>1. text.end \/ i # Len(text.lines)
  BY DEF EndsWell
<1> QED BY <1>1 DEF Strip

\* What a line does to the state, if the function goes on.
ReadTo(text, n) == Parsed(text, n).ok

LEMMA StepTaken ==
  ASSUME NEW text \in TextSet, NEW i \in 1..Len(text.lines), ReadTo(text, i)
  PROVE  /\ ReadTo(text, i - 1) /\ i - 1 \in 0..Len(text.lines)
         /\ Parsed(text, i - 1) \in StSet /\ Parsed(text, i) \in StSet
         /\ Entered(Parsed(text, i - 1)) => Entered(Parsed(text, i))
         /\ Plain(text) => Taken(Parsed(text, i - 1), Strip(text, i), Parsed(text, i))
<1>1. Len(text.lines) \in Nat
  BY DEF TextSet
<1>2. i - 1 \in 0..Len(text.lines) /\ i \in 0..Len(text.lines)
  BY <1>1
<1>3. Parsed(text, i - 1) \in StSet /\ Parsed(text, i) \in StSet
      /\ Parsed(text, i) = ParseLine(Parsed(text, i - 1), Strip(text, i))
  BY <1>2, ParsedFacts
<1>4. Strip(text, i) \in LineSet /\ (Plain(text) => PlainLine(Strip(text, i)))
  BY StripFacts DEF Plain, PlainLine
<1> QED BY <1>2, <1>3, <1>4, ParseLineFacts DEF ReadTo

\* Every section that was started is known to its transport.
LEMMA EnteredAll ==
  ASSUME NEW text \in TextSet
  PROVE  \A n \in 0..Len(text.lines) : ReadTo(text, n) => Entered(Parsed(text, n))
<1> DEFINE P(n) == ReadTo(text, n) => Entered(Parsed(text, n))
           T == {n \in Nat : n =< Len(text.lines) => P(n)}
<1>1. Len(text.lines) \in Nat
  BY DEF TextSet
<1>2. 0 \in T
  <2>1. Parsed(text, 0).contents = << >>
    BY ParsedFacts, StartFacts
  <2>2. \A x : ~ Contains(<< >>, x)
    BY DEF Contains
  <2> QED BY <2>1, <2>2 DEF Entered
<1>3. ASSUME NEW n \in Nat, n \in T PROVE n + 1 \in T
  <2> SUFFICES ASSUME n + 1 =< Len(text.lines), ReadTo(text, n + 1)
               PROVE  Entered(Parsed(text, n + 1))
    OBVIOUS
  <2>1. PICK i \in 1..Len(text.lines) : i = n + 1 /\ i - 1 = n
    BY <1>1
  <2>2. ReadTo(text, n) /\ (Entered(Parsed(text, n)) => Entered(Parsed(text, i)))
    BY <2>1, StepTaken
  <2> QED BY <1>1, <1>3, <2>1, <2>2
<1>4. \A n \in Nat : n \in T
  <2> HIDE DEF T
  <2> QED BY <1>2, <1>3, NaturalsClosed
<1> QED BY <1>1, <1>4

\* The section the loop is in.
LEMMA MediaIsSection ==
  ASSUME NEW text \in TextSet, EndsWell(text), Plain(text)
  PROVE  \A n \in 0..Len(text.lines) :
           ReadTo(text, n) => Parsed(text, n).media = SectionOf(text, n)
<1> DEFINE P(n) == ReadTo(text, n) => Parsed(text, n).media = SectionOf(text, n)
           T == {n \in Nat : n =< Len(text.lines) => P(n)}
<1>1. Len(text.lines) \in Nat
  BY DEF TextSet
<1>2. 0 \in T
  <2>1. Parsed(text, 0).media = NoWord
    <3>1. Parsed(text, 0) = Start
      BY ParsedFacts
    <3> QED BY <3>1, StartFacts
  <2>2. SectionOf(text, 0) = NoWord
    BY <1>1, SectionSteps
  <2> QED BY <2>1, <2>2
<1>3. ASSUME NEW n \in Nat, n \in T PROVE n + 1 \in T
  <2> SUFFICES ASSUME n + 1 =< Len(text.lines), ReadTo(text, n + 1)
               PROVE  Parsed(text, n + 1).media = SectionOf(text, n + 1)
    OBVIOUS
  <2>1. PICK i \in 1..Len(text.lines) : i = n + 1 /\ i - 1 = n
    BY <1>1
  <2>2. ReadTo(text, n) /\ Taken(Parsed(text, n), Strip(text, i), Parsed(text, i))
    BY <2>1, StepTaken
  <2>3. Parsed(text, n).media = SectionOf(text, n)
    BY <1>1, <1>3, <2>1, <2>2
  <2>4. SectionOf(text, i) = IF text.lines[i].k = "m" THEN text.lines[i].v[1]
                             ELSE SectionOf(text, n)
    BY <1>1, <2>1, SectionSteps
  <2>5. PICK l : l = Strip(text, i)
    OBVIOUS
  <2>6. l.k = text.lines[i].k /\ (l.k = "m" => l = text.lines[i])
    <3>1. l.k = text.lines[i].k
      BY <2>5, StripFacts, Zenon
    <3>2. text.lines[i].k = "m" => Strip(text, i) = text.lines[i]
      BY Unstripped
    <3> QED BY <2>5, <3>1, <3>2
  <2>7. Parsed(text, i).media = IF l.k = "m" THEN l.v[1] ELSE Parsed(text, n).media
    BY <2>2, <2>5 DEF Taken, LineTaken
  <2> QED BY <2>1, <2>3, <2>4, <2>6, <2>7
<1>4. \A n \in Nat : n \in T
  <2> HIDE DEF T
  <2> QED BY <1>2, <1>3, NaturalsClosed
<1> QED BY <1>1, <1>4

\* A line of kind k in section x, and what the loop does with the lines of the text as
\* a reader finds them.
At(text, i, x, k) == text.lines[i].k = k /\ SectionOf(text, i) = x

FpLine(v, fp) == \E alg \in Algorithm : v = <<alg, fp>>
SectionRead(st, o, n) ==
  /\ n.contents = IF o.k = "m" /\ o.v[1] \in Mids THEN Append(st.contents, o.v[1])
                  ELSE st.contents
  /\ n.groups = IF o.k = "bundle" /\ o.v # << >> THEN Append(st.groups, ContentNames(o.v))
                ELSE st.groups
TdRead(text, i, x, st, n) ==
  LET o == text.lines[i] IN
  /\ n.td[x].mid = IF o.k = "m" /\ x = o.v[1] THEN x ELSE st.td[x].mid
  /\ IF At(text, i, x, "ufrag") THEN o.v = <<n.td[x].ufrag>>
     ELSE n.td[x].ufrag = st.td[x].ufrag
  /\ IF At(text, i, x, "pwd") THEN o.v = <<n.td[x].pwd>> ELSE n.td[x].pwd = st.td[x].pwd
  /\ IF At(text, i, x, "fingerprint") THEN FpLine(o.v, n.td[x].fp)
     ELSE n.td[x].fp = st.td[x].fp

LEMMA LineRead ==
  ASSUME NEW text \in TextSet, EndsWell(text), Plain(text), NEW i \in 1..Len(text.lines), ReadTo(text, i)
  PROVE  /\ SectionRead(Parsed(text, i - 1), text.lines[i], Parsed(text, i))
         /\ \A x \in Mids : TdRead(text, i, x, Parsed(text, i - 1), Parsed(text, i))
<1>1. PICK st, n, l, o : /\ st = Parsed(text, i - 1) /\ n = Parsed(text, i)
                         /\ l = Strip(text, i) /\ o = text.lines[i]
  OBVIOUS
<1>2. st \in StSet /\ n \in StSet /\ Taken(st, l, n)
  BY <1>1, StepTaken
<1>3. l \in LineSet /\ o \in LineSet /\ l.k = o.k /\ (l = o \/ l.v[Len(l.v)] = "cut")
  BY <1>1, StripFacts
<1>4. l.k \in {"m", "bundle", "ufrag", "pwd"} => l = o
  <2>1. o.k \in {"m", "bundle", "ufrag", "pwd"} => l = o
    BY <1>1, Unstripped
  <2> QED BY <1>3, <2>1
<1>5. n.media = SectionOf(text, i)
  <2>1. i \in 0..Len(text.lines)
    BY DEF TextSet
  <2> QED BY <1>1, <2>1, MediaIsSection
<1>6. SectionRead(st, o, n)
  BY <1>2, <1>3, <1>4 DEF Taken, LineTaken, SectionRead
<1>7. ASSUME NEW x \in Mids PROVE TdRead(text, i, x, st, n)
  <2>1. /\ n.td[x].mid = IF l.k = "m" /\ x = l.v[1] THEN x ELSE st.td[x].mid
        /\ n.td[x].ufrag = IF l.k = "ufrag" /\ x = n.media THEN l.v[1] ELSE st.td[x].ufrag
        /\ n.td[x].pwd = IF l.k = "pwd" /\ x = n.media THEN l.v[1] ELSE st.td[x].pwd
        /\ n.td[x].fp = IF l.k = "fingerprint" /\ x = n.media THEN l.v[2] ELSE st.td[x].fp
    BY <1>2 DEF Taken, TdTaken
  <2>2. x = n.media => GoodLine(l)
    BY <1>2 DEF Taken
  <2>3. \A k : At(text, i, x, k) <=> l.k = k /\ x = n.media
    BY <1>1, <1>3, <1>5 DEF At
  <2>4. n.td[x].mid = IF o.k = "m" /\ x = o.v[1] THEN x ELSE st.td[x].mid
    BY <1>3, <1>4, <2>1
  <2>5. l.v \in Seq(Word)
    BY <1>3 DEF LineSet
  <2>6. IF At(text, i, x, "ufrag") THEN o.v = <<n.td[x].ufrag>>
        ELSE n.td[x].ufrag = st.td[x].ufrag
    <3>1. CASE l.k = "ufrag" /\ x = n.media
      <4>1. Len(l.v) = 1 /\ l = o
        BY <1>4, <2>2, <3>1 DEF GoodLine
      <4>2. l.v = <<l.v[1]>>
        BY <2>5, <4>1
      <4> QED BY <2>1, <2>3, <3>1, <4>1, <4>2
    <3>2. CASE ~ (l.k = "ufrag" /\ x = n.media)
      BY <2>1, <2>3, <3>2
    <3> QED BY <3>1, <3>2
  <2>7. IF At(text, i, x, "pwd") THEN o.v = <<n.td[x].pwd>> ELSE n.td[x].pwd = st.td[x].pwd
    <3>1. CASE l.k = "pwd" /\ x = n.media
      <4>1. Len(l.v) = 1 /\ l = o
        BY <1>4, <2>2, <3>1 DEF GoodLine
      <4>2. l.v = <<l.v[1]>>
        BY <2>5, <4>1
      <4> QED BY <2>1, <2>3, <3>1, <4>1, <4>2
    <3>2. CASE ~ (l.k = "pwd" /\ x = n.media)
      BY <2>1, <2>3, <3>2
    <3> QED BY <3>1, <3>2
  <2>8. IF At(text, i, x, "fingerprint") THEN FpLine(o.v, n.td[x].fp)
        ELSE n.td[x].fp = st.td[x].fp
    <3>1. CASE l.k = "fingerprint" /\ x = n.media
      <4>1. Len(l.v) = 2 /\ IsDigest(l.v)
        BY <2>2, <3>1 DEF GoodLine
      <4>2. l.v[1] \in Algorithm /\ l.v[2] # "cut"
        BY <4>1 DEF IsDigest
      <4>3. l = o
        BY <1>3, <4>1, <4>2
      <4>4. l.v = <<l.v[1], l.v[2]>>
        BY <2>5, <4>1
      <4> QED BY <2>1, <2>3, <3>1, <4>2, <4>3, <4>4 DEF FpLine
    <3>2. CASE ~ (l.k = "fingerprint" /\ x = n.media)
      BY <2>1, <2>3, <3>2
    <3> QED BY <3>1, <3>2
  <2> QED BY <1>1, <2>4, <2>6, <2>7, <2>8 DEF TdRead
<1> QED BY <1>1, <1>6, <1>7

\* What the loop knows after n lines: the sections there were, and of each section with
\* media its transport.
SectionsRead(text, n) ==
  \A x \in Mids :
    /\ Contains(Parsed(text, n).contents, x) <=> \E i \in 1..n : At(text, i, x, "m")
    /\ Parsed(text, n).td[x].mid = IF \E i \in 1..n : At(text, i, x, "m") THEN x ELSE NoWord
TransportsRead(text, n) ==
  \A x \in Mids :
    /\ (\E i \in 1..n : At(text, i, x, "ufrag")) =>
         \E i \in 1..n : At(text, i, x, "ufrag")
                         /\ text.lines[i].v = <<Parsed(text, n).td[x].ufrag>>
    /\ (\E i \in 1..n : At(text, i, x, "pwd")) =>
         \E i \in 1..n : At(text, i, x, "pwd")
                         /\ text.lines[i].v = <<Parsed(text, n).td[x].pwd>>
    /\ IF \E i \in 1..n : At(text, i, x, "fingerprint")
       THEN \E i \in 1..n : At(text, i, x, "fingerprint")
                            /\ FpLine(text.lines[i].v, Parsed(text, n).td[x].fp)
       ELSE Parsed(text, n).td[x].fp = Null

LEMMA AllRead ==
  ASSUME NEW text \in TextSet, EndsWell(text), Plain(text)
  PROVE  \A n \in 0..Len(text.lines) :
           ReadTo(text, n) => SectionsRead(text, n) /\ TransportsRead(text, n)
<1> DEFINE P(n) == ReadTo(text, n) => SectionsRead(text, n) /\ TransportsRead(text, n)
           T == {n \in Nat : n =< Len(text.lines) => P(n)}
<1>1. Len(text.lines) \in Nat
  BY DEF TextSet
<1>2. 0 \in T
  <2>1. Parsed(text, 0) = Start
    BY ParsedFacts
  <2>2. SectionsRead(text, 0)
    <3>1. \A x : ~ Contains(<< >>, x)
      BY DEF Contains
    <3>2. \A j : j \notin 1..0
      OBVIOUS
    <3> QED BY <2>1, <3>1, <3>2, StartFacts, Zenon DEF SectionsRead
  <2>3. TransportsRead(text, 0)
    <3>1. \A j : j \notin 1..0
      OBVIOUS
    <3> QED BY <2>1, <3>1, StartFacts, Zenon DEF TransportsRead
  <2> QED BY <2>2, <2>3
<1>3. ASSUME NEW n \in Nat, n \in T PROVE n + 1 \in T
  <2> SUFFICES ASSUME n + 1 =< Len(text.lines), ReadTo(text, n + 1)
               PROVE  SectionsRead(text, n + 1) /\ TransportsRead(text, n + 1)
    OBVIOUS
  <2>1. PICK i \in 1..Len(text.lines) : i = n + 1 /\ i - 1 = n
    BY <1>1
  <2>2. PICK st, nx : st = Parsed(text, n) /\ nx = Parsed(text, i)
    OBVIOUS
  <2>3. ReadTo(text, n) /\ st \in StSet
    BY <2>1, <2>2, StepTaken
  <2>4. SectionsRead(text, n) /\ TransportsRead(text, n)
    BY <1>1, <1>3, <2>1, <2>3
  <2>5. SectionRead(st, text.lines[i], nx) /\ \A x \in Mids : TdRead(text, i, x, st, nx)
    BY <2>1, <2>2, LineRead
  <2>6. \A j : j \in 1..i <=> j \in 1..n \/ j = i
    BY <2>1
  <2>7. \A x : At(text, i, x, "m") <=> text.lines[i].k = "m" /\ x = text.lines[i].v[1]
    BY <1>1, SectionSteps DEF At
  <2>8. ASSUME NEW x \in Mids
        PROVE  /\ Contains(nx.contents, x) <=> \E j \in 1..i : At(text, j, x, "m")
               /\ nx.td[x].mid = IF \E j \in 1..i : At(text, j, x, "m") THEN x ELSE NoWord
    <3>1. /\ Contains(st.contents, x) <=> \E j \in 1..n : At(text, j, x, "m")
          /\ st.td[x].mid = IF \E j \in 1..n : At(text, j, x, "m") THEN x ELSE NoWord
      BY <2>2, <2>4 DEF SectionsRead
    <3>2. nx.td[x].mid = IF At(text, i, x, "m") THEN x ELSE st.td[x].mid
      BY <2>5, <2>7 DEF TdRead
    <3>3. Contains(nx.contents, x) <=> Contains(st.contents, x) \/ At(text, i, x, "m")
      <4>1. nx.contents = IF text.lines[i].k = "m" /\ text.lines[i].v[1] \in Mids
                          THEN Append(st.contents, text.lines[i].v[1]) ELSE st.contents
        BY <2>5 DEF SectionRead
      <4>2. st.contents \in Seq(Mids)
        BY <2>3 DEF StSet
      <4>3. CASE text.lines[i].k = "m" /\ text.lines[i].v[1] \in Mids
        BY <2>7, <4>1, <4>2, <4>3, ContainsAppend
      <4>4. CASE ~ (text.lines[i].k = "m" /\ text.lines[i].v[1] \in Mids)
        BY <2>7, <4>1, <4>4
      <4> QED BY <4>3, <4>4
    <3> QED BY <2>6, <3>1, <3>2, <3>3
  <2>9. ASSUME NEW x \in Mids
        PROVE  /\ (\E j \in 1..i : At(text, j, x, "ufrag")) =>
                    \E j \in 1..i : At(text, j, x, "ufrag")
                                    /\ text.lines[j].v = <<nx.td[x].ufrag>>
               /\ (\E j \in 1..i : At(text, j, x, "pwd")) =>
                    \E j \in 1..i : At(text, j, x, "pwd")
                                    /\ text.lines[j].v = <<nx.td[x].pwd>>
               /\ IF \E j \in 1..i : At(text, j, x, "fingerprint")
                  THEN \E j \in 1..i : At(text, j, x, "fingerprint")
                                       /\ FpLine(text.lines[j].v, nx.td[x].fp)
                  ELSE nx.td[x].fp = Null
    <3>1. /\ IF At(text, i, x, "ufrag") THEN text.lines[i].v = <<nx.td[x].ufrag>>
             ELSE nx.td[x].ufrag = st.td[x].ufrag
          /\ IF At(text, i, x, "pwd") THEN text.lines[i].v = <<nx.td[x].pwd>>
             ELSE nx.td[x].pwd = st.td[x].pwd
          /\ IF At(text, i, x, "fingerprint") THEN FpLine(text.lines[i].v, nx.td[x].fp)
             ELSE nx.td[x].fp = st.td[x].fp
      BY <2>5 DEF TdRead
    <3>2. /\ (\E j \in 1..n : At(text, j, x, "ufrag")) =>
               \E j \in 1..n : At(text, j, x, "ufrag")
                               /\ text.lines[j].v = <<st.td[x].ufrag>>
          /\ (\E j \in 1..n : At(text, j, x, "pwd")) =>
               \E j \in 1..n : At(text, j, x, "pwd")
                               /\ text.lines[j].v = <<st.td[x].pwd>>
          /\ IF \E j \in 1..n : At(text, j, x, "fingerprint")
             THEN \E j \in 1..n : At(text, j, x, "fingerprint")
                                  /\ FpLine(text.lines[j].v, st.td[x].fp)
             ELSE st.td[x].fp = Null
      BY <2>2, <2>4 DEF TransportsRead
    <3>3. (\E j \in 1..i : At(text, j, x, "ufrag")) =>
             \E j \in 1..i : At(text, j, x, "ufrag") /\ text.lines[j].v = <<nx.td[x].ufrag>>
      BY <2>6, <3>1, <3>2
    <3>4. (\E j \in 1..i : At(text, j, x, "pwd")) =>
             \E j \in 1..i : At(text, j, x, "pwd") /\ text.lines[j].v = <<nx.td[x].pwd>>
      BY <2>6, <3>1, <3>2
    <3>5. IF \E j \in 1..i : At(text, j, x, "fingerprint")
          THEN \E j \in 1..i : At(text, j, x, "fingerprint")
                               /\ FpLine(text.lines[j].v, nx.td[x].fp)
          ELSE nx.td[x].fp = Null
      BY <2>6, <3>1, <3>2
    <3> QED BY <3>3, <3>4, <3>5
  <2>10. SectionsRead(text, i)
    BY <2>2, <2>8 DEF SectionsRead
  <2>11. TransportsRead(text, i)
    BY <2>2, <2>9 DEF TransportsRead
  <2> QED BY <2>1, <2>10, <2>11
<1>4. \A n \in Nat : n \in T
  <2> HIDE DEF T
  <2> QED BY <1>2, <1>3, NaturalsClosed
<1> QED BY <1>1, <1>4

\* The one group of the answer.
LEMMA BundleRead ==
  ASSUME NEW text \in TextSet, EndsWell(text), Plain(text), NEW b \in 1..Len(text.lines),
         text.lines[b].v # << >>,
         \A i \in 1..Len(text.lines) : text.lines[i].k = "bundle" <=> i = b
  PROVE  \A n \in 0..Len(text.lines) :
           ReadTo(text, n) => Parsed(text, n).groups =
             IF b =< n THEN <<ContentNames(text.lines[b].v)>> ELSE << >>
<1> DEFINE G(n) == IF b =< n THEN <<ContentNames(text.lines[b].v)>> ELSE << >>
           P(n) == ReadTo(text, n) => Parsed(text, n).groups = G(n)
           T == {n \in Nat : n =< Len(text.lines) => P(n)}
<1>1. Len(text.lines) \in Nat
  BY DEF TextSet
<1>2. 0 \in T
  <2>1. Parsed(text, 0) = Start
    BY ParsedFacts
  <2>2. ~ (b =< 0)
    OBVIOUS
  <2> QED BY <2>1, <2>2, StartFacts
<1>3. ASSUME NEW n \in Nat, n \in T PROVE n + 1 \in T
  <2> SUFFICES ASSUME n + 1 =< Len(text.lines), ReadTo(text, n + 1)
               PROVE  Parsed(text, n + 1).groups = G(n + 1)
    OBVIOUS
  <2>1. PICK i \in 1..Len(text.lines) : i = n + 1 /\ i - 1 = n
    BY <1>1
  <2>2. ReadTo(text, n)
    BY <2>1, StepTaken
  <2>3. Parsed(text, n).groups = G(n)
    BY <1>1, <1>3, <2>1, <2>2
  <2>4. Parsed(text, i).groups = IF text.lines[i].k = "bundle" /\ text.lines[i].v # << >>
                                 THEN Append(Parsed(text, n).groups, ContentNames(text.lines[i].v))
                                 ELSE Parsed(text, n).groups
    BY <2>1, LineRead DEF SectionRead
  <2>5. CASE i = b
    <3>1. ~ (b =< n) /\ b =< i
      BY <2>1, <2>5
    <3>2. Parsed(text, i).groups = Append(<< >>, ContentNames(text.lines[b].v))
      BY <2>3, <2>4, <2>5, <3>1
    <3> QED BY <2>1, <3>1, <3>2
  <2>6. CASE i # b
    <3>1. b =< n <=> b =< i
      BY <2>1, <2>6
    <3> QED BY <2>1, <2>3, <2>4, <2>6, <3>1
  <2> QED BY <2>5, <2>6
<1>4. \A n \in Nat : n \in T
  <2> HIDE DEF T
  <2> QED BY <1>2, <1>3, NaturalsClosed
<1> QED BY <1>1, <1>4

-----------------------------------------------------------------------------
(* The tracks of a section *)

HasTrack(tracks, id) == \E i \in 1..Len(tracks) : tracks[i].id = id

LEMMA NewTrackFacts ==
  ASSUME NEW id \in Word
  PROVE  /\ NewTrack(id) \in TrackSet /\ NewTrack(id).id = id
         /\ NewTrack(id).ssrcs = << >> /\ NewTrack(id).groups = << >>
<1>1. NoWord \in Word
  BY SdpAssumption DEF OwnWords
<1>2. << >> \in Seq(Word) /\ << >> \in Seq(Seq(Word))
  OBVIOUS
<1> QED BY <1>1, <1>2 DEF NewTrack, TrackSet

LEMMA WithTrackFacts ==
  ASSUME NEW tracks \in Seq(TrackSet), NEW x \in Word, NEW all, all = WithTrack(tracks, x)
  PROVE  /\ all \in Seq(TrackSet) /\ HasTrack(all, x)
         /\ all = tracks \/ (all = Append(tracks, NewTrack(x)) /\ ~ HasTrack(tracks, x))
<1>1. Found(TrackAt(tracks, x), {i \in 1..Len(tracks) : tracks[i].id = x})
  BY SelectTrack DEF TrackAt
<1>2. CASE TrackAt(tracks, x) # 0
  <2>1. all = tracks
    BY <1>2 DEF WithTrack
  <2> QED BY <1>1, <1>2, <2>1 DEF Found, HasTrack
<1>3. CASE TrackAt(tracks, x) = 0
  <2>1. all = Append(tracks, NewTrack(x))
    BY <1>3 DEF WithTrack
  <2>2. ~ HasTrack(tracks, x)
    BY <1>1, <1>3 DEF Found, HasTrack
  <2>3. NewTrack(x) \in TrackSet /\ NewTrack(x).id = x
    BY NewTrackFacts
  <2>4. Append(tracks, NewTrack(x)) \in Seq(TrackSet) /\ Len(tracks) \in Nat
        /\ Len(Append(tracks, NewTrack(x))) = Len(tracks) + 1
        /\ Append(tracks, NewTrack(x))[Len(tracks) + 1] = NewTrack(x)
    BY <2>3
  <2>5. Len(tracks) + 1 \in 1..Len(all) /\ all[Len(tracks) + 1].id = x
    BY <2>1, <2>3, <2>4
  <2>6. HasTrack(all, x)
    BY <2>5 DEF HasTrack
  <2> QED BY <2>1, <2>2, <2>4, <2>6
<1> QED BY <1>2, <1>3

\* A track with one more SSRC.
IsMore(d, t, e) ==
  /\ d \in TrackSet /\ d.id = t.id /\ d.cname = e.cname /\ d.stream = e.stream
  /\ d.ssrcs = Append(t.ssrcs, e.ssrc) /\ d.groups = t.groups

LEMMA AddToTrackFacts ==
  ASSUME NEW tracks \in Seq(TrackSet), NEW e \in InfoSet
  PROVE  LET all == WithTrack(tracks, e.track)
             new == AddToTrack(tracks, e) IN
         \E at \in 1..Len(all) :
           /\ all[at].id = e.track /\ new \in Seq(TrackSet) /\ Len(new) = Len(all)
           /\ IsMore(new[at], all[at], e)
           /\ \A i \in 1..Len(all) : i # at => new[i] = all[i]
<1>1. PICK x \in Word : x = e.track
  BY DEF InfoSet
<1>2. PICK all : all = WithTrack(tracks, x)
  OBVIOUS
<1>3. all \in Seq(TrackSet) /\ HasTrack(all, x)
  BY <1>2, WithTrackFacts
<1>4. Found(TrackAt(all, x), {i \in 1..Len(all) : all[i].id = x})
  BY <1>3, SelectTrack DEF TrackAt
<1>5. PICK at : at = TrackAt(all, x)
  OBVIOUS
<1>6. at \in 1..Len(all) /\ all[at].id = x /\ all[at] \in TrackSet
  BY <1>3, <1>4, <1>5 DEF Found, HasTrack
<1>7. PICK t : t = all[at]
  OBVIOUS
<1>8. PICK d : d = TrackEntry(t, e)
  OBVIOUS
<1>9. IsMore(d, t, e)
  <2>1. t \in TrackSet /\ t.ssrcs \in Seq(Word)
    BY <1>6, <1>7 DEF TrackSet
  <2>2. e.cname \in Word /\ e.stream \in Word /\ e.ssrc \in Word
    BY DEF InfoSet
  <2>3. Append(t.ssrcs, e.ssrc) \in Seq(Word)
    BY <2>1, <2>2
  <2>4. d \in TrackSet
    BY <1>8, <2>1, <2>2, <2>3 DEF TrackSet, TrackEntry
  <2>5. /\ d.id = t.id /\ d.cname = e.cname /\ d.stream = e.stream
        /\ d.ssrcs = Append(t.ssrcs, e.ssrc) /\ d.groups = t.groups
    BY <1>8, <2>1 DEF TrackSet, TrackEntry
  <2> QED BY <2>4, <2>5 DEF IsMore
<1>10. AddToTrack(tracks, e) = [all EXCEPT ![at] = d]
  BY <1>1, <1>2, <1>5, <1>7, <1>8 DEF AddToTrack
<1>11. PICK new : new = [all EXCEPT ![at] = d]
  OBVIOUS
<1>12. d \in TrackSet
  BY <1>9 DEF IsMore
<1>13. new \in Seq(TrackSet) /\ Len(new) = Len(all) /\ new[at] = d
       /\ \A i \in 1..Len(all) : i # at => new[i] = all[i]
  BY <1>3, <1>6, <1>11, <1>12
<1> QED BY <1>1, <1>2, <1>6, <1>7, <1>9, <1>10, <1>11, <1>13


\* The tracks, entry by entry.
LEMMA TracksSteps ==
  ASSUME NEW infos \in Seq(InfoSet)
  PROVE  \E f : /\ f[0] = << >> /\ CreateTracks(infos) = f[Len(infos)]
                /\ \A i \in 0..Len(infos) : f[i] \in Seq(TrackSet)
                /\ \A i \in 1..Len(infos) : f[i] = AddToTrack(f[i - 1], infos[i])
<1> DEFINE N == Len(infos)
           S == Seq(TrackSet)
           Body(f) == [i \in 0..N |-> IF i = 0 THEN << >> ELSE AddToTrack(f[i - 1], infos[i])]
           F == CHOOSE f : f = Body(f)
           g == [i \in 1..N |-> [s \in S |-> AddToTrack(s, infos[i])]]
<1>1. CreateTracks(infos) = F[Len(infos)]
  BY DEF CreateTracks
<1>2. N \in Nat /\ << >> \in S
  OBVIOUS
<1>3. g \in [1..N -> [S -> S]]
  <2>1. \A s \in S, i \in 1..N : AddToTrack(s, infos[i]) \in S
    BY AddToTrackFacts
  <2> HIDE DEF N, S
  <2> QED BY <2>1
<1> HIDE DEF N, S
<1>4. \A s \in S, i \in 1..N : g[i][s] = AddToTrack(s, infos[i])
  OBVIOUS
<1> HIDE DEF g
<1>5. PICK h : LoopOf(h, N, S, << >>, g)
  BY <1>2, <1>3, Iteration, Zenon
<1>6. h = Body(h)
  <2>1. ASSUME NEW i \in 1..N PROVE h[i] = AddToTrack(h[i - 1], infos[i])
    <3>1. h[i - 1] \in S
      BY <1>2, <1>5 DEF LoopOf
    <3> QED BY <1>4, <1>5, <3>1, Zenon DEF LoopOf
  <2>2. ASSUME NEW i \in 0..N
        PROVE  h[i] = IF i = 0 THEN << >> ELSE AddToTrack(h[i - 1], infos[i])
    <3>1. i = 0 \/ i \in 1..N
      BY <1>2
    <3> QED BY <1>5, <2>1, <3>1, Zenon DEF LoopOf
  <2>3. h = [i \in 0..N |-> h[i]]
    BY <1>5 DEF LoopOf
  <2> QED BY <2>2, <2>3
<1> HIDE DEF Body
<1>7. F = Body(F)
  BY <1>6, Zenon
<1> HIDE DEF F
<1>8. \A i \in 0..N : F[i] = IF i = 0 THEN << >> ELSE AddToTrack(F[i - 1], infos[i])
  <2>1. \A f : \A i \in 0..N : Body(f)[i] = IF i = 0 THEN << >> ELSE AddToTrack(f[i - 1], infos[i])
    BY DEF Body
  <2> QED BY <1>7, <2>1, Zenon
<1>9. F[0] = << >>
  <2>1. 0 \in 0..N
    BY <1>2
  <2> QED BY <1>8, <2>1, Zenon
<1>10. \A i \in 1..N : F[i] = AddToTrack(F[i - 1], infos[i])
  <2>1. \A i \in 1..N : i \in 0..N /\ i # 0
    BY <1>2
  <2> QED BY <1>8, <2>1, Zenon
<1>11. LoopLike(F, N, S, << >>, g)
  BY <1>4, <1>9, <1>10, Zenon DEF LoopLike
<1>12. \A i \in 0..N : F[i] \in S
  BY <1>2, <1>3, <1>11, IterationTypes, Zenon
<1> QED BY <1>1, <1>9, <1>10, <1>12, Zenon DEF N, S


LEMMA AddGroupFacts ==
  ASSUME NEW tracks \in Seq(TrackSet), NEW g \in Seq(Word), NEW new, new = AddGroup(tracks, g)
  PROVE  /\ new \in Seq(TrackSet) /\ Len(new) = Len(tracks)
         /\ \A i \in 1..Len(tracks) :
              /\ new[i].id = tracks[i].id /\ new[i].cname = tracks[i].cname
              /\ new[i].stream = tracks[i].stream /\ new[i].ssrcs = tracks[i].ssrcs
              /\ new[i].groups = IF Contains(tracks[i].ssrcs, g[2])
                                 THEN Append(tracks[i].groups, g) ELSE tracks[i].groups
<1>1. Len(tracks) \in Nat
  OBVIOUS
<1>2. ASSUME NEW i \in 1..Len(tracks)
      PROVE  /\ new[i] \in TrackSet
             /\ new[i].id = tracks[i].id /\ new[i].cname = tracks[i].cname
             /\ new[i].stream = tracks[i].stream /\ new[i].ssrcs = tracks[i].ssrcs
             /\ new[i].groups = IF Contains(tracks[i].ssrcs, g[2])
                                THEN Append(tracks[i].groups, g) ELSE tracks[i].groups
  <2>1. PICK t \in TrackSet : t = tracks[i]
    OBVIOUS
  <2>2. Append(t.groups, g) \in Seq(Seq(Word))
    <3>1. t.groups \in Seq(Seq(Word))
      BY <2>1 DEF TrackSet
    <3> QED BY <3>1
  <2>3. PICK d : d = [t EXCEPT !.groups = Append(t.groups, g)]
    OBVIOUS
  <2>4. d \in TrackSet
    BY <2>2, <2>3 DEF TrackSet
  <2>5. /\ d.id = t.id /\ d.cname = t.cname /\ d.stream = t.stream /\ d.ssrcs = t.ssrcs
        /\ d.groups = Append(t.groups, g)
    BY <2>3 DEF TrackSet
  <2>6. new[i] = IF Contains(t.ssrcs, g[2]) THEN d ELSE t
    BY <2>1, <2>3 DEF AddGroup
  <2> QED BY <2>1, <2>4, <2>5, <2>6
<1>3. new = [i \in 1..Len(tracks) |-> new[i]]
  BY DEF AddGroup
<1>4. new \in Seq(TrackSet) /\ Len(new) = Len(tracks)
  BY <1>1, <1>2, <1>3
<1> QED BY <1>2, <1>4


\* The tracks with their groups, group by group.
LEMMA GroupsSteps ==
  ASSUME NEW tracks \in Seq(TrackSet), NEW groups \in Seq(Seq(Word))
  PROVE  \E f : /\ f[0] = tracks /\ AddGroups(tracks, groups) = f[Len(groups)]
                /\ \A i \in 0..Len(groups) : f[i] \in Seq(TrackSet)
                /\ \A i \in 1..Len(groups) : f[i] = AddGroup(f[i - 1], groups[i])
<1> DEFINE N == Len(groups)
           S == Seq(TrackSet)
           Body(f) == [i \in 0..N |-> IF i = 0 THEN tracks ELSE AddGroup(f[i - 1], groups[i])]
           F == CHOOSE f : f = Body(f)
           g == [i \in 1..N |-> [s \in S |-> AddGroup(s, groups[i])]]
<1>1. AddGroups(tracks, groups) = F[Len(groups)]
  BY DEF AddGroups
<1>2. N \in Nat /\ tracks \in S
  OBVIOUS
<1>3. g \in [1..N -> [S -> S]]
  <2>1. \A s \in S, i \in 1..N : AddGroup(s, groups[i]) \in S
    BY AddGroupFacts
  <2> HIDE DEF N, S
  <2> QED BY <2>1
<1> HIDE DEF N, S
<1>4. \A s \in S, i \in 1..N : g[i][s] = AddGroup(s, groups[i])
  OBVIOUS
<1> HIDE DEF g
<1>5. PICK h : LoopOf(h, N, S, tracks, g)
  BY <1>2, <1>3, Iteration, Zenon
<1>6. h = Body(h)
  <2>1. ASSUME NEW i \in 1..N PROVE h[i] = AddGroup(h[i - 1], groups[i])
    <3>1. h[i - 1] \in S
      <4>1. i - 1 \in 0..N
        BY <1>2
      <4> QED BY <1>5, <4>1 DEF LoopOf
    <3> QED BY <1>4, <1>5, <3>1, Zenon DEF LoopOf
  <2>2. ASSUME NEW i \in 0..N
        PROVE  h[i] = IF i = 0 THEN tracks ELSE AddGroup(h[i - 1], groups[i])
    <3>1. i = 0 \/ i \in 1..N
      BY <1>2
    <3> QED BY <1>5, <2>1, <3>1, Zenon DEF LoopOf
  <2>3. h = [i \in 0..N |-> h[i]]
    BY <1>5 DEF LoopOf
  <2> QED BY <2>2, <2>3
<1> HIDE DEF Body
<1>7. F = Body(F)
  BY <1>6, Zenon
<1> HIDE DEF F
<1>8. \A i \in 0..N : F[i] = IF i = 0 THEN tracks ELSE AddGroup(F[i - 1], groups[i])
  <2>1. \A f : \A i \in 0..N : Body(f)[i] = IF i = 0 THEN tracks ELSE AddGroup(f[i - 1], groups[i])
    BY DEF Body
  <2> QED BY <1>7, <2>1, Zenon
<1>9. F[0] = tracks
  <2>1. 0 \in 0..N
    BY <1>2
  <2> QED BY <1>8, <2>1, Zenon
<1>10. \A i \in 1..N : F[i] = AddGroup(F[i - 1], groups[i])
  <2>1. \A i \in 1..N : i \in 0..N /\ i # 0
    BY <1>2
  <2> QED BY <1>8, <2>1, Zenon
<1>11. LoopLike(F, N, S, tracks, g)
  BY <1>4, <1>9, <1>10, Zenon DEF LoopLike
<1>12. \A i \in 0..N : F[i] \in S
  BY <1>2, <1>3, <1>11, IterationTypes, Zenon
<1> QED BY <1>1, <1>9, <1>10, <1>12, Zenon DEF N, S

LEMMA TracksType ==
  /\ \A infos \in Seq(InfoSet) : CreateTracks(infos) \in Seq(TrackSet)
  /\ \A tracks \in Seq(TrackSet), groups \in Seq(Seq(Word)) :
       AddGroups(tracks, groups) \in Seq(TrackSet)
<1>1. ASSUME NEW infos \in Seq(InfoSet) PROVE CreateTracks(infos) \in Seq(TrackSet)
  <2>1. Len(infos) \in 0..Len(infos)
    OBVIOUS
  <2> QED BY <2>1, TracksSteps
<1>2. ASSUME NEW tracks \in Seq(TrackSet), NEW groups \in Seq(Seq(Word))
      PROVE  AddGroups(tracks, groups) \in Seq(TrackSet)
  <2>1. Len(groups) \in 0..Len(groups)
    OBVIOUS
  <2> QED BY <2>1, GroupsSteps
<1> QED BY <1>1, <1>2

-----------------------------------------------------------------------------
(* The description of an answer *)

\* The tracks of section m.
TracksOf(st, m) == IF ~ st.ok THEN << >>
                   ELSE IF m = "audio" THEN CreateTracks(st.info[m])
                   ELSE AddGroups(CreateTracks(st.info[m]), st.ssrcGroups)
ContentOf(st, m) == [mid |-> m, dir |-> "inactive", cands |-> << >>, streams |-> TracksOf(st, m)]

LEMMA ContentOfType ==
  ASSUME NEW st \in StSet, NEW m \in Mids
  PROVE  /\ TracksOf(st, m) \in Seq(TrackSet)
         /\ ContentOf(st, m) \in ContentSet /\ ContentOf(st, m).mid = m
         /\ ContentOf(st, m).streams = TracksOf(st, m)
<1>1. st.info[m] \in Seq(InfoSet) /\ st.ssrcGroups \in Seq(Seq(Word))
  BY DEF StSet
<1>2. CreateTracks(st.info[m]) \in Seq(TrackSet)
  BY <1>1, TracksType
<1>3. AddGroups(CreateTracks(st.info[m]), st.ssrcGroups) \in Seq(TrackSet)
  BY <1>1, <1>2, TracksType
<1>4. TracksOf(st, m) \in Seq(TrackSet)
  BY <1>2, <1>3 DEF TracksOf
<1>5. "inactive" \in Word
  BY SdpAssumption DEF OwnWords
<1>6. << >> \in Seq(Word)
  OBVIOUS
<1> QED BY <1>4, <1>5, <1>6 DEF ContentOf, ContentSet

LEMMA DescriptionFields ==
  ASSUME NEW st \in StSet, NEW desc, desc = Description(st)
  PROVE  /\ desc.groups = st.groups
         /\ desc.tds = IF st.ok THEN <<st.td["audio"], st.td["video"]>> ELSE << >>
         /\ desc.contents = [i \in 1..Len(st.contents) |-> ContentOf(st, st.contents[i])]
         /\ desc \in DescriptionSet
<1> DEFINE tracks == [m \in Mids |-> IF ~ st.ok THEN << >>
                                     ELSE IF m = "audio" THEN CreateTracks(st.info[m])
                                     ELSE AddGroups(CreateTracks(st.info[m]), st.ssrcGroups)]
           cs == [i \in 1..Len(st.contents) |->
                    [mid |-> st.contents[i], dir |-> "inactive", cands |-> << >>,
                     streams |-> tracks[st.contents[i]]]]
           tds == IF st.ok THEN <<st.td["audio"], st.td["video"]>> ELSE << >>
<1>1. desc = [groups |-> st.groups, tds |-> tds, contents |-> cs]
  BY DEF Description
<1>2. st.contents \in Seq(Mids) /\ Len(st.contents) \in Nat
  BY DEF StSet
<1>3. \A m \in Mids : tracks[m] = TracksOf(st, m)
  BY DEF TracksOf
<1>4. cs = [i \in 1..Len(st.contents) |-> ContentOf(st, st.contents[i])]
  <2>1. \A i \in 1..Len(st.contents) : st.contents[i] \in Mids
    BY <1>2
  <2>2. \A i \in 1..Len(st.contents) : tracks[st.contents[i]] = TracksOf(st, st.contents[i])
    BY <1>3, <2>1
  <2> HIDE DEF tracks
  <2> QED BY <2>2 DEF ContentOf
<1>5. cs \in Seq(ContentSet)
  <2>1. \A i \in 1..Len(st.contents) : ContentOf(st, st.contents[i]) \in ContentSet
    BY <1>2, ContentOfType
  <2> HIDE DEF cs
  <2> QED BY <1>2, <1>4, <2>1
<1>6. tds \in Seq(TdSet)
  <2>1. st.td["audio"] \in TdSet /\ st.td["video"] \in TdSet
    BY DEF StSet, Mids
  <2> QED BY <2>1
<1>7. st.groups \in Seq(Seq(Word))
  BY DEF StSet
<1> HIDE DEF cs, tds
<1>8. desc \in DescriptionSet
  BY <1>1, <1>5, <1>6, <1>7 DEF DescriptionSet
<1>9. desc.groups = st.groups /\ desc.tds = tds /\ desc.contents = cs
  BY <1>1
<1> QED BY <1>4, <1>8, <1>9 DEF tds

LEMMA ContentFound ==
  ASSUME NEW st \in StSet, NEW desc, desc = Description(st), NEW m \in Mids
  PROVE  GetContent(desc, m) = IF Contains(st.contents, m) THEN ContentOf(st, m) ELSE Null
<1>1. st.contents \in Seq(Mids) /\ Len(st.contents) \in Nat
      /\ \A i \in 1..Len(st.contents) : st.contents[i] \in Mids
  BY DEF StSet
<1>2. PICK cs : cs = desc.contents
  OBVIOUS
<1>3. cs = [i \in 1..Len(st.contents) |-> ContentOf(st, st.contents[i])] /\ cs \in Seq(ContentSet)
  <2>1. desc.contents = [i \in 1..Len(st.contents) |-> ContentOf(st, st.contents[i])]
        /\ desc \in DescriptionSet
    BY DescriptionFields
  <2> QED BY <1>2, <2>1 DEF DescriptionSet
<1>4. Len(cs) = Len(st.contents) /\ \A i \in 1..Len(cs) : cs[i] = ContentOf(st, st.contents[i])
  BY <1>1, <1>3
<1>5. \A i \in 1..Len(cs) : cs[i].mid = st.contents[i]
  BY <1>1, <1>4, ContentOfType
<1>6. PICK at : at = SelectInSeq(cs, LAMBDA c : c.mid = m)
  OBVIOUS
<1>7. Found(at, {i \in 1..Len(cs) : cs[i].mid = m})
  <2>1. cs \in Seq(ContentSet)
    BY <1>3
  <2>2. Found(SelectInSeq(cs, LAMBDA c : c.mid = m), {i \in 1..Len(cs) : cs[i].mid = m})
    BY <2>1, SelectMid
  <2> QED BY <1>6, <2>2
<1>8. GetContent(desc, m) = IF at = 0 THEN Null ELSE cs[at]
  BY <1>2, <1>6 DEF GetContent, First
<1>9. CASE Contains(st.contents, m)
  <2>1. at # 0 /\ at \in 1..Len(cs) /\ cs[at].mid = m
    BY <1>4, <1>5, <1>7, <1>9 DEF Found, Contains
  <2>2. cs[at] = ContentOf(st, m)
    BY <1>4, <1>5, <2>1
  <2> QED BY <1>8, <1>9, <2>1, <2>2
<1>10. CASE ~ Contains(st.contents, m)
  <2>1. at = 0
    BY <1>4, <1>5, <1>7, <1>10 DEF Found, Contains
  <2> QED BY <1>8, <1>10, <2>1
<1> QED BY <1>9, <1>10

-----------------------------------------------------------------------------
(* The transport of an answer *)

LEMMA RefFacts ==
  ASSUME NEW text, NEW x, NEW k
  PROVE  \A v : v \in Ref(text, x, k) <=>
                \E i \in 1..Len(text.lines) : At(text, i, x, k) /\ v = text.lines[i].v
BY DEF Ref, At

LEMMA TaggedIs ==
  ASSUME NEW text \in TextSet, NEW b \in 1..Len(text.lines),
         \A i \in 1..Len(text.lines) : text.lines[i].k = "bundle" <=> i = b
  PROVE  Tagged(text) = text.lines[b].v[1]
<1>1. PICK ls \in Seq(LineSet) : ls = text.lines
  BY DEF TextSet
<1>2. PICK at : at = SelectInSeq(ls, LAMBDA l : l.k = "bundle")
  OBVIOUS
<1>3. Found(at, {i \in 1..Len(ls) : ls[i].k = "bundle"})
  <2>1. Found(SelectInSeq(ls, LAMBDA l : l.k = "bundle"), {i \in 1..Len(ls) : ls[i].k = "bundle"})
    BY <1>1, SelectBundle
  <2> QED BY <1>2, <2>1
<1>4. at = b
  BY <1>1, <1>3 DEF Found
<1>5. Tagged(text) = ls[at].v[1]
  BY <1>1, <1>2 DEF Tagged
<1> QED BY <1>1, <1>4, <1>5

\* A section starts with a line m=.
Started(text, n, x) == \E j \in 1..n : At(text, j, x, "m")

LEMMA SectionStarts ==
  ASSUME NEW text \in TextSet, NEW x, x # NoWord
  PROVE  \A n \in 0..Len(text.lines) :
           SectionOf(text, n) = x => Started(text, n, x)
<1> DEFINE T == {n \in Nat : n =< Len(text.lines) /\ SectionOf(text, n) = x => Started(text, n, x)}
<1>1. Len(text.lines) \in Nat
  BY DEF TextSet
<1>2. 0 \in T
  BY <1>1, SectionSteps
<1>3. ASSUME NEW n \in Nat, n \in T PROVE n + 1 \in T
  <2> SUFFICES ASSUME n + 1 =< Len(text.lines), SectionOf(text, n + 1) = x
               PROVE  Started(text, n + 1, x)
    OBVIOUS
  <2>1. PICK i \in 1..Len(text.lines) : i = n + 1 /\ i - 1 = n
    BY <1>1
  <2>2. \A j : j \in 1..i <=> j \in 1..n \/ j = i
    BY <2>1
  <2>3. SectionOf(text, i) = IF text.lines[i].k = "m" THEN text.lines[i].v[1]
                             ELSE SectionOf(text, n)
    BY <1>1, <2>1, SectionSteps
  <2>4. CASE text.lines[i].k = "m"
    BY <2>1, <2>2, <2>4 DEF At, Started
  <2>5. CASE text.lines[i].k # "m"
    <3>1. Started(text, n, x)
      BY <1>1, <1>3, <2>1, <2>3, <2>5
    <3> QED BY <2>1, <2>2, <3>1 DEF Started
  <2> QED BY <2>4, <2>5
<1>4. \A n \in Nat : n \in T
  <2> HIDE DEF T
  <2> QED BY <1>2, <1>3, NaturalsClosed
<1> QED BY <1>1, <1>4

\* The transport that is found under a mid.
LEMMA TransportFound ==
  ASSUME NEW st \in StSet, st.ok, NEW desc, desc = Description(st), NEW m \in Mids,
         \A x \in Mids : st.td[x].mid \in {x, NoWord}, st.td[m].mid = m
  PROVE  GetTransportInfo(desc, m) = st.td[m]
<1>1. PICK tds : tds = desc.tds
  OBVIOUS
<1>2. tds = <<st.td["audio"], st.td["video"]>>
  BY <1>1, DescriptionFields
<1>3. st.td["audio"] \in TdSet /\ st.td["video"] \in TdSet
  BY DEF StSet, Mids
<1>4. tds \in Seq(TdSet) /\ Len(tds) = 2 /\ tds[1] = st.td["audio"] /\ tds[2] = st.td["video"]
  <2>1. PICK a \in TdSet, v \in TdSet : a = st.td["audio"] /\ v = st.td["video"]
    BY <1>3
  <2>2. tds = <<a, v>>
    BY <1>2, <2>1
  <2>3. tds \in Seq(TdSet) /\ Len(tds) = 2 /\ tds[1] = a /\ tds[2] = v
    BY <2>2
  <2> QED BY <2>1, <2>3
<1>5. PICK at : at = SelectInSeq(tds, LAMBDA t : t.mid = m)
  OBVIOUS
<1>6. Found(at, {i \in 1..Len(tds) : tds[i].mid = m})
  <2>1. Found(SelectInSeq(tds, LAMBDA t : t.mid = m), {i \in 1..Len(tds) : tds[i].mid = m})
    BY <1>4, SelectMid
  <2> QED BY <1>5, <2>1
<1>7. GetTransportInfo(desc, m) = IF at = 0 THEN Null ELSE tds[at]
  BY <1>1, <1>5 DEF GetTransportInfo, First
<1>8. 1 \in 1..Len(tds) /\ 2 \in 1..Len(tds) /\ \A i \in 1..Len(tds) : i = 1 \/ i = 2
  BY <1>4
<1>9. NoWord # "audio" /\ NoWord # "video"
  BY NoWordFacts DEF Mids
<1>10. st.td["audio"].mid \in {"audio", NoWord} /\ st.td["video"].mid \in {"video", NoWord}
  BY DEF Mids
<1>11. CASE m = "audio"
  <2>1. tds[1].mid = m /\ tds[2].mid # m
    BY <1>4, <1>9, <1>10, <1>11
  <2>2. {i \in 1..Len(tds) : tds[i].mid = m} = {1}
    BY <1>8, <2>1
  <2> QED BY <1>4, <1>6, <1>7, <1>11, <2>2 DEF Found
<1>12. CASE m = "video"
  <2>1. tds[2].mid = m /\ tds[1].mid # m
    BY <1>4, <1>9, <1>10, <1>12
  <2>2. {i \in 1..Len(tds) : tds[i].mid = m} = {2}
    BY <1>8, <2>1
  <2> QED BY <1>4, <1>6, <1>7, <1>12, <2>2 DEF Found
<1> QED BY <1>11, <1>12 DEF Mids

\* What the tagged section of an answer says of its transport.
OneDigest(S, fp) == IF fp = Null THEN S = {} ELSE \E alg \in Algorithm : S = {<<alg, fp>>}
TransportOf(text, td) ==
  /\ td \in TdSet
  /\ Ref(text, Tagged(text), "ufrag") = {<<td.ufrag>>}
  /\ Ref(text, Tagged(text), "pwd") = {<<td.pwd>>}
  /\ OneDigest(Ref(text, Tagged(text), "fingerprint"), td.fp)

LEMMA AnswerState ==
  ASSUME NEW text \in TextSet
  PROVE  ParseLines(text) = Parsed(text, Len(text.lines)) /\ ParseLines(text) \in StSet
<1>1. Len(text.lines) \in 0..Len(text.lines)
  BY DEF TextSet
<1> QED BY <1>1, ParsedFacts DEF ParseLines

LEMMA AnswerTransport ==
  ASSUME NEW text, Conforms(text), Plain(text), NEW st, st = ParseLines(text), st.ok,
         NEW t \in Mids, t = Tagged(text)
  PROVE  TransportOf(text, st.td[t])
<1>1. text \in TextSet /\ EndsWell(text) /\ OneTransport(text)
  BY DEF Conforms
<1>2. PICK N : N = Len(text.lines) /\ N \in 0..Len(text.lines) /\ N \in Nat
  BY <1>1 DEF TextSet
<1>3. st = Parsed(text, N) /\ st \in StSet
  BY <1>1, <1>2, AnswerState
<1>4. TransportsRead(text, N)
  BY <1>1, <1>2, <1>3, AllRead DEF ReadTo
<1>5. \A k, v : v \in Ref(text, t, k) <=>
                \E i \in 1..N : At(text, i, t, k) /\ v = text.lines[i].v
  BY <1>2, RefFacts
<1>6. /\ \A k \in {"ufrag", "pwd", "fingerprint"} : \A v, w \in Ref(text, t, k) : v = w
      /\ Ref(text, t, "ufrag") # {} /\ Ref(text, t, "pwd") # {}
  BY <1>1 DEF OneTransport
<1>7. /\ (\E i \in 1..N : At(text, i, t, "ufrag")) =>
           \E i \in 1..N : At(text, i, t, "ufrag") /\ text.lines[i].v = <<st.td[t].ufrag>>
      /\ (\E i \in 1..N : At(text, i, t, "pwd")) =>
           \E i \in 1..N : At(text, i, t, "pwd") /\ text.lines[i].v = <<st.td[t].pwd>>
      /\ IF \E i \in 1..N : At(text, i, t, "fingerprint")
         THEN \E i \in 1..N : At(text, i, t, "fingerprint")
                              /\ FpLine(text.lines[i].v, st.td[t].fp)
         ELSE st.td[t].fp = Null
  BY <1>3, <1>4 DEF TransportsRead
<1>8. Ref(text, t, "ufrag") = {<<st.td[t].ufrag>>}
  <2>1. <<st.td[t].ufrag>> \in Ref(text, t, "ufrag")
    BY <1>5, <1>6, <1>7
  <2> QED BY <1>6, <2>1
<1>9. Ref(text, t, "pwd") = {<<st.td[t].pwd>>}
  <2>1. <<st.td[t].pwd>> \in Ref(text, t, "pwd")
    BY <1>5, <1>6, <1>7
  <2> QED BY <1>6, <2>1
<1>10. OneDigest(Ref(text, t, "fingerprint"), st.td[t].fp)
  <2>1. CASE \E i \in 1..N : At(text, i, t, "fingerprint")
    <3>1. PICK i \in 1..N, alg \in Algorithm :
            At(text, i, t, "fingerprint") /\ text.lines[i].v = <<alg, st.td[t].fp>>
      BY <1>7, <2>1 DEF FpLine
    <3>2. <<alg, st.td[t].fp>> \in Ref(text, t, "fingerprint")
      BY <1>5, <3>1
    <3>3. st.td[t].fp # Null
      <4>1. text.lines[i].v \in Seq(Word)
        <5>1. PICK ls \in Seq(LineSet) : ls = text.lines
          BY <1>1 DEF TextSet
        <5>2. ls[i] \in LineSet
          BY <1>2, <5>1
        <5> QED BY <5>1, <5>2 DEF LineSet
      <4>2. PICK fp : fp = st.td[t].fp
        OBVIOUS
      <4>3. Len(<<alg, fp>>) = 2 /\ <<alg, fp>>[2] = fp /\ <<alg, fp>> \in Seq(Word)
        BY <3>1, <4>1, <4>2
      <4>4. fp \in Word
        <5>1. PICK w \in Seq(Word) : w = <<alg, fp>>
          BY <4>3
        <5>2. 2 \in 1..Len(w)
          BY <4>3, <5>1
        <5>3. w[2] \in Word
          BY <5>2
        <5> QED BY <4>3, <5>1, <5>3
      <4> QED BY <4>2, <4>4, SdpAssumption
    <3>4. Ref(text, t, "fingerprint") = {<<alg, st.td[t].fp>>}
      BY <1>6, <3>2
    <3> QED BY <3>3, <3>4 DEF OneDigest
  <2>2. CASE ~ \E i \in 1..N : At(text, i, t, "fingerprint")
    BY <1>5, <1>7, <2>2 DEF OneDigest
  <2> QED BY <2>1, <2>2
<1>11. st.td[t] \in TdSet
  BY <1>3 DEF StSet
<1> QED BY <1>8, <1>9, <1>10, <1>11 DEF TransportOf

\* Every channel of an answer has a transport to be found.
LEMMA AnswerTransports ==
  ASSUME NEW text \in TextSet, NEW st, st = ParseLines(text), st.ok,
         NEW desc, desc = Description(st), NEW m \in Channels(desc)
  PROVE  m \in Mids /\ GetTransportInfo(desc, m) \in TdSet
<1>1. m \in Mids /\ GetContent(desc, m) # Null
  BY DEF Channels
<1>2. st \in StSet /\ Entered(st)
  <2>1. Len(text.lines) \in 0..Len(text.lines)
    BY DEF TextSet
  <2> QED BY <2>1, AnswerState, EnteredAll DEF ReadTo
<1>3. Contains(st.contents, m)
  BY <1>1, <1>2, ContentFound
<1>4. st.td[m].mid = m
  BY <1>1, <1>2, <1>3 DEF Entered
<1>5. PICK tds : tds = desc.tds
  OBVIOUS
<1>6. PICK a, v : /\ a = st.td["audio"] /\ v = st.td["video"] /\ tds = <<a, v>>
                  /\ a \in TdSet /\ v \in TdSet
  BY <1>2, <1>5, DescriptionFields DEF StSet, Mids
<1>7. tds \in Seq(TdSet) /\ Len(tds) = 2 /\ tds[1] = a /\ tds[2] = v
  BY <1>6
<1>8. PICK at : at = SelectInSeq(tds, LAMBDA t : t.mid = m)
  OBVIOUS
<1>9. Found(at, {i \in 1..Len(tds) : tds[i].mid = m})
  <2>1. Found(SelectInSeq(tds, LAMBDA t : t.mid = m), {i \in 1..Len(tds) : tds[i].mid = m})
    BY <1>7, SelectMid
  <2> QED BY <1>8, <2>1
<1>10. \E i \in 1..Len(tds) : tds[i].mid = m
  <2>1. 1 \in 1..Len(tds) /\ 2 \in 1..Len(tds)
    BY <1>7
  <2>2. m = "audio" \/ m = "video"
    BY <1>1 DEF Mids
  <2> QED BY <1>4, <1>6, <1>7, <2>1, <2>2
<1>11. at \in 1..Len(tds) /\ at # 0
  BY <1>7, <1>9, <1>10 DEF Found
<1>12. GetTransportInfo(desc, m) = tds[at]
  BY <1>5, <1>8, <1>11 DEF GetTransportInfo, First
<1>13. tds[at] \in TdSet
  <2>1. tds[1] \in TdSet /\ tds[2] \in TdSet /\ (at = 1 \/ at = 2)
    BY <1>6, <1>7, <1>11
  <2> QED BY <2>1
<1> QED BY <1>1, <1>12, <1>13, Zenon

\* Only the tagged section has a channel.
LEMMA AnswerChannels ==
  ASSUME NEW text, Conforms(text), Plain(text), NEW st, st = ParseLines(text), st.ok,
         NEW desc, desc = Description(st)
  PROVE  /\ \A m \in Mids : m \in Channels(desc) <=> m = Tagged(text)
         /\ \A m \in Channels(desc) : /\ m \in Mids /\ GetTransportInfo(desc, m) = st.td[m]
<1>1. text \in TextSet /\ EndsWell(text) /\ OneTransport(text) /\ OneBundle(text)
  BY DEF Conforms
<1>2. PICK N : N = Len(text.lines) /\ N \in 0..Len(text.lines) /\ N \in Nat
  BY <1>1 DEF TextSet
<1>3. st = Parsed(text, N) /\ st \in StSet
  BY <1>1, <1>2, AnswerState
<1>4. SectionsRead(text, N) /\ ReadTo(text, N)
  BY <1>1, <1>2, <1>3, AllRead DEF ReadTo
<1>5. PICK b \in 1..N :
        /\ text.lines[b].v # << >>
        /\ \A i \in 1..N : /\ text.lines[i].k = "bundle" <=> i = b
                           /\ text.lines[i].k = "m" /\ text.lines[i].v[1] \in Mids
                                => Contains(text.lines[b].v, text.lines[i].v[1])
  BY <1>1, <1>2 DEF OneBundle
<1>6. PICK v \in Seq(Word) : v = text.lines[b].v /\ v # << >>
  <2>1. PICK ls \in Seq(LineSet) : ls = text.lines
    BY <1>1 DEF TextSet
  <2>2. ls[b] \in LineSet
    BY <1>2, <2>1
  <2> QED BY <1>5, <2>1, <2>2 DEF LineSet
<1>7. Tagged(text) = v[1]
  BY <1>1, <1>2, <1>5, <1>6, TaggedIs
<1>8. PICK names : names = ContentNames(v)
  OBVIOUS
<1>9. names \in Seq(Word) /\ names[1] = v[1] /\ \A i \in 1..Len(v) : Contains(names, v[i])
  BY <1>6, <1>8, NamesFacts
<1>10. desc.groups = <<names>>
  <2>1. Parsed(text, N).groups = IF b =< N THEN <<ContentNames(text.lines[b].v)>> ELSE << >>
    BY <1>1, <1>2, <1>4, <1>5, BundleRead
  <2>2. b =< N
    BY <1>2
  <2>3. desc.groups = st.groups
    BY <1>3, DescriptionFields
  <2> QED BY <1>3, <1>6, <1>8, <2>1, <2>2, <2>3
<1>11. \A m : Contains(v, m) => IsBundle(desc, m)
  <2> SUFFICES ASSUME NEW m, Contains(v, m) PROVE IsBundle(desc, m)
    OBVIOUS
  <2>1. Contains(names, m)
    BY <1>9 DEF Contains
  <2>2. 1 \in 1..Len(<<names>>) /\ <<names>>[1] = names
    OBVIOUS
  <2> QED BY <1>10, <2>1, <2>2 DEF IsBundle
<1>12. FirstBundleMid(desc) = Tagged(text)
  <2>1. <<names>> # << >> /\ <<names>>[1] = names
    OBVIOUS
  <2> QED BY <1>7, <1>9, <1>10, <2>1 DEF FirstBundleMid
<1>13. \A m \in Mids : GetContent(desc, m) # Null <=> Contains(st.contents, m)
  <2> TAKE m \in Mids
  <2>1. GetContent(desc, m) = IF Contains(st.contents, m) THEN ContentOf(st, m) ELSE Null
    BY <1>3, ContentFound
  <2>2. ContentOf(st, m) # Null
    BY <1>3, ContentOfType, SdpAssumption
  <2> QED BY <2>1, <2>2
<1>14. \A m \in Mids : /\ Contains(st.contents, m) <=> \E i \in 1..N : At(text, i, m, "m")
                       /\ st.td[m].mid = IF \E i \in 1..N : At(text, i, m, "m") THEN m ELSE NoWord
  BY <1>3, <1>4 DEF SectionsRead
<1>15. ASSUME NEW m \in Mids, Contains(st.contents, m) PROVE IsBundle(desc, m)
  <2>1. PICK i \in 1..N : At(text, i, m, "m")
    BY <1>14, <1>15
  <2>2. text.lines[i].k = "m" /\ text.lines[i].v[1] = m
    BY <1>2, <2>1, SectionSteps DEF At
  <2>3. Contains(v, m)
    BY <1>5, <1>6, <2>2
  <2> QED BY <1>11, <2>3
<1>16. ASSUME NEW m \in Mids, m = Tagged(text) PROVE Contains(st.contents, m)
  <2>1. Ref(text, m, "ufrag") # {}
    BY <1>1, <1>16 DEF OneTransport
  <2>2. PICK i \in 1..N : SectionOf(text, i) = m
    BY <1>2, <2>1, RefFacts DEF At
  <2>3. m # NoWord /\ i \in 0..N
    BY <1>2, NoWordFacts
  <2>4. PICK j \in 1..i : At(text, j, m, "m")
    BY <1>1, <1>2, <2>2, <2>3, SectionStarts DEF Started
  <2>5. j \in 1..N
    BY <1>2
  <2> QED BY <1>14, <2>4, <2>5
<1>17. \A m \in Mids : m \in Channels(desc) <=> m = Tagged(text)
  BY <1>12, <1>13, <1>15, <1>16 DEF Channels, OwnsTransport
<1>18. ASSUME NEW m \in Channels(desc) PROVE m \in Mids /\ GetTransportInfo(desc, m) = st.td[m]
  <2>1. m \in Mids /\ Contains(st.contents, m)
    BY <1>13, <1>18 DEF Channels
  <2>2. st.td[m].mid = m
    BY <1>14, <2>1
  <2>3. \A x \in Mids : st.td[x].mid \in {x, NoWord}
    BY <1>14
  <2> QED BY <1>3, <2>1, <2>2, <2>3, TransportFound
<1> QED BY <1>17, <1>18

-----------------------------------------------------------------------------
(* Sequences put together *)

LEMMA FlattenSteps ==
  ASSUME NEW E, NEW seqs \in Seq(Seq(E))
  PROVE  \E f : /\ f[0] = << >> /\ FlattenSeq(seqs) = f[Len(seqs)]
                /\ \A i \in 0..Len(seqs) : f[i] \in Seq(E)
                /\ \A i \in 1..Len(seqs) : f[i] = f[i - 1] \o seqs[i]
<1> DEFINE N == Len(seqs)
           S == Seq(E)
           Body(f) == [i \in 1..N |-> IF i = 1 THEN seqs[i] ELSE f[i - 1] \o seqs[i]]
           F == CHOOSE f : f = Body(f)
           g == [i \in 1..N |-> [s \in S |-> s \o seqs[i]]]
<1>1. FlattenSeq(seqs) = IF N = 0 THEN seqs ELSE F[N]
  BY DEF FlattenSeq
<1>2. N \in Nat /\ << >> \in S /\ (N = 0 => seqs = << >>) /\ \A i \in 1..N : seqs[i] \in S
  OBVIOUS
<1>3. g \in [1..N -> [S -> S]]
  <2>1. \A s \in S, i \in 1..N : s \o seqs[i] \in S
    BY <1>2
  <2> HIDE DEF N, S
  <2> QED BY <2>1
<1>4. \A t \in S : << >> \o t = t
  OBVIOUS
<1> HIDE DEF N, S
<1>5. \A s \in S, i \in 1..N : g[i][s] = s \o seqs[i]
  OBVIOUS
<1> HIDE DEF g
<1>6. PICK h : LoopOf(h, N, S, << >>, g)
  BY <1>2, <1>3, Iteration, Zenon
<1>7. h \in [0..N -> S] /\ h[0] = << >>
  BY <1>6 DEF LoopOf
<1>8. ASSUME NEW i \in 1..N PROVE h[i] = h[i - 1] \o seqs[i]
  <2>1. i - 1 \in 0..N
    BY <1>2
  <2>2. h[i - 1] \in S
    BY <1>7, <2>1
  <2> QED BY <1>5, <1>6, <2>2, Zenon DEF LoopOf
<1>9. PICK k : k = [i \in 1..N |-> h[i]]
  OBVIOUS
<1>10. ASSUME NEW i \in 1..N PROVE h[i] = IF i = 1 THEN seqs[i] ELSE k[i - 1] \o seqs[i]
  <2>1. CASE i = 1
    <3>1. i - 1 = 0
      BY <2>1
    <3>2. h[i] = << >> \o seqs[i] /\ seqs[i] \in S
      BY <1>2, <1>7, <1>8, <3>1
    <3> QED BY <1>4, <2>1, <3>2
  <2>2. CASE i # 1
    <3>1. i - 1 \in 1..N
      BY <1>2, <2>2
    <3>2. k[i - 1] = h[i - 1]
      BY <1>9, <3>1
    <3> QED BY <1>8, <2>2, <3>2
  <2> QED BY <2>1, <2>2
<1>11. k = Body(k)
  BY <1>9, <1>10
<1> HIDE DEF Body
<1>12. F = Body(F)
  BY <1>11, Zenon
<1> HIDE DEF F
<1>13. \A i \in 1..N : F[i] = IF i = 1 THEN seqs[i] ELSE F[i - 1] \o seqs[i]
  <2>1. \A f : \A i \in 1..N : Body(f)[i] = IF i = 1 THEN seqs[i] ELSE f[i - 1] \o seqs[i]
    BY DEF Body
  <2> QED BY <1>12, <2>1, Zenon
<1>14. PICK G : G = [i \in 0..N |-> IF i = 0 THEN << >> ELSE F[i]]
  OBVIOUS
<1>15. G[0] = << >> /\ \A i \in 1..N : G[i] = F[i]
  BY <1>2, <1>14
<1>16. ASSUME NEW i \in 1..N PROVE G[i] = G[i - 1] \o seqs[i]
  <2>1. CASE i = 1
    <3>1. i - 1 = 0
      BY <2>1
    <3>2. G[i] = seqs[i] /\ G[i - 1] = << >> /\ seqs[i] \in S
      BY <1>2, <1>13, <1>15, <2>1, <3>1
    <3> QED BY <1>4, <3>2
  <2>2. CASE i # 1
    <3>1. i - 1 \in 1..N
      BY <1>2, <2>2
    <3> QED BY <1>13, <1>15, <2>2, <3>1
  <2> QED BY <2>1, <2>2
<1>17. LoopLike(G, N, S, << >>, g)
  BY <1>5, <1>15, <1>16, Zenon DEF LoopLike
<1>18. \A i \in 0..N : G[i] \in S
  BY <1>2, <1>3, <1>17, IterationTypes, Zenon
<1>19. FlattenSeq(seqs) = G[N]
  <2>1. CASE N = 0
    BY <1>1, <1>2, <1>15, <2>1
  <2>2. CASE N # 0
    <3>1. N \in 1..N
      BY <1>2, <2>2
    <3> QED BY <1>1, <1>15, <2>2, <3>1
  <2> QED BY <2>1, <2>2
<1> QED BY <1>15, <1>16, <1>18, <1>19 DEF N, S

LEMMA ConcatFacts ==
  ASSUME NEW S, NEW s \in Seq(S), NEW t \in Seq(S)
  PROVE  /\ s \o t \in Seq(S) /\ Len(s \o t) = Len(s) + Len(t)
         /\ Len(s) \in Nat /\ Len(t) \in Nat
         /\ \A i \in 1..Len(s) : (s \o t)[i] = s[i]
         /\ \A i \in 1..Len(t) : (s \o t)[Len(s) + i] = t[i]
OBVIOUS

\* The elements of a sequence.
LEMMA RangeFacts ==
  ASSUME NEW S, NEW s \in Seq(S)
  PROVE  \A x : x \in Range(s) <=> \E i \in 1..Len(s) : x = s[i]
BY DEF Range

LEMMA RangeConcat ==
  ASSUME NEW S, NEW s \in Seq(S), NEW t \in Seq(S)
  PROVE  Range(s \o t) = Range(s) \cup Range(t)
<1>1. PICK u : u = s \o t
  OBVIOUS
<1>2. /\ u \in Seq(S) /\ Len(u) = Len(s) + Len(t) /\ Len(s) \in Nat /\ Len(t) \in Nat
      /\ \A i \in 1..Len(s) : u[i] = s[i]
      /\ \A i \in 1..Len(t) : u[Len(s) + i] = t[i]
  BY <1>1, ConcatFacts
<1>3. ASSUME NEW i \in 1..Len(u) PROVE u[i] \in Range(s) \cup Range(t)
  <2>1. CASE i =< Len(s)
    <3>1. i \in 1..Len(s) /\ u[i] = s[i]
      BY <1>2, <2>1
    <3> QED BY <3>1, RangeFacts
  <2>2. CASE ~ (i =< Len(s))
    <3>1. PICK j : j = i - Len(s)
      OBVIOUS
    <3>2. j \in 1..Len(t) /\ i = Len(s) + j
      BY <1>2, <2>2, <3>1
    <3>3. u[i] = t[j]
      BY <1>2, <3>2
    <3> QED BY <3>2, <3>3, RangeFacts
  <2> QED BY <2>1, <2>2
<1>4. ASSUME NEW i \in 1..Len(s) PROVE s[i] \in Range(u)
  <2>1. i \in 1..Len(u)
    BY <1>2
  <2>2. u[i] = s[i]
    BY <1>2
  <2> QED BY <1>2, <2>1, <2>2, RangeFacts
<1>5. ASSUME NEW i \in 1..Len(t) PROVE t[i] \in Range(u)
  <2>1. Len(s) + i \in 1..Len(u) /\ u[Len(s) + i] = t[i]
    BY <1>2
  <2> QED BY <1>2, <2>1, RangeFacts
<1>6. \A x : x \in Range(u) => x \in Range(s) \cup Range(t)
  BY <1>2, <1>3, RangeFacts
<1>7. \A x : x \in Range(s) => x \in Range(u)
  BY <1>4, RangeFacts
<1>8. \A x : x \in Range(t) => x \in Range(u)
  BY <1>5, RangeFacts
<1> QED BY <1>1, <1>6, <1>7, <1>8

LEMMA RangeAppend ==
  ASSUME NEW S, NEW s \in Seq(S), NEW y \in S
  PROVE  Range(Append(s, y)) = Range(s) \cup {y}
<1>1. PICK u : u = Append(s, y)
  OBVIOUS
<1>2. /\ u \in Seq(S) /\ Len(u) = Len(s) + 1 /\ Len(s) \in Nat /\ u[Len(s) + 1] = y
      /\ \A i \in 1..Len(s) : u[i] = s[i]
  BY <1>1
<1>3. \A i : i \in 1..Len(u) <=> i \in 1..Len(s) \/ i = Len(s) + 1
  BY <1>2
<1>4. \A x : x \in Range(u) <=> \E i \in 1..Len(u) : x = u[i]
  BY <1>2, RangeFacts
<1>5. \A x : x \in Range(s) <=> \E i \in 1..Len(s) : x = s[i]
  BY RangeFacts
<1>6. \A x : x \in Range(u) <=> x \in Range(s) \/ x = y
  BY <1>2, <1>3, <1>4, <1>5
<1> QED BY <1>1, <1>6

\* The elements of all of the sequences.
LEMMA FlattenFacts ==
  ASSUME NEW E, NEW seqs \in Seq(Seq(E))
  PROVE  /\ FlattenSeq(seqs) \in Seq(E)
         /\ \A x : x \in Range(FlattenSeq(seqs)) <=> \E i \in 1..Len(seqs) : x \in Range(seqs[i])
<1>1. PICK f : /\ f[0] = << >> /\ FlattenSeq(seqs) = f[Len(seqs)]
               /\ \A i \in 0..Len(seqs) : f[i] \in Seq(E)
               /\ \A i \in 1..Len(seqs) : f[i] = f[i - 1] \o seqs[i]
  BY FlattenSteps
<1>2. Len(seqs) \in Nat /\ Len(seqs) \in 0..Len(seqs) /\ \A i \in 1..Len(seqs) : seqs[i] \in Seq(E)
  OBVIOUS
<1> DEFINE T == {n \in Nat : n =< Len(seqs) =>
                   \A x : x \in Range(f[n]) <=> \E i \in 1..n : x \in Range(seqs[i])}
<1>3. 0 \in T
  <2>1. Range(<< >>) = {}
    BY DEF Range
  <2>2. \A i : i \notin 1..0
    OBVIOUS
  <2> QED BY <1>1, <2>1, <2>2
<1>4. ASSUME NEW n \in Nat, n \in T PROVE n + 1 \in T
  <2> SUFFICES ASSUME n + 1 =< Len(seqs), NEW x
               PROVE  x \in Range(f[n + 1]) <=> \E i \in 1..(n + 1) : x \in Range(seqs[i])
    OBVIOUS
  <2>1. PICK k \in 1..Len(seqs) : k = n + 1 /\ k - 1 = n /\ n \in 0..Len(seqs) /\ n =< Len(seqs)
    BY <1>2
  <2>2. f[k] = f[n] \o seqs[k] /\ f[n] \in Seq(E) /\ seqs[k] \in Seq(E)
    BY <1>1, <1>2, <2>1
  <2>3. Range(f[k]) = Range(f[n]) \cup Range(seqs[k])
    BY <2>2, RangeConcat
  <2>4. x \in Range(f[n]) <=> \E i \in 1..n : x \in Range(seqs[i])
    BY <1>4, <2>1
  <2>5. \A i : i \in 1..k <=> i \in 1..n \/ i = k
    BY <2>1
  <2> QED BY <2>1, <2>3, <2>4, <2>5
<1>5. \A n \in Nat : n \in T
  <2> HIDE DEF T
  <2> QED BY <1>3, <1>4, NaturalsClosed
<1>6. Len(seqs) \in T
  BY <1>2, <1>5
<1> QED BY <1>1, <1>2, <1>6

LEMMA FlattenOne ==
  ASSUME NEW E, NEW s \in Seq(E)
  PROVE  FlattenSeq(<<s>>) = s
<1>1. PICK seqs : seqs = <<s>>
  OBVIOUS
<1>2. seqs \in Seq(Seq(E)) /\ Len(seqs) = 1 /\ seqs[1] = s
  BY <1>1
<1>3. PICK f : /\ f[0] = << >> /\ FlattenSeq(seqs) = f[Len(seqs)]
               /\ \A i \in 1..Len(seqs) : f[i] = f[i - 1] \o seqs[i]
  <2>1. seqs \in Seq(Seq(E))
    BY <1>2
  <2> QED BY <2>1, FlattenSteps, Zenon
<1>4. 1 \in 1..Len(seqs) /\ 1 - 1 = 0
  BY <1>2
<1>5. f[1] = << >> \o s
  <2>1. f[1] = f[1 - 1] \o seqs[1]
    BY <1>2, <1>3, <1>4, Zenon
  <2> QED BY <1>2, <1>3, <1>4, <2>1
<1> QED BY <1>1, <1>2, <1>3, <1>5

LEMMA FlattenTwo ==
  ASSUME NEW E, NEW s \in Seq(E), NEW t \in Seq(E)
  PROVE  FlattenSeq(<<s, t>>) = s \o t
<1>1. PICK seqs : seqs = <<s, t>>
  OBVIOUS
<1>2. seqs \in Seq(Seq(E)) /\ Len(seqs) = 2 /\ seqs[1] = s /\ seqs[2] = t
  BY <1>1
<1>3. PICK f : /\ f[0] = << >> /\ FlattenSeq(seqs) = f[Len(seqs)]
               /\ \A i \in 0..Len(seqs) : f[i] \in Seq(E)
               /\ \A i \in 1..Len(seqs) : f[i] = f[i - 1] \o seqs[i]
  <2>1. seqs \in Seq(Seq(E))
    BY <1>2
  <2> QED BY <2>1, FlattenSteps
<1>4. 1 \in 1..Len(seqs) /\ 1 - 1 = 0 /\ 2 \in 1..Len(seqs) /\ 2 - 1 = 1
  BY <1>2
<1>5. f[1] = << >> \o s /\ f[2] = f[1] \o t
  BY <1>2, <1>3, <1>4
<1>6. << >> \o s = s
  OBVIOUS
<1> QED BY <1>1, <1>2, <1>3, <1>5, <1>6

-----------------------------------------------------------------------------
(* The sections of a text *)

\* A section of its own: it starts with m=, and nothing else in it does.
IsSection(s, x) == /\ s \in Seq(LineSet) /\ s # << >> /\ s[1].k = "m" /\ s[1].v[1] = x
                   /\ \A j \in 2..Len(s) : s[j].k # "m"

\* What a text with one more section says.
LEMMA SectionConcat ==
  ASSUME NEW text \in TextSet, NEW more \in TextSet, NEW s, NEW x, IsSection(s, x),
         more.lines = text.lines \o s
  PROVE  /\ \A i \in 0..Len(text.lines) : SectionOf(more, i) = SectionOf(text, i)
         /\ \A i \in 1..Len(s) : SectionOf(more, Len(text.lines) + i) = x
<1>1. PICK ls, M, K : ls \in Seq(LineSet) /\ ls = text.lines /\ M = Len(text.lines) /\ K = Len(s)
  BY DEF TextSet
<1>2. /\ s \in Seq(LineSet) /\ M \in Nat /\ K \in Nat /\ K >= 1 /\ Len(ls) = M
      /\ s[1].k = "m" /\ s[1].v[1] = x /\ \A j \in 2..K : s[j].k # "m"
  BY <1>1 DEF IsSection
<1>3. /\ Len(more.lines) = M + K
      /\ \A i \in 1..M : more.lines[i] = text.lines[i]
      /\ \A i \in 1..K : more.lines[M + i] = s[i]
  BY <1>1, <1>2, ConcatFacts
<1>4. /\ SectionOf(text, 0) = NoWord
      /\ \A i \in 1..M : SectionOf(text, i) = IF text.lines[i].k = "m" THEN text.lines[i].v[1]
                                              ELSE SectionOf(text, i - 1)
  BY <1>1, <1>2, SectionSteps
<1>5. /\ SectionOf(more, 0) = NoWord
      /\ \A i \in 1..(M + K) : SectionOf(more, i) = IF more.lines[i].k = "m" THEN more.lines[i].v[1]
                                                    ELSE SectionOf(more, i - 1)
  <2>1. Len(more.lines) \in Nat
    BY <1>2, <1>3
  <2> QED BY <1>3, <2>1, SectionSteps
<1>6. \A i \in 0..M : SectionOf(more, i) = SectionOf(text, i)
  <2> DEFINE T == {n \in Nat : n =< M => SectionOf(more, n) = SectionOf(text, n)}
  <2>1. 0 \in T
    BY <1>4, <1>5
  <2>2. ASSUME NEW n \in Nat, n \in T PROVE n + 1 \in T
    <3> SUFFICES ASSUME n + 1 =< M PROVE SectionOf(more, n + 1) = SectionOf(text, n + 1)
      OBVIOUS
    <3>1. PICK i \in 1..M : i = n + 1 /\ i - 1 = n /\ i \in 1..(M + K) /\ n =< M
      BY <1>2
    <3>2. SectionOf(more, n) = SectionOf(text, n)
      BY <2>2, <3>1
    <3>3. more.lines[i] = text.lines[i]
      BY <1>3, <3>1
    <3>4. SectionOf(text, i) = IF text.lines[i].k = "m" THEN text.lines[i].v[1]
                               ELSE SectionOf(text, n)
      BY <1>4, <3>1
    <3>5. SectionOf(more, i) = IF more.lines[i].k = "m" THEN more.lines[i].v[1]
                               ELSE SectionOf(more, n)
      BY <1>5, <3>1
    <3> QED BY <3>1, <3>2, <3>3, <3>4, <3>5
  <2>3. \A n \in Nat : n \in T
    <3> HIDE DEF T
    <3> QED BY <2>1, <2>2, NaturalsClosed
  <2> QED BY <1>2, <2>3
<1>7. \A i \in 1..K : SectionOf(more, M + i) = x
  <2> DEFINE T == {n \in Nat : n + 1 =< K => SectionOf(more, M + (n + 1)) = x}
  <2>1. 0 \in T
    <3>1. M + 1 \in 1..(M + K) /\ 1 \in 1..K /\ 0 + 1 = 1
      BY <1>2
    <3>2. SectionOf(more, M + 1) = x
      BY <1>2, <1>3, <1>5, <3>1
    <3> QED BY <3>1, <3>2
  <2>2. ASSUME NEW n \in Nat, n \in T PROVE n + 1 \in T
    <3> SUFFICES ASSUME (n + 1) + 1 =< K PROVE SectionOf(more, M + ((n + 1) + 1)) = x
      OBVIOUS
    <3>1. PICK j \in 2..K : j = (n + 1) + 1 /\ n + 1 =< K /\ j \in 1..K
      BY <1>2
    <3>2. M + j \in 1..(M + K) /\ (M + j) - 1 = M + (n + 1)
      BY <1>2, <3>1
    <3>3. SectionOf(more, M + (n + 1)) = x
      BY <2>2, <3>1
    <3>4. more.lines[M + j].k # "m"
      BY <1>2, <1>3, <3>1
    <3>5. SectionOf(more, M + j) = SectionOf(more, (M + j) - 1)
      BY <1>5, <3>2, <3>4
    <3> QED BY <3>1, <3>2, <3>3, <3>5
  <2>3. \A n \in Nat : n \in T
    <3> HIDE DEF T
    <3> QED BY <2>1, <2>2, NaturalsClosed
  <2>4. ASSUME NEW i \in 1..K PROVE SectionOf(more, M + i) = x
    <3>1. i - 1 \in Nat /\ (i - 1) + 1 = i
      BY <1>2
    <3>2. i - 1 \in T
      BY <2>3, <3>1
    <3> QED BY <1>2, <3>1, <3>2
  <2> QED BY <2>4
<1> QED BY <1>1, <1>6, <1>7

\* What is read of section m in more is what is read in text and in s, a section x.
Says(s, k, v) == \E l \in Range(s) : l.k = k /\ v = l.v
RefGrows(more, text, s, x, m, k) ==
  \A v : v \in Ref(more, m, k) <=> v \in Ref(text, m, k) \/ (m = x /\ Says(s, k, v))

LEMMA RefConcat ==
  ASSUME NEW text \in TextSet, NEW more \in TextSet, NEW s, NEW x, IsSection(s, x),
         more.lines = text.lines \o s, NEW m, NEW k
  PROVE  RefGrows(more, text, s, x, m, k)
<1>1. PICK ls, M, K : ls \in Seq(LineSet) /\ ls = text.lines /\ M = Len(text.lines) /\ K = Len(s)
  BY DEF TextSet
<1>2. s \in Seq(LineSet) /\ M \in Nat /\ K \in Nat /\ Len(ls) = M
  BY <1>1 DEF IsSection
<1>3. /\ Len(more.lines) = M + K
      /\ \A i \in 1..M : more.lines[i] = text.lines[i]
      /\ \A i \in 1..K : more.lines[M + i] = s[i]
  BY <1>1, <1>2, ConcatFacts
<1>4. /\ \A i \in 0..M : SectionOf(more, i) = SectionOf(text, i)
      /\ \A i \in 1..K : SectionOf(more, M + i) = x
  <2>1. /\ \A i \in 0..Len(text.lines) : SectionOf(more, i) = SectionOf(text, i)
        /\ \A i \in 1..Len(s) : SectionOf(more, Len(text.lines) + i) = x
    BY SectionConcat
  <2> QED BY <1>1, <2>1
<1>5. ASSUME NEW v, v \in Ref(more, m, k)
      PROVE  v \in Ref(text, m, k) \/ (m = x /\ \E l \in Range(s) : l.k = k /\ v = l.v)
  <2>1. PICK i \in 1..(M + K) : At(more, i, m, k) /\ v = more.lines[i].v
    <3>1. \E i \in 1..Len(more.lines) : At(more, i, m, k) /\ v = more.lines[i].v
      <4>1. \A w : w \in Ref(more, m, k) <=>
                   \E i \in 1..Len(more.lines) : At(more, i, m, k) /\ w = more.lines[i].v
        BY DEF Ref, At
      <4> QED BY <1>5, <4>1
    <3> QED BY <1>3, <3>1
  <2>2. CASE i =< M
    <3>1. i \in 1..M /\ i \in 0..M
      BY <1>2, <2>2
    <3>2. At(text, i, m, k) /\ v = text.lines[i].v
      BY <1>3, <1>4, <2>1, <3>1 DEF At
    <3> QED BY <1>1, <3>1, <3>2, RefFacts
  <2>3. CASE ~ (i =< M)
    <3>1. PICK j \in 1..K : i = M + j
      <4>1. i - M \in 1..K /\ i = M + (i - M)
        BY <1>2, <2>3
      <4> QED BY <4>1
    <3>2. m = x /\ s[j].k = k /\ v = s[j].v
      BY <1>3, <1>4, <2>1, <3>1 DEF At
    <3>3. s[j] \in Range(s)
      BY <1>1, <1>2, RangeFacts
    <3> QED BY <3>2, <3>3
  <2> QED BY <2>2, <2>3
<1>6. ASSUME NEW v, v \in Ref(text, m, k) PROVE v \in Ref(more, m, k)
  <2>1. PICK i \in 1..M : At(text, i, m, k) /\ v = text.lines[i].v
    BY <1>1, <1>6, RefFacts
  <2>2. i \in 1..(M + K) /\ i \in 0..M
    BY <1>2
  <2>3. At(more, i, m, k) /\ v = more.lines[i].v
    BY <1>3, <1>4, <2>1, <2>2 DEF At
  <2> QED BY <1>3, <2>2, <2>3, RefFacts
<1>7. ASSUME m = x, NEW l \in Range(s), l.k = k PROVE l.v \in Ref(more, m, k)
  <2>1. PICK j \in 1..K : l = s[j]
    BY <1>1, <1>2, RangeFacts
  <2>2. M + j \in 1..(M + K)
    BY <1>2
  <2>3. At(more, M + j, m, k) /\ l.v = more.lines[M + j].v
    BY <1>3, <1>4, <1>7, <2>1 DEF At
  <2> QED BY <1>3, <2>2, <2>3, RefFacts
<1>8. ASSUME NEW v
      PROVE  v \in Ref(more, m, k) <=> v \in Ref(text, m, k) \/ (m = x /\ Says(s, k, v))
  <2>1. v \in Ref(more, m, k) => v \in Ref(text, m, k) \/ (m = x /\ Says(s, k, v))
    BY <1>5 DEF Says
  <2>2. m = x /\ Says(s, k, v) => v \in Ref(more, m, k)
    BY <1>7 DEF Says
  <2> QED BY <1>6, <2>1, <2>2
<1> QED BY <1>8 DEF RefGrows

LEMMA RangeOne == \A a : Range(<<a>>) = {a}
BY DEF Range

LEMMA RangeTwo == \A a, b : Range(<<a, b>>) = {a, b}
<1> SUFFICES ASSUME NEW a, NEW b PROVE Range(<<a, b>>) = {a, b}
  OBVIOUS
<1>1. DOMAIN <<a, b>> = 1..2 /\ <<a, b>>[1] = a /\ <<a, b>>[2] = b
  OBVIOUS
<1>2. \A i : i \in 1..2 <=> i = 1 \/ i = 2
  OBVIOUS
<1> QED BY <1>1, <1>2 DEF Range

LEMMA LineType ==
  ASSUME NEW k \in Word, NEW v \in Seq(Word)
  PROVE  Line(k, v) \in LineSet /\ Line(k, v).k = k /\ Line(k, v).v = v
BY DEF Line, LineSet

\* Lines without m= do not end a section.
LEMMA SectionMore ==
  ASSUME NEW s, NEW x, IsSection(s, x), NEW t \in Seq(LineSet), \A l \in Range(t) : l.k # "m"
  PROVE  IsSection(s \o t, x) /\ Range(s \o t) = Range(s) \cup Range(t)
<1>1. s \in Seq(LineSet) /\ s # << >> /\ s[1].k = "m" /\ s[1].v[1] = x
      /\ \A j \in 2..Len(s) : s[j].k # "m"
  BY DEF IsSection
<1>2. PICK u : u = s \o t
  OBVIOUS
<1>3. /\ u \in Seq(LineSet) /\ Len(u) = Len(s) + Len(t) /\ Len(s) \in Nat /\ Len(t) \in Nat
      /\ \A i \in 1..Len(s) : u[i] = s[i]
      /\ \A i \in 1..Len(t) : u[Len(s) + i] = t[i]
  BY <1>1, <1>2, ConcatFacts
<1>4. Len(s) >= 1
  BY <1>1
<1>5. u # << >> /\ u[1] = s[1]
  BY <1>3, <1>4
<1>6. ASSUME NEW j \in 2..Len(u) PROVE u[j].k # "m"
  <2>1. CASE j =< Len(s)
    <3>1. j \in 2..Len(s) /\ j \in 1..Len(s)
      BY <1>3, <2>1
    <3> QED BY <1>1, <1>3, <3>1
  <2>2. CASE ~ (j =< Len(s))
    <3>1. PICK i : i = j - Len(s)
      OBVIOUS
    <3>2. i \in 1..Len(t) /\ j = Len(s) + i
      BY <1>3, <2>2, <3>1
    <3>3. u[j] = t[i] /\ t[i] \in Range(t)
      BY <1>3, <3>2, RangeFacts
    <3> QED BY <3>3
  <2> QED BY <2>1, <2>2
<1>7. IsSection(u, x)
  BY <1>1, <1>3, <1>5, <1>6 DEF IsSection
<1>8. Range(u) = Range(s) \cup Range(t)
  BY <1>1, <1>2, RangeConcat
<1> QED BY <1>2, <1>7, <1>8

\* The lines of a track: groups first, then each SSRC's.
GroupLines(t) == FlattenSeq([i \in 1..Len(t.groups) |->
    IF Len(t.groups[i]) = 1 THEN << >> ELSE <<Line("ssrc-group", t.groups[i])>>])
NameLines(t, x) == <<Line("ssrc", <<x, "cname", t.cname>>),
                     Line("ssrc", <<x, "msid", t.stream, t.id>>),
                     Line("ssrc", <<x, "mslabel", t.stream>>),
                     Line("ssrc", <<x, "label", t.id>>)>>

LEMMA NameLinesFacts ==
  ASSUME NEW t \in TrackSet, NEW x \in Word, NEW s, s = NameLines(t, x)
  PROVE  /\ s \in Seq(LineSet)
         /\ \A l \in Range(s) : l.k = "ssrc"
         /\ \A v : (\E l \in Range(s) : v = l.v) <=>
              v \in {<<x, "cname", t.cname>>, <<x, "msid", t.stream, t.id>>,
                     <<x, "mslabel", t.stream>>, <<x, "label", t.id>>}
<1>1. t.cname \in Word /\ t.stream \in Word /\ t.id \in Word
  BY DEF TrackSet
<1>2. "ssrc" \in Word /\ "cname" \in Word /\ "msid" \in Word /\ "mslabel" \in Word
      /\ "label" \in Word
  BY SdpAssumption DEF OwnWords
<1>3. PICK c, m, n, d : /\ c = <<x, "cname", t.cname>> /\ m = <<x, "msid", t.stream, t.id>>
                        /\ n = <<x, "mslabel", t.stream>> /\ d = <<x, "label", t.id>>
  OBVIOUS
<1>4. c \in Seq(Word) /\ m \in Seq(Word) /\ n \in Seq(Word) /\ d \in Seq(Word)
  BY <1>1, <1>2, <1>3
<1>5. PICK lc, lm, ln, ld : /\ lc = Line("ssrc", c) /\ lm = Line("ssrc", m)
                            /\ ln = Line("ssrc", n) /\ ld = Line("ssrc", d)
  OBVIOUS
<1>6. /\ lc \in LineSet /\ lm \in LineSet /\ ln \in LineSet /\ ld \in LineSet
      /\ lc.k = "ssrc" /\ lm.k = "ssrc" /\ ln.k = "ssrc" /\ ld.k = "ssrc"
      /\ lc.v = c /\ lm.v = m /\ ln.v = n /\ ld.v = d
  BY <1>2, <1>4, <1>5, LineType
<1>7. s = <<lc, lm, ln, ld>>
  BY <1>3, <1>5 DEF NameLines
<1>8. s \in Seq(LineSet) /\ Len(s) = 4 /\ s[1] = lc /\ s[2] = lm /\ s[3] = ln /\ s[4] = ld
  BY <1>6, <1>7
<1>9. \A i : i \in 1..4 <=> i = 1 \/ i = 2 \/ i = 3 \/ i = 4
  OBVIOUS
<1>10. \A l : l \in Range(s) <=> l = lc \/ l = lm \/ l = ln \/ l = ld
  <2>1. \A l : l \in Range(s) <=> \E i \in 1..4 : l = s[i]
    BY <1>8, RangeFacts
  <2> QED BY <1>8, <1>9, <2>1
<1> QED BY <1>3, <1>6, <1>8, <1>10

LEMMA GroupLinesFacts ==
  ASSUME NEW t \in TrackSet
  PROVE  /\ GroupLines(t) \in Seq(LineSet)
         /\ \A l \in Range(GroupLines(t)) : l.k = "ssrc-group"
         /\ \A v : (\E l \in Range(GroupLines(t)) : v = l.v) <=>
              v \in Range(t.groups) /\ Len(v) # 1
<1>1. PICK gs \in Seq(Seq(Word)) : gs = t.groups
  BY DEF TrackSet
<1>2. PICK ss : ss = [i \in 1..Len(gs) |-> IF Len(gs[i]) = 1 THEN << >>
                                           ELSE <<Line("ssrc-group", gs[i])>>]
  OBVIOUS
<1>3. "ssrc-group" \in Word
  BY SdpAssumption DEF OwnWords
<1>4. ASSUME NEW i \in 1..Len(gs)
      PROVE  /\ ss[i] \in Seq(LineSet)
             /\ \A l : l \in Range(ss[i]) <=> Len(gs[i]) # 1 /\ l = Line("ssrc-group", gs[i])
             /\ Line("ssrc-group", gs[i]).k = "ssrc-group" /\ Line("ssrc-group", gs[i]).v = gs[i]
  <2>1. PICK l : l = Line("ssrc-group", gs[i])
    OBVIOUS
  <2>2. l \in LineSet /\ l.k = "ssrc-group" /\ l.v = gs[i]
    BY <1>3, <2>1, LineType
  <2>3. ss[i] = IF Len(gs[i]) = 1 THEN << >> ELSE <<l>>
    BY <1>2, <2>1
  <2>4. <<l>> \in Seq(LineSet) /\ << >> \in Seq(LineSet) /\ Range(<< >>) = {} /\ Range(<<l>>) = {l}
    <3>1. Range(<< >>) = {}
      BY DEF Range
    <3> QED BY <2>2, <3>1, RangeOne
  <2> QED BY <2>1, <2>2, <2>3, <2>4
<1>5. ss \in Seq(Seq(LineSet)) /\ Len(ss) = Len(gs)
  <2>1. Len(gs) \in Nat
    OBVIOUS
  <2>2. ss = [i \in 1..Len(gs) |-> ss[i]]
    BY <1>2
  <2> QED BY <1>4, <2>1, <2>2
<1>6. GroupLines(t) = FlattenSeq(ss)
  BY <1>1, <1>2 DEF GroupLines
<1>7. /\ FlattenSeq(ss) \in Seq(LineSet)
      /\ \A l : l \in Range(FlattenSeq(ss)) <=> \E i \in 1..Len(ss) : l \in Range(ss[i])
  BY <1>5, FlattenFacts
<1>8. \A v : v \in Range(gs) <=> \E i \in 1..Len(gs) : v = gs[i]
  BY RangeFacts
<1>9. \A l : l \in Range(FlattenSeq(ss)) <=>
               \E i \in 1..Len(gs) : Len(gs[i]) # 1 /\ l = Line("ssrc-group", gs[i])
  BY <1>4, <1>5, <1>7
<1>10. \A l \in Range(FlattenSeq(ss)) : l.k = "ssrc-group"
  BY <1>4, <1>9
<1>11. \A v : (\E l \in Range(FlattenSeq(ss)) : v = l.v) <=>
               \E i \in 1..Len(gs) : Len(gs[i]) # 1 /\ v = gs[i]
  BY <1>4, <1>9
<1>12. \A v : (\E l \in Range(FlattenSeq(ss)) : v = l.v) <=> v \in Range(gs) /\ Len(v) # 1
  <2> TAKE v
  <2>1. (\E i \in 1..Len(gs) : Len(gs[i]) # 1 /\ v = gs[i]) <=> v \in Range(gs) /\ Len(v) # 1
    BY <1>8
  <2> QED BY <1>11, <2>1
<1> QED BY <1>1, <1>6, <1>7, <1>10, <1>12

\* What the lines of a track say of SSRC x.
Names(t, x, v) == v \in {<<x, "cname", t.cname>>, <<x, "msid", t.stream, t.id>>,
                         <<x, "mslabel", t.stream>>, <<x, "label", t.id>>}

LEMMA SsrcLinesFacts ==
  ASSUME NEW t \in TrackSet, NEW s, s = SsrcLines(t)
  PROVE  /\ s \in Seq(LineSet) /\ \A l \in Range(s) : l.k \in {"ssrc", "ssrc-group"}
         /\ \A v : Says(s, "ssrc", v) <=> \E x \in Range(t.ssrcs) : Names(t, x, v)
         /\ \A v : Says(s, "ssrc-group", v) <=> v \in Range(t.groups) /\ Len(v) # 1
<1>1. PICK xs \in Seq(Word) : xs = t.ssrcs
  BY DEF TrackSet
<1>2. PICK ss : ss = [i \in 1..Len(xs) |-> NameLines(t, xs[i])]
  OBVIOUS
<1>3. \A i \in 1..Len(xs) :
        /\ ss[i] \in Seq(LineSet) /\ \A l \in Range(ss[i]) : l.k = "ssrc"
        /\ \A v : (\E l \in Range(ss[i]) : v = l.v) <=> Names(t, xs[i], v)
  <2> TAKE i \in 1..Len(xs)
  <2>1. ss[i] = NameLines(t, xs[i]) /\ xs[i] \in Word
    BY <1>2
  <2> QED BY <2>1, NameLinesFacts DEF Names
<1>4. ss \in Seq(Seq(LineSet)) /\ Len(ss) = Len(xs)
  <2>1. Len(xs) \in Nat
    OBVIOUS
  <2>2. ss = [i \in 1..Len(xs) |-> ss[i]]
    BY <1>2
  <2> QED BY <1>3, <2>1, <2>2
<1>5. PICK n : n = FlattenSeq(ss)
  OBVIOUS
<1>6. n \in Seq(LineSet) /\ \A l : l \in Range(n) <=> \E i \in 1..Len(xs) : l \in Range(ss[i])
  BY <1>4, <1>5, FlattenFacts
<1>7. PICK g : g = GroupLines(t)
  OBVIOUS
<1>8. /\ g \in Seq(LineSet) /\ \A l \in Range(g) : l.k = "ssrc-group"
      /\ \A v : (\E l \in Range(g) : v = l.v) <=> v \in Range(t.groups) /\ Len(v) # 1
  BY <1>7, GroupLinesFacts
<1>9. s = g \o n
  <2>1. ss = [i \in 1..Len(t.ssrcs) |->
                <<Line("ssrc", <<t.ssrcs[i], "cname", t.cname>>),
                  Line("ssrc", <<t.ssrcs[i], "msid", t.stream, t.id>>),
                  Line("ssrc", <<t.ssrcs[i], "mslabel", t.stream>>),
                  Line("ssrc", <<t.ssrcs[i], "label", t.id>>)>>]
    BY <1>1, <1>2 DEF NameLines
  <2> QED BY <1>5, <1>7, <2>1 DEF SsrcLines, GroupLines
<1>10. s \in Seq(LineSet) /\ Range(s) = Range(g) \cup Range(n)
  BY <1>6, <1>8, <1>9, ConcatFacts, RangeConcat
<1>11. \A l \in Range(n) : l.k = "ssrc"
  BY <1>3, <1>6
<1>12. \A l \in Range(s) : l.k \in {"ssrc", "ssrc-group"}
  BY <1>8, <1>10, <1>11
<1>13. ASSUME NEW v PROVE Says(s, "ssrc-group", v) <=> v \in Range(t.groups) /\ Len(v) # 1
  <2>1. Says(s, "ssrc-group", v) <=> \E l \in Range(g) : v = l.v
    BY <1>8, <1>10, <1>11 DEF Says
  <2> QED BY <1>8, <2>1
<1>14. ASSUME NEW v PROVE Says(s, "ssrc", v) <=> \E x \in Range(t.ssrcs) : Names(t, x, v)
  <2>1. Says(s, "ssrc", v) <=> \E l \in Range(n) : v = l.v
    BY <1>8, <1>10, <1>11 DEF Says
  <2>2. (\E l \in Range(n) : v = l.v) <=> \E i \in 1..Len(xs) : Names(t, xs[i], v)
    <3>1. (\E l \in Range(n) : v = l.v) <=> \E i \in 1..Len(xs) : \E l \in Range(ss[i]) : v = l.v
      BY <1>6
    <3>2. \A i \in 1..Len(xs) : (\E l \in Range(ss[i]) : v = l.v) <=> Names(t, xs[i], v)
      BY <1>3
    <3> QED BY <3>1, <3>2
  <2>3. \A x : x \in Range(xs) <=> \E i \in 1..Len(xs) : x = xs[i]
    BY RangeFacts
  <2> QED BY <1>1, <2>1, <2>2, <2>3
<1> QED BY <1>10, <1>12, <1>13, <1>14

\* The lines of the tracks of a section.
StreamLines(c) == FlattenSeq([i \in 1..Len(c.streams) |-> SsrcLines(c.streams[i])])

LEMMA StreamLinesFacts ==
  ASSUME NEW c \in ContentSet, NEW s, s = StreamLines(c)
  PROVE  /\ s \in Seq(LineSet) /\ \A l \in Range(s) : l.k \in {"ssrc", "ssrc-group"}
         /\ \A v : Says(s, "ssrc", v) <=>
              \E t \in Range(c.streams) : \E x \in Range(t.ssrcs) : Names(t, x, v)
         /\ \A v : Says(s, "ssrc-group", v) <=>
              \E t \in Range(c.streams) : v \in Range(t.groups) /\ Len(v) # 1
<1>1. PICK ts \in Seq(TrackSet) : ts = c.streams
  BY DEF ContentSet
<1>2. PICK ss : ss = [i \in 1..Len(ts) |-> SsrcLines(ts[i])]
  OBVIOUS
<1>3. \A i \in 1..Len(ts) :
        /\ ss[i] \in Seq(LineSet) /\ \A l \in Range(ss[i]) : l.k \in {"ssrc", "ssrc-group"}
        /\ \A v : Says(ss[i], "ssrc", v) <=> \E x \in Range(ts[i].ssrcs) : Names(ts[i], x, v)
        /\ \A v : Says(ss[i], "ssrc-group", v) <=> v \in Range(ts[i].groups) /\ Len(v) # 1
  <2> TAKE i \in 1..Len(ts)
  <2>1. PICK t \in TrackSet : t = ts[i]
    OBVIOUS
  <2>2. ss[i] = SsrcLines(t)
    BY <1>2, <2>1
  <2> QED BY <2>1, <2>2, SsrcLinesFacts
<1>4. ss \in Seq(Seq(LineSet)) /\ Len(ss) = Len(ts)
  <2>1. Len(ts) \in Nat
    OBVIOUS
  <2>2. ss = [i \in 1..Len(ts) |-> ss[i]]
    BY <1>2
  <2> QED BY <1>3, <2>1, <2>2
<1>5. s = FlattenSeq(ss)
  BY <1>1, <1>2 DEF StreamLines
<1>6. s \in Seq(LineSet) /\ \A l : l \in Range(s) <=> \E i \in 1..Len(ts) : l \in Range(ss[i])
  BY <1>4, <1>5, FlattenFacts
<1>7. \A l \in Range(s) : l.k \in {"ssrc", "ssrc-group"}
  BY <1>3, <1>6
<1>8. \A k, v : Says(s, k, v) <=> \E i \in 1..Len(ts) : Says(ss[i], k, v)
  BY <1>6 DEF Says
<1>9. \A t : t \in Range(ts) <=> \E i \in 1..Len(ts) : t = ts[i]
  BY RangeFacts
<1>10. ASSUME NEW v
       PROVE  Says(s, "ssrc", v) <=> \E t \in Range(ts) : \E x \in Range(t.ssrcs) : Names(t, x, v)
  <2>1. Says(s, "ssrc", v) <=> \E i \in 1..Len(ts) : \E x \in Range(ts[i].ssrcs) : Names(ts[i], x, v)
    BY <1>3, <1>8
  <2> QED BY <1>9, <2>1
<1>11. ASSUME NEW v
       PROVE  Says(s, "ssrc-group", v) <=> \E t \in Range(ts) : v \in Range(t.groups) /\ Len(v) # 1
  <2>1. Says(s, "ssrc-group", v) <=> \E i \in 1..Len(ts) : v \in Range(ts[i].groups) /\ Len(v) # 1
    BY <1>3, <1>8
  <2> QED BY <1>9, <2>1
<1> QED BY <1>1, <1>6, <1>7, <1>10, <1>11

-----------------------------------------------------------------------------
(* The text of an offer *)

\* s has one line of kind k for each element of f.
EachSays(s, k, f) ==
  /\ s \in Seq(LineSet) /\ \A l \in Range(s) : l.k = k
  /\ \A v : Says(s, k, v) <=> v \in {<<x>> : x \in Range(f)}

LEMMA OneLineEach ==
  ASSUME NEW k \in Word, NEW f \in Seq(Word), NEW s
  PROVE  s = [i \in 1..Len(f) |-> Line(k, <<f[i]>>)] => EachSays(s, k, f)
<1>0. HAVE s = [i \in 1..Len(f) |-> Line(k, <<f[i]>>)]
<1>1. PICK n \in Nat : n = Len(f)
  OBVIOUS
<1>2. \A i \in 1..n : f[i] \in Word
  BY <1>1
<1>3. ASSUME NEW i \in 1..n PROVE s[i] \in LineSet /\ s[i].k = k /\ s[i].v = <<f[i]>>
  <2>1. PICK w : w = <<f[i]>> /\ w \in Seq(Word)
    <3>1. PICK y \in Word : y = f[i]
      BY <1>2
    <3>2. <<y>> \in Seq(Word)
      OBVIOUS
    <3> QED BY <3>1, <3>2
  <2>2. s[i] = Line(k, w)
    BY <1>0, <1>1, <2>1
  <2>3. Line(k, w) \in LineSet /\ Line(k, w).k = k /\ Line(k, w).v = w
    BY <2>1, LineType
  <2> QED BY <2>1, <2>2, <2>3, Zenon
<1>4. s = [i \in 1..n |-> s[i]]
  <2>1. s = [i \in 1..n |-> Line(k, <<f[i]>>)]
    BY <1>0, <1>1
  <2> QED BY <2>1
<1>5. s \in Seq(LineSet) /\ Len(s) = n
  BY <1>3, <1>4
<1>6. \A l : l \in Range(s) <=> \E i \in 1..n : l = s[i]
  <2>1. \A l : l \in Range(s) <=> \E i \in 1..Len(s) : l = s[i]
    BY <1>5, RangeFacts
  <2> QED BY <1>5, <2>1
<1>7. \A x : x \in Range(f) <=> \E i \in 1..n : x = f[i]
  <2>1. \A x : x \in Range(f) <=> \E i \in 1..Len(f) : x = f[i]
    BY RangeFacts
  <2> QED BY <1>1, <2>1
<1>8. \A l \in Range(s) : l.k = k
  BY <1>3, <1>6
<1>9. ASSUME NEW v PROVE Says(s, k, v) <=> v \in {<<x>> : x \in Range(f)}
  <2>1. ASSUME Says(s, k, v) PROVE \E x \in Range(f) : v = <<x>>
    <3>1. PICK l \in Range(s) : l.v = v
      BY <2>1 DEF Says
    <3>2. PICK i \in 1..n : l = s[i]
      BY <1>6
    <3>3. v = <<f[i]>> /\ f[i] \in Range(f)
      BY <1>3, <1>7, <3>1, <3>2
    <3> QED BY <3>3
  <2>2. ASSUME NEW x \in Range(f), v = <<x>> PROVE Says(s, k, v)
    <3>1. PICK i \in 1..n : x = f[i]
      BY <1>7
    <3>2. s[i] \in Range(s) /\ s[i].k = k /\ s[i].v = v
      BY <1>3, <1>6, <2>2, <3>1
    <3> QED BY <3>2 DEF Says
  <2> QED BY <2>1, <2>2
<1> QED BY <1>5, <1>8, <1>9 DEF EachSays

LEMMA CandidateLinesFacts ==
  ASSUME NEW c \in ContentSet, NEW s, s = CandidateLines(c)
  PROVE  /\ s \in Seq(LineSet) /\ \A l \in Range(s) : l.k = "candidate"
         /\ \A v : Says(s, "candidate", v) <=> v \in {<<x>> : x \in Range(c.cands)}
<1>1. PICK cs \in Seq(Word) : cs = c.cands
  BY DEF ContentSet
<1>2. s = [i \in 1..Len(cs) |-> Line("candidate", <<cs[i]>>)]
  BY <1>1 DEF CandidateLines
<1>3. "candidate" \in Word
  BY SdpAssumption DEF OwnWords
<1>4. EachSays(s, "candidate", cs)
  BY <1>2, <1>3, OneLineEach, Zenon
<1> QED BY <1>1, <1>4 DEF EachSays

LEMMA CodecsFacts ==
  ASSUME NEW m
  PROVE  Codecs(m) \in Seq(Word)
<1>1. "111" \in Word /\ "96" \in Word /\ "97" \in Word
  BY SdpAssumption DEF OwnWords
<1> QED BY <1>1 DEF Codecs

LEMMA RtpMapLinesFacts ==
  ASSUME NEW c \in ContentSet, NEW s, s = RtpMapLines(c)
  PROVE  s \in Seq(LineSet) /\ \A l \in Range(s) : l.k = "codec"
<1>1. PICK cs : cs = Codecs(c.mid)
  OBVIOUS
<1>2. cs \in Seq(Word)
  BY <1>1, CodecsFacts
<1>3. s = [i \in 1..Len(cs) |-> Line("codec", <<cs[i]>>)]
  BY <1>1 DEF RtpMapLines
<1>4. "codec" \in Word
  BY SdpAssumption DEF OwnWords
<1>5. EachSays(s, "codec", cs)
  BY <1>2, <1>3, <1>4, OneLineEach, Zenon
<1> QED BY <1>5 DEF EachSays

LEMMA TransportLinesFacts ==
  ASSUME NEW td \in TdSet, td.fp \in Word, NEW s, s = TransportLines(td)
  PROVE  /\ s \in Seq(LineSet)
         /\ \A l \in Range(s) : l.k \in {"ufrag", "pwd", "fingerprint", "setup"}
         /\ \A v : Says(s, "ufrag", v) <=> v = <<td.ufrag>>
<1>1. td # Null /\ td.fp # Null
  BY SdpAssumption
<1>2. PICK u, p, f, r : /\ u = Line("ufrag", <<td.ufrag>>) /\ p = Line("pwd", <<td.pwd>>)
                        /\ f = Line("fingerprint", <<td.alg, td.fp>>)
                        /\ r = Line("setup", <<td.role>>)
  OBVIOUS
<1>3. s = <<u, p>> \o <<f, r>>
  BY <1>1, <1>2 DEF TransportLines
<1>4. "ufrag" \in Word /\ "pwd" \in Word /\ "fingerprint" \in Word /\ "setup" \in Word
  BY SdpAssumption DEF OwnWords
<1>5. td.ufrag \in Word /\ td.pwd \in Word /\ td.alg \in Word /\ td.role \in Word
  BY DEF TdSet
<1>6. <<td.ufrag>> \in Seq(Word) /\ <<td.pwd>> \in Seq(Word)
      /\ <<td.alg, td.fp>> \in Seq(Word) /\ <<td.role>> \in Seq(Word)
  BY <1>5
<1>7. u \in LineSet /\ u.k = "ufrag" /\ u.v = <<td.ufrag>>
  BY <1>2, <1>4, <1>6, LineType
<1>8. p \in LineSet /\ p.k = "pwd" /\ f \in LineSet /\ f.k = "fingerprint"
      /\ r \in LineSet /\ r.k = "setup"
  BY <1>2, <1>4, <1>6, LineType
<1>9. <<u, p>> \in Seq(LineSet) /\ <<f, r>> \in Seq(LineSet)
  BY <1>7, <1>8
<1>10. s \in Seq(LineSet) /\ Range(s) = {u, p} \cup {f, r}
  <2>1. Range(<<u, p>>) = {u, p} /\ Range(<<f, r>>) = {f, r}
    BY RangeTwo
  <2>2. PICK a \in Seq(LineSet), b \in Seq(LineSet) : a = <<u, p>> /\ b = <<f, r>>
    BY <1>9
  <2>3. a \o b \in Seq(LineSet) /\ Range(a \o b) = Range(a) \cup Range(b)
    BY RangeConcat, ConcatFacts
  <2> QED BY <1>3, <2>1, <2>2, <2>3
<1>11. \A l \in Range(s) : l.k \in {"ufrag", "pwd", "fingerprint", "setup"}
  BY <1>7, <1>8, <1>10
<1>12. \A v : Says(s, "ufrag", v) <=> v = <<td.ufrag>>
  BY <1>7, <1>8, <1>10 DEF Says
<1> QED BY <1>10, <1>11, <1>12

\* A section of an offer with the transport td.
OfferSection(c, td) ==
  <<Line("m", <<c.mid, "9", "SAVPF">> \o Codecs(c.mid))>>
    \o CandidateLines(c) \o TransportLines(td)
    \o <<Line("mid", <<c.mid>>), DirectionLine(c)>>
    \o RtpMapLines(c)
    \o StreamLines(c)

LEMMA OfferSectionFacts ==
  ASSUME NEW c \in ContentSet, NEW td \in TdSet, td.fp \in Word,
         NEW s, s = OfferSection(c, td)
  PROVE  /\ IsSection(s, c.mid)
         /\ \A v : Says(s, "ufrag", v) <=> v = <<td.ufrag>>
         /\ \A v : Says(s, "candidate", v) <=> v \in {<<x>> : x \in Range(c.cands)}
         /\ \A k \in {"ssrc", "ssrc-group"} : \A v : Says(s, k, v) <=> Says(StreamLines(c), k, v)
         /\ \E v : Says(s, "m", v)
         /\ \A l \in Range(s) : l.k # "bundle"
<1>1. c.mid \in Mids /\ c.mid \in Word /\ c.dir \in Word
  <2>1. Mids \subseteq Word
    BY SdpAssumption DEF OwnWords, Mids
  <2> QED BY <2>1 DEF ContentSet
<1>2. "m" \in Word /\ "mid" \in Word /\ "direction" \in Word /\ "9" \in Word /\ "SAVPF" \in Word
  BY SdpAssumption DEF OwnWords
<1>3. PICK w, m : w = <<c.mid, "9", "SAVPF">> \o Codecs(c.mid) /\ m = Line("m", w)
  OBVIOUS
<1>4. w \in Seq(Word) /\ w[1] = c.mid
  <2>1. PICK h : h = <<c.mid, "9", "SAVPF">>
    OBVIOUS
  <2>2. h \in Seq(Word) /\ Len(h) = 3 /\ h[1] = c.mid
    BY <1>1, <1>2, <2>1
  <2>3. Codecs(c.mid) \in Seq(Word) /\ 1 \in 1..Len(h)
    BY <2>2, CodecsFacts
  <2>4. h \o Codecs(c.mid) \in Seq(Word) /\ (h \o Codecs(c.mid))[1] = h[1]
    BY <2>2, <2>3, ConcatFacts
  <2> QED BY <1>3, <2>1, <2>2, <2>4
<1>5. m \in LineSet /\ m.k = "m" /\ m.v = w
  <2>1. m = Line("m", w)
    BY <1>3
  <2> QED BY <1>2, <1>4, <2>1, LineType
<1>6. PICK C, T, D, R, S : /\ C = CandidateLines(c) /\ T = TransportLines(td)
                           /\ D = <<Line("mid", <<c.mid>>), DirectionLine(c)>>
                           /\ R = RtpMapLines(c) /\ S = StreamLines(c)
  OBVIOUS
<1>7. s = <<m>> \o C \o T \o D \o R \o S
  BY <1>3, <1>6 DEF OfferSection
<1>8. IsSection(<<m>>, c.mid) /\ Range(<<m>>) = {m}
  <2>1. <<m>> \in Seq(LineSet) /\ Len(<<m>>) = 1 /\ <<m>>[1] = m /\ <<m>> # << >>
    BY <1>5
  <2>2. \A j \in 2..1 : <<m>>[j].k # "m"
    OBVIOUS
  <2>3. IsSection(<<m>>, c.mid)
    BY <1>4, <1>5, <2>1, <2>2 DEF IsSection
  <2> QED BY <2>3, RangeOne
<1>9. /\ C \in Seq(LineSet) /\ \A l \in Range(C) : l.k = "candidate"
      /\ \A v : Says(C, "candidate", v) <=> v \in {<<x>> : x \in Range(c.cands)}
  BY <1>6, CandidateLinesFacts
<1>10. /\ T \in Seq(LineSet)
       /\ \A l \in Range(T) : l.k \in {"ufrag", "pwd", "fingerprint", "setup"}
       /\ \A v : Says(T, "ufrag", v) <=> v = <<td.ufrag>>
  BY <1>6, TransportLinesFacts
<1>11. D \in Seq(LineSet) /\ \A l \in Range(D) : l.k \in {"mid", "direction"}
  <2>1. PICK a, b : a = Line("mid", <<c.mid>>) /\ b = DirectionLine(c)
    OBVIOUS
  <2>2. <<c.mid>> \in Seq(Word) /\ <<c.dir>> \in Seq(Word)
    BY <1>1
  <2>3. a \in LineSet /\ a.k = "mid" /\ b \in LineSet /\ b.k = "direction"
    BY <1>2, <2>1, <2>2, LineType DEF DirectionLine
  <2>4. D = <<a, b>>
    BY <1>6, <2>1
  <2>5. D \in Seq(LineSet) /\ Range(D) = {a, b}
    BY <2>3, <2>4, RangeTwo
  <2> QED BY <2>3, <2>5
<1>12. R \in Seq(LineSet) /\ \A l \in Range(R) : l.k = "codec"
  BY <1>6, RtpMapLinesFacts
<1>13. S \in Seq(LineSet) /\ \A l \in Range(S) : l.k \in {"ssrc", "ssrc-group"}
  BY <1>6, StreamLinesFacts
<1>14. PICK s1, s2, s3, s4 : /\ s1 = <<m>> \o C /\ s2 = s1 \o T /\ s3 = s2 \o D /\ s4 = s3 \o R
  OBVIOUS
<1>15. s = s4 \o S
  BY <1>7, <1>14
<1>16. IsSection(s1, c.mid) /\ Range(s1) = {m} \cup Range(C)
  BY <1>8, <1>9, <1>14, SectionMore
<1>17. IsSection(s2, c.mid) /\ Range(s2) = Range(s1) \cup Range(T)
  BY <1>10, <1>14, <1>16, SectionMore
<1>18. IsSection(s3, c.mid) /\ Range(s3) = Range(s2) \cup Range(D)
  BY <1>11, <1>14, <1>17, SectionMore
<1>19. IsSection(s4, c.mid) /\ Range(s4) = Range(s3) \cup Range(R)
  BY <1>12, <1>14, <1>18, SectionMore
<1>20. IsSection(s, c.mid) /\ Range(s) = Range(s4) \cup Range(S)
  BY <1>13, <1>15, <1>19, SectionMore
<1>21. \A l : l \in Range(s) <=> \/ l = m \/ l \in Range(C) \/ l \in Range(T) \/ l \in Range(D)
                                 \/ l \in Range(R) \/ l \in Range(S)
  BY <1>16, <1>17, <1>18, <1>19, <1>20
<1>22. \A v : Says(s, "ufrag", v) <=> v = <<td.ufrag>>
  <2>1. \A v : Says(s, "ufrag", v) <=> Says(T, "ufrag", v)
    BY <1>5, <1>9, <1>11, <1>12, <1>13, <1>21 DEF Says
  <2> QED BY <1>10, <2>1
<1>23. \A v : Says(s, "candidate", v) <=> v \in {<<x>> : x \in Range(c.cands)}
  <2>1. \A v : Says(s, "candidate", v) <=> Says(C, "candidate", v)
    BY <1>5, <1>10, <1>11, <1>12, <1>13, <1>21 DEF Says
  <2> QED BY <1>9, <2>1
<1>24. \A k \in {"ssrc", "ssrc-group"} : \A v : Says(s, k, v) <=> Says(StreamLines(c), k, v)
  <2>1. \A k \in {"ssrc", "ssrc-group"} : \A v : Says(s, k, v) <=> Says(S, k, v)
    BY <1>5, <1>9, <1>10, <1>11, <1>12, <1>21 DEF Says
  <2> QED BY <1>6, <2>1
<1>25. \E v : Says(s, "m", v)
  BY <1>5, <1>21 DEF Says
<1>26. \A l \in Range(s) : l.k # "bundle"
  BY <1>5, <1>9, <1>10, <1>11, <1>12, <1>13, <1>21
<1> QED BY <1>20, <1>22, <1>23, <1>24, <1>25, <1>26

\* The lines of an offer before its first section.
BundleText(mids) == [lines |-> <<Line("bundle", mids)>>, rn |-> TRUE, end |-> TRUE]

LEMMA BundleTextFacts ==
  ASSUME NEW mids \in Seq(Word), NEW text, text = BundleText(mids)
  PROVE  /\ text \in TextSet /\ Len(text.lines) = 1
         /\ text.lines[1].k = "bundle" /\ text.lines[1].v = mids
         /\ \A m \in Mids : \A k : Ref(text, m, k) = {}
<1>1. PICK b : b = Line("bundle", mids)
  OBVIOUS
<1>2. b \in LineSet /\ b.k = "bundle" /\ b.v = mids
  <2>1. "bundle" \in Word
    BY SdpAssumption DEF OwnWords
  <2>2. Line("bundle", mids) \in LineSet /\ Line("bundle", mids).k = "bundle"
        /\ Line("bundle", mids).v = mids
    BY <2>1, LineType
  <2> QED BY <1>1, <2>2
<1>3. PICK ls : ls = <<b>>
  OBVIOUS
<1>4. text.lines = ls /\ text.rn = TRUE /\ text.end = TRUE
      /\ text = [lines |-> ls, rn |-> TRUE, end |-> TRUE]
  BY <1>1, <1>3 DEF BundleText
<1>5. ls \in Seq(LineSet) /\ Len(ls) = 1 /\ ls[1] = b
  BY <1>2, <1>3
<1>6. text \in TextSet
  BY <1>4, <1>5 DEF TextSet
<1>7. ASSUME NEW m \in Mids, NEW k PROVE Ref(text, m, k) = {}
  <2>1. \A i : i \notin {j \in 1..1 : text.lines[j].k = "m"}
    BY <1>2, <1>4, <1>5
  <2>2. SectionOf(text, 1) = NoWord
    BY <2>1 DEF SectionOf
  <2>3. m # NoWord
    BY NoWordFacts
  <2>4. \A i \in 1..Len(text.lines) : i = 1
    BY <1>4, <1>5
  <2> QED BY <2>2, <2>3, <2>4 DEF Ref
<1> QED BY <1>2, <1>4, <1>5, <1>6, <1>7

\* The bundle is in the first line, and an offer with one more section x.
BundleFirst(text) == /\ text \in TextSet /\ Len(text.lines) >= 1
                     /\ \A i \in 1..Len(text.lines) : text.lines[i].k = "bundle" <=> i = 1
Grown(more, text, x, s) ==
  /\ more.lines[1] = text.lines[1]
  /\ \A m, k, v : v \in Ref(more, m, k) <=> v \in Ref(text, m, k) \/ (m = x /\ Says(s, k, v))

LEMMA WithSection ==
  ASSUME NEW text, BundleFirst(text), NEW c \in ContentSet, NEW td \in TdSet, td.fp \in Word,
         NEW sec, sec = OfferSection(c, td), NEW more, more = [text EXCEPT !.lines = @ \o sec]
  PROVE  BundleFirst(more) /\ Grown(more, text, c.mid, sec)
<1>1. PICK s : s = OfferSection(c, td) /\ s = sec
  OBVIOUS
<1>2. IsSection(s, c.mid) /\ \A l \in Range(s) : l.k # "bundle"
  BY <1>1, OfferSectionFacts
<1>3. text \in TextSet
  BY DEF BundleFirst
<1>4. PICK ls \in Seq(LineSet) : ls = text.lines
  BY <1>3 DEF TextSet
<1>5. PICK M \in Nat : /\ ls = text.lines /\ M = Len(ls) /\ M >= 1
                       /\ \A i \in 1..M : ls[i].k = "bundle" <=> i = 1
  <2>1. Len(ls) \in Nat
    OBVIOUS
  <2>2. ls = text.lines /\ Len(ls) >= 1 /\ \A i \in 1..Len(ls) : ls[i].k = "bundle" <=> i = 1
    BY <1>4 DEF BundleFirst
  <2> QED BY <2>1, <2>2, Zenon
<1>6. s \in Seq(LineSet)
  BY <1>2 DEF IsSection
<1>7. PICK K \in Nat : K = Len(s)
  BY <1>6
<1>8. PICK all : all = ls \o s
  OBVIOUS
<1>9. all \in Seq(LineSet) /\ Len(all) = M + K
      /\ (\A i \in 1..M : all[i] = ls[i]) /\ (\A i \in 1..K : all[M + i] = s[i])
  BY <1>5, <1>6, <1>7, <1>8
<1>10. more.lines = all /\ more \in TextSet
  BY <1>1, <1>3, <1>5, <1>8, <1>9 DEF TextSet
<1>11. ASSUME NEW i \in 1..Len(all) PROVE all[i].k = "bundle" <=> i = 1
  <2>1. CASE i \in 1..M
    BY <1>5, <1>9, <2>1
  <2>2. CASE i \notin 1..M
    <3>1. i - M \in 1..K /\ i = M + (i - M) /\ i # 1
      BY <1>5, <1>9, <2>2
    <3>2. all[i] = s[i - M] /\ s[i - M] \in Range(s)
      <4>1. all[M + (i - M)] = s[i - M]
        BY <1>9, <3>1
      <4>2. \A j \in 1..Len(s) : s[j] \in Range(s)
        BY <1>6, RangeFacts
      <4> QED BY <1>7, <3>1, <4>1, <4>2
    <3> QED BY <1>2, <3>1, <3>2
  <2> QED BY <2>1, <2>2
<1>12. Len(all) >= 1 /\ all[1] = ls[1]
  <2>1. 1 \in 1..M
    BY <1>5
  <2>2. all[1] = ls[1]
    BY <1>9, <2>1
  <2>3. Len(all) >= 1
    BY <1>5, <1>7, <1>9
  <2> QED BY <2>2, <2>3
<1>13. ASSUME NEW m, NEW k, NEW v
       PROVE v \in Ref(more, m, k) <=> \/ v \in Ref(text, m, k)
                                       \/ m = c.mid /\ Says(s, k, v)
  <2>1. more.lines = text.lines \o s
    BY <1>5, <1>8, <1>10
  <2>2. PICK x : x = c.mid
    OBVIOUS
  <2>3. more \in TextSet /\ IsSection(s, x)
    BY <1>2, <1>10, <2>2
  <2>4. RefGrows(more, text, s, x, m, k)
    BY <1>3, <2>1, <2>3, RefConcat, Zenon
  <2> QED BY <2>2, <2>4 DEF RefGrows
<1>14. BundleFirst(more)
  BY <1>10, <1>11, <1>12 DEF BundleFirst
<1>15. Grown(more, text, c.mid, s)
  BY <1>5, <1>10, <1>12, <1>13, Zenon DEF Grown
<1> QED BY <1>1, <1>14, <1>15

-----------------------------------------------------------------------------
(* The local description *)

\* The sections of a stream: one or two, and never the same one twice.
MidsOf(mids) == /\ mids \in Seq(Mids) /\ mids \in Seq(Word) /\ Len(mids) \in {1, 2}
                /\ Len(mids) = 1 => mids = <<mids[1]>>
                /\ Len(mids) = 2 => mids = <<mids[1], mids[2]>>
                /\ \A i, j \in 1..Len(mids) : mids[i] = mids[j] => i = j

LEMMA MediaFacts ==
  ASSUME NEW mids \in Media PROVE MidsOf(mids)
<1>1. mids \in {<<"audio">>, <<"video">>, <<"audio", "video">>}
  BY NegotiationAssumption
<1>2. "audio" \in Mids /\ "video" \in Mids /\ "audio" \in Word /\ "video" \in Word
  BY SdpAssumption DEF OwnWords, Mids
<1>3. ASSUME NEW x \in Mids, x \in Word, mids = <<x>> PROVE MidsOf(mids)
  BY <1>3 DEF MidsOf
<1>4. ASSUME mids = <<"audio", "video">> PROVE MidsOf(mids)
  <2>1. PICK a, v : a = "audio" /\ v = "video" /\ a # v
    OBVIOUS
  <2>2. mids = <<a, v>> /\ a \in Mids /\ v \in Mids /\ a \in Word /\ v \in Word
    BY <1>2, <1>4, <2>1
  <2>3. mids \in Seq(Mids) /\ mids \in Seq(Word) /\ Len(mids) = 2 /\ mids[1] = a /\ mids[2] = v
    BY <2>2
  <2>4. \A i, j \in 1..2 : mids[i] = mids[j] => i = j
    BY <2>1, <2>3
  <2> QED BY <2>2, <2>3, <2>4 DEF MidsOf
<1> QED BY <1>1, <1>2, <1>3, <1>4

OnlyAt(s, x, i) == i \in 1..Len(s) /\ \A j \in 1..Len(s) : s[j].mid = x <=> j = i
Nowhere(s, x) == \A j \in 1..Len(s) : s[j].mid # x

LEMMA GetContentIs ==
  ASSUME NEW desc, NEW S, NEW s \in Seq(S), NEW x, NEW n \in 1..Len(s),
         OnlyAt(s, x, n)
  PROVE  s = desc.contents => GetContent(desc, x) = s[n]
<1>0. HAVE s = desc.contents
<1>1. PICK o : o = SelectInSeq(s, LAMBDA c : c.mid = x)
  OBVIOUS
<1>2. Found(o, {i \in 1..Len(s) : s[i].mid = x})
  <2>1. Found(SelectInSeq(s, LAMBDA c : c.mid = x), {i \in 1..Len(s) : s[i].mid = x})
    BY SelectMid
  <2> QED BY <1>1, <2>1
<1>3. \A j : j \in {i \in 1..Len(s) : s[i].mid = x} <=> j = n
  BY DEF OnlyAt
<1>4. o # 0 /\ o = n
  BY <1>2, <1>3 DEF Found
<1> QED BY <1>0, <1>1, <1>4 DEF GetContent, First

LEMMA GetTransportInfoIs ==
  ASSUME NEW desc, NEW S, NEW s \in Seq(S), NEW x, NEW n \in 1..Len(s),
         OnlyAt(s, x, n)
  PROVE  s = desc.tds => GetTransportInfo(desc, x) = s[n]
<1>0. HAVE s = desc.tds
<1>1. PICK o : o = SelectInSeq(s, LAMBDA t : t.mid = x)
  OBVIOUS
<1>2. Found(o, {i \in 1..Len(s) : s[i].mid = x})
  <2>1. Found(SelectInSeq(s, LAMBDA t : t.mid = x), {i \in 1..Len(s) : s[i].mid = x})
    BY SelectMid
  <2> QED BY <1>1, <2>1
<1>3. \A j : j \in {i \in 1..Len(s) : s[i].mid = x} <=> j = n
  BY DEF OnlyAt
<1>4. o # 0 /\ o = n
  BY <1>2, <1>3 DEF Found
<1> QED BY <1>0, <1>1, <1>4 DEF GetTransportInfo, First

LEMMA GetContentNot ==
  ASSUME NEW desc, NEW S, NEW s \in Seq(S), NEW x,
         Nowhere(s, x)
  PROVE  s = desc.contents => GetContent(desc, x) = Null
<1>0. HAVE s = desc.contents
<1>1. PICK o : o = SelectInSeq(s, LAMBDA c : c.mid = x)
  OBVIOUS
<1>2. Found(o, {i \in 1..Len(s) : s[i].mid = x})
  <2>1. Found(SelectInSeq(s, LAMBDA c : c.mid = x), {i \in 1..Len(s) : s[i].mid = x})
    BY SelectMid
  <2> QED BY <1>1, <2>1
<1>3. {i \in 1..Len(s) : s[i].mid = x} = {}
  BY DEF Nowhere
<1>4. o = 0
  BY <1>2, <1>3 DEF Found
<1> QED BY <1>0, <1>1, <1>4 DEF GetContent, First

\* The sources of an offer.
SourceSet == [Mids -> Seq(TrackSet)]

LEMMA LocalTypes ==
  ASSUME NEW push \in BOOLEAN, NEW m \in Mids, NEW sources \in SourceSet, NEW cred \in Word
  PROVE  /\ Content(m, push, sources) \in ContentSet /\ Content(m, push, sources).mid = m
         /\ Content(m, push, sources).cands = << >>
         /\ Content(m, push, sources).streams = IF push THEN << >> ELSE sources[m]
         /\ LocalTd(m, cred) \in TdSet /\ LocalTd(m, cred).mid = m
         /\ LocalTd(m, cred).fp \in Word /\ LocalTd(m, cred).ufrag = cred
<1>1. /\ m \in Word /\ "sendrecv" \in Word /\ "sendonly" \in Word /\ "recvonly" \in Word
      /\ "inactive" \in Word /\ "sha-256" \in Word /\ "server" \in Word /\ "actpass" \in Word
  BY SdpAssumption DEF OwnWords, Mids
<1>2. PICK d \in Word : d = Direction(~ push, push)
  BY <1>1 DEF Direction
<1>3. PICK ss \in Seq(TrackSet) : ss = IF push THEN << >> ELSE sources[m]
  <2>1. << >> \in Seq(TrackSet)
    OBVIOUS
  <2>2. sources[m] \in Seq(TrackSet)
    BY DEF SourceSet
  <2> QED BY <2>1, <2>2, Zenon
<1>4. PICK cs : cs = << >> /\ cs \in Seq(Word)
  <2>1. << >> \in Seq(Word)
    OBVIOUS
  <2> QED BY <2>1, Zenon
<1>5. Content(m, push, sources) = [mid |-> m, dir |-> d, cands |-> cs, streams |-> ss]
  BY <1>2, <1>3, <1>4 DEF Content
<1>6. Content(m, push, sources) \in ContentSet
  <2> HIDE DEF Mids
  <2>1. m \in Mids /\ d \in Word /\ cs \in Seq(Word) /\ ss \in Seq(TrackSet)
    BY <1>4
  <2> QED BY <1>5, <2>1 DEF ContentSet
<1>7. LocalTd(m, cred) \in TdSet
  BY <1>1 DEF LocalTd, Role, TdSet
<1> QED BY <1>1, <1>3, <1>4, <1>5, <1>6, <1>7 DEF LocalTd

LEMMA IsASeq ==
  ASSUME NEW S, NEW n \in Nat, NEW s, s = [i \in 1..n |-> s[i]], \A i \in 1..n : s[i] \in S
  PROVE  s \in Seq(S) /\ Len(s) = n
OBVIOUS

\* The parts of a description that are made for mids.
LocalParts(desc, push, mids, sources, cred) ==
  /\ desc.groups = <<mids>>
  /\ desc.contents \in Seq(ContentSet) /\ Len(desc.contents) = Len(mids)
  /\ \A i \in 1..Len(mids) : desc.contents[i] = Content(mids[i], push, sources)
  /\ desc.tds \in Seq(TdSet) /\ Len(desc.tds) = Len(mids)
  /\ \A i \in 1..Len(mids) : desc.tds[i] = LocalTd(mids[i], cred)

LEMMA LocalPartsFacts ==
  ASSUME NEW push \in BOOLEAN, NEW mids, MidsOf(mids),
         NEW sources \in SourceSet, NEW cred \in Word,
         NEW desc, desc = LocalDescription(push, mids, sources, cred)
  PROVE  /\ LocalParts(desc, push, mids, sources, cred)
         /\ desc = [groups |-> desc.groups, contents |-> desc.contents, tds |-> desc.tds]
<1>1. PICK L : L = Len(mids) /\ L \in {1, 2}
  BY Zenon DEF MidsOf
<1>2. \A i \in 1..L : mids[i] \in Mids
  BY <1>1 DEF MidsOf
<1>3. mids # << >>
  <2>1. mids = << >> => Len(mids) = 0
    OBVIOUS
  <2> QED BY <1>1, <2>1
<1>4. PICK g, c, t : /\ g = <<mids>>
                     /\ c = [i \in 1..L |-> Content(mids[i], push, sources)]
                     /\ t = [i \in 1..L |-> LocalTd(mids[i], cred)]
  OBVIOUS
<1>5. desc = [groups |-> g, contents |-> c, tds |-> t]
  BY <1>1, <1>3, <1>4, Zenon DEF LocalDescription
<1>6. desc.groups = g /\ desc.contents = c /\ desc.tds = t
  BY <1>5
<1>7. \A i \in 1..L : Content(mids[i], push, sources) \in ContentSet
  BY <1>2, LocalTypes
<1>8. \A i \in 1..L : LocalTd(mids[i], cred) \in TdSet
  BY <1>2, LocalTypes
<1>9. c \in Seq(ContentSet) /\ Len(c) = L /\ \A i \in 1..L : c[i] = Content(mids[i], push, sources)
  <2>1. L \in Nat /\ c = [i \in 1..L |-> c[i]] /\ \A i \in 1..L : c[i] = Content(mids[i], push, sources)
    BY <1>1, <1>4
  <2>2. \A i \in 1..L : c[i] \in ContentSet
    BY <1>7, <2>1
  <2> QED BY <2>1, <2>2, IsASeq
<1>10. t \in Seq(TdSet) /\ Len(t) = L /\ \A i \in 1..L : t[i] = LocalTd(mids[i], cred)
  <2>1. L \in Nat /\ t = [i \in 1..L |-> t[i]] /\ \A i \in 1..L : t[i] = LocalTd(mids[i], cred)
    BY <1>1, <1>4
  <2>2. \A i \in 1..L : t[i] \in TdSet
    BY <1>8, <2>1
  <2> QED BY <2>1, <2>2, IsASeq
<1>11. desc = [groups |-> desc.groups, contents |-> desc.contents, tds |-> desc.tds]
  BY <1>5, <1>6, Zenon
<1> QED BY <1>1, <1>4, <1>6, <1>9, <1>10, <1>11, Zenon DEF LocalParts

LEMMA LocalFound ==
  ASSUME NEW push \in BOOLEAN, NEW mids, MidsOf(mids),
         NEW sources \in SourceSet, NEW cred \in Word,
         NEW desc, LocalParts(desc, push, mids, sources, cred)
  PROVE  /\ \A i \in 1..Len(mids) : /\ GetContent(desc, mids[i]) = Content(mids[i], push, sources)
                                    /\ GetTransportInfo(desc, mids[i]) = LocalTd(mids[i], cred)
         /\ \A m : m \notin Range(mids) => GetContent(desc, m) = Null
<1>1. PICK L : L = Len(mids) /\ L \in {1, 2}
  BY Zenon DEF MidsOf
<1>2. (\A i \in 1..L : mids[i] \in Mids) /\ \A i, j \in 1..L : mids[i] = mids[j] => i = j
  BY <1>1 DEF MidsOf
<1>3. PICK c, t : c = desc.contents /\ t = desc.tds
  OBVIOUS
<1>4. /\ c \in Seq(ContentSet) /\ Len(c) = L
      /\ \A i \in 1..L : c[i] = Content(mids[i], push, sources)
      /\ t \in Seq(TdSet) /\ Len(t) = L
      /\ \A i \in 1..L : t[i] = LocalTd(mids[i], cred)
  BY <1>1, <1>3 DEF LocalParts
<1>5. \A i \in 1..L : c[i].mid = mids[i] /\ t[i].mid = mids[i]
  BY <1>2, <1>4, LocalTypes
<1>6. ASSUME NEW i \in 1..L
      PROVE  /\ GetContent(desc, mids[i]) = Content(mids[i], push, sources)
             /\ GetTransportInfo(desc, mids[i]) = LocalTd(mids[i], cred)
  <2>1. OnlyAt(c, mids[i], i) /\ OnlyAt(t, mids[i], i)
    BY <1>2, <1>4, <1>5 DEF OnlyAt
  <2>2. GetContent(desc, mids[i]) = c[i]
    BY <1>3, <1>4, <2>1, GetContentIs
  <2>3. GetTransportInfo(desc, mids[i]) = t[i]
    BY <1>3, <1>4, <2>1, GetTransportInfoIs
  <2> QED BY <1>4, <2>2, <2>3
<1>7. ASSUME NEW m, m \notin Range(mids) PROVE GetContent(desc, m) = Null
  <2>1. \A j \in 1..L : mids[j] \in Range(mids)
    BY <1>1, RangeFacts DEF MidsOf
  <2>2. Nowhere(c, m)
    BY <1>4, <1>5, <1>7, <2>1 DEF Nowhere
  <2> QED BY <1>3, <1>4, <2>2, GetContentNot
<1> QED BY <1>1, <1>6, <1>7

LEMMA LocalChannels ==
  ASSUME NEW push \in BOOLEAN, NEW mids, MidsOf(mids),
         NEW sources \in SourceSet, NEW cred \in Word,
         NEW desc, LocalParts(desc, push, mids, sources, cred)
  PROVE  Channels(desc) = {mids[1]}
<1>1. PICK L : L = Len(mids) /\ L \in {1, 2}
  BY Zenon DEF MidsOf
<1>2. mids \in Seq(Mids) /\ \A i \in 1..L : mids[i] \in Mids
  BY <1>1 DEF MidsOf
<1>3. 1 \in 1..L
  BY <1>1
<1>4. PICK g : g = desc.groups /\ g = <<mids>>
  BY DEF LocalParts
<1>5. Len(g) = 1 /\ g[1] = mids /\ g # << >>
  BY <1>4
<1>6. FirstBundleMid(desc) = mids[1]
  BY <1>4, <1>5 DEF FirstBundleMid
<1>7. \A m : IsBundle(desc, m) <=> \E i \in 1..L : mids[i] = m
  BY <1>1, <1>4, <1>5 DEF IsBundle, Contains
<1>8. ASSUME NEW m \in Channels(desc) PROVE m = mids[1]
  <2>1. m \in Range(mids)
    BY LocalFound DEF Channels
  <2>2. PICK i \in 1..L : m = mids[i]
    BY <1>1, <1>2, <2>1, RangeFacts
  <2> QED BY <1>6, <1>7, <2>2 DEF Channels, OwnsTransport
<1>9. mids[1] \in Channels(desc)
  <2>1. GetContent(desc, mids[1]) = Content(mids[1], push, sources)
    BY <1>1, <1>3, LocalFound
  <2>2. Content(mids[1], push, sources) # Null
    <3>1. PICK x \in Mids : x = mids[1]
      BY <1>2, <1>3
    <3>2. Content(x, push, sources) \in ContentSet
      BY LocalTypes
    <3> QED BY <3>1, <3>2, SdpAssumption
  <2> QED BY <1>2, <1>3, <1>6, <2>1, <2>2 DEF Channels, OwnsTransport
<1> QED BY <1>8, <1>9

\* A channel for which only the local side is known.
NewTransport(cred) == [ufrag |-> cred, rufrag |-> NoWord, rpwd |-> NoWord, rfp |-> Null]
OneNew(tr, m, cred) == /\ tr = [x \in {m} |-> NewTransport(cred)]
                       /\ DOMAIN tr = {m} /\ tr # << >>

LEMMA LocalTransportsIs ==
  ASSUME NEW push \in BOOLEAN, NEW mids, MidsOf(mids),
         NEW sources \in SourceSet, NEW cred \in Word,
         NEW desc, LocalParts(desc, push, mids, sources, cred)
  PROVE  OneNew(LocalTransports(desc), mids[1], cred)
<1>1. Channels(desc) = {mids[1]}
  BY LocalChannels
<1>2. GetTransportInfo(desc, mids[1]) = LocalTd(mids[1], cred)
  <2>1. 1 \in 1..Len(mids)
    <3>1. PICK L : L = Len(mids) /\ L \in {1, 2}
      BY Zenon DEF MidsOf
    <3> QED BY <3>1
  <2> QED BY <2>1, LocalFound
<1>3. SetIceParams(NoTransport, GetTransportInfo(desc, mids[1])) = NewTransport(cred)
  BY <1>2 DEF SetIceParams, NoTransport, NewTransport, LocalTd
<1>4. LocalTransports(desc) = [m \in {mids[1]} |-> NewTransport(cred)]
  BY <1>1, <1>3 DEF LocalTransports
<1>5. DOMAIN LocalTransports(desc) = {mids[1]}
  BY <1>4
<1>6. \A f : f = << >> => DOMAIN f = {}
  OBVIOUS
<1> QED BY <1>4, <1>5, <1>6 DEF OneNew

\* A section's content with the candidates of its channel.
OfferContent(mids, m, push, sources, ports) ==
  [Content(m, push, sources) EXCEPT !.cands = IF m = mids[1] THEN ports ELSE << >>]

IsOfferContent(c, mids, m, push, sources, ports) ==
  /\ c \in ContentSet /\ c.mid = m
  /\ c.cands = IF m = mids[1] THEN ports ELSE << >>
  /\ c.streams = IF push THEN << >> ELSE sources[m]

LEMMA OfferContentFacts ==
  ASSUME NEW push \in BOOLEAN, NEW mids, NEW sources \in SourceSet, NEW ports \in Seq(Word),
         NEW m \in Mids, NEW c, c = OfferContent(mids, m, push, sources, ports)
  PROVE  IsOfferContent(c, mids, m, push, sources, ports)
<1>1. PICK d : d = Content(m, push, sources)
  OBVIOUS
<1>2. d \in ContentSet /\ d.mid = m /\ d.streams = IF push THEN << >> ELSE sources[m]
  <2>1. PICK w : w \in Word
    BY NoWordFacts
  <2>2. Content(m, push, sources) \in ContentSet /\ Content(m, push, sources).mid = m
        /\ Content(m, push, sources).streams = IF push THEN << >> ELSE sources[m]
    BY <2>1, LocalTypes
  <2> QED BY <1>1, <2>2, Zenon
<1>3. PICK cs : cs = (IF m = mids[1] THEN ports ELSE << >>) /\ cs \in Seq(Word)
  <2>1. << >> \in Seq(Word)
    OBVIOUS
  <2> QED BY <2>1, Zenon
<1>4. c = [d EXCEPT !.cands = cs]
  BY <1>1, <1>3 DEF OfferContent
<1>5. c \in ContentSet /\ c.mid = d.mid /\ c.streams = d.streams /\ c.cands = cs
  BY <1>2, <1>3, <1>4 DEF ContentSet
<1> QED BY <1>2, <1>3, <1>5, Zenon DEF IsOfferContent

\* A content before its candidates are known.
NewContent(c, m) == c \in ContentSet /\ c.mid = m /\ c.cands = << >>

LEMMA NewContentFacts ==
  ASSUME NEW push \in BOOLEAN, NEW m \in Mids, NEW sources \in SourceSet
  PROVE  NewContent(Content(m, push, sources), m)
<1>1. NoWord \in Word
  BY NoWordFacts
<1> QED BY <1>1, LocalTypes DEF NewContent

LEMMA WithCandidatesFacts ==
  ASSUME NEW push \in BOOLEAN, NEW mids, MidsOf(mids),
         NEW sources \in SourceSet, NEW cred \in Word,
         NEW ports \in Seq(Word), NEW desc, desc = LocalDescription(push, mids, sources, cred),
         NEW local, local = WithCandidates(desc, LocalTransports(desc), ports)
  PROVE  /\ local.groups = <<mids>> /\ local.tds = desc.tds
         /\ local.contents \in Seq(ContentSet) /\ Len(local.contents) = Len(mids)
         /\ \A i \in 1..Len(mids) :
              local.contents[i] = OfferContent(mids, mids[i], push, sources, ports)
<1>1. /\ LocalParts(desc, push, mids, sources, cred)
      /\ desc = [groups |-> desc.groups, contents |-> desc.contents, tds |-> desc.tds]
  BY LocalPartsFacts
<1>2. PICK L : L = Len(mids) /\ L \in {1, 2}
  BY Zenon DEF MidsOf
<1>3. PICK tr : tr = LocalTransports(desc)
  OBVIOUS
<1>4. DOMAIN tr = {mids[1]}
  <2>1. LocalParts(desc, push, mids, sources, cred)
    BY <1>1
  <2>2. OneNew(LocalTransports(desc), mids[1], cred)
    BY <2>1, LocalTransportsIs, Zenon
  <2> QED BY <1>3, <2>2 DEF OneNew
<1>5. PICK g, c, t : g = desc.groups /\ c = desc.contents /\ t = desc.tds
  OBVIOUS
<1>6. /\ g = <<mids>> /\ c \in Seq(ContentSet) /\ Len(c) = L
      /\ \A i \in 1..L : c[i] = Content(mids[i], push, sources)
  BY <1>1, <1>2, <1>5 DEF LocalParts
<1>7. PICK G : G = GatheringCandidate(tr, ports)
  OBVIOUS
<1>8. DOMAIN G = {mids[1]} /\ G[mids[1]] = ports
  BY <1>4, <1>7 DEF GatheringCandidate
<1>9. PICK d : d = [i \in 1..L |-> AddCandidates(c[i], G)]
  OBVIOUS
<1>10. local = [groups |-> g, contents |-> d, tds |-> t]
  <2>1. local = [desc EXCEPT !.contents = [i \in 1..Len(c) |-> AddCandidates(c[i], G)]]
    BY <1>3, <1>5, <1>7 DEF WithCandidates
  <2>2. local = [desc EXCEPT !.contents = d]
    BY <1>6, <1>9, <2>1
  <2>3. desc = [groups |-> g, contents |-> c, tds |-> t]
    BY <1>1, <1>5
  <2> QED BY <2>2, <2>3
<1>11. local.groups = g /\ local.contents = d /\ local.tds = t
  BY <1>10
<1>12. \A i \in 1..L : mids[i] \in Mids
  BY <1>2 DEF MidsOf
<1>13. ASSUME NEW i \in 1..L
       PROVE  d[i] = OfferContent(mids, mids[i], push, sources, ports) /\ d[i] \in ContentSet
  <2>1. PICK x \in Mids : x = mids[i]
    BY <1>12
  <2>2. c[i] \in ContentSet /\ c[i].mid = x /\ c[i].cands = << >>
    <3>1. NewContent(Content(x, push, sources), x)
      BY NewContentFacts, Zenon
    <3>2. c[i] = Content(x, push, sources)
      BY <1>6, <2>1
    <3> QED BY <3>1, <3>2, Zenon DEF NewContent
  <2>3. d[i] = AddCandidates(c[i], G)
    BY <1>9
  <2>4. c[i] = Content(x, push, sources)
    BY <1>6, <2>1
  <2>5. OfferContent(mids, x, push, sources, ports) \in ContentSet
    BY <2>1, OfferContentFacts DEF IsOfferContent
  <2>6. OfferContent(mids, x, push, sources, ports)
        = [c[i] EXCEPT !.cands = IF x = mids[1] THEN ports ELSE << >>]
    BY <2>4 DEF OfferContent
  <2>7. CASE x = mids[1]
    BY <1>8, <2>1, <2>2, <2>3, <2>5, <2>6, <2>7 DEF AddCandidates
  <2>8. CASE x # mids[1]
    <3>1. d[i] = c[i]
      BY <1>8, <2>2, <2>3, <2>8 DEF AddCandidates
    <3>2. [c[i] EXCEPT !.cands = << >>] = c[i]
      BY <2>2 DEF ContentSet
    <3> QED BY <2>1, <2>5, <2>6, <2>8, <3>1, <3>2
  <2> QED BY <2>7, <2>8
<1>14. L \in Nat /\ d = [i \in 1..L |-> d[i]]
  BY <1>2, <1>9
<1>15. d \in Seq(ContentSet) /\ Len(d) = L
  BY <1>13, <1>14, IsASeq
<1> QED BY <1>2, <1>5, <1>6, <1>11, <1>13, <1>15

\* The lines of one section of an offer.
OfferLines(mids, m, push, sources, cred, ports) ==
  OfferSection(OfferContent(mids, m, push, sources, ports), LocalTd(m, cred))

TextIs(text, mids, B, S1, S2) ==
  text = [lines |-> IF Len(mids) = 1 THEN B \o S1 ELSE (B \o S1) \o S2,
          rn |-> TRUE, end |-> TRUE]

LEMMA OfferTextIs ==
  ASSUME NEW push \in BOOLEAN, NEW mids, MidsOf(mids),
         NEW sources \in SourceSet, NEW cred \in Word,
         NEW ports \in Seq(Word), NEW B, B = <<Line("bundle", mids)>>,
         NEW S1, S1 = OfferLines(mids, mids[1], push, sources, cred, ports),
         NEW S2, S2 = OfferLines(mids, mids[2], push, sources, cred, ports)
  PROVE  TextIs(OfferText(push, mids, sources, cred, ports), mids, B, S1, S2)
<1>1. PICK L : L = Len(mids) /\ L \in {1, 2}
  BY Zenon DEF MidsOf
<1>2. PICK desc, local : /\ desc = LocalDescription(push, mids, sources, cred)
                         /\ local = WithCandidates(desc, LocalTransports(desc), ports)
  OBVIOUS
<1>3. OfferText(push, mids, sources, cred, ports) = ToString_(local)
  BY <1>2 DEF OfferText
<1>4. LocalParts(desc, push, mids, sources, cred)
  BY <1>2, LocalPartsFacts
<1>5. PICK c : c = local.contents
  OBVIOUS
<1>6. /\ local.groups = <<mids>> /\ local.tds = desc.tds
      /\ Len(c) = L
      /\ \A i \in 1..L : c[i] = OfferContent(mids, mids[i], push, sources, ports)
  BY <1>1, <1>2, <1>5, WithCandidatesFacts
<1>7. ASSUME NEW i \in 1..L
      PROVE  SectionLines(local, c[i]) = OfferLines(mids, mids[i], push, sources, cred, ports)
  <2>1. PICK x \in Mids : x = mids[i]
    BY <1>1 DEF MidsOf
  <2>2. c[i] = OfferContent(mids, x, push, sources, ports) /\ c[i].mid = x
    <3>1. c[i] = OfferContent(mids, x, push, sources, ports)
      BY <1>6, <2>1
    <3>2. IsOfferContent(c[i], mids, x, push, sources, ports)
      BY <3>1, OfferContentFacts, Zenon
    <3> QED BY <3>1, <3>2 DEF IsOfferContent
  <2>3. GetTransportInfo(local, x) = GetTransportInfo(desc, x)
    BY <1>6 DEF GetTransportInfo
  <2>4. GetTransportInfo(desc, x) = LocalTd(x, cred)
    BY <1>1, <1>4, <2>1, LocalFound
  <2>5. GetTransportInfo(local, c[i].mid) = LocalTd(x, cred)
    BY <2>2, <2>3, <2>4
  <2>6. SectionLines(local, c[i]) = OfferSection(c[i], LocalTd(x, cred))
    BY <2>5 DEF SectionLines, OfferSection, StreamLines
  <2> QED BY <2>1, <2>2, <2>6 DEF OfferLines
<1>8. FlattenSeq(<<mids>>) = mids
  BY FlattenOne DEF MidsOf
<1>9. local.groups # << >>
  BY <1>6
<1>10. PICK secs : secs = [i \in 1..Len(c) |-> SectionLines(local, c[i])]
  OBVIOUS
<1>11. ToString_(local) = [lines |-> B \o FlattenSeq(secs), rn |-> TRUE, end |-> TRUE]
  BY <1>5, <1>6, <1>8, <1>9, <1>10 DEF ToString_
<1>12. ASSUME NEW m \in Mids PROVE OfferLines(mids, m, push, sources, cred, ports) \in Seq(LineSet)
  <2>1. PICK cc \in ContentSet : cc = OfferContent(mids, m, push, sources, ports)
    BY <1>12, OfferContentFacts DEF IsOfferContent
  <2>2. PICK td \in TdSet : td = LocalTd(m, cred) /\ td.fp \in Word
    BY <1>12, LocalTypes
  <2>3. IsSection(OfferSection(cc, td), cc.mid)
    BY <2>2, OfferSectionFacts
  <2> QED BY <2>1, <2>2, <2>3 DEF OfferLines, IsSection
<1>13. CASE L = 1
  <2>1. secs = <<S1>> /\ mids[1] \in Mids
    <3>1. SectionLines(local, c[1]) = S1
      BY <1>7, <1>13
    <3>2. mids[1] \in Mids
      <4>1. 1 \in 1..Len(mids)
        BY <1>1, <1>13
      <4> QED BY <4>1 DEF MidsOf
    <3> QED BY <1>6, <1>10, <1>13, <3>1, <3>2
  <2>2. FlattenSeq(secs) = S1
    BY <1>12, <2>1, FlattenOne
  <2>3. B \o FlattenSeq(secs) = IF Len(mids) = 1 THEN B \o S1 ELSE (B \o S1) \o S2
    BY <1>1, <1>13, <2>2
  <2> QED BY <1>3, <1>11, <2>3 DEF TextIs
<1>14. CASE L = 2
  <2>1. mids[1] \in Mids /\ mids[2] \in Mids
    <3>1. 1 \in 1..Len(mids) /\ 2 \in 1..Len(mids)
      BY <1>1, <1>14
    <3> QED BY <3>1 DEF MidsOf
  <2>2. secs = <<S1, S2>>
    <3>1. SectionLines(local, c[1]) = S1 /\ SectionLines(local, c[2]) = S2
      BY <1>7, <1>14
    <3> QED BY <1>6, <1>10, <1>14, <3>1
  <2>3. S1 \in Seq(LineSet) /\ S2 \in Seq(LineSet)
    BY <1>12, <2>1
  <2>4. FlattenSeq(secs) = S1 \o S2
    BY <2>2, <2>3, FlattenTwo
  <2>5. B \o (S1 \o S2) = (B \o S1) \o S2
    <3>1. B \in Seq({Line("bundle", mids)} \cup LineSet)
      OBVIOUS
    <3>2. S1 \in Seq({Line("bundle", mids)} \cup LineSet) /\ S2 \in Seq({Line("bundle", mids)} \cup LineSet)
      BY <2>3
    <3> QED BY <3>1, <3>2
  <2>6. B \o FlattenSeq(secs) = IF Len(mids) = 1 THEN B \o S1 ELSE (B \o S1) \o S2
    BY <1>1, <1>14, <2>4, <2>5
  <2> QED BY <1>3, <1>11, <2>6 DEF TextIs
<1> QED BY <1>1, <1>13, <1>14

\* What a reader finds in an offer.
ReadsOffer(text, mids, push, sources, cred, ports) ==
  \A m \in Mids : \A k, v : v \in Ref(text, m, k) <=>
    /\ m \in Range(mids)
    /\ Says(OfferLines(mids, m, push, sources, cred, ports), k, v)

LEMMA OfferRead ==
  ASSUME NEW push \in BOOLEAN, NEW mids, MidsOf(mids),
         NEW sources \in SourceSet, NEW cred \in Word,
         NEW ports \in Seq(Word), NEW text, text = OfferText(push, mids, sources, cred, ports)
  PROVE  text \in TextSet /\ Tagged(text) = mids[1]
         /\ ReadsOffer(text, mids, push, sources, cred, ports)
<1>1. PICK L : L = Len(mids) /\ L \in {1, 2}
  BY Zenon DEF MidsOf
<1>2. \A i \in 1..L : mids[i] \in Mids
  BY <1>1 DEF MidsOf
<1>3. PICK B, S1, S2 : /\ B = <<Line("bundle", mids)>>
                       /\ S1 = OfferLines(mids, mids[1], push, sources, cred, ports)
                       /\ S2 = OfferLines(mids, mids[2], push, sources, cred, ports)
  OBVIOUS
<1>4. text = [lines |-> IF Len(mids) = 1 THEN B \o S1 ELSE (B \o S1) \o S2,
              rn |-> TRUE, end |-> TRUE]
  <2>1. TextIs(OfferText(push, mids, sources, cred, ports), mids, B, S1, S2)
    BY <1>3, OfferTextIs, Zenon
  <2> QED BY <2>1 DEF TextIs
<1>5. PICK t0 : t0 = BundleText(mids)
  OBVIOUS
<1>6. /\ t0 \in TextSet /\ Len(t0.lines) = 1 /\ t0.lines[1].k = "bundle" /\ t0.lines[1].v = mids
      /\ \A m \in Mids : \A k : Ref(t0, m, k) = {}
  BY <1>5, BundleTextFacts DEF MidsOf
<1>7. BundleFirst(t0)
  BY <1>6 DEF BundleFirst
<1>8. PICK t1 : t1 = [t0 EXCEPT !.lines = @ \o S1]
  OBVIOUS
<1>9. t1 = [lines |-> B \o S1, rn |-> TRUE, end |-> TRUE]
  BY <1>3, <1>5, <1>8 DEF BundleText
<1>10. ASSUME NEW i \in 1..L, NEW S, S = OfferLines(mids, mids[i], push, sources, cred, ports),
              NEW t, BundleFirst(t), NEW more, more = [t EXCEPT !.lines = @ \o S]
       PROVE  BundleFirst(more) /\ Grown(more, t, mids[i], S)
  <2>1. PICK x \in Mids : x = mids[i]
    BY <1>2
  <2>2. PICK c \in ContentSet : c = OfferContent(mids, x, push, sources, ports) /\ c.mid = x
    <3>1. /\ OfferContent(mids, x, push, sources, ports) \in ContentSet
          /\ OfferContent(mids, x, push, sources, ports).mid = x
      <4>1. PICK c : c = OfferContent(mids, x, push, sources, ports)
        OBVIOUS
      <4>2. IsOfferContent(c, mids, x, push, sources, ports)
        BY <4>1, OfferContentFacts, Zenon
      <4> QED BY <4>1, <4>2 DEF IsOfferContent
    <3> QED BY <3>1, Zenon
  <2>3. PICK td \in TdSet : td = LocalTd(x, cred) /\ td.fp \in Word
    BY LocalTypes
  <2>4. S = OfferSection(c, td)
    BY <1>10, <2>1, <2>2, <2>3 DEF OfferLines
  <2>5. BundleFirst(more) /\ Grown(more, t, c.mid, S)
    BY <1>10, <2>3, <2>4, WithSection, Zenon
  <2> QED BY <2>1, <2>2, <2>5
<1>11. BundleFirst(t1) /\ Grown(t1, t0, mids[1], S1) /\ t1.lines[1].v = mids
  <2>1. 1 \in 1..L
    BY <1>1
  <2>2. BundleFirst(t1) /\ Grown(t1, t0, mids[1], S1)
    BY <1>3, <1>7, <1>8, <1>10, <2>1, Zenon
  <2> QED BY <1>6, <2>2 DEF Grown
<1>12. CASE L = 1
  <2>1. text = t1
    BY <1>1, <1>4, <1>9, <1>12
  <2>2. text \in TextSet /\ Tagged(text) = mids[1]
    BY <1>11, <2>1, TaggedIs DEF BundleFirst
  <2>3. \A x : x \in Range(mids) <=> x = mids[1]
    BY <1>1, <1>12, RangeFacts DEF MidsOf
  <2>4. \A m \in Mids : \A k, v : v \in Ref(text, m, k) <=> m = mids[1] /\ Says(S1, k, v)
    BY <1>6, <1>11, <2>1 DEF Grown
  <2> QED BY <1>3, <2>2, <2>3, <2>4 DEF ReadsOffer
<1>13. CASE L = 2
  <2>1. PICK t2 : t2 = [t1 EXCEPT !.lines = @ \o S2]
    OBVIOUS
  <2>2. text = t2
    <3>1. t2 = [lines |-> (B \o S1) \o S2, rn |-> TRUE, end |-> TRUE]
      BY <1>9, <2>1
    <3>2. Len(mids) # 1
      BY <1>1, <1>13
    <3> QED BY <1>4, <3>1, <3>2
  <2>3. BundleFirst(t2) /\ Grown(t2, t1, mids[2], S2) /\ t2.lines[1].v = mids
    <3>1. 2 \in 1..L
      BY <1>13
    <3>2. BundleFirst(t2) /\ Grown(t2, t1, mids[2], S2)
      BY <1>3, <1>10, <1>11, <2>1, <3>1, Zenon
    <3> QED BY <1>11, <3>2 DEF Grown
  <2>4. text \in TextSet /\ Tagged(text) = mids[1]
    BY <2>2, <2>3, TaggedIs DEF BundleFirst
  <2>5. \A x : x \in Range(mids) <=> x = mids[1] \/ x = mids[2]
    BY <1>1, <1>13, RangeFacts DEF MidsOf
  <2>6. \A m \in Mids : \A k, v : v \in Ref(text, m, k) <=>
           \/ m = mids[1] /\ Says(S1, k, v)
           \/ m = mids[2] /\ Says(S2, k, v)
    BY <1>6, <1>11, <2>2, <2>3 DEF Grown
  <2> QED BY <1>3, <2>4, <2>5, <2>6 DEF ReadsOffer
<1> QED BY <1>1, <1>12, <1>13

\* What the sources say of SSRCs and groups.
Streams(push, sources, m) == IF push THEN << >> ELSE sources[m]
SaysOfSsrcs(streams, v) ==
  \E t \in Range(streams) : \E x \in Range(t.ssrcs) : Names(t, x, v)
SaysOfGroups(streams, v) == \E t \in Range(streams) : v \in Range(t.groups) /\ Len(v) # 1

LEMMA OfferLinesFacts ==
  ASSUME NEW push \in BOOLEAN, NEW mids, MidsOf(mids),
         NEW sources \in SourceSet, NEW cred \in Word,
         NEW ports \in Seq(Word), NEW m \in Mids,
         NEW s, s = OfferLines(mids, m, push, sources, cred, ports)
  PROVE  /\ \A v : Says(s, "ufrag", v) <=> v = <<cred>>
         /\ \A v : Says(s, "candidate", v) <=> m = mids[1] /\ v \in {<<x>> : x \in Range(ports)}
         /\ \E v : Says(s, "m", v)
         /\ \A v : Says(s, "ssrc", v) <=> SaysOfSsrcs(Streams(push, sources, m), v)
         /\ \A v : Says(s, "ssrc-group", v) <=> SaysOfGroups(Streams(push, sources, m), v)
<1>1. PICK c : c = OfferContent(mids, m, push, sources, ports)
  OBVIOUS
<1>2. IsOfferContent(c, mids, m, push, sources, ports)
  BY <1>1, OfferContentFacts, Zenon
<1>3. /\ c \in ContentSet /\ c.mid = m
      /\ c.cands = IF m = mids[1] THEN ports ELSE << >>
  BY <1>2, Zenon DEF IsOfferContent
<1>4. c.streams = Streams(push, sources, m)
  BY <1>2, Zenon DEF IsOfferContent, Streams
<1>5. PICK td : td = LocalTd(m, cred)
  OBVIOUS
<1>6. td \in TdSet /\ td.fp \in Word /\ td.ufrag = cred
  BY <1>5, LocalTypes
<1>7. s = OfferSection(c, td)
  BY <1>1, <1>5 DEF OfferLines
<1>8. /\ \A v : Says(s, "ufrag", v) <=> v = <<td.ufrag>>
      /\ \A v : Says(s, "candidate", v) <=> v \in {<<x>> : x \in Range(c.cands)}
      /\ \A k \in {"ssrc", "ssrc-group"} : \A v : Says(s, k, v) <=> Says(StreamLines(c), k, v)
      /\ \E v : Says(s, "m", v)
  BY <1>3, <1>6, <1>7, OfferSectionFacts
<1>9. \A v : Says(s, "candidate", v) <=> m = mids[1] /\ v \in {<<x>> : x \in Range(ports)}
  <2>1. \A x : x \notin Range(<< >>)
    BY DEF Range
  <2>2. CASE m = mids[1]
    BY <1>3, <1>8, <2>2
  <2>3. CASE m # mids[1]
    BY <1>3, <1>8, <2>1, <2>3
  <2> QED BY <2>2, <2>3
<1>10. PICK S : S = StreamLines(c)
  OBVIOUS
<1>11. /\ \A v : Says(S, "ssrc", v) <=> SaysOfSsrcs(c.streams, v)
       /\ \A v : Says(S, "ssrc-group", v) <=> SaysOfGroups(c.streams, v)
  BY <1>3, <1>10, StreamLinesFacts DEF SaysOfSsrcs, SaysOfGroups
<1> QED BY <1>4, <1>6, <1>8, <1>9, <1>10, <1>11

LEMMA OfferFacts ==
  ASSUME NEW push \in BOOLEAN, NEW mids, MidsOf(mids),
         NEW sources \in SourceSet, NEW cred \in Word,
         NEW ports \in Seq(Word), NEW text, text = OfferText(push, mids, sources, cred, ports)
  PROVE  /\ text \in TextSet /\ Tagged(text) = mids[1]
         /\ Ref(text, mids[1], "ufrag") = {<<cred>>}
         /\ Ref(text, mids[1], "candidate") = {<<x>> : x \in Range(ports)}
         /\ \A m \in Mids \ {mids[1]} : Ref(text, m, "candidate") = {}
         /\ \A m \in Mids : Ref(text, m, "m") = {} <=> m \notin Range(mids)
         /\ \A m \in Mids : \A v : v \in Ref(text, m, "ssrc") <=>
              m \in Range(mids) /\ SaysOfSsrcs(Streams(push, sources, m), v)
         /\ \A m \in Mids : \A v : v \in Ref(text, m, "ssrc-group") <=>
              m \in Range(mids) /\ SaysOfGroups(Streams(push, sources, m), v)
<1>1. text \in TextSet /\ Tagged(text) = mids[1]
      /\ ReadsOffer(text, mids, push, sources, cred, ports)
  BY OfferRead
<1>2. PICK x \in Mids : x = mids[1] /\ x \in Range(mids)
  <2>1. PICK L : L = Len(mids) /\ L \in {1, 2}
    BY Zenon DEF MidsOf
  <2>2. mids \in Seq(Mids)
    BY Zenon DEF MidsOf
  <2>3. 1 \in 1..Len(mids)
    BY <2>1
  <2> QED BY <2>2, <2>3, RangeFacts
<1>3. \A m \in Mids : \A k, v : v \in Ref(text, m, k) <=>
        m \in Range(mids) /\ Says(OfferLines(mids, m, push, sources, cred, ports), k, v)
  BY <1>1 DEF ReadsOffer
<1>4. \A m \in Mids :
         LET s == OfferLines(mids, m, push, sources, cred, ports) IN
         /\ \A v : Says(s, "ufrag", v) <=> v = <<cred>>
         /\ \A v : Says(s, "candidate", v) <=> m = mids[1] /\ v \in {<<y>> : y \in Range(ports)}
         /\ \E v : Says(s, "m", v)
         /\ \A v : Says(s, "ssrc", v) <=> SaysOfSsrcs(Streams(push, sources, m), v)
         /\ \A v : Says(s, "ssrc-group", v) <=> SaysOfGroups(Streams(push, sources, m), v)
  BY OfferLinesFacts
<1>5. Ref(text, x, "ufrag") = {<<cred>>}
  <2>1. \A v : v \in Ref(text, x, "ufrag") <=> v = <<cred>>
    BY <1>2, <1>3, <1>4
  <2> QED BY <2>1
<1>6. Ref(text, x, "candidate") = {<<y>> : y \in Range(ports)}
  <2>1. \A v : v \in Ref(text, x, "candidate") <=> v \in {<<y>> : y \in Range(ports)}
    BY <1>2, <1>3, <1>4
  <2> QED BY <2>1
<1>7. ASSUME NEW m \in Mids, m # x PROVE Ref(text, m, "candidate") = {}
  <2>1. \A v : v \notin Ref(text, m, "candidate")
    BY <1>2, <1>3, <1>4, <1>7
  <2> QED BY <2>1
<1>8. ASSUME NEW m \in Mids PROVE Ref(text, m, "m") = {} <=> m \notin Range(mids)
  <2>1. (\A v : v \notin Ref(text, m, "m")) <=> m \notin Range(mids)
    BY <1>3, <1>4
  <2> QED BY <2>1
<1>9. \A m \in Mids : \A v : v \in Ref(text, m, "ssrc") <=>
         m \in Range(mids) /\ SaysOfSsrcs(Streams(push, sources, m), v)
  BY <1>3, <1>4
<1>10. \A m \in Mids : \A v : v \in Ref(text, m, "ssrc-group") <=>
         m \in Range(mids) /\ SaysOfGroups(Streams(push, sources, m), v)
  BY <1>3, <1>4
<1> QED BY <1>1, <1>2, <1>5, <1>6, <1>7, <1>8, <1>9, <1>10

-----------------------------------------------------------------------------
(* The ports *)
\* Bind() as a loop, whose sequence has only words that are free.
LEMMA BindSteps ==
  ASSUME NEW free, NEW n \in Nat
  PROVE  \E f : /\ f[0] = << >> /\ Bind(free, n) = f[Len(Port)]
                /\ \A i \in 0..Len(Port) : f[i] \in Seq(Word \cap free)
                /\ \A i \in 1..Len(Port) : f[i] = TakePort(f[i - 1], i, free, n)
<1> DEFINE N == Len(Port)
           S == Seq(Word \cap free)
           Body(f) == [i \in 0..N |-> IF i = 0 THEN << >> ELSE TakePort(f[i - 1], i, free, n)]
           F == CHOOSE f : f = Body(f)
           g == [i \in 1..N |-> [s \in S |-> TakePort(s, i, free, n)]]
<1>1. Bind(free, n) = F[Len(Port)]
  BY DEF Bind
<1>2. N \in Nat /\ << >> \in S
  BY NegotiationAssumption
<1>3. g \in [1..N -> [S -> S]]
  <2>1. \A s \in S, i \in 1..N : TakePort(s, i, free, n) \in S
    <3>1. ASSUME NEW s \in S, NEW i \in 1..N
          PROVE  TakePort(s, i, free, n) \in S
      <4>1. Port[i] \in Word
        BY NegotiationAssumption
      <4>2. CASE Port[i] \in free
        <5>1. PICK w \in Word \cap free : w = Port[i]
          BY <4>1, <4>2
        <5>2. Append(s, w) \in S
          OBVIOUS
        <5> QED BY <5>1, <5>2 DEF TakePort
      <4> QED BY <4>2 DEF TakePort
    <3> QED BY <3>1
  <2> HIDE DEF N, S
  <2> QED BY <2>1
<1> HIDE DEF N, S
<1>4. \A s \in S, i \in 1..N : g[i][s] = TakePort(s, i, free, n)
  OBVIOUS
<1> HIDE DEF g
<1>5. PICK h : LoopOf(h, N, S, << >>, g)
  BY <1>2, <1>3, Iteration, Zenon
<1>6. h = Body(h)
  <2>1. ASSUME NEW i \in 1..N PROVE h[i] = TakePort(h[i - 1], i, free, n)
    <3>1. h[i - 1] \in S
      BY <1>2, <1>5 DEF LoopOf
    <3> QED BY <1>4, <1>5, <3>1, Zenon DEF LoopOf
  <2>2. ASSUME NEW i \in 0..N
        PROVE  h[i] = IF i = 0 THEN << >> ELSE TakePort(h[i - 1], i, free, n)
    <3>1. i = 0 \/ i \in 1..N
      BY <1>2
    <3> QED BY <1>5, <2>1, <3>1, Zenon DEF LoopOf
  <2>3. h = [i \in 0..N |-> h[i]]
    BY <1>5 DEF LoopOf
  <2> QED BY <2>2, <2>3
<1> HIDE DEF Body
<1>7. F = Body(F)
  BY <1>6, Zenon
<1> HIDE DEF F
<1>8. \A i \in 0..N : F[i] = IF i = 0 THEN << >> ELSE TakePort(F[i - 1], i, free, n)
  <2>1. \A f : \A i \in 0..N : Body(f)[i] = IF i = 0 THEN << >> ELSE TakePort(f[i - 1], i, free, n)
    BY DEF Body
  <2> QED BY <1>7, <2>1, Zenon
<1>9. F[0] = << >>
  <2>1. 0 \in 0..N
    BY <1>2
  <2> QED BY <1>8, <2>1, Zenon
<1>10. \A i \in 1..N : F[i] = TakePort(F[i - 1], i, free, n)
  <2>1. \A i \in 1..N : i \in 0..N /\ i # 0
    BY <1>2
  <2> QED BY <1>8, <2>1, Zenon
<1>11. LoopLike(F, N, S, << >>, g)
  BY <1>4, <1>9, <1>10, Zenon DEF LoopLike
<1>12. \A i \in 0..N : F[i] \in S
  BY <1>2, <1>3, <1>11, IterationTypes, Zenon
<1> QED BY <1>1, <1>9, <1>10, <1>12, Zenon DEF N, S

LEMMA BindFacts ==
  ASSUME NEW free, NEW n \in Nat, NEW ports, ports = Bind(free, n)
  PROVE  ports \in Seq(Word) /\ Range(ports) \subseteq free
<1>1. PICK f : /\ Bind(free, n) = f[Len(Port)]
               /\ \A i \in 0..Len(Port) : f[i] \in Seq(Word \cap free)
  BY BindSteps, Zenon
<1>2. Len(Port) \in 0..Len(Port)
  BY NegotiationAssumption
<1>3. ports \in Seq(Word \cap free)
  BY <1>1, <1>2
<1>4. ports \in Seq(Word)
  BY <1>3
<1>5. Range(ports) \subseteq free
  BY <1>3 DEF Range
<1> QED BY <1>4, <1>5

-----------------------------------------------------------------------------
(* One PeerConnection *)

\* What the inductive invariant says of one PeerConnection and its ports, when n offers
\* have been made.
PeerKnown(c, ports, n) ==
  /\ c \in PeerSet /\ ports \in Seq(Word)
  /\ \E mids \in Media, i \in 1..n : OfferIsOf(c, ports, mids, Cred[i])
  /\ c.remote = RemoteOf(c.last)
  /\ \A text \in {c.src, c.taken, c.last} : text = Null \/ Conforms(text)
FromTaken(t, m, a) ==
  IF a = Null THEN t.rfp = Null
  ELSE Plain(a) /\ Tagged(a) = m =>
         /\ Ref(a, m, "ufrag") = {<<t.rufrag>>}
         /\ Ref(a, m, "pwd") = {<<t.rpwd>>}
         /\ \E alg \in Algorithm : Ref(a, m, "fingerprint") = {<<alg, t.rfp>>}
Whole(c) == \A m \in DOMAIN c.transports : FromTaken(c.transports[m], m, c.taken)

LEMMA GetContentType ==
  ASSUME NEW desc \in DescriptionSet, NEW m
  PROVE  GetContent(desc, m) \in ContentSet \cup {Null}
<1>1. PICK s \in Seq(ContentSet) : s = desc.contents
  BY DEF DescriptionSet
<1>2. PICK o : o = SelectInSeq(s, LAMBDA c : c.mid = m)
  OBVIOUS
<1>3. Found(o, {i \in 1..Len(s) : s[i].mid = m})
  <2>1. Found(SelectInSeq(s, LAMBDA c : c.mid = m), {i \in 1..Len(s) : s[i].mid = m})
    BY SelectMid
  <2> QED BY <1>2, <2>1
<1>4. o = 0 \/ o \in 1..Len(s)
  BY <1>3 DEF Found
<1>5. GetContent(desc, m) = IF o = 0 THEN Null ELSE s[o]
  BY <1>1, <1>2 DEF GetContent, First
<1>6. o \in 1..Len(s) => s[o] \in ContentSet
  OBVIOUS
<1> QED BY <1>4, <1>5, <1>6

LEMMA SourceType ==
  ASSUME NEW remote \in DescriptionSet \cup {Null}
  PROVE  Source(remote) \in SourceSet
<1>1. << >> \in Seq(TrackSet)
  OBVIOUS
<1>2. ASSUME NEW m \in Mids
      PROVE  (IF remote = Null \/ GetContent(remote, m) = Null THEN << >>
              ELSE GetContent(remote, m).streams) \in Seq(TrackSet)
  <2>1. CASE remote = Null \/ GetContent(remote, m) = Null
    BY <1>1, <2>1
  <2>2. CASE ~ (remote = Null \/ GetContent(remote, m) = Null)
    <3>1. GetContent(remote, m) \in ContentSet
      BY <2>2, GetContentType
    <3>2. GetContent(remote, m).streams \in Seq(TrackSet)
      BY <3>1 DEF ContentSet
    <3> QED BY <2>2, <3>2
  <2> QED BY <2>1, <2>2
<1> QED BY <1>2 DEF Source, SourceSet

LEMMA NoSourceType == NoSource \in SourceSet
<1>1. << >> \in Seq(TrackSet)
  OBVIOUS
<1> QED BY <1>1 DEF NoSource, SourceSet

LEMMA RemoteType ==
  ASSUME NEW text, text = Null \/ Conforms(text)
  PROVE  RemoteOf(text) \in DescriptionSet \cup {Null}
<1>1. CASE text = Null
  BY <1>1 DEF RemoteOf
<1>2. CASE text # Null
  <2>1. PICK st : st = ParseLines(text)
    OBVIOUS
  <2>2. st \in StSet
    BY <1>2, <2>1, AnswerState DEF Conforms
  <2>3. Description(st) \in DescriptionSet
    BY <2>2, DescriptionFields
  <2> QED BY <1>2, <2>1, <2>3 DEF RemoteOf
<1> QED BY <1>1, <1>2

\* A PeerConnection that has just made its offer.
NewPeer(push, text, tr, src) ==
  [push |-> push, remote |-> Null, offer |-> text, transports |-> tr, src |-> src,
   taken |-> Null, last |-> Null]

LEMMA NewPeerFacts ==
  ASSUME NEW push \in BOOLEAN, NEW mids \in Media, NEW src, src = Null \/ Conforms(src),
         NEW sources, sources = IF push THEN NoSource ELSE Source(RemoteOf(src)),
         NEW n \in 1..Len(Cred), NEW ports \in Seq(Word),
         NEW tr, tr = LocalTransports(LocalDescription(push, mids, sources, Cred[n])),
         NEW c, c = NewPeer(push, OfferText(push, mids, sources, Cred[n], ports), tr, src)
  PROVE  PeerKnown(c, ports, n) /\ Whole(c)
<1>1. MidsOf(mids)
  BY MediaFacts
<1>2. sources \in SourceSet
  BY RemoteType, SourceType, NoSourceType
<1>3. PICK cred \in Word : cred = Cred[n]
  BY NegotiationAssumption
<1>4. PICK text : text = OfferText(push, mids, sources, cred, ports)
  OBVIOUS
<1>5. text \in TextSet
  BY <1>1, <1>2, <1>4, OfferFacts
<1>6. PICK desc : desc = LocalDescription(push, mids, sources, cred)
  OBVIOUS
<1>7. LocalParts(desc, push, mids, sources, cred)
  BY <1>1, <1>2, <1>6, LocalPartsFacts
<1>8. OneNew(tr, mids[1], cred)
  <2>1. OneNew(LocalTransports(desc), mids[1], cred)
    BY <1>1, <1>2, <1>7, LocalTransportsIs, Zenon
  <2> QED BY <1>3, <1>6, <2>1
<1>9. mids[1] \in Mids
  <2>1. PICK L : L = Len(mids) /\ L \in {1, 2}
    BY <1>1, Zenon DEF MidsOf
  <2>2. 1 \in 1..Len(mids)
    BY <2>1
  <2> QED BY <1>1, <2>2 DEF MidsOf
<1>10. NewTransport(cred) \in TransportSet
  BY NoWordFacts DEF NewTransport, TransportSet
<1>11. PICK x \in Mids : x = mids[1] /\ tr = [y \in {x} |-> NewTransport(cred)]
  BY <1>8, <1>9 DEF OneNew
<1>12. /\ tr \in [{"audio"} -> TransportSet] \cup [{"video"} -> TransportSet]
       /\ DOMAIN tr = {x} /\ tr[x] = NewTransport(cred)
  BY <1>10, <1>11 DEF Mids
<1>13. src \in TextSet \cup {Null}
  BY DEF Conforms
<1>14. c = NewPeer(push, text, tr, src)
  BY <1>3, <1>4
<1>15. /\ c.push = push /\ c.remote = Null /\ c.offer = text /\ c.transports = tr
       /\ c.src = src /\ c.taken = Null /\ c.last = Null
  BY <1>14 DEF NewPeer
<1>16. c \in PeerSet
  BY <1>5, <1>12, <1>13, <1>14 DEF NewPeer, PeerSet
<1>17. OfferIsOf(c, ports, mids, Cred[n])
  <2>1. NewTransport(cred).ufrag = cred
    BY DEF NewTransport
  <2> QED BY <1>3, <1>4, <1>11, <1>12, <1>15, <2>1 DEF OfferIsOf
<1>18. PeerKnown(c, ports, n)
  <2>1. n \in 1..n
    BY NegotiationAssumption
  <2>2. c.remote = RemoteOf(c.last)
    BY <1>15 DEF RemoteOf
  <2>3. \A t \in {c.src, c.taken, c.last} : t = Null \/ Conforms(t)
    BY <1>15
  <2> QED BY <1>16, <1>17, <2>1, <2>2, <2>3 DEF PeerKnown
<1>19. Whole(c)
  <2>1. NewTransport(cred).rfp = Null
    BY DEF NewTransport
  <2> QED BY <1>12, <1>15, <2>1 DEF Whole, FromTaken
<1> QED BY <1>18, <1>19

\* A PeerConnection after an answer of which tr is what its transports become.
Answered(c, text, ok, desc, tr) ==
  [c EXCEPT !.remote = desc, !.last = text, !.taken = IF ok THEN text ELSE @, !.transports = tr]

LEMMA AnsweredKnown ==
  ASSUME NEW n, NEW c, NEW ports, PeerKnown(c, ports, n), NEW text, Conforms(text),
         NEW ok \in BOOLEAN, NEW desc, desc = RemoteOf(text),
         NEW tr \in [DOMAIN c.transports -> TransportSet],
         \A m \in DOMAIN c.transports : tr[m].ufrag = c.transports[m].ufrag,
         NEW d, d = Answered(c, text, ok, desc, tr)
  PROVE  /\ PeerKnown(d, ports, n)
         /\ d.taken = (IF ok THEN text ELSE c.taken) /\ d.transports = tr
<1>1. c \in PeerSet /\ ports \in Seq(Word)
  BY DEF PeerKnown
<1>2. desc \in DescriptionSet \cup {Null} /\ text \in TextSet
  BY RemoteType DEF Conforms
<1>3. c.transports \in [{"audio"} -> TransportSet] \cup [{"video"} -> TransportSet]
  BY <1>1 DEF PeerSet
<1>4. tr \in [{"audio"} -> TransportSet] \cup [{"video"} -> TransportSet]
  BY <1>3
<1>5. PICK taken : taken = (IF ok THEN text ELSE c.taken)
  OBVIOUS
<1>6. taken \in TextSet \cup {Null}
  BY <1>1, <1>2, <1>5 DEF PeerSet
<1>7. d = [c EXCEPT !.remote = desc, !.last = text, !.taken = taken, !.transports = tr]
  BY <1>5 DEF Answered
<1>8. /\ d \in PeerSet /\ d.push = c.push /\ d.offer = c.offer /\ d.src = c.src
      /\ d.remote = desc /\ d.last = text /\ d.taken = taken /\ d.transports = tr
  BY <1>1, <1>2, <1>4, <1>6, <1>7 DEF PeerSet
<1>9. PICK mids \in Media, i \in 1..n : OfferIsOf(c, ports, mids, Cred[i])
  BY DEF PeerKnown
<1>10. OfferIsOf(d, ports, mids, Cred[i])
  <2>1. DOMAIN tr = DOMAIN c.transports
    OBVIOUS
  <2>2. DOMAIN c.transports = {mids[1]}
    BY <1>9 DEF OfferIsOf
  <2>3. tr[mids[1]].ufrag = c.transports[mids[1]].ufrag
    BY <2>2
  <2> QED BY <1>8, <1>9, <2>1, <2>2, <2>3 DEF OfferIsOf
<1>11. d.remote = RemoteOf(d.last)
  BY <1>8
<1>12. \A t \in {d.src, d.taken, d.last} : t = Null \/ Conforms(t)
  BY <1>5, <1>8 DEF PeerKnown
<1>13. PeerKnown(d, ports, n)
  BY <1>1, <1>8, <1>9, <1>10, <1>11, <1>12 DEF PeerKnown
<1> QED BY <1>5, <1>8, <1>13

LEMMA RemoteTransportsFacts ==
  ASSUME NEW desc, NEW D, NEW tr \in [D -> TransportSet],
         \A m \in Known(tr, desc) : GetTransportInfo(desc, m) \in TdSet,
         NEW new, new = RemoteTransports(tr, desc)
  PROVE  /\ new \in [D -> TransportSet]
         /\ \A m \in D : new[m].ufrag = tr[m].ufrag
         /\ \A m \in Known(tr, desc) : LET td == GetTransportInfo(desc, m) IN
              /\ m \in D /\ new[m].rufrag = td.ufrag /\ new[m].rpwd = td.pwd /\ new[m].rfp = td.fp
<1>1. DOMAIN tr = D
  OBVIOUS
<1>2. Known(tr, desc) \subseteq D
  BY <1>1 DEF Known, DtlsTransports
<1>3. ASSUME NEW m \in D, m \notin Known(tr, desc) PROVE new[m] = tr[m]
  BY <1>1, <1>3 DEF RemoteTransports
<1>4. ASSUME NEW m \in Known(tr, desc)
      PROVE  /\ new[m] \in TransportSet /\ new[m].ufrag = tr[m].ufrag
             /\ new[m].rufrag = GetTransportInfo(desc, m).ufrag
             /\ new[m].rpwd = GetTransportInfo(desc, m).pwd
             /\ new[m].rfp = GetTransportInfo(desc, m).fp
  <2>1. PICK t \in TransportSet, td \in TdSet : t = tr[m] /\ td = GetTransportInfo(desc, m)
    BY <1>2, <1>4
  <2>2. new[m] = [SetRemoteIceParams(t, td) EXCEPT !.rfp = td.fp]
    BY <1>1, <1>2, <1>4, <2>1 DEF RemoteTransports
  <2>3. new[m] = [t EXCEPT !.rufrag = td.ufrag, !.rpwd = td.pwd, !.rfp = td.fp]
    BY <2>2 DEF SetRemoteIceParams, TransportSet
  <2>4. td.ufrag \in Word /\ td.pwd \in Word /\ td.fp \in Word \cup {Null}
    BY DEF TdSet
  <2>5. /\ new[m] \in TransportSet /\ new[m].ufrag = t.ufrag /\ new[m].rufrag = td.ufrag
        /\ new[m].rpwd = td.pwd /\ new[m].rfp = td.fp
    BY <2>3, <2>4 DEF TransportSet
  <2> QED BY <2>1, <2>5
<1>5. new = [m \in D |-> new[m]]
  BY <1>1 DEF RemoteTransports
<1>6. \A m \in D : new[m] \in TransportSet /\ new[m].ufrag = tr[m].ufrag
  BY <1>3, <1>4
<1>7. new \in [D -> TransportSet]
  BY <1>5, <1>6
<1> QED BY <1>2, <1>4, <1>6, <1>7

\* ... which is known, and whole unless a null pointer was met.
Undigested(text) == Plain(text) => Ref(text, Tagged(text), "fingerprint") = {}
AnswerTaken(d, ports, n, text, null) ==
  /\ PeerKnown(d, ports, n)
  /\ ~ null => Whole(d)
  /\ null => d.taken = text /\ Undigested(text)

LEMMA AnsweredFacts ==
  ASSUME NEW n, NEW c, NEW ports, PeerKnown(c, ports, n), Whole(c), NEW text, Conforms(text),
         NEW st, st = ParseLines(text), NEW desc, desc = Description(st),
         NEW null \in BOOLEAN, null <=> (st.ok /\ Null \in Dereferences(c.transports, desc)),
         NEW tr, tr = IF st.ok /\ ~ null THEN RemoteTransports(c.transports, desc)
                      ELSE c.transports,
         NEW d, d = Answered(c, text, st.ok, desc, tr)
  PROVE  AnswerTaken(d, ports, n, text, null)
<1>1. text \in TextSet /\ text # Null
  BY SdpAssumption DEF Conforms
<1>2. st \in StSet /\ st.ok \in BOOLEAN
  <2>1. st \in StSet
    BY <1>1, AnswerState
  <2> QED BY <2>1 DEF StSet
<1>3. desc = RemoteOf(text)
  BY <1>1 DEF RemoteOf
<1>4. PICK ct, D : ct = c.transports /\ D = DOMAIN ct /\ ct \in [D -> TransportSet]
  BY DEF PeerKnown, PeerSet
<1>5. ASSUME Plain(text), st.ok, NEW m \in Known(ct, desc)
      PROVE  /\ m \in Mids /\ m = Tagged(text) /\ GetTransportInfo(desc, m) = st.td[m]
             /\ st.td[m] \in TdSet /\ TransportOf(text, st.td[m])
  <2>1. m \in Channels(desc)
    BY <1>5 DEF Known
  <2>2. m \in Mids /\ m = Tagged(text) /\ GetTransportInfo(desc, m) = st.td[m]
    BY <1>5, <2>1, AnswerChannels
  <2>3. TransportOf(text, st.td[m])
    BY <1>5, <2>2, AnswerTransport
  <2> QED BY <2>2, <2>3 DEF TransportOf
<1>6. /\ tr \in [D -> TransportSet] /\ \A m \in D : tr[m].ufrag = ct[m].ufrag
      /\ Plain(text) /\ st.ok /\ ~ null => \A m \in Known(ct, desc) :
           /\ m \in D /\ tr[m].rufrag = st.td[m].ufrag /\ tr[m].rpwd = st.td[m].pwd
           /\ tr[m].rfp = st.td[m].fp
  <2>1. CASE st.ok /\ ~ null
    <3>1. tr = RemoteTransports(ct, desc)
      BY <1>4, <2>1
    <3>2. \A m \in Known(ct, desc) : GetTransportInfo(desc, m) \in TdSet
      BY <1>1, <2>1, AnswerTransports DEF Known
    <3>3. /\ tr \in [D -> TransportSet]
          /\ \A m \in D : tr[m].ufrag = ct[m].ufrag
          /\ \A m \in Known(ct, desc) : LET td == GetTransportInfo(desc, m) IN
               /\ m \in D /\ tr[m].rufrag = td.ufrag /\ tr[m].rpwd = td.pwd /\ tr[m].rfp = td.fp
      BY <1>4, <3>1, <3>2, RemoteTransportsFacts
    <3> QED BY <1>5, <2>1, <3>3
  <2>2. CASE ~ (st.ok /\ ~ null)
    BY <1>4, <2>2
  <2> QED BY <2>1, <2>2
<1>7. ~ st.ok => tr = ct
  BY <1>4
<1>8. /\ PeerKnown(d, ports, n)
      /\ d.taken = (IF st.ok THEN text ELSE c.taken) /\ d.transports = tr
  <2>1. tr \in [DOMAIN c.transports -> TransportSet]
        /\ \A m \in DOMAIN c.transports : tr[m].ufrag = c.transports[m].ufrag
    BY <1>4, <1>6
  <2>2. PICK ok \in BOOLEAN : ok = st.ok /\ d = Answered(c, text, ok, desc, tr)
    BY <1>2
  <2>3. /\ PeerKnown(d, ports, n)
        /\ d.taken = (IF ok THEN text ELSE c.taken) /\ d.transports = tr
    BY <1>3, <2>1, <2>2, AnsweredKnown
  <2> QED BY <2>2, <2>3
<1>9. ASSUME ~ null PROVE Whole(d)
  <2>1. CASE st.ok
    <3>1. ASSUME NEW m \in D, Plain(text), Tagged(text) = m
          PROVE  /\ Ref(text, m, "ufrag") = {<<tr[m].rufrag>>}
                 /\ Ref(text, m, "pwd") = {<<tr[m].rpwd>>}
                 /\ \E alg \in Algorithm : Ref(text, m, "fingerprint") = {<<alg, tr[m].rfp>>}
      <4>1. m \in Known(ct, desc)
        <5>1. m \in Mids
          BY <1>4, <3>1 DEF PeerKnown, PeerSet, Mids
        <5>2. m \in Channels(desc)
          BY <2>1, <3>1, <5>1, AnswerChannels
        <5> QED BY <1>4, <5>2 DEF Known, DtlsTransports
      <4>2. /\ tr[m].rufrag = st.td[m].ufrag /\ tr[m].rpwd = st.td[m].pwd
            /\ tr[m].rfp = st.td[m].fp
        BY <1>6, <1>9, <2>1, <3>1, <4>1
      <4>3. TransportOf(text, st.td[m]) /\ GetTransportInfo(desc, m) = st.td[m]
        BY <1>5, <2>1, <3>1, <4>1
      <4>4. st.td[m].fp # Null
        BY <1>4, <1>9, <2>1, <4>1, <4>3 DEF Dereferences
      <4> QED BY <3>1, <4>2, <4>3, <4>4 DEF TransportOf, OneDigest
    <3>2. d.taken = text
      BY <1>8, <2>1
    <3>3. DOMAIN d.transports = D
      BY <1>6, <1>8
    <3> QED BY <1>1, <1>8, <3>1, <3>2, <3>3 DEF Whole, FromTaken
  <2>2. CASE ~ st.ok
    <3>1. tr = ct
      BY <1>7, <2>2
    <3> QED BY <1>4, <1>8, <2>2, <3>1 DEF Whole
  <2> QED BY <2>1, <2>2
<1>10. ASSUME null PROVE d.taken = text /\ Undigested(text)
  <2>1. st.ok
    BY <1>10
  <2> SUFFICES ASSUME Plain(text) PROVE Ref(text, Tagged(text), "fingerprint") = {}
    BY <1>8, <2>1 DEF Undigested
  <2>2. PICK m \in Known(ct, desc) : GetTransportInfo(desc, m).fp = Null
    BY <1>4, <1>10 DEF Dereferences
  <2>3. TransportOf(text, st.td[m]) /\ st.td[m].fp = Null
    BY <1>5, <2>1, <2>2
  <2> QED BY <2>3 DEF TransportOf, OneDigest
<1> QED BY <1>8, <1>9, <1>10, Zenon DEF AnswerTaken

-----------------------------------------------------------------------------
(* The inductive invariant *)

\* The invariant, PeerConnection by PeerConnection.
EachPeer ==
  /\ offers \in 0..Len(Cred) /\ answers \in Nat /\ crashed \in BOOLEAN
  /\ peer \in [Pc -> PeerSet \cup {Null}] /\ bound \in [Pc -> Seq(Word)]
  /\ \A p \in Pc : peer[p] # Null => /\ PeerKnown(peer[p], bound[p], offers)
                                     /\ ~ crashed => Whole(peer[p])
  /\ PortsApart
  /\ NullOnlyIfUntagged

LEMMA InvariantIsEach == NegotiationInv <=> EachPeer
<1>1. ASSUME NegotiationInv PROVE EachPeer
  BY <1>1 DEF NegotiationInv, EachPeer, NegotiationTypeOK, OffersKnown, AnswersKnown,
              OneAnswerWhole, PeerKnown, Whole, FromTaken
<1>2. ASSUME EachPeer PROVE NegotiationInv
  BY <1>2 DEF NegotiationInv, EachPeer, NegotiationTypeOK, OffersKnown, AnswersKnown,
              OneAnswerWhole, PeerKnown, Whole, FromTaken
<1> QED BY <1>1, <1>2

LEMMA InitEach == NegotiationInit => EachPeer
<1> SUFFICES ASSUME NegotiationInit PROVE EachPeer
  OBVIOUS
<1> USE DEF NegotiationInit
<1>1. offers \in 0..Len(Cred) /\ answers \in Nat /\ crashed \in BOOLEAN
  <2>1. Len(Cred) \in Nat
    BY NegotiationAssumption
  <2>2. offers = 0 /\ answers = 0 /\ crashed = FALSE
    OBVIOUS
  <2>3. offers \in 0..Len(Cred) /\ answers \in Nat
    BY <2>1, <2>2
  <2> QED BY <2>2, <2>3, Zenon
<1>2. peer \in [Pc -> PeerSet \cup {Null}] /\ \A p \in Pc : peer[p] = Null
  OBVIOUS
<1>3. bound \in [Pc -> Seq(Word)]
  OBVIOUS
<1>4. PortsApart
  <2>1. \A x : x \notin Range(<< >>)
    BY DEF Range
  <2>2. \A p \in Pc : bound[p] = << >>
    OBVIOUS
  <2> QED BY <2>1, <2>2 DEF PortsApart
<1>5. NullOnlyIfUntagged
  BY DEF NullOnlyIfUntagged
<1> QED BY <1>1, <1>2, <1>3, <1>4, <1>5 DEF EachPeer

\* What was made stays known when more offers are made.
LEMMA KnownLater ==
  ASSUME NEW c, NEW ports, NEW n \in Nat, NEW k \in Nat, n =< k, PeerKnown(c, ports, n)
  PROVE  PeerKnown(c, ports, k)
<1>1. \A i \in 1..n : i \in 1..k
  OBVIOUS
<1> QED BY <1>1 DEF PeerKnown

\* An offer is made for p.
LEMMA MakeOfferKeeps ==
  ASSUME EachPeer, ~ crashed, NEW p \in Pc, NEW push \in BOOLEAN, NEW mids \in Media,
         offers < Len(Cred), offers' = offers + 1, UNCHANGED <<answers, crashed>>,
         NEW src, src = Null \/ Conforms(src),
         NEW sources, sources = IF push THEN NoSource ELSE Source(RemoteOf(src)),
         MakeOffer(p, push, mids, sources, src)
  PROVE  EachPeer'
<1>1. offers + 1 \in 1..Len(Cred) /\ offers' \in 0..Len(Cred) /\ offers \in Nat
  BY NegotiationAssumption DEF EachPeer
<1>2. PICK n : n = offers + 1 /\ n \in 1..Len(Cred)
  BY <1>1
<1>3. PICK tr : tr = LocalTransports(LocalDescription(push, mids, sources, Cred[n]))
  OBVIOUS
<1>4. PICK free, ports : /\ ports = IF tr = << >> THEN << >> ELSE Bind(free, Networks)
                         /\ free \cap InUse = {}
                         /\ bound' = [bound EXCEPT ![p] = ports]
                         /\ peer' = [peer EXCEPT ![p] =
                              NewPeer(push, OfferText(push, mids, sources, Cred[n], ports), tr, src)]
  <2>1. PICK refused \in Refused :
          LET desc == LocalDescription(push, mids, sources, Cred[offers + 1])
              transports == LocalTransports(desc)
              ports == IF transports = << >> THEN << >>
                       ELSE Bind(Range(Port) \ (InUse \cup refused), Networks)
              local == WithCandidates(desc, transports, ports)
          IN /\ bound' = [bound EXCEPT ![p] = ports]
             /\ peer' = [peer EXCEPT ![p] =
                  [push |-> push, remote |-> Null, offer |-> ToString_(local),
                   transports |-> transports, src |-> src, taken |-> Null, last |-> Null]]
    BY DEF MakeOffer
  <2> WITNESS Range(Port) \ (InUse \cup refused)
  <2>2. PICK ports : ports = IF tr = << >> THEN << >>
                             ELSE Bind(Range(Port) \ (InUse \cup refused), Networks)
    OBVIOUS
  <2>3. (Range(Port) \ (InUse \cup refused)) \cap InUse = {}
    OBVIOUS
  <2>4. bound' = [bound EXCEPT ![p] = ports]
    BY <1>2, <1>3, <2>1, <2>2
  <2>5. peer' = [peer EXCEPT ![p] =
                   NewPeer(push, OfferText(push, mids, sources, Cred[n], ports), tr, src)]
    BY <1>2, <1>3, <2>1, <2>2 DEF NewPeer, OfferText
  <2> QED BY <2>2, <2>3, <2>4, <2>5
<1>5. ports \in Seq(Word) /\ Range(ports) \cap InUse = {}
  <2>1. CASE tr = << >>
    <3>1. ports = << >>
      BY <1>4, <2>1
    <3>2. << >> \in Seq(Word) /\ \A x : x \notin Range(<< >>)
      BY DEF Range
    <3> QED BY <3>1, <3>2
  <2>2. CASE tr # << >>
    <3>1. ports = Bind(free, Networks) /\ Networks \in Nat
      BY <1>4, <2>2, NegotiationAssumption DEF Networks
    <3>2. ports \in Seq(Word) /\ Range(ports) \subseteq free
      BY <3>1, BindFacts
    <3> QED BY <1>4, <3>2
  <2> QED BY <2>1, <2>2
<1>6. PICK c : c = NewPeer(push, OfferText(push, mids, sources, Cred[n], ports), tr, src)
  OBVIOUS
<1>7. PeerKnown(c, ports, n) /\ Whole(c)
  BY <1>2, <1>3, <1>5, <1>6, NewPeerFacts
<1>8. c \in PeerSet
  BY <1>7 DEF PeerKnown
<1>9. /\ peer \in [Pc -> PeerSet \cup {Null}] /\ bound \in [Pc -> Seq(Word)]
      /\ peer' = [peer EXCEPT ![p] = c] /\ bound' = [bound EXCEPT ![p] = ports]
  BY <1>4, <1>6 DEF EachPeer
<1>10. peer' \in [Pc -> PeerSet \cup {Null}] /\ bound' \in [Pc -> Seq(Word)]
  BY <1>5, <1>8, <1>9
<1>11. ASSUME NEW q \in Pc, peer'[q] # Null
       PROVE  PeerKnown(peer'[q], bound'[q], offers') /\ (~ crashed' => Whole(peer'[q]))
  <2>1. CASE q = p
    <3>1. peer'[q] = c /\ bound'[q] = ports /\ offers' = n
      BY <1>2, <1>9, <2>1
    <3> QED BY <1>7, <3>1
  <2>2. CASE q # p
    <3>1. peer'[q] = peer[q] /\ bound'[q] = bound[q]
      BY <1>9, <2>2
    <3>2. PeerKnown(peer[q], bound[q], offers) /\ Whole(peer[q])
      BY <1>11, <3>1 DEF EachPeer
    <3>3. offers' \in Nat /\ offers =< offers'
      BY <1>1
    <3>4. PeerKnown(peer[q], bound[q], offers')
      BY <1>1, <3>2, <3>3, KnownLater
    <3> QED BY <3>1, <3>2, <3>4
  <2> QED BY <2>1, <2>2
<1>12. \A q \in Pc : Range(bound[q]) \subseteq InUse
  <2>1. ASSUME NEW q \in Pc, NEW x \in Range(bound[q]) PROVE x \in InUse
    <3>1. PICK i \in 1..Len(bound[q]) : x = bound[q][i]
      BY <1>9, RangeFacts
    <3> QED BY <3>1 DEF InUse
  <2> QED BY <2>1
<1>13. PortsApart'
  <2>1. \A q \in Pc : bound'[q] = IF q = p THEN ports ELSE bound[q]
    BY <1>9
  <2>2. PortsApart
    BY DEF EachPeer
  <2> QED BY <1>5, <1>12, <2>1, <2>2 DEF PortsApart
<1>14. NullOnlyIfUntagged'
  BY DEF NullOnlyIfUntagged
<1>15. answers' \in Nat /\ crashed' \in BOOLEAN
  BY DEF EachPeer
<1> QED BY <1>1, <1>10, <1>11, <1>13, <1>14, <1>15 DEF EachPeer

LEMMA SetRemoteSdpKeeps ==
  ASSUME EachPeer, NEW p \in Pc, NEW text, Conforms(text), SetRemoteSdp(p, text)
  PROVE  EachPeer'
<1>1. PICK st, desc, null : /\ st = ParseLines(text) /\ desc = Description(st)
                            /\ null = (st.ok /\ Null \in Dereferences(peer[p].transports, desc))
  OBVIOUS
<1>2. st \in StSet /\ null \in BOOLEAN
  <2>1. st \in StSet
    BY <1>1, AnswerState DEF Conforms
  <2> QED BY <1>1, <2>1
<1>3. [st EXCEPT !.ok = Applies(st)] = st
  BY <1>2 DEF Applies, StSet
<1>4. PICK tr : tr = IF st.ok /\ ~ null THEN RemoteTransports(peer[p].transports, desc)
                     ELSE peer[p].transports
  OBVIOUS
<1>5. PICK d : d = Answered(peer[p], text, st.ok, desc, tr)
  OBVIOUS
<1>6. /\ ~ crashed /\ peer[p] # Null /\ answers' = answers + 1 /\ crashed' = null
      /\ UNCHANGED <<offers, bound>>
  BY <1>1, <1>3 DEF SetRemoteSdp, Applies
<1>7. peer' = [peer EXCEPT ![p] = d]
  <2>1. peer' = [peer EXCEPT ![p].remote = desc, ![p].last = text,
                             ![p].taken = IF st.ok THEN text ELSE @,
                             ![p].transports = IF st.ok /\ ~ null
                                               THEN RemoteTransports(@, desc) ELSE @]
    BY <1>1, <1>3 DEF SetRemoteSdp, Applies
  <2> QED BY <1>4, <1>5, <2>1 DEF Answered
<1>8. /\ peer \in [Pc -> PeerSet \cup {Null}]
      /\ PeerKnown(peer[p], bound[p], offers) /\ Whole(peer[p])
  BY <1>6 DEF EachPeer
<1>9. /\ PeerKnown(d, bound[p], offers)
      /\ ~ null => Whole(d)
      /\ null => d.taken = text /\ Undigested(text)
  <2>1. PICK c, ports, n : c = peer[p] /\ ports = bound[p] /\ n = offers
    OBVIOUS
  <2>2. null <=> (st.ok /\ Null \in Dereferences(c.transports, desc))
    BY <1>1, <2>1
  <2>3. tr = IF st.ok /\ ~ null THEN RemoteTransports(c.transports, desc) ELSE c.transports
    BY <1>4, <2>1
  <2>4. d = Answered(c, text, st.ok, desc, tr) /\ PeerKnown(c, ports, n) /\ Whole(c)
    BY <1>5, <1>8, <2>1
  <2>5. st = ParseLines(text) /\ desc = Description(st) /\ null \in BOOLEAN
    BY <1>1, <1>2
  <2>6. AnswerTaken(d, ports, n, text, null)
    BY <2>2, <2>3, <2>4, <2>5, AnsweredFacts, Zenon
  <2> QED BY <2>1, <2>6 DEF AnswerTaken
<1>10. d \in PeerSet
  BY <1>9 DEF PeerKnown
<1>11. peer' \in [Pc -> PeerSet \cup {Null}] /\ peer'[p] = d
  BY <1>7, <1>8, <1>10
<1>12. ASSUME NEW q \in Pc, peer'[q] # Null
       PROVE  PeerKnown(peer'[q], bound'[q], offers') /\ (~ crashed' => Whole(peer'[q]))
  <2>1. CASE q = p
    BY <1>6, <1>9, <1>11, <2>1
  <2>2. CASE q # p
    <3>1. peer'[q] = peer[q]
      BY <1>7, <1>8, <2>2
    <3> QED BY <1>6, <1>12, <3>1 DEF EachPeer
  <2> QED BY <2>1, <2>2
<1>13. NullOnlyIfUntagged'
  <2>1. d # Null /\ text # Null
    BY <1>10, NegotiationAssumption, SdpAssumption DEF Conforms
  <2> QED BY <1>6, <1>9, <1>11, <2>1 DEF NullOnlyIfUntagged, Undigested
<1>14. PortsApart'
  BY <1>6 DEF EachPeer, PortsApart
<1>15. /\ offers' \in 0..Len(Cred) /\ answers' \in Nat /\ crashed' \in BOOLEAN
       /\ bound' \in [Pc -> Seq(Word)]
  BY <1>2, <1>6 DEF EachPeer
<1> QED BY <1>11, <1>12, <1>13, <1>14, <1>15 DEF EachPeer

LEMMA DestroyKeeps ==
  ASSUME EachPeer, NEW p \in Pc, Destroy(p)
  PROVE  EachPeer'
<1>1. /\ ~ crashed /\ UNCHANGED <<offers, answers, crashed>>
      /\ peer' = [peer EXCEPT ![p] = Null] /\ bound' = [bound EXCEPT ![p] = << >>]
  BY DEF Destroy, CloseSockets
<1>2. peer \in [Pc -> PeerSet \cup {Null}] /\ bound \in [Pc -> Seq(Word)]
  BY DEF EachPeer
<1>3. << >> \in Seq(Word) /\ \A x : x \notin Range(<< >>)
  BY DEF Range
<1>4. peer' \in [Pc -> PeerSet \cup {Null}] /\ bound' \in [Pc -> Seq(Word)]
  BY <1>1, <1>2, <1>3
<1>5. ASSUME NEW q \in Pc, peer'[q] # Null
      PROVE  PeerKnown(peer'[q], bound'[q], offers') /\ (~ crashed' => Whole(peer'[q]))
  <2>1. q # p /\ peer'[q] = peer[q] /\ bound'[q] = bound[q]
    BY <1>1, <1>2, <1>5
  <2> QED BY <1>1, <1>5, <2>1 DEF EachPeer
<1>6. PortsApart'
  <2>1. \A q \in Pc : bound'[q] = IF q = p THEN << >> ELSE bound[q]
    BY <1>1, <1>2
  <2>2. PortsApart
    BY DEF EachPeer
  <2> QED BY <1>3, <2>1, <2>2 DEF PortsApart
<1>7. NullOnlyIfUntagged'
  BY <1>1 DEF NullOnlyIfUntagged
<1> QED BY <1>1, <1>4, <1>5, <1>6, <1>7 DEF EachPeer

LEMMA EachPeerKept == EachPeer /\ [NegotiationNext]_negotiationVars => EachPeer'
<1> SUFFICES ASSUME EachPeer, [NegotiationNext]_negotiationVars PROVE EachPeer'
  OBVIOUS
<1>1. ASSUME NEW p \in Pc, NEW mids \in Media, PushOffer(p, mids) PROVE EachPeer'
  <2>1. /\ ~ crashed /\ offers < Len(Cred) /\ offers' = offers + 1
        /\ MakeOffer(p, TRUE, mids, NoSource, Null) /\ UNCHANGED <<answers, crashed>>
    BY <1>1 DEF PushOffer
  <2>2. PICK push \in BOOLEAN : push = TRUE
    OBVIOUS
  <2>3. PICK src, sources : src = Null /\ sources = NoSource
    OBVIOUS
  <2>4. sources = IF push THEN NoSource ELSE Source(RemoteOf(src))
    BY <2>2, <2>3
  <2>5. MakeOffer(p, push, mids, sources, src) /\ (src = Null \/ Conforms(src))
    BY <2>1, <2>2, <2>3
  <2> QED BY <2>1, <2>4, <2>5, MakeOfferKeeps
<1>2. ASSUME NEW p \in Pc, NEW q \in Pc, NEW mids \in Media, PullOffer(p, q, mids)
      PROVE  EachPeer'
  <2>1. /\ ~ crashed /\ offers < Len(Cred) /\ offers' = offers + 1 /\ peer[q] # Null
        /\ MakeOffer(p, FALSE, mids, Source(peer[q].remote), peer[q].last)
        /\ UNCHANGED <<answers, crashed>>
    BY <1>2 DEF PullOffer
  <2>2. PICK push \in BOOLEAN : push = FALSE
    OBVIOUS
  <2>3. PICK src, sources : src = peer[q].last /\ sources = Source(peer[q].remote)
    OBVIOUS
  <2>4. peer[q].remote = RemoteOf(src) /\ (src = Null \/ Conforms(src))
    BY <2>1, <2>3 DEF EachPeer, PeerKnown
  <2>5. sources = IF push THEN NoSource ELSE Source(RemoteOf(src))
    BY <2>2, <2>3, <2>4
  <2>6. MakeOffer(p, push, mids, sources, src)
    BY <2>1, <2>2, <2>3
  <2> QED BY <2>1, <2>4, <2>5, <2>6, MakeOfferKeeps
<1>3. ASSUME NEW p \in Pc, NEW text, Conforms(text), SetRemoteSdp(p, text) PROVE EachPeer'
  BY <1>3, SetRemoteSdpKeeps
<1>4. ASSUME NEW p \in Pc, Destroy(p) PROVE EachPeer'
  BY <1>4, DestroyKeeps
<1>5. ASSUME UNCHANGED negotiationVars PROVE EachPeer'
  BY <1>5 DEF negotiationVars, EachPeer, PortsApart, NullOnlyIfUntagged
<1> QED BY <1>1, <1>2, <1>3, <1>4, <1>5 DEF NegotiationNext

\* The inductive invariant of offers and answers: every offer is the text of a description
\* made for the ports that are bound and the transport that is there, every remote
\* description is that of the latest answer, and no port is bound twice.
THEOREM NegotiationInvariance == NegotiationSpec => []NegotiationInv
<1>1. NegotiationInit => NegotiationInv
  BY InitEach, InvariantIsEach
<1>2. NegotiationInv /\ [NegotiationNext]_negotiationVars => NegotiationInv'
  <2>1. EachPeer' => NegotiationInv'
    BY InvariantIsEach, PTL
  <2> QED BY <2>1, EachPeerKept, InvariantIsEach
<1> QED BY <1>1, <1>2, PTL DEF NegotiationSpec

LEMMA TellsTransport == NegotiationInv => OfferTellsTransport
<1> SUFFICES ASSUME NegotiationInv PROVE OfferTellsTransport
  OBVIOUS
<1>1. EachPeer
  BY InvariantIsEach
<1>2. ASSUME NEW p \in Pc, peer[p] # Null, NEW t, t = Tagged(peer[p].offer)
      PROVE  /\ DOMAIN peer[p].transports = {t}
             /\ Ref(peer[p].offer, t, "ufrag") = {<<peer[p].transports[t].ufrag>>}
             /\ Ref(peer[p].offer, t, "candidate") = {<<x>> : x \in Range(bound[p])}
             /\ \A m \in Mids \ {t} : Ref(peer[p].offer, m, "candidate") = {}
  <2>1. PICK c, ports : c = peer[p] /\ ports = bound[p] /\ PeerKnown(c, ports, offers)
    BY <1>1, <1>2 DEF EachPeer
  <2>2. PICK mids \in Media, i \in 1..offers : OfferIsOf(c, ports, mids, Cred[i])
    BY <2>1 DEF PeerKnown
  <2>3. PICK sources : sources = IF c.push THEN NoSource ELSE Source(RemoteOf(c.src))
    OBVIOUS
  <2>4. PICK cred : cred = Cred[i]
    OBVIOUS
  <2>5. /\ c.offer = OfferText(c.push, mids, sources, cred, ports)
        /\ DOMAIN c.transports = {mids[1]} /\ c.transports[mids[1]].ufrag = cred
    BY <2>2, <2>3, <2>4 DEF OfferIsOf
  <2>6. sources \in SourceSet
    <3>1. c.src = Null \/ Conforms(c.src)
      BY <2>1 DEF PeerKnown
    <3> QED BY <2>3, <3>1, RemoteType, SourceType, NoSourceType
  <2>7. cred \in Word
    <3>1. offers \in 0..Len(Cred)
      BY <1>1 DEF EachPeer
    <3>2. i \in 1..Len(Cred)
      BY <3>1, NegotiationAssumption
    <3> QED BY <2>4, <3>2, NegotiationAssumption
  <2>8. ports \in Seq(Word) /\ c.push \in BOOLEAN /\ MidsOf(mids)
    BY <2>1, MediaFacts DEF PeerKnown, PeerSet
  <2>9. PICK push, text : push \in BOOLEAN /\ push = c.push /\ text = c.offer
    BY <2>8
  <2>10. /\ Tagged(text) = mids[1]
         /\ Ref(text, mids[1], "ufrag") = {<<cred>>}
         /\ Ref(text, mids[1], "candidate") = {<<x>> : x \in Range(ports)}
         /\ \A m \in Mids \ {mids[1]} : Ref(text, m, "candidate") = {}
    <3>1. text = OfferText(push, mids, sources, cred, ports)
      BY <2>5, <2>9
    <3>2. push \in BOOLEAN
      BY <2>9
    <3> QED BY <2>6, <2>7, <2>8, <3>1, <3>2, OfferFacts
  <2>11. t = mids[1]
    BY <1>2, <2>1, <2>9, <2>10
  <2> QED BY <2>1, <2>5, <2>9, <2>10, <2>11
<1>3. PortsApart
  BY DEF NegotiationInv
<1> QED BY <1>2, <1>3 DEF OfferTellsTransport, PortsApart

\* An offer tells of the transport behind it: the tagged section has the channel's
\* credentials and exactly the ports that are bound, no port is offered twice.
THEOREM OffersTellTransport == NegotiationSpec => []OfferTellsTransport
BY NegotiationInvariance, TellsTransport, PTL

\* The remote parameters of a transport are all from the latest answer that was taken.
THEOREM AnswersAreWhole == NegotiationSpec => []OneAnswerWhole
<1>1. NegotiationInv => OneAnswerWhole
  BY DEF NegotiationInv
<1> QED BY <1>1, NegotiationInvariance, PTL

\* A null fingerprint is dereferenced only if the tagged section of an answer has none.
THEOREM NullIsUntagged == NegotiationSpec => []NullOnlyIfUntagged
<1>1. NegotiationInv => NullOnlyIfUntagged
  BY DEF NegotiationInv
<1> QED BY <1>1, NegotiationInvariance, PTL

-----------------------------------------------------------------------------
(* The SSRCs of an answer *)

\* The entries there are when V are the values of the lines: one for each SSRC, with
\* what the lines say of it.
Agrees(e, v) == /\ e.ssrc = v[1]
                /\ v[2] = "cname" => e.cname = v[3]
                /\ v[2] = "msid" => e.stream = v[3] /\ e.track = v[4]
InfoOf(infos, V) ==
  /\ \A i, j \in 1..Len(infos) : infos[i].ssrc = infos[j].ssrc => i = j
  /\ \A i \in 1..Len(infos) : \E v \in V : v[1] = infos[i].ssrc
  /\ \A v \in V : IsSsrc(v) /\ \E i \in 1..Len(infos) : Agrees(infos[i], v)

\* A line that says something of its SSRC says it as all others do.
SaysTheSame(V, v) == \A w \in V : w[1] = v[1] /\ w[2] = v[2] /\ v[2] \in {"cname", "msid"} => w = v

LEMMA InfoStep ==
  ASSUME NEW infos \in Seq(InfoSet), NEW V, InfoOf(infos, V), NEW v \in Seq(Word), IsSsrc(v),
         v[2] = "msid" => Len(v) = 4, SaysTheSame(V, v),
         NEW new, new = InfoAfter(infos, v)
  PROVE  InfoOf(new, V \cup {v})
<1>1. PICK x : x = v[1]
  OBVIOUS
<1>2. x \in Word
  <2>1. Len(v) >= 3
    BY DEF IsSsrc
  <2> QED BY <1>1, <2>1
<1>3. PICK all : all = WithSsrc(infos, x)
  OBVIOUS
<1>4. /\ all \in Seq(InfoSet)
      /\ all = infos \/ (all = Append(infos, NewInfo(x)) /\ ~ HasSsrc(infos, x))
  BY <1>2, <1>3, WithSsrcFacts, Zenon
<1>5. PICK at \in 1..Len(all) :
        /\ all[at].ssrc = x /\ new \in Seq(InfoSet) /\ Len(new) = Len(all)
        /\ new[at] = SsrcEntry(all[at], v)
        /\ \A i \in 1..Len(all) : i # at => new[i] = all[i]
  BY <1>1, <1>3, InfoFacts
<1>6. PICK M \in Nat, L \in Nat : M = Len(infos) /\ L = Len(all)
  BY <1>4
<1>7. PICK e, d : e = all[at] /\ d = new[at]
  OBVIOUS
<1>8. /\ d.ssrc = e.ssrc
      /\ d.cname = IF v[2] = "cname" THEN v[3] ELSE e.cname
      /\ d.stream = IF v[2] = "msid" THEN v[3] ELSE e.stream
      /\ d.track = IF v[2] = "msid" /\ Len(v) = 4 THEN v[4] ELSE e.track
  <2>1. e \in InfoSet /\ d = SsrcEntry(e, v)
    BY <1>4, <1>5, <1>7
  <2> QED BY <2>1, EntryFacts
<1>9. \A i \in 1..L : new[i].ssrc = all[i].ssrc
  BY <1>5, <1>6, <1>7, <1>8
<1>10. /\ M =< L /\ \A i \in 1..M : all[i] = infos[i]
       /\ \A i \in 1..L : i \notin 1..M => i = M + 1 /\ L = M + 1 /\ all[i].ssrc = x
                                           /\ ~ HasSsrc(infos, x)
  <2>1. CASE all = infos
    BY <1>6, <2>1
  <2>2. CASE all = Append(infos, NewInfo(x)) /\ ~ HasSsrc(infos, x)
    <3>1. L = M + 1 /\ (\A i \in 1..M : all[i] = infos[i]) /\ all[M + 1] = NewInfo(x)
      <4>1. PICK b \in InfoSet : b = NewInfo(x)
        BY <1>2, NoWordFacts DEF NewInfo, InfoSet
      <4> QED BY <1>6, <2>2, <4>1
    <3>2. NewInfo(x).ssrc = x
      BY DEF NewInfo
    <3>3. M =< L /\ \A i \in 1..L : i \notin 1..M => i = M + 1
      BY <3>1
    <3> QED BY <2>2, <3>1, <3>2, <3>3
  <2> QED BY <1>4, <2>1, <2>2
<1>11. \A i, j \in 1..L : new[i].ssrc = new[j].ssrc => i = j
  <2>1. ASSUME NEW i \in 1..L, NEW j \in 1..L, all[i].ssrc = all[j].ssrc PROVE i = j
    <3>1. CASE i \in 1..M /\ j \in 1..M
      <4>1. infos[i].ssrc = infos[j].ssrc
        BY <1>10, <2>1, <3>1
      <4> QED BY <1>6, <3>1, <4>1 DEF InfoOf
    <3>2. CASE i \notin 1..M /\ j \notin 1..M
      BY <1>10, <3>2
    <3>3. CASE i \in 1..M /\ j \notin 1..M
      <4>1. infos[i].ssrc = x /\ ~ HasSsrc(infos, x)
        BY <1>10, <2>1, <3>3
      <4> QED BY <1>6, <3>3, <4>1 DEF HasSsrc
    <3>4. CASE i \notin 1..M /\ j \in 1..M
      <4>1. infos[j].ssrc = x /\ ~ HasSsrc(infos, x)
        BY <1>10, <2>1, <3>4
      <4> QED BY <1>6, <3>4, <4>1 DEF HasSsrc
    <3> QED BY <3>1, <3>2, <3>3, <3>4
  <2> QED BY <1>9, <2>1
<1>12. \A i \in 1..L : \E w \in V \cup {v} : w[1] = new[i].ssrc
  <2>1. ASSUME NEW i \in 1..L PROVE \E w \in V \cup {v} : w[1] = all[i].ssrc
    <3>1. CASE i \in 1..M
      <4>1. PICK w \in V : w[1] = infos[i].ssrc
        BY <1>6, <3>1 DEF InfoOf
      <4> QED BY <1>10, <3>1, <4>1
    <3>2. CASE i \notin 1..M
      BY <1>1, <1>10, <3>2
    <3> QED BY <3>1, <3>2
  <2> QED BY <1>9, <2>1
<1>13. ASSUME NEW w \in V PROVE \E i \in 1..L : Agrees(new[i], w)
  <2>1. PICK i \in 1..M : Agrees(infos[i], w)
    BY <1>6 DEF InfoOf
  <2>2. i \in 1..L /\ all[i] = infos[i]
    BY <1>10
  <2>3. CASE i # at
    BY <1>5, <1>6, <2>1, <2>2, <2>3
  <2>4. CASE i = at
    <3>1. Agrees(e, w) /\ w[1] = v[1]
      BY <1>1, <1>5, <1>7, <2>1, <2>2, <2>4 DEF Agrees
    <3>2. w[2] = v[2] /\ v[2] \in {"cname", "msid"} => w = v
      BY <3>1 DEF SaysTheSame
    <3>3. Agrees(d, w)
      BY <1>8, <3>1, <3>2 DEF Agrees
    <3> QED BY <1>7, <2>2, <2>4, <3>3
  <2> QED BY <2>3, <2>4
<1>14. Agrees(d, v)
  BY <1>1, <1>5, <1>7, <1>8 DEF Agrees
<1>15. \A w \in V \cup {v} : IsSsrc(w) /\ \E i \in 1..L : Agrees(new[i], w)
  <2>1. \A w \in V : IsSsrc(w)
    BY DEF InfoOf
  <2> QED BY <1>5, <1>6, <1>7, <1>13, <1>14, <2>1
<1>16. L = Len(new)
  BY <1>5, <1>6
<1> QED BY <1>11, <1>12, <1>15, <1>16 DEF InfoOf

\* What the first n lines of a text say.
RefTo(text, n, m, k) == {text.lines[i].v : i \in {i \in 1..n : At(text, i, m, k)}}
RefToNext(text, i, m, k) ==
  RefTo(text, i, m, k) = IF At(text, i, m, k) THEN RefTo(text, i - 1, m, k) \cup {text.lines[i].v}
                         ELSE RefTo(text, i - 1, m, k)

LEMMA RefToSteps ==
  ASSUME NEW text, NEW m, NEW k
  PROVE  /\ RefTo(text, 0, m, k) = {}
         /\ \A i \in Nat \ {0} : RefToNext(text, i, m, k)
         /\ RefTo(text, Len(text.lines), m, k) = Ref(text, m, k)
<1>1. RefTo(text, 0, m, k) = {}
  <2>1. \A j : j \notin 1..0
    OBVIOUS
  <2> QED BY <2>1 DEF RefTo
<1>2. ASSUME NEW i \in Nat \ {0}
      PROVE  RefToNext(text, i, m, k)
  <2>1. \A j : j \in 1..i <=> j \in 1..(i - 1) \/ j = i
    OBVIOUS
  <2>2. RefTo(text, i, m, k) =
          IF At(text, i, m, k) THEN RefTo(text, i - 1, m, k) \cup {text.lines[i].v}
          ELSE RefTo(text, i - 1, m, k)
    BY <2>1 DEF RefTo
  <2> QED BY <2>2 DEF RefToNext
<1>3. RefTo(text, Len(text.lines), m, k) = Ref(text, m, k)
  BY DEF RefTo, Ref, At
<1> QED BY <1>1, <1>2, <1>3

SsrcsRead(text, i, st, n) ==
  /\ \A x \in Mids :
       /\ n.info[x] = IF At(text, i, x, "ssrc") THEN InfoAfter(st.info[x], text.lines[i].v)
                      ELSE st.info[x]
       /\ At(text, i, x, "ssrc") => IsSsrc(text.lines[i].v)
  /\ n.ssrcGroups = IF At(text, i, "video", "ssrc-group") /\ IsGroup(text.lines[i])
                    THEN Append(st.ssrcGroups, text.lines[i].v) ELSE st.ssrcGroups

LEMMA SsrcLineRead ==
  ASSUME NEW text \in TextSet, text.end, EndsWell(text), Plain(text), NEW i \in 1..Len(text.lines),
         ReadTo(text, i)
  PROVE  SsrcsRead(text, i, Parsed(text, i - 1), Parsed(text, i))
<1>1. PICK st, n, l : st = Parsed(text, i - 1) /\ n = Parsed(text, i) /\ l = text.lines[i]
  OBVIOUS
<1>2. Strip(text, i) = l
  BY <1>1 DEF Strip
<1>3. Taken(st, l, n)
  BY <1>1, <1>2, StepTaken
<1>4. n.media = SectionOf(text, i)
  <2>1. i \in 0..Len(text.lines)
    BY DEF TextSet
  <2> QED BY <1>1, <2>1, MediaIsSection
<1>5. \A x, k : At(text, i, x, k) <=> l.k = k /\ n.media = x
  BY <1>1, <1>4 DEF At
<1>6. ASSUME NEW x \in Mids
      PROVE  /\ n.info[x] = IF At(text, i, x, "ssrc") THEN InfoAfter(st.info[x], l.v)
                            ELSE st.info[x]
             /\ At(text, i, x, "ssrc") => IsSsrc(l.v)
  BY <1>3, <1>5 DEF Taken, SsrcTaken, GoodLine
<1>7. n.ssrcGroups = IF At(text, i, "video", "ssrc-group") /\ IsGroup(l)
                     THEN Append(st.ssrcGroups, l.v) ELSE st.ssrcGroups
  <2>1. n.ssrcGroups = IF n.media = "video" /\ IsGroup(l) THEN Append(st.ssrcGroups, l.v)
                       ELSE st.ssrcGroups
    BY <1>3 DEF Taken, SsrcTaken
  <2>2. IsGroup(l) => l.k = "ssrc-group"
    BY DEF IsGroup
  <2> QED BY <1>5, <2>1, <2>2
<1> QED BY <1>1, <1>6, <1>7 DEF SsrcsRead

LEMMA InfosRead ==
  ASSUME NEW text \in TextSet, text.end, EndsWell(text), Plain(text), NEW m \in Mids,
         OneNameEach(Ref(text, m, "ssrc"))
  PROVE  \A n \in 0..Len(text.lines) :
           ReadTo(text, n) => InfoOf(Parsed(text, n).info[m], RefTo(text, n, m, "ssrc"))
<1> DEFINE P(n) == ReadTo(text, n) => InfoOf(Parsed(text, n).info[m], RefTo(text, n, m, "ssrc"))
           T == {n \in Nat : n =< Len(text.lines) => P(n)}
<1>1. Len(text.lines) \in Nat
  BY DEF TextSet
<1>2. 0 \in T
  <2>1. Parsed(text, 0) = Start
    BY ParsedFacts
  <2>2. Parsed(text, 0).info[m] = << >>
    BY <2>1 DEF Start
  <2>3. RefTo(text, 0, m, "ssrc") = {}
    BY RefToSteps
  <2>4. InfoOf(<< >>, {})
    BY DEF InfoOf
  <2> QED BY <2>2, <2>3, <2>4
<1>3. ASSUME NEW n \in Nat, n \in T PROVE n + 1 \in T
  <2> SUFFICES ASSUME n + 1 =< Len(text.lines), ReadTo(text, n + 1)
               PROVE  InfoOf(Parsed(text, n + 1).info[m], RefTo(text, n + 1, m, "ssrc"))
    OBVIOUS
  <2>1. PICK i \in 1..Len(text.lines) : i = n + 1 /\ i - 1 = n
    BY <1>1
  <2>2. PICK st, nx, v, V : /\ st = Parsed(text, n) /\ nx = Parsed(text, i)
                            /\ v = text.lines[i].v /\ V = RefTo(text, n, m, "ssrc")
    OBVIOUS
  <2>3. ReadTo(text, n) /\ st \in StSet
    BY <2>1, <2>2, StepTaken
  <2>4. InfoOf(st.info[m], V)
    BY <1>1, <1>3, <2>1, <2>2, <2>3
  <2>5. /\ nx.info[m] = IF At(text, i, m, "ssrc") THEN InfoAfter(st.info[m], v)
                        ELSE st.info[m]
        /\ At(text, i, m, "ssrc") => IsSsrc(v)
    <3>1. SsrcsRead(text, i, st, nx)
      BY <2>1, <2>2, SsrcLineRead
    <3> QED BY <2>2, <3>1 DEF SsrcsRead
  <2>6. RefTo(text, i, m, "ssrc") = IF At(text, i, m, "ssrc") THEN V \cup {v} ELSE V
    <3>1. i \in Nat \ {0}
      BY <1>1
    <3>2. RefToNext(text, i, m, "ssrc")
      BY <3>1, RefToSteps, Zenon
    <3> QED BY <2>1, <2>2, <3>2 DEF RefToNext
  <2>7. CASE At(text, i, m, "ssrc")
    <3>1. st.info[m] \in Seq(InfoSet) /\ v \in Seq(Word)
      <4>1. text.lines[i] \in LineSet
        BY DEF TextSet
      <4> QED BY <2>2, <2>3, <4>1 DEF StSet, LineSet
    <3>2. PICK S : S = Ref(text, m, "ssrc")
      OBVIOUS
    <3>3. v \in S /\ V \subseteq S
      <4>1. \A w : w \in S <=> \E j \in 1..Len(text.lines) : At(text, j, m, "ssrc")
                                                            /\ w = text.lines[j].v
        BY <3>2, RefFacts
      <4>2. \A j \in 1..n : j \in 1..Len(text.lines)
        BY <1>1
      <4>3. v \in S
        BY <2>2, <2>7, <4>1
      <4>4. V \subseteq S
        BY <2>2, <4>1, <4>2 DEF RefTo
      <4> QED BY <4>3, <4>4
    <3>4. OneNameEach(S)
      BY <3>2
    <3>5. (v[2] = "msid" => Len(v) = 4) /\ SaysTheSame(V, v)
      BY <3>3, <3>4 DEF OneNameEach, SaysTheSame
    <3>6. InfoOf(InfoAfter(st.info[m], v), V \cup {v})
      BY <2>4, <2>5, <2>7, <3>1, <3>5, InfoStep
    <3> QED BY <2>1, <2>2, <2>5, <2>6, <2>7, <3>6
  <2>8. CASE ~ At(text, i, m, "ssrc")
    BY <2>1, <2>2, <2>4, <2>5, <2>6, <2>8
  <2> QED BY <2>7, <2>8
<1>4. \A n \in Nat : n \in T
  <2> HIDE DEF T
  <2> QED BY <1>2, <1>3, NaturalsClosed
<1> QED BY <1>1, <1>4

LEMMA GroupsRead ==
  ASSUME NEW text \in TextSet, text.end, EndsWell(text), Plain(text), GroupsOfVideo(text)
  PROVE  \A n \in 0..Len(text.lines) :
           ReadTo(text, n) => Range(Parsed(text, n).ssrcGroups) = RefTo(text, n, "video", "ssrc-group")
<1> DEFINE P(n) == ReadTo(text, n) =>
                     Range(Parsed(text, n).ssrcGroups) = RefTo(text, n, "video", "ssrc-group")
           T == {n \in Nat : n =< Len(text.lines) => P(n)}
<1>1. Len(text.lines) \in Nat
  BY DEF TextSet
<1>2. 0 \in T
  <2>1. Parsed(text, 0) = Start
    BY ParsedFacts
  <2>2. Parsed(text, 0).ssrcGroups = << >>
    BY <2>1 DEF Start
  <2>3. RefTo(text, 0, "video", "ssrc-group") = {}
    BY RefToSteps
  <2>4. Range(<< >>) = {}
    BY DEF Range
  <2> QED BY <2>2, <2>3, <2>4
<1>3. ASSUME NEW n \in Nat, n \in T PROVE n + 1 \in T
  <2> SUFFICES ASSUME n + 1 =< Len(text.lines), ReadTo(text, n + 1)
               PROVE  Range(Parsed(text, n + 1).ssrcGroups)
                      = RefTo(text, n + 1, "video", "ssrc-group")
    OBVIOUS
  <2>1. PICK i \in 1..Len(text.lines) : i = n + 1 /\ i - 1 = n
    BY <1>1
  <2>2. PICK st, nx, l, V : /\ st = Parsed(text, n) /\ nx = Parsed(text, i)
                            /\ l = text.lines[i] /\ V = RefTo(text, n, "video", "ssrc-group")
    OBVIOUS
  <2>3. ReadTo(text, n) /\ st \in StSet
    BY <2>1, <2>2, StepTaken
  <2>4. Range(st.ssrcGroups) = V
    BY <1>1, <1>3, <2>1, <2>2, <2>3
  <2>5. nx.ssrcGroups = IF At(text, i, "video", "ssrc-group") /\ IsGroup(l)
                        THEN Append(st.ssrcGroups, l.v) ELSE st.ssrcGroups
    <3>1. SsrcsRead(text, i, st, nx)
      BY <2>1, <2>2, SsrcLineRead
    <3> QED BY <2>2, <3>1 DEF SsrcsRead
  <2>6. RefTo(text, i, "video", "ssrc-group")
        = IF At(text, i, "video", "ssrc-group") THEN V \cup {l.v} ELSE V
    <3>1. i \in Nat \ {0}
      BY <1>1
    <3>2. RefToNext(text, i, "video", "ssrc-group")
      BY <3>1, RefToSteps, Zenon
    <3> QED BY <2>1, <2>2, <3>2 DEF RefToNext
  <2>7. CASE At(text, i, "video", "ssrc-group")
    <3>1. l \in LineSet /\ l.v \in Seq(Word) /\ l.k = "ssrc-group"
      <4>1. l \in LineSet
        BY <2>2 DEF TextSet
      <4> QED BY <2>2, <2>7, <4>1 DEF LineSet, At
    <3>2. l.v \in Ref(text, "video", "ssrc-group")
      BY <2>2, <2>7, RefFacts
    <3>3. IsGroup(l)
      BY <3>1, <3>2 DEF GroupsOfVideo, IsGroup
    <3>4. st.ssrcGroups \in Seq(Seq(Word))
      BY <2>3 DEF StSet
    <3>5. Range(Append(st.ssrcGroups, l.v)) = Range(st.ssrcGroups) \cup {l.v}
      BY <3>1, <3>4, RangeAppend
    <3> QED BY <2>1, <2>2, <2>4, <2>5, <2>6, <2>7, <3>3, <3>5
  <2>8. CASE ~ At(text, i, "video", "ssrc-group")
    BY <2>1, <2>2, <2>4, <2>5, <2>6, <2>8
  <2> QED BY <2>7, <2>8
<1>4. \A n \in Nat : n \in T
  <2> HIDE DEF T
  <2> QED BY <1>2, <1>3, NaturalsClosed
<1> QED BY <1>1, <1>4

LEMMA ThreeFour ==
  ASSUME NEW W, NEW v \in Seq(W)
  PROVE  /\ Len(v) = 3 => v = <<v[1], v[2], v[3]>>
         /\ Len(v) = 4 => v = <<v[1], v[2], v[3], v[4]>>
OBVIOUS

\* The entries say what the lines say, and those of a track have one name and stream.
InfoTells(infos, S) ==
  /\ \A e \in Range(infos) : /\ <<e.ssrc, "cname", e.cname>> \in S
                             /\ <<e.ssrc, "msid", e.stream, e.track>> \in S
  /\ \A v \in S : /\ v[2] = "cname" => \E e \in Range(infos) : v = <<e.ssrc, "cname", e.cname>>
                  /\ v[2] = "msid" => \E e \in Range(infos) : v = <<e.ssrc, "msid", e.stream, e.track>>
                  /\ \E e \in Range(infos) : e.ssrc = v[1]
  /\ \A e, d \in Range(infos) : e.track = d.track => e.cname = d.cname /\ e.stream = d.stream

LEMMA InfoComplete ==
  ASSUME NEW infos \in Seq(InfoSet), NEW S, S \subseteq Seq(Word), InfoOf(infos, S), OneNameEach(S)
  PROVE  InfoTells(infos, S)
<1>1. \A e : e \in Range(infos) <=> \E i \in 1..Len(infos) : e = infos[i]
  BY RangeFacts
<1>2. ASSUME NEW e \in Range(infos), NEW d \in Range(infos), e.ssrc = d.ssrc
      PROVE  e = d
  <2>1. PICK i \in 1..Len(infos), j \in 1..Len(infos) : e = infos[i] /\ d = infos[j]
    BY <1>1
  <2>2. i = j
    BY <1>2, <2>1 DEF InfoOf
  <2> QED BY <2>1, <2>2
<1>3. ASSUME NEW v \in S
      PROVE  \E e \in Range(infos) : Agrees(e, v)
  BY <1>1 DEF InfoOf
<1>4. ASSUME NEW v \in S, v[2] = "cname"
      PROVE  \E e \in Range(infos) : v = <<e.ssrc, "cname", e.cname>>
  <2>1. PICK e \in Range(infos) : Agrees(e, v)
    BY <1>3
  <2>2. v \in Seq(Word) /\ Len(v) = 3
    BY <1>4 DEF OneNameEach
  <2>3. v = <<v[1], v[2], v[3]>>
    BY <2>2, ThreeFour
  <2>4. v[1] = e.ssrc /\ v[3] = e.cname
    BY <1>4, <2>1 DEF Agrees
  <2> QED BY <1>4, <2>3, <2>4
<1>5. ASSUME NEW v \in S, v[2] = "msid"
      PROVE  \E e \in Range(infos) : v = <<e.ssrc, "msid", e.stream, e.track>>
  <2>1. PICK e \in Range(infos) : Agrees(e, v)
    BY <1>3
  <2>2. v \in Seq(Word) /\ Len(v) = 4
    BY <1>5 DEF OneNameEach
  <2>3. v = <<v[1], v[2], v[3], v[4]>>
    BY <2>2, ThreeFour
  <2>4. v[1] = e.ssrc /\ v[3] = e.stream /\ v[4] = e.track
    BY <1>5, <2>1 DEF Agrees
  <2> QED BY <1>5, <2>3, <2>4
<1>6. ASSUME NEW e \in Range(infos), NEW k \in {"cname", "msid"}
      PROVE  \E w \in S : w[1] = e.ssrc /\ w[2] = k
  <2>1. PICK v \in S : v[1] = e.ssrc
    BY <1>1 DEF InfoOf
  <2>2. v[1] \in Ssrc
    BY DEF InfoOf, IsSsrc
  <2>3. \E w \in S : w[1] = v[1] /\ w[2] = k
    BY <2>2, Zenon DEF OneNameEach
  <2> QED BY <2>1, <2>3
<1>7. ASSUME NEW e \in Range(infos)
      PROVE  /\ <<e.ssrc, "cname", e.cname>> \in S
             /\ <<e.ssrc, "msid", e.stream, e.track>> \in S
  <2>1. PICK c \in S : c[1] = e.ssrc /\ c[2] = "cname"
    BY <1>6
  <2>2. PICK d \in S : d[1] = e.ssrc /\ d[2] = "msid"
    BY <1>6
  <2>3. PICK f \in Range(infos) : c = <<f.ssrc, "cname", f.cname>>
    BY <1>4, <2>1
  <2>4. PICK g \in Range(infos) : d = <<g.ssrc, "msid", g.stream, g.track>>
    BY <1>5, <2>2
  <2>5. f = e /\ g = e
    <3>1. c[1] = f.ssrc /\ d[1] = g.ssrc
      BY <2>3, <2>4
    <3> QED BY <1>2, <2>1, <2>2, <3>1
  <2> QED BY <2>3, <2>4, <2>5
<1>8. ASSUME NEW e \in Range(infos), NEW d \in Range(infos), e.track = d.track
      PROVE  e.cname = d.cname /\ e.stream = d.stream
  <2>1. PICK ec \in S, em \in S, dc \in S, dm \in S :
          /\ ec = <<e.ssrc, "cname", e.cname>> /\ em = <<e.ssrc, "msid", e.stream, e.track>>
          /\ dc = <<d.ssrc, "cname", d.cname>> /\ dm = <<d.ssrc, "msid", d.stream, d.track>>
    BY <1>7
  <2>2. /\ em[1] = e.ssrc /\ em[2] = "msid" /\ em[3] = e.stream /\ em[4] = e.track
        /\ dm[1] = d.ssrc /\ dm[2] = "msid" /\ dm[3] = d.stream /\ dm[4] = d.track
    BY <2>1
  <2>3. /\ ec[1] = e.ssrc /\ ec[2] = "cname" /\ ec[3] = e.cname
        /\ dc[1] = d.ssrc /\ dc[2] = "cname" /\ dc[3] = d.cname
    BY <2>1
  <2>4. em[3] = dm[3]
    BY <1>8, <2>2 DEF OneNameEach
  <2>5. ec[3] = dc[3]
    BY <1>8, <2>2, <2>3 DEF OneNameEach
  <2> QED BY <2>2, <2>3, <2>4, <2>5
<1>9. \A v \in S : \E e \in Range(infos) : e.ssrc = v[1]
  BY <1>3 DEF Agrees
<1> QED BY <1>4, <1>5, <1>7, <1>8, <1>9 DEF InfoTells

-----------------------------------------------------------------------------
(* The tracks that are made of them *)

\* Entries of one track agree, and the tracks that stand for the entries E.
SameTrack(E) == \A e, d \in E : e.track = d.track => e.cname = d.cname /\ e.stream = d.stream
HasEntry(t, x, E) ==
  \E e \in E : e.ssrc = x /\ e.track = t.id /\ e.cname = t.cname /\ e.stream = t.stream
StandFor(tracks, E) ==
  /\ \A t \in Range(tracks) : t.groups = << >> /\ \A x \in Range(t.ssrcs) : HasEntry(t, x, E)
  /\ \A e \in E : \E t \in Range(tracks) : t.id = e.track /\ e.ssrc \in Range(t.ssrcs)

LEMMA TrackStep ==
  ASSUME NEW tracks \in Seq(TrackSet), NEW e \in InfoSet, NEW E, StandFor(tracks, E),
         SameTrack(E \cup {e}), NEW new, new = AddToTrack(tracks, e)
  PROVE  StandFor(new, E \cup {e})
<1>1. PICK all : all = WithTrack(tracks, e.track)
  OBVIOUS
<1>2. PICK at \in 1..Len(all) :
        /\ all[at].id = e.track /\ new \in Seq(TrackSet) /\ Len(new) = Len(all)
        /\ IsMore(new[at], all[at], e)
        /\ \A i \in 1..Len(all) : i # at => new[i] = all[i]
  BY <1>1, AddToTrackFacts
<1>3. PICK x \in Word : x = e.track
  BY DEF InfoSet
<1>4. /\ all \in Seq(TrackSet)
      /\ all = tracks \/ all = Append(tracks, NewTrack(x))
  BY <1>1, <1>3, WithTrackFacts
<1>5. StandFor(all, E)
  <2>1. CASE all = tracks
    BY <2>1
  <2>2. CASE all = Append(tracks, NewTrack(x))
    <3>1. PICK b \in TrackSet : b = NewTrack(x) /\ b.ssrcs = << >> /\ b.groups = << >>
      BY NewTrackFacts
    <3>2. Range(all) = Range(tracks) \cup {b}
      BY <2>2, <3>1, RangeAppend
    <3>3. Range(b.ssrcs) = {}
      BY <3>1 DEF Range
    <3> QED BY <3>1, <3>2, <3>3 DEF StandFor
  <2> QED BY <1>4, <2>1, <2>2
<1>6. PICK t, d : t = all[at] /\ d = new[at]
  OBVIOUS
<1>7. t \in TrackSet /\ t \in Range(all) /\ d \in Range(new)
  <2>1. at \in 1..Len(new)
    BY <1>2
  <2> QED BY <1>2, <1>4, <1>6, <2>1, RangeFacts
<1>8. /\ d.id = e.track /\ t.id = e.track /\ d.cname = e.cname /\ d.stream = e.stream
      /\ d.groups = t.groups /\ Range(d.ssrcs) = Range(t.ssrcs) \cup {e.ssrc}
  <2>1. d.id = t.id /\ d.cname = e.cname /\ d.stream = e.stream
        /\ d.ssrcs = Append(t.ssrcs, e.ssrc) /\ d.groups = t.groups
    BY <1>2, <1>6 DEF IsMore
  <2>2. t.ssrcs \in Seq(Word) /\ e.ssrc \in Word
    BY <1>7 DEF TrackSet, InfoSet
  <2>3. Range(d.ssrcs) = Range(t.ssrcs) \cup {e.ssrc}
    BY <2>1, <2>2, RangeAppend
  <2> QED BY <1>2, <1>6, <2>1, <2>3
<1>9. \A u : u \in Range(new) => u \in Range(all) \/ u = d
  <2>1. ASSUME NEW u \in Range(new) PROVE u \in Range(all) \/ u = d
    <3>1. PICK i \in 1..Len(new) : u = new[i]
      BY <1>2, RangeFacts
    <3>2. i \in 1..Len(all)
      BY <1>2
    <3>3. i # at => u = all[i]
      BY <1>2, <3>1, <3>2
    <3>4. all[i] \in Range(all)
      BY <1>4, <3>2, RangeFacts
    <3> QED BY <1>6, <3>1, <3>3, <3>4
  <2> QED BY <2>1
<1>10. \A u : u \in Range(all) => u \in Range(new) \/ u = t
  <2>1. ASSUME NEW u \in Range(all) PROVE u \in Range(new) \/ u = t
    <3>1. PICK i \in 1..Len(all) : u = all[i]
      BY <1>4, RangeFacts
    <3>2. i \in 1..Len(new)
      BY <1>2
    <3>3. i # at => u = new[i]
      BY <1>2, <3>1
    <3>4. new[i] \in Range(new)
      BY <1>2, <3>2, RangeFacts
    <3> QED BY <1>6, <3>1, <3>3, <3>4
  <2> QED BY <2>1
<1>11. ASSUME NEW u \in Range(new)
       PROVE  u.groups = << >> /\ \A y \in Range(u.ssrcs) : HasEntry(u, y, E \cup {e})
  <2>1. CASE u \in Range(all)
    BY <1>5, <2>1 DEF StandFor, HasEntry
  <2>2. CASE u = d
    <3>1. d.groups = << >>
      BY <1>5, <1>7, <1>8 DEF StandFor
    <3>2. HasEntry(d, e.ssrc, E \cup {e})
      BY <1>8 DEF HasEntry
    <3>3. ASSUME NEW y \in Range(t.ssrcs) PROVE HasEntry(d, y, E \cup {e})
      <4>1. PICK f \in E : f.ssrc = y /\ f.track = t.id
        BY <1>5, <1>7, <3>3 DEF StandFor, HasEntry
      <4>2. f.cname = e.cname /\ f.stream = e.stream
        BY <1>8, <4>1 DEF SameTrack
      <4> QED BY <1>8, <4>1, <4>2 DEF HasEntry
    <3> QED BY <1>8, <2>2, <3>1, <3>2, <3>3
  <2> QED BY <1>9, <2>1, <2>2
<1>12. ASSUME NEW f \in E \cup {e}
       PROVE  \E u \in Range(new) : u.id = f.track /\ f.ssrc \in Range(u.ssrcs)
  <2>1. CASE f = e
    BY <1>7, <1>8, <2>1
  <2>2. CASE f \in E
    <3>1. PICK u \in Range(all) : u.id = f.track /\ f.ssrc \in Range(u.ssrcs)
      BY <1>5, <2>2 DEF StandFor
    <3> QED BY <1>7, <1>8, <1>10, <3>1
  <2> QED BY <2>1, <2>2
<1> QED BY <1>11, <1>12 DEF StandFor

LEMMA TracksStandFor ==
  ASSUME NEW infos \in Seq(InfoSet), SameTrack(Range(infos))
  PROVE  /\ CreateTracks(infos) \in Seq(TrackSet)
         /\ StandFor(CreateTracks(infos), Range(infos))
<1>1. PICK f : /\ f[0] = << >> /\ CreateTracks(infos) = f[Len(infos)]
               /\ \A i \in 0..Len(infos) : f[i] \in Seq(TrackSet)
               /\ \A i \in 1..Len(infos) : f[i] = AddToTrack(f[i - 1], infos[i])
  BY TracksSteps
<1>2. PICK N \in Nat : N = Len(infos)
  OBVIOUS
<1> DEFINE To(n) == {infos[j] : j \in 1..n}
           T == {n \in Nat : n =< N => StandFor(f[n], To(n))}
<1>3. Range(infos) = To(N)
  BY <1>2, RangeFacts
<1>4. 0 \in T
  <2>1. To(0) = {}
    <3>1. \A j : j \notin 1..0
      OBVIOUS
    <3> QED BY <3>1
  <2>2. Range(<< >>) = {}
    BY DEF Range
  <2> QED BY <1>1, <2>1, <2>2 DEF StandFor
<1>5. ASSUME NEW n \in Nat, n \in T PROVE n + 1 \in T
  <2> SUFFICES ASSUME n + 1 =< N PROVE StandFor(f[n + 1], To(n + 1))
    OBVIOUS
  <2>1. PICK i \in 1..N : i = n + 1 /\ i - 1 = n
    OBVIOUS
  <2>2. PICK tracks, e : tracks = f[n] /\ e = infos[i]
    OBVIOUS
  <2>3. /\ tracks \in Seq(TrackSet) /\ e \in InfoSet
        /\ f[i] = AddToTrack(tracks, e)
    BY <1>1, <1>2, <2>1, <2>2
  <2>4. PICK E : E = To(n) /\ To(n + 1) = E \cup {e}
    <3>1. \A j : j \in 1..(n + 1) <=> j \in 1..n \/ j = n + 1
      OBVIOUS
    <3>2. To(n + 1) = To(n) \cup {infos[n + 1]}
      BY <3>1
    <3> QED BY <2>1, <2>2, <3>2
  <2>5. E \cup {e} \subseteq Range(infos)
    <3>1. \A j \in 1..(n + 1) : j \in 1..N
      OBVIOUS
    <3>2. To(n + 1) \subseteq To(N)
      BY <3>1
    <3> QED BY <1>3, <2>4, <3>2
  <2>6. SameTrack(E \cup {e})
    BY <2>5 DEF SameTrack
  <2>7. StandFor(tracks, E)
    BY <1>5, <2>2, <2>4
  <2>8. StandFor(f[i], E \cup {e})
    BY <2>3, <2>6, <2>7, TrackStep
  <2> QED BY <2>1, <2>4, <2>8
<1>6. \A n \in Nat : n \in T
  <2> HIDE DEF T
  <2> QED BY <1>4, <1>5, NaturalsClosed
<1>7. StandFor(f[N], To(N)) /\ f[N] \in Seq(TrackSet)
  <2>1. N \in T
    BY <1>6
  <2>2. N \in 0..Len(infos)
    BY <1>2
  <2> QED BY <1>1, <2>1, <2>2
<1> QED BY <1>1, <1>2, <1>3, <1>7

\* A track with the groups of G whose first SSRC it has.
WithGroups(u, t, G) ==
  /\ u.id = t.id /\ u.cname = t.cname /\ u.stream = t.stream /\ u.ssrcs = t.ssrcs
  /\ \A g : g \in Range(u.groups) <=> g \in G /\ Contains(t.ssrcs, g[2])

GroupsTo(all, tracks, G) ==
  Len(all) = Len(tracks) /\ \A i \in 1..Len(tracks) : WithGroups(all[i], tracks[i], G)

LEMMA GroupStep ==
  ASSUME NEW tracks \in Seq(TrackSet), NEW G, NEW all \in Seq(TrackSet), GroupsTo(all, tracks, G),
         NEW g \in Seq(Word), NEW new, new = AddGroup(all, g)
  PROVE  GroupsTo(new, tracks, G \cup {g})
<1>1. /\ new \in Seq(TrackSet) /\ Len(new) = Len(all)
      /\ \A i \in 1..Len(all) :
           /\ new[i].id = all[i].id /\ new[i].cname = all[i].cname
           /\ new[i].stream = all[i].stream /\ new[i].ssrcs = all[i].ssrcs
           /\ new[i].groups = IF Contains(all[i].ssrcs, g[2])
                              THEN Append(all[i].groups, g) ELSE all[i].groups
  BY AddGroupFacts
<1>2. ASSUME NEW i \in 1..Len(tracks)
      PROVE  WithGroups(new[i], tracks[i], G \cup {g})
  <2>1. PICK t, u, w : t = tracks[i] /\ u = all[i] /\ w = new[i]
    OBVIOUS
  <2>2. WithGroups(u, t, G) /\ i \in 1..Len(all)
    BY <2>1 DEF GroupsTo
  <2>3. /\ w.id = u.id /\ w.cname = u.cname /\ w.stream = u.stream /\ w.ssrcs = u.ssrcs
        /\ w.groups = IF Contains(u.ssrcs, g[2]) THEN Append(u.groups, g) ELSE u.groups
    BY <1>1, <2>1, <2>2
  <2>4. u.groups \in Seq(Seq(Word))
    <3>1. u \in TrackSet
      BY <2>1, <2>2
    <3> QED BY <3>1 DEF TrackSet
  <2>5. Range(Append(u.groups, g)) = Range(u.groups) \cup {g}
    BY <2>4, RangeAppend
  <2>6. u.ssrcs = t.ssrcs
    BY <2>2 DEF WithGroups
  <2>7. \A h : h \in Range(w.groups) <=> h \in G \cup {g} /\ Contains(t.ssrcs, h[2])
    <3>1. \A h : h \in Range(u.groups) <=> h \in G /\ Contains(t.ssrcs, h[2])
      BY <2>2 DEF WithGroups
    <3>2. CASE Contains(t.ssrcs, g[2])
      BY <2>3, <2>5, <2>6, <3>1, <3>2
    <3>3. CASE ~ Contains(t.ssrcs, g[2])
      BY <2>3, <2>6, <3>1, <3>3
    <3> QED BY <3>2, <3>3
  <2> QED BY <2>1, <2>2, <2>3, <2>7 DEF WithGroups
<1> QED BY <1>1, <1>2 DEF GroupsTo

LEMMA NextIndex ==
  ASSUME NEW N \in Nat, NEW n \in Nat, n + 1 =< N
  PROVE  \E i \in 1..N : i = n + 1 /\ i - 1 = n
OBVIOUS

LEMMA GroupsGiven ==
  ASSUME NEW tracks \in Seq(TrackSet), \A t \in Range(tracks) : t.groups = << >>,
         NEW groups \in Seq(Seq(Word)), NEW new, new = AddGroups(tracks, groups)
  PROVE  new \in Seq(TrackSet) /\ GroupsTo(new, tracks, Range(groups))
<1>1. PICK f : /\ f[0] = tracks /\ new = f[Len(groups)]
               /\ \A i \in 0..Len(groups) : f[i] \in Seq(TrackSet)
               /\ \A i \in 1..Len(groups) : f[i] = AddGroup(f[i - 1], groups[i])
  BY GroupsSteps
<1>2. PICK N \in Nat : N = Len(groups)
  OBVIOUS
<1> DEFINE To(n) == {groups[j] : j \in 1..n}
           T == {n \in Nat : n =< N => GroupsTo(f[n], tracks, To(n))}
<1>3. Range(groups) = To(N)
  BY <1>2, RangeFacts
<1>4. 0 \in T
  <2>1. To(0) = {}
    <3>1. \A j : j \notin 1..0
      OBVIOUS
    <3> QED BY <3>1
  <2>2. Range(<< >>) = {}
    BY DEF Range
  <2>3. ASSUME NEW i \in 1..Len(tracks) PROVE WithGroups(tracks[i], tracks[i], {})
    <3>1. tracks[i] \in Range(tracks)
      BY RangeFacts
    <3>2. Range(tracks[i].groups) = {}
      BY <2>2, <3>1
    <3> QED BY <3>2 DEF WithGroups
  <2> QED BY <1>1, <2>1, <2>3 DEF GroupsTo
<1>5. ASSUME NEW n \in Nat, n \in T PROVE n + 1 \in T
  <2> SUFFICES ASSUME n + 1 =< N PROVE GroupsTo(f[n + 1], tracks, To(n + 1))
    OBVIOUS
  <2>1. PICK i \in 1..N : i = n + 1 /\ i - 1 = n
    <3> HIDE DEF T
    <3> QED BY NextIndex, Zenon
  <2>2. PICK all, g : all = f[n] /\ g = groups[i]
    OBVIOUS
  <2>3. /\ all \in Seq(TrackSet) /\ g \in Seq(Word)
        /\ f[i] = AddGroup(all, g)
    BY <1>1, <1>2, <2>1, <2>2
  <2>4. PICK G : G = To(n) /\ To(n + 1) = G \cup {g}
    <3>1. \A j : j \in 1..(n + 1) <=> j \in 1..n \/ j = n + 1
      OBVIOUS
    <3>2. To(n + 1) = To(n) \cup {groups[n + 1]}
      BY <3>1
    <3> QED BY <2>1, <2>2, <3>2
  <2>5. GroupsTo(all, tracks, G)
    BY <1>5, <2>2, <2>4
  <2>6. GroupsTo(f[i], tracks, G \cup {g})
    BY <2>3, <2>5, GroupStep
  <2> QED BY <2>1, <2>4, <2>6
<1>6. \A n \in Nat : n \in T
  <2> HIDE DEF T
  <2> QED BY <1>4, <1>5, NaturalsClosed
<1>7. GroupsTo(f[N], tracks, To(N)) /\ f[N] \in Seq(TrackSet)
  <2>1. N \in T
    BY <1>6
  <2>2. N \in 0..Len(groups)
    BY <1>2
  <2> QED BY <1>1, <2>1, <2>2
<1> QED BY <1>1, <1>2, <1>3, <1>7

-----------------------------------------------------------------------------
(* What an offer made of them says *)

\* The lines about cname and msid, and the groups, that streams stand for.
SsrcsTold(streams, S) ==
  \A v : v[2] \in {"cname", "msid"} => (SaysOfSsrcs(streams, v) <=> v \in S)
GroupsTold(streams, G) == \A v : SaysOfGroups(streams, v) <=> v \in G

LEMMA NamesTold ==
  ASSUME NEW infos, NEW S, InfoTells(infos, S), NEW tracks, StandFor(tracks, Range(infos))
  PROVE  SsrcsTold(tracks, S)
<1>1. ASSUME NEW v, v[2] \in {"cname", "msid"}, SaysOfSsrcs(tracks, v)
      PROVE  v \in S
  <2>1. PICK t \in Range(tracks) : \E x \in Range(t.ssrcs) : Names(t, x, v)
    BY <1>1 DEF SaysOfSsrcs
  <2>2. PICK x \in Range(t.ssrcs) : Names(t, x, v)
    BY <2>1
  <2>3. PICK e \in Range(infos) :
          e.ssrc = x /\ e.track = t.id /\ e.cname = t.cname /\ e.stream = t.stream
    BY <2>2 DEF StandFor, HasEntry
  <2>4. v = <<x, "cname", t.cname>> \/ v = <<x, "msid", t.stream, t.id>>
    BY <1>1, <2>2 DEF Names
  <2>5. <<e.ssrc, "cname", e.cname>> \in S /\ <<e.ssrc, "msid", e.stream, e.track>> \in S
    BY Zenon DEF InfoTells
  <2> QED BY <2>3, <2>4, <2>5
<1>2. ASSUME NEW v \in S, v[2] \in {"cname", "msid"}
      PROVE  SaysOfSsrcs(tracks, v)
  <2>1. PICK e \in Range(infos) : \/ v = <<e.ssrc, "cname", e.cname>>
                                  \/ v = <<e.ssrc, "msid", e.stream, e.track>>
    BY <1>2 DEF InfoTells
  <2>2. PICK t \in Range(tracks) : t.id = e.track /\ e.ssrc \in Range(t.ssrcs)
    BY DEF StandFor
  <2>3. PICK d \in Range(infos) :
          d.ssrc = e.ssrc /\ d.track = t.id /\ d.cname = t.cname /\ d.stream = t.stream
    BY <2>2 DEF StandFor, HasEntry
  <2>4. d.cname = e.cname /\ d.stream = e.stream
    BY <2>2, <2>3 DEF InfoTells
  <2>5. Names(t, e.ssrc, v)
    BY <2>1, <2>2, <2>3, <2>4 DEF Names
  <2> QED BY <2>2, <2>5 DEF SaysOfSsrcs
<1> QED BY <1>1, <1>2 DEF SsrcsTold

LEMMA NamesKept ==
  ASSUME NEW tracks \in Seq(TrackSet), NEW new \in Seq(TrackSet), NEW G, GroupsTo(new, tracks, G),
         NEW S, SsrcsTold(tracks, S)
  PROVE  SsrcsTold(new, S)
<1>1. ASSUME NEW i \in 1..Len(tracks)
      PROVE  /\ tracks[i] \in Range(tracks) /\ new[i] \in Range(new)
             /\ new[i].ssrcs = tracks[i].ssrcs
             /\ \A x, v : Names(new[i], x, v) <=> Names(tracks[i], x, v)
  <2>1. i \in 1..Len(new) /\ WithGroups(new[i], tracks[i], G)
    BY DEF GroupsTo
  <2>2. tracks[i] \in Range(tracks) /\ new[i] \in Range(new)
    BY <2>1, RangeFacts
  <2> QED BY <2>1, <2>2 DEF WithGroups, Names
<1>2. \A t \in Range(tracks) : \E i \in 1..Len(tracks) : t = tracks[i]
  BY RangeFacts
<1>3. \A u \in Range(new) : \E i \in 1..Len(tracks) : u = new[i]
  BY RangeFacts DEF GroupsTo
<1>4. \A v : SaysOfSsrcs(new, v) <=> SaysOfSsrcs(tracks, v)
  <2>1. ASSUME NEW v, SaysOfSsrcs(new, v) PROVE SaysOfSsrcs(tracks, v)
    <3>1. PICK u \in Range(new) : \E x \in Range(u.ssrcs) : Names(u, x, v)
      BY <2>1 DEF SaysOfSsrcs
    <3>2. PICK x \in Range(u.ssrcs) : Names(u, x, v)
      BY <3>1
    <3>3. PICK i \in 1..Len(tracks) : u = new[i]
      BY <1>3
    <3>4. tracks[i] \in Range(tracks) /\ x \in Range(tracks[i].ssrcs) /\ Names(tracks[i], x, v)
      BY <1>1, <3>2, <3>3
    <3> QED BY <3>4 DEF SaysOfSsrcs
  <2>2. ASSUME NEW v, SaysOfSsrcs(tracks, v) PROVE SaysOfSsrcs(new, v)
    <3>1. PICK t \in Range(tracks) : \E x \in Range(t.ssrcs) : Names(t, x, v)
      BY <2>2 DEF SaysOfSsrcs
    <3>2. PICK x \in Range(t.ssrcs) : Names(t, x, v)
      BY <3>1
    <3>3. PICK i \in 1..Len(tracks) : t = tracks[i]
      BY <1>2
    <3>4. new[i] \in Range(new) /\ x \in Range(new[i].ssrcs) /\ Names(new[i], x, v)
      BY <1>1, <3>2, <3>3
    <3> QED BY <3>4 DEF SaysOfSsrcs
  <2> QED BY <2>1, <2>2
<1> QED BY <1>4 DEF SsrcsTold

LEMMA AllGroupsTold ==
  ASSUME NEW tracks \in Seq(TrackSet), NEW new \in Seq(TrackSet), NEW G, GroupsTo(new, tracks, G),
         NEW E, StandFor(tracks, E),
         \A g \in G : Len(g) # 1 /\ \E e \in E : e.ssrc = g[2]
  PROVE  GroupsTold(new, G)
<1>1. ASSUME NEW v, SaysOfGroups(new, v) PROVE v \in G
  <2>1. PICK u \in Range(new) : v \in Range(u.groups)
    BY <1>1 DEF SaysOfGroups
  <2>2. PICK i \in 1..Len(new) : u = new[i]
    BY <2>1, RangeFacts
  <2>3. WithGroups(u, tracks[i], G)
    BY <2>2 DEF GroupsTo
  <2> QED BY <2>1, <2>3 DEF WithGroups
<1>2. ASSUME NEW v \in G PROVE SaysOfGroups(new, v)
  <2>1. PICK e \in E : e.ssrc = v[2]
    OBVIOUS
  <2>2. PICK t \in Range(tracks) : v[2] \in Range(t.ssrcs)
    BY <2>1 DEF StandFor
  <2>3. PICK i \in 1..Len(tracks) : t = tracks[i]
    BY <2>2, RangeFacts
  <2>4. Contains(t.ssrcs, v[2])
    <3>1. t \in TrackSet
      BY <2>3
    <3>2. t.ssrcs \in Seq(Word)
      BY <3>1 DEF TrackSet
    <3> QED BY <2>2, <3>2, RangeFacts DEF Contains
  <2>5. i \in 1..Len(new) /\ WithGroups(new[i], t, G)
    BY <2>3 DEF GroupsTo
  <2>6. v \in Range(new[i].groups) /\ Len(v) # 1
    BY <2>4, <2>5 DEF WithGroups
  <2>7. new[i] \in Range(new)
    BY <2>5, RangeFacts
  <2> QED BY <2>6, <2>7 DEF SaysOfGroups
<1> QED BY <1>1, <1>2 DEF GroupsTold

LEMMA StreamsTold ==
  ASSUME NEW text \in TextSet, text.end, Plain(text), WellNamed(text),
         NEW st, st = ParseLines(text), st.ok,
         NEW m \in Mids, NEW streams, streams = TracksOf(st, m)
  PROVE  /\ SsrcsTold(streams, Ref(text, m, "ssrc"))
         /\ GroupsTold(streams, Ref(text, m, "ssrc-group"))
<1>1. /\ text \in TextSet /\ EndsWell(text) /\ GroupsOfVideo(text)
      /\ OneNameEach(Ref(text, m, "ssrc"))
  BY DEF WellNamed, EndsWell
<1>2. PICK N \in Nat : N = Len(text.lines)
  BY <1>1 DEF TextSet
<1>3. st = Parsed(text, N) /\ st \in StSet /\ ReadTo(text, N) /\ N \in 0..Len(text.lines)
  BY <1>1, <1>2, AnswerState DEF ReadTo
<1>4. PICK infos, S, tracks : /\ infos = st.info[m] /\ S = Ref(text, m, "ssrc")
                              /\ tracks = CreateTracks(infos)
  OBVIOUS
<1>5. infos \in Seq(InfoSet)
  BY <1>3, <1>4 DEF StSet
<1>6. S = RefTo(text, N, m, "ssrc")
  BY <1>2, <1>4, RefToSteps
<1>7. InfoOf(infos, S)
  BY <1>1, <1>3, <1>4, <1>6, InfosRead
<1>8. S \subseteq Seq(Word)
  <2>1. ASSUME NEW v \in S PROVE v \in Seq(Word)
    <3>1. PICK i \in 1..Len(text.lines) : v = text.lines[i].v
      BY <1>4, RefFacts
    <3>2. text.lines[i] \in LineSet
      BY <1>1 DEF TextSet
    <3> QED BY <3>1, <3>2 DEF LineSet
  <2> QED BY <2>1
<1>9. InfoTells(infos, S)
  <2>1. OneNameEach(S)
    BY <1>1, <1>4
  <2> QED BY <1>5, <1>7, <1>8, <2>1, InfoComplete
<1>10. SameTrack(Range(infos))
  BY <1>9 DEF InfoTells, SameTrack
<1>11. tracks \in Seq(TrackSet) /\ StandFor(tracks, Range(infos))
  BY <1>4, <1>5, <1>10, TracksStandFor
<1>12. SsrcsTold(tracks, S)
  BY <1>9, <1>11, NamesTold
<1>13. \A t \in Range(tracks) : t.groups = << >>
  BY <1>11 DEF StandFor
<1>14. CASE m = "audio"
  <2>1. streams = tracks
    BY <1>4, <1>14 DEF TracksOf
  <2>2. Range(<< >>) = {}
    BY DEF Range
  <2>3. \A v : ~ SaysOfGroups(tracks, v)
    BY <1>13, <2>2 DEF SaysOfGroups
  <2>4. Ref(text, m, "ssrc-group") = {}
    BY <1>1, <1>14 DEF GroupsOfVideo
  <2>5. GroupsTold(streams, Ref(text, m, "ssrc-group"))
    BY <2>1, <2>3, <2>4 DEF GroupsTold
  <2> QED BY <1>4, <1>12, <2>1, <2>5
<1>15. CASE m = "video"
  <2>1. PICK groups : groups = st.ssrcGroups
    OBVIOUS
  <2>2. groups \in Seq(Seq(Word)) /\ streams = AddGroups(tracks, groups)
    <3>1. groups \in Seq(Seq(Word))
      BY <1>3, <2>1 DEF StSet
    <3>2. streams = AddGroups(tracks, groups)
      BY <1>4, <1>15, <2>1 DEF TracksOf
    <3> QED BY <3>1, <3>2
  <2>3. PICK G : G = Range(groups)
    OBVIOUS
  <2>4. G = Ref(text, "video", "ssrc-group")
    <3>1. G = RefTo(text, N, "video", "ssrc-group")
      BY <1>1, <1>3, <2>1, <2>3, GroupsRead
    <3>2. RefTo(text, Len(text.lines), "video", "ssrc-group") = Ref(text, "video", "ssrc-group")
      BY RefToSteps
    <3> QED BY <1>2, <3>1, <3>2
  <2>5. streams \in Seq(TrackSet) /\ GroupsTo(streams, tracks, G)
    BY <1>11, <1>13, <2>2, <2>3, GroupsGiven
  <2>6. SsrcsTold(streams, S)
    BY <1>11, <1>12, <2>5, NamesKept
  <2>7. ASSUME NEW g \in G PROVE Len(g) # 1 /\ \E e \in Range(infos) : e.ssrc = g[2]
    <3>1. g \in Seq(Word)
      <4>1. PICK i \in 1..Len(groups) : g = groups[i]
        BY <2>2, <2>3, RangeFacts
      <4> QED BY <2>2, <4>1
    <3>2. PICK v \in Ref(text, "video", "ssrc") : Len(g) >= 2 /\ v[1] = g[2]
      BY <1>1, <2>4 DEF GroupsOfVideo
    <3>3. v \in S
      BY <1>4, <1>15
    <3>4. \E e \in Range(infos) : e.ssrc = v[1]
      BY <1>9, <3>3, Zenon DEF InfoTells
    <3> QED BY <3>1, <3>2, <3>4
  <2>8. GroupsTold(streams, G)
    BY <1>11, <2>5, <2>7, AllGroupsTold
  <2> QED BY <1>4, <1>15, <2>4, <2>6, <2>8
<1> QED BY <1>14, <1>15 DEF Mids

\* The streams an offer gets from an answer.
LEMMA SourceIs ==
  ASSUME NEW text, Conforms(text), text # Null, NEW st, st = ParseLines(text), NEW m \in Mids,
         NEW streams, streams = Source(RemoteOf(text))[m]
  PROVE  streams = IF Contains(st.contents, m) THEN TracksOf(st, m) ELSE << >>
<1>1. st \in StSet
  BY AnswerState DEF Conforms
<1>2. PICK desc : desc = Description(st)
  OBVIOUS
<1>3. RemoteOf(text) = desc
  BY <1>2 DEF RemoteOf
<1>4. desc # Null
  BY <1>1, <1>2, DescriptionFields, SdpAssumption
<1>5. GetContent(desc, m) = IF Contains(st.contents, m) THEN ContentOf(st, m) ELSE Null
  BY <1>1, <1>2, ContentFound
<1>6. ContentOf(st, m) # Null /\ ContentOf(st, m).streams = TracksOf(st, m)
  BY <1>1, ContentOfType, SdpAssumption
<1>7. streams = IF GetContent(desc, m) = Null THEN << >> ELSE GetContent(desc, m).streams
  BY <1>3, <1>4 DEF Source
<1> QED BY <1>5, <1>6, <1>7

\* Nothing is said in a section that never starts.
LEMMA SilentUnlessStarted ==
  ASSUME NEW text \in TextSet, text.end, Plain(text), NEW st, st = ParseLines(text), st.ok,
         NEW m \in Mids, ~ Contains(st.contents, m), NEW k
  PROVE  Ref(text, m, k) = {}
<1>1. text \in TextSet /\ EndsWell(text)
  BY DEF EndsWell
<1>2. PICK N \in Nat : N = Len(text.lines)
  BY <1>1 DEF TextSet
<1>3. st = Parsed(text, N) /\ ReadTo(text, N) /\ N \in 0..Len(text.lines)
  BY <1>1, <1>2, AnswerState DEF ReadTo
<1>4. SectionsRead(text, N)
  BY <1>1, <1>3, AllRead
<1>5. ~ \E i \in 1..N : At(text, i, m, "m")
  BY <1>3, <1>4 DEF SectionsRead
<1>6. ASSUME NEW i \in 1..N PROVE SectionOf(text, i) # m
  <2>1. m # NoWord /\ i \in 0..Len(text.lines)
    BY <1>2, NoWordFacts
  <2>2. SectionOf(text, i) = m => Started(text, i, m)
    BY <1>1, <2>1, SectionStarts
  <2>3. \A j \in 1..i : j \in 1..N
    OBVIOUS
  <2> QED BY <1>5, <2>2, <2>3 DEF Started
<1>7. \A v : v \notin Ref(text, m, k)
  BY <1>2, <1>6, RefFacts DEF At
<1> QED BY <1>7

LEMMA EmptyTold == SsrcsTold(<< >>, {}) /\ GroupsTold(<< >>, {})
<1>1. Range(<< >>) = {}
  BY DEF Range
<1> QED BY <1>1 DEF SsrcsTold, GroupsTold, SaysOfSsrcs, SaysOfGroups

\* The text as it is read gives the same.
LEMMA AsReadFacts ==
  ASSUME NEW text \in TextSet, NEW r, r = AsRead(text)
  PROVE  /\ r \in TextSet /\ r.end /\ ParseLines(r) = ParseLines(text)
         /\ Plain(text) => Plain(r)
<1>1. PICK N \in Nat : N = Len(text.lines)
  BY DEF TextSet
<1>2. PICK ls : ls = [i \in 1..N |-> Strip(text, i)]
  OBVIOUS
<1>3. \A i \in 1..N : Strip(text, i) \in LineSet
  BY <1>1, StripFacts
<1>4. ls \in Seq(LineSet) /\ Len(ls) = N /\ \A i \in 1..N : ls[i] = Strip(text, i)
  BY <1>2, <1>3
<1>5. r = [text EXCEPT !.lines = ls, !.end = TRUE]
  BY <1>1, <1>2 DEF AsRead
<1>6. r \in TextSet /\ r.end /\ r.lines = ls
  BY <1>4, <1>5 DEF TextSet
<1>7. \A i \in 1..N : Strip(r, i) = Strip(text, i)
  BY <1>4, <1>6 DEF Strip
<1>8. \A n \in 0..N : Parsed(r, n) = Parsed(text, n)
  <2> DEFINE T == {n \in Nat : n =< N => Parsed(r, n) = Parsed(text, n)}
  <2>1. 0 \in T
    BY <1>6, ParsedFacts
  <2>2. ASSUME NEW n \in Nat, n \in T PROVE n + 1 \in T
    <3> SUFFICES ASSUME n + 1 =< N PROVE Parsed(r, n + 1) = Parsed(text, n + 1)
      OBVIOUS
    <3>1. PICK i \in 1..N : i = n + 1 /\ i - 1 = n
      BY <1>1
    <3>2. Parsed(r, i) = ParseLine(Parsed(r, n), Strip(r, i))
      BY <1>4, <1>6, <3>1, ParsedFacts
    <3>3. Parsed(text, i) = ParseLine(Parsed(text, n), Strip(text, i))
      BY <1>1, <3>1, ParsedFacts
    <3>4. Parsed(r, n) = Parsed(text, n)
      BY <1>1, <2>2, <3>1
    <3> QED BY <1>7, <3>1, <3>2, <3>3, <3>4
  <2>3. \A n \in Nat : n \in T
    <3> HIDE DEF T
    <3> QED BY <2>1, <2>2, NaturalsClosed
  <2> QED BY <1>1, <2>3
<1>9. ParseLines(r) = ParseLines(text)
  BY <1>1, <1>4, <1>6, <1>8 DEF ParseLines
<1>10. ASSUME Plain(text) PROVE Plain(r)
  <2>1. \A i \in 1..N : PlainLine(Strip(text, i))
    BY <1>1, <1>10, StripFacts DEF Plain, PlainLine
  <2> QED BY <1>4, <1>6, <2>1 DEF Plain, PlainLine
<1> QED BY <1>6, <1>9, <1>10

\* An answer, as the offer made from it tells it.
LEMMA SourceTold ==
  ASSUME NEW text, Conforms(text), text # Null, NEW st, st = ParseLines(text), st.ok,
         NEW r, r = AsRead(text), Plain(text), WellNamed(r),
         NEW m \in Mids, NEW streams, streams = Source(RemoteOf(text))[m]
  PROVE  /\ SsrcsTold(streams, Ref(r, m, "ssrc"))
         /\ GroupsTold(streams, Ref(r, m, "ssrc-group"))
<1>1. streams = IF Contains(st.contents, m) THEN TracksOf(st, m) ELSE << >>
  BY SourceIs
<1>2. text \in TextSet
  BY DEF Conforms
<1>3. r \in TextSet /\ r.end /\ st = ParseLines(r) /\ Plain(r)
  BY <1>2, AsReadFacts
<1>4. CASE Contains(st.contents, m)
  <2>1. streams = TracksOf(st, m)
    BY <1>1, <1>4
  <2> QED BY <1>3, <2>1, StreamsTold
<1>5. CASE ~ Contains(st.contents, m)
  <2>1. Ref(r, m, "ssrc") = {} /\ Ref(r, m, "ssrc-group") = {}
    BY <1>3, <1>5, SilentUnlessStarted
  <2> QED BY <1>1, <1>5, <2>1, EmptyTold
<1> QED BY <1>4, <1>5

LEMMA NoneTold ==
  ASSUME NEW src, src = Null \/ (Conforms(src) /\ ~ ParseLines(src).ok), NEW m \in Mids
  PROVE  Source(RemoteOf(src))[m] = << >>
<1>1. CASE src = Null
  BY <1>1 DEF RemoteOf, Source
<1>2. CASE src # Null
  <2>1. PICK st : st = ParseLines(src)
    OBVIOUS
  <2>2. Source(RemoteOf(src))[m] = IF Contains(st.contents, m) THEN TracksOf(st, m) ELSE << >>
    BY <1>2, <2>1, SourceIs
  <2>3. TracksOf(st, m) = << >>
    BY <1>2, <2>1 DEF TracksOf
  <2> QED BY <2>2, <2>3
<1> QED BY <1>1, <1>2

\* What the property says of one PeerConnection and one section.
Untaken(src) == src = Null \/ ~ ParseLines(src).ok
Silent == [ssrcs |-> {}, groups |-> {}]
Declares(c, m) ==
  LET here == RefSources(c.offer, m) src == c.src IN
  IF src = Null \/ Ref(c.offer, m, "m") = {} \/ ~ ParseLines(src).ok
  THEN here = Silent
  ELSE Plain(src) /\ WellNamed(AsRead(src)) => here = RefSources(AsRead(src), m)

\* An offer that has section m if it is one of mids, with the streams, and the streams
\* that an answer stands for.
Offers(text, m, mids, streams) ==
  /\ Ref(text, m, "m") = {} <=> m \notin Range(mids)
  /\ \A v : v \in Ref(text, m, "ssrc") <=> m \in Range(mids) /\ SaysOfSsrcs(streams, v)
  /\ \A v : v \in Ref(text, m, "ssrc-group") <=> m \in Range(mids) /\ SaysOfGroups(streams, v)
ComeFrom(streams, src, m) ==
  /\ Untaken(src) => streams = << >>
  /\ ~ Untaken(src) /\ Plain(src) /\ WellNamed(AsRead(src)) =>
       /\ SsrcsTold(streams, Ref(AsRead(src), m, "ssrc"))
       /\ GroupsTold(streams, Ref(AsRead(src), m, "ssrc-group"))

LEMMA EachDeclares ==
  ASSUME NEW c, NEW src, src = c.src, NEW mids, NEW streams, NEW m,
         Offers(c.offer, m, mids, streams), ComeFrom(streams, src, m)
  PROVE  Declares(c, m)
<1>1. PICK here : here = RefSources(c.offer, m)
  OBVIOUS
<1>2. /\ here.ssrcs = {v \in Ref(c.offer, m, "ssrc") : v[2] \in {"cname", "msid"}}
      /\ here = [ssrcs |-> here.ssrcs, groups |-> Ref(c.offer, m, "ssrc-group")]
  BY <1>1 DEF RefSources
<1>3. CASE Untaken(src) \/ m \notin Range(mids)
  <2>1. Range(<< >>) = {} /\ (Untaken(src) => streams = << >>)
    BY DEF Range, ComeFrom
  <2>2. \A v : v \notin Ref(c.offer, m, "ssrc") /\ v \notin Ref(c.offer, m, "ssrc-group")
    BY <1>3, <2>1 DEF Offers, SaysOfSsrcs, SaysOfGroups
  <2>3. here = Silent
    BY <1>2, <2>2 DEF Silent
  <2> QED BY <1>1, <1>3, <2>3 DEF Declares, Offers, Untaken
<1>4. CASE ~ Untaken(src) /\ m \in Range(mids)
  <2> SUFFICES ASSUME Plain(src), WellNamed(AsRead(src))
               PROVE  here = RefSources(AsRead(src), m)
    BY <1>1, <1>4 DEF Declares, Offers, Untaken
  <2>1. PICK r : r = AsRead(src)
    OBVIOUS
  <2>2. here.ssrcs = {v \in Ref(r, m, "ssrc") : v[2] \in {"cname", "msid"}}
    BY <1>2, <1>4, <2>1 DEF SsrcsTold, Offers, ComeFrom
  <2>3. Ref(c.offer, m, "ssrc-group") = Ref(r, m, "ssrc-group")
    BY <1>4, <2>1 DEF GroupsTold, Offers, ComeFrom
  <2> QED BY <1>2, <2>1, <2>2, <2>3 DEF RefSources
<1> QED BY <1>3, <1>4

LEMMA DeclaresPushed == NegotiationInv => DeclaresWhatIsPushed
<1> SUFFICES ASSUME NegotiationInv PROVE DeclaresWhatIsPushed
  OBVIOUS
<1>1. EachPeer
  BY InvariantIsEach
<1>2. ASSUME NEW p \in Pc, peer[p] # Null, ~ peer[p].push, NEW m \in Mids
      PROVE  Declares(peer[p], m)
  <2>1. PICK c, ports : c = peer[p] /\ ports = bound[p] /\ PeerKnown(c, ports, offers)
    BY <1>1, <1>2 DEF EachPeer
  <2>2. PICK mids \in Media, i \in 1..offers : OfferIsOf(c, ports, mids, Cred[i])
    BY <2>1 DEF PeerKnown
  <2>3. PICK src, sources, cred :
          src = c.src /\ sources = Source(RemoteOf(src)) /\ cred = Cred[i]
    OBVIOUS
  <2>4. c.push = FALSE
    <3>1. c.push \in BOOLEAN
      BY <2>1 DEF PeerKnown, PeerSet
    <3> QED BY <1>2, <2>1, <3>1
  <2>5. c.offer = OfferText(FALSE, mids, sources, cred, ports)
    BY <2>2, <2>3, <2>4 DEF OfferIsOf
  <2>6. src = Null \/ Conforms(src)
    BY <2>1, <2>3 DEF PeerKnown
  <2>7. sources \in SourceSet
    BY <2>3, <2>6, RemoteType, SourceType
  <2>8. cred \in Word
    <3>1. offers \in 0..Len(Cred)
      BY <1>1 DEF EachPeer
    <3>2. i \in 1..Len(Cred)
      BY <3>1, NegotiationAssumption
    <3> QED BY <2>3, <3>2, NegotiationAssumption
  <2>9. ports \in Seq(Word) /\ MidsOf(mids)
    BY <2>1, MediaFacts DEF PeerKnown
  <2>10. PICK streams : streams = sources[m]
    OBVIOUS
  <2>11. Offers(c.offer, m, mids, streams)
    <3>1. PICK no, text : no \in BOOLEAN /\ no = FALSE /\ text = c.offer
      OBVIOUS
    <3>2. text = OfferText(no, mids, sources, cred, ports)
      BY <2>5, <3>1
    <3>3. no \in BOOLEAN
      BY <3>1
    <3>4. /\ \A x \in Mids : Ref(text, x, "m") = {} <=> x \notin Range(mids)
          /\ \A x \in Mids : \A v : v \in Ref(text, x, "ssrc") <=>
               x \in Range(mids) /\ SaysOfSsrcs(Streams(no, sources, x), v)
          /\ \A x \in Mids : \A v : v \in Ref(text, x, "ssrc-group") <=>
               x \in Range(mids) /\ SaysOfGroups(Streams(no, sources, x), v)
      BY <2>7, <2>8, <2>9, <3>2, <3>3, OfferFacts
    <3>5. Streams(no, sources, m) = streams
      BY <2>10, <3>1 DEF Streams
    <3>6. Offers(text, m, mids, streams)
      BY <3>4, <3>5 DEF Offers
    <3> QED BY <3>1, <3>6
  <2>12. ComeFrom(streams, src, m)
    <3>1. Untaken(src) => streams = << >>
      BY <2>3, <2>6, <2>10, NoneTold DEF Untaken
    <3>2. ASSUME ~ Untaken(src), Plain(src), WellNamed(AsRead(src))
          PROVE  /\ SsrcsTold(streams, Ref(AsRead(src), m, "ssrc"))
                 /\ GroupsTold(streams, Ref(AsRead(src), m, "ssrc-group"))
      <4>1. src # Null /\ Conforms(src) /\ ParseLines(src).ok /\ streams = Source(RemoteOf(src))[m]
        BY <2>3, <2>6, <2>10, <3>2 DEF Untaken
      <4> QED BY <3>2, <4>1, SourceTold
    <3> QED BY <3>1, <3>2 DEF ComeFrom
  <2>13. Declares(c, m)
    BY <2>3, <2>11, <2>12, EachDeclares
  <2> QED BY <2>1, <2>13
<1> QED BY <1>2 DEF DeclaresWhatIsPushed, Declares, Silent

\* A pull stream's offer declares nothing while the push stream has no answer or one that
\* does not parse, and exactly what the answer declares, as set_remote_sdp() reads it,
\* otherwise; through set_remote_sdp(), _get_source() and to_string(), for every answer
\* whose names agree with each other and that has m= only where a section starts.
THEOREM OffersDeclareWhatIsPushed == NegotiationSpec => []DeclaresWhatIsPushed
BY NegotiationInvariance, DeclaresPushed, PTL

=============================================================================
