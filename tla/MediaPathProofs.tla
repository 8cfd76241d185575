--------------------------- MODULE MediaPathProofs ---------------------------
(***************************************************************************)
(* Proofs about the media path, for any number of transports, suites,       *)
(* packets and datagrams.  The invariant of the sessions counts the uses of *)
(* libsrtp and says what each thread has, by where it is in                 *)
(* set_rtp_params() and reset_params(); that of the socket says when a      *)
(* packet is in hand.  Each is kept by the steps of its own part, and the   *)
(* steps of the path leave the variables of the other alone.                *)
(***************************************************************************)
EXTENDS MediaPath, FiniteSetTheorems, SequenceTheorems, TLAPS

-----------------------------------------------------------------------------
(* The uses of libsrtp *)

\* There are finitely many sessions.
LEMMA SessionsFinite ==
  /\ IsFiniteSet(Dir) /\ Cardinality(Dir) = 2
  /\ IsFiniteSet(Counted) /\ Cardinality(Counted) \in Nat
<1>1. IsFiniteSet({"send"}) /\ Cardinality({"send"}) = 1
  BY FS_Singleton
<1>2. Dir = {"send"} \cup {"recv"} /\ "recv" \notin {"send"}
  BY DEF Dir
<1>3. IsFiniteSet(Dir) /\ Cardinality(Dir) = 2
  BY <1>1, <1>2, FS_AddElement
<1>4. IsFiniteSet(Transport \X Dir)
  BY <1>3, FS_Product, SrtpAssumption
<1>5. Counted \in SUBSET (Transport \X Dir)
  BY DEF Counted
<1>6. IsFiniteSet(Counted)
  BY <1>4, <1>5, FS_Subset
<1> QED BY <1>3, <1>6, FS_CardinalityType

\* A session is that of a transport and a direction.
LEMMA SessionPair ==
  ASSUME NEW t \in Transport, NEW d \in Dir
  PROVE  /\ <<t, d>> \in Transport \X Dir /\ <<t, d>>[1] = t /\ <<t, d>>[2] = d
         /\ \A s \in Transport \X Dir : /\ s[1] \in Transport /\ s[2] \in Dir
                                       /\ s[1] = t /\ s[2] = d => s = <<t, d>>
OBVIOUS

\* _increment_libsrtp_usage_count_and_maybe_init() makes one session more count.
LEMMA CountedMore ==
  ASSUME SrtpTypeOK, NEW t \in Transport, NEW d \in Dir, ~ inited[t][d],
         inited' = [inited EXCEPT ![t][d] = TRUE]
  PROVE  Cardinality(Counted') = Cardinality(Counted) + 1
<1>1. \A u \in Transport, e \in Dir : inited'[u][e] = IF u = t /\ e = d THEN TRUE ELSE inited[u][e]
  BY DEF SrtpTypeOK
<1>2. ASSUME NEW s \in Transport \X Dir
      PROVE  inited'[s[1]][s[2]] <=> s = <<t, d>> \/ inited[s[1]][s[2]]
  <2>1. s[1] \in Transport /\ s[2] \in Dir
    OBVIOUS
  <2>2. CASE s = <<t, d>>
    <3>1. s[1] = t /\ s[2] = d
      BY <2>2
    <3> QED BY <1>1, <2>1, <2>2, <3>1
  <2>3. CASE s # <<t, d>>
    <3>1. ~ (s[1] = t /\ s[2] = d)
      BY <2>3, SessionPair
    <3> QED BY <1>1, <2>1, <2>3, <3>1
  <2> QED BY <2>2, <2>3
<1>3. Counted' = Counted \cup {<<t, d>>}
  BY <1>2 DEF Counted
<1>4. <<t, d>> \notin Counted
  BY DEF Counted
<1> QED BY <1>3, <1>4, SessionsFinite, FS_AddElement

\* _decrement_libsrtp_usage_count_and_maybe_deinit() makes one session less count.
LEMMA CountedLess ==
  ASSUME SrtpTypeOK, NEW t \in Transport, NEW d \in Dir,
         inited' = [inited EXCEPT ![t][d] = FALSE]
  PROVE  Cardinality(Counted') = IF inited[t][d] THEN Cardinality(Counted) - 1
                                                 ELSE Cardinality(Counted)
<1>1. \A u \in Transport, e \in Dir : inited'[u][e] = IF u = t /\ e = d THEN FALSE ELSE inited[u][e]
  BY DEF SrtpTypeOK
<1>2. ASSUME NEW s \in Transport \X Dir
      PROVE  inited'[s[1]][s[2]] <=> s # <<t, d>> /\ inited[s[1]][s[2]]
  <2>1. s[1] \in Transport /\ s[2] \in Dir
    OBVIOUS
  <2>2. CASE s = <<t, d>>
    <3>1. s[1] = t /\ s[2] = d
      BY <2>2
    <3> QED BY <1>1, <2>1, <2>2, <3>1
  <2>3. CASE s # <<t, d>>
    <3>1. ~ (s[1] = t /\ s[2] = d)
      BY <2>3, SessionPair
    <3> QED BY <1>1, <2>1, <2>3, <3>1
  <2> QED BY <2>2, <2>3
<1>3. Counted' = Counted \ {<<t, d>>}
  BY <1>2 DEF Counted
<1>4. <<t, d>> \in Counted <=> inited[t][d]
  BY DEF Counted
<1> QED BY <1>3, <1>4, SessionsFinite, FS_RemoveElement

\* A thread whose sessions and place stay what they were has what it had.
LEMMA ThreadKept ==
  ASSUME NEW u \in Transport, ThreadHas(u), exists'[u] = exists[u], inited'[u] = inited[u],
         key'[u] = key[u], spc'[u] = spc[u]
  PROVE  ThreadHas(u)'
BY DEF ThreadHas

\* Where a thread may go.
LEMMA PcType ==
  ASSUME SrtpTypeOK, NEW t \in Transport,
         NEW step \in {"idle", "count", "key", "dealloc", "uncount"}, NEW dir \in Dir
  PROVE  /\ IdlePc \in [step : {"idle", "count", "key", "dealloc", "uncount"},
                        dir : Dir, hs : 0..MaxSetups, cs : Suite]
         /\ IdlePc.step = "idle"
         /\ [spc[t] EXCEPT !.step = step, !.dir = dir] \in
              [step : {"idle", "count", "key", "dealloc", "uncount"},
               dir : Dir, hs : 0..MaxSetups, cs : Suite]
<1>1. (CHOOSE s \in Suite : TRUE) \in Suite
  BY SrtpAssumption
<1>2. IdlePc = [step |-> "idle", dir |-> "send", hs |-> 0, cs |-> CHOOSE s \in Suite : TRUE]
  BY DEF IdlePc, At
<1>3. "send" \in Dir /\ 0 \in 0..MaxSetups
  BY SrtpAssumption DEF Dir
<1>4. /\ IdlePc \in [step : {"idle", "count", "key", "dealloc", "uncount"},
                     dir : Dir, hs : 0..MaxSetups, cs : Suite]
      /\ IdlePc.step = "idle"
  BY <1>1, <1>2, <1>3
<1> QED BY <1>4 DEF SrtpTypeOK

\* set_rtp_params() begins.
LEMMA SetupInv ==
  ASSUME SrtpInv, NEW t \in Transport, NEW cs \in Suite, Setup(t, cs) PROVE SrtpInv'
<1> DEFINE pc == [step |-> "count", dir |-> "send", hs |-> setups + 1, cs |-> cs]
<1>1. /\ spc[t].step = "idle" /\ ~ exists[t] /\ setups < MaxSetups /\ setups' = setups + 1
      /\ exists' = [exists EXCEPT ![t] = TRUE] /\ spc' = [spc EXCEPT ![t] = pc]
      /\ UNCHANGED <<usage, lib, inited, key, tags>>
  BY DEF Setup, Step, Active, CreateSessions, Goto, At
<1>2. SrtpTypeOK
  BY DEF SrtpInv
<1>3. setups + 1 \in 0..MaxSetups /\ setups + 1 # 0
  BY <1>1, <1>2, SrtpAssumption DEF SrtpTypeOK
<1>4. pc \in [step : {"idle", "count", "key", "dealloc", "uncount"},
              dir : Dir, hs : 0..MaxSetups, cs : Suite]
      /\ pc.step = "count" /\ pc.dir = "send" /\ pc.hs # 0
  BY <1>3 DEF Dir
<1> HIDE DEF pc
<1>5. SrtpTypeOK'
  BY <1>1, <1>2, <1>3, <1>4 DEF SrtpTypeOK
<1>6. spc'[t] = pc /\ exists'[t]
  BY <1>1, <1>2 DEF SrtpTypeOK
<1>7. ThreadHas(t)
  BY DEF SrtpInv
<1>8. ThreadHas(t)'
  BY <1>1, <1>4, <1>6, <1>7 DEF ThreadHas, Dir
<1>9. ASSUME NEW u \in Transport, u # t PROVE ThreadHas(u)'
  BY <1>1, <1>2, <1>9, ThreadKept DEF SrtpInv, SrtpTypeOK
<1>10. Counted' = Counted
  BY <1>1 DEF Counted
<1> QED BY <1>1, <1>5, <1>8, <1>9, <1>10 DEF SrtpInv

\* A session counts: the library is up from then on.
LEMMA CountInv ==
  ASSUME SrtpInv, NEW t \in Transport, Count(t) PROVE SrtpInv'
<1> DEFINE d == spc[t].dir
           pc == [spc[t] EXCEPT !.step = "key", !.dir = d]
<1>1. /\ spc[t].step = "count" /\ usage' = usage + 1
      /\ lib' = IF usage = 0 THEN "up" ELSE lib
      /\ inited' = [inited EXCEPT ![t][d] = TRUE] /\ spc' = [spc EXCEPT ![t] = pc]
      /\ UNCHANGED <<exists, key, tags, setups>>
  BY DEF Count, Step, GoOn, Goto
<1>2. SrtpTypeOK /\ d \in Dir
  BY DEF SrtpInv, SrtpTypeOK
<1>3. pc \in [step : {"idle", "count", "key", "dealloc", "uncount"},
              dir : Dir, hs : 0..MaxSetups, cs : Suite]
  BY <1>2, PcType
<1>4. pc.step = "key" /\ pc.dir = d /\ pc.hs = spc[t].hs
  BY <1>2 DEF SrtpTypeOK
<1>5. ThreadHas(t)
  BY DEF SrtpInv
<1>6. ~ inited[t][d]
  BY <1>1, <1>5 DEF ThreadHas
<1> HIDE DEF pc
<1>7. SrtpTypeOK'
  BY <1>1, <1>2, <1>3 DEF SrtpTypeOK
<1>8. /\ spc'[t] = pc
      /\ \A e \in Dir : inited'[t][e] = IF e = d THEN TRUE ELSE inited[t][e]
  BY <1>1, <1>2 DEF SrtpTypeOK
<1>9. ThreadHas(t)'
  <2>1. /\ spc[t].hs # 0 /\ key[t]["recv"] = 0 /\ exists[t]
        /\ d = "send" => key[t]["send"] = 0 /\ ~ inited[t]["recv"]
        /\ d = "recv" => key[t]["send"] = spc[t].hs
        /\ \A e \in Dir : key[t][e] # 0 => inited[t][e]
    BY <1>1, <1>5 DEF ThreadHas
  <2> HIDE DEF d
  <2> QED BY <1>1, <1>2, <1>4, <1>8, <2>1 DEF ThreadHas, Dir
<1>10. ASSUME NEW u \in Transport, u # t PROVE ThreadHas(u)'
  BY <1>1, <1>2, <1>10, ThreadKept DEF SrtpInv, SrtpTypeOK
<1>11. Cardinality(Counted') = Cardinality(Counted) + 1
  BY <1>1, <1>2, <1>6, CountedMore
<1>12. usage' = Cardinality(Counted') /\ (usage' > 0 => lib' = "up")
  BY <1>1, <1>2, <1>11 DEF SrtpInv, SrtpTypeOK
<1> QED BY <1>7, <1>9, <1>10, <1>12 DEF SrtpInv

\* reset_params() begins, at the end of a failure or of a session.
LEMMA ToDealloc ==
  ASSUME SrtpInv, NEW t \in Transport, exists[t], GoOn(t, "dealloc", "send"),
         UNCHANGED <<usage, exists, inited, key, tags, setups>>,
         lib' = lib \/ (usage = 0 /\ lib' = "init")
  PROVE  SrtpInv'
<1> DEFINE pc == [spc[t] EXCEPT !.step = "dealloc", !.dir = "send"]
<1>1. SrtpTypeOK /\ "send" \in Dir
  BY DEF SrtpInv, Dir
<1>2. pc \in [step : {"idle", "count", "key", "dealloc", "uncount"},
              dir : Dir, hs : 0..MaxSetups, cs : Suite]
  BY <1>1, PcType, ZenonT(40)
<1>3. pc.step = "dealloc" /\ pc.dir = "send" /\ spc' = [spc EXCEPT ![t] = pc]
  BY <1>1 DEF SrtpTypeOK, GoOn, Goto
<1> HIDE DEF pc
<1>4. SrtpTypeOK' /\ spc'[t] = pc
  BY <1>1, <1>2, <1>3 DEF SrtpTypeOK
<1>5. ThreadHas(t)
  BY DEF SrtpInv
<1>6. ThreadHas(t)'
  BY <1>3, <1>4, <1>5 DEF ThreadHas
<1>7. ASSUME NEW u \in Transport, u # t PROVE ThreadHas(u)'
  BY <1>1, <1>3, <1>7, ThreadKept DEF SrtpInv, SrtpTypeOK
<1>8. Counted' = Counted
  BY DEF Counted
<1>9. usage' = Cardinality(Counted') /\ (usage' > 0 => lib' = "up")
  BY <1>1, <1>8 DEF SrtpInv, SrtpTypeOK
<1> QED BY <1>4, <1>6, <1>7, <1>9 DEF SrtpInv

\* A session gets its key, after which the thread is at pc.
LEMMA SetKeyInv ==
  ASSUME SrtpInv, NEW t \in Transport, NEW d \in Dir, DoSetKey(t, d),
         NEW pc \in [step : {"idle", "count", "key", "dealloc", "uncount"},
                     dir : Dir, hs : 0..MaxSetups, cs : Suite],
         spc' = [spc EXCEPT ![t] = pc],
         \/ d = "send" /\ pc.step = "count" /\ pc.dir = "recv" /\ pc.hs = spc[t].hs
         \/ d = "recv" /\ pc.step = "idle"
  PROVE  SrtpInv'
<1>1. /\ spc[t].step = "key" /\ spc[t].dir = d
      /\ key' = [key EXCEPT ![t][d] = spc[t].hs]
      /\ tags' = [tags EXCEPT ![t][d] = spc[t].cs]
      /\ UNCHANGED <<usage, lib, exists, inited, setups>>
  BY DEF DoSetKey, Step
<1>2. SrtpTypeOK /\ spc[t].hs \in 0..MaxSetups /\ spc[t].cs \in Suite
  BY DEF SrtpInv, SrtpTypeOK
<1>3. SrtpTypeOK'
  BY <1>1, <1>2 DEF SrtpTypeOK
<1>4. /\ spc'[t] = pc /\ inited'[t] = inited[t]
      /\ \A e \in Dir : key'[t][e] = IF e = d THEN spc[t].hs ELSE key[t][e]
  BY <1>1, <1>2 DEF SrtpTypeOK
<1>5. ThreadHas(t)
  BY DEF SrtpInv
<1>6. /\ spc[t].hs # 0 /\ key[t]["recv"] = 0 /\ exists[t] /\ inited[t][d]
      /\ d = "send" => key[t]["send"] = 0 /\ ~ inited[t]["recv"]
      /\ d = "recv" => key[t]["send"] = spc[t].hs
      /\ \A e \in Dir : key[t][e] # 0 => inited[t][e]
  BY <1>1, <1>5 DEF ThreadHas
<1>7. ThreadHas(t)'
  <2>1. CASE d = "send" /\ pc.step = "count" /\ pc.dir = "recv" /\ pc.hs = spc[t].hs
    BY <1>1, <1>4, <1>6, <2>1 DEF ThreadHas, Dir
  <2>2. CASE d = "recv" /\ pc.step = "idle"
    <3>1. inited[t]["send"]
      BY <1>6, <2>2 DEF Dir
    <3> QED BY <1>1, <1>4, <1>6, <2>2, <3>1 DEF ThreadHas, Dir
  <2> QED BY <2>1, <2>2
<1>8. ASSUME NEW u \in Transport, u # t PROVE ThreadHas(u)'
  BY <1>1, <1>2, <1>8, ThreadKept DEF SrtpInv, SrtpTypeOK
<1>9. Counted' = Counted
  BY <1>1 DEF Counted
<1> QED BY <1>1, <1>3, <1>7, <1>8, <1>9 DEF SrtpInv

\* set_send() and set_recv().
LEMMA SetInv ==
  ASSUME SrtpInv, NEW t \in Transport, SetSend(t) \/ SetRecv(t) PROVE SrtpInv'
<1> DEFINE pc == [spc[t] EXCEPT !.step = "count", !.dir = "recv"]
<1>1. SrtpTypeOK /\ "send" \in Dir /\ "recv" \in Dir
  BY DEF SrtpInv, Dir
<1>2. pc \in [step : {"idle", "count", "key", "dealloc", "uncount"},
              dir : Dir, hs : 0..MaxSetups, cs : Suite]
  BY <1>1, PcType
<1>3. pc.step = "count" /\ pc.dir = "recv" /\ pc.hs = spc[t].hs
  BY <1>1 DEF SrtpTypeOK
<1>4. CASE SetSend(t)
  <2>1. DoSetKey(t, "send") /\ spc' = [spc EXCEPT ![t] = pc]
    BY <1>4 DEF SetSend, GoOn, Goto
  <2> HIDE DEF pc
  <2> QED BY <1>1, <1>2, <1>3, <2>1, SetKeyInv
<1>5. CASE SetRecv(t)
  <2>1. DoSetKey(t, "recv") /\ spc' = [spc EXCEPT ![t] = IdlePc]
    BY <1>5 DEF SetRecv, Goto
  <2>2. /\ IdlePc \in [step : {"idle", "count", "key", "dealloc", "uncount"},
                       dir : Dir, hs : 0..MaxSetups, cs : Suite]
        /\ IdlePc.step = "idle"
    BY <1>1, PcType
  <2> QED BY <1>1, <2>1, <2>2, SetKeyInv
<1> QED BY <1>4, <1>5

\* srtp_dealloc() of one session.
LEMMA DeallocInv ==
  ASSUME SrtpInv, NEW t \in Transport, Dealloc(t) PROVE SrtpInv'
<1> DEFINE d == spc[t].dir
           pc == [spc[t] EXCEPT !.step = "uncount", !.dir = d]
<1>1. /\ spc[t].step = "dealloc" /\ key' = [key EXCEPT ![t][d] = 0]
      /\ spc' = [spc EXCEPT ![t] = pc]
      /\ UNCHANGED <<usage, lib, exists, inited, tags, setups>>
  BY DEF Dealloc, Step, GoOn, Goto
<1>2. SrtpTypeOK /\ d \in Dir /\ 0 \in 0..MaxSetups
  BY SrtpAssumption DEF SrtpInv, SrtpTypeOK
<1>3. pc \in [step : {"idle", "count", "key", "dealloc", "uncount"},
              dir : Dir, hs : 0..MaxSetups, cs : Suite]
  BY <1>2, PcType
<1>4. pc.step = "uncount" /\ pc.dir = d
  BY <1>2 DEF SrtpTypeOK
<1>5. ThreadHas(t)
  BY DEF SrtpInv
<1>6. /\ exists[t] /\ (d = "recv" => ~ inited[t]["send"])
      /\ \A e \in Dir : key[t][e] # 0 => inited[t][e]
  BY <1>1, <1>5 DEF ThreadHas
<1> HIDE DEF pc, d
<1>7. SrtpTypeOK'
  BY <1>1, <1>2, <1>3 DEF SrtpTypeOK
<1>8. /\ spc'[t] = pc /\ inited'[t] = inited[t]
      /\ \A e \in Dir : key'[t][e] = IF e = d THEN 0 ELSE key[t][e]
  BY <1>1, <1>2 DEF SrtpTypeOK
<1>9. ThreadHas(t)'
  BY <1>1, <1>2, <1>4, <1>6, <1>8 DEF ThreadHas
<1>10. ASSUME NEW u \in Transport, u # t PROVE ThreadHas(u)'
  BY <1>1, <1>2, <1>10, ThreadKept DEF SrtpInv, SrtpTypeOK
<1>11. Counted' = Counted
  BY <1>1 DEF Counted
<1> QED BY <1>1, <1>7, <1>9, <1>10, <1>11 DEF SrtpInv

\* A session that counted gives up its use, and the last one shuts the library down.
LEMMA UncountInv ==
  ASSUME SrtpInv, NEW t \in Transport, Uncount(t) PROVE SrtpInv'
<1> DEFINE d == spc[t].dir
           pc == IF d = "send" THEN [spc[t] EXCEPT !.step = "dealloc", !.dir = "recv"]
                               ELSE IdlePc
<1>1. /\ spc[t].step = "uncount"
      /\ usage' = IF inited[t][d] THEN usage - 1 ELSE usage
      /\ lib' = IF inited[t][d] /\ usage = 1 THEN "down" ELSE lib
      /\ inited' = [inited EXCEPT ![t][d] = FALSE]
      /\ UNCHANGED <<key, tags, setups>>
  BY DEF Uncount, Step
<1>2. /\ spc' = [spc EXCEPT ![t] = pc]
      /\ exists' = IF d = "send" THEN exists ELSE [exists EXCEPT ![t] = FALSE]
  BY DEF Uncount, GoOn, Goto
<1>3. SrtpTypeOK /\ d \in Dir /\ "recv" \in Dir
  BY DEF SrtpInv, SrtpTypeOK, Dir
<1>4. pc \in [step : {"idle", "count", "key", "dealloc", "uncount"},
              dir : Dir, hs : 0..MaxSetups, cs : Suite]
  BY <1>3, PcType
<1>5. /\ d = "send" => pc.step = "dealloc" /\ pc.dir = "recv"
      /\ d = "recv" => pc.step = "idle"
  <2>1. IdlePc.step = "idle"
    BY <1>3, PcType
  <2>2. /\ [spc[t] EXCEPT !.step = "dealloc", !.dir = "recv"].step = "dealloc"
        /\ [spc[t] EXCEPT !.step = "dealloc", !.dir = "recv"].dir = "recv"
    BY <1>3 DEF SrtpTypeOK
  <2> QED BY <2>1, <2>2
<1>6. ThreadHas(t)
  BY DEF SrtpInv
<1>7. /\ exists[t] /\ (d = "recv" => ~ inited[t]["send"]) /\ key[t][d] = 0
      /\ \A e \in Dir : key[t][e] # 0 => inited[t][e]
  BY <1>1, <1>6 DEF ThreadHas
<1>8. Cardinality(Counted') = IF inited[t][d] THEN Cardinality(Counted) - 1
                                              ELSE Cardinality(Counted)
  BY <1>1, <1>3, CountedLess
<1>9. inited[t][d] => Cardinality(Counted) > 0
  <2>1. inited[t][d] => <<t, d>> \in Counted
    BY <1>3 DEF Counted
  <2> QED BY <2>1, SessionsFinite, FS_EmptySet
<1>10. /\ usage' = Cardinality(Counted') /\ usage' \in Nat
       /\ usage' > 0 => lib' = "up"
  BY <1>1, <1>8, <1>9, SessionsFinite DEF SrtpInv
<1> HIDE DEF pc, d
<1>11. SrtpTypeOK'
  BY <1>1, <1>2, <1>3, <1>4, <1>10 DEF SrtpTypeOK
<1>12. /\ spc'[t] = pc /\ key'[t] = key[t]
       /\ exists'[t] = (d = "send")
       /\ \A e \in Dir : inited'[t][e] = IF e = d THEN FALSE ELSE inited[t][e]
  BY <1>1, <1>2, <1>3, <1>7 DEF SrtpTypeOK
<1>13. ThreadHas(t)'
  <2>1. CASE d = "send"
    BY <1>3, <1>5, <1>7, <1>12, <2>1 DEF ThreadHas, Dir
  <2>2. CASE d = "recv"
    BY <1>3, <1>5, <1>7, <1>12, <2>2 DEF ThreadHas, Dir
  <2> QED BY <1>3, <2>1, <2>2 DEF Dir
<1>14. ASSUME NEW u \in Transport, u # t PROVE ThreadHas(u)'
  BY <1>1, <1>2, <1>3, <1>14, ThreadKept DEF SrtpInv, SrtpTypeOK
<1> QED BY <1>10, <1>11, <1>13, <1>14 DEF SrtpInv

\* Every step of the sessions, of whichever thread, keeps their invariant.
LEMMA SrtpStepInv ==
  ASSUME SrtpInv, NEW t \in Transport,
         SrtpStep(t) \/ Reset(t) \/ \E cs \in Suite : Setup(t, cs)
  PROVE  SrtpInv'
<1>1. ASSUME CountFails(t) \/ SetKeyFails(t) \/ Reset(t) PROVE SrtpInv'
  <2>1. exists[t]
    BY <1>1 DEF SrtpInv, ThreadHas, CountFails, SetKeyFails, Reset, Step, Active
  <2>2. /\ GoOn(t, "dealloc", "send") /\ UNCHANGED <<usage, exists, inited, key, tags, setups>>
        /\ lib' = lib \/ (usage = 0 /\ lib' = "init")
    BY <1>1 DEF CountFails, SetKeyFails, Reset
  <2> QED BY <2>1, <2>2, ToDealloc
<1> QED BY <1>1, SetupInv, CountInv, SetInv, DeallocInv, UncountInv DEF SrtpStep

\* The sessions' invariant says what their users rely on.
LEMMA SrtpInvSound ==
  ASSUME SrtpInv PROVE SessionsSound
<1>1. SrtpTypeOK
  BY DEF SrtpInv
<1>2. LibraryUpInUse
  <2> SUFFICES ASSUME NEW t \in Transport, NEW d \in Dir,
                      key[t][d] # 0 \/ (spc[t].step = "key" /\ spc[t].dir = d)
               PROVE  lib = "up"
    BY DEF LibraryUpInUse, Step
  <2>1. inited[t][d]
    BY DEF SrtpInv, ThreadHas
  <2>2. <<t, d>> \in Counted
    BY <2>1 DEF Counted
  <2>3. Cardinality(Counted) > 0
    BY <2>2, SessionsFinite, FS_EmptySet
  <2> QED BY <2>3 DEF SrtpInv
<1>3. UsageCounted
  <2> SUFFICES ASSUME \A t \in Transport : spc[t].step = "idle"
               PROVE  usage = 2 * Cardinality({t \in Transport : Active(t)})
    BY DEF UsageCounted, Step
  <2> DEFINE A == {t \in Transport : exists[t]}
  <2>1. \A t \in Transport, d \in Dir : inited[t][d] <=> exists[t]
    BY DEF SrtpInv, ThreadHas
  <2>2. Counted = A \X Dir
    <3>1. ASSUME NEW s \in Transport \X Dir
          PROVE  s \in Counted <=> s \in A \X Dir
      BY <2>1 DEF Counted
    <3>2. Counted \subseteq Transport \X Dir /\ A \X Dir \subseteq Transport \X Dir
      BY DEF Counted
    <3> QED BY <3>1, <3>2
  <2>3. IsFiniteSet(A)
    BY FS_Subset, SrtpAssumption
  <2>4. Cardinality(Counted) = Cardinality(A) * 2 /\ Cardinality(A) \in Nat
    BY <2>2, <2>3, SessionsFinite, FS_Product, FS_CardinalityType
  <2>5. A = {t \in Transport : Active(t)}
    BY DEF Active
  <2> HIDE DEF A
  <2> QED BY <2>4, <2>5 DEF SrtpInv
<1>4. BothKeysOrNone
  BY <1>1 DEF BothKeysOrNone, SrtpInv, ThreadHas, Step, Active
<1> QED BY <1>2, <1>3, <1>4 DEF SessionsSound


-----------------------------------------------------------------------------
(* The socket *)

\* The packet in hand is the last of the queue, behind whatever is in the list.
LEMMA BehindList ==
  ASSUME NEW S, NEW s \in Seq(S), NEW p \in S
  PROVE  /\ Append(s, p) \in Seq(S) /\ Append(s, p) # << >>
         /\ s # << >> => /\ Tail(s) \in Seq(S) /\ Head(s) \in S
                         /\ Tail(Append(s, p)) = Append(Tail(s), p)
                         /\ Head(Append(s, p)) = Head(s)
         /\ s = << >> => Tail(Append(s, p)) = << >> /\ Head(Append(s, p)) = p
<1>1. Append(s, p) \in Seq(S) /\ Append(s, p) # << >> /\ Len(Append(s, p)) = Len(s) + 1
  <2>1. Append(s, p) \in Seq(S) /\ Len(Append(s, p)) = Len(s) + 1 /\ Len(s) \in Nat
    OBVIOUS
  <2>2. Len(s) + 1 # 0 /\ Len(<< >>) = 0
    BY <2>1
  <2> QED BY <2>1, <2>2
<1>2. ASSUME s # << >>
      PROVE  /\ Tail(s) \in Seq(S) /\ Head(s) \in S
             /\ Tail(Append(s, p)) = Append(Tail(s), p)
             /\ Head(Append(s, p)) = Head(s)
  <2>1. Tail(s) \in Seq(S) /\ Head(s) \in S /\ Head(Append(s, p)) = Head(s)
    BY <1>2
  <2>2. Len(Tail(s)) = Len(s) - 1 /\ Len(s) \in Nat \ {0}
    BY <1>2
  <2>3. /\ Tail(Append(s, p)) \in Seq(S) /\ Append(Tail(s), p) \in Seq(S)
        /\ Len(Tail(Append(s, p))) = Len(s) /\ Len(Append(Tail(s), p)) = Len(s)
    BY <1>1, <2>1, <2>2
  <2>4. \A i \in 1..Len(s) : Tail(Append(s, p))[i] = Append(Tail(s), p)[i]
    <3> SUFFICES ASSUME NEW i \in 1..Len(s)
                 PROVE  Tail(Append(s, p))[i] = Append(Tail(s), p)[i]
      OBVIOUS
    <3>1. Tail(Append(s, p))[i] = Append(s, p)[i + 1]
      BY <1>1
    <3>2. CASE i < Len(s)
      <4>1. i \in 1..Len(Tail(s)) /\ i + 1 \in 1..Len(s)
        BY <2>2, <3>2
      <4>2. Append(Tail(s), p)[i] = Tail(s)[i]
        BY <2>1, <4>1
      <4>3. Tail(s)[i] = s[i + 1]
        BY <1>2, <4>1
      <4>4. Append(s, p)[i + 1] = s[i + 1]
        BY <4>1
      <4> QED BY <3>1, <4>2, <4>3, <4>4
    <3>3. CASE i = Len(s)
      <4>1. i = Len(Tail(s)) + 1
        BY <2>2, <3>3
      <4>2. Append(Tail(s), p)[i] = p
        BY <2>1, <4>1
      <4>3. Append(s, p)[i + 1] = p
        BY <3>3
      <4> QED BY <3>1, <4>2, <4>3
    <3>4. \A m \in Nat : \A j \in 1..m : j < m \/ j = m
      OBVIOUS
    <3> QED BY <2>2, <3>2, <3>3, <3>4
  <2>5. Tail(Append(s, p)) = Append(Tail(s), p)
    BY <2>3, <2>4, SeqEqual
  <2> QED BY <2>1, <2>5
<1>3. ASSUME s = << >>
      PROVE  Tail(Append(s, p)) = << >> /\ Head(Append(s, p)) = p
  BY <1>3
<1> QED BY <1>1, <1>2, <1>3


\* Each step of the socket keeps its invariant and is a step of LossyQueue or none.
LEMMA SocketKept ==
  ASSUME UdpInv, UNCHANGED <<list, hand, wire>>,
         Poll \/ Callback \/ RecvEnd \/ RecvOnly \/ Transmit \/ \E d \in Datagram : Arrive(d)
  PROVE  UdpInv' /\ UNCHANGED Abstract!qVars
<1>1. UNCHANGED Abstract!qVars
  BY DEF Abstract!qVars, Queued
<1>2. CASE Poll
  <2>1. Ready \subseteq events
    BY DEF Ready
  <2> QED BY <1>1, <1>2, <2>1 DEF Poll, UdpInv, UdpTypeOK, HandHeld
<1>3. CASE Callback
  BY <1>1, <1>3 DEF Callback, UdpInv, UdpTypeOK, HandHeld
<1>4. CASE RecvEnd
  <2>1. inq' \in Seq(Datagram) /\ Len(inq') =< RcvRoom
    BY <1>4, UdpAssumption DEF RecvEnd, UdpInv, UdpTypeOK
  <2>2. at' \in {"list", "loop"} /\ rev' \subseteq {"READ", "WRITE"} /\ at = "recv"
    BY <1>4 DEF RecvEnd, RecvDone, UdpInv, UdpTypeOK
  <2> QED BY <1>1, <1>4, <2>1, <2>2 DEF RecvEnd, UdpInv, UdpTypeOK, HandHeld
<1>5. CASE RecvOnly
  <2>1. inq' \in Seq(Datagram) /\ Len(inq') =< RcvRoom
    BY <1>5, UdpAssumption DEF RecvOnly, UdpInv, UdpTypeOK
  <2> QED BY <1>1, <1>5, <2>1 DEF RecvOnly, UdpInv, UdpTypeOK, HandHeld
<1>6. CASE Transmit
  <2>1. free' \in 0..Room
    BY <1>6, UdpAssumption DEF Transmit, UdpInv, UdpTypeOK
  <2> QED BY <1>1, <1>6, <2>1 DEF Transmit, UdpInv, UdpTypeOK, HandHeld
<1>7. CASE \E d \in Datagram : Arrive(d)
  <2>1. inq' \in Seq(Datagram) /\ Len(inq') =< RcvRoom
    BY <1>7, UdpAssumption DEF Arrive, UdpInv, UdpTypeOK
  <2> QED BY <1>1, <1>7, <2>1 DEF Arrive, UdpInv, UdpTypeOK, HandHeld
<1> QED BY <1>2, <1>3, <1>4, <1>5, <1>6, <1>7

\* send_to() takes a packet: it is offered to the queue.
LEMMA SocketOffers ==
  ASSUME UdpInv, NEW p \in Packet, SendTo(p) \/ RecvAndSend(p)
  PROVE  UdpInv' /\ Abstract!QNext
<1>1. /\ hand = None /\ hand' = p /\ list' = list /\ wire' = wire /\ p # None
      /\ at' = "list"
  BY UdpAssumption DEF SendTo, RecvAndSend, UdpInv, HandHeld
<1>2. Queued' = Append(Queued, p)
  BY <1>1 DEF Queued
<1>3. Abstract!QNext
  BY <1>1, <1>2 DEF Abstract!QNext, Abstract!Offer
<1>4. inq' \in Seq(Datagram) /\ Len(inq') =< RcvRoom
  <2>1. inq \in Seq(Datagram) /\ Len(inq) =< RcvRoom /\ RcvRoom \in Nat
    BY UdpAssumption DEF UdpInv, UdpTypeOK
  <2>2. inq' = inq \/ (inq # << >> /\ inq' = Tail(inq))
    BY DEF SendTo, RecvAndSend
  <2> QED BY <2>1, <2>2
<1>5. back' \in {"loop", "recv"} /\ UNCHANGED <<events, pend, rev, free, gone>>
  BY DEF SendTo, RecvAndSend
<1> QED BY <1>1, <1>3, <1>4, <1>5 DEF UdpInv, UdpTypeOK, HandHeld


\* SEND_AGAIN queues the packet in hand: for the queue nothing happens beyond what
\* happened to the list.
LEMMA SocketEnqueues ==
  ASSUME UdpInv, NEW l \in Seq(Packet), hand # None, Enqueue(l), at \in {"list", "direct"},
         wire' = wire, UNCHANGED <<back, free, inq>>, gone' \in Nat
  PROVE  UdpInv' /\ Queued' = Append(l, hand)
<1>1. /\ list' = Append(l, hand) /\ hand' = None /\ at' = back /\ rev' = rev
      /\ events' = events \cup {"WRITE"} /\ pend' \in {pend, {}}
  BY DEF Enqueue, StartIo
<1>2. hand \in Packet
  BY DEF UdpInv, UdpTypeOK
<1>3. list' \in Seq(Packet)
  BY <1>1, <1>2
<1>4. Queued' = Append(l, hand)
  BY <1>1 DEF Queued
<1>5. events' \subseteq {"READ", "WRITE"} /\ pend' \subseteq events'
  BY <1>1 DEF UdpInv, UdpTypeOK
<1> QED BY <1>1, <1>3, <1>4, <1>5 DEF UdpInv, UdpTypeOK, HandHeld

\* send_data() returns with l left.
LEMMA SocketFlushed ==
  ASSUME UdpInv, NEW l \in Seq(Packet), hand = None, Flushed(l),
         wire' = wire, UNCHANGED <<back, free, inq>>, gone' \in Nat
  PROVE  UdpInv' /\ Queued' = l
<1>1. /\ list' = l /\ at' = "loop" /\ rev' = {} /\ hand' = hand
      /\ events' \in {events, events \ {"WRITE"}} /\ (pend' = {} \/ UNCHANGED <<events, pend>>)
  BY DEF Flushed, StopIo
<1>2. ASSUME UNCHANGED <<events, pend>> PROVE events' \subseteq {"READ", "WRITE"} /\ pend' \subseteq events'
  BY <1>2 DEF UdpInv, UdpTypeOK
<1>3. ASSUME pend' = {} PROVE events' \subseteq {"READ", "WRITE"} /\ pend' \subseteq events'
  BY <1>1, <1>3 DEF UdpInv, UdpTypeOK
<1>4. Queued' = l
  BY <1>1 DEF Queued
<1> QED BY <1>1, <1>2, <1>3, <1>4 DEF UdpInv, UdpTypeOK, HandHeld

\* The steps of _send_data_from_list() and of sendto() on the packet in hand.
LEMMA SocketSends ==
  ASSUME UdpInv, ListAgain \/ ListError \/ ListSent \/ ListEmpty \/ Direct \/ DirectAgain
  PROVE  UdpInv' /\ [Abstract!QNext]_(Abstract!qVars)
<1>1. /\ list \in Seq(Packet) /\ wire \in Seq(Packet) /\ hand \in Packet \cup {None}
      /\ free \in 0..Room /\ Room \in Nat /\ gone \in Nat /\ None \notin Packet
      /\ back \in {"loop", "recv"}
  BY UdpAssumption DEF UdpInv, UdpTypeOK
<1>2. CASE ListAgain
  <2>1. /\ at = "list" /\ ListFalse(list) /\ UNCHANGED <<back, free, inq, wire, gone>>
    BY <1>2 DEF ListAgain
  <2>2. UdpInv' /\ Queued' = Queued
    BY <1>1, <2>1, SocketEnqueues, SocketFlushed DEF ListFalse, Queued
  <2> QED BY <2>1, <2>2 DEF Abstract!qVars
<1>3. CASE ListError
  <2>1. /\ at = "list" /\ list # << >> /\ ListFalse(Tail(list)) /\ UNCHANGED <<back, free, inq, wire>>
        /\ gone' = gone + 1
    BY <1>3 DEF ListError
  <2>2. Tail(list) \in Seq(Packet) /\ gone' \in Nat
    BY <1>1, <2>1
  <2>3. /\ UdpInv'
        /\ Queued' = IF hand = None THEN Tail(list) ELSE Append(Tail(list), hand)
    BY <2>1, <2>2, SocketEnqueues, SocketFlushed DEF ListFalse
  <2>4. Queued' = Tail(Queued) /\ Queued # << >>
    <3>1. CASE hand = None
      BY <2>1, <2>3, <3>1 DEF Queued
    <3>2. CASE hand # None
      <4>1. Queued = Append(list, hand) /\ Queued' = Append(Tail(list), hand)
        BY <2>3, <3>2 DEF Queued
      <4>2. hand \in Packet
        BY <1>1, <3>2
      <4> QED BY <1>1, <2>1, <4>1, <4>2, BehindList
    <3> QED BY <3>1, <3>2
  <2> QED BY <2>1, <2>3, <2>4 DEF Abstract!QNext, Abstract!Drop
<1>4. CASE ListSent
  <2>1. /\ at = "list" /\ list # << >> /\ free > 0 /\ list' = Tail(list) /\ free' = free - 1
        /\ wire' = Append(wire, Head(list)) /\ gone' = gone + 1
        /\ UNCHANGED <<events, pend, rev, at, hand, back, inq>>
    BY <1>4 DEF ListSent
  <2>2. /\ Tail(list) \in Seq(Packet) /\ Head(list) \in Packet
        /\ free' \in 0..Room /\ gone' \in Nat
    BY <1>1, <2>1
  <2>3. wire' \in Seq(Packet)
    BY <1>1, <2>1, <2>2
  <2>4. UdpInv'
    BY <2>1, <2>2, <2>3 DEF UdpInv, UdpTypeOK, HandHeld
  <2>5. Queued' = Tail(Queued) /\ Queued # << >> /\ Head(Queued) = Head(list)
    <3>1. CASE hand = None
      BY <2>1, <3>1 DEF Queued
    <3>2. CASE hand # None
      <4>1. Queued = Append(list, hand) /\ Queued' = Append(Tail(list), hand)
        BY <2>1, <3>2 DEF Queued
      <4>2. hand \in Packet
        BY <1>1, <3>2
      <4> QED BY <1>1, <2>1, <4>1, <4>2, BehindList
    <3> QED BY <3>1, <3>2
  <2> QED BY <2>1, <2>4, <2>5 DEF Abstract!QNext, Abstract!Deliver
<1>5. CASE ListEmpty
  <2>1. /\ at = "list" /\ list = << >> /\ UNCHANGED <<back, free, inq, wire, gone>>
        /\ IF hand = None THEN Flushed(<< >>)
           ELSE at' = "direct" /\ UNCHANGED <<list, events, pend, rev, hand>>
    BY <1>5 DEF ListEmpty
  <2>2. CASE hand = None
    <3>1. << >> \in Seq(Packet) /\ gone' \in Nat
      BY <1>1, <2>1
    <3>2. UdpInv' /\ Queued' = << >>
      BY <2>1, <2>2, <3>1, SocketFlushed
    <3> QED BY <2>1, <2>2, <3>2 DEF Abstract!qVars, Queued
  <2>3. CASE hand # None
    BY <1>1, <2>1, <2>3 DEF Abstract!qVars, Queued, UdpInv, UdpTypeOK, HandHeld
  <2> QED BY <2>2, <2>3
<1>6. CASE Direct
  <2>1. /\ at = "direct" /\ gone' = gone + 1 /\ hand' = None /\ at' = back
        /\ UNCHANGED <<list, events, pend, rev, back, inq>>
        /\ \/ free > 0 /\ wire' = Append(wire, hand) /\ free' = free - 1
           \/ UNCHANGED <<wire, free>>
    BY <1>6 DEF Direct
  <2>2. list = << >> /\ hand # None /\ hand \in Packet
    BY <1>1, <2>1 DEF UdpInv, HandHeld
  <2>3. free' \in 0..Room /\ gone' \in Nat
    BY <1>1, <2>1
  <2>4. Append(wire, hand) \in Seq(Packet)
    BY <1>1, <2>2
  <2>5. wire' \in Seq(Packet)
    BY <1>1, <2>1, <2>4
  <2>6. UdpInv'
    BY <1>1, <2>1, <2>2, <2>3, <2>5 DEF UdpInv, UdpTypeOK, HandHeld
  <2>7. Queued' = << >>
    BY <2>1, <2>2 DEF Queued
  <2>8. Queued # << >> /\ Tail(Queued) = << >> /\ Head(Queued) = hand
    BY <1>1, <2>2, BehindList DEF Queued
  <2> QED BY <2>1, <2>6, <2>7, <2>8 DEF Abstract!QNext, Abstract!Deliver, Abstract!Drop
<1>7. CASE DirectAgain
  <2>1. at = "direct" /\ Enqueue(list) /\ UNCHANGED <<back, free, inq, wire, gone>>
    BY <1>7 DEF DirectAgain
  <2>2. hand # None
    BY <2>1 DEF UdpInv, HandHeld
  <2>3. UdpInv' /\ Queued' = Append(list, hand)
    BY <1>1, <2>1, <2>2, SocketEnqueues
  <2> QED BY <2>1, <2>2, <2>3 DEF Abstract!qVars, Queued
<1> QED BY <1>2, <1>3, <1>4, <1>5, <1>6, <1>7


-----------------------------------------------------------------------------
(* The path *)

\* What senders keep to is enough to tell media apart by two bytes.
LEMMA MediaToldApart ==
  ASSUME NEW d \in Datagram, NEW kind \in {"rtp", "rtcp"}, Kind(d) = kind, d.hs # 0
  PROVE  d.is = kind
<1>1. Infer(d) = kind
  BY DEF Kind
<1>2. d.is \in {"rtp", "rtcp"}
  BY DatagramAssumption
<1>3. CASE kind = "rtp"
  <2>1. ~ Reserved(d.b1 % 128)
    BY <1>1, <1>3 DEF Infer
  <2> QED BY <1>2, <1>3, <2>1, DatagramAssumption
<1>4. CASE kind = "rtcp"
  <2>1. Reserved(d.b1 % 128)
    BY <1>1, <1>4 DEF Infer
  <2> QED BY <1>2, <1>4, <2>1, DatagramAssumption
<1> QED BY <1>3, <1>4

\* The sessions' invariant speaks of their variables only.
LEMMA SrtpKept ==
  ASSUME SrtpInv, UNCHANGED srtpVars PROVE SrtpInv'
<1>1. UNCHANGED <<usage, lib, exists, inited, key, tags, spc, setups>>
  BY DEF srtpVars
<1>2. Counted' = Counted
  BY <1>1 DEF Counted
<1>3. ASSUME NEW t \in Transport PROVE ThreadHas(t)'
  BY <1>1, ThreadKept DEF SrtpInv
<1>4. SrtpTypeOK'
  BY <1>1 DEF SrtpInv, SrtpTypeOK
<1> QED BY <1>1, <1>2, <1>3, <1>4 DEF SrtpInv

\* So does that of the socket, and what it says of the queue.
LEMMA UdpKept ==
  ASSUME UdpInv, UNCHANGED udpVars PROVE UdpInv' /\ UNCHANGED Abstract!qVars
BY DEF UdpInv, UdpTypeOK, HandHeld, udpVars, Queued, Abstract!qVars

\* The initial state.
LEMMA PathInit ==
  ASSUME Init PROVE IInv /\ Abstract!QInit
<1>1. UdpInv /\ Abstract!QInit
  <2>1. << >> \in Seq(Packet) /\ << >> \in Seq(Datagram) /\ Len(<< >>) = 0
    OBVIOUS
  <2>2. Room \in 0..Room /\ 0 =< RcvRoom
    BY UdpAssumption
  <2> QED BY <2>1, <2>2 DEF Init, UdpInit, UdpInv, UdpTypeOK, HandHeld, Queued, Abstract!QInit
<1>2. SrtpInv
  <2>1. "send" \in Dir /\ (CHOOSE s \in Suite : TRUE) \in Suite /\ 0 \in 0..MaxSetups
    BY SrtpAssumption DEF Dir
  <2>2. /\ IdlePc = [step |-> "idle", dir |-> "send", hs |-> 0, cs |-> CHOOSE s \in Suite : TRUE]
        /\ IdlePc \in [step : {"idle", "count", "key", "dealloc", "uncount"},
                       dir : Dir, hs : 0..MaxSetups, cs : Suite]
        /\ IdlePc.step = "idle"
    BY <2>1 DEF IdlePc, At
  <2>3. SrtpTypeOK
    BY <2>1, <2>2 DEF Init, SrtpInit, SrtpTypeOK
  <2>4. ASSUME NEW t \in Transport PROVE ThreadHas(t)
    BY <2>2 DEF Init, SrtpInit, ThreadHas
  <2>5. Counted = {}
    BY DEF Counted, Init, SrtpInit
  <2>6. Cardinality(Counted) = 0 /\ usage = 0
    BY <2>5, FS_EmptySet DEF Init, SrtpInit
  <2> QED BY <2>3, <2>4, <2>6 DEF SrtpInv
<1>3. n \in 0..MaxPackets /\ arrivals \in 0..MaxArrivals /\ up = None
  BY MediaAssumption DEF Init
<1> QED BY <1>1, <1>2, <1>3 DEF IInv, TypeOK, UdpInv, SrtpInv, Demultiplexed


\* What send_rtp(), send_rtcp() and the answers hand to send_to() is a packet.
LEMMA PacketSent ==
  ASSUME TypeOK, n < MaxPackets, n' = n + 1, NEW hs \in 0..MaxSetups
  PROVE  [hs |-> hs, id |-> n + 1] \in Packet /\ n' \in 0..MaxPackets
<1>1. n + 1 \in 1..MaxPackets
  BY MediaAssumption DEF TypeOK
<1> QED BY <1>1, MediaAssumption DEF PacketType

\* A step that leaves to the sessions and to the socket what is theirs keeps the rest.
LEMMA PathTyped ==
  ASSUME TypeOK, UdpInv', SrtpInv', n' \in 0..MaxPackets, arrivals' \in 0..MaxArrivals,
         up' = None \/ (up' = up /\ Demultiplexed)
  PROVE  IInv'
BY DEF IInv, TypeOK, UdpInv, SrtpInv, Demultiplexed

\* Every step of the path keeps its invariant and is one of LossyQueue or none.
LEMMA PathStep ==
  ASSUME IInv, [Next]_vars
  PROVE  IInv' /\ [Abstract!QNext]_(Abstract!qVars)
<1>1. /\ TypeOK /\ UdpInv /\ SrtpInv /\ Demultiplexed
      /\ n \in 0..MaxPackets /\ arrivals \in 0..MaxArrivals
  BY DEF IInv, TypeOK
<1>2. CASE Udp
  <2>1. /\ UdpStep /\ up' = None /\ UNCHANGED srtpVars /\ UNCHANGED <<n, arrivals>>
    BY <1>2 DEF Udp
  <2>2. SrtpInv'
    BY <1>1, <2>1, SrtpKept
  <2>3. UdpInv' /\ [Abstract!QNext]_(Abstract!qVars)
    <3>1. Poll \/ Callback \/ RecvEnd => UNCHANGED <<list, hand, wire>>
      BY DEF Poll, Callback, RecvEnd
    <3> QED BY <1>1, <2>1, <3>1, SocketKept, SocketSends DEF UdpStep
  <2> QED BY <1>1, <2>1, <2>2, <2>3, PathTyped
<1>3. CASE Kernel
  <2>1. Transmit /\ UNCHANGED srtpVars /\ UNCHANGED <<n, arrivals, up, list, hand, wire>>
    BY <1>3 DEF Kernel, Transmit
  <2>2. SrtpInv' /\ UdpInv' /\ UNCHANGED Abstract!qVars
    BY <1>1, <2>1, SrtpKept, SocketKept
  <2> QED BY <1>1, <2>1, <2>2, PathTyped
<1>4. ASSUME NEW d \in Datagram, Client(d) PROVE IInv' /\ [Abstract!QNext]_(Abstract!qVars)
  <2>1. /\ arrivals < MaxArrivals /\ arrivals' = arrivals + 1 /\ Arrive(d)
        /\ UNCHANGED srtpVars /\ UNCHANGED <<n, up, list, hand, wire>>
    BY <1>4 DEF Client, Arrive
  <2>2. SrtpInv' /\ UdpInv' /\ UNCHANGED Abstract!qVars
    BY <1>1, <2>1, SrtpKept, SocketKept
  <2>3. arrivals' \in 0..MaxArrivals
    BY <1>1, <2>1, MediaAssumption
  <2> QED BY <1>1, <2>1, <2>2, <2>3, PathTyped
<1>5. ASSUME NEW t \in Transport, Srtp(t) \/ Other(t)
      PROVE  IInv' /\ [Abstract!QNext]_(Abstract!qVars)
  <2>1. /\ SrtpStep(t) \/ Reset(t) \/ \E cs \in Suite : Setup(t, cs)
        /\ UNCHANGED udpVars /\ UNCHANGED <<n, arrivals, up>>
    BY <1>5 DEF Srtp, Other
  <2>2. SrtpInv' /\ UdpInv' /\ UNCHANGED Abstract!qVars
    BY <1>1, <2>1, SrtpStepInv, UdpKept
  <2> QED BY <1>1, <2>1, <2>2, PathTyped
<1>6. ASSUME NEW kind \in {"rtp", "rtcp"}, NEW len \in Length, Forward(kind, len)
      PROVE  IInv' /\ [Abstract!QNext]_(Abstract!qVars)
  <2> DEFINE p == [hs |-> key[Self]["send"], id |-> n + 1]
  <2>1. /\ n < MaxPackets /\ n' = n + 1 /\ SendTo(p) /\ UNCHANGED srtpVars
        /\ UNCHANGED <<arrivals, up>>
    BY <1>6 DEF Forward, SendPacket
  <2>2. key[Self]["send"] \in 0..MaxSetups
    BY <1>1, MediaAssumption DEF SrtpInv, SrtpTypeOK, Dir
  <2>3. p \in Packet /\ n' \in 0..MaxPackets
    BY <1>1, <2>1, <2>2, PacketSent
  <2> HIDE DEF p
  <2>4. SrtpInv' /\ UdpInv' /\ Abstract!QNext
    BY <1>1, <2>1, <2>3, SrtpKept, SocketOffers
  <2> QED BY <1>1, <2>1, <2>3, <2>4, PathTyped
<1>7. ASSUME NEW kind \in {"stun", "dtls"}, Answer(kind)
      PROVE  IInv' /\ [Abstract!QNext]_(Abstract!qVars)
  <2> DEFINE p == [hs |-> 0, id |-> n + 1]
  <2>1. /\ n < MaxPackets /\ n' = n + 1 /\ RecvAndSend(p) /\ UNCHANGED srtpVars
        /\ UNCHANGED <<arrivals, up>>
    BY <1>7 DEF Answer
  <2>2. 0 \in 0..MaxSetups
    BY SrtpAssumption
  <2>3. p \in Packet /\ n' \in 0..MaxPackets
    BY <1>1, <2>1, <2>2, PacketSent
  <2> HIDE DEF p
  <2>4. SrtpInv' /\ UdpInv' /\ Abstract!QNext
    BY <1>1, <2>1, <2>3, SrtpKept, SocketOffers
  <2> QED BY <1>1, <2>1, <2>3, <2>4, PathTyped
<1>8. ASSUME RecvOnly PROVE UdpInv' /\ UNCHANGED Abstract!qVars
  <2>1. UNCHANGED <<list, hand, wire>>
    BY <1>8 DEF RecvOnly
  <2> QED BY <1>1, <1>8, <2>1, SocketKept
<1>9. ASSUME (\E cs \in Suite : DtlsSetup(cs)) \/ DtlsReset
      PROVE  IInv' /\ [Abstract!QNext]_(Abstract!qVars)
  <2>1. /\ RecvOnly /\ (Reset(Self) \/ \E cs \in Suite : Setup(Self, cs))
        /\ UNCHANGED <<n, arrivals, up>> /\ Self \in Transport
    BY <1>9, MediaAssumption DEF DtlsSetup, DtlsReset
  <2>2. SrtpInv'
    BY <1>1, <2>1, SrtpStepInv
  <2> QED BY <1>1, <1>8, <2>1, <2>2, PathTyped
<1>10. ASSUME NEW kind \in {"stun", "dtls", "unknown"}, Ignore(kind)
       PROVE  IInv' /\ [Abstract!QNext]_(Abstract!qVars)
  <2>1. RecvOnly /\ UNCHANGED srtpVars /\ UNCHANGED <<n, arrivals, up>>
    BY <1>10 DEF Ignore
  <2>2. SrtpInv'
    BY <1>1, <2>1, SrtpKept
  <2> QED BY <1>1, <1>8, <2>1, <2>2, PathTyped
<1>11. ASSUME NEW kind \in {"rtp", "rtcp"}, Media(kind)
       PROVE  IInv' /\ [Abstract!QNext]_(Abstract!qVars)
  <2> DEFINE d == Head(inq)
  <2>1. /\ RecvOnly /\ UNCHANGED srtpVars /\ UNCHANGED <<n, arrivals>>
        /\ inq # << >> /\ Kind(d) = kind
        /\ up' = IF Unprotects(d) THEN [is |-> d.is, as |-> kind] ELSE None
    BY <1>11 DEF Media, Reading
  <2>2. d \in Datagram
    BY <1>1, <2>1 DEF UdpInv, UdpTypeOK
  <2>3. SrtpInv' /\ UdpInv' /\ UNCHANGED Abstract!qVars
    BY <1>1, <1>8, <2>1, SrtpKept
  <2>4. Unprotects(d) => d.is = kind
    BY <2>1, <2>2, MediaToldApart DEF Unprotects
  <2> HIDE DEF d
  <2>5. /\ up' \in [is : {e.is : e \in Datagram}, as : {"rtp", "rtcp"}] \cup {None}
        /\ Demultiplexed'
    BY <2>1, <2>2, <2>4 DEF Demultiplexed
  <2> QED BY <1>1, <2>1, <2>3, <2>5 DEF IInv, TypeOK, UdpInv, SrtpInv
<1>12. CASE UNCHANGED vars
  <2>1. UNCHANGED udpVars /\ UNCHANGED srtpVars /\ UNCHANGED <<n, arrivals, up>>
    BY <1>12 DEF vars, udpVars, srtpVars
  <2>2. SrtpInv' /\ UdpInv' /\ UNCHANGED Abstract!qVars
    BY <1>1, <2>1, SrtpKept, UdpKept
  <2> QED BY <1>1, <2>1, <2>2, PathTyped
<1> QED BY <1>2, <1>3, <1>4, <1>5, <1>6, <1>7, <1>9, <1>10, <1>11, <1>12 DEF Next

\* The buffers of send_rtp() and send_rtcp() are exactly as long as what libsrtp writes.
LEMMA PathIntact ==
  ASSUME IInv PROVE MediaIntact
<1>1. ASSUME NEW kind \in {"rtp", "rtcp"}, NEW len \in Length
      PROVE  Written(kind, len, SendSuite) =< Capacity(kind, len, SendSuite)
  <2>1. SendSuite \in Suite
    BY MediaAssumption DEF IInv, TypeOK, SrtpTypeOK, SendSuite, Dir
  <2>2. len \in Nat /\ RtpTag[SendSuite] \in Nat /\ RtcpTag[SendSuite] \in Nat
    BY <2>1, MediaAssumption, SrtpAssumption
  <2> QED BY <2>2 DEF Written, Capacity
<1> QED BY <1>1 DEF IInv, MediaIntact, NoOverrun

-----------------------------------------------------------------------------
(* Theorems *)

\* The inductive invariant of the media path holds in every state.
THEOREM MediaInvariance == Spec => []IInv
<1>1. Init => IInv
  BY PathInit
<1>2. IInv /\ [Next]_vars => IInv'
  BY PathStep
<1> QED BY <1>1, <1>2, PTL DEF Spec

\* However many threads set their SRTP sessions up and reset them at once, libsrtp is up
\* for each that uses it, its users are counted exactly, and half a set of keys is never seen.
THEOREM SessionsStaySound == Spec => []SessionsSound
<1>1. IInv => SessionsSound
  BY SrtpInvSound DEF IInv
<1> QED BY <1>1, MediaInvariance, PTL

\* For every suite and every length of packet the encryption stays within the buffer that
\* send_rtp() and send_rtcp() allocate, and no media packet goes up as the other kind.
THEOREM MediaStaysIntact == Spec => []MediaIntact
<1>1. IInv => MediaIntact
  BY PathIntact
<1> QED BY <1>1, MediaInvariance, PTL

\* AsyncUdpSocket with its list, its direct path and its write events, used by all layers
\* above it, is a queue that may drop a packet when it is its turn and never lets one
\* overtake another.
THEOREM SocketIsLossyQueue == Spec => ImplementsLossyQueue
<1>1. Init => Abstract!QInit
  BY PathInit
<1>2. IInv /\ [Next]_vars => [Abstract!QNext]_(Abstract!qVars)
  BY PathStep
<1> QED BY <1>1, <1>2, MediaInvariance, PTL DEF Spec, ImplementsLossyQueue, Abstract!QSpec
=============================================================================
