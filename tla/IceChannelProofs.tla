--------------------------- MODULE IceChannelProofs ---------------------------
(***************************************************************************)
(* Channel, controller and memory agree on the connections there are, what  *)
(* was announced is current, and the checks start: for any number of        *)
(* addresses, connections and round trip times.                             *)
(*                                                                         *)
(* A handler is a composition of functions on the state.  Each function has *)
(* a lemma that says what it keeps of Sound and what it changes in memory;  *)
(* the handlers' lemmas follow their composition.  The list is sorted in    *)
(* most of them, so the first thing to show is that sorting permutes it.    *)
(***************************************************************************)
EXTENDS IceChannel, FiniteSetTheorems, WellFoundedInduction, TLAPS

-----------------------------------------------------------------------------
(* Sorting *)

\* _compare_connections() is a strict weak order: nothing is better than itself, and what
\* is better than a third is better than any connection that is not.
LEMMA BetterOrder ==
  ASSUME NEW x \in Connection, NEW y \in Connection, NEW z \in Connection
  PROVE  /\ ~ Better(x, x)
         /\ Better(x, y) /\ Better(y, z) => Better(x, z)
         /\ Better(x, z) => Better(x, y) \/ Better(y, z)
<1> DEFINE p(k) == Priority[k.addr]
           w(k) == Rank[k.write]
<1>1. \A k \in Connection : p(k) \in Nat /\ k.rtt \in Nat /\ k.recv \in BOOLEAN
  BY IceAssumption DEF Connection
<1>2. \A k \in Connection : w(k) \in Nat
  BY DEF Connection, Write, Rank
<1>3. \A k, l \in Connection : k.write = l.write <=> w(k) = w(l)
  BY DEF Connection, Write, Rank
<1> DEFINE B(k, l) == \/ w(k) < w(l)
                      \/ /\ w(k) = w(l)
                         /\ \/ k.recv /\ ~ l.recv
                            \/ /\ k.recv = l.recv
                               /\ \/ p(k) > p(l)
                                  \/ p(k) = p(l) /\ k.rtt < l.rtt
<1>4. \A k, l \in Connection : Better(k, l) <=> B(k, l)
  BY <1>3 DEF Better
<1> HIDE DEF p, w
<1>5. ~ B(x, x)
  BY <1>1, <1>2
<1>6. B(x, y) /\ B(y, z) => B(x, z)
  BY <1>1, <1>2
<1>7. B(x, z) => B(x, y) \/ B(y, z)
  BY <1>1, <1>2
<1> QED BY <1>4, <1>5, <1>6, <1>7

\* Of two places one is ahead of the other, never both, and what is ahead of a place that
\* is ahead of a third is ahead of the third.
LEMMA AheadOrder ==
  ASSUME NEW m, NEW l, DOMAIN l \subseteq Nat, \A i \in DOMAIN l : m[l[i]] \in Connection,
         NEW i \in DOMAIN l, NEW j \in DOMAIN l
  PROVE  /\ i \notin Ahead(m, l, i)
         /\ i # j => i \in Ahead(m, l, j) \/ j \in Ahead(m, l, i)
         /\ i \in Ahead(m, l, j) => Ahead(m, l, i) \subseteq Ahead(m, l, j)
<1> DEFINE B(a, b) == Better(m[l[a]], m[l[b]])
<1>1. \A a, b, c \in DOMAIN l : /\ ~ B(a, a)
                                /\ B(a, b) /\ B(b, c) => B(a, c)
                                /\ B(a, c) => B(a, b) \/ B(b, c)
  BY BetterOrder
<1>2. \A a, b \in DOMAIN l : a \in Ahead(m, l, b) <=> B(a, b) \/ (a < b /\ ~ B(b, a))
  BY DEF Ahead
<1>3. \A a, b : a \in Ahead(m, l, b) => a \in DOMAIN l
  BY DEF Ahead
<1> HIDE DEF B
<1>4. i \notin Ahead(m, l, i)
  BY <1>1, <1>2
<1>5. i # j => i \in Ahead(m, l, j) \/ j \in Ahead(m, l, i)
  BY <1>1, <1>2
<1>6. ASSUME i \in Ahead(m, l, j), NEW k \in Ahead(m, l, i) PROVE k \in Ahead(m, l, j)
  <2>1. k \in DOMAIN l /\ k \in Nat /\ i \in Nat /\ j \in Nat
    BY <1>3
  <2>2. B(i, j) \/ (i < j /\ ~ B(j, i))
    BY <1>2, <1>6
  <2>3. B(k, i) \/ (k < i /\ ~ B(i, k))
    BY <1>2, <1>6, <2>1
  <2>4. B(k, j) \/ (k < j /\ ~ B(j, k))
    BY <1>1, <2>1, <2>2, <2>3
  <2> QED BY <1>2, <2>1, <2>4
<1> QED BY <1>4, <1>5, <1>6

\* So the number of places ahead is a place's own, and every number below the length is one.
LEMMA AheadCounts ==
  ASSUME NEW m, NEW S, NEW l \in Seq(S), \A i \in DOMAIN l : m[l[i]] \in Connection
  PROVE  /\ \A i \in DOMAIN l : Cardinality(Ahead(m, l, i)) + 1 \in DOMAIN l
         /\ \A i, j \in DOMAIN l :
              Cardinality(Ahead(m, l, i)) = Cardinality(Ahead(m, l, j)) => i = j
         /\ \A k \in DOMAIN l : \E i \in DOMAIN l : Cardinality(Ahead(m, l, i)) = k - 1
<1> DEFINE D == DOMAIN l
           C(i) == Cardinality(Ahead(m, l, i))
           f == [i \in D |-> C(i) + 1]
<1>1. D = 1..Len(l) /\ Len(l) \in Nat /\ D \subseteq Nat
  OBVIOUS
<1>2. IsFiniteSet(D) /\ Cardinality(D) = Len(l)
  BY <1>1, FS_Interval
<1>3. \A i \in D : IsFiniteSet(Ahead(m, l, i)) /\ C(i) \in Nat
  <2>1. \A i \in D : Ahead(m, l, i) \in SUBSET D
    BY DEF Ahead
  <2> QED BY <1>2, <2>1, FS_Subset, FS_CardinalityType
<1>4. \A i, j \in D : i \in Ahead(m, l, j) => C(i) < C(j)
  <2> SUFFICES ASSUME NEW i \in D, NEW j \in D, i \in Ahead(m, l, j) PROVE C(i) < C(j)
    OBVIOUS
  <2>1. Ahead(m, l, i) \in SUBSET Ahead(m, l, j) /\ i \notin Ahead(m, l, i)
    BY <1>1, AheadOrder
  <2>2. C(i) =< C(j) /\ C(i) # C(j)
    BY <1>3, <2>1, FS_Subset
  <2> QED BY <1>3, <2>2
<1>5. \A i, j \in D : C(i) = C(j) => i = j
  <2> SUFFICES ASSUME NEW i \in D, NEW j \in D, i # j PROVE C(i) # C(j)
    OBVIOUS
  <2>1. i \in Ahead(m, l, j) \/ j \in Ahead(m, l, i)
    BY <1>1, AheadOrder
  <2> QED BY <1>3, <1>4, <2>1
<1>6. \A i \in D : C(i) + 1 \in D
  <2> SUFFICES ASSUME NEW i \in D PROVE C(i) + 1 \in D
    OBVIOUS
  <2>1. Ahead(m, l, i) \in SUBSET D /\ i \notin Ahead(m, l, i)
    BY <1>1, AheadOrder DEF Ahead
  <2>2. C(i) =< Len(l) /\ C(i) # Len(l)
    BY <1>2, <2>1, FS_Subset
  <2> QED BY <1>1, <1>3, <2>2
<1> HIDE DEF C
<1>7. f \in Injection(D, D)
  BY <1>3, <1>5, <1>6 DEF Injection, IsInjective
<1>8. f \in Surjection(D, D)
  BY <1>2, <1>7, FS_Injection
<1>9. \A k \in D : \E i \in D : C(i) + 1 = k
  BY <1>8 DEF Surjection
<1>10. \A k \in D : \E i \in D : C(i) = k - 1
  BY <1>1, <1>3, <1>9
<1> QED BY <1>5, <1>6, <1>10 DEF C

\* c_stable_sort permutes the list.
LEMMA SortedPermutes ==
  ASSUME NEW m, NEW S, NEW l \in Seq(S), \A i \in DOMAIN l : m[l[i]] \in Connection,
         \A i, j \in DOMAIN l : l[i] = l[j] => i = j
  PROVE  /\ Sorted(m, l) \in Seq(S) /\ DOMAIN Sorted(m, l) = DOMAIN l
         /\ \A i, j \in DOMAIN Sorted(m, l) : Sorted(m, l)[i] = Sorted(m, l)[j] => i = j
         /\ Elements(Sorted(m, l)) = Elements(l)
<1> DEFINE D == DOMAIN l
           C(i) == Cardinality(Ahead(m, l, i))
           P(k) == CHOOSE i \in D : C(i) = k - 1
           s == Sorted(m, l)
<1>1. /\ \A i \in D : C(i) + 1 \in D
      /\ \A i, j \in D : C(i) = C(j) => i = j
      /\ \A k \in D : \E i \in D : C(i) = k - 1
  BY AheadCounts
<1>2. D = 1..Len(l) /\ Len(l) \in Nat
  OBVIOUS
<1>3. \A k \in D : P(k) \in D /\ C(P(k)) = k - 1
  BY <1>1
<1>4. s = [k \in D |-> l[P(k)]]
  BY DEF Sorted
<1>5. \A i \in D : C(i) \in Nat
  <2>1. IsFiniteSet(D)
    BY <1>2, FS_Interval
  <2>2. \A i \in D : Ahead(m, l, i) \in SUBSET D
    BY DEF Ahead
  <2> QED BY <2>1, <2>2, FS_Subset, FS_CardinalityType
<1> HIDE DEF C, P, s
<1>6. \A i \in D : P(C(i) + 1) = i
  BY <1>1, <1>3, <1>5
<1>7. DOMAIN s = D /\ \A k \in D : s[k] = l[P(k)]
  BY <1>4
<1>8. s \in Seq(S)
  <2>1. \A k \in D : l[P(k)] \in S
    BY <1>3
  <2> QED BY <1>2, <1>4, <2>1
<1>9. \A i, j \in D : s[i] = s[j] => i = j
  <2> SUFFICES ASSUME NEW i \in D, NEW j \in D, s[i] = s[j] PROVE i = j
    OBVIOUS
  <2>1. P(i) = P(j)
    BY <1>3, <1>7
  <2>2. i - 1 = j - 1
    BY <1>3, <2>1
  <2> QED BY <1>2, <2>2
<1>10. \A i \in D : \E k \in D : s[k] = l[i]
  BY <1>1, <1>6, <1>7
<1>11. Elements(s) = Elements(l)
  BY <1>3, <1>7, <1>10 DEF Elements
<1> QED BY <1>7, <1>8, <1>9, <1>11 DEF s


-----------------------------------------------------------------------------
(* The list *)

\* erase() of an element that is in the list once.
LEMMA EraseFacts ==
  ASSUME NEW S, NEW l \in Seq(S), NEW c \in Elements(l),
         \A i, j \in DOMAIN l : l[i] = l[j] => i = j
  PROVE  /\ RemoveFirst(l, c) \in Seq(S) /\ Elements(RemoveFirst(l, c)) = Elements(l) \ {c}
         /\ \A i, j \in DOMAIN RemoveFirst(l, c) :
              RemoveFirst(l, c)[i] = RemoveFirst(l, c)[j] => i = j
<1>1. PICK at \in DOMAIN l : l[at] = c
  BY DEF Elements
<1>2. DOMAIN l = 1..Len(l) /\ Len(l) \in Nat /\ at \in Nat /\ at >= 1 /\ at =< Len(l)
  OBVIOUS
<1> DEFINE s == RemoveAt(l, at)
<1>3. RemoveFirst(l, c) = s
  <2>1. {i \in 1..Len(l) : l[i] = c} = {at}
    BY <1>1, <1>2
  <2>2. Min({at}) = at
    BY <1>2 DEF Min
  <2>3. SelectInSeq(l, LAMBDA v : v = c) = at
    BY <2>1, <2>2 DEF SelectInSeq
  <2> QED BY <1>1, <1>2, <2>3 DEF RemoveFirst
<1>4. /\ s \in Seq(S) /\ Len(s) = Len(l) - 1
      /\ \A k \in 1..(Len(l) - 1) : s[k] = IF k < at THEN l[k] ELSE l[k + 1]
  <2> DEFINE a == SubSeq(l, 1, at - 1)
             b == SubSeq(l, at + 1, Len(l))
  <2>1. a \in Seq(S) /\ Len(a) = at - 1 /\ \A k \in 1..(at - 1) : a[k] = l[k]
    BY <1>2
  <2>2. b \in Seq(S) /\ Len(b) = Len(l) - at /\ \A k \in 1..(Len(l) - at) : b[k] = l[at + k]
    BY <1>2
  <2>3. s = a \o b
    BY DEF RemoveAt
  <2> HIDE DEF a, b, s
  <2>4. /\ s \in Seq(S) /\ Len(s) = Len(a) + Len(b)
        /\ \A k \in 1..Len(a) : s[k] = a[k]
        /\ \A k \in 1..Len(b) : s[Len(a) + k] = b[k]
    <3>1. /\ a \o b \in Seq(S) /\ Len(a \o b) = Len(a) + Len(b)
          /\ \A k \in 1..Len(a) : (a \o b)[k] = a[k]
          /\ \A k \in 1..Len(b) : (a \o b)[Len(a) + k] = b[k]
      <4>1. a \in Seq(S) /\ b \in Seq(S)
        BY <2>1, <2>2
      <4> QED BY <4>1
    <3> QED BY <2>3, <3>1, Zenon
  <2>5. s \in Seq(S) /\ Len(s) = Len(l) - 1
    BY <1>2, <2>1, <2>2, <2>4
  <2>6. ASSUME NEW k \in 1..(Len(l) - 1) PROVE s[k] = IF k < at THEN l[k] ELSE l[k + 1]
    <3>1. CASE k < at
      <4>1. k \in 1..Len(a) /\ k \in 1..(at - 1)
        BY <1>2, <2>1, <3>1
      <4> QED BY <2>1, <2>4, <3>1, <4>1
    <3>2. CASE ~ (k < at)
      <4> DEFINE j == k + 1 - at
      <4>1. j \in 1..Len(b) /\ j \in 1..(Len(l) - at) /\ Len(a) + j = k /\ at + j = k + 1
        BY <1>2, <2>1, <2>2, <3>2
      <4> HIDE DEF j
      <4>2. s[k] = b[j]
        BY <2>4, <4>1
      <4>3. b[j] = l[k + 1]
        BY <2>2, <4>1
      <4> QED BY <3>2, <4>2, <4>3
    <3> QED BY <3>1, <3>2
  <2> QED BY <2>5, <2>6
<1> HIDE DEF s
<1>5. DOMAIN s = 1..(Len(l) - 1)
  BY <1>2, <1>4
<1> DEFINE from(k) == IF k < at THEN k ELSE k + 1
<1>6. \A k \in DOMAIN s : from(k) \in DOMAIN l /\ from(k) # at /\ s[k] = l[from(k)]
  BY <1>2, <1>4, <1>5
<1>7. \A i \in DOMAIN l : i # at => \E k \in DOMAIN s : from(k) = i
  <2> SUFFICES ASSUME NEW i \in DOMAIN l, i # at
               PROVE  LET k == IF i < at THEN i ELSE i - 1 IN k \in DOMAIN s /\ from(k) = i
    OBVIOUS
  <2> QED BY <1>2, <1>5
<1>8. \A i, j \in DOMAIN s : from(i) = from(j) => i = j
  BY <1>2, <1>5
<1> HIDE DEF from
<1>9. Elements(s) = Elements(l) \ {c}
  <2>1. ASSUME NEW e \in Elements(s) PROVE e \in Elements(l) /\ e # c
    <3>1. PICK k \in DOMAIN s : e = s[k]
      BY DEF Elements
    <3> QED BY <1>1, <1>6, <3>1 DEF Elements
  <2>2. ASSUME NEW e \in Elements(l), e # c PROVE e \in Elements(s)
    <3>1. PICK i \in DOMAIN l : e = l[i]
      BY DEF Elements
    <3>2. PICK k \in DOMAIN s : from(k) = i
      BY <1>1, <1>7, <2>2, <3>1
    <3> QED BY <1>6, <3>1, <3>2 DEF Elements
  <2> QED BY <2>1, <2>2
<1>10. \A i, j \in DOMAIN s : s[i] = s[j] => i = j
  BY <1>6, <1>8
<1> QED BY <1>3, <1>4, <1>9, <1>10

\* push_back() of what is not in the list.
LEMMA AddFacts ==
  ASSUME NEW S, NEW l \in Seq(S), NEW c \in S, c \notin Elements(l),
         \A i, j \in DOMAIN l : l[i] = l[j] => i = j
  PROVE  /\ Append(l, c) \in Seq(S) /\ Elements(Append(l, c)) = Elements(l) \cup {c}
         /\ \A i, j \in DOMAIN Append(l, c) : Append(l, c)[i] = Append(l, c)[j] => i = j
<1> DEFINE s == Append(l, c)
           n == Len(l)
<1>1. /\ s \in Seq(S) /\ n \in Nat /\ DOMAIN l = 1..n /\ DOMAIN s = 1..(n + 1)
      /\ \A i \in 1..n : s[i] = l[i]
      /\ s[n + 1] = c
  OBVIOUS
<1> HIDE DEF s, n
<1>2. \A i \in 1..(n + 1) : i \in 1..n \/ i = n + 1
  BY <1>1
<1>3. \A i \in 1..n : i \in 1..(n + 1) /\ l[i] # c
  BY <1>1 DEF Elements
<1>4. n + 1 \in 1..(n + 1)
  BY <1>1
<1>5. Elements(s) = Elements(l) \cup {c}
  BY <1>1, <1>2, <1>3, <1>4 DEF Elements
<1>6. \A i, j \in DOMAIN s : s[i] = s[j] => i = j
  BY <1>1, <1>2, <1>3
<1> QED BY <1>1, <1>5, <1>6 DEF s


-----------------------------------------------------------------------------
(* The functions of the channel *)

\* What the members of a state are.
LEMMA Members ==
  ASSUME NEW x \in StateType
  PROVE  /\ x.mem \in [Cell -> Connection \cup {None}] /\ x.list \in Seq(Cell)
         /\ x.pinged \subseteq Cell /\ x.unpinged \subseteq Cell
         /\ x.ctrlSel \in Cell \cup {None} /\ x.sel \in Cell \cup {None}
         /\ x.writable \in BOOLEAN /\ x.receiving \in BOOLEAN
         /\ x.state \in {"new", "checking", "connected", "disconnected", "failed"}
         /\ x.had \in BOOLEAN /\ x.been \in BOOLEAN /\ x.pinging \in BOOLEAN
BY DEF StateType

\* What is listed is live.
LEMMA ListedIsLive ==
  ASSUME NEW x \in StateType, ListSound(x)
  PROVE  /\ \A c \in Elements(x.list) : c \in Cell /\ x.mem[c] \in Connection /\ x.mem[c].live
         /\ \A i \in DOMAIN x.list : x.list[i] \in Elements(x.list)
         /\ None \notin Elements(x.list) /\ None \notin Connection
<1>1. Elements(x.list) = {c \in Cell : x.mem[c] # None /\ x.mem[c].live}
  BY DEF ListSound
<1>2. x.mem \in [Cell -> Connection \cup {None}]
  BY Members
<1>3. \A i \in DOMAIN x.list : x.list[i] \in Elements(x.list)
  BY DEF Elements
<1> QED BY <1>1, <1>2, <1>3, IceAssumption

\* The parts of Sound speak of memory, list and selection, not of what is announced.
LEMMA SoundParts ==
  ASSUME NEW x, NEW y, y.mem = x.mem, y.list = x.list, y.pinged = x.pinged,
         y.unpinged = x.unpinged, y.sel = x.sel, y.ctrlSel = x.ctrlSel
  PROVE  /\ ListSound(x) => ListSound(y)
         /\ SelectionSound(x) => SelectionSound(y)
         /\ IsWritable(y) = IsWritable(x) /\ IsReceiving(y) = IsReceiving(x)
BY DEF ListSound, SelectionSound, IsWritable, IsReceiving

\* _update_state() announces what holds.
LEMMA UpdateStateSound ==
  ASSUME NEW x \in StateType, ListSound(x), SelectionSound(x)
  PROVE  /\ UpdateState(x) \in StateType
         /\ ListSound(UpdateState(x)) /\ SelectionSound(UpdateState(x)) /\ Announced(UpdateState(x))
         /\ UpdateState(x).mem = x.mem /\ UpdateState(x).list = x.list
         /\ UpdateState(x).pinging = x.pinging
<1> DEFINE y == [x EXCEPT !.writable = IsWritable(x), !.been = x.been \/ IsWritable(x),
                          !.receiving = IsReceiving(x)]
           z == [y EXCEPT !.state = TransportState(y)]
<1>1. UpdateState(x) = z
  BY DEF UpdateState
<1>2. IsWritable(x) \in BOOLEAN /\ IsReceiving(x) \in BOOLEAN
  BY DEF IsWritable, IsReceiving
<1>3. /\ y \in StateType /\ y.writable = IsWritable(x) /\ y.receiving = IsReceiving(x)
      /\ y.mem = x.mem /\ y.list = x.list /\ y.pinged = x.pinged /\ y.unpinged = x.unpinged
      /\ y.sel = x.sel /\ y.ctrlSel = x.ctrlSel /\ y.pinging = x.pinging
  BY <1>2 DEF StateType
<1> HIDE DEF y
<1>4. TransportState(y) \in {"new", "checking", "connected", "disconnected", "failed"}
  BY DEF TransportState
<1>5. /\ z \in StateType /\ z.state = TransportState(y)
      /\ z.writable = y.writable /\ z.receiving = y.receiving /\ z.had = y.had /\ z.been = y.been
      /\ z.mem = y.mem /\ z.list = y.list /\ z.pinged = y.pinged /\ z.unpinged = y.unpinged
      /\ z.sel = y.sel /\ z.ctrlSel = y.ctrlSel /\ z.pinging = y.pinging
  BY <1>3, <1>4 DEF StateType
<1> HIDE DEF z
<1>6. TransportState(z) = TransportState(y)
  BY <1>5 DEF TransportState
<1>7. ListSound(z) /\ SelectionSound(z) /\ IsWritable(z) = IsWritable(x) /\ IsReceiving(z) = IsReceiving(x)
  BY <1>3, <1>5, SoundParts
<1> QED BY <1>1, <1>3, <1>5, <1>6, <1>7 DEF Announced

\* _maybe_start_pinging() starts the timer when there is a connection with a password:
\* before anything was pinged all intervals are over.
LEMMA StartPingingSound ==
  ASSUME NEW x \in StateType, ListSound(x), SelectionSound(x), Announced(x)
  PROVE  /\ Sound(MaybeStartPinging(x))
         /\ MaybeStartPinging(x).mem = x.mem /\ MaybeStartPinging(x).list = x.list
<1> DEFINE z == MaybeStartPinging(x)
<1>1. HasPingable(x) \in BOOLEAN
  BY DEF HasPingable
<1>2. z = [x EXCEPT !.pinging = x.pinging \/ HasPingable(x)]
  BY DEF MaybeStartPinging
<1> HIDE DEF z
<1>3. /\ z \in StateType /\ z.pinging = (x.pinging \/ HasPingable(x))
      /\ z.writable = x.writable /\ z.receiving = x.receiving /\ z.had = x.had /\ z.been = x.been
      /\ z.mem = x.mem /\ z.list = x.list /\ z.pinged = x.pinged /\ z.unpinged = x.unpinged
      /\ z.sel = x.sel /\ z.ctrlSel = x.ctrlSel /\ z.state = x.state
  BY <1>1, <1>2 DEF StateType
<1>4. TransportState(z) = TransportState(x)
  BY <1>3 DEF TransportState
<1>5. ListSound(z) /\ SelectionSound(z) /\ IsWritable(z) = IsWritable(x) /\ IsReceiving(z) = IsReceiving(x)
  BY <1>3, SoundParts
<1>6. Pings(z)
  <2> SUFFICES ASSUME NEW c \in Elements(z.list), z.mem[c].pwd # None PROVE z.pinging
    BY DEF Pings
  <2>1. c \in Cell
    BY <1>3, ListedIsLive
  <2>2. PICK i \in DOMAIN x.list : x.list[i] = c
    BY <1>3 DEF Elements
  <2>3. Pingable(x, x.list[i], Cell)
    BY <1>3, <2>1, <2>2 DEF Pingable, PastInterval
  <2> QED BY <1>3, <2>3 DEF HasPingable
<1> QED BY <1>3, <1>4, <1>5, <1>6 DEF Sound, Announced, z

\* _switch_selected_connection() to a connection of the list, or to none.
LEMMA SwitchSound ==
  ASSUME NEW x \in StateType, ListSound(x), x.ctrlSel # None => x.mem[x.ctrlSel] # None,
         NEW c \in Elements(x.list) \cup {None}
  PROVE  /\ Switch(x, c) \in StateType /\ ListSound(Switch(x, c)) /\ SelectionSound(Switch(x, c))
         /\ Switch(x, c).mem = x.mem /\ Switch(x, c).list = x.list /\ Switch(x, c).sel = c
<1> DEFINE y == [x EXCEPT !.sel = c, !.ctrlSel = IF c = None THEN x.ctrlSel ELSE c]
<1>1. Switch(x, c) = y
  BY DEF Switch
<1>2. c \in Cell \cup {None} /\ (c # None => x.mem[c] \in Connection) /\ None \notin Connection
  BY ListedIsLive
<1>3. /\ y \in StateType /\ y.sel = c /\ y.ctrlSel = (IF c = None THEN x.ctrlSel ELSE c)
      /\ y.mem = x.mem /\ y.list = x.list /\ y.pinged = x.pinged /\ y.unpinged = x.unpinged
  BY <1>2 DEF StateType
<1> HIDE DEF y
<1>4. ListSound(y)
  BY <1>3 DEF ListSound
<1>5. SelectionSound(y)
  <2>1. y.ctrlSel # None => y.mem[y.ctrlSel] # None
    BY <1>2, <1>3
  <2> QED BY <1>3, <2>1 DEF SelectionSound
<1> QED BY <1>1, <1>3, <1>4, <1>5


\* _sort_connections_and_update_state() makes everything sound again that a handler may
\* have changed of the connections: it needs no announcement to be current before.
LEMMA SortAndUpdateSound ==
  ASSUME NEW x \in StateType, ListSound(x), SelectionSound(x)
  PROVE  /\ Sound(SortAndUpdate(x)) /\ SortAndUpdate(x).mem = x.mem
         /\ Elements(SortAndUpdate(x).list) = Elements(x.list)
<1> DEFINE y == [x EXCEPT !.list = Sorted(x.mem, x.list)]
           z == IF SwitchTo(y) = None THEN y ELSE Switch(y, SwitchTo(y))
<1>1. SortAndUpdate(x) = MaybeStartPinging(UpdateState(z))
  BY DEF SortAndUpdate
<1>2. /\ x.list \in Seq(Cell) /\ \A i \in DOMAIN x.list : x.mem[x.list[i]] \in Connection
      /\ \A i, j \in DOMAIN x.list : x.list[i] = x.list[j] => i = j
  BY ListedIsLive, Members DEF ListSound
<1>3. /\ Sorted(x.mem, x.list) \in Seq(Cell)
      /\ \A i, j \in DOMAIN Sorted(x.mem, x.list) :
           Sorted(x.mem, x.list)[i] = Sorted(x.mem, x.list)[j] => i = j
      /\ Elements(Sorted(x.mem, x.list)) = Elements(x.list)
  BY <1>2, SortedPermutes
<1>4. /\ y \in StateType /\ y.list = Sorted(x.mem, x.list)
      /\ y.mem = x.mem /\ y.pinged = x.pinged /\ y.unpinged = x.unpinged
      /\ y.sel = x.sel /\ y.ctrlSel = x.ctrlSel
  BY <1>3 DEF StateType
<1> HIDE DEF y
<1>5. ListSound(y) /\ SelectionSound(y) /\ Elements(y.list) = Elements(x.list)
  BY <1>3, <1>4 DEF ListSound, SelectionSound
<1>6. SwitchTo(y) \in Elements(y.list) \cup {None}
  <2>1. y.list # << >> => Head(y.list) \in Elements(y.list)
    <3>1. y.list \in Seq(Cell)
      BY <1>4, Members
    <3>2. y.list # << >> => 1 \in DOMAIN y.list /\ Head(y.list) = y.list[1]
      BY <3>1
    <3> QED BY <3>2 DEF Elements
  <2>2. y.list = << >> => ~ ReadyToSend(y, None)
    BY DEF ReadyToSend
  <2> QED BY <2>1, <2>2 DEF SwitchTo
<1>7. /\ z \in StateType /\ ListSound(z) /\ SelectionSound(z) /\ z.mem = x.mem
      /\ Elements(z.list) = Elements(x.list)
  <2>1. CASE SwitchTo(y) = None
    BY <1>4, <1>5, <2>1
  <2>2. CASE SwitchTo(y) # None
    <3>1. y.ctrlSel # None => y.mem[y.ctrlSel] # None
      BY <1>5 DEF SelectionSound
    <3> QED BY <1>4, <1>5, <1>6, <2>2, <3>1, SwitchSound
  <2> QED BY <2>1, <2>2
<1> HIDE DEF z
<1>8. /\ UpdateState(z) \in StateType /\ ListSound(UpdateState(z))
      /\ SelectionSound(UpdateState(z)) /\ Announced(UpdateState(z))
      /\ UpdateState(z).mem = z.mem /\ UpdateState(z).list = z.list
  BY <1>7, UpdateStateSound
<1>9. /\ Sound(MaybeStartPinging(UpdateState(z)))
      /\ MaybeStartPinging(UpdateState(z)).mem = z.mem
      /\ MaybeStartPinging(UpdateState(z)).list = z.list
  BY <1>8, StartPingingSound
<1> QED BY <1>1, <1>7, <1>9

-----------------------------------------------------------------------------
(* The functions of a connection *)

\* The state in which connection c is k.
Changed(x, c, k) == [x EXCEPT !.mem = [x.mem EXCEPT ![c] = k]]

\* What that changes.
LEMMA ChangedFacts ==
  ASSUME NEW x \in StateType, NEW c \in Cell, NEW k \in Connection
  PROVE  /\ Changed(x, c, k) \in StateType /\ Changed(x, c, k).mem[c] = k
         /\ \A d \in Cell : d # c => Changed(x, c, k).mem[d] = x.mem[d]
         /\ Changed(x, c, k).list = x.list /\ Changed(x, c, k).pinged = x.pinged
         /\ Changed(x, c, k).unpinged = x.unpinged /\ Changed(x, c, k).sel = x.sel
         /\ Changed(x, c, k).ctrlSel = x.ctrlSel /\ Changed(x, c, k).writable = x.writable
         /\ Changed(x, c, k).receiving = x.receiving /\ Changed(x, c, k).state = x.state
         /\ Changed(x, c, k).had = x.had /\ Changed(x, c, k).been = x.been
         /\ Changed(x, c, k).pinging = x.pinging
BY DEF Changed, StateType

\* A connection changes, and neither lives nor dies by it.
LEMMA ConnectionChanges ==
  ASSUME NEW x \in StateType, ListSound(x), SelectionSound(x), NEW c \in Cell,
         x.mem[c] \in Connection, NEW k \in Connection, k.live = x.mem[c].live
  PROVE  /\ Changed(x, c, k) \in StateType
         /\ ListSound(Changed(x, c, k)) /\ SelectionSound(Changed(x, c, k))
<1> DEFINE y == Changed(x, c, k)
<1>1. /\ y \in StateType /\ y.mem[c] = k /\ \A d \in Cell : d # c => y.mem[d] = x.mem[d]
      /\ y.list = x.list /\ y.pinged = x.pinged /\ y.unpinged = x.unpinged
      /\ y.sel = x.sel /\ y.ctrlSel = x.ctrlSel
  BY ChangedFacts
<1> HIDE DEF y
<1>2. None \notin Connection
  BY IceAssumption
<1>3. \A d \in Cell : /\ y.mem[d] # None <=> x.mem[d] # None
                      /\ y.mem[d] # None => y.mem[d].live = x.mem[d].live
  BY <1>1, <1>2
<1>4. ListSound(y)
  BY <1>1, <1>3 DEF ListSound
<1>5. SelectionSound(y)
  BY <1>1, <1>3, Members DEF SelectionSound
<1> QED BY <1>1, <1>4, <1>5 DEF y

\* A connection changes in what the channel does not announce.
LEMMA UnnoticedChange ==
  ASSUME NEW x, Sound(x), NEW c \in Cell,
         x.mem[c] \in Connection, NEW k \in Connection, k.live = x.mem[c].live,
         k.write = x.mem[c].write, k.recv = x.mem[c].recv, k.pwd = x.mem[c].pwd
  PROVE  Sound(Changed(x, c, k))
<1> DEFINE y == Changed(x, c, k)
<1>1. x \in StateType /\ ListSound(x) /\ SelectionSound(x) /\ Announced(x) /\ Pings(x)
  BY DEF Sound
<1>2. y \in StateType /\ ListSound(y) /\ SelectionSound(y)
  BY <1>1, ConnectionChanges
<1>3. /\ y.mem[c] = k /\ \A d \in Cell : d # c => y.mem[d] = x.mem[d]
      /\ y.list = x.list /\ y.sel = x.sel
      /\ y.writable = x.writable /\ y.receiving = x.receiving /\ y.had = x.had /\ y.been = x.been
      /\ y.state = x.state /\ y.pinging = x.pinging
  BY <1>1, ChangedFacts
<1> HIDE DEF y
<1>4. \A d \in Cell : /\ y.mem[d].write = x.mem[d].write /\ y.mem[d].recv = x.mem[d].recv
                      /\ y.mem[d].pwd = x.mem[d].pwd
  BY <1>3
<1>5. \A i \in DOMAIN x.list : x.list[i] \in Cell
  BY <1>1, ListedIsLive
<1>6. IsWritable(y) = IsWritable(x) /\ IsReceiving(y) = IsReceiving(x)
  BY <1>1, <1>3, <1>4, <1>5, Members DEF IsWritable, IsReceiving
<1>7. TransportState(y) = TransportState(x)
  BY <1>3, <1>4, <1>5 DEF TransportState
<1>8. Announced(y)
  BY <1>1, <1>3, <1>6, <1>7 DEF Announced
<1>9. Pings(y)
  BY <1>1, <1>3, <1>4, ListedIsLive DEF Pings
<1> QED BY <1>2, <1>8, <1>9 DEF Sound, y

\* set_write_state(): an announcement that was current is again, and the connection keeps
\* everything else.
LEMMA SetWriteSound ==
  ASSUME NEW x, Sound(x), NEW c \in Cell, x.mem[c] \in Connection, NEW w \in Write
  PROVE  /\ Sound(SetWrite(x, c, w))
         /\ SetWrite(x, c, w).mem[c] \in Connection /\ SetWrite(x, c, w).mem[c].write = w
         /\ SetWrite(x, c, w).mem[c].live = x.mem[c].live
         /\ SetWrite(x, c, w).mem[c].wait = x.mem[c].wait
         /\ \A d \in Cell : d # c => SetWrite(x, c, w).mem[d] = x.mem[d]
<1> DEFINE k == [x.mem[c] EXCEPT !.write = w]
           y == Changed(x, c, k)
<1>1. x \in StateType /\ ListSound(x) /\ SelectionSound(x)
  BY DEF Sound
<1>2. k \in Connection /\ k.live = x.mem[c].live /\ k.write = w /\ k.wait = x.mem[c].wait
  BY DEF Connection
<1>3. x.mem[c].write = w => SetWrite(x, c, w) = x
  BY DEF SetWrite
<1>4. x.mem[c].write # w => SetWrite(x, c, w) = SortAndUpdate(y)
  BY DEF SetWrite, StateChanged, Changed
<1> HIDE DEF k, y
<1>5. CASE x.mem[c].write = w
  BY <1>3, <1>5
<1>6. CASE x.mem[c].write # w
  <2>1. y \in StateType /\ ListSound(y) /\ SelectionSound(y)
    BY <1>1, <1>2, ConnectionChanges DEF y
  <2>2. Sound(SortAndUpdate(y)) /\ SortAndUpdate(y).mem = y.mem
    BY <2>1, SortAndUpdateSound
  <2>3. y.mem[c] = k /\ \A d \in Cell : d # c => y.mem[d] = x.mem[d]
    BY <1>1, <1>2, ChangedFacts DEF y
  <2> QED BY <1>2, <1>4, <1>6, <2>2, <2>3
<1> QED BY <1>5, <1>6

\* update_receiving(), the same.
LEMMA UpdateReceivingSound ==
  ASSUME NEW x, Sound(x), NEW c \in Cell, x.mem[c] \in Connection
  PROVE  /\ Sound(UpdateReceiving(x, c))
         /\ UpdateReceiving(x, c).mem[c] \in Connection
         /\ UpdateReceiving(x, c).mem[c].write = x.mem[c].write
         /\ UpdateReceiving(x, c).mem[c].live = x.mem[c].live
         /\ \A d \in Cell : d # c => UpdateReceiving(x, c).mem[d] = x.mem[d]
<1> DEFINE r == (x.mem[c].write = "writable" /\ x.mem[c].wait = 0) \/ x.mem[c].recent
           k == [x.mem[c] EXCEPT !.recv = r]
           y == Changed(x, c, k)
<1>1. x \in StateType /\ ListSound(x) /\ SelectionSound(x)
  BY DEF Sound
<1>2. r \in BOOLEAN
  BY DEF Connection
<1>3. x.mem[c].recv = r => UpdateReceiving(x, c) = x
  BY DEF UpdateReceiving
<1>4. x.mem[c].recv # r => UpdateReceiving(x, c) = SortAndUpdate(y)
  BY DEF UpdateReceiving, StateChanged, Changed
<1> HIDE DEF r
<1>5. k \in Connection /\ k.live = x.mem[c].live /\ k.write = x.mem[c].write
  BY <1>2 DEF Connection
<1> HIDE DEF k, y
<1>6. CASE x.mem[c].recv = r
  BY <1>3, <1>6
<1>7. CASE x.mem[c].recv # r
  <2>1. y \in StateType /\ ListSound(y) /\ SelectionSound(y)
    BY <1>1, <1>5, ConnectionChanges DEF y
  <2>2. Sound(SortAndUpdate(y)) /\ SortAndUpdate(y).mem = y.mem
    BY <2>1, SortAndUpdateSound
  <2>3. y.mem[c] = k /\ \A d \in Cell : d # c => y.mem[d] = x.mem[d]
    BY <1>1, <1>5, ChangedFacts DEF y
  <2> QED BY <1>4, <1>5, <1>7, <2>2, <2>3
<1> QED BY <1>6, <1>7

\* What destroy() makes of the state before the memory goes back.
Removed(x, c) ==
  LET y == Forget([x EXCEPT !.mem[c] = Deleted(@)], c) IN
  IF y.sel = c THEN SortAndUpdate(Switch(y, None)) ELSE UpdateState(y)

\* The slot of destroy(): the connection is off the list and out of the ping sets, and
\* the channel sends over another or none.
LEMMA RemovedSound ==
  ASSUME NEW x, Sound(x), NEW c \in Elements(x.list)
  PROVE  /\ Sound(Removed(x, c))
         /\ Removed(x, c).mem[c] \in Connection /\ ~ Removed(x, c).mem[c].live
         /\ \A d \in Cell : d # c => Removed(x, c).mem[d] = x.mem[d]
<1> DEFINE k == Deleted(x.mem[c])
           y == [x EXCEPT !.mem = [x.mem EXCEPT ![c] = k], !.pinged = x.pinged \ {c},
                          !.unpinged = x.unpinged \ {c}, !.list = RemoveFirst(x.list, c)]
<1>1. x \in StateType /\ ListSound(x) /\ SelectionSound(x) /\ Pings(x)
  BY DEF Sound
<1>2. c \in Cell /\ x.mem[c] \in Connection
  BY <1>1, ListedIsLive
<1>3. k \in Connection /\ ~ k.live /\ k.pwd = x.mem[c].pwd
  <2>1. 0 \in Wait
    BY DEF Wait
  <2>2. k = [x.mem[c] EXCEPT !.live = FALSE, !.recv = FALSE, !.recent = FALSE, !.wait = 0]
    BY DEF Deleted
  <2> QED BY <1>2, <2>1, <2>2 DEF Connection
<1>4. Removed(x, c) = IF y.sel = c THEN SortAndUpdate(Switch(y, None)) ELSE UpdateState(y)
  <2>1. Forget([x EXCEPT !.mem[c] = k], c) = y
    BY <1>1 DEF Forget, StateType
  <2> QED BY <2>1 DEF Removed
<1> HIDE DEF k
<1>5. /\ RemoveFirst(x.list, c) \in Seq(Cell)
      /\ Elements(RemoveFirst(x.list, c)) = Elements(x.list) \ {c}
      /\ \A i, j \in DOMAIN RemoveFirst(x.list, c) :
           RemoveFirst(x.list, c)[i] = RemoveFirst(x.list, c)[j] => i = j
  BY <1>1, Members, EraseFacts DEF ListSound
<1>6. /\ y \in StateType /\ y.list = RemoveFirst(x.list, c)
      /\ y.mem = [x.mem EXCEPT ![c] = k] /\ y.pinged = x.pinged \ {c}
      /\ y.unpinged = x.unpinged \ {c} /\ y.sel = x.sel /\ y.ctrlSel = x.ctrlSel
      /\ y.pinging = x.pinging
  BY <1>1, <1>3, <1>5 DEF StateType
<1> HIDE DEF y
<1>7. x.mem \in [Cell -> Connection \cup {None}] /\ None \notin Connection
  BY <1>1, Members, IceAssumption
<1>8. y.mem[c] = k /\ \A d \in Cell : d # c => y.mem[d] = x.mem[d]
  BY <1>2, <1>6, <1>7
<1>9. ListSound(y)
  <2>1. Elements(y.list) = {d \in Cell : y.mem[d] # None /\ y.mem[d].live}
    BY <1>1, <1>3, <1>5, <1>6, <1>8 DEF ListSound
  <2>2. y.pinged \cup y.unpinged = Elements(y.list) /\ y.pinged \cap y.unpinged = {}
    BY <1>1, <1>5, <1>6 DEF ListSound
  <2> QED BY <1>5, <1>6, <2>1, <2>2 DEF ListSound
<1>10. y.ctrlSel # None => y.mem[y.ctrlSel] # None
  BY <1>1, <1>3, <1>6, <1>7, <1>8, Members DEF SelectionSound
<1>11. CASE y.sel = c
  <2> DEFINE z == Switch(y, None)
  <2>1. z \in StateType /\ ListSound(z) /\ SelectionSound(z) /\ z.mem = y.mem
    BY <1>6, <1>9, <1>10, SwitchSound
  <2>2. Sound(SortAndUpdate(z)) /\ SortAndUpdate(z).mem = z.mem
    BY <2>1, SortAndUpdateSound
  <2> HIDE DEF z
  <2>3. Removed(x, c) = SortAndUpdate(z)
    BY <1>4, <1>11 DEF z
  <2> QED BY <1>3, <1>8, <2>1, <2>2, <2>3
<1>12. CASE y.sel # c
  <2>1. SelectionSound(y)
    BY <1>1, <1>5, <1>6, <1>10, <1>12 DEF SelectionSound
  <2> DEFINE z == UpdateState(y)
  <2>2. /\ z \in StateType /\ ListSound(z) /\ SelectionSound(z) /\ Announced(z)
        /\ z.mem = y.mem /\ z.list = y.list /\ z.pinging = y.pinging
    BY <1>6, <1>9, <2>1, UpdateStateSound
  <2> HIDE DEF z
  <2>3. Pings(z)
    <3>1. \A d \in Elements(z.list) : d \in Elements(x.list) /\ z.mem[d].pwd = x.mem[d].pwd
      BY <1>1, <1>5, <1>6, <1>8, <2>2, ListedIsLive
    <3> QED BY <1>1, <1>6, <2>2, <3>1 DEF Pings
  <2>4. Removed(x, c) = z
    BY <1>4, <1>12 DEF z
  <2> QED BY <1>3, <1>8, <2>2, <2>3, <2>4 DEF Sound
<1> QED BY <1>11, <1>12


\* Nothing sound depends on what is in a deleted connection's memory.
LEMMA DeadChange ==
  ASSUME NEW x, Sound(x), TimedOutIsDead(x), NEW c \in Cell, x.mem[c] \in Connection,
         ~ x.mem[c].live, NEW k \in Connection, ~ k.live
  PROVE  Sound(Changed(x, c, k)) /\ TimedOutIsDead(Changed(x, c, k))
<1> DEFINE y == Changed(x, c, k)
<1>1. x \in StateType /\ ListSound(x) /\ SelectionSound(x) /\ Announced(x) /\ Pings(x)
  BY DEF Sound
<1>2. y \in StateType /\ ListSound(y) /\ SelectionSound(y)
  <2>1. k.live = x.mem[c].live
    BY DEF Connection
  <2> QED BY <1>1, <2>1, ConnectionChanges
<1>3. /\ y.mem[c] = k /\ \A d \in Cell : d # c => y.mem[d] = x.mem[d]
      /\ y.list = x.list /\ y.sel = x.sel
      /\ y.writable = x.writable /\ y.receiving = x.receiving /\ y.had = x.had /\ y.been = x.been
      /\ y.state = x.state /\ y.pinging = x.pinging
  BY <1>1, ChangedFacts
<1> HIDE DEF y
<1>4. \A d \in Elements(x.list) : d \in Cell /\ y.mem[d] = x.mem[d]
  BY <1>1, <1>3, ListedIsLive
<1>5. \A i \in DOMAIN x.list : x.list[i] \in Elements(x.list)
  BY <1>1, ListedIsLive
<1>6. IsWritable(y) = IsWritable(x) /\ IsReceiving(y) = IsReceiving(x)
  <2>1. x.sel # None => y.mem[x.sel] = x.mem[x.sel]
    BY <1>1, <1>4 DEF SelectionSound
  <2> QED BY <1>3, <1>4, <1>5, <2>1 DEF IsWritable, IsReceiving
<1>7. TransportState(y) = TransportState(x)
  BY <1>3, <1>4, <1>5 DEF TransportState
<1>8. Announced(y) /\ Pings(y)
  BY <1>1, <1>3, <1>4, <1>6, <1>7 DEF Announced, Pings
<1>9. TimedOutIsDead(y)
  BY <1>3 DEF TimedOutIsDead
<1> QED BY <1>2, <1>8, <1>9 DEF Sound, y

\* delete this, and what becomes of the memory.
LEMMA FreeSound ==
  ASSUME NEW x, Sound(x), TimedOutIsDead(x), NEW c \in Cell, x.mem[c] \in Connection,
         ~ x.mem[c].live, NEW y \in Free(x, c)
  PROVE  /\ Sound(y) /\ TimedOutIsDead(y)
         /\ ~ y.mem[c].live /\ \A d \in Cell : d # c => y.mem[d] = x.mem[d]
<1>1. CASE x.ctrlSel # c
  BY <1>1 DEF Free
<1>2. CASE x.ctrlSel = c
  <2>1. PICK g \in Freed :
          y = [x EXCEPT !.mem[c] = [@ EXCEPT !.write = g.write, !.recv = g.recv, !.rtt = g.rtt]]
    BY <1>2 DEF Free
  <2> DEFINE k == [x.mem[c] EXCEPT !.write = g.write, !.recv = g.recv, !.rtt = g.rtt]
  <2>2. g.write \in Write /\ g.recv \in BOOLEAN /\ g.rtt \in Rtt \cup {InitRtt}
    BY DEF Freed, Write
  <2>3. k \in Connection /\ ~ k.live
    BY <2>2 DEF Connection
  <2>4. y = Changed(x, c, k)
    BY <2>1, Zenon DEF Changed
  <2> HIDE DEF k
  <2>5. Sound(y) /\ TimedOutIsDead(y)
    BY <2>3, <2>4, DeadChange
  <2>6. y.mem[c] = k /\ \A d \in Cell : d # c => y.mem[d] = x.mem[d]
    BY <2>3, <2>4, ChangedFacts DEF Sound
  <2> QED BY <2>3, <2>5, <2>6
<1> QED BY <1>1, <1>2

\* update_state(): a connection whose pings were not answered for 15 s is deleted, and
\* whatever happens the others stay as they are.
LEMMA UpdateConnectionSound ==
  ASSUME NEW x, Sound(x), TimedOutIsDead(x), NEW c \in Elements(x.list),
         NEW u \in UpdateConnection(x, c)
  PROVE  /\ Sound(u) /\ TimedOutIsDead(u)
         /\ \A d \in Cell : d # c => u.mem[d] = x.mem[d]
         /\ x.mem[c].wait = 3 => ~ u.mem[c].live
<1> DEFINE y == Degrade(x, c)
           lost == y.mem[c].write \in {"unreliable", "init"} /\ y.mem[c].wait = 3
           t == SetWrite(y, c, "timeout")
<1>1. u \in IF lost THEN Destroy(t, c) ELSE {UpdateReceiving(y, c)}
  BY DEF UpdateConnection
<1>2. c \in Cell /\ x.mem[c] \in Connection /\ x.mem[c].live /\ None \notin Connection
  BY ListedIsLive DEF Sound
<1>3. "unreliable" \in Write /\ "timeout" \in Write
  BY DEF Write
<1>4. x.mem[c].write # "timeout" /\ x.mem[c].wait \in Wait /\ x.mem[c].write \in Write
  BY <1>2 DEF TimedOutIsDead, Connection
<1>5. /\ Sound(y) /\ y.mem[c] \in Connection /\ y.mem[c].live
      /\ y.mem[c].wait = x.mem[c].wait /\ y.mem[c].write # "timeout"
      /\ x.mem[c].wait = 3 => y.mem[c].write # "writable"
      /\ \A d \in Cell : d # c => y.mem[d] = x.mem[d]
  <2>1. CASE x.mem[c].write = "writable" /\ x.mem[c].wait >= 2
    <3>1. y = SetWrite(x, c, "unreliable")
      BY <2>1 DEF Degrade
    <3> HIDE DEF y
    <3> QED BY <1>2, <1>3, <3>1, SetWriteSound
  <2>2. CASE ~ (x.mem[c].write = "writable" /\ x.mem[c].wait >= 2)
    <3>1. x.mem[c].wait = 3 => x.mem[c].write # "writable"
      BY <2>2
    <3>2. y = x
      BY <2>2 DEF Degrade
    <3> HIDE DEF y
    <3> QED BY <1>2, <1>4, <2>2, <3>1, <3>2
  <2> QED BY <2>1, <2>2
<1> HIDE DEF y
<1>6. y.mem[c].write \in Write
  BY <1>5 DEF Connection
<1>7. /\ Sound(t) /\ t.mem[c] \in Connection /\ t.mem[c].live
      /\ \A d \in Cell : d # c => t.mem[d] = y.mem[d]
  BY <1>2, <1>3, <1>5, SetWriteSound
<1> HIDE DEF t
<1>8. c \in Elements(t.list)
  BY <1>2, <1>7 DEF Sound, ListSound
<1>9. CASE lost
  <2> DEFINE z == Removed(t, c)
  <2>1. u \in Free(z, c)
    BY <1>1, <1>9 DEF Destroy, Removed
  <2>2. /\ Sound(z) /\ z.mem[c] \in Connection /\ ~ z.mem[c].live
        /\ \A d \in Cell : d # c => z.mem[d] = t.mem[d]
    BY <1>7, <1>8, RemovedSound
  <2> HIDE DEF z
  <2>3. \A d \in Cell : d # c => z.mem[d] = x.mem[d]
    BY <1>5, <1>7, <2>2
  <2>4. TimedOutIsDead(z)
    BY <2>2, <2>3 DEF TimedOutIsDead
  <2>5. Sound(u) /\ TimedOutIsDead(u) /\ ~ u.mem[c].live
        /\ \A d \in Cell : d # c => u.mem[d] = z.mem[d]
    BY <1>2, <2>1, <2>2, <2>4, FreeSound
  <2> QED BY <2>3, <2>5
<1>10. CASE ~ lost
  <2>1. u = UpdateReceiving(y, c)
    BY <1>1, <1>10
  <2>2. x.mem[c].wait # 3
    BY <1>5, <1>6, <1>10 DEF Write
  <2>3. /\ Sound(u) /\ u.mem[c].write = y.mem[c].write
        /\ \A d \in Cell : d # c => u.mem[d] = y.mem[d]
    BY <1>2, <1>5, <2>1, UpdateReceivingSound
  <2>4. TimedOutIsDead(u)
    BY <1>5, <2>3 DEF TimedOutIsDead
  <2> QED BY <1>5, <2>2, <2>3, <2>4
<1> QED BY <1>9, <1>10

-----------------------------------------------------------------------------
(* The loop over all connections *)

\* A set with 0 and every successor of its members has all natural numbers: induction for
\* sets, from the least number that is not in it.
LEMMA AllNaturals ==
  ASSUME NEW S, 0 \in S, \A n \in Nat : n \in S => n + 1 \in S
  PROVE  \A n \in Nat : n \in S
<1> SUFFICES ASSUME NEW n \in Nat, n \notin S PROVE FALSE
  OBVIOUS
<1> DEFINE T == {k \in Nat : k \notin S}
<1>1. T \subseteq Nat /\ T # {}
  OBVIOUS
<1>2. PICK k \in T : \A j \in T : ~ (<<j, k>> \in OpToRel(<, Nat))
  BY <1>1, NatLessThanWellFounded, WFMin
<1>3. k \in Nat /\ k \notin S /\ k # 0
  BY <1>2
<1>4. k - 1 \in Nat /\ (k - 1) + 1 = k
  BY <1>3
<1>5. k - 1 \in T
  BY <1>3, <1>4
<1>6. <<k - 1, k>> \in OpToRel(<, Nat)
  BY <1>3, <1>4 DEF OpToRel
<1> QED BY <1>2, <1>5, <1>6

\* The states between two connections of the loop are what the loop makes of them.
LEMMA UpdatedUpToSteps ==
  ASSUME list \in Seq(Cell)
  PROVE  /\ UpdatedUpTo[0] = {State}
         /\ \A n \in 1..Len(list) :
              UpdatedUpTo[n] = UNION {UpdateConnection(x, list[n]) : x \in UpdatedUpTo[n - 1]}
<1> DEFINE N == Len(list)
           U(s, n) == UNION {UpdateConnection(x, list[n]) : x \in s}
           Start == {State}
           Makes(f, n) == /\ f = [k \in 0..n |-> f[k]] /\ f[0] = Start
                          /\ \A k \in 1..n : f[k] = U(f[k - 1], k)
           S == {n \in Nat : \E f : Makes(f, n)}
           Body(f) == [n \in 0..N |-> IF n = 0 THEN Start ELSE U(f[n - 1], n)]
<1>1. UpdatedUpTo = CHOOSE f : f = Body(f)
  BY DEF UpdatedUpTo
<1>2. N \in Nat
  OBVIOUS
<1> HIDE DEF N, U, Start
<1>3. 0 \in S
  <2>1. Makes([k \in 0..0 |-> Start], 0)
    OBVIOUS
  <2> QED BY <2>1
<1>4. \A n \in Nat : n \in S => n + 1 \in S
  <2> SUFFICES ASSUME NEW n \in Nat, NEW f, Makes(f, n) PROVE \E g : Makes(g, n + 1)
    OBVIOUS
  <2> DEFINE g == [k \in 0..(n + 1) |-> IF k = n + 1 THEN U(f[n], n + 1) ELSE f[k]]
  <2>1. g = [k \in 0..(n + 1) |-> g[k]] /\ g[0] = Start
    OBVIOUS
  <2>2. ASSUME NEW k \in 1..(n + 1) PROVE g[k] = U(g[k - 1], k)
    <3>1. g[k - 1] = f[k - 1]
      OBVIOUS
    <3>2. CASE k = n + 1
      <4>1. g[k] = U(f[n], n + 1) /\ k - 1 = n
        BY <3>2
      <4> QED BY <3>1, <3>2, <4>1
    <3>3. CASE k # n + 1
      <4>1. k \in 1..n /\ g[k] = f[k]
        BY <3>3
      <4> QED BY <3>1, <4>1
    <3> QED BY <3>2, <3>3
  <2>3. Makes(g, n + 1)
    BY <2>1, <2>2
  <2> QED BY <2>3
<1>5. N \in S
  <2> HIDE DEF S
  <2> QED BY <1>2, <1>3, <1>4, AllNaturals
<1>6. PICK f : Makes(f, N)
  BY <1>5
<1>7. f = Body(f)
  <2>1. f = [k \in 0..N |-> f[k]]
    BY <1>6
  <2>2. ASSUME NEW n \in 0..N PROVE f[n] = IF n = 0 THEN Start ELSE U(f[n - 1], n)
    <3>1. n = 0 \/ n \in 1..N
      BY <1>2
    <3> QED BY <1>6, <3>1, Zenon
  <2>3. [k \in 0..N |-> f[k]] = Body(f)
    BY <2>2
  <2> QED BY <2>1, <2>3
<1> HIDE DEF Body
<1>8. UpdatedUpTo = Body(UpdatedUpTo)
  BY <1>1, <1>7, Zenon
<1>9. \A n \in 0..N : UpdatedUpTo[n] = IF n = 0 THEN Start ELSE U(UpdatedUpTo[n - 1], n)
  <2>1. \A h : \A n \in 0..N : Body(h)[n] = IF n = 0 THEN Start ELSE U(h[n - 1], n)
    BY DEF Body
  <2> QED BY <1>8, <2>1, Zenon
<1>10. UpdatedUpTo[0] = Start
  BY <1>2, <1>9
<1>11. \A n \in 1..N : UpdatedUpTo[n] = U(UpdatedUpTo[n - 1], n)
  <2>1. \A n \in 1..N : n \in 0..N /\ n # 0
    BY <1>2
  <2> QED BY <1>9, <2>1, Zenon
<1> QED BY <1>10, <1>11 DEF N, U, Start

\* _update_connection_states(): the loop runs over a copy of the list.  A connection that
\* it comes to is as it was before the loop, so every lost one is deleted.
LEMMA CheckedSound ==
  ASSUME Sound(State), TimedOutIsDead(State), NEW last \in Checked
  PROVE  /\ Sound(last) /\ TimedOutIsDead(last)
         /\ \A c \in Elements(list) : mem[c].wait = 3 => ~ last.mem[c].live
<1> DEFINE Done(n) == {list[i] : i \in 1..n}
           Good(x, n) == /\ Sound(x) /\ TimedOutIsDead(x)
                         /\ \A c \in Cell : c \notin Done(n) => x.mem[c] = mem[c]
                         /\ \A c \in Done(n) : mem[c].wait = 3 => ~ x.mem[c].live
           P(n) == \A x \in UpdatedUpTo[n] : Good(x, n)
           S == {n \in Nat : n =< Len(list) => P(n)}
<1>1. State.mem = mem /\ State.list = list
  BY DEF State
<1>2. State \in StateType /\ ListSound(State)
  BY DEF Sound
<1>3. list \in Seq(Cell) /\ \A i, j \in DOMAIN list : list[i] = list[j] => i = j
  BY <1>1, <1>2, Members DEF ListSound
<1>4. \A i \in DOMAIN list : list[i] \in Cell /\ mem[list[i]] \in Connection /\ mem[list[i]].live
  BY <1>1, <1>2, ListedIsLive
<1>5. Len(list) \in Nat /\ DOMAIN list = 1..Len(list)
  BY <1>3
<1>6. /\ UpdatedUpTo[0] = {State}
      /\ \A n \in 1..Len(list) :
           UpdatedUpTo[n] = UNION {UpdateConnection(x, list[n]) : x \in UpdatedUpTo[n - 1]}
  BY <1>3, UpdatedUpToSteps
<1>7. P(0)
  BY <1>1, <1>6
<1>8. ASSUME NEW n \in Nat, n + 1 =< Len(list), P(n) PROVE P(n + 1)
  <2> SUFFICES ASSUME NEW y \in UpdatedUpTo[n + 1] PROVE Good(y, n + 1)
    OBVIOUS
  <2> DEFINE c == list[n + 1]
  <2>1. n + 1 \in 1..Len(list) /\ (n + 1) - 1 = n /\ 1..n \subseteq 1..Len(list) /\ n + 1 \notin 1..n
    BY <1>5, <1>8
  <2>2. PICK x \in UpdatedUpTo[n] : y \in UpdateConnection(x, c)
    BY <1>6, <2>1
  <2>3. c \in Cell /\ mem[c] \in Connection /\ mem[c].live
    BY <1>4, <1>5, <2>1
  <2>4. c \notin Done(n)
    BY <1>3, <1>5, <2>1
  <2>5. Done(n + 1) = Done(n) \cup {c}
    <3>1. 1..(n + 1) = (1..n) \cup {n + 1}
      BY <1>8
    <3> QED BY <3>1
  <2>6. Good(x, n)
    BY <1>8, <2>2
  <2>7. \A d \in Done(n) : d \in Cell
    BY <1>4, <1>5, <2>1
  <2>8. x.mem[c] = mem[c]
    BY <2>3, <2>4, <2>6
  <2> HIDE DEF c, Done
  <2>9. c \in Elements(x.list)
    BY <2>3, <2>6, <2>8, IceAssumption DEF Sound, ListSound
  <2>10. /\ Sound(y) /\ TimedOutIsDead(y) /\ \A d \in Cell : d # c => y.mem[d] = x.mem[d]
         /\ x.mem[c].wait = 3 => ~ y.mem[c].live
    BY <2>2, <2>6, <2>9, UpdateConnectionSound
  <2>11. \A d \in Cell : d \notin Done(n + 1) => y.mem[d] = mem[d]
    BY <2>5, <2>6, <2>10
  <2>12. \A d \in Done(n + 1) : mem[d].wait = 3 => ~ y.mem[d].live
    BY <2>4, <2>5, <2>6, <2>7, <2>8, <2>10
  <2> QED BY <2>10, <2>11, <2>12
<1> HIDE DEF P
<1>9. 0 \in S /\ \A n \in Nat : n \in S => n + 1 \in S
  BY <1>5, <1>7, <1>8
<1>10. Len(list) \in S
  <2> HIDE DEF S
  <2> QED BY <1>5, <1>9, AllNaturals
<1>11. P(Len(list))
  BY <1>5, <1>10
<1>12. Elements(list) = Done(Len(list))
  BY <1>5 DEF Elements
<1> HIDE DEF Done
<1> QED BY <1>11, <1>12 DEF P, Checked

-----------------------------------------------------------------------------
(* The events *)

\* What a handler leaves is the next state.
LEMMA BecomeState ==
  ASSUME NEW x \in StateType, Become(x)
  PROVE  State' = x
<1>1. x = [mem |-> x.mem, list |-> x.list, pinged |-> x.pinged, unpinged |-> x.unpinged,
           ctrlSel |-> x.ctrlSel, sel |-> x.sel, writable |-> x.writable,
           receiving |-> x.receiving, state |-> x.state, had |-> x.had, been |-> x.been,
           pinging |-> x.pinging]
  BY DEF StateType
<1> QED BY <1>1 DEF Become, State

\* A new process has no connection.
Empty == [mem |-> [c \in Cell |-> None], list |-> << >>, pinged |-> {}, unpinged |-> {},
          ctrlSel |-> None, sel |-> None, writable |-> FALSE, receiving |-> FALSE,
          state |-> "new", had |-> FALSE, been |-> FALSE, pinging |-> FALSE]

LEMMA EmptySound == Sound(Empty) /\ TimedOutIsDead(Empty)
<1>1. << >> \in Seq(Cell) /\ DOMAIN << >> = {} /\ Elements(<< >>) = {}
  BY DEF Elements
<1>2. /\ Empty.mem = [c \in Cell |-> None] /\ Empty.list = << >> /\ Empty.pinged = {}
      /\ Empty.unpinged = {} /\ Empty.ctrlSel = None /\ Empty.sel = None
      /\ Empty.writable = FALSE /\ Empty.receiving = FALSE /\ Empty.state = "new"
      /\ Empty.had = FALSE /\ Empty.been = FALSE /\ Empty.pinging = FALSE
  BY DEF Empty
<1>3. Empty \in StateType
  BY <1>1 DEF Empty, StateType
<1> HIDE DEF Empty
<1>4. \A c \in Cell : Empty.mem[c] = None
  BY <1>2
<1>5. ListSound(Empty)
  BY <1>1, <1>2, <1>4 DEF ListSound
<1>6. SelectionSound(Empty)
  BY <1>2 DEF SelectionSound
<1>7. IsWritable(Empty) = FALSE /\ IsReceiving(Empty) = FALSE
  BY <1>1, <1>2 DEF IsWritable, IsReceiving
<1>8. TransportState(Empty) = "new"
  BY <1>2 DEF TransportState
<1>9. Pings(Empty)
  BY <1>1, <1>2 DEF Pings
<1>10. TimedOutIsDead(Empty)
  BY <1>4 DEF TimedOutIsDead
<1> QED BY <1>2, <1>3, <1>5, <1>6, <1>7, <1>8, <1>9, <1>10 DEF Sound, Announced

\* What the invariant says of the members of the state.
LEMMA InvMembers ==
  ASSUME IInv
  PROVE  /\ Sound(State) /\ TimedOutIsDead(State) /\ State \in StateType
         /\ ListSound(State) /\ SelectionSound(State) /\ Announced(State) /\ Pings(State)
         /\ State.mem = mem /\ State.list = list /\ State.pinged = pinged
         /\ State.unpinged = unpinged /\ State.sel = sel /\ State.ctrlSel = ctrlSel
         /\ mem \in [Cell -> Connection \cup {None}] /\ list \in Seq(Cell)
<1>1. Sound(State) /\ TimedOutIsDead(State)
  BY DEF IInv
<1>2. /\ State \in StateType /\ ListSound(State) /\ SelectionSound(State)
      /\ Announced(State) /\ Pings(State)
  BY <1>1 DEF Sound
<1>3. /\ State.mem = mem /\ State.list = list /\ State.pinged = pinged
      /\ State.unpinged = unpinged /\ State.sel = sel /\ State.ctrlSel = ctrlSel
  BY DEF State
<1> QED BY <1>1, <1>2, <1>3, Members

\* A handler that leaves a sound state and forgets no connection that timed out keeps
\* the invariant.
LEMMA HandlerKeeps ==
  ASSUME NEW x, Sound(x), TimedOutIsDead(x), Become(x),
         port' \in [Addr -> Cell \cup {None}], remote' \in Ufrag \cup {None}, up' \in BOOLEAN
  PROVE  IInv'
<1>1. State' = x
  BY BecomeState DEF Sound
<1>2. Sound(State') /\ TimedOutIsDead(State')
  BY <1>1
<1> QED BY <1>2 DEF IInv

LEMMA InitKeeps ==
  ASSUME Init
  PROVE  IInv
<1>1. State = Empty
  BY DEF Init, State, Empty
<1> QED BY <1>1, EmptySound DEF IInv, Init

\* The process ends and starts again.
LEMMA RestartKeeps ==
  ASSUME Restart, remote' = None, up' \in BOOLEAN
  PROVE  IInv'
<1>1. Become(Empty)
  BY DEF Restart, Become, Empty
<1>2. port' \in [Addr -> Cell \cup {None}]
  BY DEF Restart
<1> QED BY <1>1, <1>2, EmptySound, HandlerKeeps

\* A handler, or the time, changes a connection in what the channel does not announce.
LEMMA PassKeeps ==
  ASSUME IInv, NEW c \in Cell, Live(c), NEW k \in Connection, k.live = mem[c].live,
         k.write = mem[c].write, k.recv = mem[c].recv, k.pwd = mem[c].pwd, Pass(c, k)
  PROVE  IInv'
<1> DEFINE x == Changed(State, c, k)
<1>1. /\ Sound(State) /\ TimedOutIsDead(State) /\ State.mem = mem /\ State \in StateType
      /\ mem \in [Cell -> Connection \cup {None}]
  BY InvMembers
<1>2. mem[c] \in Connection
  BY <1>1 DEF Live
<1>3. Sound(x)
  BY <1>1, <1>2, UnnoticedChange
<1>4. x.mem[c] = k /\ \A d \in Cell : d # c => x.mem[d] = mem[d]
  BY <1>1, ChangedFacts
<1>5. Become(x)
  BY DEF Pass, Become, Changed, State
<1> HIDE DEF x
<1>6. TimedOutIsDead(x)
  BY <1>1, <1>2, <1>4, IceAssumption DEF TimedOutIsDead
<1>7. port' \in [Addr -> Cell \cup {None}] /\ remote' \in Ufrag \cup {None} /\ up' \in BOOLEAN
  BY DEF Pass, IInv
<1> QED BY <1>3, <1>5, <1>6, <1>7, HandlerKeeps

LEMMA PacketKeeps ==
  ASSUME IInv, NEW a \in Addr, Packet(a)
  PROVE  IInv'
<1> DEFINE c == port[a]
           k == [mem[c] EXCEPT !.recent = TRUE]
<1>1. c \in Cell /\ Live(c)
  BY IceAssumption DEF IInv, Packet
<1>2. mem[c] \in Connection
  BY <1>1, InvMembers DEF Live
<1>3. /\ k \in Connection /\ k.live = mem[c].live /\ k.write = mem[c].write
      /\ k.recv = mem[c].recv /\ k.pwd = mem[c].pwd
  BY <1>2 DEF Connection
<1>4. Pass(c, k)
  BY DEF Packet, Pass
<1> HIDE DEF c, k
<1> QED BY <1>1, <1>3, <1>4, PassKeeps

LEMMA SilenceKeeps ==
  ASSUME IInv, NEW c \in Cell, Silence(c)
  PROVE  IInv'
<1> DEFINE k == [mem[c] EXCEPT !.recent = FALSE]
<1>1. Live(c) /\ Pass(c, k)
  BY DEF Silence
<1>2. mem[c] \in Connection
  BY <1>1, InvMembers DEF Live
<1>3. /\ k \in Connection /\ k.live = mem[c].live /\ k.write = mem[c].write
      /\ k.recv = mem[c].recv /\ k.pwd = mem[c].pwd
  BY <1>2 DEF Connection
<1> HIDE DEF k
<1> QED BY <1>1, <1>3, PassKeeps

LEMMA AgeKeeps ==
  ASSUME IInv, NEW c \in Cell, Age(c)
  PROVE  IInv'
<1> DEFINE k == [mem[c] EXCEPT !.wait = mem[c].wait + 1]
<1>1. Live(c) /\ Pass(c, k)
  BY DEF Age
<1>2. mem[c] \in Connection
  BY <1>1, InvMembers DEF Live
<1>3. mem[c].wait + 1 \in Wait
  BY DEF Age, Wait
<1>4. /\ k \in Connection /\ k.live = mem[c].live /\ k.write = mem[c].write
      /\ k.recv = mem[c].recv /\ k.pwd = mem[c].pwd
  BY <1>2, <1>3 DEF Connection
<1> HIDE DEF k
<1> QED BY <1>1, <1>4, PassKeeps

\* An answer: the connection has time again, is receiving and becomes writable.
LEMMA PingResponseKeeps ==
  ASSUME IInv, NEW c \in Cell, NEW rtt \in Rtt, PingResponse(c, rtt)
  PROVE  IInv'
<1> DEFINE k == [mem[c] EXCEPT !.rtt = rtt, !.wait = 0, !.recent = TRUE]
           x == Changed(State, c, k)
           y == UpdateReceiving(x, c)
           z == SetWrite(y, c, "writable")
<1>1. /\ Sound(State) /\ TimedOutIsDead(State) /\ State.mem = mem /\ State \in StateType
      /\ mem \in [Cell -> Connection \cup {None}]
  BY InvMembers
<1>2. mem[c] \in Connection /\ mem[c].live
  BY <1>1 DEF PingResponse, Answerable, Live
<1>3. /\ k \in Connection /\ k.live = mem[c].live /\ k.write = mem[c].write
      /\ k.recv = mem[c].recv /\ k.pwd = mem[c].pwd
  <2>1. 0 \in Wait
    BY DEF Wait
  <2> QED BY <1>2, <2>1 DEF Connection
<1>4. Responded(State, c, rtt) = x
  BY <1>1, <1>2, ZenonT(40) DEF Responded, Changed, StateType, Connection
<1> HIDE DEF k
<1>5. Sound(x)
  BY <1>1, <1>2, <1>3, UnnoticedChange
<1>6. x.mem[c] = k /\ \A d \in Cell : d # c => x.mem[d] = mem[d]
  BY <1>1, <1>3, ChangedFacts
<1>7. Become(z)
  BY <1>4 DEF PingResponse
<1> HIDE DEF x
<1>8. /\ Sound(y) /\ y.mem[c] \in Connection /\ y.mem[c].live = x.mem[c].live
      /\ \A d \in Cell : d # c => y.mem[d] = x.mem[d]
  BY <1>3, <1>5, <1>6, UpdateReceivingSound
<1> HIDE DEF y
<1>9. "writable" \in Write
  BY DEF Write
<1>10. /\ Sound(z) /\ z.mem[c] \in Connection /\ z.mem[c].write = "writable"
       /\ z.mem[c].live = y.mem[c].live /\ \A d \in Cell : d # c => z.mem[d] = y.mem[d]
  BY <1>8, <1>9, SetWriteSound
<1> HIDE DEF z
<1>11. z.mem[c].live /\ \A d \in Cell : d # c => z.mem[d] = mem[d]
  BY <1>2, <1>3, <1>6, <1>8, <1>10
<1>12. TimedOutIsDead(z)
  BY <1>1, <1>10, <1>11 DEF TimedOutIsDead
<1>13. port' \in [Addr -> Cell \cup {None}] /\ remote' \in Ufrag \cup {None} /\ up' \in BOOLEAN
  BY DEF PingResponse, IInv
<1> QED BY <1>7, <1>10, <1>12, <1>13, HandlerKeeps

\* An ERROR response, or a packet to or through what was deleted.
LEMMA CrashKeeps ==
  ASSUME Crash
  PROVE  IInv'
<1>1. Restart /\ remote' = None /\ up' \in BOOLEAN
  BY DEF Crash, Restart
<1> QED BY <1>1, RestartKeeps

\* The memory of the controller's selected connection is used for something else.
LEMMA OverwrittenKeeps ==
  ASSUME IInv, Overwritten
  PROVE  IInv'
<1>1. /\ Sound(State) /\ TimedOutIsDead(State) /\ SelectionSound(State)
      /\ State.mem = mem /\ State.ctrlSel = ctrlSel /\ State \in StateType
      /\ mem \in [Cell -> Connection \cup {None}]
  BY InvMembers
<1>2. ctrlSel \in Cell /\ mem[ctrlSel] \in Connection /\ ~ mem[ctrlSel].live
  BY <1>1, Members DEF Overwritten, Live, SelectionSound
<1>3. PICK x \in Free(State, ctrlSel) : Become(x)
  BY DEF Overwritten
<1>4. Sound(x) /\ TimedOutIsDead(x)
  BY <1>1, <1>2, FreeSound
<1>5. port' \in [Addr -> Cell \cup {None}] /\ remote' \in Ufrag \cup {None} /\ up' \in BOOLEAN
  BY DEF Overwritten, IInv
<1> QED BY <1>3, <1>4, <1>5, HandlerKeeps

\* A new connection is listed, has not been pinged, and is announced.
LEMMA UnknownAddressKeeps ==
  ASSUME IInv, NEW a \in Addr, NEW u \in Ufrag, NEW c \in Cell, UnknownAddress(a, u, c)
  PROVE  IInv'
<1> DEFINE k == NewConnection(a, u)
           m == [mem EXCEPT ![c] = k]
           x == [State EXCEPT !.mem = m, !.had = TRUE]
           y == [x EXCEPT !.list = Append(x.list, c), !.unpinged = x.unpinged \cup {c}]
           z == SortAndUpdate(y)
<1>1. /\ TimedOutIsDead(State) /\ State.mem = mem /\ State \in StateType
      /\ State.list = list /\ State.pinged = pinged /\ State.unpinged = unpinged
      /\ State.sel = sel /\ State.ctrlSel = ctrlSel
      /\ ListSound(State) /\ SelectionSound(State)
      /\ mem \in [Cell -> Connection \cup {None}] /\ list \in Seq(Cell)
  BY InvMembers
<1>2. k \in Connection /\ k.live /\ k.write # "timeout"
  <2>1. remote \in Ufrag \cup {None}
    BY DEF IInv
  <2>2. 0 \in Wait /\ "init" \in Write
    BY DEF Wait, Write
  <2> QED BY <2>1, <2>2 DEF NewConnection, Connection
<1>3. ~ Live(c)
  BY DEF UnknownAddress
<1>4. Become(z)
  <2>1. [State EXCEPT !.mem[c] = NewConnection(a, u), !.had = TRUE] = x
    BY <1>1 DEF StateType
  <2>2. AddConnection(x, c) = y
    BY DEF AddConnection
  <2> QED BY <2>1, <2>2 DEF UnknownAddress
<1> HIDE DEF k
<1>5. /\ m \in [Cell -> Connection \cup {None}] /\ m[c] = k
      /\ \A d \in Cell : d # c => m[d] = mem[d]
  BY <1>1, <1>2
<1> HIDE DEF m
<1>6. /\ x \in StateType /\ x.mem = m /\ x.list = list /\ x.pinged = pinged
      /\ x.unpinged = unpinged /\ x.sel = sel /\ x.ctrlSel = ctrlSel
  BY <1>1, <1>5 DEF StateType
<1> HIDE DEF x
<1>7. Elements(list) = {d \in Cell : mem[d] # None /\ mem[d].live}
  BY <1>1 DEF ListSound
<1>8. c \notin Elements(list)
  BY <1>3, <1>7 DEF Live
<1>9. /\ Append(list, c) \in Seq(Cell) /\ Elements(Append(list, c)) = Elements(list) \cup {c}
      /\ \A i, j \in DOMAIN Append(list, c) :
           Append(list, c)[i] = Append(list, c)[j] => i = j
  BY <1>1, <1>8, AddFacts DEF ListSound
<1>10. /\ y \in StateType /\ y.mem = m /\ y.list = Append(list, c) /\ y.pinged = pinged
       /\ y.unpinged = unpinged \cup {c} /\ y.sel = sel /\ y.ctrlSel = ctrlSel
  BY <1>6, <1>9 DEF StateType
<1> HIDE DEF y
<1>11. ListSound(y)
  <2>1. Elements(y.list) = {d \in Cell : y.mem[d] # None /\ y.mem[d].live}
    <3>1. m[c] # None /\ m[c].live
      BY <1>2, <1>5, IceAssumption
    <3>2. \A d \in Cell : (m[d] # None /\ m[d].live) <=> d \in Elements(list) \cup {c}
      <4> SUFFICES ASSUME NEW d \in Cell
                   PROVE  (m[d] # None /\ m[d].live) <=> d \in Elements(list) \cup {c}
        OBVIOUS
      <4>1. CASE d = c
        BY <3>1, <4>1
      <4>2. CASE d # c
        BY <1>5, <1>7, <4>2
      <4> QED BY <4>1, <4>2
    <3>3. Elements(list) \cup {c} \subseteq Cell
      BY <1>7
    <3> QED BY <1>9, <1>10, <3>2, <3>3
  <2>2. y.pinged \cup y.unpinged = Elements(y.list) /\ y.pinged \cap y.unpinged = {}
    BY <1>1, <1>8, <1>9, <1>10 DEF ListSound
  <2> QED BY <1>9, <1>10, <2>1, <2>2 DEF ListSound
<1>12. SelectionSound(y)
  BY <1>1, <1>2, <1>5, <1>9, <1>10, Members, IceAssumption DEF SelectionSound
<1>13. Sound(z) /\ z.mem = y.mem
  BY <1>10, <1>11, <1>12, SortAndUpdateSound
<1> HIDE DEF z
<1>14. TimedOutIsDead(z)
  BY <1>1, <1>2, <1>5, <1>10, <1>13 DEF TimedOutIsDead
<1>15. port' \in [Addr -> Cell \cup {None}] /\ remote' \in Ufrag \cup {None} /\ up' \in BOOLEAN
  BY DEF UnknownAddress, IInv
<1> QED BY <1>4, <1>13, <1>14, <1>15, HandlerKeeps

\* The answer's password goes to the connections that wait for it; sorting and announcing
\* follow.
LEMMA SetRemoteKeeps ==
  ASSUME IInv, NEW u \in Ufrag, SetRemoteIceParams(u)
  PROVE  IInv'
<1> DEFINE m == Fill(mem, u)
           y == [State EXCEPT !.mem = m]
           z == SortAndUpdate(y)
<1>1. /\ TimedOutIsDead(State) /\ State.mem = mem /\ State \in StateType
      /\ State.list = list /\ State.pinged = pinged /\ State.unpinged = unpinged
      /\ State.sel = sel /\ State.ctrlSel = ctrlSel
      /\ ListSound(State) /\ SelectionSound(State)
      /\ mem \in [Cell -> Connection \cup {None}] /\ list \in Seq(Cell)
  BY InvMembers
<1>2. Become(z)
  BY <1>1 DEF SetRemoteIceParams
<1>3. ASSUME NEW d \in Cell
      PROVE  \/ m[d] = mem[d]
             \/ /\ mem[d] \in Connection /\ m[d] \in Connection /\ m[d].live = mem[d].live
                /\ m[d].write = mem[d].write
  <2>1. CASE \E i \in DOMAIN list : list[i] = d
    <3> DEFINE k == [mem[d] EXCEPT !.pwd = u]
    <3>1. mem[d] \in Connection
      BY <1>1, <2>1, ListedIsLive
    <3>2. k \in Connection /\ k.live = mem[d].live /\ k.write = mem[d].write
      BY <3>1 DEF Connection
    <3>3. m[d] = mem[d] \/ m[d] = k
      BY DEF Fill
    <3> HIDE DEF k
    <3> QED BY <3>1, <3>2, <3>3
  <2>2. CASE ~ \E i \in DOMAIN list : list[i] = d
    BY <2>2 DEF Fill
  <2> QED BY <2>1, <2>2
<1>4. m = [d \in Cell |-> m[d]]
  BY DEF Fill
<1> HIDE DEF m
<1>5. m \in [Cell -> Connection \cup {None}]
  BY <1>1, <1>3, <1>4
<1>6. /\ y \in StateType /\ y.mem = m /\ y.list = list /\ y.pinged = pinged
      /\ y.unpinged = unpinged /\ y.sel = sel /\ y.ctrlSel = ctrlSel
  BY <1>1, <1>5 DEF StateType
<1> HIDE DEF y
<1>7. \A d \in Cell : /\ m[d] # None <=> mem[d] # None
                      /\ m[d] # None => m[d].live = mem[d].live /\ m[d].write = mem[d].write
  BY <1>3, IceAssumption
<1>8. ListSound(y)
  BY <1>1, <1>6, <1>7 DEF ListSound
<1>9. SelectionSound(y)
  BY <1>1, <1>6, <1>7, Members DEF SelectionSound
<1>10. Sound(z) /\ z.mem = y.mem
  BY <1>6, <1>8, <1>9, SortAndUpdateSound
<1> HIDE DEF z
<1>11. TimedOutIsDead(z)
  BY <1>1, <1>6, <1>7, <1>10 DEF TimedOutIsDead
<1>12. port' \in [Addr -> Cell \cup {None}] /\ remote' \in Ufrag \cup {None} /\ up' \in BOOLEAN
  BY DEF SetRemoteIceParams, IInv
<1> QED BY <1>2, <1>10, <1>11, <1>12, HandlerKeeps

\* The round robin divides the list anew.
Rounds(x, p, u) == [x EXCEPT !.pinged = p, !.unpinged = u]

LEMMA RoundsSound ==
  ASSUME NEW x, Sound(x), TimedOutIsDead(x), NEW p, NEW u,
         p \cup u = Elements(x.list), p \cap u = {}
  PROVE  /\ Sound(Rounds(x, p, u)) /\ TimedOutIsDead(Rounds(x, p, u))
         /\ Rounds(x, p, u).mem = x.mem /\ Rounds(x, p, u).list = x.list
         /\ Rounds(x, p, u).pinged = p /\ Rounds(x, p, u).unpinged = u
<1> DEFINE y == Rounds(x, p, u)
<1>1. /\ x \in StateType /\ ListSound(x) /\ SelectionSound(x) /\ Announced(x) /\ Pings(x)
      /\ p \subseteq Cell /\ u \subseteq Cell
  BY ListedIsLive DEF Sound
<1>2. /\ y \in StateType /\ y.mem = x.mem /\ y.list = x.list /\ y.pinged = p /\ y.unpinged = u
      /\ y.sel = x.sel /\ y.ctrlSel = x.ctrlSel /\ y.writable = x.writable
      /\ y.receiving = x.receiving /\ y.state = x.state /\ y.had = x.had /\ y.been = x.been
      /\ y.pinging = x.pinging
  BY <1>1 DEF Rounds, StateType
<1> HIDE DEF y
<1>3. ListSound(y) /\ SelectionSound(y) /\ Pings(y) /\ TimedOutIsDead(y)
  BY <1>1, <1>2 DEF ListSound, SelectionSound, Pings, TimedOutIsDead
<1>4. Announced(y)
  <2>1. TransportState(y) = TransportState(x)
    BY <1>2 DEF TransportState
  <2>2. IsWritable(y) = IsWritable(x) /\ IsReceiving(y) = IsReceiving(x)
    BY <1>2 DEF IsWritable, IsReceiving
  <2> QED BY <1>1, <1>2, <2>1, <2>2 DEF Announced
<1> QED BY <1>1, <1>2, <1>3, <1>4 DEF Sound, y

\* What select_connection_to_ping() chooses is listed, or it is the controller's selected
\* connection; what it leaves of the round robin divides the list.
LEMMA NextPingListed ==
  ASSUME NEW x, Sound(x), NEW due, NEW p \in NextPing(x, due)
  PROVE  /\ p.to \in Elements(x.list) \cup {None, x.ctrlSel}
         /\ p.pinged \cup p.unpinged = Elements(x.list) /\ p.pinged \cap p.unpinged = {}
<1> DEFINE first == /\ x.ctrlSel # None /\ x.mem[x.ctrlSel].write = "writable"
                    /\ PastInterval(x.ctrlSel, due)
           again == \A c \in x.unpinged : ~ Pingable(x, c, due)
           un == IF again THEN x.unpinged \cup x.pinged ELSE x.unpinged
           may == {c \in un : Pingable(x, c, due)}
<1>1. x.pinged \cup x.unpinged = Elements(x.list) /\ x.pinged \cap x.unpinged = {}
  BY DEF Sound, ListSound
<1>2. CASE first
  <2>1. p = [to |-> x.ctrlSel, pinged |-> x.pinged, unpinged |-> x.unpinged]
    BY <1>2 DEF NextPing
  <2> QED BY <1>1, <2>1
<1>3. CASE ~ first
  <2>1. p \in {[to |-> c, pinged |-> IF again THEN {} ELSE x.pinged, unpinged |-> un] :
                 c \in IF may = {} THEN {None} ELSE may}
    BY <1>3 DEF NextPing
  <2> HIDE DEF again
  <2>2. p.to \in may \cup {None}
    BY <2>1
  <2>3. p.pinged = (IF again THEN {} ELSE x.pinged) /\ p.unpinged = un
    BY <2>1
  <2>4. may \subseteq Elements(x.list)
    BY <1>1
  <2> QED BY <1>1, <2>2, <2>3, <2>4
<1> QED BY <1>2, <1>3

\* The ping timer, with nothing to ping.
LEMMA CheckKeeps ==
  ASSUME IInv, Check
  PROVE  IInv'
<1>1. PICK x \in Checked : Become(x)
  BY DEF Check
<1>2. Sound(x) /\ TimedOutIsDead(x)
  BY InvMembers, CheckedSound
<1>3. port' \in [Addr -> Cell \cup {None}] /\ remote' \in Ufrag \cup {None} /\ up' \in BOOLEAN
  BY DEF Check, IInv
<1> QED BY <1>1, <1>2, <1>3, HandlerKeeps

\* The ping timer, with a connection to ping: a listed one, or the process is at an end.
LEMMA CheckAndPingKeeps ==
  ASSUME IInv, CheckAndPing
  PROVE  IInv'
<1>1. PICK x \in Checked, due \in Intervals : \E p \in NextPing(x, due) : PingChosen(x, p)
  BY DEF CheckAndPing
<1>2. PICK p \in NextPing(x, due) : PingChosen(x, p)
  BY <1>1
<1>3. Sound(x) /\ TimedOutIsDead(x)
  BY InvMembers, CheckedSound
<1> DEFINE c == p.to
           y == Rounds(x, p.pinged, p.unpinged)
           k == [y.mem[c] EXCEPT !.wait = IF y.mem[c].wait = 0 THEN 1 ELSE y.mem[c].wait]
           z == Changed(y, c, k)
           t == Rounds(z, z.pinged \cup {c}, z.unpinged \ {c})
<1>4. /\ c \in Elements(x.list) \cup {None, x.ctrlSel}
      /\ p.pinged \cup p.unpinged = Elements(x.list) /\ p.pinged \cap p.unpinged = {}
  BY <1>3, NextPingListed
<1>5. \/ c = None /\ Become(y) /\ UNCHANGED <<port, remote, up>>
      \/ c # None /\ x.mem[c].live /\ Become(MarkPinged(Ping(y, c), c))
           /\ UNCHANGED <<port, remote, up>>
      \/ Crash
  BY <1>2 DEF PingChosen, Rounds
<1> HIDE DEF c
<1>6. /\ Sound(y) /\ TimedOutIsDead(y) /\ y.mem = x.mem /\ y.list = x.list
      /\ y.pinged = p.pinged /\ y.unpinged = p.unpinged
  BY <1>3, <1>4, RoundsSound
<1>7. Ping(y, c) = z
  BY DEF Ping, Changed
<1>8. MarkPinged(z, c) = t
  BY DEF MarkPinged, Rounds
<1> HIDE DEF y
<1>9. UNCHANGED <<port, remote, up>> =>
        /\ port' \in [Addr -> Cell \cup {None}] /\ remote' \in Ufrag \cup {None}
        /\ up' \in BOOLEAN
  BY DEF IInv
<1>10. CASE Become(y) /\ UNCHANGED <<port, remote, up>>
  BY <1>6, <1>9, <1>10, HandlerKeeps
<1>11. CASE /\ c # None /\ x.mem[c].live /\ Become(MarkPinged(Ping(y, c), c))
            /\ UNCHANGED <<port, remote, up>>
  <2>1. c \in Elements(y.list)
    <3>1. x \in StateType /\ ListSound(x) /\ SelectionSound(x)
      BY <1>3 DEF Sound
    <3>2. c \in Cell /\ x.mem[c] # None
      BY <1>4, <1>11, <3>1, ListedIsLive, Members, IceAssumption DEF SelectionSound
    <3> QED BY <1>6, <1>11, <3>1, <3>2 DEF ListSound
  <2>2. c \in Cell /\ y.mem[c] \in Connection /\ y \in StateType
    BY <1>6, <2>1, ListedIsLive DEF Sound
  <2>3. /\ k \in Connection /\ k.live = y.mem[c].live /\ k.write = y.mem[c].write
        /\ k.recv = y.mem[c].recv /\ k.pwd = y.mem[c].pwd
    <3>1. 1 \in Wait
      BY DEF Wait
    <3> QED BY <2>2, <3>1 DEF Connection
  <2> HIDE DEF k
  <2>4. Sound(z)
    BY <1>6, <2>2, <2>3, UnnoticedChange
  <2>5. /\ z.mem[c] = k /\ \A d \in Cell : d # c => z.mem[d] = y.mem[d]
        /\ z.list = y.list /\ z.pinged = y.pinged /\ z.unpinged = y.unpinged
    BY <2>2, <2>3, ChangedFacts
  <2> HIDE DEF z
  <2>6. TimedOutIsDead(z)
    <3>1. y.mem[c] # None
      BY <2>2, IceAssumption
    <3>2. y.mem[c].live => y.mem[c].write # "timeout"
      BY <1>6, <2>2, <3>1 DEF TimedOutIsDead
    <3> QED BY <1>6, <2>3, <2>5, <3>2 DEF TimedOutIsDead
  <2>7. /\ (z.pinged \cup {c}) \cup (z.unpinged \ {c}) = Elements(z.list)
        /\ (z.pinged \cup {c}) \cap (z.unpinged \ {c}) = {}
    BY <1>4, <1>6, <2>1, <2>5
  <2>8. Sound(t) /\ TimedOutIsDead(t)
    BY <2>4, <2>6, <2>7, RoundsSound
  <2>9. Become(t)
    BY <1>7, <1>8, <1>11
  <2> HIDE DEF t
  <2> QED BY <1>9, <1>11, <2>8, <2>9, HandlerKeeps
<1> QED BY <1>5, <1>10, <1>11, CrashKeeps

-----------------------------------------------------------------------------
(* Every step *)

LEMMA StepKeeps == IInv /\ [Next]_vars => IInv'
<1> SUFFICES ASSUME IInv, [Next]_vars PROVE IInv'
  OBVIOUS
<1>1. ASSUME NEW a \in Addr, NEW u \in Ufrag, NEW c \in Cell, UnknownAddress(a, u, c)
      PROVE  IInv'
  BY <1>1, UnknownAddressKeeps
<1>2. ASSUME NEW a \in Addr, Packet(a) \/ StrayPacket(a) PROVE IInv'
  BY <1>2, PacketKeeps, CrashKeeps DEF StrayPacket
<1>3. ASSUME NEW c \in Cell, NEW rtt \in Rtt, PingResponse(c, rtt) PROVE IInv'
  BY <1>3, PingResponseKeeps
<1>4. ASSUME NEW c \in Cell, ErrorResponse(c) PROVE IInv'
  BY <1>4, CrashKeeps DEF ErrorResponse
<1>5. ASSUME NEW u \in Ufrag, SetRemoteIceParams(u) PROVE IInv'
  BY <1>5, SetRemoteKeeps
<1>6. CASE Timer
  <2>1. CASE Check
    BY <2>1, CheckKeeps
  <2>2. CASE CheckAndPing
    BY <2>2, CheckAndPingKeeps
  <2> QED BY <1>6, <2>1, <2>2 DEF Timer
<1>7. ASSUME NEW c \in Cell, Silence(c) \/ Age(c) PROVE IInv'
  BY <1>7, SilenceKeeps, AgeKeeps
<1>8. CASE Overwritten
  BY <1>8, OverwrittenKeeps
<1>9. CASE UNCHANGED vars
  <2>1. State' = State /\ port' = port /\ remote' = remote /\ up' = up
    BY <1>9 DEF vars, State
  <2>2. Sound(State') /\ TimedOutIsDead(State')
    BY <2>1, InvMembers
  <2> QED BY <2>1, <2>2 DEF IInv
<1> QED BY <1>1, <1>2, <1>3, <1>4, <1>5, <1>6, <1>7, <1>8, <1>9 DEF Next

\* Channel, controller and memory agree in every reachable state, for any number of
\* addresses and connections, and whatever is created where another was deleted.
THEOREM ChannelInvariance == Spec => []IInv
<1>1. Init => IInv
  BY InitKeeps
<1>2. IInv /\ [Next]_vars => IInv'
  BY StepKeeps
<1> QED BY <1>1, <1>2, PTL DEF Spec

\* Every variable has its type.
THEOREM ChannelTypeCorrect == Spec => []TypeOK
<1>1. IInv => TypeOK
  <2> SUFFICES ASSUME IInv PROVE TypeOK
    OBVIOUS
  <2>1. State \in StateType
    BY InvMembers
  <2>2. /\ State.mem = mem /\ State.list = list /\ State.pinged = pinged
        /\ State.unpinged = unpinged /\ State.ctrlSel = ctrlSel /\ State.sel = sel
        /\ State.writable = writable /\ State.receiving = receiving /\ State.state = state
        /\ State.had = had /\ State.been = been /\ State.pinging = pinging
    BY DEF State
  <2>3. /\ mem \in [Cell -> Connection \cup {None}] /\ list \in Seq(Cell)
        /\ pinged \subseteq Cell /\ unpinged \subseteq Cell
        /\ ctrlSel \in Cell \cup {None} /\ sel \in Cell \cup {None}
        /\ writable \in BOOLEAN /\ receiving \in BOOLEAN
        /\ state \in {"new", "checking", "connected", "disconnected", "failed"}
        /\ had \in BOOLEAN /\ been \in BOOLEAN /\ pinging \in BOOLEAN
    <3>1. /\ State.mem \in [Cell -> Connection \cup {None}] /\ State.list \in Seq(Cell)
          /\ State.pinged \subseteq Cell /\ State.unpinged \subseteq Cell
          /\ State.ctrlSel \in Cell \cup {None} /\ State.sel \in Cell \cup {None}
          /\ State.writable \in BOOLEAN /\ State.receiving \in BOOLEAN
          /\ State.state \in {"new", "checking", "connected", "disconnected", "failed"}
          /\ State.had \in BOOLEAN /\ State.been \in BOOLEAN /\ State.pinging \in BOOLEAN
      BY <2>1, Members
    <3> QED BY <2>2, <3>1, Zenon
  <2>4. port \in [Addr -> Cell \cup {None}] /\ remote \in Ufrag \cup {None} /\ up \in BOOLEAN
    BY DEF IInv
  <2> QED BY <2>3, <2>4 DEF TypeOK
<1> QED BY <1>1, ChannelInvariance, PTL

\* As long as the process is followed, the list has every live connection once, the ping
\* sets divide it, and a connection the channel sends over is live and the one the
\* controller has selected.  The controller's selected connection may be deleted while
\* the channel sends over none, and its memory may hold anything.
THEOREM ListsAlwaysAgree == Spec => []ListsAgree
<1>1. IInv => ListsAgree
  <2> SUFFICES ASSUME IInv PROVE ListsAgree
    OBVIOUS
  <2>1. /\ State.mem = mem /\ State.list = list /\ State.pinged = pinged
        /\ State.unpinged = unpinged /\ State.sel = sel /\ State.ctrlSel = ctrlSel
        /\ ListSound(State) /\ SelectionSound(State) /\ list \in Seq(Cell)
    BY InvMembers
  <2>2. Elements(list) = Listed
    BY DEF Elements, Listed
  <2>3. Listed = {c \in Cell : Live(c)}
    BY <2>1, <2>2 DEF ListSound, Live
  <2>4. Len(list) = Cardinality(Listed)
    <3> DEFINE f == [i \in 1..Len(list) |-> list[i]]
    <3>1. DOMAIN list = 1..Len(list) /\ Len(list) \in Nat
      BY <2>1
    <3>2. \A i, j \in 1..Len(list) : f[i] = f[j] => i = j
      BY <2>1, <3>1 DEF ListSound
    <3>3. \A i \in 1..Len(list) : f[i] \in Listed
      BY <3>1 DEF Listed
    <3>4. \A c \in Listed : \E i \in 1..Len(list) : f[i] = c
      BY <3>1 DEF Listed
    <3>5. f \in Bijection(1..Len(list), Listed)
      BY <3>2, <3>3, <3>4 DEF Bijection, Injection, Surjection, IsInjective
    <3> HIDE DEF f
    <3>6. ExistsBijection(1..Len(list), Listed)
      BY <3>5 DEF ExistsBijection
    <3> QED BY <3>1, <3>6, FS_CountingElements
  <2>5. pinged \cup unpinged = Listed /\ pinged \cap unpinged = {}
    BY <2>1, <2>2 DEF ListSound
  <2>6. SelectedIsLive
    BY <2>1, <2>2 DEF SelectionSound, SelectedIsLive
  <2> QED BY <2>3, <2>4, <2>5, <2>6 DEF ListsAgree, PingSetsPartition
<1> QED BY <1>1, ChannelInvariance, PTL

\* What the layers above were told last is what the connections say now.
THEOREM AnnouncedAlwaysCurrent == Spec => []AnnouncedIsCurrent
<1>1. IInv => AnnouncedIsCurrent
  <2> SUFFICES ASSUME IInv PROVE AnnouncedIsCurrent
    OBVIOUS
  <2>1. Announced(State)
    BY InvMembers
  <2>2. State.writable = writable /\ State.receiving = receiving /\ State.state = state
    BY DEF State
  <2> QED BY <2>1, <2>2 DEF Announced, AnnouncedIsCurrent
<1> QED BY <1>1, ChannelInvariance, PTL

\* The checks have started as soon as there is a connection and its password.
THEOREM ChecksStart == Spec => []PingingStarts
<1>1. IInv => PingingStarts
  <2> SUFFICES ASSUME IInv PROVE PingingStarts
    OBVIOUS
  <2>1. Pings(State) /\ State.mem = mem /\ State.list = list
    BY InvMembers
  <2>2. State.pinging = pinging
    BY DEF State
  <2>3. Elements(list) = Listed
    BY DEF Elements, Listed
  <2> QED BY <2>1, <2>2, <2>3 DEF Pings, PingingStarts
<1> QED BY <1>1, ChannelInvariance, PTL

\* The timer deletes every connection whose pings were not answered for 15 s, however many
\* there are and in whatever order it comes to them.
THEOREM LostAreRemoved == Spec => LostIsRemoved
<1>1. ASSUME IInv, Check, NEW c \in Cell, Live(c), mem[c].wait = 3
      PROVE  ~ Live(c)'
  <2>1. Sound(State) /\ TimedOutIsDead(State) /\ ListSound(State)
        /\ State.mem = mem /\ State.list = list
    BY <1>1, InvMembers
  <2>2. c \in Elements(list)
    BY <1>1, <2>1 DEF ListSound, Live
  <2>3. PICK x \in Checked : Become(x)
    BY <1>1 DEF Check
  <2>4. ~ x.mem[c].live /\ mem' = x.mem
    BY <1>1, <2>1, <2>2, <2>3, CheckedSound DEF Become
  <2> QED BY <2>4 DEF Live
<1>2. IInv /\ [Next]_vars =>
        [(\E c \in Cell : Live(c) /\ mem[c].wait = 3 /\ Live(c)') => ~ Check]_vars
  BY <1>1
<1> QED BY <1>2, ChannelInvariance, PTL DEF Spec, LostIsRemoved
=============================================================================
