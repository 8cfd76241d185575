--------------------------- MODULE RequestPathProofs ---------------------------
(***************************************************************************)
(* The two structures every request passes on its way to a worker: the      *)
(* connection that frames it and the lock-free queue that hands it over.    *)
(*                                                                         *)
(* LockFreeQueue is correct for any number of elements, any addresses and   *)
(* any interleaving of its two threads.  The invariants are not inductive by *)
(* themselves: which node a pointer names is only known from the history    *)
(* chain of linked nodes, so everything rests on LockFreeQueue!Inv.         *)
(*                                                                         *)
(* The request of a connection is framed exactly, for every header size,    *)
(* seal, body length, reply size and send buffer.  RequestExact only speaks *)
(* of the moments between two handlers.  FramingInv adds what holds inside  *)
(* a read: ParserFields says what bytes_expected and bytes_processed mean   *)
(* in each state, NothingLeft that a handler returns only when its loop     *)
(* condition is false.                                                      *)
(***************************************************************************)
EXTENDS LockFreeQueue, TcpFraming, SequenceTheorems, TLAPS

-----------------------------------------------------------------------------
(* LockFreeQueue *)

\* What appending one element does to a sequence.
LEMMA AppendFacts ==
  ASSUME NEW S, NEW s \in Seq(S), NEW e \in S
  PROVE  /\ Append(s, e) \in Seq(S)
         /\ Len(Append(s, e)) = Len(s) + 1
         /\ \A i \in 1..Len(s) : Append(s, e)[i] = s[i]
         /\ Append(s, e)[Len(s) + 1] = e
  OBVIOUS

\* The elements of a sequence belong to its type.
LEMMA ElementFacts ==
  ASSUME NEW S, NEW s \in Seq(S)
  PROVE  /\ Len(s) \in Nat
         /\ \A i \in 1..Len(s) : s[i] \in S
  OBVIOUS

\* As long as not all is consumed, the node behind divider is the next of the chain.
LEMMA DividerNext ==
  ASSUME Shape, Contents, Len(in) \in Nat, Len(out) \in Nat, nfreed \in Nat, Len(chain) \in Nat,
         nfreed =< Len(out), Len(out) < Len(in), Len(in) + 1 =< Len(chain),
         \A i \in 1..Len(chain) : chain[i] \in Addr
  PROVE  next[divider] = chain[Len(out) + 2] /\ next[divider] \in Addr
<1>1. Len(out) + 1 \in (nfreed + 1)..(Len(chain) - 1) /\ Len(out) + 2 \in 1..Len(chain)
  OBVIOUS
<1>2. next[chain[Len(out) + 1]] = chain[(Len(out) + 1) + 1]
  BY <1>1 DEF Contents
<1>3. divider = chain[Len(out) + 1] /\ (Len(out) + 1) + 1 = Len(out) + 2
  BY DEF Shape
<1> QED BY <1>1, <1>2, <1>3

\* The constructor establishes the invariant.
LEMMA InitInv == Init => Inv
<1> SUFFICES ASSUME Init PROVE Inv
  OBVIOUS
<1> USE QueueAssumption
<1>1. PICK d \in Addr, v \in Values :
        /\ first = d /\ divider = d /\ last = d
        /\ _size = 0
        /\ next = [a \in Addr |-> Null]
        /\ value = [a \in Addr |-> v]
        /\ live = {d}
        /\ ppc = "idle" /\ cpc = "idle"
        /\ result = v
        /\ in = << >> /\ out = << >>
        /\ chain = <<d>> /\ nfreed = 0
  BY DEF Init
<1>2. /\ Len(chain) = 1 /\ chain[1] = d /\ chain \in Seq(Addr)
      /\ Len(in) = 0 /\ in \in Seq(Values) /\ Len(out) = 0 /\ out \in Seq(Values)
  BY <1>1
<1>3. TypeOK
  BY <1>1, <1>2 DEF TypeOK
<1>4. Shape /\ Nodes
  BY <1>1, <1>2 DEF Shape, Nodes
<1>5. Contents
  BY <1>1, <1>2 DEF Contents
<1>6. Control /\ Ordered /\ SizeAccounting
  BY <1>1, <1>2 DEF Control, Ordered, SizeAccounting
<1> QED
  BY <1>3, <1>4, <1>5, <1>6 DEF Inv

\* produce() links a node the allocator returned: no live node changes place.
LEMMA LinkInv == ASSUME Inv, NEW v \in Values, ProduceLink(v) PROVE Inv'
<1> USE QueueAssumption
<1>1. PICK a \in Addr \ live :
        /\ live' = live \cup {a}
        /\ value' = [value EXCEPT ![a] = v]
        /\ next' = [next EXCEPT ![a] = Null, ![last] = a]
        /\ chain' = Append(chain, a)
  BY DEF ProduceLink
<1>2. TypeOK /\ Shape /\ Nodes /\ Contents /\ Control /\ Ordered /\ SizeAccounting
  BY DEF Inv
<1>3. /\ ppc = "idle" /\ ppc' = "last"
      /\ UNCHANGED <<first, divider, last, _size, cpc, result, in, out, nfreed>>
  BY DEF ProduceLink, ptrs
<1>4. /\ Len(chain') = Len(chain) + 1 /\ chain'[Len(chain) + 1] = a
      /\ \A i \in 1..Len(chain) : chain'[i] = chain[i] /\ chain[i] \in Addr
      /\ chain' \in Seq(Addr)
      /\ Len(chain) \in Nat /\ Len(in) \in Nat /\ Len(out) \in Nat /\ nfreed \in Nat
  BY <1>1, <1>2, AppendFacts, ElementFacts DEF TypeOK
<1>5. /\ nfreed < Len(chain) /\ Len(chain) = Len(in) + 1
      /\ last = chain[Len(chain)] /\ last \in live /\ last # a
      /\ \A i \in (nfreed + 1)..Len(chain) : chain[i] \in live /\ chain[i] # a
  BY <1>1, <1>2, <1>3, <1>4 DEF Shape, Nodes, Control
<1>6. TypeOK'
  BY <1>1, <1>2, <1>3, <1>4 DEF TypeOK
<1>7. Shape' /\ Nodes'
  <2>1. /\ \A i \in (nfreed + 1)..(Len(chain) + 1) : chain'[i] \in live'
        /\ \A b \in live' : \E i \in (nfreed + 1)..(Len(chain) + 1) : chain'[i] = b
    BY <1>1, <1>2, <1>4, <1>5 DEF Shape, Nodes
  <2>2. \A i, j \in (nfreed + 1)..(Len(chain) + 1) : chain'[i] = chain'[j] => i = j
    <3>1. \A i \in (nfreed + 1)..(Len(chain) + 1) :
            IF i = Len(chain) + 1 THEN chain'[i] = a
            ELSE i \in (nfreed + 1)..Len(chain) /\ chain'[i] = chain[i] /\ chain[i] # a
      BY <1>4, <1>5
    <3>2. \A i, j \in (nfreed + 1)..Len(chain) : chain[i] = chain[j] => i = j
      BY <1>2 DEF Shape, Nodes
    <3> QED
      BY <3>1, <3>2
  <2>3. divider' = chain'[Len(out) + 1] /\ last' = chain'[Len(in) + 1]
    BY <1>2, <1>3, <1>4 DEF Shape, Nodes
  <2>4. first' = IF nfreed < Len(chain) + 1 THEN chain'[nfreed + 1] ELSE Null
    BY <1>2, <1>3, <1>4, <1>5 DEF Shape, Nodes
  <2>5. Len(out) =< Len(in) /\ nfreed =< Len(chain) + 1
    BY <1>2, <1>4 DEF Shape, Nodes
  <2> QED
    BY <1>3, <1>4, <1>5, <2>1, <2>2, <2>3, <2>4, <2>5 DEF Shape, Nodes
<1>8. Contents'
  <2>1. /\ next'[a] = Null /\ next'[last] = a
        /\ \A b \in Addr : b # a /\ b # last => next'[b] = next[b]
        /\ \A b \in Addr : b # a => value'[b] = value[b]
    BY <1>1, <1>2, <1>5 DEF TypeOK
  <2>2. \A i \in (nfreed + 1)..Len(chain) : next'[chain'[i]] = chain'[i + 1]
    <3> SUFFICES ASSUME NEW i \in (nfreed + 1)..Len(chain)
                 PROVE  next'[chain'[i]] = chain'[i + 1]
      OBVIOUS
    <3>1. CASE i = Len(chain)
      BY <3>1, <1>4, <1>5, <2>1
    <3>2. CASE i < Len(chain)
      <4>1. /\ i \in 1..Len(chain) /\ i + 1 \in 1..Len(chain)
            /\ i \in (nfreed + 1)..(Len(chain) - 1)
            /\ Len(chain) \in (nfreed + 1)..Len(chain)
        BY <3>2, <1>4, <1>5
      <4>2. chain[i] # last /\ chain[i] # a
        BY <3>2, <4>1, <1>2, <1>5 DEF Shape, Nodes
      <4>3. next[chain[i]] = chain[i + 1]
        BY <4>1, <1>2 DEF Contents
      <4> QED
        BY <4>1, <4>2, <4>3, <1>4, <2>1
    <3> QED
      BY <3>1, <3>2, <1>4
  <2>3. \A i \in (nfreed + 1)..(Len(chain) + 1) :
          (2 =< i /\ i =< Len(in) + 1) => value'[chain'[i]] = in[i - 1]
    <3> SUFFICES ASSUME NEW i \in (nfreed + 1)..Len(chain), 2 =< i, i =< Len(in) + 1
                 PROVE  value'[chain'[i]] = in[i - 1]
      BY <1>4, <1>5
    <3>1. chain'[i] = chain[i] /\ chain[i] # a /\ chain[i] \in Addr
      BY <1>4, <1>5
    <3>2. value[chain[i]] = in[i - 1]
      BY <1>2 DEF Contents
    <3> QED
      BY <2>1, <3>1, <3>2
  <2> QED
    BY <1>3, <1>4, <2>1, <2>2, <2>3 DEF Contents
<1>9. Control' /\ Ordered' /\ SizeAccounting'
  BY <1>2, <1>3, <1>4, <1>5 DEF Control, Ordered, SizeAccounting
<1> QED
  BY <1>6, <1>7, <1>8, <1>9 DEF Inv

\* Moving last publishes the linked node's element as the newest of in.
LEMMA PublishInv == ASSUME Inv, ProduceLast PROVE Inv'
<1> USE QueueAssumption
<1>1. TypeOK /\ Shape /\ Nodes /\ Contents /\ Control /\ Ordered /\ SizeAccounting
  BY DEF Inv
<1>2. /\ ppc = "last" /\ ppc' = "count"
      /\ last' = next[last] /\ in' = Append(in, value[next[last]])
      /\ UNCHANGED <<first, divider, _size, next, value, live, cpc, result,
                     out, chain, nfreed>>
  BY DEF ProduceLast, heap
<1>3. /\ Len(chain) \in Nat /\ Len(in) \in Nat /\ Len(out) \in Nat /\ nfreed \in Nat
      /\ \A i \in 1..Len(chain) : chain[i] \in Addr
      /\ Len(chain) = Len(in) + 2 /\ nfreed =< Len(out) /\ Len(out) =< Len(in)
  BY <1>1, <1>2, ElementFacts DEF TypeOK, Shape, Nodes, Control
<1>4. next[last] = chain[Len(in) + 2] /\ next[last] \in Addr
  BY <1>1, <1>3 DEF Shape, Nodes, Contents
<1>5. /\ Len(in') = Len(in) + 1 /\ in' \in Seq(Values)
      /\ \A i \in 1..Len(in) : in'[i] = in[i]
      /\ in'[Len(in) + 1] = value[chain[Len(in) + 2]]
  <2>1. value[next[last]] \in Values
    BY <1>1, <1>4 DEF TypeOK
  <2> QED
    BY <2>1, <1>1, <1>2, <1>4, AppendFacts DEF TypeOK
<1>6. TypeOK'
  BY <1>1, <1>2, <1>4, <1>5 DEF TypeOK
<1>7. Shape' /\ Nodes'
  <2>1. Nodes'
    BY <1>1, <1>2 DEF Nodes
  <2>2. Shape'
    BY <1>1, <1>2, <1>3, <1>4, <1>5 DEF Shape
  <2> QED
    BY <2>1, <2>2
<1>8. Contents'
  <2>1. \A i \in (nfreed + 1)..Len(chain) :
          (2 =< i /\ i =< Len(in) + 2) => value[chain[i]] = in'[i - 1]
    <3> SUFFICES ASSUME NEW i \in (nfreed + 1)..Len(chain), 2 =< i, i =< Len(in) + 2
                 PROVE  value[chain[i]] = in'[i - 1]
      OBVIOUS
    <3>1. CASE i = Len(in) + 2
      BY <3>1, <1>3, <1>5
    <3>2. CASE i =< Len(in) + 1
      <4>1. value[chain[i]] = in[i - 1]
        BY <3>2, <1>1, <1>3 DEF Contents
      <4>2. i - 1 \in 1..Len(in)
        BY <3>2, <1>3
      <4> QED
        BY <4>1, <4>2, <1>5
    <3>3. i = Len(in) + 2 \/ i =< Len(in) + 1
      BY <1>3
    <3> QED
      BY <3>1, <3>2, <3>3
  <2> QED
    BY <1>1, <1>2, <1>3, <1>5, <2>1 DEF Contents
<1>9. Control' /\ Ordered' /\ SizeAccounting'
  BY <1>1, <1>2, <1>3, <1>5 DEF Control, Ordered, SizeAccounting
<1> QED
  BY <1>6, <1>7, <1>8, <1>9 DEF Inv

\* Deleting the first node, by the cleanup loop or by the destructor.
LEMMA DeleteFirst ==
  ASSUME TypeOK, Shape, Nodes, Contents, nfreed < Len(chain),
         first' = next[first], live' = live \ {first}, nfreed' = nfreed + 1,
         UNCHANGED <<next, value, in, chain>>
  PROVE  first' \in Addr \cup {Null} /\ nfreed' \in Nat /\ live' \subseteq Addr
         /\ Contents'
         /\ nfreed' =< Len(chain)
         /\ first' = (IF nfreed' < Len(chain) THEN chain[nfreed' + 1] ELSE Null)
         /\ (\A i \in (nfreed' + 1)..Len(chain) : chain[i] \in live')
         /\ (\A a \in live' : \E i \in (nfreed' + 1)..Len(chain) : chain[i] = a)
<1> USE QueueAssumption
<1>1. /\ Len(chain) \in Nat /\ nfreed \in Nat /\ Len(in) \in Nat
      /\ \A i \in 1..Len(chain) : chain[i] \in Addr
  BY ElementFacts DEF TypeOK
<1>2. first = chain[nfreed + 1] /\ first \in Addr
  BY <1>1 DEF Shape, Nodes
<1>3. first' = (IF nfreed + 1 < Len(chain) THEN chain[nfreed + 2] ELSE Null)
  <2>1. CASE nfreed + 1 < Len(chain)
    BY <2>1, <1>1, <1>2 DEF Contents
  <2>2. CASE nfreed + 1 = Len(chain)
    BY <2>2, <1>1, <1>2 DEF Contents
  <2> QED
    BY <2>1, <2>2, <1>1
<1>4. \A i \in (nfreed + 2)..Len(chain) : chain[i] # first
  BY <1>1, <1>2 DEF Shape, Nodes
<1>5. Contents'
  BY <1>1 DEF Contents
<1> QED
  BY <1>1, <1>2, <1>3, <1>4, <1>5 DEF Shape, Nodes, TypeOK

\* The cleanup deletes a consumed node: nothing after divider is touched.
LEMMA ReclaimInv == ASSUME Inv, ReclaimFree PROVE Inv'
<1>1. TypeOK /\ Shape /\ Nodes /\ Contents /\ Control /\ Ordered /\ SizeAccounting
  BY DEF Inv
<1>2. /\ ppc = "free" /\ ppc' = "test" /\ first' = next[first]
      /\ live' = live \ {first} /\ nfreed' = nfreed + 1
      /\ UNCHANGED <<divider, last, _size, next, value, cpc, result, in, out, chain>>
  BY DEF ReclaimFree
<1>3. /\ Len(chain) \in Nat /\ Len(in) \in Nat /\ Len(out) \in Nat /\ nfreed \in Nat
      /\ nfreed < Len(out) /\ Len(out) =< Len(in) /\ Len(chain) = Len(in) + 1
  BY <1>1, <1>2, ElementFacts DEF TypeOK, Shape, Nodes, Control
<1>4. /\ first' \in Addr \cup {Null} /\ nfreed' \in Nat /\ live' \subseteq Addr
      /\ Contents'
      /\ nfreed' =< Len(chain)
      /\ first' = (IF nfreed' < Len(chain) THEN chain[nfreed' + 1] ELSE Null)
      /\ \A i \in (nfreed' + 1)..Len(chain) : chain[i] \in live'
      /\ \A a \in live' : \E i \in (nfreed' + 1)..Len(chain) : chain[i] = a
  BY <1>1, <1>2, <1>3, DeleteFirst
<1>5. TypeOK'
  BY <1>1, <1>2, <1>4 DEF TypeOK
<1>6. Shape' /\ Nodes'
  <2>1. Nodes'
    BY <1>1, <1>2, <1>3, <1>4 DEF Nodes
  <2>2. Shape'
    BY <1>1, <1>2, <1>3, <1>4 DEF Shape
  <2> QED
    BY <2>1, <2>2
<1>7. Control' /\ Ordered' /\ SizeAccounting'
  BY <1>1, <1>2, <1>3 DEF Control, Ordered, SizeAccounting
<1> QED
  BY <1>4, <1>5, <1>6, <1>7 DEF Inv

\* Moving divider hands the element out and gives the node to the producer.
LEMMA AdvanceInv == ASSUME Inv, ConsumeAdvance PROVE Inv'
<1>1. TypeOK /\ Shape /\ Nodes /\ Contents /\ Control /\ Ordered /\ SizeAccounting
  BY DEF Inv
<1>2. /\ cpc = "advance" /\ cpc' = "count"
      /\ divider' = next[divider] /\ out' = Append(out, result)
      /\ UNCHANGED <<first, last, _size, next, value, live, ppc, result,
                     in, chain, nfreed>>
  BY DEF ConsumeAdvance, heap
<1>3. /\ Len(chain) \in Nat /\ Len(in) \in Nat /\ Len(out) \in Nat /\ nfreed \in Nat
      /\ \A i \in 1..Len(chain) : chain[i] \in Addr
      /\ nfreed =< Len(out) /\ Len(out) < Len(in) /\ Len(in) + 1 =< Len(chain)
  BY <1>1, <1>2, ElementFacts DEF TypeOK, Shape, Nodes, Control
<1>4. next[divider] = chain[Len(out) + 2] /\ next[divider] \in Addr
  BY <1>1, <1>3, DividerNext
<1>5. /\ Len(out') = Len(out) + 1 /\ out' \in Seq(Values)
      /\ \A i \in 1..Len(out) : out'[i] = out[i]
      /\ out'[Len(out) + 1] = in[Len(out) + 1]
  BY <1>1, <1>2, AppendFacts DEF TypeOK, Control
<1>6. TypeOK'
  BY <1>1, <1>2, <1>4, <1>5 DEF TypeOK
<1>7. Shape' /\ Nodes'
  <2>1. Nodes'
    BY <1>1, <1>2 DEF Nodes
  <2>2. Shape'
    BY <1>1, <1>2, <1>3, <1>4, <1>5 DEF Shape
  <2> QED
    BY <2>1, <2>2
<1>8. Contents'
  BY <1>1, <1>2 DEF Contents
<1>9. Control' /\ SizeAccounting'
  BY <1>1, <1>2, <1>3, <1>5 DEF Control, SizeAccounting
<1>10. Ordered'
  BY <1>1, <1>2, <1>3, <1>5 DEF Ordered
<1> QED
  BY <1>6, <1>7, <1>8, <1>9, <1>10 DEF Inv

\* The destructor deletes every node, consumed or not.
LEMMA DestroyFreeInv == ASSUME Inv, DestroyFree PROVE Inv'
<1>1. TypeOK /\ Shape /\ Nodes /\ Contents /\ Control /\ Ordered /\ SizeAccounting
  BY DEF Inv
<1>2. /\ ppc = "destroy" /\ first # Null /\ first' = next[first]
      /\ live' = live \ {first} /\ nfreed' = nfreed + 1
      /\ UNCHANGED <<divider, last, _size, next, value, ppc, cpc, result, in, out, chain>>
  BY DEF DestroyFree
<1>3. /\ Len(chain) \in Nat /\ Len(in) \in Nat /\ Len(out) \in Nat /\ nfreed \in Nat
      /\ nfreed < Len(chain)
  BY <1>1, <1>2, ElementFacts DEF TypeOK, Shape, Nodes
<1>4. /\ first' \in Addr \cup {Null} /\ nfreed' \in Nat /\ live' \subseteq Addr
      /\ Contents'
      /\ nfreed' =< Len(chain)
      /\ first' = (IF nfreed' < Len(chain) THEN chain[nfreed' + 1] ELSE Null)
      /\ \A i \in (nfreed' + 1)..Len(chain) : chain[i] \in live'
      /\ \A a \in live' : \E i \in (nfreed' + 1)..Len(chain) : chain[i] = a
  BY <1>1, <1>2, <1>3, DeleteFirst
<1>5. TypeOK'
  BY <1>1, <1>2, <1>4 DEF TypeOK
<1>6. Shape' /\ Nodes'
  <2>1. Nodes'
    BY <1>1, <1>2, <1>3, <1>4 DEF Nodes
  <2>2. Shape'
    BY <1>1, <1>2, <1>3, <1>4 DEF Shape
  <2> QED
    BY <2>1, <2>2
<1>7. Control' /\ Ordered' /\ SizeAccounting'
  BY <1>1, <1>2, <1>3 DEF Control, Ordered, SizeAccounting
<1> QED
  BY <1>4, <1>5, <1>6, <1>7 DEF Inv

\* The other steps move a program counter, load a value or update _size.
LEMMA LocalInv ==
  ASSUME Inv,
         \/ ProduceCount \/ ReclaimTest \/ ConsumeTest \/ ConsumeCopy
         \/ ConsumeCount \/ Destroy \/ DestroyEnd
  PROVE  Inv'
<1> USE QueueAssumption
<1>1. TypeOK /\ Shape /\ Nodes /\ Contents /\ Control /\ Ordered /\ SizeAccounting
  BY DEF Inv
<1>2. UNCHANGED <<first, divider, last, next, value, live, in, out, chain, nfreed>>
  BY DEF ProduceCount, ReclaimTest, ConsumeTest, ConsumeCopy, ConsumeCount,
         Destroy, DestroyEnd, ptrs, heap, hist
<1>3. (ppc # "last" /\ ppc' # "last") \/ ppc' = ppc
  BY DEF ProduceCount, ReclaimTest, ConsumeTest, ConsumeCopy, ConsumeCount,
         Destroy, DestroyEnd
<1>4. Shape' /\ Nodes' /\ Contents' /\ Ordered'
  BY <1>1, <1>2, <1>3 DEF Shape, Nodes, Contents, Ordered
<1>5. /\ Len(chain) \in Nat /\ Len(in) \in Nat /\ Len(out) \in Nat /\ nfreed \in Nat
      /\ Len(in) < Len(chain)
      /\ \A i \in 1..Len(chain) : chain[i] \in Addr
  BY <1>1, ElementFacts DEF TypeOK, Shape, Nodes
<1>6. CASE ProduceCount
  BY <1>1, <1>2, <1>4, <1>5, <1>6
     DEF ProduceCount, Inv, TypeOK, Control, SizeAccounting
<1>7. CASE ReclaimTest
  <2>1. ppc' = "free" => nfreed < Len(out)
    <3>1. (ppc' = "free" => divider # first) /\ cpc # "ended"
      BY <1>1, <1>7 DEF ReclaimTest, Control
    <3> QED
      BY <3>1, <1>1, <1>5 DEF Shape, Nodes, Control
  <2> QED
    BY <1>1, <1>2, <1>4, <1>5, <1>7, <2>1
       DEF ReclaimTest, Inv, TypeOK, Control, SizeAccounting
<1>8. CASE ConsumeTest
  <2>1. Len(out) < Len(in)
    BY <1>1, <1>5, <1>8 DEF ConsumeTest, Shape
  <2> QED
    BY <1>1, <1>2, <1>4, <1>5, <1>8, <2>1
       DEF ConsumeTest, Inv, TypeOK, Control, SizeAccounting
<1>9. CASE ConsumeCopy
  <2>1. Len(out) < Len(in) /\ nfreed =< Len(out)
    BY <1>1, <1>9 DEF ConsumeCopy, Control
  <2>2. next[divider] = chain[Len(out) + 2]
    BY <1>1, <1>5, <2>1, DividerNext
  <2>3. value[next[divider]] = in[Len(out) + 1] /\ next[divider] \in Addr
    BY <1>1, <1>5, <2>1, <2>2 DEF Contents
  <2> QED
    BY <1>1, <1>2, <1>4, <1>5, <1>9, <2>1, <2>3
       DEF ConsumeCopy, Inv, TypeOK, Control, SizeAccounting
<1>10. CASE ConsumeCount
  BY <1>1, <1>2, <1>4, <1>5, <1>10
     DEF ConsumeCount, Inv, TypeOK, Control, SizeAccounting
<1>11. CASE Destroy
  BY <1>1, <1>2, <1>4, <1>5, <1>11
     DEF Destroy, Inv, TypeOK, Control, SizeAccounting
<1>12. CASE DestroyEnd
  <2>1. nfreed = Len(chain)
    BY <1>1, <1>5, <1>12 DEF DestroyEnd, Shape
  <2> QED
    BY <1>1, <1>2, <1>4, <1>5, <1>12, <2>1
       DEF DestroyEnd, Inv, TypeOK, Control, SizeAccounting
<1> QED
  BY <1>6, <1>7, <1>8, <1>9, <1>10, <1>11, <1>12

\* Every step of every thread preserves the invariant.
LEMMA NextInv == Inv /\ [Next]_vars => Inv'
<1> SUFFICES ASSUME Inv, [Next]_vars PROVE Inv'
  OBVIOUS
<1>1. CASE \E v \in Values : ProduceLink(v)
  BY <1>1, LinkInv
<1>2. CASE ProduceLast
  BY <1>2, PublishInv
<1>3. CASE ReclaimFree
  BY <1>3, ReclaimInv
<1>4. CASE ConsumeAdvance
  BY <1>4, AdvanceInv
<1>5. CASE DestroyFree
  BY <1>5, DestroyFreeInv
<1>6. CASE \/ ProduceCount \/ ReclaimTest \/ ConsumeTest \/ ConsumeCopy
           \/ ConsumeCount \/ Destroy \/ DestroyEnd
  BY <1>6, LocalInv
<1>7. CASE UNCHANGED vars
  <2>1. TypeOK' /\ Shape' /\ Nodes'
    BY <1>7 DEF vars, Inv, TypeOK, Shape, Nodes
  <2>2. Contents' /\ Control' /\ Ordered' /\ SizeAccounting'
    BY <1>7 DEF vars, Inv, Contents, Control, Ordered, SizeAccounting
  <2> QED
    BY <2>1, <2>2 DEF Inv
<1> QED
  BY <1>1, <1>2, <1>3, <1>4, <1>5, <1>6, <1>7
     DEF Next, Producer, Consumer, Destructor

\* The inductive invariant holds in every reachable state.
THEOREM Invariance == Spec => []Inv
  BY InitInv, NextInv, PTL DEF Spec

\* Pointers, counters and histories keep their types.
THEOREM TypeCorrect == Spec => []TypeOK
<1>1. Inv => TypeOK
  BY DEF Inv
<1> QED
  BY <1>1, Invariance, PTL

\* The counter _size is exact up to the two pending updates.
THEOREM SizeCorrect == Spec => []SizeAccounting
<1>1. Inv => SizeAccounting
  BY DEF Inv
<1> QED
  BY <1>1, Invariance, PTL

\* Neither thread, nor the destructor, touches a node after it was deleted,
\* although the consumer reads nodes that the producer deletes.
THEOREM MemorySafe == Spec => []NoUseAfterFree
<1>1. Inv => NoUseAfterFree
  <2> SUFFICES ASSUME Inv PROVE NoUseAfterFree
    OBVIOUS
  <2>1. TypeOK /\ Shape /\ Nodes /\ Contents /\ Control
    BY DEF Inv
  <2>2. /\ Len(chain) \in Nat /\ Len(in) \in Nat /\ Len(out) \in Nat /\ nfreed \in Nat
        /\ Len(in) + 1 =< Len(chain) /\ Len(out) =< Len(in)
        /\ \A i \in 1..Len(chain) : chain[i] \in Addr
    BY <2>1, ElementFacts DEF TypeOK, Shape, Nodes
  <2>3. cpc # "ended" => divider \in live /\ last \in live /\ first \in live
    BY <2>1, <2>2 DEF Shape, Nodes, Control
  <2>4. cpc \in {"copy", "advance"} => next[divider] \in live
    <3> SUFFICES ASSUME cpc \in {"copy", "advance"} PROVE next[divider] \in live
      OBVIOUS
    <3>1. Len(out) < Len(in) /\ nfreed =< Len(out)
      BY <2>1 DEF Control
    <3>2. next[divider] = chain[Len(out) + 2]
      BY <2>1, <2>2, <3>1, DividerNext
    <3> QED
      BY <2>1, <2>2, <3>1, <3>2 DEF Shape, Nodes
  <2>5. ppc = "last" => next[last] \in live
    <3> SUFFICES ASSUME ppc = "last" PROVE next[last] \in live
      OBVIOUS
    <3>1. Len(chain) = Len(in) + 2 /\ nfreed =< Len(out)
      BY <2>1, <2>2 DEF Shape, Nodes, Control
    <3>2. next[last] = chain[Len(in) + 2]
      BY <2>1, <2>2, <3>1 DEF Shape, Nodes, Contents
    <3> QED
      BY <2>1, <2>2, <3>1, <3>2 DEF Shape, Nodes
  <2>6. (ppc = "destroy" /\ first # Null) => first \in live
    BY <2>1, <2>2 DEF Shape, Nodes
  <2>7. ppc \in {"idle", "last", "free"} => cpc # "ended"
    BY <2>1 DEF Control
  <2> QED
    BY <2>3, <2>4, <2>5, <2>6, <2>7, <2>1 DEF NoUseAfterFree, Control
<1> QED
  BY <1>1, Invariance, PTL

\* When the destructor returns, every node ever allocated has been deleted.
THEOREM LeakFree == Spec => []NoLeak
<1>1. Inv => NoLeak
  <2> SUFFICES ASSUME Inv, ppc = "ended" PROVE live = {}
    BY DEF NoLeak
  <2>1. TypeOK /\ Shape /\ Nodes /\ Control
    BY DEF Inv
  <2>2. nfreed = Len(chain) /\ Len(chain) \in Nat
    BY <2>1, ElementFacts DEF TypeOK, Control
  <2>3. (nfreed + 1)..Len(chain) = {}
    BY <2>2
  <2> QED
    BY <2>1, <2>3 DEF Shape, Nodes
<1> QED
  BY <1>1, Invariance, PTL

\* produce(), consume() and the destructor delete every node once, and none too early.
THEOREM MemoryManaged == Spec => []MemorySafety
BY MemorySafe, LeakFree, PTL DEF MemorySafety

\* The lock-free list implements the abstract first-in first-out queue.
THEOREM Refinement == Spec => ImplementsFifo
<1>1. Init => Abstract!FifoInit
  BY DEF Init, Abstract!FifoInit
<1>2. Inv /\ [Next]_vars => [Abstract!FifoNext]_(Abstract!fifoVars)
  <2> SUFFICES ASSUME Inv, [Next]_vars
               PROVE  Abstract!FifoNext \/ UNCHANGED <<in, out>>
    BY DEF Abstract!fifoVars
  <2>0. TypeOK /\ Shape /\ Nodes /\ Contents /\ Control
    BY DEF Inv
  <2>1. CASE ProduceLast
    <3>1. /\ Len(chain) = Len(in) + 2 /\ nfreed =< Len(in)
          /\ Len(in) \in Nat /\ nfreed \in Nat
          /\ \A i \in 1..Len(chain) : chain[i] \in Addr
      BY <2>0, <2>1, ElementFacts DEF ProduceLast, TypeOK, Shape, Nodes, Control
    <3>2. next[last] = chain[Len(in) + 2] /\ next[last] \in Addr
      <4>1. Len(in) + 1 \in (nfreed + 1)..(Len(chain) - 1)
        BY <3>1
      <4>2. next[chain[Len(in) + 1]] = chain[(Len(in) + 1) + 1]
        BY <2>0, <4>1 DEF Contents
      <4> QED BY <2>0, <3>1, <4>2 DEF Shape
    <3>3. value[next[last]] \in Values
      BY <2>0, <3>2 DEF TypeOK
    <3> QED
      BY <2>1, <3>3 DEF ProduceLast, Abstract!FifoNext, Abstract!Put
  <2>2. CASE ConsumeAdvance
    BY <2>0, <2>2 DEF ConsumeAdvance, Control, Abstract!FifoNext, Abstract!Get
  <2>3. CASE \/ \E v \in Values : ProduceLink(v)
             \/ ProduceCount \/ ReclaimTest \/ ReclaimFree
             \/ ConsumeTest \/ ConsumeCopy \/ ConsumeCount
             \/ Destroy \/ DestroyFree \/ DestroyEnd \/ UNCHANGED vars
    BY <2>3 DEF ProduceLink, ProduceCount, ReclaimTest, ReclaimFree, ConsumeTest,
         ConsumeCopy, ConsumeCount, Destroy, DestroyFree, DestroyEnd, hist, vars
  <2> QED
    BY <2>1, <2>2, <2>3 DEF Next, Producer, Consumer, Destructor
<1> QED
  BY <1>1, <1>2, Invariance, PTL DEF Spec, ImplementsFifo, Abstract!FifoSpec

-----------------------------------------------------------------------------
(* TcpFraming *)

\* Smaller is the minimum of two numbers: what read() and write() return.
LEMMA SmallerFact ==
  ASSUME NEW a \in Nat, NEW b \in Nat
  PROVE  Smaller(a, b) \in Nat /\ Smaller(a, b) =< a /\ Smaller(a, b) =< b
BY DEF Smaller

\* A connection starts with nothing read: TcpConnection().
LEMMA FramingStarts == FramingInit => FramingInv
<1> SUFFICES ASSUME FramingInit PROVE FramingInv
  OBVIOUS
<1>1. << >> \in Seq(1..ReplySize)
  OBVIOUS
<1>2. FramingTypeOK
  BY <1>1, FramingAssumption DEF FramingInit, FramingTypeOK
<1>3. ParserFields
  BY FramingAssumption DEF FramingInit, ParserFields
<1>4. NothingLeft
  BY FramingAssumption DEF FramingInit, NothingLeft, Fits
<1> QED BY <1>2, <1>3, <1>4 DEF FramingInv

\* _close_conn() keeps the invariant: it only gives up the connection.
LEMMA FramingClose ==
  ASSUME FramingInv, Close, UNCHANGED client PROVE FramingInv'
BY DEF FramingInv, Close, client, parser, writer, FramingTypeOK, ParserFields, NothingLeft, Fits

\* The client's own steps keep the invariant.
LEMMA FramingClient ==
  ASSUME FramingInv, ClientSend \/ ClientReceive PROVE FramingInv'
<1>1. CASE ClientSend
  <2>1. PICK n \in 1..(MaxSent - sent) : sent' = sent + n
    BY <1>1 DEF ClientSend
  <2>2. n \in Nat /\ sent \in Nat /\ sent' \in Nat /\ sent' >= sent
    BY <2>1, FramingAssumption DEF FramingInv, FramingTypeOK
  <2>3. UNCHANGED <<body, magic, valid, parser, writer, open, at>>
    BY <1>1 DEF ClientSend
  <2>4. FramingTypeOK'
    BY <2>2, <2>3 DEF FramingInv, FramingTypeOK, parser, writer
  <2>5. body \in Nat
    BY FramingAssumption DEF FramingInv, FramingTypeOK
  <2>6. ParserFields'
    BY <2>2, <2>3, <2>5, FramingAssumption DEF FramingInv, FramingTypeOK, ParserFields, parser
  <2>7. NothingLeft'
    BY <2>3 DEF FramingInv, NothingLeft, Fits, parser
  <2> QED BY <2>4, <2>6, <2>7 DEF FramingInv
<1>2. CASE ClientReceive
  BY <1>2, FramingAssumption
  DEF ClientReceive, FramingInv, client, parser, FramingTypeOK, ParserFields, NothingLeft, Fits
<1> QED BY <1>1, <1>2

\* _read_query() keeps the invariant up to the start of the parsing loop.
LEMMA FramingRead ==
  ASSUME FramingInv, ReadQuery PROVE FramingInv'
<1> DEFINE n == Smaller(expected, sent - qlen)
<1>1. sent - qlen \in Nat /\ expected \in Nat
  BY DEF FramingInv, FramingTypeOK, ReadQuery
<1>2. n \in Nat /\ n =< sent - qlen
  BY <1>1, SmallerFact
<1>3. UNCHANGED client
  BY DEF ReadQuery
<1>4. CASE n = 0
  BY <1>3, <1>4, FramingClose DEF ReadQuery
<1>5. CASE n # 0
  <2>1. /\ qlen' = qlen + n /\ at' = "read"
        /\ UNCHANGED <<state, expected, processed, requests, writer, open>>
    BY <1>5 DEF ReadQuery
  <2> HIDE DEF n
  <2>2. qlen' \in Nat /\ qlen' >= qlen /\ qlen' =< sent
    BY <1>1, <1>2, <2>1 DEF FramingInv, FramingTypeOK
  <2>3. FramingTypeOK'
    BY <1>3, <2>1, <2>2 DEF FramingInv, FramingTypeOK, client, writer
  <2>4. body \in Nat
    BY FramingAssumption DEF FramingInv, FramingTypeOK
  <2>5. ParserFields'
    BY <1>3, <2>1, <2>2, <2>4, FramingAssumption DEF FramingInv, FramingTypeOK, ParserFields, client
  <2>6. NothingLeft'
    BY <2>1 DEF NothingLeft
  <2> QED BY <2>3, <2>5, <2>6 DEF FramingInv
<1> QED BY <1>4, <1>5

\* Each iteration of _process_query_buffer(), and its end, keep the invariant.
LEMMA FramingParse ==
  ASSUME FramingInv, ParseHead \/ ParseBody \/ ParseEnd PROVE FramingInv'
<1>0. body \in Nat
  BY FramingAssumption DEF FramingInv, FramingTypeOK
<1>1. CASE ParseHead
  <2>1. CASE ~ magic
    BY <1>1, <2>1, FramingClose DEF ParseHead
  <2>2. CASE magic
    <3>1. /\ state' = "BODY" /\ processed' = HeadSize /\ expected' = body
          /\ UNCHANGED <<qlen, requests, writer, open, at>> /\ UNCHANGED client
      BY <1>1, <2>2 DEF ParseHead
    <3>2. FramingTypeOK'
      BY <1>0, <3>1, FramingAssumption DEF FramingInv, FramingTypeOK, client, writer
    <3>3. ParserFields'
      BY <1>0, <1>1, <3>1, FramingAssumption
      DEF FramingInv, FramingTypeOK, ParserFields, client, ParseHead, Fits
    <3>4. NothingLeft'
      BY <1>1, <3>1 DEF NothingLeft, ParseHead
    <3> QED BY <3>2, <3>3, <3>4 DEF FramingInv
  <2> QED BY <2>1, <2>2
<1>2. CASE ParseBody
  <2>1. CASE ~ valid
    BY <1>2, <2>1, FramingClose DEF ParseBody
  <2>2. CASE valid
    <3>1. /\ requests' = requests + 1 /\ processed' = Seal
          /\ UNCHANGED <<qlen, state, expected, writer, open, at>> /\ UNCHANGED client
      BY <1>2, <2>2 DEF ParseBody
    <3>2. FramingTypeOK'
      BY <3>1, FramingAssumption DEF FramingInv, FramingTypeOK, client, writer
    <3>3. qlen >= processed + body /\ qlen =< sent
      BY <1>0, <1>2, FramingAssumption DEF FramingInv, FramingTypeOK, ParserFields, ParseBody, Fits
    <3>4. ParserFields'
      BY <1>0, <1>2, <3>1, <3>3, FramingAssumption
      DEF FramingInv, FramingTypeOK, ParserFields, client, ParseBody
    <3>5. NothingLeft'
      BY <1>2, <3>1 DEF NothingLeft, ParseBody
    <3> QED BY <3>2, <3>4, <3>5 DEF FramingInv
  <2> QED BY <2>1, <2>2
<1>3. CASE ParseEnd
  BY <1>3 DEF ParseEnd, FramingInv, client, parser, writer, FramingTypeOK, ParserFields, NothingLeft, Fits
<1> QED BY <1>1, <1>2, <1>3

\* _add_reply() and _write_query() keep the invariant; cur_resp_pos stays in the reply.
LEMMA FramingWrite ==
  ASSUME FramingInv, AddReply \/ WriteQuery \/ WriteOnce \/ WriteEnd PROVE FramingInv'
<1>1. CASE AddReply
  BY <1>1 DEF AddReply, FramingInv, client, parser, FramingTypeOK, ParserFields, NothingLeft, Fits
<1>2. CASE WriteQuery \/ WriteEnd
  BY <1>2, SMTT(40) DEF WriteQuery, WriteEnd, FramingInv, client, parser, writer, FramingTypeOK, ParserFields,
              NothingLeft, Fits
<1>3. CASE WriteOnce
  <2> DEFINE n == Smaller(ReplySize, room)
             done == n > 0 /\ n + pos >= ReplySize
             part == [i \in 1..n |-> i]
  <2>0. ReplySize \in Nat /\ room \in Nat
    BY FramingAssumption DEF FramingInv, FramingTypeOK
  <2>1. n \in Nat /\ n =< ReplySize /\ n =< room
    BY <2>0, SmallerFact
  <2>2. part \in Seq(1..ReplySize)
    <3>1. \A i \in 1..n : i \in 1..ReplySize
      BY <2>1, FramingAssumption
    <3>2. part \in [1..n -> 1..ReplySize]
      BY <3>1
    <3>3. Seq(1..ReplySize) = UNION {[1..k -> 1..ReplySize] : k \in Nat}
      BY SeqDef
    <3> HIDE DEF part, n
    <3> QED BY <2>1, <3>2, <3>3
  <2>3. /\ room' = room - n
        /\ wire' = wire \o part
        /\ pos' = IF done THEN 0 ELSE pos + n
        /\ replies' = IF done THEN replies - 1 ELSE replies
        /\ replies > 0
        /\ UNCHANGED <<client, parser, answered, open, at>>
    BY <1>3 DEF WriteOnce
  <2> HIDE DEF n, part
  <2>4. wire' \in Seq(1..ReplySize)
    BY <2>2, <2>3 DEF FramingInv, FramingTypeOK
  <2>5. room' \in 0..Room
    BY <2>1, <2>3, FramingAssumption DEF FramingInv, FramingTypeOK
  <2>6. pos' \in 0..(ReplySize - 1)
    BY <2>1, <2>3, FramingAssumption DEF FramingInv, FramingTypeOK
  <2>7. replies' \in Nat
    BY <2>3 DEF FramingInv, FramingTypeOK
  <2>8. FramingTypeOK'
    BY <2>3, <2>4, <2>5, <2>6, <2>7 DEF FramingInv, FramingTypeOK, client, parser
  <2>9. ParserFields' /\ NothingLeft'
    BY <2>3 DEF FramingInv, ParserFields, NothingLeft, Fits, client, parser
  <2> QED BY <2>8, <2>9 DEF FramingInv
<1> QED BY <1>1, <1>2, <1>3

\* Every step keeps the invariant.
LEMMA FramingStep ==
  ASSUME FramingInv, [FramingNext]_framingVars PROVE FramingInv'
<1>1. CASE UNCHANGED framingVars
  BY <1>1 DEF framingVars, FramingInv, FramingTypeOK, ParserFields, NothingLeft, Fits
<1>2. CASE ReadEnd \/ WriteFail
  BY <1>2, FramingClose DEF ReadEnd, WriteFail
<1> QED BY <1>1, <1>2, FramingClient, FramingRead, FramingParse, FramingWrite DEF FramingNext

\* FramingInv is an invariant of the connection.
THEOREM FramingInvariance == FramingSpec => []FramingInv
<1>1. FramingInit => FramingInv
  BY FramingStarts
<1>2. FramingInv /\ [FramingNext]_framingVars => FramingInv'
  BY FramingStep
<1> QED BY <1>1, <1>2, PTL DEF FramingSpec

\* The fields of a connection keep their types; cur_resp_pos lies inside a reply.
THEOREM FramingTypeCorrect == FramingSpec => []FramingTypeOK
<1>1. FramingInv => FramingTypeOK
  BY DEF FramingInv
<1> QED BY <1>1, FramingInvariance, PTL

\* Requests are cut out of the byte stream exactly: between two handlers, and below
\* the seal, the request has been handed on if and only if its bytes are all in.
THEOREM FramingExact == FramingSpec => []RequestExact
<1>1. ASSUME FramingInv PROVE RequestExact
  <2> SUFFICES ASSUME at # "read", open, sent < Seal + body
               PROVE  requests = IF qlen >= HeadSize + body THEN 1 ELSE 0
    BY DEF RequestExact
  <2>1. body \in Nat /\ ~ Fits
    BY <1>1, FramingAssumption DEF FramingInv, FramingTypeOK, NothingLeft
  <2> QED BY <1>1, <2>1, FramingAssumption DEF FramingInv, FramingTypeOK, ParserFields, Fits
<1> QED BY <1>1, FramingInvariance, PTL

=============================================================================
