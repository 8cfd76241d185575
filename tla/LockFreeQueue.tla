---------------------------- MODULE LockFreeQueue ----------------------------
(***************************************************************************)
(* LockFreeQueue<T> of src/src/base/lock_free_queue.h: a linked list shared *)
(* by one producer and one consumer thread, without a lock.  Every load or  *)
(* store that the other thread can observe is a step of its own.  The build *)
(* is not optimised and its target is x86-64, so stores become visible in   *)
(* program order and the two updates of _size are full barriers.            *)
(*                                                                         *)
(* Nodes live at addresses that the allocator may hand out again as soon as *)
(* they are deleted; a deleted node keeps its last contents, as freed       *)
(* memory does.  in, out, chain and nfreed are history variables.           *)
(***************************************************************************)
EXTENDS Integers, Sequences

CONSTANTS Values,      \* elements
          Addr,        \* addresses the allocator may return
          Null,        \* nullptr
          MaxProduce   \* bound: calls of produce()

ASSUME QueueAssumption == /\ Null \notin Addr
                          /\ Addr # {} /\ Values # {}
                          /\ MaxProduce \in Nat

VARIABLES first, divider, last, _size,  \* the members of LockFreeQueue
          next, value,                  \* the fields of every Node
          live,                         \* addresses allocated and not deleted
          ppc, cpc,                     \* where the two threads are
          result,                       \* *result of consume()
          in, out,                      \* elements published / taken so far
          chain, nfreed                 \* addresses linked so far; nodes deleted

ptrs  == <<first, divider, last>>
heap  == <<next, value, live>>
hist  == <<in, out, chain, nfreed>>
vars  == <<first, divider, last, _size, next, value, live, ppc, cpc, result,
           in, out, chain, nfreed>>

-----------------------------------------------------------------------------
\* LockFreeQueue(): one dummy node; T() may be any element.
Init == \E d \in Addr, v \in Values :
          /\ first = d /\ divider = d /\ last = d
          /\ _size = 0
          /\ next = [a \in Addr |-> Null]
          /\ value = [a \in Addr |-> v]
          /\ live = {d}
          /\ ppc = "idle" /\ cpc = "idle"
          /\ result = v
          /\ in = << >> /\ out = << >>
          /\ chain = <<d>> /\ nfreed = 0

-----------------------------------------------------------------------------
(* produce(), the producer thread *)

\* last->next = new Node(t).  The new node is private until it is linked.
ProduceLink(v) ==
  /\ ppc = "idle"
  /\ Len(in) < MaxProduce
  /\ \E a \in Addr \ live :
       /\ live' = live \cup {a}
       /\ value' = [value EXCEPT ![a] = v]
       /\ next' = [next EXCEPT ![a] = Null, ![last] = a]
       /\ chain' = Append(chain, a)
  /\ ppc' = "last"
  /\ UNCHANGED <<ptrs, _size, cpc, result, in, out, nfreed>>

\* last = last->next: from here on the consumer sees the element.
ProduceLast ==
  /\ ppc = "last"
  /\ last' = next[last]
  /\ in' = Append(in, value[next[last]])
  /\ ppc' = "count"
  /\ UNCHANGED <<first, divider, _size, heap, cpc, result, out, chain, nfreed>>

\* ++_size
ProduceCount ==
  /\ ppc = "count"
  /\ _size' = _size + 1
  /\ ppc' = "test"
  /\ UNCHANGED <<ptrs, heap, cpc, result, hist>>

\* Mutant: the cleanup runs up to last, as if every linked node were consumed.
ReclaimTestToLast ==
  /\ ppc = "test"
  /\ ppc' = IF last # first THEN "free" ELSE "idle"
  /\ UNCHANGED <<ptrs, _size, heap, cpc, result, hist>>

\* while (divider != first): the one load of the consumer's pointer.
ReclaimTest ==
  /\ ppc = "test"
  /\ ppc' = IF divider # first THEN "free" ELSE "idle"
  /\ UNCHANGED <<ptrs, _size, heap, cpc, result, hist>>

\* temp = first; first = first->next; delete temp
ReclaimFree ==
  /\ ppc = "free"
  /\ first' = next[first]
  /\ live' = live \ {first}
  /\ nfreed' = nfreed + 1
  /\ ppc' = "test"
  /\ UNCHANGED <<divider, last, _size, next, value, cpc, result, in, out, chain>>

-----------------------------------------------------------------------------
(* consume(), the consumer thread *)

\* if (divider != last); when it fails consume() returns false at once.
ConsumeTest ==
  /\ cpc = "idle"
  /\ divider # last
  /\ cpc' = "copy"
  /\ UNCHANGED <<ptrs, _size, heap, ppc, result, hist>>

\* Mutant: the value of the divider itself, which was already consumed.
ConsumeCopyDivider ==
  /\ cpc = "copy"
  /\ result' = value[divider]
  /\ cpc' = "advance"
  /\ UNCHANGED <<ptrs, _size, heap, ppc, hist>>

\* *result = divider->next->value
ConsumeCopy ==
  /\ cpc = "copy"
  /\ result' = value[next[divider]]
  /\ cpc' = "advance"
  /\ UNCHANGED <<ptrs, _size, heap, ppc, hist>>

\* divider = divider->next: from here on the producer may delete the node.
ConsumeAdvance ==
  /\ cpc = "advance"
  /\ divider' = next[divider]
  /\ out' = Append(out, result)
  /\ cpc' = "count"
  /\ UNCHANGED <<first, last, _size, heap, ppc, result, in, chain, nfreed>>

\* --_size; return true
ConsumeCount ==
  /\ cpc = "count"
  /\ _size' = _size - 1
  /\ cpc' = "idle"
  /\ UNCHANGED <<ptrs, heap, ppc, result, hist>>

-----------------------------------------------------------------------------
(* ~LockFreeQueue(), which its comment allows only after both threads ended *)

Destroy ==
  /\ ppc = "idle" /\ cpc = "idle"
  /\ ppc' = "destroy" /\ cpc' = "ended"
  /\ UNCHANGED <<ptrs, _size, heap, result, hist>>

\* while (first != nullptr) { temp = first; first = first->next; delete temp; }
DestroyFree ==
  /\ ppc = "destroy"
  /\ first # Null
  /\ first' = next[first]
  /\ live' = live \ {first}
  /\ nfreed' = nfreed + 1
  /\ UNCHANGED <<divider, last, _size, next, value, ppc, cpc, result, in, out, chain>>

DestroyEnd ==
  /\ ppc = "destroy"
  /\ first = Null
  /\ _size' = 0
  /\ ppc' = "ended"
  /\ UNCHANGED <<ptrs, heap, cpc, result, hist>>

-----------------------------------------------------------------------------
Producer == \/ \E v \in Values : ProduceLink(v)
            \/ ProduceLast \/ ProduceCount \/ ReclaimTest \/ ReclaimFree
Consumer == ConsumeTest \/ ConsumeCopy \/ ConsumeAdvance \/ ConsumeCount
Destructor == Destroy \/ DestroyFree \/ DestroyEnd

Next == Producer \/ Consumer \/ Destructor

Spec == Init /\ [][Next]_vars

-----------------------------------------------------------------------------
(* Properties *)

\* The pointers hold addresses, the counters integers, the histories elements.
TypeOK ==
  /\ first \in Addr \cup {Null}
  /\ divider \in Addr /\ last \in Addr
  /\ _size \in Int
  /\ next \in [Addr -> Addr \cup {Null}]
  /\ value \in [Addr -> Values]
  /\ live \subseteq Addr
  /\ ppc \in {"idle", "last", "count", "test", "free", "destroy", "ended"}
  /\ cpc \in {"idle", "copy", "advance", "count", "ended"}
  /\ result \in Values
  /\ in \in Seq(Values) /\ out \in Seq(Values)
  /\ chain \in Seq(Addr)
  /\ nfreed \in Nat

\* No thread is about to dereference or delete a node that is already deleted:
\* the producer's last->next and first->next, the consumer's divider->next and
\* divider->next->value, and the destructor's walk.
NoUseAfterFree ==
  /\ ppc \in {"idle", "last"} => last \in live
  /\ ppc = "last" => next[last] \in live
  /\ ppc = "free" => first \in live
  /\ cpc \in {"copy", "advance"} => divider \in live /\ next[divider] \in live
  /\ (ppc = "destroy" /\ first # Null) => first \in live

\* ~LockFreeQueue() leaves no node behind, however far the consumer got.
NoLeak == ppc = "ended" => live = {}

\* Every node is deleted once, and only when neither thread can reach it any more.
MemorySafety == NoUseAfterFree /\ NoLeak

\* The counter is the number of elements, off by one only while one of the two
\* threads is between moving its pointer and updating _size.
SizeAccounting ==
  ppc # "ended" =>
    _size = Len(in) - Len(out) - (IF ppc = "count" THEN 1 ELSE 0)
                               + (IF cpc = "count" THEN 1 ELSE 0)

\* The list between the three pointers: node number i (chain[i]) is deleted for
\* i =< nfreed, consumed for i =< Len(out) + 1 and published for i =< Len(in) + 1.
Shape ==
  /\ Len(chain) = Len(in) + 1 + (IF ppc = "last" THEN 1 ELSE 0)
  /\ nfreed =< Len(chain)
  /\ Len(out) =< Len(in)
  /\ divider = chain[Len(out) + 1]
  /\ last = chain[Len(in) + 1]
  /\ first = IF nfreed < Len(chain) THEN chain[nfreed + 1] ELSE Null

\* The live nodes are exactly the linked ones not yet deleted, all different.
Nodes ==
  /\ \A i \in (nfreed + 1)..Len(chain) : chain[i] \in live
  /\ \A a \in live : \E i \in (nfreed + 1)..Len(chain) : chain[i] = a
  /\ \A i, j \in (nfreed + 1)..Len(chain) : chain[i] = chain[j] => i = j

\* What the live nodes hold.
Contents ==
  /\ \A i \in (nfreed + 1)..(Len(chain) - 1) : next[chain[i]] = chain[i + 1]
  /\ nfreed < Len(chain) => next[chain[Len(chain)]] = Null
  /\ \A i \in (nfreed + 1)..Len(chain) :
       (2 =< i /\ i =< Len(in) + 1) => value[chain[i]] = in[i - 1]

\* Where each thread may be.
Control ==
  /\ (cpc = "ended") <=> (ppc \in {"destroy", "ended"})
  /\ cpc # "ended" => nfreed =< Len(out)
  /\ ppc = "free" => nfreed < Len(out)
  /\ ppc = "ended" => nfreed = Len(chain)
  /\ cpc \in {"copy", "advance"} => Len(out) < Len(in)
  /\ cpc = "advance" => result = in[Len(out) + 1]

\* Elements leave in the order they entered.
Ordered == \A i \in 1..Len(out) : out[i] = in[i]

\* Everything taken together is preserved by every step of either thread.
Inv == TypeOK /\ Shape /\ Nodes /\ Contents /\ Control /\ Ordered /\ SizeAccounting

\* The queue implements Fifo: what consume() copies out of the nodes is what
\* produce() published, in order, although the list is walked without a lock and
\* addresses are reused.
Abstract == INSTANCE Fifo WITH in <- in, out <- out
ImplementsFifo == Abstract!FifoSpec
=============================================================================
