----------------------------- MODULE MCSignaling -----------------------------
(* Model checking Signaling: two workers of each kind, three connections, two *)
(* of them about the same stream, fewer descriptors and addresses than        *)
(* connections so that they are reused, and pipes that hold one int.          *)
EXTENDS Signaling, TLC

CONSTANTS f1, f2, p1, p2, c1, c2, c3, r1, r2, s1, s2

MCClient   == {c1, c2, c3}
MCRtcWorker == {r1, r2}
MCStreamOf == [c \in MCClient |-> IF c \in {c1, c2} THEN s1 ELSE s2]
MCFd       == {f1, f2}
MCPtr      == {p1, p2}
MCHash     == [n \in {s1, s2} |-> IF n = s1 THEN r1 ELSE r2]

\* What nothing refers to: a descriptor, an address.  Two of them are alike in everything
\* that can follow.
MCMessages == UNION {{msgq[t][i] : i \in DOMAIN msgq[t]} : t \in Receiver}
                \cup UNION {{conn[p].replies[i] : i \in DOMAIN conn[p].replies} :
                             p \in {q \in Ptr : conn[q] # Null}}
IdleFd(f) ==
  /\ sock[f] = Null
  /\ \A w \in SigWorkers : tcpConns[w][f] = Null /\ \A i \in DOMAIN connq[w] : connq[w][i] # f
  /\ \A m \in MCMessages : m.fd # f
IdlePtr(p) ==
  /\ conn[p] = Null /\ \A m \in MCMessages : m.conn # p
  /\ \A w \in SigWorkers : closing[w] # p /\ \A f \in Fd : tcpConns[w][f] # p

MCRank == [x \in {f1, p1} |-> 1] @@ [x \in {f2, p2} |-> 2]

\* Of alike ones the first is taken, and of the two connections about one stream c1 comes
\* first: a behaviour with the names exchanged needs no check of its own.
InOrder ==
  /\ phase[c1] = "new" => phase'[c2] = "new"
  /\ \A f, g \in Fd : MCRank[f] < MCRank[g] /\ IdleFd(f) /\ IdleFd(g) => sock'[g] = Null
  /\ \A p, q \in Ptr : MCRank[p] < MCRank[q] /\ IdlePtr(p) /\ IdlePtr(q) => conn'[q] = Null
=============================================================================
