-------------------------- MODULE StunSessionProofs --------------------------
(***************************************************************************)
(* The STUN exchange is correct for every number of requests and pings, all *)
(* kinds of requests and all lengths of USERNAME.                           *)
(*                                                                         *)
(* The first part is about messages: sums of lengths, what RefMessage and   *)
(* the server's builders produce, and that no damaged message passes        *)
(* validate_fingerprint().  The second is about the exchange.               *)
(***************************************************************************)
EXTENDS StunSession, WellFoundedInduction, TLAPS

-----------------------------------------------------------------------------
(* Sums *)

\* Induction over the natural numbers, for sets.
LEMMA NaturalsClosed ==
  ASSUME NEW S, 0 \in S, \A n \in Nat : n \in S => n + 1 \in S
  PROVE  \A n \in Nat : n \in S
<1> SUFFICES ASSUME NEW n \in Nat, n \notin S PROVE FALSE
  OBVIOUS
<1> DEFINE T == Nat \ S
<1>1. PICK k \in T : \A j \in T : ~ (<<j, k>> \in OpToRel(<, Nat))
  <2>1. T \subseteq Nat /\ T # {}
    OBVIOUS
  <2> QED BY <2>1, NatLessThanWellFounded, WFMin
<1>2. k \in Nat /\ k \notin S /\ k # 0
  OBVIOUS
<1>3. k - 1 \in Nat /\ (k - 1) + 1 = k /\ k - 1 < k
  BY <1>2
<1>4. k - 1 \in T
  BY <1>2, <1>3
<1>5. <<k - 1, k>> \in OpToRel(<, Nat)
  BY <1>2, <1>3 DEF OpToRel
<1> QED BY <1>1, <1>4, <1>5

\* SumTo() starts with 0 and adds one number at a time.
LEMMA SumSteps ==
  ASSUME NEW s \in Seq(Nat)
  PROVE  /\ SumTo(s, 0) = 0
         /\ \A n \in 1..Len(s) : SumTo(s, n) = SumTo(s, n - 1) + s[n]
<1> DEFINE N == Len(s)
           Body(f) == [i \in 0..N |-> IF i = 0 THEN 0 ELSE f[i - 1] + s[i]]
           sum == CHOOSE f : f = Body(f)
           Makes(f, n) == /\ f = [k \in 0..n |-> f[k]] /\ f[0] = 0
                          /\ \A k \in 1..n : f[k] = f[k - 1] + s[k]
           S == {n \in Nat : \E f : Makes(f, n)}
<1>1. \A n : SumTo(s, n) = sum[n]
  BY DEF SumTo
<1>2. N \in Nat
  OBVIOUS
<1> HIDE DEF N
<1>3. 0 \in S
  <2>1. Makes([k \in 0..0 |-> 0], 0)
    OBVIOUS
  <2> QED BY <2>1
<1>4. \A n \in Nat : n \in S => n + 1 \in S
  <2> SUFFICES ASSUME NEW n \in Nat, NEW f, Makes(f, n) PROVE \E g : Makes(g, n + 1)
    <3> HIDE DEF Makes
    <3> QED OBVIOUS
  <2> DEFINE g == [k \in 0..(n + 1) |-> IF k = n + 1 THEN f[n] + s[n + 1] ELSE f[k]]
  <2>1. g = [k \in 0..(n + 1) |-> g[k]] /\ g[0] = 0
    OBVIOUS
  <2>2. ASSUME NEW k \in 1..(n + 1) PROVE g[k] = g[k - 1] + s[k]
    <3>1. g[k - 1] = f[k - 1]
      OBVIOUS
    <3>2. CASE k = n + 1
      <4>1. g[k] = f[n] + s[n + 1] /\ k - 1 = n
        BY <3>2
      <4> QED BY <3>1, <3>2, <4>1
    <3>3. CASE k # n + 1
      <4>1. k \in 1..n /\ g[k] = f[k]
        BY <3>3
      <4> QED BY <3>1, <4>1
    <3> QED BY <3>2, <3>3
  <2> QED BY <2>1, <2>2
<1>5. N \in S
  <2> HIDE DEF S
  <2> QED BY <1>2, <1>3, <1>4, NaturalsClosed
<1>6. PICK f : Makes(f, N)
  BY <1>5
<1>7. f = Body(f)
  <2>1. ASSUME NEW n \in 0..N PROVE f[n] = IF n = 0 THEN 0 ELSE f[n - 1] + s[n]
    <3>1. n = 0 \/ n \in 1..N
      BY <1>2
    <3> QED BY <1>6, <3>1, Zenon
  <2>2. [k \in 0..N |-> f[k]] = Body(f)
    BY <2>1
  <2> QED BY <1>6, <2>2
<1> HIDE DEF Body
<1>8. sum = Body(sum)
  BY <1>7, Zenon
<1> HIDE DEF sum
<1>9. \A n \in 0..N : sum[n] = IF n = 0 THEN 0 ELSE sum[n - 1] + s[n]
  <2>1. \A h : \A n \in 0..N : Body(h)[n] = IF n = 0 THEN 0 ELSE h[n - 1] + s[n]
    BY DEF Body
  <2> QED BY <1>8, <2>1, Zenon
<1>10. sum[0] = 0
  BY <1>2, <1>9
<1>11. \A n \in 1..N : sum[n] = sum[n - 1] + s[n]
  <2>1. \A n \in 1..N : n \in 0..N /\ n # 0
    BY <1>2
  <2> QED BY <1>9, <2>1, Zenon
<1> QED BY <1>1, <1>10, <1>11 DEF N

\* Only the first n numbers count.
LEMMA SumAgree ==
  ASSUME NEW s \in Seq(Nat), NEW t \in Seq(Nat), NEW n \in Nat, n =< Len(s), n =< Len(t),
         \A i \in 1..n : s[i] = t[i]
  PROVE  SumTo(s, n) = SumTo(t, n) /\ SumTo(s, n) \in Nat
<1> DEFINE S == {k \in Nat : k =< n => SumTo(s, k) = SumTo(t, k) /\ SumTo(s, k) \in Nat}
<1>1. 0 \in S
  BY SumSteps
<1>2. ASSUME NEW k \in Nat, k \in S PROVE k + 1 \in S
  <2> SUFFICES ASSUME k + 1 =< n
               PROVE  SumTo(s, k + 1) = SumTo(t, k + 1) /\ SumTo(s, k + 1) \in Nat
    OBVIOUS
  <2>1. k + 1 \in 1..n /\ k + 1 \in 1..Len(s) /\ k + 1 \in 1..Len(t) /\ (k + 1) - 1 = k
    <3>1. Len(s) \in Nat /\ Len(t) \in Nat
      OBVIOUS
    <3>2. \A a, b, m \in Nat : m + 1 =< a /\ a =< b => m + 1 \in 1..a /\ m + 1 \in 1..b
      BY SMTT(30)
    <3>3. (k + 1) - 1 = k
      OBVIOUS
    <3> HIDE DEF S
    <3> QED BY <3>1, <3>2, <3>3, Zenon
  <2>2. SumTo(s, k + 1) = SumTo(s, k) + s[k + 1]
    BY <2>1, SumSteps
  <2>3. SumTo(t, k + 1) = SumTo(t, k) + t[k + 1]
    BY <2>1, SumSteps
  <2>4. s[k + 1] \in Nat /\ s[k + 1] = t[k + 1]
    BY <2>1
  <2>5. SumTo(s, k) = SumTo(t, k) /\ SumTo(s, k) \in Nat
    BY <1>2, SMTT(30)
  <2>6. SumTo(s, k) + s[k + 1] \in Nat
    <3> HIDE DEF S
    <3> QED BY <2>4, <2>5, SMTT(30)
  <2> QED BY <2>2, <2>3, <2>4, <2>5, <2>6, Zenon
<1>3. n \in S
  <2> HIDE DEF S
  <2> QED BY <1>1, <1>2, NaturalsClosed
<1> QED BY <1>3

-----------------------------------------------------------------------------
(* Attributes *)

\* An attribute as it should be: it takes the room its length calls for, was not
\* damaged, and has the one size a PRIORITY may have.
Proper(a) ==
  /\ a = Attr(a.t, a.len, a.val)
  /\ a.len \in 0..MaxValue /\ a.room = Pad(a.len)
  /\ a.val # Number(-1)
  /\ a.t = "PRIORITY" => a.len = 4

\* The bounds a length below the largest one gives.
LEMMA LengthBounds ==
  ASSUME NEW n \in 0..MaxValue
  PROVE  n \in Nat /\ n =< MaxValue
BY DEF MaxValue

\* Sixteen bits hold what is less than 65536.
LEMMA SixteenBits ==
  ASSUME NEW k \in Nat, k < 65536
  PROVE  k % 65536 = k
OBVIOUS

LEMMA RoundedIsShort ==
  ASSUME NEW n \in Nat, NEW p \in Nat, p =< n + 3, n =< MaxValue
  PROVE  p < 65536
BY DEF MaxValue

\* Values are rounded up to a multiple of 4.
LEMMA PadFacts ==
  ASSUME NEW n \in 0..MaxValue
  PROVE  Pad(n) \in n..(n + 3) /\ Pad(n) \in Nat /\ Pad(n) % 4 = 0
<1>0. n \in Nat
  BY LengthBounds
<1>1. n \in Nat /\ n % 4 \in 0..3
  BY <1>0
<1>2. ASSUME NEW k \in 0..3, n % 4 = k PROVE Pad(n) = n + ((4 - k) % 4)
  BY <1>2 DEF Pad
<1>3. n % 4 = 0 => Pad(n) = n
  BY <1>1, <1>2
<1>4. n % 4 = 1 => Pad(n) = n + 3
  BY <1>1, <1>2
<1>5. n % 4 = 2 => Pad(n) = n + 2
  BY <1>1, <1>2
<1>6. n % 4 = 3 => Pad(n) = n + 1
  BY <1>1, <1>2
<1>7. n % 4 = 0 \/ n % 4 = 1 \/ n % 4 = 2 \/ n % 4 = 3
  BY <1>1
<1>8. Pad(n) \in n..(n + 3) /\ Pad(n) \in Nat
  BY <1>1, <1>3, <1>4, <1>5, <1>6, <1>7
<1>9. CASE n % 4 = 0
  BY <1>8, <1>3, <1>9
<1>10. CASE n % 4 = 1
  <2>1. (n + 3) % 4 = 0
    BY <1>1, <1>10
  <2> QED BY <1>8, <1>4, <1>10, <2>1
<1>11. CASE n % 4 = 2
  <2>1. (n + 2) % 4 = 0
    BY <1>1, <1>11
  <2> QED BY <1>8, <1>5, <1>11, <2>1
<1>12. CASE n % 4 = 3
  <2>1. (n + 1) % 4 = 0
    BY <1>1, <1>12
  <2> QED BY <1>8, <1>6, <1>12, <2>1
<1> QED BY <1>7, <1>9, <1>10, <1>11, <1>12

LEMMA PadShort ==
  ASSUME NEW n \in 0..MaxValue
  PROVE  Pad(n) % 65536 = Pad(n)
<1>1. PICK p : p = Pad(n)
  OBVIOUS
<1>2. p \in n..(n + 3) /\ p \in Nat
  BY <1>1, PadFacts, Zenon
<1>3. n \in Nat /\ n =< MaxValue
  BY LengthBounds
<1>4. p =< n + 3
  BY <1>2, <1>3
<1>5. p < 65536
  BY <1>2, <1>3, <1>4, RoundedIsShort
<1>6. p % 65536 = p
  BY <1>2, <1>5, SixteenBits
<1> QED BY <1>1, <1>6

\* What Attr() builds is proper.
LEMMA AttrFacts ==
  ASSUME NEW t, NEW n \in 0..MaxValue, NEW v, v # Number(-1), t = "PRIORITY" => n = 4
  PROVE  Proper(Attr(t, n, v)) /\ Attr(t, n, v).t = t /\ Attr(t, n, v).len = n
         /\ Attr(t, n, v).val = v
BY DEF Proper, Attr

\* Text, digests and numbers that are not negative are not damaged values.
LEMMA ValueFacts ==
  /\ \A s : Text(s) # Number(-1)
  /\ \A n \in Nat : Number(n) # Number(-1)
  /\ \A k, m, n, s : Digest(k, m, n, s) # Number(-1)
BY DEF Text, Number, Digest

\* The bytes of a sequence of attributes: nothing for none, and one attribute more
\* takes its header and its room.
LEMMA BytesFacts ==
  ASSUME NEW S, \A a \in S : Proper(a), NEW s \in Seq(S)
  PROVE  /\ AttrBytes(<< >>) = 0
         /\ AttrBytes(s) \in Nat
         /\ \A a \in S : AttrBytes(Append(s, a)) = AttrBytes(s) + 4 + a.room
<1> DEFINE R(q) == [i \in 1..Len(q) |-> k_stun_attribute_header_size + q[i].room]
<1>1. \A a \in S : a.room \in Nat
  BY PadFacts DEF Proper
<1>2. ASSUME NEW q \in Seq(S)
      PROVE  R(q) \in Seq(Nat) /\ Len(R(q)) = Len(q) /\ Len(q) \in Nat
  BY <1>1 DEF k_stun_attribute_header_size
<1>3. AttrBytes(<< >>) = 0
  <2>1. << >> \in Seq(S) /\ Len(<< >>) = 0
    OBVIOUS
  <2>2. R(<< >>) \in Seq(Nat)
    BY <1>2, <2>1
  <2> QED BY <2>1, <2>2, SumSteps DEF AttrBytes
<1>4. AttrBytes(s) \in Nat
  BY <1>2, SumAgree DEF AttrBytes
<1>5. ASSUME NEW a \in S PROVE AttrBytes(Append(s, a)) = AttrBytes(s) + 4 + a.room
  <2> DEFINE p == Append(s, a)
             n == Len(s)
  <2>1. p \in Seq(S) /\ Len(p) = n + 1 /\ n \in Nat /\ p[n + 1] = a
        /\ \A i \in 1..n : p[i] = s[i]
    OBVIOUS
  <2> HIDE DEF p
  <2>2. R(p) \in Seq(Nat) /\ R(s) \in Seq(Nat) /\ Len(R(p)) = n + 1 /\ Len(R(s)) = n
    BY <1>2, <2>1
  <2>3. R(p)[n + 1] = 4 + a.room /\ \A i \in 1..n : R(p)[i] = R(s)[i]
    BY <2>1 DEF k_stun_attribute_header_size
  <2>4. AttrBytes(p) = SumTo(R(p), n + 1) /\ AttrBytes(s) = SumTo(R(s), n)
    BY <2>1 DEF AttrBytes
  <2> HIDE DEF R, n
  <2>5. SumTo(R(p), n) = SumTo(R(s), n) /\ SumTo(R(p), n) \in Nat
    <3>1. n \in Nat /\ n =< Len(R(p)) /\ n =< Len(R(s))
      BY <2>1, <2>2
    <3> QED BY <2>2, <2>3, <3>1, SumAgree, Zenon
  <2>6. n + 1 \in 1..Len(R(p)) /\ (n + 1) - 1 = n
    BY <2>1, <2>2
  <2>7. SumTo(R(p), n + 1) = SumTo(R(p), n) + R(p)[n + 1]
    BY <2>2, <2>6, SumSteps
  <2>8. AttrBytes(p) = AttrBytes(s) + (4 + a.room)
    BY <2>3, <2>4, <2>5, <2>7
  <2>9. AttrBytes(s) + (4 + a.room) = AttrBytes(s) + 4 + a.room
    <3>1. AttrBytes(s) \in Nat /\ a.room \in Nat
      BY <1>1, <1>4, Zenon
    <3>2. \A x, y \in Nat : x + (4 + y) = x + 4 + y
      OBVIOUS
    <3> QED BY <3>1, <3>2, Zenon
  <2> QED BY <2>8, <2>9, Zenon DEF p
<1> QED BY <1>3, <1>4, <1>5

LEMMA BytesAppend ==
  ASSUME NEW S, \A b \in S : Proper(b), NEW s \in Seq(S), NEW a \in S
  PROVE  /\ AttrBytes(Append(s, a)) = AttrBytes(s) + 4 + a.room
         /\ AttrBytes(s) \in Nat /\ a.room \in Nat /\ a.room = Pad(a.len)
<1>1. /\ AttrBytes(s) \in Nat
      /\ \A b \in S : AttrBytes(Append(s, b)) = AttrBytes(s) + 4 + b.room
  BY BytesFacts
<1>2. a.room \in Nat /\ a.room = Pad(a.len)
  BY PadFacts DEF Proper
<1> QED BY <1>1, <1>2, Zenon

\* All lengths on the wire are multiples of 4.
LEMMA BytesAligned ==
  ASSUME NEW S, \A a \in S : Proper(a), NEW s \in Seq(S)
  PROVE  AttrBytes(s) % 4 = 0
<1> DEFINE R == [i \in 1..Len(s) |-> k_stun_attribute_header_size + s[i].room]
           T == {k \in Nat : k =< Len(s) => SumTo(R, k) \in Nat /\ SumTo(R, k) % 4 = 0}
<1>1. \A a \in S : a.room \in Nat /\ a.room % 4 = 0
  BY PadFacts DEF Proper
<1>2. R \in Seq(Nat) /\ Len(R) = Len(s) /\ Len(s) \in Nat
  BY <1>1 DEF k_stun_attribute_header_size
<1>3. \A i \in 1..Len(s) : R[i] \in Nat /\ R[i] % 4 = 0
  <2> SUFFICES ASSUME NEW i \in 1..Len(s) PROVE R[i] \in Nat /\ R[i] % 4 = 0
    OBVIOUS
  <2>1. s[i] \in S /\ R[i] = 4 + s[i].room
    BY DEF k_stun_attribute_header_size
  <2> QED BY <1>1, <2>1
<1>4. AttrBytes(s) = SumTo(R, Len(s))
  BY DEF AttrBytes
<1> HIDE DEF R
<1>5. 0 \in T
  BY <1>2, SumSteps
<1>6. ASSUME NEW k \in Nat, k \in T PROVE k + 1 \in T
  <2> SUFFICES ASSUME k + 1 =< Len(s)
               PROVE  SumTo(R, k + 1) \in Nat /\ SumTo(R, k + 1) % 4 = 0
    OBVIOUS
  <2>1. k + 1 \in 1..Len(s) /\ (k + 1) - 1 = k /\ k =< Len(s)
    BY <1>2
  <2>2. SumTo(R, k + 1) = SumTo(R, k) + R[k + 1]
    BY <1>2, <2>1, SumSteps
  <2>3. R[k + 1] \in Nat /\ R[k + 1] % 4 = 0
    BY <1>3, <2>1
  <2>4. SumTo(R, k) \in Nat /\ SumTo(R, k) % 4 = 0
    BY <1>6, <2>1
  <2> QED BY <2>2, <2>3, <2>4
<1>7. Len(s) \in T
  <2> HIDE DEF T
  <2> QED BY <1>2, <1>5, <1>6, NaturalsClosed
<1> QED BY <1>2, <1>4, <1>7

\* The walk of _validate_message_integrity_of_type() is never off the track when every
\* attribute takes the room it declares.
LEMMA WalkFacts ==
  ASSUME NEW S, \A a \in S : Proper(a), NEW m, m.attrs \in Seq(S),
         NEW i \in 1..Len(m.attrs)
  PROVE  Walk(m, i - 1) = Offset(m, i)
<1> DEFINE s == m.attrs
           q == SubSeq(s, 1, i - 1)
           R == [j \in 1..Len(q) |-> k_stun_attribute_header_size + q[j].room]
           P == [j \in 1..Len(s) |-> k_stun_attribute_header_size + Pad(s[j].len)]
<1>1. \A a \in S : a.room \in Nat /\ a.room = Pad(a.len)
  BY PadFacts DEF Proper
<1>2. i - 1 \in Nat /\ i - 1 =< Len(s) /\ Len(s) \in Nat
  OBVIOUS
<1>3. q \in Seq(S) /\ Len(q) = i - 1 /\ \A j \in 1..(i - 1) : q[j] = s[j]
  BY <1>2
<1>4. R \in Seq(Nat) /\ Len(R) = i - 1
  BY <1>1, <1>3 DEF k_stun_attribute_header_size
<1>5. P \in Seq(Nat) /\ Len(P) = Len(s)
  <2>1. \A j \in 1..Len(s) : s[j] \in S
    OBVIOUS
  <2> QED BY <1>1, <1>2, <2>1 DEF k_stun_attribute_header_size
<1>6. \A j \in 1..(i - 1) : R[j] = P[j]
  <2>1. \A j \in 1..(i - 1) : s[j] \in S /\ q[j] = s[j] /\ j \in 1..Len(s)
    BY <1>2, <1>3
  <2> QED BY <1>1, <1>3, <2>1
<1>7. Walk(m, i - 1) = 20 + SumTo(P, i - 1) /\ Offset(m, i) = 20 + SumTo(R, i - 1)
  BY <1>3 DEF Walk, Offset, AttrBytes, k_stun_header_size
<1> HIDE DEF R, P
<1>8. SumTo(R, i - 1) = SumTo(P, i - 1)
  <2>1. i - 1 =< Len(R) /\ i - 1 =< Len(P)
    BY <1>2, <1>4, <1>5
  <2> QED BY <1>2, <1>4, <1>5, <1>6, <2>1, SumAgree, Zenon
<1> QED BY <1>7, <1>8

-----------------------------------------------------------------------------
(* Well-built messages *)

\* A well-built message: attributes A, MESSAGE-INTEGRITY under pw unless that is None,
\* and FINGERPRINT, each digest over what is in front of it.
MiOf(m, A, pw) == Attr("MI", 20, Hmac(pw, m, AttrBytes(A) + 24, A))
Signed(m, A, pw) == IF pw = None THEN A ELSE Append(A, MiOf(m, A, pw))
FpOf(m, s) == Attr("FINGERPRINT", 4, Crc(m, s))

WellBuilt(m, A, pw) ==
  /\ m = [type |-> m.type, length |-> m.length, cookie |-> m.cookie, tid |-> m.tid,
          attrs |-> m.attrs, tail |-> m.tail]
  /\ m.cookie = TRUE /\ m.tail = 0 /\ m.length = AttrBytes(m.attrs)
  /\ m.attrs = Append(Signed(m, A, pw), FpOf(m, Signed(m, A, pw)))

\* What the attributes in front of the digests may be.
Plain(S) == \A a \in S : Proper(a) /\ a.t \notin {"MI", "FINGERPRINT"}

\* The digests of a message are proper attributes.
LEMMA DigestAttrs ==
  ASSUME NEW m, NEW A, NEW pw, NEW s
  PROVE  /\ Proper(MiOf(m, A, pw)) /\ MiOf(m, A, pw).t = "MI" /\ MiOf(m, A, pw).room = 20
         /\ MiOf(m, A, pw).val = Hmac(pw, m, AttrBytes(A) + 24, A) /\ MiOf(m, A, pw).len = 20
         /\ Proper(FpOf(m, s)) /\ FpOf(m, s).t = "FINGERPRINT" /\ FpOf(m, s).room = 4
         /\ FpOf(m, s).val = Crc(m, s) /\ FpOf(m, s).len = 4
<1>1. Hmac(pw, m, AttrBytes(A) + 24, A) # Number(-1) /\ Crc(m, s) # Number(-1)
  BY ValueFacts DEF Hmac, Crc
<1>2. 20 \in 0..MaxValue /\ 4 \in 0..MaxValue /\ Pad(20) = 20 /\ Pad(4) = 4
  BY DEF MaxValue, Pad
<1> HIDE DEF Hmac, Crc, Number
<1>3. Proper(MiOf(m, A, pw)) /\ Proper(FpOf(m, s))
  BY <1>1, <1>2, AttrFacts DEF MiOf, FpOf
<1> QED BY <1>2, <1>3 DEF MiOf, FpOf, Attr

LEMMA MiIsProper ==
  ASSUME NEW m, NEW A, NEW pw
  PROVE  Proper(MiOf(m, A, pw)) /\ MiOf(m, A, pw).t = "MI" /\ MiOf(m, A, pw).room = 20
BY DigestAttrs

LEMMA FpIsProper ==
  ASSUME NEW m, NEW s
  PROVE  Proper(FpOf(m, s)) /\ FpOf(m, s).t = "FINGERPRINT" /\ FpOf(m, s).room = 4
BY DigestAttrs

\* The attributes of a well-built message: A, perhaps M, which make s, and F; and the
\* bytes up to each of them.
Parts(T, M, F, s, m, A, pw) ==
  /\ \A a \in T : Proper(a)
  /\ s \in Seq(T) /\ m.attrs \in Seq(T) /\ A \in Seq(T)
  /\ Len(A) \in Nat /\ Len(m.attrs) = Len(s) + 1
  /\ Len(s) = IF pw = None THEN Len(A) ELSE Len(A) + 1
  /\ \A i \in 1..Len(s) : m.attrs[i] = s[i]
  /\ \A i \in 1..Len(A) : m.attrs[i] = A[i] /\ A[i].t \notin {"MI", "FINGERPRINT"}
  /\ pw # None => m.attrs[Len(A) + 1] = M
  /\ m.attrs[Len(s) + 1] = F
  /\ AttrBytes(A) \in Nat /\ AttrBytes(s) \in Nat
  /\ AttrBytes(m.attrs) = AttrBytes(s) + 8
  /\ pw # None => AttrBytes(s) = AttrBytes(A) + 24
  /\ M.t = "MI" /\ M.val = Hmac(pw, m, AttrBytes(A) + 24, A)
  /\ F.t = "FINGERPRINT" /\ F.len = 4 /\ F.val = Crc(m, s)
  /\ m.cookie = TRUE /\ m.tail = 0 /\ m.length = AttrBytes(m.attrs) /\ m.attrs = Append(s, F)

LEMMA WellBuiltAttrs ==
  ASSUME NEW S, Plain(S), NEW A \in Seq(S), NEW m, NEW pw, WellBuilt(m, A, pw),
         NEW s, s = Signed(m, A, pw), NEW M, M = MiOf(m, A, pw), NEW F, F = FpOf(m, s)
  PROVE  Parts(S \cup {M, F}, M, F, s, m, A, pw)
<1> DEFINE T == S \cup {M, F}
<1>1. \A a \in T : Proper(a)
  BY DigestAttrs DEF Plain
<1>2. /\ M.room = 20 /\ M.t = "MI" /\ M.val = Hmac(pw, m, AttrBytes(A) + 24, A)
      /\ F.room = 4 /\ F.t = "FINGERPRINT" /\ F.len = 4 /\ F.val = Crc(m, s)
  BY DigestAttrs
<1>3. m.attrs = Append(s, F)
  BY DEF WellBuilt
<1>4. M \in T /\ F \in T
  OBVIOUS
<1>5. A \in Seq(T) /\ Len(A) \in Nat /\ \A i \in 1..Len(A) : A[i] \in S
  OBVIOUS
<1>6. s = IF pw = None THEN A ELSE Append(A, M)
  BY DEF Signed
<1> HIDE DEF T
<1>7. s \in Seq(T) /\ Len(s) = (IF pw = None THEN Len(A) ELSE Len(A) + 1)
      /\ \A i \in 1..Len(A) : s[i] = A[i]
  BY <1>4, <1>5, <1>6
<1>8. pw # None => s[Len(A) + 1] = M
  BY <1>4, <1>5, <1>6
<1>9. m.attrs \in Seq(T) /\ Len(m.attrs) = Len(s) + 1 /\ m.attrs[Len(s) + 1] = F
      /\ \A i \in 1..Len(s) : m.attrs[i] = s[i]
  BY <1>3, <1>4, <1>7
<1>10. \A i \in 1..Len(A) : m.attrs[i] = A[i]
  BY <1>5, <1>7, <1>9
<1>11. pw # None => m.attrs[Len(A) + 1] = M
  BY <1>5, <1>7, <1>8, <1>9
<1>12. AttrBytes(A) \in Nat /\ AttrBytes(s) \in Nat
  BY <1>1, <1>5, <1>7, BytesFacts
<1>13. AttrBytes(Append(s, F)) = AttrBytes(s) + 4 + 4
  <2>1. \A a \in T : AttrBytes(Append(s, a)) = AttrBytes(s) + 4 + a.room
    BY <1>1, <1>7, BytesFacts, Zenon
  <2> QED BY <1>2, <1>4, <2>1, Zenon
<1>14. AttrBytes(m.attrs) = AttrBytes(s) + 8
  <2>1. AttrBytes(s) + 4 + 4 = AttrBytes(s) + 8
    BY <1>12
  <2> QED BY <1>3, <1>13, <2>1, Zenon
<1>15. pw # None => AttrBytes(s) = AttrBytes(A) + 24
  <2>1. AttrBytes(Append(A, M)) = AttrBytes(A) + 4 + 20
    BY <1>1, <1>2, <1>4, <1>5, BytesFacts, Zenon
  <2>2. AttrBytes(A) + 4 + 20 = AttrBytes(A) + 24
    BY <1>12
  <2> QED BY <1>6, <2>1, <2>2, Zenon
<1>17. \A i \in 1..Len(A) : A[i].t \notin {"MI", "FINGERPRINT"}
  BY <1>5 DEF Plain
<1>16. m.cookie = TRUE /\ m.tail = 0 /\ m.length = AttrBytes(m.attrs)
  BY DEF WellBuilt
<1> HIDE DEF Hmac, Crc
<1> QED BY <1>1, <1>2, <1>3, <1>5, <1>7, <1>9, <1>10, <1>11, <1>12, <1>14, <1>15, <1>16, <1>17
    DEF Parts, T

\* get_stun_message() reads every well-built message.
LEMMA WellBuiltIsStun ==
  ASSUME NEW S, Plain(S), NEW A \in Seq(S), NEW m, NEW pw, WellBuilt(m, A, pw)
  PROVE  IsStun(m)
<1> DEFINE n == AttrBytes(m.attrs)
<1>0. PICK T, M, F, s : Parts(T, M, F, s, m, A, pw)
  BY WellBuiltAttrs
<1>1. /\ \A a \in T : Proper(a)
      /\ s \in Seq(T) /\ m.attrs \in Seq(T) /\ Len(m.attrs) = Len(s) + 1
      /\ m.attrs[Len(s) + 1] = F /\ AttrBytes(s) \in Nat /\ n = AttrBytes(s) + 8
  BY <1>0 DEF Parts
<1>2. m.cookie = TRUE /\ m.tail = 0 /\ m.length = n /\ m.attrs = Append(s, F)
  BY <1>0 DEF Parts
<1>3. F.t = "FINGERPRINT" /\ F.len = 4 /\ F.val = Crc(m, s)
  BY <1>0 DEF Parts
<1>4. n % 4 = 0
  BY <1>1, BytesAligned
<1> HIDE DEF n
<1>5. Size(m) = 20 + n /\ n \in Nat /\ n >= 8
  BY <1>1, <1>2 DEF Size, k_stun_header_size, n
<1>6. Last(m.attrs) = F /\ Front(m.attrs) = s
  <2>1. Len(s) \in Nat /\ Len(m.attrs) - 1 = Len(s)
    BY <1>1
  <2>2. Last(m.attrs) = F
    BY <1>1 DEF Last
  <2>3. SubSeq(m.attrs, 1, Len(s)) = s
    BY <1>1, <1>2, <2>1
  <2> QED BY <2>1, <2>2, <2>3 DEF Front
<1>7. ValidateFingerprint(m)
  <2>1. (20 + n) % 4 = 0
    BY <1>4, <1>5
  <2> HIDE DEF Crc
  <2> QED BY <1>2, <1>3, <1>5, <1>6, <2>1
      DEF ValidateFingerprint, k_stun_header_size, k_stun_attribute_header_size
<1>8. CanRead(m)
  <2>1. \A i \in 1..Len(m.attrs) : m.attrs[i] \in T
    BY <1>1
  <2>2. \A a \in T : a.room = Pad(a.len) /\ a.room = Skip(a.len)
    BY <1>1, PadFacts, PadShort DEF Proper, Skip
  <2>3. \A i \in 1..Len(m.attrs) : m.attrs[i].t = "PRIORITY" => m.attrs[i].len = 4
    BY <1>1, <2>1, Zenon DEF Proper
  <2> QED BY <1>2, <1>5, <2>1, <2>2, <2>3 DEF CanRead, k_stun_header_size
<1> QED BY <1>7, <1>8 DEF IsStun

\* A digest determines the key and the attributes it was computed over.
LEMMA DigestParts ==
  ASSUME NEW k, NEW m, NEW n, NEW s
  PROVE  Digest(k, m, n, s).digest[1].key = k /\ Digest(k, m, n, s).digest[1].attrs = s
<1> DEFINE d == [key |-> k, type |-> m.type, length |-> n, cookie |-> m.cookie,
                 tid |-> m.tid, attrs |-> s]
<1>1. Digest(k, m, n, s).digest = <<d>>
  BY DEF Digest
<1>2. d.key = k /\ d.attrs = s
  OBVIOUS
<1> HIDE DEF d
<1>3. <<d>>[1] = d
  OBVIOUS
<1> QED BY <1>1, <1>2, <1>3

LEMMA CrcInjective ==
  ASSUME NEW m, NEW s, NEW p, NEW t, Crc(m, s) = Crc(p, t)
  PROVE  s = t
<1>1. ASSUME NEW x, NEW q PROVE Crc(x, q).digest[1].attrs = q
  <2> DEFINE d == [key |-> "", type |-> x.type, length |-> x.length, cookie |-> x.cookie,
                   tid |-> x.tid, attrs |-> q]
  <2>1. Crc(x, q).digest = <<d>> /\ d.attrs = q
    BY DEF Crc, Digest
  <2> HIDE DEF d
  <2> QED BY <2>1
<1> QED BY <1>1

\* A sequence with one element replaced.
LEMMA ReplacedInSeq ==
  ASSUME NEW T, NEW q \in Seq(T), NEW i \in 1..Len(q), NEW b
  PROVE  /\ [q EXCEPT ![i] = b] \in Seq(T \cup {b})
         /\ Len([q EXCEPT ![i] = b]) = Len(q)
         /\ [q EXCEPT ![i] = b][i] = b
         /\ \A j \in 1..Len(q) : j # i => [q EXCEPT ![i] = b][j] = q[j]
<1>1. q \in Seq(T \cup {b}) /\ b \in T \cup {b}
  OBVIOUS
<1> QED BY <1>1

\* No damaged copy of a well-built message passes validate_fingerprint().
LEMMA DamageIsSeen ==
  ASSUME NEW S, Plain(S), NEW A \in Seq(S), NEW m, NEW pw, WellBuilt(m, A, pw),
         NEW d \in Damaged(m)
  PROVE  ~ ValidateFingerprint(d)
<1>0. PICK T, M, F, s : Parts(T, M, F, s, m, A, pw)
  BY WellBuiltAttrs
<1>1. m = [type |-> m.type, length |-> m.length, cookie |-> m.cookie, tid |-> m.tid,
           attrs |-> m.attrs, tail |-> m.tail]
  BY DEF WellBuilt
<1>2. /\ m.attrs \in Seq(T) /\ s \in Seq(T) /\ Len(s) \in Nat /\ Len(m.attrs) = Len(s) + 1
      /\ m.attrs = Append(s, F) /\ m.attrs[Len(s) + 1] = F
      /\ \A i \in 1..Len(s) : m.attrs[i] = s[i]
  BY <1>0 DEF Parts
<1>3. \A i \in 1..Len(m.attrs) : Proper(m.attrs[i])
  BY <1>0, <1>2 DEF Parts
<1>4. F.val = Crc(m, s)
  BY <1>0 DEF Parts
<1>5. ASSUME NEW i \in 1..Len(m.attrs), d = [m EXCEPT !.attrs[i].val = Number(-1)]
      PROVE  ~ ValidateFingerprint(d)
  <2> DEFINE bad == [m.attrs[i] EXCEPT !.val = Number(-1)]
             t == [m.attrs EXCEPT ![i] = bad]
  <2>1. d.attrs = t
    BY <1>1, <1>5
  <2>2. bad.val = Number(-1)
    <3>1. m.attrs[i] = Attr(m.attrs[i].t, m.attrs[i].len, m.attrs[i].val)
      BY <1>3 DEF Proper
    <3> HIDE DEF Number
    <3> QED BY <3>1 DEF Attr
  <2> HIDE DEF bad
  <2>3. /\ Len(t) = Len(m.attrs) /\ t[i] = bad
        /\ \A j \in 1..Len(m.attrs) : j # i => t[j] = m.attrs[j]
        /\ t \in Seq(T \cup {bad})
    <3>1. \A q \in Seq(T) : \A j \in 1..Len(q) : \A b :
            /\ [q EXCEPT ![j] = b] \in Seq(T \cup {b}) /\ Len([q EXCEPT ![j] = b]) = Len(q)
            /\ [q EXCEPT ![j] = b][j] = b
            /\ \A k \in 1..Len(q) : k # j => [q EXCEPT ![j] = b][k] = q[k]
      BY ReplacedInSeq
    <3>2. m.attrs \in Seq(T)
      BY <1>2
    <3> QED BY <3>1, <3>2 DEF t
  <2> HIDE DEF t
  <2>4. CASE i = Len(m.attrs)
    <3>1. Last(t).val = Number(-1)
      BY <2>2, <2>3, <2>4 DEF Last
    <3>2. Crc(d, Front(t)) # Number(-1)
      BY ValueFacts DEF Crc
    <3> QED BY <2>1, <3>1, <3>2 DEF ValidateFingerprint
  <2>5. CASE i # Len(m.attrs)
    <3>1. i \in 1..Len(s) /\ Len(s) + 1 # i
      BY <1>2, <2>5
    <3>2. Last(t) = F
      BY <1>2, <2>3, <3>1 DEF Last
    <3>3. Front(t)[i] = bad
      <4>1. t \in Seq(T \cup {bad}) /\ Len(t) - 1 = Len(s)
        BY <1>2, <2>3
      <4> QED BY <1>2, <2>3, <3>1, <4>1 DEF Front
    <3>4. s[i].val # Number(-1)
      BY <1>2, <1>3, <3>1 DEF Proper
    <3>5. Crc(m, s) # Crc(d, Front(t))
      <4> SUFFICES ASSUME Crc(m, s) = Crc(d, Front(t)) PROVE FALSE
        OBVIOUS
      <4>1. s = Front(t)
        BY CrcInjective
      <4> QED BY <2>2, <3>3, <3>4, <4>1
    <3> HIDE DEF Crc
    <3> QED BY <1>4, <2>1, <3>2, <3>5 DEF ValidateFingerprint
  <2> QED BY <2>4, <2>5
<1>6. ASSUME d = [m EXCEPT !.attrs = Front(@)] PROVE ~ ValidateFingerprint(d)
  <2>1. d.attrs = s /\ d.tail = 0
    <3>1. m.tail = 0
      BY <1>0 DEF Parts
    <3>2. Front(m.attrs) = s
      <4>1. Len(m.attrs) - 1 = Len(s)
        BY <1>2
      <4>2. SubSeq(m.attrs, 1, Len(s)) = s
        BY <1>2
      <4> QED BY <4>1, <4>2 DEF Front
    <3> QED BY <1>1, <1>6, <3>1, <3>2
  <2>2. CASE Len(s) = 0
    <3>1. s = << >>
      BY <1>2, <2>2
    <3>2. AttrBytes(d.attrs) = 0
      <4>1. AttrBytes(<< >>) = 0
        BY <1>0, <1>2, BytesFacts DEF Parts
      <4> QED BY <2>1, <3>1, <4>1
    <3> QED BY <2>1, <3>2
        DEF ValidateFingerprint, Size, k_stun_header_size, k_stun_attribute_header_size
  <2>3. CASE Len(s) # 0
    <3>1. Last(s) = s[Len(s)] /\ Len(s) \in 1..Len(s)
      BY <1>2, <2>3 DEF Last
    <3>2. m.attrs[Len(s)].t # "FINGERPRINT"
      <4>1. CASE pw = None
        BY <1>0, <1>2, <3>1, <4>1 DEF Parts
      <4>2. CASE pw # None
        BY <1>0, <1>2, <3>1, <4>2 DEF Parts
      <4> QED BY <4>1, <4>2
    <3> QED BY <1>2, <2>1, <3>1, <3>2 DEF ValidateFingerprint
  <2> QED BY <2>2, <2>3
<1>7. ASSUME d = [m EXCEPT !.tail = 4] PROVE ~ ValidateFingerprint(d)
  <2>1. d.tail = 4
    BY <1>1, <1>7
  <2> QED BY <2>1 DEF ValidateFingerprint
<1>8. ASSUME d = [m EXCEPT !.cookie = FALSE] PROVE ~ ValidateFingerprint(d)
  <2>1. d.cookie = FALSE
    BY <1>1, <1>8
  <2> QED BY <2>1 DEF ValidateFingerprint
<1> QED BY <1>5, <1>6, <1>7, <1>8 DEF Damaged

\* What _get_attribute() finds in a well-built message.
LEMMA WellBuiltHas ==
  ASSUME NEW S, Plain(S), NEW A \in Seq(S), NEW m, NEW pw, WellBuilt(m, A, pw)
  PROVE  /\ Has(m, "MI") <=> pw # None
         /\ \A t \in {"USERNAME", "PRIORITY"} : Has(m, t) <=> \E i \in 1..Len(A) : A[i].t = t
         /\ Len(A) > 0 /\ A[1].t = "USERNAME" => Get(m, "USERNAME") = A[1].val
<1>0. PICK T, M, F, s : Parts(T, M, F, s, m, A, pw)
  BY WellBuiltAttrs
<1>1. /\ m.attrs \in Seq(T) /\ Len(A) \in Nat /\ Len(m.attrs) = Len(s) + 1
      /\ Len(s) = (IF pw = None THEN Len(A) ELSE Len(A) + 1)
      /\ \A i \in 1..Len(A) : m.attrs[i] = A[i] /\ A[i].t \notin {"MI", "FINGERPRINT"}
  BY <1>0 DEF Parts
<1>2. m.attrs[Len(s) + 1].t = "FINGERPRINT" /\ (pw # None => m.attrs[Len(A) + 1].t = "MI")
  BY <1>0 DEF Parts
<1>3. \A i \in 1..Len(m.attrs) : \/ i \in 1..Len(A)
                                 \/ pw # None /\ i = Len(A) + 1
                                 \/ i = Len(s) + 1
  BY <1>1
<1>4. Has(m, "MI") <=> pw # None
  <2>1. pw # None => Len(A) + 1 \in 1..Len(m.attrs)
    BY <1>1
  <2> QED BY <1>1, <1>2, <1>3, <2>1 DEF Has, Known_, Known
<1>5. ASSUME NEW t \in {"USERNAME", "PRIORITY"}
      PROVE  Has(m, t) <=> \E i \in 1..Len(A) : A[i].t = t
  <2>1. 1..Len(A) \subseteq 1..Len(m.attrs)
    BY <1>1
  <2>2. t \in Known /\ t # "MI" /\ t # "FINGERPRINT"
    BY DEF Known
  <2> QED BY <1>1, <1>2, <1>3, <2>1, <2>2 DEF Has, Known_
<1>6. ASSUME Len(A) > 0, A[1].t = "USERNAME" PROVE Get(m, "USERNAME") = A[1].val
  <2> DEFINE K == Known_(m, "USERNAME")
             c == CHOOSE i \in K : \A j \in K : i =< j
  <2>1. 1 \in 1..Len(A) /\ 1 \in 1..Len(m.attrs)
    BY <1>1, <1>6
  <2>2. K \subseteq 1..Len(m.attrs) /\ 1 \in K
    BY <1>1, <1>6, <2>1 DEF Known_, Known
  <2> HIDE DEF K
  <2>3. c \in K /\ \A j \in K : c =< j
    <3>1. \A j \in K : 1 =< j
      BY <1>1, <2>2
    <3> QED BY <2>2, <3>1
  <2>4. Get(m, "USERNAME") = m.attrs[c].val
    BY DEF Get, K
  <2> HIDE DEF c
  <2>5. c = 1
    BY <1>1, <2>2, <2>3
  <2> QED BY <1>1, <2>1, <2>4, <2>5
<1> QED BY <1>4, <1>5, <1>6

\* A keyed digest determines its key.
LEMMA HmacInjective ==
  ASSUME NEW k, NEW m, NEW n, NEW s, NEW l, NEW p, NEW o, NEW t, Hmac(k, m, n, s) = Hmac(l, p, o, t)
  PROVE  k = l
<1>1. Hmac(k, m, n, s).digest[1].key = k /\ Hmac(l, p, o, t).digest[1].key = l
  BY DigestParts DEF Hmac
<1> QED BY <1>1

\* validate_message_integrity() accepts a well-built message under the password it was
\* made with, and under no other.
LEMMA WellBuiltIntegrity ==
  ASSUME NEW S, Plain(S), NEW A \in Seq(S), NEW m, NEW pw, WellBuilt(m, A, pw), NEW key
  PROVE  IntegrityOk(m, key) <=> (pw # None /\ key = pw)
<1>0. PICK T, M, F, s : Parts(T, M, F, s, m, A, pw)
  BY WellBuiltAttrs
<1>1. /\ m.attrs \in Seq(T) /\ Len(A) \in Nat /\ Len(m.attrs) = Len(s) + 1
      /\ Len(s) = (IF pw = None THEN Len(A) ELSE Len(A) + 1)
      /\ \A i \in 1..Len(A) : m.attrs[i] = A[i] /\ A[i].t # "MI"
      /\ A \in Seq(T) /\ \A a \in T : Proper(a)
  BY <1>0 DEF Parts
<1>2. Has(m, "MI") <=> pw # None
  BY WellBuiltHas
<1>3. CASE pw = None
  BY <1>2, <1>3 DEF IntegrityOk
<1>4. CASE pw # None
  <2> DEFINE k == Len(A) + 1
  <2>1. /\ Len(m.attrs) = k + 1 /\ k \in 1..Len(m.attrs) /\ k - 1 = Len(A)
        /\ m.attrs[k] = M /\ M.t = "MI" /\ m.attrs[k + 1].t = "FINGERPRINT"
        /\ M.val = Hmac(pw, m, AttrBytes(A) + 24, A)
    BY <1>0, <1>1, <1>4 DEF Parts
  <2>2. /\ AttrBytes(A) \in Nat /\ AttrBytes(m.attrs) = AttrBytes(A) + 32
        /\ m.tail = 0 /\ m.length = AttrBytes(m.attrs)
    BY <1>0, <1>4 DEF Parts
  <2> HIDE DEF k
  <2>3. \A i \in 1..Len(m.attrs) : i = k \/ i = k + 1 \/ i \in 1..Len(A)
    BY <1>1, <2>1 DEF k
  <2>4. \A j \in 1..(k - 1) : m.attrs[j].t # "MI"
    BY <1>1, <2>1
  <2>5. Found(m) = {k}
    <3>1. Walk(m, k - 1) = Offset(m, k)
      BY <1>1, <2>1, WalkFacts
    <3> HIDE DEF Walk, Offset
    <3> QED BY <1>1, <2>1, <2>3, <2>4, <3>1 DEF Found
  <2>6. SubSeq(m.attrs, 1, k - 1) = A
    <3>1. SubSeq(m.attrs, 1, Len(A)) = A
      <4>1. Len(A) =< Len(m.attrs)
        BY <1>1, <2>1
      <4>2. SubSeq(m.attrs, 1, Len(A)) \in Seq(T) /\ Len(SubSeq(m.attrs, 1, Len(A))) = Len(A)
            /\ \A i \in 1..Len(A) : SubSeq(m.attrs, 1, Len(A))[i] = A[i]
        BY <1>1, <4>1
      <4> QED BY <1>1, <4>2
    <3> QED BY <2>1, <3>1
  <2>7. Size(m) = AttrBytes(A) + 52 /\ Size(m) % 4 = 0 /\ m.length + k_stun_header_size = Size(m)
    <3>1. AttrBytes(m.attrs) % 4 = 0
      BY <1>1, BytesAligned
    <3>2. Size(m) = 20 + AttrBytes(m.attrs)
      BY <2>2 DEF Size, k_stun_header_size
    <3> QED BY <2>2, <3>1, <3>2 DEF k_stun_header_size
  <2>8. IntegrityLength(m, k) = AttrBytes(A) + 24
    <3>1. Offset(m, k) = 20 + AttrBytes(A)
      BY <2>6 DEF Offset, k_stun_header_size
    <3> HIDE DEF Offset, Size
    <3> QED BY <2>2, <2>7, <3>1 DEF IntegrityLength, k_stun_header_size,
              k_stun_attribute_header_size, k_stun_message_integrity_size
  <2>9. IntegrityOk(m, key) <=> m.attrs[k].val = Hmac(key, m, AttrBytes(A) + 24, A)
    <3>1. (CHOOSE i \in Found(m) : TRUE) = k
      BY <2>5
    <3> HIDE DEF Found, Size, Has, Hmac, IntegrityLength
    <3> QED BY <1>2, <1>4, <2>5, <2>6, <2>7, <2>8, <3>1 DEF IntegrityOk
  <2>10. IntegrityOk(m, key) => key = pw
    <3> HIDE DEF Hmac, IntegrityOk
    <3> QED BY <2>1, <2>9, HmacInjective
  <2>11. key = pw => IntegrityOk(m, key)
    <3> HIDE DEF Hmac, IntegrityOk
    <3> QED BY <2>1, <2>9
  <2> QED BY <1>4, <2>10, <2>11
<1> QED BY <1>3, <1>4

\* A client that follows the RFC accepts a well-built message.
LEMMA WellBuiltAccepted ==
  ASSUME NEW S, Plain(S), NEW A \in Seq(S), NEW m, NEW pw, WellBuilt(m, A, pw)
  PROVE  RefAccepts(m, pw)
<1>0. PICK T, M, F, s : F = FpOf(m, s) /\ M = MiOf(m, A, pw) /\ Parts(T, M, F, s, m, A, pw)
  <2> DEFINE s == Signed(m, A, pw)
             M == MiOf(m, A, pw)
             F == FpOf(m, s)
  <2>1. Parts(S \cup {M, F}, M, F, s, m, A, pw)
    BY WellBuiltAttrs
  <2> HIDE DEF Parts, MiOf, FpOf, Signed
  <2> QED BY <2>1
<1>1. /\ m.attrs \in Seq(T) /\ Len(A) \in Nat /\ Len(m.attrs) = Len(s) + 1 /\ A \in Seq(T)
      /\ Len(s) = (IF pw = None THEN Len(A) ELSE Len(A) + 1) /\ s \in Seq(T)
      /\ \A i \in 1..Len(A) : m.attrs[i] = A[i]
      /\ \A i \in 1..Len(s) : m.attrs[i] = s[i]
  BY <1>0 DEF Parts
<1>2. m.length = AttrBytes(m.attrs) /\ m.cookie = TRUE /\ m.tail = 0
  BY <1>0 DEF Parts
<1>3. m.attrs[Len(m.attrs)] = Attr("FINGERPRINT", 4, Crc(m, SubSeq(m.attrs, 1, Len(m.attrs) - 1)))
  <2>1. Len(m.attrs) - 1 = Len(s) /\ m.attrs[Len(m.attrs)] = F /\ Len(s) \in Nat
    BY <1>0, <1>1 DEF Parts
  <2>2. SubSeq(m.attrs, 1, Len(s)) = s
    <3>1. SubSeq(m.attrs, 1, Len(s)) \in Seq(T) /\ Len(SubSeq(m.attrs, 1, Len(s))) = Len(s)
          /\ \A i \in 1..Len(s) : SubSeq(m.attrs, 1, Len(s))[i] = s[i]
      BY <1>1, <2>1
    <3> QED BY <1>1, <3>1
  <2> HIDE DEF Attr, Crc
  <2> QED BY <1>0, <2>1, <2>2 DEF FpOf
<1>4. ASSUME pw # None
      PROVE  \E i \in 1..Len(m.attrs) : m.attrs[i] =
               Attr("MI", 20, Hmac(pw, m, AttrBytes(SubSeq(m.attrs, 1, i - 1)) + 24,
                                   SubSeq(m.attrs, 1, i - 1)))
  <2> DEFINE k == Len(A) + 1
  <2>1. k \in 1..Len(m.attrs) /\ m.attrs[k] = M /\ k - 1 = Len(A)
    BY <1>0, <1>1, <1>4 DEF Parts
  <2>2. SubSeq(m.attrs, 1, Len(A)) = A
    <3>1. Len(A) =< Len(m.attrs)
      BY <1>1, <1>4
    <3>2. SubSeq(m.attrs, 1, Len(A)) \in Seq(T) /\ Len(SubSeq(m.attrs, 1, Len(A))) = Len(A)
          /\ \A i \in 1..Len(A) : SubSeq(m.attrs, 1, Len(A))[i] = A[i]
      BY <1>1, <3>1
    <3> QED BY <1>1, <3>2
  <2> HIDE DEF k, Attr, Hmac, AttrBytes
  <2>3. SubSeq(m.attrs, 1, k - 1) = A
    BY <2>1, <2>2
  <2> QED BY <1>0, <2>1, <2>3 DEF MiOf
<1> QED BY <1>2, <1>3, <1>4 DEF RefAccepts

\* A message with these fields, and what changing one makes of it.
Message(type, n, tid, A) ==
  [type |-> type, length |-> n, cookie |-> TRUE, tid |-> tid, attrs |-> A, tail |-> 0]

LEMMA MessageLength ==
  ASSUME NEW m, NEW type, NEW n, NEW tid, NEW A, m = Message(type, n, tid, A),
         NEW k, NEW h, h = [m EXCEPT !.length = k]
  PROVE  h = Message(type, k, tid, A)
BY DEF Message

LEMMA MessageAttrs ==
  ASSUME NEW m, NEW type, NEW n, NEW tid, NEW A, m = Message(type, n, tid, A),
         NEW B, NEW h, h = [m EXCEPT !.attrs = B]
  PROVE  h = Message(type, n, tid, B)
BY DEF Message

BuiltAs(h, A, pw, type, tid) == WellBuilt(h, A, pw) /\ h.type = type /\ h.tid = tid

\* The client's messages are well-built.
LEMMA RefMessageBuilt ==
  ASSUME NEW S, Plain(S), NEW A \in Seq(S), NEW type, NEW tid, NEW pw
  PROVE  BuiltAs(RefMessage(type, tid, A, pw), A, pw, type, tid)
<1> DEFINE m == RefMessage(type, tid, A, pw)
           M == Attr("MI", 20, Hmac(pw, New(type, tid), AttrBytes(A) + 24, A))
           mi == IF pw = None THEN << >> ELSE <<M>>
           all == A \o mi
           head == [New(type, tid) EXCEPT !.length = AttrBytes(all) + 8]
           F == Attr("FINGERPRINT", 4, Crc(head, all))
<1>1. m = [head EXCEPT !.attrs = Append(all, F)]
  BY DEF RefMessage
<1>2. head = Message(type, AttrBytes(all) + 8, tid, << >>)
  <2> DEFINE b == New(type, tid)
             n == AttrBytes(all) + 8
  <2>1. b = Message(type, 0, tid, << >>)
    BY DEF New, Message
  <2>2. head = [b EXCEPT !.length = n]
    OBVIOUS
  <2> HIDE DEF b, n, head
  <2>3. head = Message(type, n, tid, << >>)
    BY <2>1, <2>2, MessageLength
  <2> QED BY <2>3 DEF n
<1>3. all = IF pw = None THEN A ELSE Append(A, M)
  <2> HIDE DEF M
  <2>1. A \o << >> = A
    OBVIOUS
  <2>2. A \in Seq(S \cup {M}) /\ M \in S \cup {M}
    OBVIOUS
  <2>3. A \o <<M>> = Append(A, M)
    BY <2>2
  <2> QED BY <2>1, <2>3
<1> HIDE DEF head, all, F, M, mi
<1> DEFINE n == AttrBytes(all) + 8
           B == Append(all, F)
<1>a. head = Message(type, n, tid, << >>) /\ m = [head EXCEPT !.attrs = B]
  BY <1>1, <1>2
<1> HIDE DEF m, n, B
<1>4. m = Message(type, n, tid, B)
  BY <1>a, MessageAttrs
<1>5. /\ m.type = type /\ m.tid = tid /\ m.cookie = TRUE /\ m.tail = 0
      /\ m.length = AttrBytes(all) + 8 /\ m.attrs = Append(all, F)
      /\ m = [type |-> m.type, length |-> m.length, cookie |-> m.cookie, tid |-> m.tid,
              attrs |-> m.attrs, tail |-> m.tail]
  <2>1. /\ m.type = type /\ m.tid = tid /\ m.cookie = TRUE /\ m.tail = 0
        /\ m.length = n /\ m.attrs = B
        /\ m = [type |-> m.type, length |-> m.length, cookie |-> m.cookie, tid |-> m.tid,
                attrs |-> m.attrs, tail |-> m.tail]
    BY <1>4 DEF Message
  <2> QED BY <2>1, Zenon DEF n, B
<1>6. M = MiOf(m, A, pw)
  <2>1. New(type, tid).type = type /\ New(type, tid).tid = tid /\ New(type, tid).cookie = TRUE
    BY DEF New
  <2>2. Hmac(pw, New(type, tid), AttrBytes(A) + 24, A) = Hmac(pw, m, AttrBytes(A) + 24, A)
    <3> HIDE DEF New, AttrBytes
    <3> QED BY <1>5, <2>1 DEF Hmac, Digest
  <2> HIDE DEF Hmac, Attr
  <2> QED BY <2>2 DEF MiOf, M
<1>7. all = Signed(m, A, pw)
  BY <1>3, <1>6, Zenon DEF Signed
<1>8. F = FpOf(m, all)
  <2>1. head.type = type /\ head.tid = tid /\ head.cookie = TRUE /\ head.length = AttrBytes(all) + 8
    <3>1. head.type = type /\ head.tid = tid /\ head.cookie = TRUE /\ head.length = n
      BY <1>a DEF Message
    <3> QED BY <3>1, Zenon DEF n
  <2>2. Crc(head, all) = Crc(m, all)
    <3> HIDE DEF AttrBytes
    <3> QED BY <1>5, <2>1 DEF Crc, Digest
  <2> HIDE DEF Crc, Attr
  <2> QED BY <2>2 DEF FpOf, F
<1>9. AttrBytes(Append(all, F)) = AttrBytes(all) + 8
  <2> DEFINE T == S \cup {M, F}
  <2>1. \A a \in T : Proper(a)
    BY <1>6, <1>8, DigestAttrs DEF Plain
  <2>2. F.room = 4
    BY <1>8, DigestAttrs
  <2>3. A \in Seq(T) /\ M \in T /\ F \in T
    OBVIOUS
  <2>4. all \in Seq(T)
    BY <1>3, <2>3
  <2> HIDE DEF T
  <2>5. \A a \in T : AttrBytes(Append(all, a)) = AttrBytes(all) + 4 + a.room
    BY <2>1, <2>4, BytesFacts, Zenon
  <2>6. AttrBytes(all) \in Nat
    BY <2>1, <2>4, BytesFacts, Zenon
  <2>7. AttrBytes(Append(all, F)) = AttrBytes(all) + 4 + 4
    BY <2>2, <2>3, <2>5, Zenon
  <2> QED BY <2>6, <2>7
<1>10. WellBuilt(m, A, pw)
  <2> HIDE DEF AttrBytes, Signed, FpOf
  <2> QED BY <1>5, <1>7, <1>8, <1>9, Zenon DEF WellBuilt
<1>11. BuiltAs(m, A, pw, type, tid)
  BY <1>5, <1>10, Zenon DEF BuiltAs
<1> QED BY <1>11 DEF m

-----------------------------------------------------------------------------
(* The server's messages *)

\* A record with the fields of a message.
IsMessage(m) == m = [type |-> m.type, length |-> m.length, cookie |-> m.cookie, tid |-> m.tid,
                     attrs |-> m.attrs, tail |-> m.tail]

\* A message of the server before its digests: attributes A, counted in the header.
Draft(m, A, type, tid) ==
  /\ IsMessage(m) /\ m.type = type /\ m.tid = tid /\ m.cookie = TRUE /\ m.tail = 0
  /\ m.attrs = A /\ m.length = AttrBytes(A)

LEMMA NewIsDraft ==
  ASSUME NEW type, NEW tid
  PROVE  Draft(New(type, tid), << >>, type, tid)
<1>1. AttrBytes(<< >>) = 0
  <2>1. << >> \in Seq({}) /\ \A a \in {} : Proper(a)
    OBVIOUS
  <2> QED BY <2>1, BytesFacts, Zenon
<1>2. PICK m : m = New(type, tid)
  BY Zenon
<1>3. /\ IsMessage(m) /\ m.type = type /\ m.tid = tid /\ m.cookie = TRUE /\ m.tail = 0
      /\ m.attrs = << >> /\ m.length = 0
  BY <1>2 DEF New, IsMessage
<1> QED BY <1>1, <1>2, <1>3, Zenon DEF Draft

\* The header's length is a uint16_t.
Fits(n) == n < 65536
Wrap(n) == n % 65536

\* add_attribute(), while the message is shorter than 64 KB.
LEMMA AddKeepsDraft ==
  ASSUME NEW S, \A a \in S : Proper(a), NEW A \in Seq(S), NEW a \in S, NEW m, NEW type, NEW tid,
         Draft(m, A, type, tid), Fits(AttrBytes(A) + 4 + a.room)
  PROVE  /\ Draft(AddAttribute(m, a), Append(A, a), type, tid)
         /\ AttrBytes(Append(A, a)) = AttrBytes(A) + 4 + a.room
         /\ AttrBytes(A) \in Nat /\ a.room \in Nat
<1>1. AttrBytes(A) \in Nat /\ a.room \in Nat /\ a.room = Pad(a.len)
      /\ AttrBytes(Append(A, a)) = AttrBytes(A) + 4 + a.room
  BY BytesAppend
<1>2. PICK n, p, k, t, h : /\ n = AttrBytes(A) /\ p = Pad(a.len) /\ k = n + 4 + p
                           /\ t = Append(A, a) /\ h = AddAttribute(m, a)
  BY Zenon
<1>3. n \in Nat /\ p \in Nat /\ Fits(k) /\ AttrBytes(t) = k
  BY <1>1, <1>2, Zenon
<1>5. m.length = n /\ m.attrs = A /\ IsMessage(m)
  BY <1>2, Zenon DEF Draft
<1>6. Wrap(m.length + p + 4) = k
  <2>1. k = n + 4 + p
    BY <1>2, Zenon
  <2>2. Wrap(n + p + 4) = k
    BY <1>3, <2>1 DEF Fits, Wrap
  <2> QED BY <1>5, <2>2, Zenon
<1>7. h = [m EXCEPT !.length = Wrap(m.length + p + 4), !.attrs = Append(m.attrs, a)]
  BY <1>2 DEF AddAttribute, k_stun_attribute_header_size, Wrap
<1>8. h = [m EXCEPT !.length = k, !.attrs = t]
  BY <1>2, <1>5, <1>6, <1>7, Zenon
<1>9. /\ IsMessage(h) /\ h.type = m.type /\ h.length = k /\ h.cookie = m.cookie
      /\ h.tid = m.tid /\ h.attrs = t /\ h.tail = m.tail
  BY <1>5, <1>8 DEF IsMessage
<1>10. Draft(h, t, type, tid)
  BY <1>3, <1>9, Zenon DEF Draft
<1> QED BY <1>1, <1>2, <1>10, Zenon

\* Filling in the value of the last attribute.
Filled(w, v) == [w EXCEPT !.attrs[Len(w.attrs)].val = v]

IsFilled(h, w, B) ==
  /\ IsMessage(h) /\ h.type = w.type /\ h.length = w.length /\ h.cookie = w.cookie
  /\ h.tid = w.tid /\ h.tail = w.tail /\ h.attrs = B

LEMMA LastFilled ==
  ASSUME NEW S, NEW A \in Seq(S), NEW a, NEW v, NEW w, IsMessage(w), w.attrs = Append(A, a)
  PROVE  IsFilled(Filled(w, v), w, Append(A, [a EXCEPT !.val = v]))
<1>1. PICK b, B, C, l, h : /\ b = [a EXCEPT !.val = v] /\ h = Filled(w, v)
                           /\ B = Append(A, a) /\ C = Append(A, b) /\ l = Len(A) + 1
  BY Zenon
<1>3. w.attrs = B
  BY <1>1, Zenon
<1>4. Len(B) = l /\ B[l] = a /\ Len(A) \in Nat
  BY <1>1
<1>5. b = [a EXCEPT !.val = v]
  BY <1>1, Zenon
<1>6. h = [w EXCEPT !.attrs = [w.attrs EXCEPT ![Len(w.attrs)] = [w.attrs[Len(w.attrs)] EXCEPT !.val = v]]]
  BY <1>1 DEF Filled
<1>7. h = [w EXCEPT !.attrs = [B EXCEPT ![l] = b]]
  BY <1>3, <1>4, <1>5, <1>6, Zenon
<1>8. [B EXCEPT ![l] = b] = C
  <2> DEFINE T == S \cup {a, b}
  <2>1. A \in Seq(T) /\ a \in T /\ b \in T
    OBVIOUS
  <2> HIDE DEF T
  <2>2. B \in Seq(T) /\ C \in Seq(T) /\ Len(C) = l /\ C[l] = b /\ Len(B) = l
        /\ (\A i \in 1..Len(A) : B[i] = A[i] /\ C[i] = A[i]) /\ l \in 1..l
    BY <1>1, <1>4, <2>1
  <2> DEFINE E == [B EXCEPT ![l] = b]
  <2>4. E \in Seq(T) /\ Len(E) = l
    BY <2>1, <2>2
  <2>3. \A i \in 1..l : E[i] = C[i]
    <3>1. \A i \in 1..l : i = l \/ (i # l /\ i \in 1..Len(A))
      BY <1>1, <1>4
    <3>2. \A i \in 1..l : i = l => E[i] = b
      BY <2>2
    <3>3. \A i \in 1..l : i # l => E[i] = B[i]
      BY <2>2
    <3> HIDE DEF E
    <3> QED BY <2>2, <3>1, <3>2, <3>3, Zenon
  <2> HIDE DEF E
  <2>5. E = C
    BY <2>2, <2>3, <2>4
  <2> QED BY <2>5 DEF E
<1>9. h = [w EXCEPT !.attrs = C]
  BY <1>7, <1>8, Zenon
<1>10. /\ IsMessage(h) /\ h.type = w.type /\ h.length = w.length /\ h.cookie = w.cookie
       /\ h.tid = w.tid /\ h.attrs = C /\ h.tail = w.tail
  BY <1>9 DEF IsMessage
<1> QED BY <1>1, <1>10, Zenon DEF IsFilled

\* write() succeeds, for XOR-MAPPED-ADDRESS is IPv4.
Writable(S) == \A a \in S : a.t = "XOR" => a.val = Text(<<"v4">>)

LEMMA DraftWritable ==
  ASSUME NEW S, Writable(S), NEW A \in Seq(S), NEW a, a.t # "XOR", NEW w, w.attrs = Append(A, a)
  PROVE  CanWrite(w)
<1> DEFINE T == S \cup {a}
<1>1. A \in Seq(T) /\ a \in T /\ \A b \in T : b.t = "XOR" => b.val = Text(<<"v4">>)
  BY DEF Writable
<1> HIDE DEF T
<1>2. Append(A, a) \in Seq(T)
  BY <1>1
<1>3. \A i \in 1..Len(w.attrs) : w.attrs[i] \in T
  BY <1>2
<1> QED BY <1>1, <1>3, Zenon DEF CanWrite

\* A digest goes by the type, the cookie and the transaction id of the message.
LEMMA SameDigest ==
  ASSUME NEW k, NEW m, NEW h, NEW n, NEW s, m.type = h.type, m.cookie = h.cookie, m.tid = h.tid
  PROVE  Digest(k, m, n, s) = Digest(k, h, n, s)
BY Zenon DEF Digest

\* add_message_integrity()
LEMMA IntegrityAdded ==
  ASSUME NEW S, \A a \in S : Proper(a), Writable(S), NEW A \in Seq(S), NEW m, NEW type, NEW tid,
         NEW pw, Draft(m, A, type, tid), Fits(AttrBytes(A) + 24),
         NEW h, h = AddMessageIntegrity(m, pw)
  PROVE  Draft(h, Append(A, MiOf(m, A, pw)), type, tid)
<1>1. PICK a, w, v : /\ a = Attr("MI", 20, Text(<<"0">>)) /\ w = AddAttribute(m, a)
                     /\ v = Hmac(pw, w, w.length, m.attrs)
  BY Zenon
<1>2. Proper(a) /\ a.t = "MI" /\ a.room = 20
  <2>1. 20 \in 0..MaxValue /\ Pad(20) = 20
    BY DEF MaxValue, Pad
  <2>2. Text(<<"0">>) # Number(-1)
    BY ValueFacts
  <2>3. Proper(a) /\ a.t = "MI" /\ a.len = 20
    <3>1. PICK u : u = Text(<<"0">>) /\ a = Attr("MI", 20, u)
      BY <1>1, Zenon
    <3>2. Proper(Attr("MI", 20, u)) /\ Attr("MI", 20, u).t = "MI" /\ Attr("MI", 20, u).len = 20
      BY <2>1, <2>2, <3>1, AttrFacts
    <3> QED BY <3>1, <3>2, Zenon
  <2> QED BY <2>1, <2>3, Zenon DEF Proper
<1>3. PICK T : T = S \cup {a}
  BY Zenon
<1>4. A \in Seq(T) /\ a \in T /\ \A b \in T : Proper(b)
  BY <1>2, <1>3
<1>5. AttrBytes(A) \in Nat
  BY <1>4, BytesFacts, Zenon
<1>6. AttrBytes(A) + 4 + a.room = AttrBytes(A) + 24
  BY <1>2, <1>5
<1>7. /\ Draft(w, Append(A, a), type, tid)
      /\ AttrBytes(Append(A, a)) = AttrBytes(A) + 24
  <2>1. Fits(AttrBytes(A) + 4 + a.room)
    BY <1>6, Zenon
  <2>2. /\ Draft(AddAttribute(m, a), Append(A, a), type, tid)
        /\ AttrBytes(Append(A, a)) = AttrBytes(A) + 4 + a.room
    BY <1>4, <2>1, AddKeepsDraft, Zenon
  <2> QED BY <1>1, <1>6, <2>2, Zenon
<1>8. CanWrite(w)
  <2>1. w.attrs = Append(A, a)
    BY <1>7, Zenon DEF Draft
  <2>2. a.t # "XOR"
    BY <1>2
  <2> QED BY <2>1, <2>2, DraftWritable, Zenon
<1>9. h = Filled(w, v)
  BY <1>1, <1>8 DEF AddMessageIntegrity, k_stun_message_integrity_size, Filled
<1>10. v = Hmac(pw, m, AttrBytes(A) + 24, A)
  <2>1. w.type = m.type /\ w.cookie = m.cookie /\ w.tid = m.tid
    BY <1>7, Zenon DEF Draft
  <2>2. w.length = AttrBytes(A) + 24 /\ m.attrs = A
    BY <1>7, Zenon DEF Draft
  <2>3. v = Digest(pw, w, AttrBytes(A) + 24, A)
    BY <1>1, <2>2, Zenon DEF Hmac
  <2>4. PICK n : n = AttrBytes(A) + 24
    BY Zenon
  <2>5. Digest(pw, w, n, A) = Digest(pw, m, n, A)
    BY <2>1, Zenon DEF Digest
  <2> QED BY <2>3, <2>4, <2>5, Zenon DEF Hmac
<1>11. /\ IsMessage(w) /\ w.attrs = Append(A, Attr("MI", 20, Text(<<"0">>)))
       /\ w.type = type /\ w.tid = tid /\ w.cookie = TRUE /\ w.tail = 0
       /\ w.length = AttrBytes(A) + 24
  BY <1>1, <1>7, Zenon DEF Draft
<1>12. /\ IsMessage(h) /\ h.type = w.type /\ h.length = w.length /\ h.cookie = w.cookie
       /\ h.tid = w.tid /\ h.attrs = Append(A, Attr("MI", 20, v)) /\ h.tail = w.tail
  <2>1. [a EXCEPT !.val = v] = Attr("MI", 20, v)
    BY <1>1 DEF Attr
  <2>2. IsMessage(w) /\ w.attrs = Append(A, a)
    BY <1>1, <1>11, Zenon
  <2>3. IsFilled(Filled(w, v), w, Append(A, [a EXCEPT !.val = v]))
    BY <2>2, LastFilled, Zenon
  <2> QED BY <1>9, <2>1, <2>3, Zenon DEF IsFilled
<1>13. Attr("MI", 20, v) = MiOf(m, A, pw)
  BY <1>10, Zenon DEF MiOf
<1>14. AttrBytes(Append(A, MiOf(m, A, pw))) = AttrBytes(A) + 24
  <2>1. PICK b, U : b = MiOf(m, A, pw) /\ U = S \cup {b}
    BY Zenon
  <2>2. Proper(b) /\ b.room = 20
    BY <2>1, MiIsProper, Zenon
  <2>3. A \in Seq(U) /\ b \in U /\ \A c \in U : Proper(c)
    BY <2>1, <2>2
  <2>4. AttrBytes(Append(A, b)) = AttrBytes(A) + 4 + b.room
    BY <2>3, BytesAppend, Zenon
  <2>5. AttrBytes(A) + 4 + b.room = AttrBytes(A) + 24
    BY <1>5, <2>2
  <2> QED BY <2>1, <2>4, <2>5, Zenon
<1> QED BY <1>11, <1>12, <1>13, <1>14, Zenon DEF Draft

\* add_fingerprint()
LEMMA FingerprintAdded ==
  ASSUME NEW S, \A a \in S : Proper(a), Writable(S), NEW A \in Seq(S), NEW m, NEW type, NEW tid,
         Draft(m, A, type, tid), Fits(AttrBytes(A) + 8), NEW h, h = AddFingerprint(m)
  PROVE  Draft(h, Append(A, FpOf(h, A)), type, tid)
<1>1. PICK a, w, v : /\ a = Attr("FINGERPRINT", 4, Number(0)) /\ w = AddAttribute(m, a)
                     /\ v = Crc(w, m.attrs)
  BY Zenon
<1>2. Proper(a) /\ a.t = "FINGERPRINT" /\ a.room = 4
  <2>1. 4 \in 0..MaxValue /\ Pad(4) = 4
    BY DEF MaxValue, Pad
  <2>2. Number(0) # Number(-1)
    BY ValueFacts
  <2>3. Proper(a) /\ a.t = "FINGERPRINT" /\ a.len = 4
    <3>1. PICK u : u = Number(0) /\ a = Attr("FINGERPRINT", 4, u)
      BY <1>1, Zenon
    <3>2. Proper(Attr("FINGERPRINT", 4, u)) /\ Attr("FINGERPRINT", 4, u).t = "FINGERPRINT"
          /\ Attr("FINGERPRINT", 4, u).len = 4
      BY <2>1, <2>2, <3>1, AttrFacts
    <3> QED BY <3>1, <3>2, Zenon
  <2> QED BY <2>1, <2>3, Zenon DEF Proper
<1>3. PICK T : T = S \cup {a}
  BY Zenon
<1>4. A \in Seq(T) /\ a \in T /\ \A b \in T : Proper(b)
  BY <1>2, <1>3
<1>5. AttrBytes(A) \in Nat
  BY <1>4, BytesFacts, Zenon
<1>6. AttrBytes(A) + 4 + a.room = AttrBytes(A) + 8
  BY <1>2, <1>5
<1>7. /\ Draft(w, Append(A, a), type, tid)
      /\ AttrBytes(Append(A, a)) = AttrBytes(A) + 8
  <2>1. Fits(AttrBytes(A) + 4 + a.room)
    BY <1>6, Zenon
  <2>2. /\ Draft(AddAttribute(m, a), Append(A, a), type, tid)
        /\ AttrBytes(Append(A, a)) = AttrBytes(A) + 4 + a.room
    BY <1>4, <2>1, AddKeepsDraft, Zenon
  <2> QED BY <1>1, <1>6, <2>2, Zenon
<1>8. CanWrite(w)
  <2>1. w.attrs = Append(A, a)
    BY <1>7, Zenon DEF Draft
  <2>2. a.t # "XOR"
    BY <1>2
  <2> QED BY <2>1, <2>2, DraftWritable, Zenon
<1>9. h = Filled(w, v)
  BY <1>1, <1>8 DEF AddFingerprint, Uint32, Filled
<1>10. IsMessage(w) /\ w.attrs = Append(A, a)
  BY <1>7, Zenon DEF Draft
<1>11. /\ IsMessage(h) /\ h.type = w.type /\ h.length = w.length /\ h.cookie = w.cookie
       /\ h.tid = w.tid /\ h.attrs = Append(A, Attr("FINGERPRINT", 4, v)) /\ h.tail = w.tail
  <2>1. [a EXCEPT !.val = v] = Attr("FINGERPRINT", 4, v)
    BY <1>1 DEF Attr
  <2>3. IsFilled(Filled(w, v), w, Append(A, [a EXCEPT !.val = v]))
    BY <1>10, LastFilled, Zenon
  <2> QED BY <1>9, <2>1, <2>3, Zenon DEF IsFilled
<1>12. v = Crc(h, A)
  <2>1. m.attrs = A
    BY Zenon DEF Draft
  <2> QED BY <1>1, <1>11, <2>1, Zenon DEF Crc, Digest
<1>13. Attr("FINGERPRINT", 4, v) = FpOf(h, A)
  BY <1>12, Zenon DEF FpOf
<1>14. AttrBytes(Append(A, FpOf(h, A))) = AttrBytes(A) + 8
  <2>1. PICK b, U : b = FpOf(h, A) /\ U = S \cup {b}
    BY Zenon
  <2>2. Proper(b) /\ b.room = 4
    BY <2>1, FpIsProper, Zenon
  <2>3. A \in Seq(U) /\ b \in U /\ \A c \in U : Proper(c)
    BY <2>1, <2>2
  <2>4. AttrBytes(Append(A, b)) = AttrBytes(A) + 4 + b.room
    BY <2>3, BytesAppend, Zenon
  <2>5. AttrBytes(A) + 4 + b.room = AttrBytes(A) + 8
    BY <1>5, <2>2
  <2> QED BY <2>1, <2>4, <2>5, Zenon
<1> QED BY <1>7, <1>11, <1>13, <1>14, Zenon DEF Draft

\* What the server finishes with a fingerprint alone, or with both digests, is well-built.
LEMMA UnsignedBuilt ==
  ASSUME NEW S, Plain(S), Writable(S), NEW A \in Seq(S), NEW m, NEW type, NEW tid,
         Draft(m, A, type, tid), Fits(AttrBytes(A) + 8)
  PROVE  BuiltAs(AddFingerprint(m), A, None, type, tid)
<1>0. PICK h : h = AddFingerprint(m)
  BY Zenon
<1>1. \A a \in S : Proper(a)
  BY Zenon DEF Plain
<1>2. Draft(h, Append(A, FpOf(h, A)), type, tid)
  BY <1>0, <1>1, FingerprintAdded, Zenon
<1>3. Signed(h, A, None) = A
  BY Zenon DEF Signed
<1>4. BuiltAs(h, A, None, type, tid)
  BY <1>2, <1>3, Zenon DEF Draft, WellBuilt, IsMessage, BuiltAs
<1> QED BY <1>0, <1>4, Zenon

LEMMA SignedBuilt ==
  ASSUME NEW S, Plain(S), Writable(S), NEW A \in Seq(S), NEW m, NEW type, NEW tid,
         Draft(m, A, type, tid), Fits(AttrBytes(A) + 32), NEW pw, pw # None
  PROVE  BuiltAs(AddFingerprint(AddMessageIntegrity(m, pw)), A, pw, type, tid)
<1>0. PICK h : h = AddFingerprint(AddMessageIntegrity(m, pw))
  BY Zenon
<1>1. \A a \in S : Proper(a)
  BY Zenon DEF Plain
<1>2. PICK M, g, s, T : /\ M = MiOf(m, A, pw) /\ g = AddMessageIntegrity(m, pw)
                        /\ s = Append(A, M) /\ T = S \cup {M}
  BY Zenon
<1>3. Proper(M) /\ M.room = 20 /\ M.t = "MI"
  BY <1>2, MiIsProper, Zenon
<1>4. A \in Seq(T) /\ M \in T /\ (\A a \in T : Proper(a))
  BY <1>1, <1>2, <1>3
<1>5. Writable(T) /\ s \in Seq(T)
  BY <1>2, <1>3, <1>4 DEF Writable
<1>6. AttrBytes(A) \in Nat /\ AttrBytes(s) = AttrBytes(A) + 4 + M.room
  BY <1>2, <1>4, BytesAppend, Zenon
<1>7. AttrBytes(s) = AttrBytes(A) + 24 /\ AttrBytes(s) + 8 = AttrBytes(A) + 32
  BY <1>3, <1>6
<1>8. Fits(AttrBytes(A) + 24) /\ Fits(AttrBytes(s) + 8)
  BY <1>6, <1>7 DEF Fits
<1>9. Draft(g, s, type, tid)
  BY <1>1, <1>2, <1>8, IntegrityAdded, Zenon
<1>10. h = AddFingerprint(g)
  BY <1>0, <1>2, Zenon
<1>11. Draft(h, Append(s, FpOf(h, s)), type, tid)
  BY <1>4, <1>5, <1>8, <1>9, <1>10, FingerprintAdded, Zenon
<1>12. M = MiOf(h, A, pw)
  <2>1. h.type = m.type /\ h.tid = m.tid /\ h.cookie = m.cookie
    BY <1>11, Zenon DEF Draft
  <2> QED BY <1>2, <2>1, Zenon DEF MiOf, Hmac, Digest
<1>13. Signed(h, A, pw) = s
  BY <1>2, <1>12, Zenon DEF Signed
<1>14. BuiltAs(h, A, pw, type, tid)
  BY <1>11, <1>13, Zenon DEF Draft, WellBuilt, IsMessage, BuiltAs
<1> QED BY <1>0, <1>14, Zenon

\* A message somebody built well, with or without MESSAGE-INTEGRITY under pw.
Built(m, pw) == \E S : \E A \in Seq(S) : Plain(S) /\ WellBuilt(m, A, pw)

\* Attributes in front of the digests.
LEMMA PlainAttr ==
  ASSUME NEW t, t \notin {"MI", "FINGERPRINT"}, NEW n \in 0..MaxValue, NEW v, v # Number(-1),
         t = "XOR" => v = Text(<<"v4">>), t = "PRIORITY" => n = 4, NEW a, a = Attr(t, n, v)
  PROVE  /\ Proper(a) /\ a.t \notin {"MI", "FINGERPRINT"} /\ a.room = Pad(n)
         /\ a.t = "XOR" => a.val = Text(<<"v4">>)
<1>1. Proper(a) /\ a.t = t /\ a.len = n /\ a.val = v
  BY AttrFacts
<1>2. a.room = Pad(n)
  BY DEF Attr
<1> QED BY <1>1, <1>2, Zenon

\* A message of the server with one attribute.
LEMMA OneAttribute ==
  ASSUME NEW type, NEW tid, NEW a, Proper(a), NEW S, S = {a}
  PROVE  /\ Append(<< >>, a) \in Seq(S)
         /\ Fits(4 + a.room) => Draft(AddAttribute(New(type, tid), a), Append(<< >>, a), type, tid)
         /\ AttrBytes(Append(<< >>, a)) = 4 + a.room /\ a.room \in Nat
<1>1. PICK e : e = << >>
  BY Zenon
<1>2. e \in Seq(S) /\ a \in S /\ (\A b \in S : Proper(b)) /\ Append(e, a) \in Seq(S)
  BY <1>1
<1>3. /\ AttrBytes(Append(e, a)) = AttrBytes(e) + 4 + a.room
      /\ AttrBytes(e) \in Nat /\ a.room \in Nat
  BY <1>2, BytesAppend, Zenon
<1>4. AttrBytes(e) = 0
  BY <1>1, <1>2, BytesFacts, Zenon
<1>5. AttrBytes(e) + 4 + a.room = 4 + a.room
  BY <1>3, <1>4
<1>6. Draft(New(type, tid), e, type, tid)
  BY <1>1, NewIsDraft, Zenon
<1>7. ASSUME Fits(4 + a.room)
      PROVE  Draft(AddAttribute(New(type, tid), a), Append(e, a), type, tid)
  <2>1. Fits(AttrBytes(e) + 4 + a.room)
    BY <1>5, <1>7, Zenon
  <2> QED BY <1>2, <1>6, <2>1, AddKeepsDraft, Zenon
<1> QED BY <1>1, <1>2, <1>3, <1>5, <1>7, Zenon

\* send_stun_binding_response()
LEMMA ResponseBuilt ==
  ASSUME NEW m
  PROVE  /\ Built(Response(m), LocalPwd)
         /\ Response(m).type = STUN_BINDING_RESPONSE /\ Response(m).tid = m.tid
<1>1. PICK a, S, A, g, h, type :
        /\ a = Attr("XOR", 8, Text(<<"v4">>)) /\ S = {a} /\ A = Append(<< >>, a)
        /\ type = STUN_BINDING_RESPONSE
        /\ g = AddAttribute(New(type, m.tid), a)
        /\ h = AddFingerprint(AddMessageIntegrity(g, LocalPwd))
  BY Zenon
<1>2. h = Response(m)
  BY <1>1 DEF Response, XorMappedAddress, AddressLength
<1>3. /\ Proper(a) /\ a.t \notin {"MI", "FINGERPRINT"} /\ a.room = Pad(8)
      /\ a.t = "XOR" => a.val = Text(<<"v4">>)
  <2>1. 8 \in 0..MaxValue
    BY DEF MaxValue
  <2>2. PICK v : v = Text(<<"v4">>)
    BY Zenon
  <2>3. v # Number(-1)
    BY <2>2, ValueFacts, Zenon
  <2> QED BY <1>1, <2>1, <2>2, <2>3, PlainAttr
<1>4. a.room = 8
  BY <1>3 DEF Pad
<1>5. Plain(S) /\ Writable(S)
  BY <1>1, <1>3, Zenon DEF Plain, Writable
<1>6. A \in Seq(S) /\ AttrBytes(A) = 4 + a.room
      /\ (Fits(4 + a.room) => Draft(g, A, type, m.tid))
  BY <1>1, <1>3, OneAttribute, Zenon
<1>7. Fits(4 + a.room) /\ Fits(AttrBytes(A) + 32)
  BY <1>4, <1>6 DEF Fits
<1>8. LocalPwd # None
  BY StunAssumption
<1>9. WellBuilt(h, A, LocalPwd) /\ h.type = type /\ h.tid = m.tid
  <2>1. Draft(g, A, type, m.tid)
    BY <1>6, <1>7, Zenon
  <2>2. BuiltAs(AddFingerprint(AddMessageIntegrity(g, LocalPwd)), A, LocalPwd, type, m.tid)
    BY <1>5, <1>6, <1>7, <1>8, <2>1, SignedBuilt, Zenon
  <2> QED BY <1>1, <2>2, Zenon DEF BuiltAs
<1> QED BY <1>1, <1>2, <1>5, <1>6, <1>9, Zenon DEF Built

\* send_binding_error_response()
LEMMA ErrorBuilt ==
  ASSUME NEW m, NEW code \in {400, 401}
  PROVE  /\ Built(ErrorResponse(m, code), None)
         /\ ErrorResponse(m, code).type = STUN_BINDING_ERROR_RESPONSE
         /\ ErrorResponse(m, code).tid = m.tid
<1>1. PICK l, a, S, A, g, h, type :
        /\ l = 4 + ReasonLength(code)
        /\ a = Attr("ERROR", l, Number(code)) /\ S = {a} /\ A = Append(<< >>, a)
        /\ type = STUN_BINDING_ERROR_RESPONSE
        /\ g = AddAttribute(New(type, m.tid), a)
        /\ h = AddFingerprint(g)
  <2> HIDE DEF ReasonLength
  <2> QED OBVIOUS
<1>2. h = ErrorResponse(m, code)
  BY <1>1 DEF ErrorResponse, ErrorAttr
<1>3. l \in {15, 16} /\ l \in 0..MaxValue /\ Pad(l) = 16
  BY <1>1 DEF ReasonLength, STUN_ERROR_BAD_REQUEST, MaxValue, Pad
<1>4. /\ Proper(a) /\ a.t \notin {"MI", "FINGERPRINT"} /\ a.room = Pad(l)
      /\ a.t = "XOR" => a.val = Text(<<"v4">>)
  <2>2. PICK v : v = Number(code)
    OBVIOUS
  <2>3. v # Number(-1)
    BY <2>2, ValueFacts
  <2>4. a = Attr("ERROR", l, v)
    BY <1>1, <2>2
  <2> QED BY <1>3, <2>3, <2>4, PlainAttr
<1>5. a.room = 16
  BY <1>3, <1>4
<1>6. Plain(S) /\ Writable(S)
  BY <1>1, <1>4 DEF Plain, Writable
<1>7. A \in Seq(S) /\ AttrBytes(A) = 4 + a.room
      /\ (Fits(4 + a.room) => Draft(g, A, type, m.tid))
  BY <1>1, <1>4, OneAttribute
<1>8. Fits(4 + a.room) /\ Fits(AttrBytes(A) + 8)
  BY <1>5, <1>7 DEF Fits
<1>9. WellBuilt(h, A, None) /\ h.type = type /\ h.tid = m.tid
  <2>1. Draft(g, A, type, m.tid)
    BY <1>7, <1>8
  <2>2. BuiltAs(AddFingerprint(g), A, None, type, m.tid)
    BY <1>6, <1>7, <1>8, <2>1, UnsignedBuilt
  <2> QED BY <1>1, <2>2 DEF BuiltAs
<1> QED BY <1>1, <1>2, <1>6, <1>7, <1>9 DEF Built

\* One attribute more, while there is room for it.
LEMMA OneMore ==
  ASSUME NEW S, \A b \in S : Proper(b), NEW A \in Seq(S), NEW a \in S, NEW m, NEW type, NEW tid,
         Draft(m, A, type, tid), NEW n \in Nat, AttrBytes(A) =< n, Fits(n + 4 + a.room)
  PROVE  /\ Append(A, a) \in Seq(S)
         /\ Draft(AddAttribute(m, a), Append(A, a), type, tid)
         /\ AttrBytes(Append(A, a)) =< n + 4 + a.room
<1>1. AttrBytes(Append(A, a)) = AttrBytes(A) + 4 + a.room
      /\ AttrBytes(A) \in Nat /\ a.room \in Nat
  BY BytesAppend, Zenon
<1>2. Fits(AttrBytes(A) + 4 + a.room)
  BY <1>1 DEF Fits
<1>3. Draft(AddAttribute(m, a), Append(A, a), type, tid)
  BY <1>2, AddKeepsDraft, Zenon
<1>4. AttrBytes(A) + 4 + a.room =< n + 4 + a.room
  BY <1>1
<1>5. Append(A, a) \in Seq(S)
  OBVIOUS
<1> QED BY <1>1, <1>3, <1>4, <1>5, Zenon

\* ConnectionRequest::prepare(): even the longest USERNAME leaves room in the header's length.
LEMMA PingBuilt ==
  ASSUME NEW tid, len \in Length, conn.password = RemotePwd
  PROVE  /\ Built(PingMessage(tid), RemotePwd)
         /\ PingMessage(tid).type = STUN_BINDING_REQUEST /\ PingMessage(tid).tid = tid
<1>1. PICK type, a, b, c, d, S, e :
        /\ type = STUN_BINDING_REQUEST /\ e = << >>
        /\ a = Attr("USERNAME", len, Text(<<conn.username, LocalUfrag>>))
        /\ b = Attr("CONTROLLING", 8, Number(0))
        /\ c = Attr("USE_CANDIDATE", 0, Text(<< >>))
        /\ d = Attr("PRIORITY", 4, Number(1))
        /\ S = {a, b, c, d}
  BY Zenon
<1>2. len \in 0..MaxValue /\ 8 \in 0..MaxValue /\ 0 \in 0..MaxValue /\ 4 \in 0..MaxValue
  <2>1. Length \subseteq 0..MaxValue
    BY StunAssumption, Zenon
  <2>2. 8 \in 0..MaxValue /\ 0 \in 0..MaxValue /\ 4 \in 0..MaxValue
    BY DEF MaxValue
  <2> QED BY <2>1, <2>2, Zenon
<1>3. /\ Pad(8) = 8 /\ Pad(0) = 0 /\ Pad(4) = 4 /\ Pad(len) \in Nat
      /\ Pad(len) =< MaxValue + 3
  <2>1. Pad(8) = 8 /\ Pad(0) = 0 /\ Pad(4) = 4
    BY DEF Pad
  <2>2. Pad(len) \in len..(len + 3) /\ Pad(len) \in Nat
    BY <1>2, PadFacts
  <2>3. len + 3 =< MaxValue + 3 /\ len \in Nat /\ MaxValue \in Nat
    <3>1. len \in Nat /\ len =< MaxValue
      BY <1>2, LengthBounds, Zenon
    <3>2. MaxValue \in Nat
      BY DEF MaxValue
    <3> QED BY <3>1, <3>2
  <2>4. \A p, k, m \in Nat : p \in k..(k + 3) /\ k + 3 =< m + 3 => p =< m + 3
    BY SMTT(30)
  <2> QED BY <2>1, <2>2, <2>3, <2>4, Zenon
<1>4. /\ Proper(a) /\ a.t \notin {"MI", "FINGERPRINT", "XOR"} /\ a.room = Pad(len)
  <2>1. PICK v : v = Text(<<conn.username, LocalUfrag>>)
    BY Zenon
  <2>2. v # Number(-1)
    BY <2>1, ValueFacts, Zenon
  <2>3. a = Attr("USERNAME", len, v)
    BY <1>1, <2>1, Zenon
  <2>4. Proper(a) /\ a.t = "USERNAME"
    BY <1>2, <2>2, <2>3, AttrFacts
  <2>5. a.room = Pad(len)
    BY <2>3 DEF Attr
  <2> QED BY <2>4, <2>5
<1>5. /\ Proper(b) /\ b.t \notin {"MI", "FINGERPRINT", "XOR"} /\ b.room = 8
  <2>1. PICK v : v = Number(0)
    BY Zenon
  <2>2. v # Number(-1)
    BY <2>1, ValueFacts
  <2>3. b = Attr("CONTROLLING", 8, v)
    BY <1>1, <2>1, Zenon
  <2>4. Proper(b) /\ b.t = "CONTROLLING"
    BY <1>2, <2>2, <2>3, AttrFacts
  <2>5. b.room = Pad(8)
    BY <2>3 DEF Attr
  <2> QED BY <1>3, <2>4, <2>5
<1>6. /\ Proper(c) /\ c.t \notin {"MI", "FINGERPRINT", "XOR"} /\ c.room = 0
  <2>1. PICK v : v = Text(<< >>)
    BY Zenon
  <2>2. v # Number(-1)
    BY <2>1, ValueFacts, Zenon
  <2>3. c = Attr("USE_CANDIDATE", 0, v)
    BY <1>1, <2>1, Zenon
  <2>4. Proper(c) /\ c.t = "USE_CANDIDATE"
    BY <1>2, <2>2, <2>3, AttrFacts
  <2>5. c.room = Pad(0)
    BY <2>3 DEF Attr
  <2> QED BY <1>3, <2>4, <2>5
<1>7. /\ Proper(d) /\ d.t \notin {"MI", "FINGERPRINT", "XOR"} /\ d.room = 4
  <2>1. PICK v : v = Number(1)
    BY Zenon
  <2>2. v # Number(-1)
    BY <2>1, ValueFacts
  <2>3. d = Attr("PRIORITY", 4, v)
    BY <1>1, <2>1, Zenon
  <2>4. Proper(d) /\ d.t = "PRIORITY"
    BY <1>2, <2>2, <2>3, AttrFacts
  <2>5. d.room = Pad(4)
    BY <2>3 DEF Attr
  <2> QED BY <1>3, <2>4, <2>5
<1>8. a \in S /\ b \in S /\ c \in S /\ d \in S /\ (\A x \in S : Proper(x)) /\ e \in Seq(S)
  BY <1>1, <1>4, <1>5, <1>6, <1>7
<1>9. Plain(S) /\ Writable(S)
  BY <1>1, <1>4, <1>5, <1>6, <1>7 DEF Plain, Writable
<1>10. PICK n, k, l, o : /\ n \in Nat /\ k \in Nat /\ l \in Nat /\ o \in Nat
                         /\ n = 0 + 4 + a.room /\ k = n + 4 + b.room /\ l = k + 4 + c.room
                         /\ o = l + 4 + d.room
                         /\ Fits(0 + 4 + a.room) /\ Fits(n + 4 + b.room) /\ Fits(k + 4 + c.room)
                         /\ Fits(l + 4 + d.room) /\ Fits(o + 32)
  BY <1>3, <1>4, <1>5, <1>6, <1>7 DEF Fits, MaxValue
<1>11. PICK A, B, C, D : /\ A = Append(e, a) /\ B = Append(A, b) /\ C = Append(B, c)
                         /\ D = Append(C, d)
  BY Zenon
<1>12. PICK m0, m1, m2, m3, m4 : /\ m0 = New(type, tid) /\ m1 = AddAttribute(m0, a)
                                 /\ m2 = AddAttribute(m1, b) /\ m3 = AddAttribute(m2, c)
                                 /\ m4 = AddAttribute(m3, d)
  BY Zenon
<1>13. PingMessage(tid) = AddFingerprint(AddMessageIntegrity(m4, RemotePwd))
  BY <1>1, <1>12, Zenon DEF PingMessage, StunUsername, Uint64, Uint32
<1>14. Draft(m0, e, type, tid) /\ AttrBytes(e) =< 0
  <2>1. AttrBytes(e) = 0
    BY <1>1, <1>8, BytesFacts, Zenon
  <2> QED BY <1>1, <1>12, <2>1, NewIsDraft
<1>15. A \in Seq(S) /\ Draft(m1, A, type, tid) /\ AttrBytes(A) =< n
  <2>1. 0 \in Nat
    OBVIOUS
  <2> QED BY <1>8, <1>10, <1>11, <1>12, <1>14, <2>1, OneMore, Zenon
<1>16. B \in Seq(S) /\ Draft(m2, B, type, tid) /\ AttrBytes(B) =< k
  <2>1. n \in Nat /\ Fits(n + 4 + b.room) /\ k = n + 4 + b.room
    BY <1>10, Zenon
  <2>2. B = Append(A, b) /\ m2 = AddAttribute(m1, b)
    BY <1>11, <1>12, Zenon
  <2>3. /\ Append(A, b) \in Seq(S)
        /\ Draft(AddAttribute(m1, b), Append(A, b), type, tid)
        /\ AttrBytes(Append(A, b)) =< n + 4 + b.room
    BY <1>8, <1>15, <2>1, OneMore, Zenon
  <2> QED BY <2>1, <2>2, <2>3, Zenon
<1>17. C \in Seq(S) /\ Draft(m3, C, type, tid) /\ AttrBytes(C) =< l
  <2>1. k \in Nat /\ Fits(k + 4 + c.room) /\ l = k + 4 + c.room
    BY <1>10, Zenon
  <2>2. C = Append(B, c) /\ m3 = AddAttribute(m2, c)
    BY <1>11, <1>12, Zenon
  <2>3. /\ Append(B, c) \in Seq(S)
        /\ Draft(AddAttribute(m2, c), Append(B, c), type, tid)
        /\ AttrBytes(Append(B, c)) =< k + 4 + c.room
    BY <1>8, <1>16, <2>1, OneMore, Zenon
  <2> QED BY <2>1, <2>2, <2>3, Zenon
<1>18. D \in Seq(S) /\ Draft(m4, D, type, tid) /\ AttrBytes(D) =< o
  <2>1. l \in Nat /\ Fits(l + 4 + d.room) /\ o = l + 4 + d.room
    BY <1>10, Zenon
  <2>2. D = Append(C, d) /\ m4 = AddAttribute(m3, d)
    BY <1>11, <1>12, Zenon
  <2>3. /\ Append(C, d) \in Seq(S)
        /\ Draft(AddAttribute(m3, d), Append(C, d), type, tid)
        /\ AttrBytes(Append(C, d)) =< l + 4 + d.room
    BY <1>8, <1>17, <2>1, OneMore, Zenon
  <2> QED BY <2>1, <2>2, <2>3, Zenon
<1>19. Fits(AttrBytes(D) + 32)
  <2>1. AttrBytes(D) \in Nat
    BY <1>8, <1>18, BytesFacts, Zenon
  <2>2. o \in Nat /\ Fits(o + 32) /\ AttrBytes(D) =< o
    BY <1>10, <1>18, Zenon
  <2>3. \A x, y \in Nat : x =< y /\ Fits(y + 32) => Fits(x + 32)
    BY DEF Fits
  <2> QED BY <2>1, <2>2, <2>3, Zenon
<1>20. RemotePwd # None
  BY StunAssumption
<1>21. BuiltAs(AddFingerprint(AddMessageIntegrity(m4, RemotePwd)), D, RemotePwd, type, tid)
  BY <1>9, <1>18, <1>19, <1>20, SignedBuilt, Zenon
<1> QED BY <1>1, <1>9, <1>13, <1>18, <1>21, Zenon DEF Built, BuiltAs

-----------------------------------------------------------------------------
(* The client's requests and answers *)

\* Three sequences of at most one attribute each.
LEMMA IfFacts ==
  ASSUME NEW S, NEW a \in S, NEW b \in BOOLEAN
  PROVE  If(b, a) \in Seq(S) /\ Len(If(b, a)) = (IF b THEN 1 ELSE 0) /\ (b => If(b, a)[1] = a)
BY DEF If

Joined(S, w, x, y, z) ==
  /\ w \in Seq(S) /\ Len(w) = Len(x) + Len(y) + Len(z)
  /\ \A i \in 1..Len(w) : w[i] = IF i =< Len(x) THEN x[i]
                                 ELSE IF i =< Len(x) + Len(y) THEN y[i - Len(x)]
                                 ELSE z[i - Len(x) - Len(y)]

LEMMA JoinThree ==
  ASSUME NEW S, NEW x \in Seq(S), NEW y \in Seq(S), NEW z \in Seq(S)
  PROVE  Joined(S, x \o y \o z, x, y, z)
<1>0. PICK w : w = x \o y \o z
  OBVIOUS
<1>1. PICK v : v = x \o y
  OBVIOUS
<1>2. /\ v \in Seq(S) /\ Len(v) = Len(x) + Len(y) /\ Len(x) \in Nat /\ Len(y) \in Nat
      /\ Len(z) \in Nat
      /\ \A i \in 1..Len(v) : v[i] = IF i =< Len(x) THEN x[i] ELSE y[i - Len(x)]
  BY <1>1
<1>3. w = v \o z
  BY <1>0, <1>1
<1>4. /\ w \in Seq(S) /\ Len(w) = Len(v) + Len(z)
      /\ \A i \in 1..Len(w) : w[i] = IF i =< Len(v) THEN v[i] ELSE z[i - Len(v)]
  <2>1. v \in Seq(S)
    BY <1>2
  <2> QED BY <1>3, <2>1
<1>5. ASSUME NEW i \in 1..Len(w)
      PROVE  w[i] = IF i =< Len(x) THEN x[i]
                    ELSE IF i =< Len(x) + Len(y) THEN y[i - Len(x)]
                    ELSE z[i - Len(x) - Len(y)]
  <2>1. CASE i =< Len(v)
    <3>1. i \in 1..Len(v) /\ w[i] = v[i]
      BY <1>2, <1>4, <2>1
    <3> QED BY <1>2, <2>1, <3>1
  <2>2. CASE ~ (i =< Len(v))
    <3>1. w[i] = z[i - Len(v)] /\ i - Len(v) = i - Len(x) - Len(y) /\ ~ (i =< Len(x))
      BY <1>2, <1>4, <2>2
    <3> QED BY <1>2, <2>2, <3>1
  <2> QED BY <2>1, <2>2
<1>6. Joined(S, w, x, y, z)
  BY <1>2, <1>4, <1>5 DEF Joined
<1> QED BY <1>0, <1>6, Zenon

\* The attributes of a request.
UserOf(r, n) == Attr("USERNAME", n, Text(<<r.local, r.remote>>))
OtherOf(r) == Attr("OTHER", r.other, Number(0))
PrioOf == Attr("PRIORITY", 4, Number(1))
AttrsOf(r, n) == {UserOf(r, n), OtherOf(r), PrioOf}

LEMMA RequestTypes ==
  ASSUME NEW r \in Request
  PROVE  /\ r.user \in BOOLEAN /\ r.mi \in BOOLEAN /\ r.prio \in BOOLEAN
         /\ r.other \in 0..MaxValue /\ r.other \in Nat /\ r.pwd # None
         /\ (Genuine(r) => r.remote = "R")
<1>1. /\ {r.user, r.mi, r.prio} \subseteq BOOLEAN
      /\ r.other \in 0..MaxValue /\ r.pwd # None
      /\ Genuine(r) => r.remote = "R"
  BY StunAssumption, Zenon
<1>2. r.other \in Nat
  <2>1. \A m \in Nat : \A n \in 0..m : n \in Nat
    BY SMTT(30)
  <2>2. MaxValue \in Nat
    BY DEF MaxValue
  <2> QED BY <1>1, <2>1, <2>2, Zenon
<1> QED BY <1>1, <1>2, Zenon

LEMMA RequestPlain ==
  ASSUME NEW r \in Request, NEW n \in Length
  PROVE  /\ Plain(AttrsOf(r, n))
         /\ UserOf(r, n).t = "USERNAME" /\ OtherOf(r).t = "OTHER" /\ PrioOf.t = "PRIORITY"
         /\ UserOf(r, n).val.text = <<r.local, r.remote>>
<1>1. n \in 0..MaxValue /\ 4 \in 0..MaxValue /\ r.other \in 0..MaxValue
  <2>1. Length \subseteq 0..MaxValue
    BY StunAssumption, Zenon
  <2>2. 4 \in 0..MaxValue
    BY DEF MaxValue
  <2> QED BY <2>1, <2>2, RequestTypes, Zenon
<1>2. Proper(UserOf(r, n)) /\ UserOf(r, n).t = "USERNAME"
      /\ UserOf(r, n).val = Text(<<r.local, r.remote>>)
  <2>1. PICK v : v = Text(<<r.local, r.remote>>)
    BY Zenon
  <2>2. v # Number(-1) /\ UserOf(r, n) = Attr("USERNAME", n, v)
    BY <2>1, ValueFacts, Zenon DEF UserOf
  <2> QED BY <1>1, <2>1, <2>2, AttrFacts
<1>3. Proper(OtherOf(r)) /\ OtherOf(r).t = "OTHER"
  <2>1. PICK v : v = Number(0)
    BY Zenon
  <2>2. v # Number(-1)
    BY <2>1, ValueFacts
  <2>3. OtherOf(r) = Attr("OTHER", r.other, v)
    BY <2>1, Zenon DEF OtherOf
  <2> QED BY <1>1, <2>2, <2>3, AttrFacts
<1>4. Proper(PrioOf) /\ PrioOf.t = "PRIORITY"
  <2>1. PICK v : v = Number(1)
    BY Zenon
  <2>2. v # Number(-1)
    BY <2>1, ValueFacts
  <2>3. PrioOf = Attr("PRIORITY", 4, v)
    BY <2>1, Zenon DEF PrioOf
  <2> QED BY <1>1, <2>2, <2>3, AttrFacts
<1>5. Text(<<r.local, r.remote>>).text = <<r.local, r.remote>>
  BY DEF Text
<1> QED BY <1>2, <1>3, <1>4, <1>5 DEF Plain, AttrsOf

Shaped(A, r, n) ==
  /\ A \in Seq(AttrsOf(r, n))
  /\ r.user => Len(A) > 0 /\ A[1] = UserOf(r, n)
  /\ (\E i \in 1..Len(A) : A[i].t = "USERNAME") <=> r.user
  /\ (\E i \in 1..Len(A) : A[i].t = "PRIORITY") <=> r.prio

LEMMA RequestShape ==
  ASSUME NEW r \in Request, NEW n \in Length
  PROVE  Shaped(RequestAttrs(r, n), r, n)
<1>0. PICK A : A = RequestAttrs(r, n)
  BY Zenon
<1>1. PICK S, u, o, p, c, x, y, z :
        /\ S = AttrsOf(r, n) /\ u = UserOf(r, n) /\ o = OtherOf(r) /\ p = PrioOf
        /\ c = (r.other > 0)
        /\ x = If(r.user, u) /\ y = If(c, o) /\ z = If(r.prio, p)
  BY Zenon
<1>2. u \in S /\ o \in S /\ p \in S
  BY <1>1 DEF AttrsOf
<1>3. r.user \in BOOLEAN /\ c \in BOOLEAN /\ r.prio \in BOOLEAN
  <2>1. (r.other > 0) \in BOOLEAN
    BY RequestTypes
  <2> QED BY <1>1, <2>1, RequestTypes, Zenon
<1>4. A = x \o y \o z
  BY <1>0, <1>1 DEF RequestAttrs, UserOf, OtherOf, PrioOf
<1>5. /\ x \in Seq(S) /\ Len(x) = (IF r.user THEN 1 ELSE 0) /\ (r.user => x[1] = u)
      /\ y \in Seq(S) /\ Len(y) = (IF c THEN 1 ELSE 0) /\ (c => y[1] = o)
      /\ z \in Seq(S) /\ Len(z) = (IF r.prio THEN 1 ELSE 0) /\ (r.prio => z[1] = p)
  <2>1. If(r.user, u) \in Seq(S) /\ Len(If(r.user, u)) = (IF r.user THEN 1 ELSE 0)
        /\ (r.user => If(r.user, u)[1] = u)
    BY <1>2, <1>3, IfFacts, Zenon
  <2>2. If(c, o) \in Seq(S) /\ Len(If(c, o)) = (IF c THEN 1 ELSE 0) /\ (c => If(c, o)[1] = o)
    BY <1>2, <1>3, IfFacts, Zenon
  <2>3. If(r.prio, p) \in Seq(S) /\ Len(If(r.prio, p)) = (IF r.prio THEN 1 ELSE 0)
        /\ (r.prio => If(r.prio, p)[1] = p)
    BY <1>2, <1>3, IfFacts, Zenon
  <2> QED BY <1>1, <2>1, <2>2, <2>3, Zenon
<1>6. /\ A \in Seq(S) /\ Len(A) = Len(x) + Len(y) + Len(z)
      /\ \A i \in 1..Len(A) : A[i] = IF i =< Len(x) THEN x[i]
                                     ELSE IF i =< Len(x) + Len(y) THEN y[i - Len(x)]
                                     ELSE z[i - Len(x) - Len(y)]
  <2>1. x \in Seq(S) /\ y \in Seq(S) /\ z \in Seq(S)
    BY <1>5, Zenon
  <2>2. Joined(S, x \o y \o z, x, y, z)
    BY <2>1, JoinThree, Zenon
  <2> QED BY <1>4, <2>2, Zenon DEF Joined
<1>7. u.t = "USERNAME" /\ o.t = "OTHER" /\ p.t = "PRIORITY"
  BY <1>1, RequestPlain, Zenon
<1>8. r.user => Len(A) > 0 /\ A[1] = u
  BY <1>5, <1>6
<1>9. r.prio => Len(A) \in 1..Len(A) /\ A[Len(A)] = p
  BY <1>3, <1>5, <1>6
<1>10. \A i \in 1..Len(A) : (r.user /\ A[i] = u) \/ A[i] = o \/ (r.prio /\ A[i] = p)
  BY <1>3, <1>5, <1>6, SMTT(30)
<1>11. (\E i \in 1..Len(A) : A[i].t = "USERNAME") <=> r.user
  <2>1. r.user => 1 \in 1..Len(A)
    BY <1>5, <1>6, <1>8
  <2> QED BY <1>7, <1>8, <1>10, <2>1
<1>12. (\E i \in 1..Len(A) : A[i].t = "PRIORITY") <=> r.prio
  BY <1>7, <1>9, <1>10
<1>13. Shaped(A, r, n)
  BY <1>1, <1>6, <1>8, <1>11, <1>12, Zenon DEF Shaped
<1> QED BY <1>0, <1>13, Zenon

\* The password a request is signed with.
PwdOf(r) == IF r.mi THEN r.pwd ELSE None

LEMMA RequestBuilt ==
  ASSUME NEW r \in Request, NEW n \in Length, NEW k
  PROVE  /\ WellBuilt(RequestMessage(r, n, k), RequestAttrs(r, n), PwdOf(r))
         /\ RequestAttrs(r, n) \in Seq(AttrsOf(r, n)) /\ Plain(AttrsOf(r, n))
         /\ RequestMessage(r, n, k).type = STUN_BINDING_REQUEST
         /\ RequestMessage(r, n, k).tid = <<"c", k>>
<1>1. PICK S, A, pw, type, tid, m :
        /\ S = AttrsOf(r, n) /\ A = RequestAttrs(r, n) /\ pw = PwdOf(r)
        /\ type = STUN_BINDING_REQUEST /\ tid = <<"c", k>> /\ m = RefMessage(type, tid, A, pw)
  BY Zenon
<1>2. A \in Seq(S) /\ Plain(S)
  BY <1>1, RequestShape, RequestPlain, Zenon DEF Shaped
<1>3. BuiltAs(RefMessage(type, tid, A, pw), A, pw, type, tid)
  BY <1>2, RefMessageBuilt, Zenon
<1>4. m = RequestMessage(r, n, k)
  BY <1>1, Zenon DEF RequestMessage, PwdOf
<1> QED BY <1>1, <1>2, <1>3, <1>4, Zenon DEF BuiltAs

\* What the server makes of a request of the client.
LEMMA RequestRead ==
  ASSUME NEW r \in Request, NEW n \in Length, NEW k, NEW m, m = RequestMessage(r, n, k)
  PROVE  /\ m.type = STUN_BINDING_REQUEST /\ m.tid = <<"c", k>>
         /\ \A d \in Damaged(m) : ~ ValidateFingerprint(d)
         /\ Has(m, "PRIORITY") <=> r.prio
         /\ r.user => Ufrags(m) = <<r.local, r.remote>>
         /\ Rejection(m) \in {0, 400, 401}
         /\ Rejection(m) = 0 <=> Genuine(r)
<1>1. PICK S, A, pw : S = AttrsOf(r, n) /\ A = RequestAttrs(r, n) /\ pw = PwdOf(r)
  BY Zenon
<1>2. /\ Plain(S) /\ A \in Seq(S) /\ WellBuilt(m, A, pw)
      /\ m.type = STUN_BINDING_REQUEST /\ m.tid = <<"c", k>>
  BY <1>1, RequestBuilt, Zenon
<1>3. \A d \in Damaged(m) : ~ ValidateFingerprint(d)
  BY <1>2, DamageIsSeen
<1>4. /\ Has(m, "MI") <=> pw # None
      /\ \A t \in {"USERNAME", "PRIORITY"} : Has(m, t) <=> \E i \in 1..Len(A) : A[i].t = t
      /\ Len(A) > 0 /\ A[1].t = "USERNAME" => Get(m, "USERNAME") = A[1].val
  BY <1>2, WellBuiltHas, Zenon
<1>5. /\ r.user => Len(A) > 0 /\ A[1] = UserOf(r, n)
      /\ (\E i \in 1..Len(A) : A[i].t = "USERNAME") <=> r.user
      /\ (\E i \in 1..Len(A) : A[i].t = "PRIORITY") <=> r.prio
  <2>1. Shaped(A, r, n)
    BY <1>1, RequestShape, Zenon
  <2> QED BY <2>1, Zenon DEF Shaped
<1>6. /\ r.user \in BOOLEAN /\ r.mi \in BOOLEAN /\ r.prio \in BOOLEAN /\ r.pwd # None
  BY RequestTypes, Zenon
<1>7. pw # None <=> r.mi
  BY <1>1, <1>6, Zenon DEF PwdOf
<1>8. (Has(m, "USERNAME") <=> r.user) /\ (Has(m, "PRIORITY") <=> r.prio) /\ (Has(m, "MI") <=> r.mi)
  <2>1. "USERNAME" \in {"USERNAME", "PRIORITY"} /\ "PRIORITY" \in {"USERNAME", "PRIORITY"}
    OBVIOUS
  <2> QED BY <1>4, <1>5, <1>7, <2>1, Zenon
<1>9. r.user => Ufrags(m) = <<r.local, r.remote>>
  <2>1. UserOf(r, n).t = "USERNAME" /\ UserOf(r, n).val.text = <<r.local, r.remote>>
    BY RequestPlain, Zenon
  <2>2. r.user => Get(m, "USERNAME").text = <<r.local, r.remote>>
    BY <1>4, <1>5, <2>1, Zenon
  <2>3. Len(<<r.local, r.remote>>) = 2
    OBVIOUS
  <2> QED BY <2>2, <2>3, Zenon DEF Ufrags
<1>10. IntegrityOk(m, LocalPwd) <=> (pw # None /\ LocalPwd = pw)
  BY <1>2, WellBuiltIntegrity, Zenon
<1>11. IntegrityOk(m, LocalPwd) <=> (r.mi /\ r.pwd = LocalPwd)
  BY <1>1, <1>6, <1>7, <1>10, Zenon DEF PwdOf
<1>12. r.user => Ufrags(m)[1] = r.local
  <2>1. <<r.local, r.remote>>[1] = r.local
    OBVIOUS
  <2> QED BY <1>9, <2>1, Zenon
<1>13. STUN_ERROR_BAD_REQUEST = 400 /\ STUN_ERROR_UNAUTHORIZED = 401
  BY DEF STUN_ERROR_BAD_REQUEST, STUN_ERROR_UNAUTHORIZED
<1> HIDE DEF Has, IntegrityOk, Ufrags, STUN_ERROR_BAD_REQUEST, STUN_ERROR_UNAUTHORIZED
<1>14. Rejection(m) \in {0, 400, 401}
  BY <1>13 DEF Rejection
<1>15. Rejection(m) = 0 <=> Genuine(r)
  BY <1>8, <1>11, <1>12, <1>13 DEF Rejection, Genuine
<1> QED BY <1>2, <1>3, <1>8, <1>9, <1>14, <1>15

\* The answers of the client to a ping.
LEMMA AnswerRead ==
  ASSUME NEW p, NEW code \in Nat, NEW m, m = AnswerMessage(p, code)
  PROVE  m.type # STUN_BINDING_REQUEST /\ \A d \in Damaged(m) : ~ ValidateFingerprint(d)
<1>1. PICK type, a, S, A :
        /\ S = {a} /\ A = <<a>>
        /\ type \in {STUN_BINDING_RESPONSE, STUN_BINDING_ERROR_RESPONSE}
        /\ m = RefMessage(type, p.tid, A, RemotePwd)
        /\ Proper(a) /\ a.t \notin {"MI", "FINGERPRINT"}
  <2>1. 8 \in 0..MaxValue /\ 16 \in 0..MaxValue
    BY DEF MaxValue
  <2>2. CASE code = 0
    <3>1. PICK v, a : v = Text(<<"v4">>) /\ a = Attr("XOR", 8, v)
      BY Zenon
    <3>2. v # Number(-1)
      BY <3>1, ValueFacts, Zenon
    <3>3. Proper(a) /\ a.t = "XOR"
      BY <2>1, <3>1, <3>2, AttrFacts
    <3>4. m = RefMessage(STUN_BINDING_RESPONSE, p.tid, <<a>>, RemotePwd)
      BY <2>2, <3>1, Zenon DEF AnswerMessage
    <3>5. a.t \notin {"MI", "FINGERPRINT"}
      BY <3>3
    <3> QED BY <3>3, <3>4, <3>5, Zenon
  <2>3. CASE code # 0
    <3>1. PICK v, a : v = Number(code) /\ a = Attr("ERROR", 16, v)
      BY Zenon
    <3>2. v # Number(-1)
      BY <3>1, ValueFacts
    <3>3. Proper(a) /\ a.t = "ERROR"
      BY <2>1, <3>1, <3>2, AttrFacts
    <3>4. m = RefMessage(STUN_BINDING_ERROR_RESPONSE, p.tid, <<a>>, RemotePwd)
      BY <2>3, <3>1, Zenon DEF AnswerMessage
    <3>5. a.t \notin {"MI", "FINGERPRINT"}
      BY <3>3
    <3> QED BY <3>3, <3>4, <3>5, Zenon
  <2> QED BY <2>2, <2>3, Zenon
<1>2. Plain(S)
  BY <1>1, Zenon DEF Plain
<1>3. A \in Seq(S)
  BY <1>1
<1>4. WellBuilt(m, A, RemotePwd) /\ m.type = type
  <2>1. BuiltAs(RefMessage(type, p.tid, A, RemotePwd), A, RemotePwd, type, p.tid)
    BY <1>2, <1>3, RefMessageBuilt, Zenon
  <2> QED BY <1>1, <2>1, Zenon DEF BuiltAs
<1>5. \A d \in Damaged(m) : ~ ValidateFingerprint(d)
  BY <1>2, <1>3, <1>4, DamageIsSeen
<1>6. type # STUN_BINDING_REQUEST
  BY <1>1 DEF STUN_BINDING_REQUEST, STUN_BINDING_RESPONSE, STUN_BINDING_ERROR_RESPONSE
<1> QED BY <1>4, <1>5, <1>6, Zenon

-----------------------------------------------------------------------------
(* The exchange *)

LEMMA BuiltAccepted ==
  ASSUME NEW m, NEW pw, Built(m, pw)
  PROVE  RefAccepts(m, pw)
<1>1. PICK S : \E A \in Seq(S) : Plain(S) /\ WellBuilt(m, A, pw)
  BY Zenon DEF Built
<1>2. PICK A \in Seq(S) : Plain(S) /\ WellBuilt(m, A, pw)
  BY <1>1, Zenon
<1> QED BY <1>2, WellBuiltAccepted, Zenon

\* The three kinds of messages are told apart by their type.
LEMMA Types ==
  /\ STUN_BINDING_REQUEST # STUN_BINDING_RESPONSE
  /\ STUN_BINDING_REQUEST # STUN_BINDING_ERROR_RESPONSE
  /\ STUN_BINDING_RESPONSE # STUN_BINDING_ERROR_RESPONSE
BY DEF STUN_BINDING_REQUEST, STUN_BINDING_RESPONSE, STUN_BINDING_ERROR_RESPONSE

\* ClientUnderstands for one message.
Understood(m) ==
  RefAccepts(m, CASE m.type = STUN_BINDING_REQUEST -> RemotePwd
                  [] m.type = STUN_BINDING_RESPONSE -> LocalPwd
                  [] m.type = STUN_BINDING_ERROR_RESPONSE -> None)

LEMMA ResponseUnderstood ==
  ASSUME NEW m
  PROVE  Understood(Response(m))
<1> HIDE DEF RefAccepts, Response
<1> QED BY ResponseBuilt, BuiltAccepted, Types DEF Understood

LEMMA ErrorUnderstood ==
  ASSUME NEW m, NEW code \in {400, 401}
  PROVE  Understood(ErrorResponse(m, code))
<1> HIDE DEF RefAccepts, ErrorResponse
<1> QED BY ErrorBuilt, BuiltAccepted, Types DEF Understood

LEMMA PingUnderstood ==
  ASSUME len \in Length, conn.password = RemotePwd, NEW tid
  PROVE  Understood(PingMessage(tid))
<1> HIDE DEF RefAccepts, PingMessage
<1> QED BY PingBuilt, BuiltAccepted, Types DEF Understood

\* A request that arrives and can be read is one of the client's, as it was sent.
LEMMA Received ==
  ASSUME len \in Length, FromClient, NEW m \in Arriving, IsStun(m), m.type = STUN_BINDING_REQUEST
  PROVE  /\ m \in toServer
         /\ \E r \in Request, k \in 1..reqs :
              m = RequestMessage(r, len, k) /\ (Genuine(r) => m \in made)
<1>1. PICK o \in toServer : m \in Damaged(o) \cup {o}
  BY Zenon DEF Arriving
<1>2. \/ \E r \in Request, k \in 1..reqs : o = RequestMessage(r, len, k) /\ (Genuine(r) => o \in made)
      \/ \E p \in toClient, code \in {0, 401} : o = AnswerMessage(p, code)
  BY <1>1 DEF FromClient
<1>3. \A d \in Damaged(o) : ~ ValidateFingerprint(d)
  <2>1. CASE \E r \in Request, k \in 1..reqs : o = RequestMessage(r, len, k)
    <3>1. PICK r \in Request, k \in 1..reqs : o = RequestMessage(r, len, k)
      BY <2>1
    <3> QED BY <3>1, RequestRead
  <2>2. CASE \E p \in toClient, code \in {0, 401} : o = AnswerMessage(p, code)
    <3>1. PICK p \in toClient, code \in {0, 401} : o = AnswerMessage(p, code)
      BY <2>2
    <3>2. code \in Nat
      OBVIOUS
    <3> QED BY <3>1, <3>2, AnswerRead
  <2> QED BY <1>2, <2>1, <2>2
<1>4. m = o
  BY <1>1, <1>3 DEF IsStun
<1>5. ASSUME NEW p \in toClient, NEW code \in {0, 401}, o = AnswerMessage(p, code) PROVE FALSE
  <2>1. code \in Nat
    OBVIOUS
  <2> QED BY <1>4, <1>5, <2>1, AnswerRead
<1> QED BY <1>1, <1>2, <1>4, <1>5

\* What a step leaves alone that only adds to what is on the way to the client.
LEMMA SentStays ==
  ASSUME FromClient, MadeIsSent, OwnTid, UNCHANGED <<len, toServer, reqs, made>>,
         toClient \subseteq toClient'
  PROVE  FromClient' /\ OwnTid' /\ MadeIsSent'
<1>1. OwnTid'
  BY DEF OwnTid
<1>2. MadeIsSent'
  BY DEF MadeIsSent
<1>3. FromClient'
  BY DEF FromClient
<1> QED BY <1>1, <1>2, <1>3

LEMMA Bounds == MaxRequests \in Nat /\ MaxPings \in Nat
BY StunAssumption, Zenon

LEMMA InitIInv ==
  ASSUME Init
  PROVE  IInv
<1>1. TypeOK
  <2>1. 0 \in 0..MaxPings /\ 0 \in 0..MaxRequests /\ [i \in 1..MaxPings |-> 0] \in [1..MaxPings -> Nat]
    BY Bounds
  <2>2. FALSE \in BOOLEAN /\ "running" \in {"running", "stale", "crashed"}
    OBVIOUS
  <2> QED BY <2>1, <2>2, Zenon DEF Init, TypeOK
<1>2. Pinged
  BY Bounds DEF Init, Pinged
<1>3. FromClient /\ OwnTid /\ MadeIsSent /\ ServerTids
  BY DEF Init, FromClient, OwnTid, MadeIsSent, ServerTids
<1>4. OnlyGenuineServed /\ GenuineNeverRefused /\ ClientUnderstands
  BY DEF Init, OnlyGenuineServed, GenuineNeverRefused, ClientUnderstands
<1> QED BY <1>1, <1>2, <1>3, <1>4 DEF IInv

\* What was made is a request of the client with the credentials of this session.
LEMMA MadeRead ==
  ASSUME len \in Length, MadeIsSent, NEW m \in made
  PROVE  /\ m \in toServer /\ m.type = STUN_BINDING_REQUEST /\ Rejection(m) = 0
         /\ Ufrags(m)[2] = "R"
         /\ \E k \in 1..reqs : m.tid = <<"c", k>>
<1>1. m \in toServer /\ \E r \in Request, k \in 1..reqs : Genuine(r) /\ m = RequestMessage(r, len, k)
  BY DEF MadeIsSent
<1>2. PICK r \in Request, k \in 1..reqs : Genuine(r) /\ m = RequestMessage(r, len, k)
  BY <1>1
<1>3. /\ m.type = STUN_BINDING_REQUEST /\ m.tid = <<"c", k>>
      /\ r.user => Ufrags(m) = <<r.local, r.remote>>
      /\ Rejection(m) = 0 <=> Genuine(r)
  BY <1>2, RequestRead
<1>4. r.user /\ r.remote = "R"
  BY <1>2, RequestTypes DEF Genuine
<1>5. Ufrags(m)[2] = "R"
  <2>1. <<r.local, r.remote>>[2] = r.remote
    OBVIOUS
  <2> QED BY <1>3, <1>4, <2>1, Zenon
<1> QED BY <1>1, <1>2, <1>3, <1>5, Zenon

LEMMA StepClientRequest ==
  ASSUME IInv, NEW r \in Request, ClientRequest(r)
  PROVE  IInv'
<1> USE DEF IInv
<1>1. PICK m : m = RequestMessage(r, len, reqs + 1)
  OBVIOUS
<1>2. /\ reqs < MaxRequests /\ reqs' = reqs + 1 /\ toServer' = toServer \cup {m}
      /\ made' = (IF Genuine(r) THEN made \cup {m} ELSE made)
      /\ UNCHANGED <<len, toClient, conn, server, answer, pings, served, done>>
  BY <1>1 DEF ClientRequest
<1>3. len \in Length /\ reqs \in Nat /\ reqs + 1 \in 1..(reqs + 1) /\ 1..reqs \subseteq 1..(reqs + 1)
  <2>1. len \in Length /\ reqs \in 0..MaxRequests
    BY Zenon DEF TypeOK
  <2>2. \A n \in 0..MaxRequests : n \in Nat /\ n + 1 \in 1..(n + 1) /\ 1..n \subseteq 1..(n + 1)
    BY Bounds
  <2> QED BY <2>1, <2>2, Zenon
<1>4. m.type = STUN_BINDING_REQUEST /\ m.tid = <<"c", reqs + 1>>
  BY <1>1, <1>3, RequestRead
<1>5. \A e \in toClient : e.tid # m.tid
  <2> SUFFICES ASSUME NEW e \in toClient PROVE e.tid # m.tid
    OBVIOUS
  <2>1. (\E k \in 1..reqs : e.tid = <<"c", k>>) \/ (\E i \in 1..pings : e.tid = <<"s", i>>)
    BY DEF ServerTids
  <2>2. \A k \in 1..reqs : <<"c", k>> # <<"c", reqs + 1>>
    BY <1>3
  <2>3. \A i : <<"s", i>> # <<"c", reqs + 1>>
    OBVIOUS
  <2> QED BY <1>4, <2>1, <2>2, <2>3, Zenon
<1>6. \A x \in toServer : x.type = STUN_BINDING_REQUEST => x.tid # m.tid
  <2> SUFFICES ASSUME NEW x \in toServer, x.type = STUN_BINDING_REQUEST PROVE x.tid # m.tid
    OBVIOUS
  <2>1. CASE \E q \in Request, k \in 1..reqs : x = RequestMessage(q, len, k)
    <3>1. PICK q \in Request, k \in 1..reqs : x = RequestMessage(q, len, k)
      BY <2>1
    <3>2. x.tid = <<"c", k>>
      BY <1>3, <3>1, RequestRead
    <3>3. <<"c", k>> # <<"c", reqs + 1>>
      BY <1>3
    <3> QED BY <1>4, <3>2, <3>3, Zenon
  <2>2. CASE \E p \in toClient, code \in {0, 401} : x = AnswerMessage(p, code)
    <3>1. PICK p \in toClient, code \in {0, 401} : x = AnswerMessage(p, code)
      BY <2>2
    <3>2. code \in Nat
      OBVIOUS
    <3> QED BY <3>1, <3>2, AnswerRead
  <2> QED BY <2>1, <2>2 DEF FromClient
<1>7. TypeOK'
  <2>1. reqs + 1 \in 0..MaxRequests
    BY <1>2, <1>3, Bounds
  <2> QED BY <1>2, <2>1, Zenon DEF TypeOK
<1>8. Pinged'
  BY <1>2 DEF Pinged
<1>9. FromClient'
  <2>1. \A x \in toServer :
          \/ \E q \in Request, k \in 1..reqs' : x = RequestMessage(q, len, k) /\ (Genuine(q) => x \in made')
          \/ \E p \in toClient, code \in {0, 401} : x = AnswerMessage(p, code)
    BY <1>2, <1>3 DEF FromClient
  <2>2. \E q \in Request, k \in 1..reqs' : m = RequestMessage(q, len, k) /\ (Genuine(q) => m \in made')
    BY <1>1, <1>2, <1>3
  <2> QED BY <1>2, <2>1, <2>2 DEF FromClient
<1>10. OwnTid'
  BY <1>2, <1>6 DEF OwnTid
<1>11. MadeIsSent'
  <2>1. ASSUME NEW x \in made'
        PROVE  /\ x \in toServer'
               /\ \E q \in Request, k \in 1..reqs' : Genuine(q) /\ x = RequestMessage(q, len, k)
    <3>1. CASE x \in made
      BY <1>2, <1>3, <3>1 DEF MadeIsSent
    <3>2. CASE x \notin made
      <4>1. x = m /\ Genuine(r)
        BY <1>2, <2>1, <3>2
      <4> QED BY <1>1, <1>2, <1>3, <4>1
    <3> QED BY <3>1, <3>2
  <2> QED BY <1>2, <2>1 DEF MadeIsSent
<1>12. ServerTids'
  BY <1>2, <1>3 DEF ServerTids
<1>13. OnlyGenuineServed'
  BY <1>2 DEF OnlyGenuineServed
<1>14. GenuineNeverRefused'
  <2>1. \A x \in made' : x \in made \/ x = m
    BY <1>2
  <2> QED BY <1>2, <1>5, <2>1 DEF GenuineNeverRefused
<1>15. ClientUnderstands'
  BY <1>2 DEF ClientUnderstands
<1> QED BY <1>7, <1>8, <1>9, <1>10, <1>11, <1>12, <1>13, <1>14, <1>15

LEMMA TypeStays ==
  ASSUME TypeOK, UNCHANGED <<len, conn, server, answer, pings, reqs, done>>
  PROVE  TypeOK'
BY Zenon DEF TypeOK

LEMMA StepClientAnswer ==
  ASSUME IInv, NEW p \in toClient, NEW code \in {0, 401}, ClientAnswer(p, code)
  PROVE  IInv'
<1>1. PICK m : m = AnswerMessage(p, code)
  OBVIOUS
<1>2. /\ toServer' = toServer \cup {m}
      /\ UNCHANGED <<len, toClient, conn, server, answer, pings, reqs, made, served, done>>
  BY <1>1 DEF ClientAnswer
<1>4. TypeOK'
  <2>1. UNCHANGED <<len, conn, server, answer, pings, reqs, done>>
    BY <1>2
  <2>2. TypeOK
    BY Zenon DEF IInv
  <2> QED BY <2>1, <2>2, TypeStays, Zenon
<1> USE DEF IInv
<1>3. m.type # STUN_BINDING_REQUEST
  <2>1. code \in Nat
    OBVIOUS
  <2> QED BY <1>1, <2>1, AnswerRead
<1>5. Pinged'
  BY <1>2 DEF Pinged
<1>6. FromClient'
  BY <1>1, <1>2 DEF FromClient
<1>7. OwnTid'
  BY <1>2, <1>3 DEF OwnTid
<1>8. MadeIsSent'
  BY <1>2 DEF MadeIsSent
<1>9. ServerTids' /\ OnlyGenuineServed'
  BY <1>2 DEF ServerTids, OnlyGenuineServed
<1>10. GenuineNeverRefused'
  BY <1>2 DEF GenuineNeverRefused
<1>11. ClientUnderstands'
  BY <1>2 DEF ClientUnderstands
<1> QED BY <1>4, <1>5, <1>6, <1>7, <1>8, <1>9, <1>10, <1>11

\* What the server sends in answer to a request it has received: the digests are right, the
\* transaction id is the request's, and an error goes to no good request.
LEMMA ServerSends ==
  ASSUME IInv, NEW m, NEW e, \E k \in 1..reqs : m.tid = <<"c", k>>,
         e.tid = m.tid, Understood(e),
         \A x \in made : Has(x, "PRIORITY") /\ x.tid = m.tid => e.type = STUN_BINDING_RESPONSE,
         toClient' = toClient \cup {e}, UNCHANGED <<len, toServer, pings, reqs, made>>
  PROVE  /\ FromClient' /\ OwnTid' /\ MadeIsSent' /\ ServerTids'
         /\ GenuineNeverRefused' /\ ClientUnderstands'
<1> USE DEF IInv
<1>1. FromClient' /\ OwnTid' /\ MadeIsSent'
  BY SentStays
<1>2. ServerTids'
  BY DEF ServerTids
<1>3. GenuineNeverRefused'
  BY DEF GenuineNeverRefused
<1>4. ClientUnderstands'
  <2>1. \A x \in toClient : Understood(x)
    BY Zenon DEF ClientUnderstands, Understood
  <2>2. \A x \in toClient' : Understood(x)
    BY <2>1
  <2> QED BY <2>2, Zenon DEF ClientUnderstands, Understood
<1> QED BY <1>1, <1>2, <1>3, <1>4

LEMMA StepRefuse ==
  ASSUME IInv, NEW m \in Arriving, Refuse(m)
  PROVE  IInv'
<1> USE DEF IInv
<1>1. PICK code :
        /\ code = (IF Rejection(m) # 0 THEN Rejection(m)
                   ELSE IF conn = None THEN (IF Has(m, "PRIORITY") THEN 0 ELSE 400)
                   ELSE IF Ufrags(m)[2] # conn.username THEN 401
                   ELSE 0)
        /\ code # 0 /\ toClient' = toClient \cup {ErrorResponse(m, code)}
  <2> HIDE DEF Rejection, Has, Ufrags, ErrorResponse, IInv
  <2> QED BY DEF Refuse
<1>2. /\ IsStun(m) /\ m.type = STUN_BINDING_REQUEST
      /\ UNCHANGED <<len, toServer, conn, server, answer, pings, reqs, made, served, done>>
  BY DEF Refuse
<1>3. len \in Length /\ (conn = None \/ conn.username = "R")
  BY Zenon DEF TypeOK
<1>4. /\ m \in toServer
      /\ \E r \in Request, k \in 1..reqs :
           m = RequestMessage(r, len, k) /\ (Genuine(r) => m \in made)
  BY <1>2, <1>3, Received
<1>5. PICK r \in Request, k \in 1..reqs : m = RequestMessage(r, len, k)
  BY <1>4
<1>6. m.tid = <<"c", k>> /\ Rejection(m) \in {0, 400, 401}
  BY <1>3, <1>5, RequestRead
<1> HIDE DEF Rejection, Has, Ufrags, ErrorResponse, IInv
<1>7. code \in {400, 401}
  BY <1>1, <1>6
<1>8. PICK e : e = ErrorResponse(m, code)
  OBVIOUS
<1>9. e.tid = m.tid /\ Understood(e)
  BY <1>7, <1>8, ErrorBuilt, ErrorUnderstood
<1>10. ASSUME NEW x \in made, Has(x, "PRIORITY"), x.tid = m.tid PROVE FALSE
  <2>1. /\ x \in toServer /\ x.type = STUN_BINDING_REQUEST /\ Rejection(x) = 0
        /\ Ufrags(x)[2] = "R"
    BY <1>3, MadeRead, Zenon DEF IInv
  <2>2. x = m
    BY <1>2, <1>4, <1>10, <2>1, Zenon DEF OwnTid, IInv
  <2>3. Rejection(m) = 0 /\ Has(m, "PRIORITY") /\ Ufrags(m)[2] = "R"
    BY <1>10, <2>1, <2>2, Zenon
  <2> QED BY <1>1, <1>3, <2>3, Zenon
<1>11. /\ FromClient' /\ OwnTid' /\ MadeIsSent' /\ ServerTids'
       /\ GenuineNeverRefused' /\ ClientUnderstands'
  <2>1. \E j \in 1..reqs : m.tid = <<"c", j>>
    BY <1>6, Zenon
  <2>2. toClient' = toClient \cup {e}
    <3>1. toClient' = toClient \cup {ErrorResponse(m, code)}
      BY <1>1
    <3> QED BY <1>8, <3>1, Zenon
  <2>3. UNCHANGED <<len, toServer, pings, reqs, made>>
    BY <1>2
  <2> QED BY <1>9, <1>10, <2>1, <2>2, <2>3, ServerSends, Zenon
<1>12. TypeOK'
  BY <1>2, Zenon DEF TypeOK, IInv
<1>13. Pinged'
  BY <1>2 DEF Pinged, IInv
<1>14. OnlyGenuineServed'
  BY <1>2, Zenon DEF OnlyGenuineServed, IInv
<1> QED BY <1>11, <1>12, <1>13, <1>14, Zenon DEF IInv

\* A request that is served is a good one.
LEMMA Served ==
  ASSUME IInv, NEW m \in Arriving, IsStun(m), m.type = STUN_BINDING_REQUEST, Rejection(m) = 0,
         served' = served \cup {m}, toClient' = toClient \cup {Response(m)},
         UNCHANGED <<len, toServer, pings, reqs, made>>
  PROVE  /\ FromClient' /\ OwnTid' /\ MadeIsSent' /\ ServerTids' /\ OnlyGenuineServed'
         /\ GenuineNeverRefused' /\ ClientUnderstands' /\ Ufrags(m)[2] = "R"
<1>1. len \in Length /\ FromClient /\ MadeIsSent
  BY Zenon DEF TypeOK, IInv
<1>2. /\ m \in toServer
      /\ \E r \in Request, k \in 1..reqs :
           m = RequestMessage(r, len, k) /\ (Genuine(r) => m \in made)
  BY <1>1, Received
<1>3. PICK r \in Request, k \in 1..reqs :
        m = RequestMessage(r, len, k) /\ (Genuine(r) => m \in made)
  BY <1>2
<1>4. Rejection(m) = 0 <=> Genuine(r)
  BY <1>1, <1>3, RequestRead
<1>5. m \in made
  BY <1>3, <1>4, Zenon
<1>6. Ufrags(m)[2] = "R" /\ \E j \in 1..reqs : m.tid = <<"c", j>>
  BY <1>1, <1>5, MadeRead, Zenon
<1>7. PICK e : e = Response(m)
  BY Zenon
<1>8. e.tid = m.tid /\ Understood(e) /\ e.type = STUN_BINDING_RESPONSE
  BY <1>7, ResponseBuilt, ResponseUnderstood, Zenon
<1>9. OnlyGenuineServed'
  BY <1>5 DEF OnlyGenuineServed, IInv
<1>10. /\ FromClient' /\ OwnTid' /\ MadeIsSent' /\ ServerTids'
       /\ GenuineNeverRefused' /\ ClientUnderstands'
  <2>1. toClient' = toClient \cup {e}
    BY <1>7, Zenon
  <2> QED BY <1>6, <1>8, <2>1, ServerSends, Zenon
<1> QED BY <1>6, <1>9, <1>10

LEMMA StepServe ==
  ASSUME IInv, NEW m \in Arriving, Serve(m)
  PROVE  IInv'
<1>1. /\ IsStun(m) /\ m.type = STUN_BINDING_REQUEST /\ Rejection(m) = 0
      /\ served' = served \cup {m} /\ toClient' = toClient \cup {Response(m)}
      /\ UNCHANGED <<len, toServer, conn, server, answer, pings, reqs, made, done>>
  BY DEF Serve
<1>2. UNCHANGED <<len, toServer, pings, reqs, made>>
  BY <1>1
<1>3. /\ FromClient' /\ OwnTid' /\ MadeIsSent' /\ ServerTids' /\ OnlyGenuineServed'
      /\ GenuineNeverRefused' /\ ClientUnderstands'
  BY <1>1, <1>2, Served, Zenon
<1>4. TypeOK'
  BY <1>1, Zenon DEF TypeOK, IInv
<1>5. Pinged'
  BY <1>1 DEF Pinged, IInv
<1> QED BY <1>3, <1>4, <1>5, Zenon DEF IInv

LEMMA StepCreate ==
  ASSUME IInv, NEW m \in Arriving, Create(m)
  PROVE  IInv'
<1>1. /\ IsStun(m) /\ m.type = STUN_BINDING_REQUEST /\ Rejection(m) = 0
      /\ served' = served \cup {m} /\ toClient' = toClient \cup {Response(m)}
      /\ conn' = CreateConnection(m)
      /\ UNCHANGED <<len, toServer, server, answer, pings, reqs, made, done>>
  BY DEF Create
<1>2. UNCHANGED <<len, toServer, pings, reqs, made>>
  BY <1>1
<1>3. /\ FromClient' /\ OwnTid' /\ MadeIsSent' /\ ServerTids' /\ OnlyGenuineServed'
      /\ GenuineNeverRefused' /\ ClientUnderstands' /\ Ufrags(m)[2] = "R"
  BY <1>1, <1>2, Served, Zenon
<1>4. PICK p : p = (IF answer THEN RemotePwd ELSE "") /\ p \in {"", RemotePwd}
  OBVIOUS
<1>5. conn' = [username |-> "R", requests |-> {}, password |-> p]
  BY <1>1, <1>3, <1>4, Zenon DEF CreateConnection
<1>6. conn' \in [username : {"R"}, password : {"", RemotePwd}, requests : SUBSET (1..MaxPings)]
      /\ conn'.requests = {}
  BY <1>4, <1>5
<1>7. TypeOK'
  BY <1>1, <1>6, Zenon DEF TypeOK, IInv
<1>8. Pinged'
  BY <1>1, <1>6 DEF Pinged, IInv
<1> QED BY <1>3, <1>7, <1>8, Zenon DEF IInv

\* The messages are not touched.
LEMMA MessagesStay ==
  ASSUME IInv, UNCHANGED <<len, toServer, toClient, pings, reqs, made, served>>
  PROVE  /\ FromClient' /\ OwnTid' /\ MadeIsSent' /\ ServerTids' /\ OnlyGenuineServed'
         /\ GenuineNeverRefused' /\ ClientUnderstands'
<1> USE DEF IInv
<1>1. FromClient' /\ OwnTid' /\ MadeIsSent'
  BY SentStays
<1>2. ServerTids' /\ OnlyGenuineServed'
  BY DEF ServerTids, OnlyGenuineServed
<1>3. GenuineNeverRefused'
  BY DEF GenuineNeverRefused
<1>4. ClientUnderstands'
  BY DEF ClientUnderstands
<1> QED BY <1>1, <1>2, <1>3, <1>4

\* on_request_response() and on_request_error_response() find a ping that was not answered.
LEMMA Answered ==
  ASSUME IInv, conn # None, NEW i \in conn.requests, Dispatch(i),
         conn' = Unregister(conn, i) \/ conn' = None,
         server' \in {"running", "stale", "crashed"},
         UNCHANGED <<len, toServer, toClient, answer, pings, reqs, made, served>>
  PROVE  IInv'
<1>1. /\ FromClient' /\ OwnTid' /\ MadeIsSent' /\ ServerTids' /\ OnlyGenuineServed'
      /\ GenuineNeverRefused' /\ ClientUnderstands'
  BY MessagesStay
<1>2. /\ len \in Length /\ answer \in BOOLEAN /\ pings \in 0..MaxPings /\ reqs \in 0..MaxRequests
      /\ server \in {"running", "stale", "crashed"}
      /\ done \in [1..MaxPings -> Nat]
      /\ conn \in [username : {"R"}, password : {"", RemotePwd}, requests : SUBSET (1..MaxPings)]
  BY Zenon DEF IInv, TypeOK
<1>3. /\ conn.requests \subseteq 1..pings
      /\ \A j \in 1..MaxPings : /\ done[j] =< 1 /\ (j > pings => done[j] = 0)
                                /\ (j \in conn.requests => done[j] = 0)
  BY Zenon DEF IInv, Pinged
<1>4. /\ conn' = Unregister(conn, i)
         => /\ conn' \in [username : {"R"}, password : {"", RemotePwd}, requests : SUBSET (1..MaxPings)]
            /\ conn'.requests = conn.requests \ {i}
  BY <1>2 DEF Unregister
<1>5. i \in 1..MaxPings /\ i \in 1..pings /\ done[i] = 0
  BY <1>2, <1>3
<1>6. done' = [done EXCEPT ![i] = 1]
  <2>1. done' = [done EXCEPT ![i] = done[i] + 1]
    BY Zenon DEF Dispatch
  <2>2. 0 + 1 = 1
    OBVIOUS
  <2> QED BY <1>5, <2>1, <2>2, Zenon
<1>7. /\ done' \in [1..MaxPings -> Nat] /\ done'[i] = 1
      /\ \A j \in 1..MaxPings : j # i => done'[j] = done[j]
  BY <1>2, <1>5, <1>6
<1>8. TypeOK'
  <2>1. UNCHANGED <<len, answer, pings, reqs>> /\ server' \in {"running", "stale", "crashed"}
    OBVIOUS
  <2> QED BY <1>2, <1>4, <1>7, <2>1, Zenon DEF TypeOK
<1>9. Pinged'
  <2>1. conn' # None => conn'.requests = conn.requests \ {i}
    BY <1>4, Zenon
  <2>2. conn' # None => conn'.requests \subseteq 1..pings'
    BY <1>3, <2>1
  <2>3. ASSUME NEW j \in 1..MaxPings
        PROVE  /\ done'[j] =< 1 /\ (j > pings' => done'[j] = 0)
               /\ (conn' # None /\ j \in conn'.requests => done'[j] = 0)
    <3>1. CASE j = i
      <4>1. done'[j] = 1 /\ ~ (j > pings)
        <5>1. \A n \in 0..MaxPings : \A x \in 1..n : ~ (x > n)
          BY Bounds
        <5>2. pings \in 0..MaxPings /\ j \in 1..pings
          BY <1>2, <1>5, <3>1, Zenon
        <5> QED BY <1>7, <3>1, <5>1, <5>2, Zenon
      <4>2. conn' # None => j \notin conn'.requests
        BY <2>1, <3>1
      <4> QED BY <4>1, <4>2
    <3>2. CASE j # i
      <4>1. done'[j] = done[j]
        BY <1>7, <3>2, Zenon
      <4>2. conn' # None /\ j \in conn'.requests => j \in conn.requests
        BY <2>1
      <4>3. pings' = pings
        OBVIOUS
      <4> QED BY <1>3, <4>1, <4>2, <4>3, Zenon
    <3> QED BY <3>1, <3>2
  <2> QED BY <2>2, <2>3, Zenon DEF Pinged
<1> QED BY <1>1, <1>8, <1>9, Zenon DEF IInv

LEMMA StepCheck ==
  ASSUME IInv, NEW m, CheckResponse(m) \/ CheckErrorResponse(m)
  PROVE  IInv'
<1>1. /\ conn # None
      /\ \E i \in Outstanding(m) : Dispatch(i) /\ (conn' = Unregister(conn, i) \/ conn' = None)
      /\ server' \in {"running", "stale", "crashed"}
      /\ UNCHANGED <<len, toServer, toClient, answer, pings, reqs, made, served>>
  <2>0. server \in {"running", "stale", "crashed"} /\ "crashed" \in {"running", "stale", "crashed"}
    BY Zenon DEF IInv, TypeOK
  <2>1. CASE CheckResponse(m)
    BY <2>0, <2>1, Zenon DEF CheckResponse
  <2>2. CASE CheckErrorResponse(m)
    BY <2>0, <2>2, Zenon DEF CheckErrorResponse
  <2> QED BY <2>1, <2>2, Zenon
<1>2. PICK i \in Outstanding(m) : Dispatch(i) /\ (conn' = Unregister(conn, i) \/ conn' = None)
  BY <1>1, Zenon
<1>3. i \in conn.requests
  BY <1>2, Zenon DEF Outstanding
<1> QED BY <1>1, <1>2, <1>3, Answered, Zenon

LEMMA StepPing ==
  ASSUME IInv, Ping
  PROVE  IInv'
<1>1. PICK n : n = pings + 1
  OBVIOUS
<1>2. PICK e : e = PingMessage(<<"s", n>>)
  BY Zenon
<1>3. /\ conn # None /\ conn.password # "" /\ pings < MaxPings /\ pings' = n
      /\ conn' = Register(conn, n)
      /\ toClient' = toClient \cup {e}
      /\ UNCHANGED <<len, toServer, server, answer, reqs, made, served, done>>
  BY <1>1, <1>2, Zenon DEF Ping
<1>4. /\ len \in Length /\ answer \in BOOLEAN /\ pings \in 0..MaxPings /\ reqs \in 0..MaxRequests
      /\ server \in {"running", "stale", "crashed"}
      /\ done \in [1..MaxPings -> Nat]
      /\ conn \in [username : {"R"}, password : {"", RemotePwd}, requests : SUBSET (1..MaxPings)]
  BY <1>3, Zenon DEF IInv, TypeOK
<1>5. pings \in Nat /\ n \in 0..MaxPings /\ n \in 1..n /\ n \in 1..MaxPings /\ 1..pings \subseteq 1..n
      /\ n > pings
  <2>1. pings \in 0..MaxPings /\ pings < MaxPings
    BY <1>3, <1>4, Zenon
  <2> QED BY <1>1, <2>1, Bounds
<1>6. conn.password = RemotePwd
  BY <1>3, <1>4
<1>7. e.type = STUN_BINDING_REQUEST /\ e.tid = <<"s", n>> /\ Understood(e)
  BY <1>2, <1>4, <1>6, PingBuilt, PingUnderstood, Zenon
<1>8. FromClient' /\ OwnTid' /\ MadeIsSent'
  <2>1. UNCHANGED <<len, toServer, reqs, made>> /\ toClient \subseteq toClient'
    BY <1>3
  <2> QED BY <2>1, SentStays, Zenon DEF IInv
<1>9. ServerTids'
  <2>1. ServerTids
    BY Zenon DEF IInv
  <2> QED BY <1>3, <1>5, <1>7, <2>1 DEF ServerTids
<1>10. GenuineNeverRefused'
  <2>1. \A x \in made : e.tid # x.tid
    <3>1. \A k : <<"c", k>> # <<"s", n>>
      OBVIOUS
    <3>2. MadeIsSent
      BY Zenon DEF IInv
    <3>3. \A x \in made : \E k \in 1..reqs : x.tid = <<"c", k>>
      BY <1>4, <3>2, MadeRead, Zenon
    <3> QED BY <1>7, <3>1, <3>3, Zenon
  <2>2. GenuineNeverRefused
    BY Zenon DEF IInv
  <2>3. made' = made /\ \A x \in toClient' : x \in toClient \/ x = e
    BY <1>3
  <2> QED BY <2>1, <2>2, <2>3, Zenon DEF GenuineNeverRefused
<1>11. ClientUnderstands'
  <2>1. \A x \in toClient : Understood(x)
    BY Zenon DEF ClientUnderstands, Understood, IInv
  <2>2. \A x \in toClient' : Understood(x)
    BY <1>3, <1>7, <2>1
  <2> QED BY <2>2, Zenon DEF ClientUnderstands, Understood
<1>12. OnlyGenuineServed'
  BY <1>3 DEF OnlyGenuineServed, IInv
<1>13. /\ conn' \in [username : {"R"}, password : {"", RemotePwd}, requests : SUBSET (1..MaxPings)]
       /\ conn'.requests = conn.requests \cup {n}
  <2>1. conn' = [conn EXCEPT !.requests = conn.requests \cup {n}]
    BY <1>3, Zenon DEF Register
  <2> QED BY <1>4, <1>5, <2>1
<1>14. TypeOK'
  <2>1. UNCHANGED <<len, server, answer, reqs, done>> /\ pings' \in 0..MaxPings
    BY <1>3, <1>5
  <2> QED BY <1>4, <1>13, <2>1, Zenon DEF TypeOK
<1>15. Pinged'
  <2>1. /\ conn.requests \subseteq 1..pings
        /\ \A j \in 1..MaxPings : /\ done[j] =< 1 /\ (j > pings => done[j] = 0)
                                  /\ (j \in conn.requests => done[j] = 0)
    BY <1>3, Zenon DEF IInv, Pinged
  <2>2. done' = done /\ pings' = n
    BY <1>3
  <2>3. conn'.requests \subseteq 1..pings'
    BY <1>5, <1>13, <2>1, <2>2
  <2>4. ASSUME NEW j \in 1..MaxPings
        PROVE  /\ done'[j] =< 1 /\ (j > pings' => done'[j] = 0)
               /\ (j \in conn'.requests => done'[j] = 0)
    <3>1. j > n => j > pings
      BY <1>1, <1>5, Bounds
    <3> QED BY <1>5, <1>13, <2>1, <2>2, <3>1
  <2> QED BY <2>3, <2>4, Zenon DEF Pinged
<1> QED BY <1>8, <1>9, <1>10, <1>11, <1>12, <1>14, <1>15, Zenon DEF IInv

LEMMA StepAnswer ==
  ASSUME IInv, Answer
  PROVE  IInv'
<1>1. /\ answer' = TRUE
      /\ UNCHANGED <<len, toServer, toClient, server, pings, reqs, made, served, done>>
      /\ conn' = conn \/ (conn # None /\ conn' = [conn EXCEPT !.password = RemotePwd])
  BY Zenon DEF Answer
<1>2. /\ FromClient' /\ OwnTid' /\ MadeIsSent' /\ ServerTids' /\ OnlyGenuineServed'
      /\ GenuineNeverRefused' /\ ClientUnderstands'
  <2>1. UNCHANGED <<len, toServer, toClient, pings, reqs, made, served>>
    BY <1>1
  <2> QED BY <2>1, MessagesStay
<1>3. conn # None =>
        conn \in [username : {"R"}, password : {"", RemotePwd}, requests : SUBSET (1..MaxPings)]
  BY Zenon DEF IInv, TypeOK
<1>4. conn' # conn =>
        /\ conn # None /\ conn'.requests = conn.requests
        /\ conn' \in [username : {"R"}, password : {"", RemotePwd}, requests : SUBSET (1..MaxPings)]
  <2> SUFFICES ASSUME conn # None, conn' = [conn EXCEPT !.password = RemotePwd]
               PROVE  /\ conn'.requests = conn.requests
                      /\ conn' \in [username : {"R"}, password : {"", RemotePwd},
                                    requests : SUBSET (1..MaxPings)]
    BY <1>1
  <2> QED BY <1>3
<1>5. TypeOK'
  <2>1. answer' \in BOOLEAN /\ UNCHANGED <<len, server, pings, reqs, done>>
    BY <1>1
  <2> QED BY <1>4, <2>1, Zenon DEF IInv, TypeOK
<1>6. Pinged'
  <2>1. pings' = pings /\ done' = done
    BY <1>1
  <2>2. conn' # None => conn # None /\ conn'.requests = conn.requests
    BY <1>4, Zenon
  <2> QED BY <2>1, <2>2, Zenon DEF IInv, Pinged
<1> QED BY <1>2, <1>5, <1>6, Zenon DEF IInv

\* The connection is gone, or the process.
LEMMA StepGone ==
  ASSUME IInv, Lost \/ Stray
  PROVE  IInv'
<1>1. /\ server' \in {"stale", "crashed"} /\ (conn' = conn \/ conn' = None)
      /\ UNCHANGED <<len, toServer, toClient, answer, pings, reqs, made, served, done>>
  BY DEF Lost, Stray
<1>2. /\ FromClient' /\ OwnTid' /\ MadeIsSent' /\ ServerTids' /\ OnlyGenuineServed'
      /\ GenuineNeverRefused' /\ ClientUnderstands'
  <2>1. UNCHANGED <<len, toServer, toClient, pings, reqs, made, served>>
    BY <1>1
  <2> QED BY <2>1, MessagesStay
<1>3. TypeOK'
  <2>1. server' \in {"running", "stale", "crashed"} /\ UNCHANGED <<len, answer, pings, reqs, done>>
    BY <1>1
  <2> QED BY <1>1, <2>1, Zenon DEF IInv, TypeOK
<1>4. Pinged'
  <2>1. UNCHANGED <<pings, done>>
    BY <1>1
  <2> QED BY <1>1, <2>1, Zenon DEF IInv, Pinged
<1> QED BY <1>2, <1>3, <1>4, Zenon DEF IInv

LEMMA StepIInv ==
  ASSUME IInv, [Next]_vars
  PROVE  IInv'
<1>1. CASE UNCHANGED vars
  <2>1. UNCHANGED <<len, toServer, toClient, pings, reqs, made, served>>
    BY <1>1 DEF vars
  <2>2. UNCHANGED <<len, conn, server, answer, pings, reqs, done>>
    BY <1>1 DEF vars
  <2>3. TypeOK'
    BY <2>2, Zenon DEF IInv, TypeOK
  <2>4. Pinged'
    BY <2>2 DEF IInv, Pinged
  <2> QED BY <2>1, <2>3, <2>4, MessagesStay, Zenon DEF IInv
<1>2. CASE \E r \in Request : ClientRequest(r)
  BY <1>2, StepClientRequest, Zenon
<1>3. CASE \E m \in toClient, code \in {0, 401} : ClientAnswer(m, code)
  BY <1>3, StepClientAnswer
<1>4. CASE \E m \in Arriving : Refuse(m) \/ Create(m) \/ Serve(m)
                                 \/ CheckResponse(m) \/ CheckErrorResponse(m)
  BY <1>4, StepRefuse, StepCreate, StepServe, StepCheck, Zenon
<1>5. CASE Ping
  BY <1>5, StepPing
<1>6. CASE Answer
  BY <1>6, StepAnswer
<1>7. CASE Lost \/ Stray
  BY <1>7, StepGone
<1> QED BY <1>1, <1>2, <1>3, <1>4, <1>5, <1>6, <1>7 DEF Next

\* The inductive invariant of the STUN exchange of UDPPort and IceConnection, for any
\* number of requests and pings.
THEOREM StunInvariance == Spec => []IInv
<1>1. Init => IInv
  BY InitIInv
<1>2. IInv /\ [Next]_vars => IInv'
  BY StepIInv
<1> QED BY <1>1, <1>2, PTL DEF Spec

\* get_stun_message(), _on_unknown_address() and handle_stun_binding_request() serve only
\* requests that the client made with the credentials of this session, whatever is
\* damaged, repeated or left over from another session.
THEOREM GenuineOnly == Spec => []OnlyGenuineServed
<1>1. IInv => OnlyGenuineServed
  BY Zenon DEF IInv
<1> QED BY <1>1, StunInvariance, PTL

\* No request with the right credentials and a PRIORITY is answered with an error by
\* send_binding_error_response(), for any attributes in it and all lengths.
THEOREM NeverRefused == Spec => []GenuineNeverRefused
<1>1. IInv => GenuineNeverRefused
  BY Zenon DEF IInv
<1> QED BY <1>1, StunInvariance, PTL

\* Every response, error response and ping that add_attribute(), add_message_integrity() and
\* add_fingerprint() build is accepted by a client that reads it as the RFC says.
THEOREM Understandable == Spec => []ClientUnderstands
<1>1. IInv => ClientUnderstands
  BY Zenon DEF IInv
<1> QED BY <1>1, StunInvariance, PTL

\* StunRequestManager::check_response() dispatches at most one answer for each ping of a
\* connection, however many arrive, of either kind and in any order.  An error response
\* that fails the connection ends the process, and nothing is dispatched after it.
THEOREM OneAnswerEach == Spec => []AnsweredOnce
<1>1. IInv => AnsweredOnce
  BY Zenon DEF IInv, Pinged, AnsweredOnce
<1> QED BY <1>1, StunInvariance, PTL

=============================================================================
