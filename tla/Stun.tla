-------------------------------- MODULE Stun --------------------------------
(***************************************************************************)
(* StunMessage: building, writing, checking and reading STUN messages.      *)
(*                                                                         *)
(* A message on the wire is its header and its attributes; every attribute  *)
(* has the type, the length it declares, the bytes it really occupies and   *)
(* a value.  CRC32 and HMAC-SHA1 are taken to be injective: a digest is the *)
(* record of what it was computed over.                                     *)
(***************************************************************************)
EXTENDS Integers, Sequences, SequencesExt

k_stun_header_size == 20
k_stun_attribute_header_size == 4
k_stun_message_integrity_size == 20

STUN_BINDING_REQUEST == "request"
STUN_BINDING_RESPONSE == "response"
STUN_BINDING_ERROR_RESPONSE == "error"

\* Value lengths are rounded up to a multiple of 4.
Pad(n) == n + ((4 - (n % 4)) % 4)

\* A value: text, a number or a digest; -1 is one that was damaged.
Text(s) == [text |-> s, num |-> 0, digest |-> << >>]
Number(n) == [text |-> << >>, num |-> n, digest |-> << >>]
Digest(key, m, n, attrs) ==
  [text |-> << >>, num |-> 0,
   digest |-> <<[key |-> key, type |-> m.type, length |-> n, cookie |-> m.cookie,
                 tid |-> m.tid, attrs |-> attrs]>>]

\* An attribute as the server builds it; one of a received message may declare a
\* length that is not the room it takes.
Attr(t, len, val) == [t |-> t, len |-> len, room |-> Pad(len), val |-> val]

\* StunAddressAttribute: its length goes by the family of the address.
AddressLength(family) == CASE family = "v4" -> 8 [] family = "v6" -> 20 [] OTHER -> 0
XorMappedAddress(family) == Attr("XOR", AddressLength(family), Text(<<family>>))

\* StunUint32Attribute and StunUint64Attribute
Uint32(t, n) == Attr(t, 4, Number(n))
Uint64(t, n) == Attr(t, 8, Number(n))

\* StunErrorCodeAttribute: MIN_SIZE and the reason, of which there are two.
STUN_ERROR_BAD_REQUEST == 400
STUN_ERROR_UNAUTHORIZED == 401
STUN_ERROR_SERVER_ERROR == 500
STUN_ERROR_GLOBAL_FAIL == 600
ReasonLength(code) == IF code = STUN_ERROR_BAD_REQUEST THEN 11 ELSE 12
ErrorAttr(code) == Attr("ERROR", 4 + ReasonLength(code), Number(code))

\* The sum of the first n numbers of a sequence.
SumTo(s, n) ==
  LET sum[i \in 0..Len(s)] == IF i = 0 THEN 0 ELSE sum[i - 1] + s[i] IN sum[n]

\* The bytes of a message on the wire; tail stands for bytes behind the last
\* attribute that are too few to be one.
AttrBytes(attrs) ==
  SumTo([i \in 1..Len(attrs) |-> k_stun_attribute_header_size + attrs[i].room], Len(attrs))
Size(m) == k_stun_header_size + AttrBytes(m.attrs) + m.tail

-----------------------------------------------------------------------------
(* Building *)

\* StunMessage(), set_type(), set_transaction_id()
New(type, tid) == [type |-> type, length |-> 0, cookie |-> TRUE, tid |-> tid,
                   attrs |-> << >>, tail |-> 0]

\* Mutant: the header counts the length without its padding.
AddAttributeUnpadded(m, a) ==
  [m EXCEPT !.length = (@ + a.len + k_stun_attribute_header_size) % 65536,
            !.attrs = Append(@, a)]

\* add_attribute(): the header's length, a uint16_t, counts the padding too.
AddAttribute(m, a) ==
  [m EXCEPT !.length = (@ + Pad(a.len) + k_stun_attribute_header_size) % 65536,
            !.attrs = Append(@, a)]

\* write() fails for one attribute only: an XOR-MAPPED-ADDRESS that is not IPv4.
CanWrite(m) == \A i \in 1..Len(m.attrs) : m.attrs[i].t = "XOR" => m.attrs[i].val = Text(<<"v4">>)

\* What the HMAC is computed over: the header, with length n, and the attributes
\* in front of MESSAGE-INTEGRITY.  The CRC covers the header as it is.
Hmac(password, m, n, attrs) == Digest(password, m, n, attrs)
Crc(m, attrs) == Digest("", m, m.length, attrs)

\* _add_message_integrity_of_type(): the attribute is added with a placeholder, so
\* that the header counts it, and filled in unless the message cannot be written.
AddMessageIntegrity(m, password) ==
  LET w == AddAttribute(m, Attr("MI", k_stun_message_integrity_size, Text(<<"0">>)))
  IN IF CanWrite(w)
     THEN [w EXCEPT !.attrs[Len(w.attrs)].val = Hmac(password, w, w.length, m.attrs)]
     ELSE w

\* add_fingerprint(): likewise, over everything in front of it.
AddFingerprint(m) ==
  LET w == AddAttribute(m, Uint32("FINGERPRINT", 0))
  IN IF CanWrite(w)
     THEN [w EXCEPT !.attrs[Len(w.attrs)].val = Crc(w, m.attrs)]
     ELSE w

-----------------------------------------------------------------------------
(* Checking and reading *)

\* validate_fingerprint(): the last 8 bytes are FINGERPRINT, of the rest's CRC.
ValidateFingerprint(m) ==
  /\ Size(m) % 4 = 0
  /\ Size(m) >= k_stun_header_size + k_stun_attribute_header_size + 4
  /\ m.cookie
  /\ m.tail = 0
  /\ Last(m.attrs).t = "FINGERPRINT" /\ Last(m.attrs).len = 4
  /\ Last(m.attrs).val = Crc(m, Front(m.attrs))

\* get_attribute_value_type(): all other attributes are skipped.
Known == {"USERNAME", "MI", "PRIORITY"}

\* What read() consumes of an attribute it skips: attr_length is a uint16_t, and
\* rounding it up may wrap to 0.
Skip(len) == Pad(len) % 65536

\* read(): the header's length is exact, and every attribute fits.  A PRIORITY has the
\* one size of StunUint32Attribute.
CanRead(m) ==
  /\ m.length = Size(m) - k_stun_header_size
  /\ m.tail = 0
  /\ \A i \in 1..Len(m.attrs) :
       m.attrs[i].room = IF m.attrs[i].t \in Known THEN Pad(m.attrs[i].len)
                                                   ELSE Skip(m.attrs[i].len)
  /\ \A i \in 1..Len(m.attrs) : m.attrs[i].t = "PRIORITY" => m.attrs[i].len = 4

\* _get_attribute() after read(): the first attribute of a known type, if any.
Known_(m, t) == {i \in 1..Len(m.attrs) : m.attrs[i].t = t /\ t \in Known}
Has(m, t) == Known_(m, t) # {}
Get(m, t) == m.attrs[CHOOSE i \in Known_(m, t) : \A j \in Known_(m, t) : i =< j].val

\* get_error_code_value(): STUN_ERROR_GLOBAL_FAIL when there is no ERROR-CODE, which
\* is always, as read() keeps none.
GetErrorCode(m) == IF Has(m, "ERROR") THEN Get(m, "ERROR").num ELSE STUN_ERROR_GLOBAL_FAIL

\* The walk of _validate_message_integrity_of_type(), over raw bytes and with
\* size_t offsets: where it stands after i attributes.
Walk(m, i) ==
  k_stun_header_size
    + SumTo([j \in 1..Len(m.attrs) |-> k_stun_attribute_header_size + Pad(m.attrs[j].len)], i)

\* The offset of attribute i in the bytes of the message.
Offset(m, i) == k_stun_header_size + AttrBytes(SubSeq(m.attrs, 1, i - 1))

\* The attribute MI the walk finds, if every step up to it was right.
Found(m) == {i \in 1..Len(m.attrs) : /\ m.attrs[i].t = "MI"
                                     /\ \A j \in 1..(i - 1) : m.attrs[j].t # "MI"
                                     /\ Walk(m, i - 1) = Offset(m, i)}

\* The length the HMAC is computed over: if anything follows MI, the header's length is
\* set back to where MI ends.
IntegrityLength(m, i) ==
  LET end == Offset(m, i) + k_stun_attribute_header_size + k_stun_message_integrity_size
  IN IF Size(m) > end THEN end - k_stun_header_size ELSE m.length

\* Mutant: the HMAC is checked with the length the header has.
IntegrityAsIs(m, password) ==
  /\ Has(m, "MI") /\ Found(m) # {}
  /\ LET i == CHOOSE i \in Found(m) : TRUE
     IN m.attrs[i].val = Hmac(password, m, m.length, SubSeq(m.attrs, 1, i - 1))

\* validate_message_integrity() = k_integrity_ok
IntegrityOk(m, password) ==
  /\ Has(m, "MI")
  /\ Size(m) % 4 = 0 /\ m.length + k_stun_header_size = Size(m)
  /\ Found(m) # {}
  /\ LET i == CHOOSE i \in Found(m) : TRUE
     IN m.attrs[i].val = Hmac(password, m, IntegrityLength(m, i), SubSeq(m.attrs, 1, i - 1))

\* get_stun_success_response(), get_stun_error_response() of a request's type.
SuccessOf(type) == IF type = STUN_BINDING_REQUEST THEN STUN_BINDING_RESPONSE ELSE "none"
ErrorOf(type) == IF type = STUN_BINDING_REQUEST THEN STUN_BINDING_ERROR_RESPONSE ELSE "none"
=============================================================================
