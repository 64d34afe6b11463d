------------------------------- MODULE Encodings -------------------------------
(***************************************************************************)
(* The functions of GoKey that compute with octets, next to reference      *)
(* definitions of what they are for: the TLV encoding and the data objects *)
(* of internal/icc, PKCS#7 padding, the halves of an ECDSA signature, the  *)
(* payload of a CCID message and the frames of the vpcd protocol.          *)
(*                                                                         *)
(* A behaviour takes one input from Inputs and evaluates the function it   *)
(* is meant for.  Octets of which nothing but the number matters are       *)
(* filled with one value.                                                  *)
(***************************************************************************)
EXTENDS Integers, Sequences

CONSTANTS
    Lengths,        \* lengths of encoded values and of names that are tried
    MaxBuffer,      \* longest arbitrary buffer given to v
    BlockSize,      \* aes.BlockSize, 16
    MaxInt,         \* greatest int on the target, 2^31 - 1; dwLength has a bit more
    MaxMessage,     \* longest CCID message, at most MaxInt
    HeaderSize,     \* octets of a CCID message before abData, 10
    CurveOctets,    \* octets of a coordinate, and of the halves of a signature
    Counters,       \* signature counters that are tried
    LengthModulus   \* a vpcd frame has a length of 16 bits: 2^16

ASSUME EncodingsAssumption ==
    \* A name of 65522 octets is the longest whose template fits a length.
    /\ Lengths \subseteq Nat
    /\ \A l \in Lengths : l <= 65522
    /\ MaxBuffer \in Nat
    /\ BlockSize \in 1..255
    /\ MaxInt \in Nat
    /\ MaxMessage \in 0..MaxInt
    /\ HeaderSize \in Nat \ {0}
    /\ CurveOctets \in Nat
    /\ Counters \subseteq Nat
    /\ LengthModulus \in Nat \ {0}

Octets == 0..255

Fill(n, b) == [i \in 1..n |-> b]

uint16(n) == <<(n \div 256) % 256, n % 256>>

uint32(n) == uint16(n \div 65536) \o uint16(n)

\* The outcome of an index or a slice out of range.
Panic == <<-1>>

(***************************************************************************)
(* tlv.go                                                                  *)
(***************************************************************************)

\* A tag of two octets is one above 0xff.
tagOf(t) == IF t > 255 THEN uint16(t) ELSE <<t>>

lengthOf(l) ==
    CASE l <= 127             -> <<l>>
      [] l > 127 /\ l <= 255 -> <<129, l>>
      [] OTHER                -> <<130>> \o uint16(l)

tlv(t, val) == tagOf(t) \o lengthOf(Len(val)) \o val

\* buf[off : off+l], or nothing when the buffer is too short.
Slice(buf, off, l) ==
    IF Len(buf) < off + l THEN <<>> ELSE SubSeq(buf, off + 1, off + l)

Mut_v_ShortLengthOnly(buf, t) ==
    LET i == Len(tagOf(t)) IN
    CASE Len(buf) < i \/ SubSeq(buf, 1, i) # tagOf(t) -> <<>>
      [] OTHER -> IF Len(buf) = i THEN Panic ELSE Slice(buf, i + 1, buf[i + 1])

\* The value of the object with tag t at the start of buf; i octets of the
\* buffer have been read when the length is looked at.
v(buf, t) ==
    LET i == Len(tagOf(t)) IN
    IF Len(buf) < i \/ SubSeq(buf, 1, i) # tagOf(t) THEN <<>>
    ELSE IF Len(buf) = i THEN Panic
    ELSE CASE buf[i + 1] <= 127 -> Slice(buf, i + 1, buf[i + 1])
           [] buf[i + 1] = 129  -> IF Len(buf) = i + 1 THEN Panic
                                   ELSE Slice(buf, i + 2, buf[i + 2])
           [] buf[i + 1] = 130  -> IF Len(buf) < i + 2 THEN <<>> ELSE Panic
           [] OTHER             -> Slice(buf, i, 0)

\* PSO:DECIPHER finds the point of the sender in three nested objects.
cipherPoint(data) == v(v(v(data, 166), 32585), 134)

(***************************************************************************)
(* Data objects of the card, data.go.  A subkey is "nil", or its kind; the *)
(* octets of its fingerprint and creation time name its role.              *)
(***************************************************************************)

Curves == {"P-256", "P-384", "P-521", "brainpool"}

Subkeys == {"nil", "rsa", "other"} \cup Curves

getOID(curve) ==
    Fill(CASE curve = "P-256"     -> 8
           [] curve = "brainpool" -> 9
           [] OTHER               -> 5, 43)

AlgorithmAttributes(subkey) ==
    CASE subkey = "nil"            -> <<1>> \o uint16(4096) \o uint16(32) \o <<0>>
      [] subkey = "rsa"            -> <<1>> \o uint16(3072) \o uint16(32) \o <<0>>
      [] subkey \in Curves         -> <<19>> \o getOID(subkey) \o <<0>>
      [] OTHER                     -> <<1, 0, 0, 0, 0, 0>>

AID == Fill(16, 210)
HISTORICAL_BYTES == Fill(10, 49)
EXTENDED_CAPABILITIES == <<66, 0, 255, 255, 255, 255, 255, 255, 0, 0>>
EXTENDED_LENGTH == <<2, 2, 11, 254, 2, 2, 11, 254>>

\* The error counters follow the lengths of the passwords.
PWStatusBytes == <<0, 254, 127, 127, 3, 0, 0>>

\* n octets for each role, zero without subkey.
PerRole(card, n) ==
    LET of(subkey, role) == Fill(n, IF subkey = "nil" THEN 0 ELSE role) IN
    of(card.Sig, 1) \o of(card.Dec, 2) \o of(card.Aut, 3)

Mut_Fingerprints_Packed(card) ==
    SelectSeq(PerRole(card, 20), LAMBDA b : b # 0)

Fingerprints(card) == PerRole(card, 20)

\* No CA is ever set.
CAFingerprints == Fill(60, 0)

GenerationEpochs(card) == PerRole(card, 4)

\* All keys are imported.
KeyInformation == <<1, 2, 2, 2, 3, 2>>

AlgorithmInformation(card) ==
    tlv(193, AlgorithmAttributes(card.Sig))
      \o tlv(194, AlgorithmAttributes(card.Dec))
      \o tlv(195, AlgorithmAttributes(card.Aut))

DiscretionaryData(card) ==
    tlv(192, EXTENDED_CAPABILITIES)
      \o tlv(193, AlgorithmAttributes(card.Sig))
      \o tlv(194, AlgorithmAttributes(card.Dec))
      \o tlv(195, AlgorithmAttributes(card.Aut))
      \o tlv(196, PWStatusBytes)
      \o tlv(197, Fingerprints(card))
      \o tlv(198, CAFingerprints)
      \o tlv(205, GenerationEpochs(card))

ApplicationRelatedData(card) ==
    tlv(110, tlv(79, AID)
               \o tlv(24402, HISTORICAL_BYTES)
               \o tlv(32614, EXTENDED_LENGTH)
               \o tlv(115, DiscretionaryData(card)))

\* The counter once it has been read, which resets it above 0xffffff.
DigitalSignatureCounter(n) == IF n > 16777215 THEN 0 ELSE n

SecuritySupportTemplate(n) ==
    tlv(122, tlv(147, Tail(uint32(DigitalSignatureCounter(n)))))

CardholderRelatedData(card) ==
    tlv(101, tlv(91, Fill(card.Name, 78))
               \o tlv(24365, Fill(2, 76))
               \o tlv(24373, Fill(1, 57)))

\* The tags that GET DATA answers, but for the URL and the login data, which
\* are given back as they are.
DOs == {79, 101, 110, 122, 196, 222, 250, 24402, 32614}

GetData(tag, card) ==
    CASE tag = 79    -> AID
      [] tag = 101   -> CardholderRelatedData(card)
      [] tag = 110   -> ApplicationRelatedData(card)
      [] tag = 122   -> SecuritySupportTemplate(card.counter)
      [] tag = 196   -> PWStatusBytes
      [] tag = 222   -> KeyInformation
      [] tag = 250   -> AlgorithmInformation(card)
      [] tag = 24402 -> HISTORICAL_BYTES
      [] tag = 32614 -> EXTENDED_LENGTH

\* An uncompressed point.
Point(curve) ==
    Fill(CASE curve = "P-256"     -> 65
           [] curve = "P-384"     -> 97
           [] curve = "P-521"     -> 133
           [] curve = "brainpool" -> 129, 4)

\* The public key template that GENERATE answers with.
PublicKeyTemplate(subkey) ==
    tlv(32585, IF subkey = "rsa"
               THEN tlv(129, Fill(384, 255)) \o tlv(130, uint32(65537))
               ELSE tlv(134, Point(subkey)))

(***************************************************************************)
(* crypto.go                                                               *)
(***************************************************************************)

Mut_Pad_FullBlock(buf, extraBlock) ==
    LET r == Len(buf) % BlockSize
        padLen == IF r # 0 THEN BlockSize - r ELSE BlockSize
    IN buf \o Fill(padLen, padLen)

Pad(buf, extraBlock) ==
    LET r == Len(buf) % BlockSize
        padLen == IF r # 0 THEN BlockSize - r
                  ELSE IF extraBlock THEN BlockSize ELSE 0
    IN buf \o Fill(padLen, padLen)

Mut_padToKeySize_NoMPI(x, b) ==
    IF Len(b) >= x THEN b ELSE Fill(x - Len(b), 0) \o b

\* x octets are needed for the X coordinate of the public key.
padToKeySize(x, b) ==
    LET k == x + 2 IN IF Len(b) >= k THEN b ELSE Fill(k - Len(b), 0) \o b

(***************************************************************************)
(* ccid/buf.go, in the arithmetic of the target.                           *)
(***************************************************************************)

\* The values of a uint32, MaxInt + 1 of them negative as an int.
UintRange == 2 * (MaxInt + 1)

int(n) == LET m == n % UintRange IN IF m > MaxInt THEN m - UintRange ELSE m

Mut_Data_FromFront(buf, length) ==
    IF length <= Len(buf) THEN SubSeq(buf, 1, length) ELSE <<>>

Data(buf, length) ==
    LET off == int(Len(buf) - int(length)) IN
    IF length = 0 \/ off <= 0 THEN <<>>
    ELSE IF off > Len(buf) THEN Panic
    ELSE SubSeq(buf, off + 1, Len(buf))

(***************************************************************************)
(* gokey_vpcd.go: requests of one octet are controls, the others APDUs; an *)
(* empty one is an error.                                                  *)
(***************************************************************************)

frame(res) == LET l == Len(res) % LengthModulus IN <<l>> \o res

Mut_handleVPCDRequest_EmptyFrame(n, control, res) ==
    CASE n < 1 -> Panic
      [] n = 1 -> IF control = "GET_ATR" THEN frame(res) ELSE frame(<<>>)
      [] OTHER -> frame(res)

\* The length of a frame is one element here.  An error ends the process.
handleVPCDRequest(n, control, res) ==
    CASE n < 1 -> Panic
      [] n = 1 /\ control \in {"POWER_OFF", "POWER_ON", "RESET"} -> <<>>
      [] n = 1 /\ control = "GET_ATR" -> frame(res)
      [] n = 1 /\ control = "unknown" -> frame(<<>>)
      [] OTHER -> frame(res)

(***************************************************************************)
(* Inputs, and their evaluation                                            *)
(***************************************************************************)

\* Octets that v tells apart: small lengths, the two tags, the length forms.
TagOctets == {0, 1, 2, 45, 91, 95, 129, 130, 131}
Tags == {91, 24365}

Inputs ==
    [kind: {"tlv"}, tag: Tags, length: Lengths]
      \cup [kind: {"v"}, tag: Tags,
            buf: UNION {[1..n -> TagOctets] : n \in 0..MaxBuffer}]
      \cup [kind: {"cipher"}, curve: Curves]
      \cup [kind: {"card"}, Sig: Subkeys, Dec: Subkeys, Aut: Subkeys, Name: Lengths,
            counter: {0}]
      \cup [kind: {"counter"}, counter: Counters]
      \cup [kind: {"template"}, subkey: Curves \cup {"rsa"}]
      \cup [kind: {"pad"}, length: 0..(2 * BlockSize + 1), extraBlock: BOOLEAN]
      \cup [kind: {"signature"}, x: 1..CurveOctets, r: 0..CurveOctets,
            s: 0..CurveOctets]
      \cup [kind: {"ccid"}, size: 0..MaxMessage, length: 0..(UintRange - 1)]
      \cup [kind: {"vpcd"}, n: 0..2, length: 0..(LengthModulus + 1),
            control: {"POWER_OFF", "POWER_ON", "RESET", "GET_ATR", "unknown"}]

VARIABLES input, done, output

evars == <<input, done, output>>

EncodingsInit == input \in Inputs /\ done = FALSE /\ output = <<>>

Evaluate(kind, value) ==
    /\ ~done /\ input.kind = kind
    /\ done' = TRUE
    /\ output' = value
    /\ UNCHANGED input

\* Distinguishable octets.
Numbered(n) == [i \in 1..n |-> i]

EncodingsNext ==
    \/ Evaluate("tlv", v(tlv(input.tag, Fill(input.length, 7)), input.tag))
    \/ Evaluate("v", v(input.buf, input.tag))
    \/ Evaluate("cipher",
                cipherPoint(tlv(166, tlv(32585, tlv(134, Point(input.curve))))))
    \/ Evaluate("card", [tag \in DOs |-> GetData(tag, input)])
    \/ Evaluate("counter", <<GetData(122, input), DigitalSignatureCounter(input.counter)>>)
    \/ Evaluate("template", PublicKeyTemplate(input.subkey))
    \/ Evaluate("pad", Pad(Numbered(input.length), input.extraBlock))
    \/ Evaluate("signature", padToKeySize(input.x, Fill(input.r, 1))
                              \o padToKeySize(input.x, Fill(input.s, 2)))
    \/ Evaluate("ccid", Data(Numbered(input.size), input.length))
    \/ Evaluate("vpcd",
                handleVPCDRequest(input.n, input.control, Numbered(input.length)))

EncodingsSpec == EncodingsInit /\ [][EncodingsNext]_evars

Evaluated(kind) == done /\ input.kind = kind

(***************************************************************************)
(* Properties                                                              *)
(***************************************************************************)

\* v is the inverse of tlv for values of up to 255 octets.  The longer ones,
\* which tlv gives a length of two octets, it cannot read.
TLVInverse ==
    Evaluated("tlv") =>
        output = IF input.length <= 255 THEN Fill(input.length, 7) ELSE Panic

\* val is encoded with tag t at the start of buf, by any form of the length
\* with at most one octet after the first.
EncodedAs(val, t, buf) ==
    \E l \in {<<Len(val)>>, <<129, Len(val)>>} :
        LET whole == tagOf(t) \o l \o val IN
        /\ l[1] <= 127 \/ Len(l) = 2
        /\ Len(whole) <= Len(buf)
        /\ SubSeq(buf, 1, Len(whole)) = whole

PartsOf(buf) == {SubSeq(buf, i, j) : i \in 1..Len(buf) + 1, j \in 0..Len(buf)}

\* The values that a reader could take from buf.
FoundIn(buf, t) == {val \in PartsOf(buf) : EncodedAs(val, t, buf)}

\* On any buffer v returns the value that is encoded there, or nothing; it
\* panics when the buffer ends before the length does, or the length has two
\* octets, and never otherwise.
ValueFound ==
    Evaluated("v") =>
        LET buf == input.buf
            t == input.tag
            header == tagOf(t)
            found == FoundIn(buf, t)
        IN IF buf \in {header, header \o <<129>>}
                \/ (\E b \in TagOctets, n \in 0..MaxBuffer :
                       n <= Len(buf) /\ SubSeq(buf, 1, n) = header \o <<130, b>>)
           THEN output = Panic
           ELSE output \in found \/ (found = {} /\ output = <<>>)

\* v reads what tlv writes, and what stands in any buffer, up to its limits:
\* the three objects of a cryptogram depend on it.
ValuesFound == TLVInverse /\ ValueFound

Object(t, val) == [tag |-> t, val |-> val]

\* The octets beyond the end are taken as zero.
OctetAt(buf, i) == IF i \in 1..Len(buf) THEN buf[i] ELSE 0

\* A tag has a second octet when the first ends in five ones.
TagLength(buf, i) == IF OctetAt(buf, i) % 32 = 31 THEN 2 ELSE 1

\* What a host makes of the octets at i by the rules of ISO 7816-4: a length
\* above 127 has one or two octets after the first.
Header(buf, i) ==
    LET t == TagLength(buf, i)
        l == OctetAt(buf, i + t)
    IN [tag     |-> IF t = 2 THEN 256 * OctetAt(buf, i) + OctetAt(buf, i + 1)
                    ELSE OctetAt(buf, i),
        start   |-> i + t + (IF l = 129 THEN 2 ELSE IF l = 130 THEN 3 ELSE 1),
        length  |-> IF l = 129 THEN OctetAt(buf, i + t + 1)
                    ELSE IF l = 130
                         THEN 256 * OctetAt(buf, i + t + 1) + OctetAt(buf, i + t + 2)
                    ELSE l,
        defined |-> l <= 127 \/ l \in {129, 130}]

\* The octet after the object at i.
EndOf(buf, i) == Header(buf, i).start + Header(buf, i).length

\* There is a whole object at i.
ReadableAt(buf, i) == Header(buf, i).defined /\ EndOf(buf, i) <= Len(buf) + 1

ObjectAt(buf, i) ==
    Object(Header(buf, i).tag, SubSeq(buf, Header(buf, i).start, EndOf(buf, i) - 1))

\* What is no object.
Garbage == Object(-1, <<>>)

\* The data objects that follow each other in buf from octet i on, for each i.
ObjectsFrom(buf) ==
    LET from[i \in 1..(Len(buf) + 1)] ==
            IF i = Len(buf) + 1 THEN <<>>
            ELSE IF ReadableAt(buf, i) THEN <<ObjectAt(buf, i)>> \o from[EndOf(buf, i)]
            ELSE <<Garbage>>
    IN from

\* The data objects that a host reads from a sequence of octets.
Objects(buf) == ObjectsFrom(buf)[1]

\* Whatever keys the card holds, a host reads from the answers to GET DATA the
\* objects that the OpenPGP card specification names, with a fingerprint and a
\* creation time in the place of each key; an object that can also be asked for
\* by itself is the same there; and all the application related data fits the
\* 256 octets of a short response.
ObjectsReadBack ==
    Evaluated("card") =>
        LET role(subkey, n, id) == Fill(n, IF subkey = "nil" THEN 0 ELSE id)
            attributes(t, subkey) == Object(t, AlgorithmAttributes(subkey))
            alone(t) == Object(t, output[t])
            application == Objects(output[110])[1].val
            discretionary == Objects(application)[4].val
            holder == Objects(output[101])[1].val
        IN /\ Objects(output[110]) = <<Object(110, application)>>
           /\ Objects(application) =
                <<alone(79), alone(24402), alone(32614), Object(115, discretionary)>>
           /\ Objects(discretionary) =
                <<Object(192, EXTENDED_CAPABILITIES),
                  attributes(193, input.Sig), attributes(194, input.Dec),
                  attributes(195, input.Aut), alone(196),
                  Object(197, role(input.Sig, 20, 1) \o role(input.Dec, 20, 2)
                                \o role(input.Aut, 20, 3)),
                  Object(198, Fill(60, 0)),
                  Object(205, role(input.Sig, 4, 1) \o role(input.Dec, 4, 2)
                                \o role(input.Aut, 4, 3))>>
           /\ Len(output[110]) <= 256
           /\ Objects(output[101]) = <<Object(101, holder)>>
           /\ Objects(holder) = <<Object(91, Fill(input.Name, 78)),
                                  Object(24365, Fill(2, 76)), Object(24373, Fill(1, 57))>>
           /\ Objects(output[250]) =
                <<attributes(193, input.Sig), attributes(194, input.Dec),
                  attributes(195, input.Aut)>>

\* The three octets of the signature counter that a host reads are the counter
\* itself: it is reset when it no longer fits them, not reported modulo 2^24.
CounterReported ==
    Evaluated("counter") =>
        LET octets == Objects(Objects(output[1])[1].val)[1].val IN
        /\ output[2] = 65536 * octets[1] + 256 * octets[2] + octets[3]
        /\ input.counter < 16777216 => output[2] = input.counter

\* A host finds the public key in the template that GENERATE returns, and the
\* card finds the point in the same template inside a cryptogram.
TemplateReadBack ==
    /\ Evaluated("template") =>
        LET inner == Objects(Objects(output)[1].val) IN
        IF input.subkey = "rsa"
        THEN inner = <<Object(129, Fill(384, 255)), Object(130, <<0, 1, 0, 1>>)>>
        ELSE inner = <<Object(134, Point(input.subkey))>>
    /\ Evaluated("cipher") => output = Point(input.curve)

\* What the card answers to GET DATA and GENERATE is read back by a host that
\* follows the standard, object by object.
HostReadsBack == ObjectsReadBack /\ CounterReported /\ TemplateReadBack

\* Padded data is a number of whole blocks, begins with the data, and tells in
\* its last octet how much was added; without extraBlock whole blocks are left
\* as they are, so that a diversifier of 16 octets is encrypted as it is.
PadWhole ==
    Evaluated("pad") =>
        /\ Len(output) % BlockSize = 0
        /\ SubSeq(output, 1, input.length) = Numbered(input.length)
        /\ input.extraBlock \/ input.length % BlockSize # 0 =>
              input.length = Len(output) - output[Len(output)]
        /\ ~input.extraBlock => Len(output) < input.length + BlockSize

\* A host that cuts a raw signature in the middle, whatever its length, gets r
\* and s behind leading zeros, unless the X coordinate has three leading zero
\* octets or more.  The halves are two octets longer than X, not as long as the
\* 66 octets for P-521 that a comment in ComputeDigitalSignature quotes.
SignatureSplits ==
    Evaluated("signature") /\ input.x + 2 >= CurveOctets =>
        LET half == Len(output) \div 2 IN
        /\ Len(output) = 2 * half
        /\ SubSeq(output, 1, half) = Fill(half - input.r, 0) \o Fill(input.r, 1)
        /\ SubSeq(output, half + 1, 2 * half)
              = Fill(half - input.s, 0) \o Fill(input.s, 2)

\* Data returns the field abData of a message that is as long as its dwLength
\* says, and it cannot panic for a dwLength that is not negative as an int.
DataIsField ==
    Evaluated("ccid") =>
        /\ input.size = HeaderSize + input.length =>
              output = SubSeq(Numbered(input.size), HeaderSize + 1, input.size)
        /\ input.length <= MaxInt => output # Panic

\* The vpcd daemon, which reads a length and then as many octets, gets the
\* response, and gets nothing for the requests that it expects no answer to.
FrameReadBack ==
    Evaluated("vpcd") /\ input.n > 0 =>
        IF input.n = 1 /\ input.control \in {"POWER_OFF", "POWER_ON", "RESET"}
        THEN output = <<>>
        ELSE input.length < LengthModulus =>
                /\ Len(output) = 1 + output[1]
                /\ input.control # "unknown" \/ input.n > 1 =>
                      Tail(output) = Numbered(input.length)

=============================================================================
