---------------------------- MODULE EncodingsProofs ----------------------------
(***************************************************************************)
(* Proofs about Encodings: what the functions of GoKey that compute with   *)
(* octets return, for every length, buffer, key and counter.               *)
(*                                                                         *)
(* Objects, by which a host reads a response, is a recursive function.     *)
(* That it satisfies its equation, and that it reads the rest of a buffer  *)
(* as it reads the rest alone, is shown by induction; the induction is an  *)
(* appeal to the least element of a set of numbers, where a step fails.    *)
(***************************************************************************)
EXTENDS Encodings, SequenceTheorems, WellFoundedInduction, TLAPS

(***************************************************************************)
(* Sequences                                                               *)
(***************************************************************************)

\* A nonempty set of natural numbers has a least element.
LEMMA LeastNat ==
    ASSUME NEW T \in SUBSET Nat, T # {}
    PROVE  \E x \in T : \A y \in T : x <= y
<1> DEFINE R == OpToRel(<, Nat)
<1>1. IsWellFoundedOn(R, Nat)
  BY NatLessThanWellFounded, Zenon
<1>2. \A x, y \in Nat : y < x => <<y, x>> \in R
  BY DEF OpToRel
<1> HIDE DEF R
<1>3. PICK x \in T : \A y \in T : <<y, x>> \notin R
  BY <1>1, WFMin, Zenon
<1>4. \A y \in T : ~(y < x)
  BY <1>2, <1>3
<1> QED
  BY <1>4

\* Induction over the numbers up to N, for a set.
LEMMA SetInduction ==
    ASSUME NEW N \in Nat, NEW S,
           0 \in S,
           \A m \in 0..(N - 1) : m \in S => m + 1 \in S
    PROVE  \A m \in 0..N : m \in S
<1> DEFINE T == {m \in 0..N : m \notin S}
<1> SUFFICES ASSUME T # {} PROVE FALSE
  OBVIOUS
<1>1. T \in SUBSET Nat
  OBVIOUS
<1>2. PICK x \in T : \A y \in T : x <= y
  BY <1>1, LeastNat
<1>3. x # 0 /\ x \in 1..N
  BY <1>2
<1>4. x - 1 \in 0..(N - 1) /\ x - 1 \notin T
  BY <1>2, <1>3
<1>5. x - 1 \in S
  BY <1>4
<1>6. (x - 1) + 1 \in S
  BY <1>4, <1>5
<1> QED
  BY <1>2, <1>3, <1>6

\* n equal octets are a sequence of n elements.
LEMMA FillSeq ==
    ASSUME NEW n \in Nat, NEW b \in Nat
    PROVE  /\ Fill(n, b) \in Seq(Nat)
           /\ Len(Fill(n, b)) = n
           /\ \A i \in 1..n : Fill(n, b)[i] = b
BY DEF Fill

\* The first n numbers are a sequence of n elements.
LEMMA NumberedSeq ==
    ASSUME NEW n \in Nat
    PROVE  /\ Numbered(n) \in Seq(Nat)
           /\ Len(Numbered(n)) = n
           /\ \A i \in 1..n : Numbered(n)[i] = i
BY DEF Numbered

\* The l elements of a sequence after the first o.
LEMMA PartSeq ==
    ASSUME NEW s \in Seq(Nat), NEW o \in Nat, NEW l \in Nat, o + l <= Len(s)
    PROVE  /\ SubSeq(s, o + 1, o + l) \in Seq(Nat)
           /\ Len(SubSeq(s, o + 1, o + l)) = l
           /\ \A i \in 1..l : SubSeq(s, o + 1, o + l)[i] = s[o + i]
<1> DEFINE m == o + 1
           n == o + l
           p == SubSeq(s, m, n)
<1>1. m \in Int /\ n \in Int /\ n - m + 1 = l /\ (m <= n <=> l # 0)
  OBVIOUS
<1>2. \A i \in m..n : i \in 1..Len(s)
  BY LenProperties
<1>3. \A i \in m..n : s[i] \in Nat
  BY <1>2, ElementOfSeq
<1> HIDE DEF m, n
<1>4. /\ p \in Seq(Nat) /\ Len(p) = IF m <= n THEN n - m + 1 ELSE 0
      /\ \A i \in 1..(n - m + 1) : p[i] = s[m + i - 1]
  BY <1>1, <1>3, SubSeqProperties
<1> HIDE DEF p
<1>5. Len(p) = l
  BY <1>1, <1>4
<1>6. ASSUME NEW i \in 1..l PROVE p[i] = s[o + i]
  <2>1. p[i] = s[m + i - 1]
    BY <1>1, <1>4
  <2>2. m + i - 1 = o + i
    BY DEF m
  <2> QED
    BY <2>1, <2>2
<1>7. /\ p \in Seq(Nat) /\ Len(p) = l
      /\ \A i \in 1..l : p[i] = s[o + i]
  BY <1>4, <1>5, <1>6
<1> QED
  BY <1>7, Zenon DEF p, m, n

\* A sequence that is found after the first o elements.
LEMMA PartEqual ==
    ASSUME NEW s \in Seq(Nat), NEW o \in Nat, NEW b \in Seq(Nat),
           o + Len(b) <= Len(s), \A i \in 1..Len(b) : s[o + i] = b[i]
    PROVE  SubSeq(s, o + 1, o + Len(b)) = b
<1> DEFINE p == SubSeq(s, o + 1, o + Len(b))
<1>1. Len(b) \in Nat
  BY LenProperties
<1>2. /\ p \in Seq(Nat) /\ Len(p) = Len(b)
      /\ \A i \in 1..Len(b) : p[i] = s[o + i]
  BY <1>1, PartSeq, Zenon
<1> HIDE DEF p
<1>3. \A i \in 1..Len(p) : p[i] = b[i]
  BY <1>2
<1>4. p = b
  BY <1>2, <1>3, SeqEqual
<1> QED
  BY <1>4 DEF p

\* A sequence that another one begins with.
LEMMA PrefixEqual ==
    ASSUME NEW s \in Seq(Nat), NEW b \in Seq(Nat),
           Len(b) <= Len(s), \A i \in 1..Len(b) : s[i] = b[i]
    PROVE  SubSeq(s, 1, Len(b)) = b
<1>1. Len(b) \in Nat
  BY LenProperties
<1>2. 0 + 1 = 1 /\ 0 + Len(b) = Len(b) /\ \A i \in 1..Len(b) : 0 + i = i
  BY <1>1
<1>3. 0 \in Nat /\ 0 + Len(b) <= Len(s) /\ \A i \in 1..Len(b) : s[0 + i] = b[i]
  BY <1>1, <1>2
<1>4. SubSeq(s, 0 + 1, 0 + Len(b)) = b
  BY <1>3, PartEqual
<1> QED
  BY <1>2, <1>4

\* The elements of a concatenation.
LEMMA ConcatParts ==
    ASSUME NEW a \in Seq(Nat), NEW b \in Seq(Nat)
    PROVE  /\ a \o b \in Seq(Nat)
           /\ Len(a) \in Nat /\ Len(b) \in Nat
           /\ Len(a \o b) = Len(a) + Len(b)
           /\ \A i \in 1..Len(a) : (a \o b)[i] = a[i]
           /\ \A i \in 1..Len(b) : (a \o b)[Len(a) + i] = b[i]
BY ConcatProperties, LenProperties

\* The two parts of a concatenation.
LEMMA SubSeqOfTwo ==
    ASSUME NEW a \in Seq(Nat), NEW b \in Seq(Nat)
    PROVE  /\ SubSeq(a \o b, 1, Len(a)) = a
           /\ SubSeq(a \o b, Len(a) + 1, Len(a) + Len(b)) = b
<1> DEFINE w == a \o b
<1>1. /\ w \in Seq(Nat) /\ Len(w) = Len(a) + Len(b)
      /\ Len(a) \in Nat /\ Len(b) \in Nat
      /\ \A i \in 1..Len(a) : w[i] = a[i]
      /\ \A i \in 1..Len(b) : w[Len(a) + i] = b[i]
  BY ConcatParts, Zenon
<1> HIDE DEF w
<1>2. SubSeq(w, 1, Len(a)) = a
  <2>1. Len(a) <= Len(w)
    BY <1>1
  <2> QED
    BY <1>1, <2>1, PrefixEqual, Zenon
<1>3. SubSeq(w, Len(a) + 1, Len(a) + Len(b)) = b
  <2>1. Len(a) + Len(b) <= Len(w)
    BY <1>1
  <2> QED
    BY <1>1, <2>1, PartEqual, Zenon
<1> QED
  BY <1>2, <1>3 DEF w

\* What the assumptions say of the sizes.
LEMMA Bounds ==
    /\ BlockSize \in Nat \ {0} /\ BlockSize <= 255
    /\ MaxInt \in Nat
    /\ MaxMessage \in Nat /\ MaxMessage <= MaxInt
    /\ HeaderSize \in Nat \ {0}
    /\ CurveOctets \in Nat
    /\ LengthModulus \in Nat \ {0}
<1>1. BlockSize \in 1..255
  BY EncodingsAssumption, SMT
<1>2. MaxInt \in Nat
  BY EncodingsAssumption, SMT
<1>3. MaxMessage \in 0..MaxInt
  BY EncodingsAssumption, SMT
<1>4. HeaderSize \in Nat \ {0}
  BY EncodingsAssumption, SMT
<1>5. CurveOctets \in Nat
  BY EncodingsAssumption, SMT
<1>6. LengthModulus \in Nat \ {0}
  BY EncodingsAssumption, SMT
<1> QED
  BY <1>1, <1>2, <1>3, <1>4, <1>5, <1>6


\* The numbers that have two octets.
Word == {n \in Nat : n <= 65535}

\* A number up to 65522 is one.
LEMMA IsWord ==
    ASSUME NEW n \in Nat, n <= 65522
    PROVE  n \in Word
BY SMT DEF Word

\* The lengths are numbers of at most 16 bits.
LEMMA LengthsAreWords ==
    ASSUME NEW l \in Lengths
    PROVE  l \in Word /\ l \in Nat
<1>1. l \in Nat
  BY EncodingsAssumption, SMT
<1>2. l <= 65522
  BY EncodingsAssumption, SMT
<1>3. l \in Word
  BY <1>1, <1>2, IsWord, SMT
<1> QED
  BY <1>1, <1>3, Zenon

\* They leave room for what goes with a name.
LEMMA LengthsBound ==
    ASSUME NEW l \in Lengths
    PROVE  l <= 65522
BY EncodingsAssumption, SMT

\* The tags are such numbers too.
LEMMA TagsAreWords ==
    ASSUME NEW t \in Tags
    PROVE  t \in Word
BY SMT DEF Tags, Word

\* A multiple has no remainder.
LEMMA NoRemainder ==
    ASSUME NEW k \in Nat \ {0}, NEW q \in Nat
    PROVE  (k * q) % k = 0
OBVIOUS

(***************************************************************************)
(* The inductive invariant: an evaluation has been made of the function    *)
(* that the input is for.                                                  *)
(***************************************************************************)

\* What the function for an input of this kind returns for it.
Result(kind, in) ==
    CASE kind = "tlv"       -> v(tlv(in.tag, Fill(in.length, 7)), in.tag)
      [] kind = "v"         -> v(in.buf, in.tag)
      [] kind = "cipher"    -> cipherPoint(tlv(166, tlv(32585, tlv(134, Point(in.curve)))))
      [] kind = "card"      -> [tag \in DOs |-> GetData(tag, in)]
      [] kind = "counter"   -> <<GetData(122, in), DigitalSignatureCounter(in.counter)>>
      [] kind = "template"  -> PublicKeyTemplate(in.subkey)
      [] kind = "pad"       -> Pad(Numbered(in.length), in.extraBlock)
      [] kind = "signature" -> padToKeySize(in.x, Fill(in.r, 1))
                               \o padToKeySize(in.x, Fill(in.s, 2))
      [] kind = "ccid"      -> Data(Numbered(in.size), in.length)
      [] kind = "vpcd"      -> handleVPCDRequest(in.n, in.control, Numbered(in.length))

EncodingsInv == input \in Inputs /\ (done => output = Result(input.kind, input))

\* The invariant holds initially, and an evaluation gives the result for its
\* input and keeps the input.
THEOREM EncodingsInvariant == EncodingsSpec => []EncodingsInv
<1>1. EncodingsInit => EncodingsInv
  BY DEF EncodingsInit, EncodingsInv
<1>2. EncodingsInv /\ [EncodingsNext]_evars => EncodingsInv'
  <2> SUFFICES ASSUME EncodingsInv, [EncodingsNext]_evars PROVE EncodingsInv'
    OBVIOUS
  <2>1. ASSUME NEW kind, NEW value, value = Result(kind, input), Evaluate(kind, value)
        PROVE  EncodingsInv'
    BY <2>1 DEF EncodingsInv, Evaluate
  <2>2. CASE Evaluate("tlv", v(tlv(input.tag, Fill(input.length, 7)), input.tag))
    BY <2>1, <2>2 DEF Result
  <2>3. CASE Evaluate("v", v(input.buf, input.tag))
    BY <2>1, <2>3 DEF Result
  <2>4. CASE Evaluate("cipher", 
                 cipherPoint(tlv(166, tlv(32585, tlv(134, Point(input.curve))))))
    BY <2>1, <2>4 DEF Result
  <2>5. CASE Evaluate("card", [tag \in DOs |-> GetData(tag, input)])
    BY <2>1, <2>5 DEF Result
  <2>6. CASE Evaluate("counter", 
                 <<GetData(122, input), DigitalSignatureCounter(input.counter)>>)
    BY <2>1, <2>6 DEF Result
  <2>7. CASE Evaluate("template", PublicKeyTemplate(input.subkey))
    BY <2>1, <2>7 DEF Result
  <2>8. CASE Evaluate("pad", Pad(Numbered(input.length), input.extraBlock))
    BY <2>1, <2>8 DEF Result
  <2>9. CASE Evaluate("signature", padToKeySize(input.x, Fill(input.r, 1))
                        \o padToKeySize(input.x, Fill(input.s, 2)))
    <3> DEFINE value == padToKeySize(input.x, Fill(input.r, 1))
                         \o padToKeySize(input.x, Fill(input.s, 2))
    <3>1. value = Result("signature", input)
      BY DEF Result
    <3>2. Evaluate("signature", value)
      BY <2>9
    <3> HIDE DEF value
    <3> QED
      BY <2>1, <3>1, <3>2
  <2>10. CASE Evaluate("ccid", Data(Numbered(input.size), input.length))
    BY <2>1, <2>10 DEF Result
  <2>11. CASE Evaluate("vpcd", 
                 handleVPCDRequest(input.n, input.control, Numbered(input.length)))
    BY <2>1, <2>11 DEF Result
  <2>12. CASE UNCHANGED evars
    BY <2>12 DEF EncodingsInv, evars
  <2> QED
    BY <2>2, <2>3, <2>4, <2>5, <2>6, <2>7, <2>8, <2>9, <2>10, <2>11, <2>12
       DEF EncodingsNext
<1> QED
  BY <1>1, <1>2, PTL DEF EncodingsSpec

(***************************************************************************)
(* crypto.go                                                               *)
(***************************************************************************)

\* The inputs of Pad.
LEMMA PadInput ==
    ASSUME EncodingsInv, Evaluated("pad")
    PROVE  /\ input.length \in Nat /\ input.extraBlock \in BOOLEAN
           /\ output = Pad(Numbered(input.length), input.extraBlock)
<1>1. input.kind = "pad"
  BY DEF Evaluated
<1>2. input \in [kind: {"pad"}, length: 0..(2 * BlockSize + 1), extraBlock: BOOLEAN]
  BY <1>1 DEF EncodingsInv, Inputs
<1>3. output = Pad(Numbered(input.length), input.extraBlock)
  BY <1>1 DEF EncodingsInv, Evaluated, Result
<1>4. input.length \in 0..(2 * BlockSize + 1) /\ input.extraBlock \in BOOLEAN
  BY <1>2
<1>5. input.length \in Nat
  BY <1>4, Bounds
<1> QED
  BY <1>3, <1>4, <1>5, Zenon

\* What Pad returns: whole blocks, that begin with the data and end with the
\* number of octets added.
LEMMA PadValue ==
    ASSUME NEW buf \in Seq(Nat), NEW extraBlock \in BOOLEAN,
           NEW w, w = Pad(buf, extraBlock)
    PROVE  /\ Len(w) % BlockSize = 0
           /\ SubSeq(w, 1, Len(buf)) = buf
           /\ extraBlock \/ Len(buf) % BlockSize # 0 => Len(buf) = Len(w) - w[Len(w)]
           /\ ~extraBlock => Len(w) < Len(buf) + BlockSize
<1> DEFINE r == Len(buf) % BlockSize
           padLen == IF r # 0 THEN BlockSize - r
                     ELSE IF extraBlock THEN BlockSize ELSE 0
           n == Len(buf)
           q == n \div BlockSize
<1>1. n \in Nat /\ BlockSize \in Nat \ {0}
  BY LenProperties, Bounds
<1>2. r \in 0..(BlockSize - 1) /\ q \in Nat /\ n = BlockSize * q + r
  BY <1>1
<1> HIDE DEF n, r, q
<1>3. padLen \in 0..BlockSize
  BY <1>1, <1>2
<1>4. /\ r # 0 => padLen = BlockSize - r
      /\ r = 0 /\ extraBlock => padLen = BlockSize
      /\ r = 0 /\ ~extraBlock => padLen = 0
  OBVIOUS
<1>5. w = buf \o Fill(padLen, padLen)
  BY DEF Pad, r, n
<1> HIDE DEF padLen
<1>6. /\ Fill(padLen, padLen) \in Seq(Nat) /\ Len(Fill(padLen, padLen)) = padLen
      /\ \A i \in 1..padLen : Fill(padLen, padLen)[i] = padLen
  BY <1>1, <1>3, FillSeq
<1>7. /\ w \in Seq(Nat) /\ Len(w) = n + padLen
      /\ \A i \in 1..padLen : w[n + i] = padLen
  <2> DEFINE p == Fill(padLen, padLen)
  <2> HIDE DEF p
  <2>1. /\ p \in Seq(Nat) /\ Len(p) = padLen /\ w = buf \o p
        /\ \A i \in 1..padLen : p[i] = padLen
    BY <1>5, <1>6 DEF p
  <2>2. /\ buf \o p \in Seq(Nat) /\ Len(buf \o p) = Len(buf) + Len(p)
        /\ \A i \in 1..Len(p) : (buf \o p)[Len(buf) + i] = p[i]
    BY <2>1, ConcatParts, Zenon
  <2> QED
    BY <2>1, <2>2 DEF n
<1>8. SubSeq(w, 1, n) = buf
  BY <1>5, <1>6, SubSeqOfTwo DEF n
<1>9. \/ n + padLen = BlockSize * q
      \/ n + padLen = BlockSize * (q + 1)
  BY <1>1, <1>2, <1>3, <1>4
<1>10. (n + padLen) % BlockSize = 0
  <2>1. q + 1 \in Nat
    BY <1>2
  <2>2. (BlockSize * q) % BlockSize = 0 /\ (BlockSize * (q + 1)) % BlockSize = 0
    BY <1>1, <1>2, <2>1, NoRemainder
  <2> QED
    BY <1>9, <2>2, Zenon
<1>11. extraBlock \/ r # 0 => w[Len(w)] = padLen
  <2>1. extraBlock \/ r # 0 => padLen \in 1..padLen
    BY <1>1, <1>2, <1>3, <1>4
  <2> QED
    BY <1>7, <2>1
<1> QED
  BY <1>1, <1>2, <1>3, <1>4, <1>7, <1>8, <1>10, <1>11, SMTT(30) DEF n, r

\* Padded data is whole blocks, begins with the data and tells what was added,
\* for every block size and length.
THEOREM PadWholeTheorem == EncodingsSpec => []PadWhole
<1>1. EncodingsInv => PadWhole
  <2> SUFFICES ASSUME EncodingsInv, Evaluated("pad") PROVE PadWhole
    BY DEF PadWhole
  <2>1. /\ Numbered(input.length) \in Seq(Nat)
        /\ Len(Numbered(input.length)) = input.length
    BY PadInput, NumberedSeq
  <2> QED
    BY <2>1, PadInput, PadValue DEF PadWhole
<1> QED
  BY <1>1, EncodingsInvariant, PTL

\* What padToKeySize returns for a number that fits.
LEMMA PadToKeySizeValue ==
    ASSUME NEW x \in Nat, NEW r \in 0..(x + 2), NEW b \in Nat
    PROVE  /\ padToKeySize(x, Fill(r, b)) = Fill((x + 2) - r, 0) \o Fill(r, b)
           /\ Fill((x + 2) - r, 0) \o Fill(r, b) \in Seq(Nat)
           /\ Len(Fill((x + 2) - r, 0) \o Fill(r, b)) = x + 2
<1> DEFINE half == Fill((x + 2) - r, 0) \o Fill(r, b)
<1>1. Fill(r, b) \in Seq(Nat) /\ Len(Fill(r, b)) = r
  BY FillSeq
<1>2. (x + 2) - r \in Nat
  OBVIOUS
<1>3. Fill((x + 2) - r, 0) \in Seq(Nat) /\ Len(Fill((x + 2) - r, 0)) = (x + 2) - r
  BY <1>2, FillSeq
<1>4. half \in Seq(Nat) /\ Len(half) = x + 2
  <2>1. /\ half \in Seq(Nat)
        /\ Len(half) = Len(Fill((x + 2) - r, 0)) + Len(Fill(r, b))
    BY <1>1, <1>3, ConcatParts, Zenon
  <2> QED
    BY <1>1, <1>3, <2>1
<1>5. CASE r = x + 2
  <2>1. Fill((x + 2) - r, 0) = <<>>
    BY <1>3, <1>5, EmptySeq
  <2> QED
    BY <1>1, <1>4, <1>5, <2>1, ConcatEmptySeq DEF padToKeySize
<1>6. CASE r < x + 2
  BY <1>1, <1>4, <1>6 DEF padToKeySize
<1> QED
  BY <1>5, <1>6

\* The two halves of a signature when both numbers fit.
LEMMA SignatureValue ==
    ASSUME NEW x \in Nat, NEW r \in 0..(x + 2), NEW s \in 0..(x + 2), NEW w,
           w = padToKeySize(x, Fill(r, 1)) \o padToKeySize(x, Fill(s, 2))
    PROVE  /\ Len(w) = 2 * (x + 2)
           /\ SubSeq(w, 1, x + 2) = Fill((x + 2) - r, 0) \o Fill(r, 1)
           /\ SubSeq(w, x + 2 + 1, 2 * (x + 2)) = Fill((x + 2) - s, 0) \o Fill(s, 2)
<1> DEFINE left == Fill((x + 2) - r, 0) \o Fill(r, 1)
           right == Fill((x + 2) - s, 0) \o Fill(s, 2)
<1>1. /\ padToKeySize(x, Fill(r, 1)) = left
      /\ left \in Seq(Nat) /\ Len(left) = x + 2
  BY PadToKeySizeValue
<1>2. /\ padToKeySize(x, Fill(s, 2)) = right
      /\ right \in Seq(Nat) /\ Len(right) = x + 2
  BY PadToKeySizeValue
<1>3. w = left \o right
  BY <1>1, <1>2
<1> SUFFICES /\ Len(w) = 2 * (x + 2)
             /\ SubSeq(w, 1, x + 2) = left
             /\ SubSeq(w, x + 2 + 1, 2 * (x + 2)) = right
  OBVIOUS
<1> HIDE DEF left, right
<1>4. Len(w) = Len(left) + Len(right)
  <2>1. Len(left \o right) = Len(left) + Len(right)
    BY <1>1, <1>2, ConcatParts, Zenon
  <2> QED
    BY <1>3, <2>1
<1>5. /\ SubSeq(w, 1, Len(left)) = left
      /\ SubSeq(w, Len(left) + 1, Len(left) + Len(right)) = right
  <2>1. /\ SubSeq(left \o right, 1, Len(left)) = left
        /\ SubSeq(left \o right, Len(left) + 1, Len(left) + Len(right)) = right
    BY <1>1, <1>2, SubSeqOfTwo, Zenon
  <2> QED
    BY <1>3, <2>1, Zenon
<1>6. Len(left) + Len(right) = 2 * (x + 2)
  BY <1>1, <1>2
<1> QED
  BY <1>1, <1>4, <1>5, <1>6

\* Cut in the middle, a raw signature gives r and s, for every curve and every
\* length of r, s and the X coordinate in the range.
THEOREM SignatureSplitsTheorem == EncodingsSpec => []SignatureSplits
<1>1. EncodingsInv => SignatureSplits
  <2> SUFFICES ASSUME EncodingsInv, Evaluated("signature"),
                      input.x + 2 >= CurveOctets
               PROVE  SignatureSplits
    BY DEF SignatureSplits
  <2>1. input.kind = "signature"
    BY DEF Evaluated
  <2>2. input \in [kind: {"signature"}, x: 1..CurveOctets, r: 0..CurveOctets,
                   s: 0..CurveOctets]
    BY <2>1 DEF EncodingsInv, Inputs
  <2> DEFINE x == input.x
             r == input.r
             s == input.s
  <2>3. x \in Nat /\ r \in 0..(x + 2) /\ s \in 0..(x + 2)
    BY <2>2, Bounds
  <2>4. output = padToKeySize(x, Fill(r, 1)) \o padToKeySize(x, Fill(s, 2))
    BY <2>1 DEF EncodingsInv, Evaluated, Result
  <2> DEFINE n == x + 2
  <2>5. /\ Len(output) = 2 * n
        /\ SubSeq(output, 1, n) = Fill(n - r, 0) \o Fill(r, 1)
        /\ SubSeq(output, n + 1, 2 * n) = Fill(n - s, 0) \o Fill(s, 2)
    <3> HIDE DEF x, r, s
    <3> QED
      BY <2>3, <2>4, SignatureValue, ZenonT(60)
  <2>6. Len(output) \div 2 = n
    <3> HIDE DEF x
    <3> QED
      BY <2>3, <2>5
  <2> HIDE DEF n
  <2> QED
    BY <2>5, <2>6, Zenon DEF SignatureSplits
<1> QED
  BY <1>1, EncodingsInvariant, PTL

(***************************************************************************)
(* ccid/buf.go                                                             *)
(***************************************************************************)

\* A number that fits an int is kept by the conversion.
LEMMA IntKeeps ==
    ASSUME NEW n \in 0..MaxInt
    PROVE  int(n) = n
<1>1. n \in 0..(UintRange - 1) /\ UintRange \in Nat \ {0}
  BY Bounds DEF UintRange
<1>2. n % UintRange = n
  BY <1>1
<1> QED
  BY <1>2, Bounds DEF int

\* So is a negative one.
LEMMA IntKeepsNegative ==
    ASSUME NEW n \in Int, -MaxInt <= n, n < 0
    PROVE  int(n) = n
<1>1. UintRange \in Nat \ {0} /\ n + UintRange \in 0..(UintRange - 1)
      /\ n + UintRange > MaxInt
  BY Bounds DEF UintRange
<1>2. n % UintRange = n + UintRange
  BY <1>1
<1> QED
  BY <1>1, <1>2, Bounds DEF int

\* What Data returns for a dwLength that fits an int: the last octets of the
\* message, as many as dwLength says, or nothing.
LEMMA DataValue ==
    ASSUME NEW size \in 0..MaxMessage, NEW length \in 0..MaxInt, NEW w,
           w = Data(Numbered(size), length)
    PROVE  /\ length = 0 \/ length >= size => w = <<>>
           /\ length > 0 /\ length < size =>
                w = SubSeq(Numbered(size), (size - length) + 1, size)
<1>1. Len(Numbered(size)) = size
  BY NumberedSeq
<1>2. int(length) = length
  BY IntKeeps
<1>3. size - length \in Int /\ -MaxInt <= size - length /\ size - length <= MaxInt
  BY Bounds
<1>4. int(size - length) = size - length
  BY <1>3, IntKeeps, IntKeepsNegative, Bounds
<1> DEFINE off == size - length
<1>5. w = IF length = 0 \/ off <= 0 THEN <<>>
          ELSE IF off > size THEN Panic
          ELSE SubSeq(Numbered(size), off + 1, size)
  BY <1>1, <1>2, <1>4 DEF Data
<1>6. off \in Int /\ off <= size
  BY Bounds
<1>7. length = 0 \/ length >= size => w = <<>>
  BY <1>5, <1>6, Bounds
<1>8. length > 0 /\ length < size => w = SubSeq(Numbered(size), off + 1, size)
  BY <1>5, <1>6, Bounds
<1> QED
  BY <1>7, <1>8

\* Data returns the field of a message as long as dwLength says, and cannot
\* panic for a dwLength that fits an int, for every width of the integers.
THEOREM DataIsFieldTheorem == EncodingsSpec => []DataIsField
<1>1. EncodingsInv => DataIsField
  <2> SUFFICES ASSUME EncodingsInv, Evaluated("ccid") PROVE DataIsField
    BY DEF DataIsField
  <2>1. input.kind = "ccid"
    BY DEF Evaluated
  <2>2. input \in [kind: {"ccid"}, size: 0..MaxMessage, length: 0..(UintRange - 1)]
    BY <2>1 DEF EncodingsInv, Inputs
  <2> DEFINE size == input.size
             length == input.length
  <2>3. size \in 0..MaxMessage /\ length \in Nat
    BY <2>2, Bounds DEF UintRange
  <2>4. output = Data(Numbered(size), length)
    BY <2>1 DEF EncodingsInv, Evaluated, Result
  <2> SUFFICES /\ size = HeaderSize + length =>
                    output = SubSeq(Numbered(size), HeaderSize + 1, size)
               /\ length <= MaxInt => output # Panic
    BY DEF DataIsField
  <2> HIDE DEF size, length
  <2>5. CASE length > MaxInt
    BY <2>3, <2>5, Bounds
  <2>6. CASE length <= MaxInt
    <3>1. /\ length = 0 \/ length >= size => output = <<>>
          /\ length > 0 /\ length < size =>
               output = SubSeq(Numbered(size), (size - length) + 1, size)
      BY <2>3, <2>4, <2>6, DataValue, Bounds
    <3>2. ASSUME size = HeaderSize + length
          PROVE  output = SubSeq(Numbered(size), HeaderSize + 1, size)
      <4>1. size - length = HeaderSize /\ length < size
        BY <2>3, <3>2, Bounds
      <4>2. CASE length = 0
        <5>1. SubSeq(Numbered(size), HeaderSize + 1, size) = <<>>
          BY <2>3, <3>2, <4>2, Bounds, SubSeqEmpty
        <5> QED
          BY <3>1, <4>2, <5>1
      <4>3. CASE length > 0
        BY <3>1, <4>1, <4>3
      <4> QED
        BY <2>3, <4>2, <4>3
    <3>3. output # Panic
      <4>1. CASE length = 0 \/ length >= size
        <5>1. Len(Panic) = 1
          BY DEF Panic
        <5>2. output = <<>>
          BY <3>1, <4>1
        <5>3. Len(<<>>) = 0
          BY EmptySeq
        <5> QED
          BY <5>1, <5>2, <5>3
      <4>2. CASE length > 0 /\ length < size
        <5>1. /\ Numbered(size) \in Seq(Nat) /\ Len(Numbered(size)) = size
              /\ \A i \in 1..size : Numbered(size)[i] = i
          BY <2>3, NumberedSeq, Bounds
        <5> DEFINE off == size - length
        <5>2. off \in Nat /\ off + length = size /\ 1 \in 1..length /\ off + 1 \in 1..size
          BY <2>3, <4>2, Bounds
        <5>3. SubSeq(Numbered(size), off + 1, off + length)[1] = Numbered(size)[off + 1]
          BY <2>3, <5>1, <5>2, PartSeq
        <5>4. output[1] > 0
          BY <3>1, <4>2, <5>1, <5>2, <5>3, SMTT(30)
        <5>5. Panic[1] = -1
          BY DEF Panic
        <5> QED
          BY <5>4, <5>5
      <4> QED
        BY <2>3, <4>1, <4>2
    <3> QED
      BY <3>2, <3>3
  <2> QED
    BY <2>3, <2>5, <2>6, Bounds
<1> QED
  BY <1>1, EncodingsInvariant, PTL

(***************************************************************************)
(* gokey_vpcd.go                                                           *)
(***************************************************************************)

\* A frame begins with the number of octets that follow, when a length can
\* hold it.
LEMMA FrameValue ==
    ASSUME NEW res \in Seq(Nat), Len(res) < LengthModulus
    PROVE  /\ Len(frame(res)) = 1 + frame(res)[1]
           /\ Tail(frame(res)) = res
<1>1. Len(res) \in 0..(LengthModulus - 1) /\ LengthModulus \in Nat \ {0}
  BY LenProperties, Bounds
<1>2. Len(res) % LengthModulus = Len(res)
  BY <1>1
<1>3. frame(res) = <<Len(res)>> \o res
  BY <1>2 DEF frame
<1> DEFINE l == <<Len(res)>>
<1>4. l \in Seq(Nat) /\ Len(l) = 1 /\ l[1] = Len(res)
  BY <1>1
<1> HIDE DEF l
<1>5. /\ l \o res \in Seq(Nat) /\ Len(l \o res) = 1 + Len(res)
      /\ (l \o res)[1] = Len(res)
  <2>1. /\ l \o res \in Seq(Nat) /\ Len(l \o res) = Len(l) + Len(res)
        /\ \A i \in 1..Len(l) : (l \o res)[i] = l[i]
    BY <1>4, ConcatParts, Zenon
  <2> QED
    BY <1>1, <1>4, <2>1
<1>6. l \o res # <<>>
  BY <1>1, <1>5, EmptySeq
<1>7. Tail(l \o res) = SubSeq(l \o res, 2, Len(l \o res))
  BY <1>5, <1>6, TailIsSubSeq
<1>8. SubSeq(l \o res, Len(l) + 1, Len(l) + Len(res)) = res
  BY <1>4, SubSeqOfTwo
<1>9. Tail(l \o res) = res
  BY <1>1, <1>4, <1>5, <1>7, <1>8, SMTT(30)
<1> QED
  BY <1>3, <1>5, <1>9 DEF l

\* The daemon reads the response back from a frame, and gets none for the
\* requests that have no answer, for every length that fits a frame.
THEOREM FrameReadBackTheorem == EncodingsSpec => []FrameReadBack
<1>1. EncodingsInv => FrameReadBack
  <2> SUFFICES ASSUME EncodingsInv, Evaluated("vpcd"), input.n > 0 PROVE FrameReadBack
    BY DEF FrameReadBack
  <2>1. input.kind = "vpcd"
    BY DEF Evaluated
  <2>2. input \in [kind: {"vpcd"}, n: 0..2, length: 0..(LengthModulus + 1),
                   control: {"POWER_OFF", "POWER_ON", "RESET", "GET_ATR", "unknown"}]
    BY <2>1 DEF EncodingsInv, Inputs
  <2> DEFINE n == input.n
             control == input.control
             res == Numbered(input.length)
             silent == n = 1 /\ control \in {"POWER_OFF", "POWER_ON", "RESET"}
  <2>3. /\ n \in 1..2 /\ input.length \in Nat
        /\ control \in {"POWER_OFF", "POWER_ON", "RESET", "GET_ATR", "unknown"}
    BY <2>2, Bounds
  <2>4. output = handleVPCDRequest(n, control, res)
    BY <2>1 DEF EncodingsInv, Evaluated, Result
  <2>5. /\ silent => output = <<>>
        /\ n = 1 /\ control = "GET_ATR" => output = frame(res)
        /\ n = 1 /\ control = "unknown" => output = frame(<<>>)
        /\ n = 2 => output = frame(res)
    BY <2>3, <2>4 DEF handleVPCDRequest
  <2>6. res \in Seq(Nat) /\ Len(res) = input.length
    BY <2>3, NumberedSeq
  <2>7. <<>> \in Seq(Nat) /\ Len(<<>>) = 0 /\ 0 < LengthModulus
    BY EmptySeq, Bounds
  <2>8. input.length < LengthModulus =>
          Len(frame(res)) = 1 + frame(res)[1] /\ Tail(frame(res)) = res
    BY <2>6, FrameValue
  <2>9. Len(frame(<<>>)) = 1 + frame(<<>>)[1]
    BY <2>7, FrameValue
  <2> SUFFICES IF silent THEN output = <<>>
               ELSE input.length < LengthModulus =>
                       /\ Len(output) = 1 + output[1]
                       /\ control # "unknown" \/ n > 1 => Tail(output) = res
    BY DEF FrameReadBack
  <2> HIDE DEF n, control, res
  <2> QED
    BY <2>3, <2>5, <2>8, <2>9
<1> QED
  BY <1>1, EncodingsInvariant, PTL

(***************************************************************************)
(* tlv.go                                                                  *)
(***************************************************************************)

\* Two octets in network order.
LEMMA Uint16Value ==
    ASSUME NEW n \in Word
    PROVE  /\ uint16(n) \in Seq(Nat) /\ Len(uint16(n)) = 2
           /\ uint16(n)[1] \in 0..255 /\ uint16(n)[2] \in 0..255
           /\ 256 * uint16(n)[1] + uint16(n)[2] = n
<1> DEFINE q == n \div 256
           b == n % 256
<1>1. n \in Nat /\ n <= 65535
  BY SMT DEF Word
<1>2. b \in 0..255
  BY <1>1, SMT
<1>3. q \in Nat
  BY <1>1, SMT
<1>4. q <= 255
  BY <1>1, SMT
<1>5. n = 256 * q + b
  BY <1>1, SMT
<1>6. uint16(n) = <<q % 256, b>>
  BY SMT DEF uint16
<1> HIDE DEF q, b
<1>7. q % 256 = q
  BY <1>3, <1>4, SMT
<1>8. uint16(n) = <<q, b>>
  BY <1>6, <1>7
<1>9. uint16(n) \in Seq(Nat) /\ Len(uint16(n)) = 2
  BY <1>2, <1>3, <1>8, SMT
<1>10. uint16(n)[1] = q /\ uint16(n)[2] = b
  BY <1>8, SMT
<1>11. q \in 0..255
  BY <1>3, <1>4, SMT
<1>12. 256 * uint16(n)[1] + uint16(n)[2] = n
  BY <1>5, <1>10, SMT
<1> QED
  BY <1>2, <1>9, <1>10, <1>11, <1>12, Zenon

\* The octets of a tag.
LEMMA TagValue ==
    ASSUME NEW t \in Word
    PROVE  /\ tagOf(t) \in Seq(Nat)
           /\ t <= 255 => Len(tagOf(t)) = 1 /\ tagOf(t)[1] = t
           /\ t > 255 => /\ Len(tagOf(t)) = 2
                         /\ tagOf(t)[1] \in 0..255 /\ tagOf(t)[2] \in 0..255
                         /\ 256 * tagOf(t)[1] + tagOf(t)[2] = t
<1>1. t \in Nat
  BY SMT DEF Word
<1>2. CASE t <= 255
  BY <1>1, <1>2, SMT DEF tagOf
<1>3. CASE t > 255
  <2>1. tagOf(t) = uint16(t)
    BY <1>3, SMT DEF tagOf
  <2> QED
    BY <1>1, <1>3, <2>1, Uint16Value, SMT
<1> QED
  BY <1>1, <1>2, <1>3, SMT

\* The octets of a length.
LEMMA LengthValue ==
    ASSUME NEW l \in Word
    PROVE  /\ lengthOf(l) \in Seq(Nat)
           /\ l <= 127 => Len(lengthOf(l)) = 1 /\ lengthOf(l)[1] = l
           /\ l > 127 /\ l <= 255 =>
                Len(lengthOf(l)) = 2 /\ lengthOf(l)[1] = 129 /\ lengthOf(l)[2] = l
           /\ l > 255 =>
                /\ Len(lengthOf(l)) = 3 /\ lengthOf(l)[1] = 130
                /\ lengthOf(l)[2] \in 0..255 /\ lengthOf(l)[3] \in 0..255
                /\ 256 * lengthOf(l)[2] + lengthOf(l)[3] = l
<1>0. l \in Nat
  BY SMT DEF Word
<1>1. CASE l <= 127
  <2>1. lengthOf(l) = <<l>>
    BY <1>0, <1>1, SMT DEF lengthOf
  <2> QED
    BY <1>0, <1>1, <2>1, SMT
<1>2. CASE l > 127 /\ l <= 255
  <2>1. lengthOf(l) = <<129, l>>
    BY <1>0, <1>2, SMT DEF lengthOf
  <2> QED
    BY <1>0, <1>2, <2>1, SMT
<1>3. CASE l > 255
  <2> DEFINE a == <<130>>
             b == uint16(l)
  <2>1. lengthOf(l) = a \o b
    BY <1>0, <1>3, SMT DEF lengthOf
  <2>2. a \in Seq(Nat) /\ Len(a) = 1 /\ a[1] = 130
    BY SMT
  <2>3. /\ b \in Seq(Nat) /\ Len(b) = 2 /\ b[1] \in 0..255 /\ b[2] \in 0..255
        /\ 256 * b[1] + b[2] = l
    BY Uint16Value, SMT
  <2> HIDE DEF a, b
  <2>4. /\ a \o b \in Seq(Nat) /\ Len(a \o b) = Len(a) + Len(b)
        /\ \A i \in 1..Len(a) : (a \o b)[i] = a[i]
        /\ \A i \in 1..Len(b) : (a \o b)[Len(a) + i] = b[i]
    <3>1. a \in Seq(Nat) /\ b \in Seq(Nat)
      BY <2>2, <2>3
    <3> QED
      BY <3>1, ConcatParts, Zenon
  <2>5. /\ Len(a \o b) = 3 /\ (a \o b)[1] = 130
        /\ (a \o b)[2] = b[1] /\ (a \o b)[3] = b[2]
    <3>1. 1 \in 1..Len(a) /\ 1 \in 1..Len(b) /\ 2 \in 1..Len(b)
      BY <2>2, <2>3
    <3>2. /\ (a \o b)[1] = a[1] /\ (a \o b)[Len(a) + 1] = b[1]
          /\ (a \o b)[Len(a) + 2] = b[2]
      BY <2>4, <3>1
    <3> QED
      BY <2>2, <2>3, <2>4, <3>2
  <2> QED
    BY <1>0, <1>3, <2>1, <2>3, <2>4, <2>5, SMT
<1> QED
  BY <1>0, <1>1, <1>2, <1>3, SMT

\* The parts of an encoded object.
LEMMA TlvParts ==
    ASSUME NEW t \in Word, NEW val \in Seq(Nat), Len(val) \in Word, NEW rest \in Seq(Nat)
    PROVE  LET a == tagOf(t)
               b == lengthOf(Len(val))
               w == tlv(t, val) \o rest
           IN  /\ tlv(t, val) \in Seq(Nat)
               /\ Len(tlv(t, val)) = Len(a) + Len(b) + Len(val)
               /\ w \in Seq(Nat) /\ Len(w) = Len(a) + Len(b) + Len(val) + Len(rest)
               /\ SubSeq(w, 1, Len(a)) = a
               /\ \A j \in 1..Len(a) : w[j] = a[j]
               /\ \A j \in 1..Len(b) : w[Len(a) + j] = b[j]
               /\ SubSeq(w, Len(a) + Len(b) + 1, Len(a) + Len(b) + Len(val)) = val
<1> DEFINE a == tagOf(t)
           b == lengthOf(Len(val))
           w == tlv(t, val) \o rest
<1>2. /\ a \in Seq(Nat) /\ b \in Seq(Nat) /\ Len(a) \in Nat /\ Len(b) \in Nat
      /\ Len(val) \in Nat /\ Len(rest) \in Nat
  BY TagValue, LengthValue, LenProperties
<1>3. tlv(t, val) = a \o b \o val /\ w = tlv(t, val) \o rest
  BY DEF tlv
<1> HIDE DEF a, b, w
<1>4. /\ a \o b \in Seq(Nat) /\ Len(a \o b) = Len(a) + Len(b)
      /\ \A j \in 1..Len(a) : (a \o b)[j] = a[j]
      /\ \A j \in 1..Len(b) : (a \o b)[Len(a) + j] = b[j]
  BY <1>2, ConcatParts, Zenon
<1> DEFINE ab == a \o b
           c == ab \o val
<1> HIDE DEF ab
<1>5. /\ c \in Seq(Nat) /\ Len(c) = Len(ab) + Len(val)
      /\ \A j \in 1..Len(ab) : c[j] = ab[j]
      /\ \A j \in 1..Len(val) : c[Len(ab) + j] = val[j]
  BY <1>4, ConcatParts, Zenon DEF ab
<1> HIDE DEF c
<1>7. w = c \o rest /\ tlv(t, val) = c
  BY <1>3 DEF ab, c
<1>8. /\ w \in Seq(Nat) /\ Len(w) = Len(c) + Len(rest)
      /\ \A j \in 1..Len(c) : w[j] = c[j]
  <2>1. /\ c \o rest \in Seq(Nat) /\ Len(c \o rest) = Len(c) + Len(rest)
        /\ \A j \in 1..Len(c) : (c \o rest)[j] = c[j]
    BY <1>5, ConcatParts, Zenon
  <2> QED
    BY <1>7, <2>1
<1>9. Len(ab) = Len(a) + Len(b) /\ Len(ab) \in Nat /\ Len(c) = Len(a) + Len(b) + Len(val)
  BY <1>2, <1>4, <1>5 DEF ab
<1>10. ASSUME NEW j \in 1..Len(a) PROVE w[j] = a[j]
  <2>1. j \in 1..Len(ab) /\ j \in 1..Len(c)
    BY <1>2, <1>9
  <2> QED
    BY <1>4, <1>5, <1>8, <2>1 DEF ab
<1>11. ASSUME NEW j \in 1..Len(b) PROVE w[Len(a) + j] = b[j]
  <2>1. Len(a) + j \in 1..Len(ab) /\ Len(a) + j \in 1..Len(c)
    BY <1>2, <1>9
  <2>2. ab[Len(a) + j] = b[j]
    BY <1>4 DEF ab
  <2> QED
    BY <1>5, <1>8, <2>1, <2>2
<1>12. SubSeq(w, 1, Len(a)) = a
  <2>1. Len(a) <= Len(w)
    BY <1>2, <1>8, <1>9
  <2> QED
    BY <1>2, <1>8, <1>10, <2>1, PrefixEqual
<1>13. SubSeq(w, Len(a) + Len(b) + 1, Len(a) + Len(b) + Len(val)) = val
  <2>1. \A j \in 1..Len(val) : w[Len(ab) + j] = val[j]
    <3> SUFFICES ASSUME NEW j \in 1..Len(val) PROVE w[Len(ab) + j] = val[j]
      OBVIOUS
    <3>1. Len(ab) + j \in 1..Len(c)
      BY <1>2, <1>9
    <3> QED
      BY <1>5, <1>8, <3>1
  <2>2. Len(ab) + Len(val) <= Len(w)
    BY <1>2, <1>8, <1>9
  <2>3. SubSeq(w, Len(ab) + 1, Len(ab) + Len(val)) = val
    BY <1>8, <1>9, <2>1, <2>2, PartEqual
  <2> QED
    BY <1>9, <2>3
<1>14. Len(w) = Len(a) + Len(b) + Len(val) + Len(rest)
  BY <1>2, <1>8, <1>9
<1>15. /\ tlv(t, val) \in Seq(Nat) /\ Len(tlv(t, val)) = Len(a) + Len(b) + Len(val)
       /\ w \in Seq(Nat)
       /\ \A j \in 1..Len(a) : w[j] = a[j]
       /\ \A j \in 1..Len(b) : w[Len(a) + j] = b[j]
  BY <1>5, <1>7, <1>8, <1>9, <1>10, <1>11
<1> QED
  BY <1>12, <1>13, <1>14, <1>15, Zenon DEF a, b, w

\* The cases of v.
LEMMA VCases ==
    ASSUME NEW buf, NEW t, buf[Len(tagOf(t)) + 1] \in Nat
    PROVE  LET i == Len(tagOf(t))
               o == buf[Len(tagOf(t)) + 1]
           IN  /\ Len(buf) < i \/ SubSeq(buf, 1, i) # tagOf(t) => v(buf, t) = <<>>
               /\ ~(Len(buf) < i) /\ ~(SubSeq(buf, 1, i) # tagOf(t)) =>
                    /\ Len(buf) = i => v(buf, t) = Panic
                    /\ Len(buf) # i =>
                        /\ o <= 127 => v(buf, t) = Slice(buf, i + 1, o)
                        /\ o = 129 /\ Len(buf) = i + 1 => v(buf, t) = Panic
                        /\ o = 129 /\ Len(buf) # i + 1 =>
                             v(buf, t) = Slice(buf, i + 2, buf[i + 2])
                        /\ o = 130 /\ Len(buf) < i + 2 => v(buf, t) = <<>>
                        /\ o = 130 /\ ~(Len(buf) < i + 2) => v(buf, t) = Panic
                        /\ o > 127 /\ o # 129 /\ o # 130 => v(buf, t) = Slice(buf, i, 0)
<1> DEFINE i == Len(tagOf(t))
           o == buf[i + 1]
<1>1. v(buf, t) =
        IF Len(buf) < i \/ SubSeq(buf, 1, i) # tagOf(t) THEN <<>>
        ELSE IF Len(buf) = i THEN Panic
        ELSE CASE o <= 127 -> Slice(buf, i + 1, o)
               [] o = 129  -> IF Len(buf) = i + 1 THEN Panic
                              ELSE Slice(buf, i + 2, buf[i + 2])
               [] o = 130  -> IF Len(buf) < i + 2 THEN <<>> ELSE Panic
               [] OTHER    -> Slice(buf, i, 0)
  BY Zenon DEF v
<1>0. o \in Nat
  OBVIOUS
<1> DEFINE value == v(buf, t)
           short == Slice(buf, i + 1, o)
           long == Slice(buf, i + 2, buf[i + 2])
           none == Slice(buf, i, 0)
           unlike == SubSeq(buf, 1, i) # tagOf(t)
           n == Len(buf)
<1>2. value = IF n < i \/ unlike THEN <<>>
              ELSE IF n = i THEN Panic
              ELSE CASE o <= 127 -> short
                     [] o = 129  -> IF n = i + 1 THEN Panic ELSE long
                     [] o = 130  -> IF n < i + 2 THEN <<>> ELSE Panic
                     [] OTHER    -> none
  BY <1>1, Zenon
<1> HIDE DEF value, short, long, none, unlike, n, i, o
<1>3. /\ n < i \/ unlike => value = <<>>
      /\ ~(n < i) /\ ~unlike =>
          /\ n = i => value = Panic
          /\ n # i =>
              /\ o <= 127 => value = short
              /\ o = 129 /\ n = i + 1 => value = Panic
              /\ o = 129 /\ n # i + 1 => value = long
              /\ o = 130 /\ n < i + 2 => value = <<>>
              /\ o = 130 /\ ~(n < i + 2) => value = Panic
              /\ o > 127 /\ o # 129 /\ o # 130 => value = none
  BY <1>0, <1>2
<1> QED
  BY <1>3, Zenon DEF value, short, long, none, unlike, n, i, o

\* v reads what tlv writes, whatever follows it, when the value has at most 255
\* octets, and panics when it has more.
LEMMA VOfTlv ==
    ASSUME NEW t \in Word, NEW val \in Seq(Nat), Len(val) \in Word,
           NEW rest \in Seq(Nat),
           NEW w, w = tlv(t, val) \o rest
    PROVE  /\ Len(val) <= 255 => v(w, t) = val
           /\ Len(val) > 255 => v(w, t) = Panic
<1> DEFINE a == tagOf(t)
           b == lengthOf(Len(val))
           i == Len(a)
           k == Len(b)
           l == Len(val)
           o == w[i + 1]
<1>0. /\ a \in Seq(Nat) /\ b \in Seq(Nat)
      /\ i \in Nat /\ k \in Nat /\ l \in Nat /\ Len(rest) \in Nat
  BY TagValue, LengthValue, LenProperties
<1>2. /\ l <= 127 => k = 1 /\ b[1] = l
      /\ l > 127 /\ l <= 255 => k = 2 /\ b[1] = 129 /\ b[2] = l
      /\ l > 255 => k = 3 /\ b[1] = 130
  BY LengthValue, SMTT(30)
<1>3. /\ w \in Seq(Nat) /\ Len(w) = i + k + l + Len(rest)
      /\ SubSeq(w, 1, i) = a
      /\ \A j \in 1..k : w[i + j] = b[j]
      /\ SubSeq(w, i + k + 1, i + k + l) = val
  <2>1. LET x == tlv(t, val) \o rest
        IN  /\ x \in Seq(Nat) /\ Len(x) = i + k + l + Len(rest)
            /\ SubSeq(x, 1, i) = a
            /\ \A j \in 1..k : x[i + j] = b[j]
            /\ SubSeq(x, i + k + 1, i + k + l) = val
    BY TlvParts, ZenonT(60)
  <2> QED
    BY <2>1, Zenon
<1>4. o \in Nat =>
        (~(Len(w) < i) /\ ~(SubSeq(w, 1, i) # a) /\ Len(w) # i =>
            /\ o <= 127 => v(w, t) = Slice(w, i + 1, o)
            /\ o = 129 /\ Len(w) # i + 1 => v(w, t) = Slice(w, i + 2, w[i + 2])
            /\ o = 130 /\ ~(Len(w) < i + 2) => v(w, t) = Panic)
  BY VCases, ZenonT(60)
<1> HIDE DEF a, b, i, k, l, o
<1>8. Len(w) = i + k + l + Len(rest)
  BY <1>3
<1>9. SubSeq(w, 1, i) = a
  BY <1>3
<1>5. CASE l <= 127
  <2>1. k = 1 /\ b[1] = l /\ 1 \in 1..k
    BY <1>2, <1>5
  <2>2. w[i + 1] = l
    BY <1>3, <2>1, Zenon
  <2>3. ~(Len(w) < i) /\ Len(w) # i /\ ~(Len(w) < (i + 1) + l)
    BY <1>0, <1>8, <2>1
  <2>4. v(w, t) = Slice(w, i + 1, l)
    BY <1>0, <1>4, <1>5, <1>9, <2>2, <2>3 DEF o
  <2>5. Slice(w, i + 1, l) = val
    BY <1>3, <2>1, <2>3 DEF Slice
  <2> QED
    BY <1>0, <1>5, <2>4, <2>5 DEF l
<1>6. CASE l > 127 /\ l <= 255
  <2>1. k = 2 /\ b[1] = 129 /\ b[2] = l /\ 1 \in 1..k /\ 2 \in 1..k
    BY <1>2, <1>6
  <2>2. w[i + 1] = 129 /\ w[i + 2] = l
    BY <1>3, <2>1, ZenonT(60)
  <2>3. ~(Len(w) < i) /\ Len(w) # i /\ Len(w) # i + 1 /\ ~(Len(w) < (i + 2) + l)
    BY <1>0, <1>8, <2>1, SMTT(30)
  <2>4. v(w, t) = Slice(w, i + 2, l)
    <3>1. o \in Nat /\ o = 129
      BY <2>2 DEF o
    <3>2. v(w, t) = Slice(w, i + 2, w[i + 2])
      BY <1>4, <1>9, <2>3, <3>1, Zenon
    <3> QED
      BY <2>2, <3>2
  <2>5. Slice(w, i + 2, l) = val
    BY <1>3, <2>1, <2>3 DEF Slice
  <2> QED
    BY <1>0, <1>6, <2>4, <2>5 DEF l
<1>7. CASE l > 255
  <2>1. k = 3 /\ b[1] = 130 /\ 1 \in 1..k
    BY <1>2, <1>7
  <2>2. w[i + 1] = 130
    BY <1>3, <2>1, ZenonT(60)
  <2>3. ~(Len(w) < i) /\ Len(w) # i /\ ~(Len(w) < i + 2)
    BY <1>0, <1>8, <2>1
  <2>4. v(w, t) = Panic
    <3>1. o \in Nat /\ o = 130
      BY <2>2 DEF o
    <3> QED
      BY <1>4, <1>9, <2>3, <3>1, Zenon
  <2> QED
    BY <1>0, <1>7, <2>4 DEF l
<1> QED
  BY <1>0, <1>5, <1>6, <1>7

\* The same for an object that nothing follows.
LEMMA VOfTlvAlone ==
    ASSUME NEW t \in Word, NEW val \in Seq(Nat), Len(val) \in Word
    PROVE  /\ Len(val) <= 255 => v(tlv(t, val), t) = val
           /\ Len(val) > 255 => v(tlv(t, val), t) = Panic
<1>1. <<>> \in Seq(Nat)
  BY EmptySeq
<1>2. tlv(t, val) \in Seq(Nat)
  BY <1>1, TlvParts, Zenon
<1>3. tlv(t, val) = tlv(t, val) \o <<>>
  BY <1>2, ConcatEmptySeq
<1> QED
  BY <1>1, <1>3, VOfTlv, Zenon

\* The elements of what a sequence begins with.
LEMMA PrefixElements ==
    ASSUME NEW s \in Seq(Nat), NEW b, Len(b) \in Nat, Len(b) <= Len(s),
           SubSeq(s, 1, Len(b)) = b
    PROVE  \A i \in 1..Len(b) : s[i] = b[i]
<1> DEFINE n == Len(b)
<1>1. 0 \in Nat /\ 0 + n <= Len(s) /\ 0 + 1 = 1 /\ 0 + n = n
  OBVIOUS
<1> HIDE DEF n
<1>2. \A i \in 1..n : SubSeq(s, 0 + 1, 0 + n)[i] = s[0 + i]
  BY <1>1, PartSeq DEF n
<1>3. \A i \in 1..n : SubSeq(s, 1, n)[i] = s[i]
  <2> SUFFICES ASSUME NEW i \in 1..n PROVE SubSeq(s, 1, n)[i] = s[i]
    OBVIOUS
  <2>1. 0 + i = i
    OBVIOUS
  <2>2. SubSeq(s, 0 + 1, 0 + n)[i] = s[0 + i]
    BY <1>2
  <2> QED
    BY <1>1, <2>1, <2>2, Zenon
<1> QED
  BY <1>3 DEF n

\* A sequence begins with another one.
StartsWith(s, p) == Len(p) <= Len(s) /\ SubSeq(s, 1, Len(p)) = p

\* It does when the elements are the same.
LEMMA StartsElements ==
    ASSUME NEW s \in Seq(Nat), NEW p \in Seq(Nat)
    PROVE  StartsWith(s, p) <=> Len(p) <= Len(s) /\ \A j \in 1..Len(p) : s[j] = p[j]
<1>1. Len(p) \in Nat
  BY LenProperties
<1>2. ASSUME StartsWith(s, p) PROVE \A j \in 1..Len(p) : s[j] = p[j]
  BY <1>1, <1>2, PrefixElements, Zenon DEF StartsWith
<1>3. ASSUME Len(p) <= Len(s), \A j \in 1..Len(p) : s[j] = p[j] PROVE StartsWith(s, p)
  BY <1>3, PrefixEqual, Zenon DEF StartsWith
<1> QED
  BY <1>2, <1>3, Zenon DEF StartsWith

\* q stands in s after the first o elements.
StandsAt(s, o, q) == o + Len(q) <= Len(s) /\ \A j \in 1..Len(q) : s[o + j] = q[j]

\* A sequence begins with p and then q.
LEMMA StartsConcat ==
    ASSUME NEW s \in Seq(Nat), NEW p \in Seq(Nat), NEW q \in Seq(Nat)
    PROVE  StartsWith(s, p \o q) <=> StartsWith(s, p) /\ StandsAt(s, Len(p), q)
<1> DEFINE w == p \o q
<1>1. /\ w \in Seq(Nat) /\ Len(w) = Len(p) + Len(q)
      /\ Len(p) \in Nat /\ Len(q) \in Nat
      /\ \A j \in 1..Len(p) : w[j] = p[j]
      /\ \A j \in 1..Len(q) : w[Len(p) + j] = q[j]
  BY ConcatParts, Zenon
<1>2. Len(s) \in Nat
  BY LenProperties
<1> HIDE DEF w
<1>3. StartsWith(s, w) <=> Len(w) <= Len(s) /\ \A j \in 1..Len(w) : s[j] = w[j]
  BY <1>1, StartsElements, Zenon
<1>4. StartsWith(s, p) <=> Len(p) <= Len(s) /\ \A j \in 1..Len(p) : s[j] = p[j]
  BY StartsElements, Zenon
<1>5. ASSUME StartsWith(s, w)
      PROVE  /\ StartsWith(s, p)
             /\ Len(p) + Len(q) <= Len(s)
             /\ \A j \in 1..Len(q) : s[Len(p) + j] = q[j]
  <2>1. Len(w) <= Len(s) /\ \A j \in 1..Len(w) : s[j] = w[j]
    BY <1>3, <1>5
  <2>2. ASSUME NEW j \in 1..Len(p) PROVE s[j] = p[j]
    <3>1. j \in 1..Len(w)
      BY <1>1
    <3> QED
      BY <1>1, <2>1, <3>1
  <2>3. ASSUME NEW j \in 1..Len(q) PROVE s[Len(p) + j] = q[j]
    <3>1. Len(p) + j \in 1..Len(w)
      BY <1>1
    <3> QED
      BY <1>1, <2>1, <3>1
  <2>4. Len(p) <= Len(s) /\ Len(p) + Len(q) <= Len(s)
    BY <1>1, <1>2, <2>1
  <2> QED
    BY <1>4, <2>2, <2>3, <2>4
<1>6. ASSUME StartsWith(s, p), Len(p) + Len(q) <= Len(s),
             \A j \in 1..Len(q) : s[Len(p) + j] = q[j]
      PROVE  StartsWith(s, w)
  <2>1. ASSUME NEW j \in 1..Len(w) PROVE s[j] = w[j]
    <3>1. CASE j <= Len(p)
      <4>1. j \in 1..Len(p)
        BY <1>1, <3>1
      <4> QED
        BY <1>1, <1>4, <1>6, <4>1
    <3>2. CASE j > Len(p)
      <4> DEFINE k == j - Len(p)
      <4>1. k \in 1..Len(q) /\ j = Len(p) + k
        BY <1>1, <3>2
      <4> HIDE DEF k
      <4> QED
        BY <1>1, <1>6, <4>1
    <3> QED
      BY <1>1, <3>1, <3>2
  <2>2. Len(w) <= Len(s)
    BY <1>1, <1>6
  <2> QED
    BY <1>3, <2>1, <2>2
<1>7. StartsWith(s, w) <=> StartsWith(s, p) /\ StandsAt(s, Len(p), q)
  BY <1>5, <1>6, Zenon DEF StandsAt
<1> QED
  BY <1>7, Zenon DEF w

\* A sequence begins with three others.
LEMMA StartsThree ==
    ASSUME NEW s \in Seq(Nat), NEW a \in Seq(Nat), NEW l \in Seq(Nat), NEW val \in Seq(Nat)
    PROVE  StartsWith(s, a \o l \o val) <=>
              /\ StartsWith(s, a)
              /\ StandsAt(s, Len(a), l)
              /\ StandsAt(s, Len(a) + Len(l), val)
<1> DEFINE p == a \o l
<1>1. p \in Seq(Nat)
  BY ConcatParts, Zenon
<1>2. Len(p) = Len(a) + Len(l)
  BY ConcatParts, Zenon
<1>3. StartsWith(s, p) <=> StartsWith(s, a) /\ StandsAt(s, Len(a), l)
  BY StartsConcat, Zenon
<1>4. StartsWith(s, p \o val) <=> StartsWith(s, p) /\ StandsAt(s, Len(p), val)
  BY <1>1, StartsConcat, Zenon
<1> QED
  BY <1>2, <1>3, <1>4, Zenon

\* A value is encoded in buf after the tag and a length of one or two octets.
Encoded1(buf, i, val) ==
    Len(val) <= 127 /\ buf[i + 1] = Len(val) /\ StandsAt(buf, i + 1, val)

Encoded2(buf, i, val) ==
    buf[i + 1] = 129 /\ buf[i + 2] = Len(val) /\ StandsAt(buf, i + 2, val)

\* These are the ways in which a value can be encoded.
LEMMA EncodedIff ==
    ASSUME NEW t \in Word, NEW buf \in Seq(Nat), NEW val \in Seq(Nat)
    PROVE  EncodedAs(val, t, buf) <=>
             /\ StartsWith(buf, tagOf(t))
             /\ Encoded1(buf, Len(tagOf(t)), val) \/ Encoded2(buf, Len(tagOf(t)), val)
<1> DEFINE a == tagOf(t)
           i == Len(a)
           n == Len(val)
           l1 == <<n>>
           l2 == <<129, n>>
<1>1. a \in Seq(Nat) /\ i \in Nat /\ n \in Nat /\ Len(buf) \in Nat
  BY TagValue, LenProperties
<1>2. /\ l1 \in Seq(Nat) /\ Len(l1) = 1 /\ l1[1] = n
      /\ l2 \in Seq(Nat) /\ Len(l2) = 2 /\ l2[1] = 129 /\ l2[2] = n
  BY <1>1
<1>3. EncodedAs(val, t, buf) <=>
        \/ (l1[1] <= 127 \/ Len(l1) = 2) /\ StartsWith(buf, a \o l1 \o val)
        \/ (l2[1] <= 127 \/ Len(l2) = 2) /\ StartsWith(buf, a \o l2 \o val)
  BY Zenon DEF EncodedAs, StartsWith
<1> HIDE DEF a, l1, l2
<1>4. StartsWith(buf, a \o l1 \o val) <=>
        StartsWith(buf, a) /\ StandsAt(buf, i, l1) /\ StandsAt(buf, i + Len(l1), val)
  BY <1>1, <1>2, StartsThree, ZenonT(60)
<1>5. StartsWith(buf, a \o l2 \o val) <=>
        StartsWith(buf, a) /\ StandsAt(buf, i, l2) /\ StandsAt(buf, i + Len(l2), val)
  BY <1>1, <1>2, StartsThree, ZenonT(60)
<1> HIDE DEF i, n
<1>6. ASSUME StandsAt(buf, i + Len(l1), val)
      PROVE  StandsAt(buf, i, l1) <=> buf[i + 1] = n
  <2>1. i + 1 <= Len(buf)
    BY <1>1, <1>2, <1>6 DEF StandsAt, n
  <2>2. (\A j \in 1..Len(l1) : buf[i + j] = l1[j]) <=> buf[i + 1] = n
    BY <1>2
  <2> QED
    BY <1>2, <2>1, <2>2 DEF StandsAt
<1>7. ASSUME StandsAt(buf, i + Len(l2), val)
      PROVE  StandsAt(buf, i, l2) <=> buf[i + 1] = 129 /\ buf[i + 2] = n
  <2>1. i + 2 <= Len(buf)
    BY <1>1, <1>2, <1>7 DEF StandsAt, n
  <2>2. (\A j \in 1..Len(l2) : buf[i + j] = l2[j]) <=> buf[i + 1] = 129 /\ buf[i + 2] = n
    <3>1. 1..Len(l2) = {1, 2}
      BY <1>2
    <3> QED
      BY <1>2, <3>1
  <2>3. Len(l2) = 2
    BY <1>2
  <2> QED
    BY <2>1, <2>2, <2>3, Zenon DEF StandsAt
<1>8. (l1[1] <= 127 \/ Len(l1) = 2) <=> n <= 127
  BY <1>1, <1>2
<1>9. l2[1] <= 127 \/ Len(l2) = 2
  BY <1>2
<1>10. Len(l1) = 1 /\ Len(l2) = 2
  BY <1>2
<1>11. EncodedAs(val, t, buf) <=>
         /\ StartsWith(buf, a)
         /\ \/ n <= 127 /\ buf[i + 1] = n /\ StandsAt(buf, i + 1, val)
            \/ buf[i + 1] = 129 /\ buf[i + 2] = n /\ StandsAt(buf, i + 2, val)
  BY <1>3, <1>4, <1>5, <1>6, <1>7, <1>8, <1>9, <1>10, Zenon
<1> QED
  BY <1>11, Zenon DEF i, n, a, Encoded1, Encoded2

\* The part of a buffer after the first o octets stands there.
LEMMA PartStands ==
    ASSUME NEW buf \in Seq(Nat), NEW o \in Nat, NEW n \in Nat, o + n <= Len(buf)
    PROVE  /\ SubSeq(buf, o + 1, o + n) \in Seq(Nat)
           /\ Len(SubSeq(buf, o + 1, o + n)) = n
           /\ StandsAt(buf, o, SubSeq(buf, o + 1, o + n))
           /\ SubSeq(buf, o + 1, o + n) \in PartsOf(buf)
<1> DEFINE p == SubSeq(buf, o + 1, o + n)
<1>1. /\ p \in Seq(Nat) /\ Len(p) = n
      /\ \A j \in 1..n : p[j] = buf[o + j]
  BY PartSeq, Zenon
<1>2. o + 1 \in 1..Len(buf) + 1 /\ o + n \in 0..Len(buf)
  BY LenProperties
<1>3. p \in PartsOf(buf)
  <2>1. \A i \in 1..Len(buf) + 1, j \in 0..Len(buf) : SubSeq(buf, i, j) \in PartsOf(buf)
    BY DEF PartsOf
  <2> QED
    BY <1>2, <2>1, Zenon
<1> HIDE DEF p
<1>4. StandsAt(buf, o, p)
  BY <1>1 DEF StandsAt
<1>5. p \in Seq(Nat)
  BY <1>1
<1>6. Len(p) = n
  BY <1>1
<1> QED
  BY <1>3, <1>4, <1>5, <1>6, Zenon DEF p

\* The parts of a buffer of numbers are sequences of numbers.
LEMMA PartsAreSeqs ==
    ASSUME NEW buf \in Seq(Nat), NEW val \in PartsOf(buf)
    PROVE  val \in Seq(Nat)
<1>1. PICK i \in 1..Len(buf) + 1, j \in 0..Len(buf) : val = SubSeq(buf, i, j)
  BY DEF PartsOf
<1>2. i \in Int /\ j \in Int /\ \A k \in i..j : k \in 1..Len(buf)
  BY LenProperties
<1>3. \A k \in i..j : buf[k] \in Nat
  BY <1>2, ElementOfSeq
<1> QED
  BY <1>1, <1>2, <1>3, SubSeqProperties

\* A sequence that begins with another one of its length is that one.
LEMMA StartsWhole ==
    ASSUME NEW s \in Seq(Nat), NEW p \in Seq(Nat), Len(p) = Len(s)
    PROVE  StartsWith(s, p) <=> s = p
<1>1. StartsWith(s, p) <=> Len(p) <= Len(s) /\ \A j \in 1..Len(p) : s[j] = p[j]
  BY StartsElements, Zenon
<1>2. Len(s) \in Nat
  BY LenProperties
<1>3. ASSUME StartsWith(s, p) PROVE s = p
  BY <1>1, <1>3, SeqEqual
<1>4. ASSUME s = p PROVE StartsWith(s, p)
  BY <1>1, <1>2, <1>4
<1> QED
  BY <1>3, <1>4

\* The buffers on which v panics.
Unreadable(buf, i) ==
    \/ Len(buf) = i
    \/ Len(buf) = i + 1 /\ buf[i + 1] = 129
    \/ Len(buf) >= i + 2 /\ buf[i + 1] = 130

\* They are the ones that ValueFound excepts.
LEMMA PanicIff ==
    ASSUME NEW t \in Word, NEW buf \in Seq(Nat), Len(buf) <= MaxBuffer,
           \A j \in 1..Len(buf) : buf[j] \in TagOctets
    PROVE  (\/ buf \in {tagOf(t), tagOf(t) \o <<129>>}
            \/ \E b \in TagOctets, n \in 0..MaxBuffer :
                  n <= Len(buf) /\ SubSeq(buf, 1, n) = tagOf(t) \o <<130, b>>)
           <=> StartsWith(buf, tagOf(t)) /\ Unreadable(buf, Len(tagOf(t)))
<1> DEFINE a == tagOf(t)
           i == Len(a)
           n == Len(buf)
<1>1. a \in Seq(Nat) /\ i \in Nat /\ n \in Nat
  BY TagValue, LenProperties
<1>m. MaxBuffer \in Nat
  BY EncodingsAssumption, SMT
<1> HIDE DEF a
<1>2. <<129>> \in Seq(Nat) /\ Len(<<129>>) = 1 /\ <<129>>[1] = 129
  OBVIOUS
<1>3. ASSUME NEW b \in Nat
      PROVE  /\ <<130, b>> \in Seq(Nat) /\ Len(<<130, b>>) = 2
             /\ <<130, b>>[1] = 130 /\ <<130, b>>[2] = b
  OBVIOUS
<1>4. buf = a <=> StartsWith(buf, a) /\ n = i
  BY <1>1, StartsWhole
<1>5. buf = a \o <<129>> <=> StartsWith(buf, a) /\ n = i + 1 /\ buf[i + 1] = 129
  <2> DEFINE l == <<129>>
  <2>1. a \o l \in Seq(Nat) /\ Len(a \o l) = i + 1
    BY <1>1, <1>2, ConcatParts
  <2>2. StandsAt(buf, i, l) <=> i + 1 <= n /\ buf[i + 1] = 129
    BY <1>1, <1>2 DEF StandsAt
  <2> HIDE DEF l
  <2>3. StartsWith(buf, a \o l) <=> StartsWith(buf, a) /\ StandsAt(buf, i, l)
    BY <1>1, <1>2, StartsConcat, ZenonT(60) DEF l
  <2>4. ASSUME n = i + 1 PROVE StartsWith(buf, a \o l) <=> buf = a \o l
    BY <2>1, <2>4, StartsWhole
  <2>5. buf = a \o l => n = i + 1
    BY <2>1
  <2>6. buf = a \o l <=> StartsWith(buf, a) /\ n = i + 1 /\ buf[i + 1] = 129
    BY <1>1, <2>2, <2>3, <2>4, <2>5
  <2> QED
    BY <2>6 DEF l
<1>6. ASSUME NEW b \in Nat
      PROVE  /\ Len(a \o <<130, b>>) = i + 2 /\ a \o <<130, b>> \in Seq(Nat)
             /\ StartsWith(buf, a \o <<130, b>>) <=>
                  StartsWith(buf, a) /\ i + 2 <= n /\ buf[i + 1] = 130 /\ buf[i + 2] = b
  <2> DEFINE l == <<130, b>>
  <2>0. l \in Seq(Nat) /\ Len(l) = 2 /\ l[1] = 130 /\ l[2] = b
    BY <1>3
  <2> HIDE DEF l
  <2>1. a \o l \in Seq(Nat) /\ Len(a \o l) = i + 2
    <3>1. a \o l \in Seq(Nat) /\ Len(a \o l) = Len(a) + Len(l)
      BY <1>1, <2>0, ConcatParts, ZenonT(60)
    <3> QED
      BY <2>0, <3>1, Zenon
  <2>2. StandsAt(buf, i, l) <=> i + 2 <= n /\ buf[i + 1] = 130 /\ buf[i + 2] = b
    <3>1. 1..Len(l) = {1, 2}
      BY <2>0
    <3>2. (\A j \in 1..Len(l) : buf[i + j] = l[j]) <=> buf[i + 1] = 130 /\ buf[i + 2] = b
      BY <2>0, <3>1
    <3> QED
      BY <2>0, <3>2, Zenon DEF StandsAt
  <2>3. StartsWith(buf, a \o l) <=> StartsWith(buf, a) /\ StandsAt(buf, i, l)
    BY <1>1, <2>0, StartsConcat, SMT
  <2>4. /\ Len(a \o l) = i + 2 /\ a \o l \in Seq(Nat)
        /\ StartsWith(buf, a \o l) <=>
             StartsWith(buf, a) /\ i + 2 <= n /\ buf[i + 1] = 130 /\ buf[i + 2] = b
    BY <2>1, <2>2, <2>3, Zenon
  <2> QED
    BY <2>4, Zenon DEF l
<1> DEFINE panics == \E b \in TagOctets, m \in 0..MaxBuffer :
                        m <= Len(buf) /\ SubSeq(buf, 1, m) = a \o <<130, b>>
<1>7. ASSUME panics PROVE StartsWith(buf, a) /\ n >= i + 2 /\ buf[i + 1] = 130
  <2>1. PICK b \in TagOctets, m \in 0..MaxBuffer :
               m <= Len(buf) /\ SubSeq(buf, 1, m) = a \o <<130, b>>
    BY <1>7
  <2>2. b \in Nat /\ m \in Nat
    BY <1>m DEF TagOctets
  <2>3. 0 + 1 = 1 /\ 0 + m = m /\ 0 \in Nat
    BY <2>2
  <2>4. Len(SubSeq(buf, 0 + 1, 0 + m)) = m
    BY <2>1, <2>2, <2>3, PartSeq
  <2>5. m = Len(a \o <<130, b>>)
    BY <2>1, <2>3, <2>4
  <2>6. StartsWith(buf, a \o <<130, b>>)
    BY <2>1, <2>5 DEF StartsWith
  <2>7. StartsWith(buf, a) /\ i + 2 <= n /\ buf[i + 1] = 130
    BY <1>6, <2>2, <2>6, Zenon
  <2> QED
    BY <1>1, <2>7
<1>8. ASSUME StartsWith(buf, a), n >= i + 2, buf[i + 1] = 130 PROVE panics
  <2> DEFINE b == buf[i + 2]
             m == i + 2
  <2>1. b \in TagOctets /\ m \in 0..MaxBuffer /\ m <= n /\ i + 2 <= n
    BY <1>1, <1>m, <1>8
  <2>2. b \in Nat
    BY <2>1 DEF TagOctets
  <2>3. StartsWith(buf, a \o <<130, b>>)
    BY <1>6, <1>8, <2>1, <2>2, SMT
  <2>4. SubSeq(buf, 1, m) = a \o <<130, b>>
    BY <1>6, <2>2, <2>3, Zenon DEF StartsWith
  <2> QED
    BY <2>1, <2>4
<1> HIDE DEF panics, i, n
<1>9. (buf \in {a, a \o <<129>>} \/ panics) <=> StartsWith(buf, a) /\ Unreadable(buf, i)
  <2>1. Unreadable(buf, i) <=> \/ n = i
                               \/ n = i + 1 /\ buf[i + 1] = 129
                               \/ n >= i + 2 /\ buf[i + 1] = 130
    BY Zenon DEF Unreadable, n
  <2> QED
    BY <1>4, <1>5, <1>7, <1>8, <2>1, Zenon
<1> QED
  BY <1>9, Zenon DEF a, i, n, panics

\* v returns the value that stands in the buffer, and nothing if there is none.
LEMMA VFinds ==
    ASSUME NEW t \in Word, NEW buf \in Seq(Nat)
    PROVE  IF StartsWith(buf, tagOf(t)) /\ Unreadable(buf, Len(tagOf(t)))
           THEN v(buf, t) = Panic
           ELSE \/ v(buf, t) \in FoundIn(buf, t)
                \/ FoundIn(buf, t) = {} /\ v(buf, t) = <<>>
<1> DEFINE a == tagOf(t)
           i == Len(a)
           n == Len(buf)
           o == buf[i + 1]
<1>1. a \in Seq(Nat) /\ i \in Nat /\ n \in Nat
  BY TagValue, LenProperties
<1>2. \A j \in 1..n : buf[j] \in Nat
  BY ElementOfSeq
<1>3. ASSUME NEW val \in PartsOf(buf), EncodedAs(val, t, buf)
      PROVE  /\ StartsWith(buf, a) /\ val \in Seq(Nat)
             /\ Encoded1(buf, i, val) \/ Encoded2(buf, i, val)
  <2>1. val \in Seq(Nat)
    BY PartsAreSeqs
  <2> QED
    BY <1>3, <2>1, EncodedIff, Zenon
<1>4. ASSUME NEW val \in PartsOf(buf), StartsWith(buf, a),
             Encoded1(buf, i, val) \/ Encoded2(buf, i, val)
      PROVE  val \in FoundIn(buf, t)
  <2>1. val \in Seq(Nat)
    BY PartsAreSeqs
  <2>2. EncodedAs(val, t, buf)
    BY <1>4, <2>1, EncodedIff, Zenon
  <2> QED
    BY <2>2 DEF FoundIn
<1>5. CASE ~StartsWith(buf, a)
  <2>1. n < i \/ SubSeq(buf, 1, i) # a
    BY <1>1, <1>5 DEF StartsWith
  <2>2. v(buf, t) = <<>>
    BY <2>1, Zenon DEF v
  <2>3. FoundIn(buf, t) = {}
    BY <1>3, <1>5 DEF FoundIn
  <2> QED
    BY <1>5, <2>2, <2>3, Zenon
<1>6. CASE StartsWith(buf, a)
  <2>1. ~(n < i) /\ ~(SubSeq(buf, 1, i) # a)
    BY <1>1, <1>6 DEF StartsWith
  <2>2. CASE n = i
    <3>1. v(buf, t) = Panic
      BY <2>1, <2>2, Zenon DEF v
    <3> QED
      BY <1>6, <2>2, <3>1, Zenon DEF Unreadable
  <2>3. CASE n # i
    <3>0. n >= i + 1 /\ o \in Nat
      BY <1>1, <1>2, <2>1, <2>3
    <3>1. o <= 127 => v(buf, t) = Slice(buf, i + 1, o)
      BY <2>1, <2>3, <3>0, VCases, Zenon
    <3>2. o = 129 /\ n = i + 1 => v(buf, t) = Panic
      BY <2>1, <2>3, <3>0, VCases, Zenon
    <3>3. o = 129 /\ n # i + 1 => v(buf, t) = Slice(buf, i + 2, buf[i + 2])
      BY <2>1, <2>3, <3>0, VCases, SMTT(30)
    <3>4. o = 130 /\ n < i + 2 => v(buf, t) = <<>>
      BY <2>1, <2>3, <3>0, VCases, Zenon
    <3>5. o = 130 /\ ~(n < i + 2) => v(buf, t) = Panic
      BY <2>1, <2>3, <3>0, VCases, Zenon
    <3>6. o > 127 /\ o # 129 /\ o # 130 => v(buf, t) = Slice(buf, i, 0)
      BY <2>1, <2>3, <3>0, VCases, Zenon
    <3> HIDE DEF a, i, n
    <3>7. Unreadable(buf, i) <=> \/ n = i + 1 /\ o = 129
                                 \/ n >= i + 2 /\ o = 130
      BY <2>3, Zenon DEF Unreadable, n
    <3> HIDE DEF o
    <3>8. CASE o <= 127
      <4> DEFINE p == SubSeq(buf, (i + 1) + 1, (i + 1) + o)
      <4>1. ~Unreadable(buf, i)
        BY <3>0, <3>7, <3>8
      <4>2. CASE n < (i + 1) + o
        <5>1. v(buf, t) = <<>>
          BY <3>1, <3>8, <4>2 DEF Slice, n
        <5>2. ASSUME NEW val \in FoundIn(buf, t) PROVE FALSE
          <6>1. val \in Seq(Nat) /\ (Encoded1(buf, i, val) \/ Encoded2(buf, i, val))
            BY <1>3 DEF FoundIn
          <6>2. o # 129
            BY <3>0, <3>8
          <6>3. Encoded1(buf, i, val)
            BY <6>1, <6>2, Zenon DEF Encoded2, o
          <6>4. o = Len(val) /\ (i + 1) + Len(val) <= n
            BY <6>3, Zenon DEF Encoded1, StandsAt, o, n
          <6> QED
            BY <1>1, <3>0, <4>2, <6>4
        <5> QED
          BY <4>1, <5>1, <5>2 DEF a, i
      <4>3. CASE ~(n < (i + 1) + o)
        <5>1. v(buf, t) = p
          BY <3>1, <3>8, <4>3, Zenon DEF Slice, n
        <5>2. i + 1 \in Nat /\ (i + 1) + o <= n
          BY <1>1, <3>0, <4>3
        <5>3. Len(p) = o /\ StandsAt(buf, i + 1, p) /\ p \in PartsOf(buf)
          BY <3>0, <5>2, PartStands, Zenon DEF n
        <5> HIDE DEF p
        <5>4. Encoded1(buf, i, p)
          BY <3>8, <5>3, Zenon DEF Encoded1, o
        <5>5. p \in FoundIn(buf, t)
          BY <1>4, <1>6, <5>3, <5>4, Zenon
        <5> QED
          BY <4>1, <5>1, <5>5, Zenon DEF i, a
      <4> QED
        BY <4>2, <4>3, Zenon
    <3>9. CASE o = 129
      <4> DEFINE l == buf[i + 2]
                 p == SubSeq(buf, (i + 2) + 1, (i + 2) + l)
      <4>1. CASE n = i + 1
        BY <1>6, <3>2, <3>7, <3>9, <4>1, Zenon DEF i, a
      <4>2. CASE n # i + 1
        <5>0. n >= i + 2 /\ l \in Nat /\ i + 2 \in Nat
          BY <1>1, <1>2, <3>0, <4>2
        <5>1. ~Unreadable(buf, i)
          BY <3>0, <3>7, <3>9, <4>2
        <5>2. CASE n < (i + 2) + l
          <6>1. v(buf, t) = <<>>
            BY <3>3, <3>9, <4>2, <5>2, Zenon DEF Slice, n
          <6>2. ASSUME NEW val \in FoundIn(buf, t) PROVE FALSE
            <7>1. val \in Seq(Nat) /\ (Encoded1(buf, i, val) \/ Encoded2(buf, i, val))
              BY <1>3 DEF FoundIn
            <7>2. Encoded2(buf, i, val)
              <8>0. Encoded1(buf, i, val) => o = Len(val) /\ Len(val) <= 127
                BY Zenon DEF Encoded1, o
              <8>1. Len(val) \in Nat
                BY <7>1, LenProperties, Zenon
              <8>2. ASSUME NEW n1 \in Nat, 129 = n1, n1 <= 127 PROVE FALSE
                BY <8>2
              <8>3. ~Encoded1(buf, i, val)
                BY <3>9, <8>0, <8>1, <8>2, Zenon
              <8> QED
                BY <7>1, <8>3, Zenon
            <7>3. l = Len(val) /\ (i + 2) + Len(val) <= n
              BY <7>2, Zenon DEF Encoded2, StandsAt, n
            <7> QED
              BY <1>1, <5>0, <5>2, <7>3
          <6> QED
            BY <5>1, <6>1, <6>2 DEF a, i
        <5>3. CASE ~(n < (i + 2) + l)
          <6>1. v(buf, t) = p
            BY <3>3, <3>9, <4>2, <5>3, Zenon DEF Slice, n
          <6>2. (i + 2) + l <= n
            BY <1>1, <5>0, <5>3
          <6>3. Len(p) = l /\ StandsAt(buf, i + 2, p) /\ p \in PartsOf(buf)
            BY <5>0, <6>2, PartStands, Zenon DEF n
          <6> HIDE DEF p
          <6>4. Encoded2(buf, i, p)
            BY <3>9, <6>3, Zenon DEF Encoded2, o
          <6>5. p \in FoundIn(buf, t)
            BY <1>4, <1>6, <6>3, <6>4, Zenon
          <6> QED
            BY <5>1, <6>1, <6>5, Zenon DEF i, a
        <5> QED
          BY <5>2, <5>3, Zenon
      <4> QED
        BY <4>1, <4>2, Zenon
    <3>10. ASSUME o > 127, o # 129, NEW val \in FoundIn(buf, t) PROVE FALSE
      <4>1. val \in Seq(Nat) /\ (Encoded1(buf, i, val) \/ Encoded2(buf, i, val))
        BY <1>3 DEF FoundIn
      <4>2. ~Encoded2(buf, i, val)
        BY <3>10, Zenon DEF Encoded2, o
      <4>3. ~Encoded1(buf, i, val)
        <5>1. Encoded1(buf, i, val) => o = Len(val) /\ Len(val) <= 127
          BY Zenon DEF Encoded1, o
        <5> QED
          BY <3>0, <3>10, <5>1
      <4> QED
        BY <4>1, <4>2, <4>3, Zenon
    <3>11. o > 127 /\ o # 129 => FoundIn(buf, t) = {}
      BY <3>10
    <3>12. CASE o = 130 /\ n < i + 2
      <4>1. ~Unreadable(buf, i) /\ FoundIn(buf, t) = {}
        BY <1>1, <3>7, <3>11, <3>12
      <4> QED
        BY <3>4, <3>12, <4>1, Zenon DEF i, a
    <3>13. CASE o = 130 /\ ~(n < i + 2)
      <4>1. Unreadable(buf, i)
        BY <1>1, <3>7, <3>13
      <4> QED
        BY <1>6, <3>5, <3>13, <4>1, Zenon DEF i, a
    <3>14. CASE o > 127 /\ o # 129 /\ o # 130
      <4>1. ~Unreadable(buf, i) /\ FoundIn(buf, t) = {}
        BY <3>7, <3>11, <3>14, Zenon
      <4>2. v(buf, t) = SubSeq(buf, i + 1, i + 0)
        <5>1. ~(n < i + 0)
          BY <1>1, <3>0
        <5> QED
          BY <3>6, <3>14, <5>1, Zenon DEF Slice, n
      <4>3. i + 0 <= n
        BY <1>1, <3>0
      <4>4. SubSeq(buf, i + 1, i + 0) \in Seq(Nat) /\ Len(SubSeq(buf, i + 1, i + 0)) = 0
        BY <1>1, <4>3, PartSeq, ZenonT(30) DEF n
      <4>5. v(buf, t) = <<>>
        BY <4>2, <4>4, EmptySeq
      <4> QED
        BY <4>1, <4>5, Zenon DEF i, a
    <3> QED
      BY <3>0, <3>8, <3>9, <3>12, <3>13, <3>14
  <2> QED
    BY <2>2, <2>3, Zenon
<1> QED
  BY <1>5, <1>6, Zenon

\* v finds what tlv wrote, and what stands in any buffer, for every length and
\* every buffer; what it cannot read it panics on, and on nothing else.
THEOREM ValuesFoundTheorem == EncodingsSpec => []ValuesFound
<1>1. ASSUME EncodingsInv, Evaluated("tlv") PROVE TLVInverse
  <2>1. input.kind = "tlv"
    BY <1>1 DEF Evaluated
  <2>2. input \in [kind: {"tlv"}, tag: Tags, length: Lengths]
    BY <1>1, <2>1 DEF EncodingsInv, Inputs
  <2>3. output = v(tlv(input.tag, Fill(input.length, 7)), input.tag)
    BY <1>1, <2>1 DEF EncodingsInv, Evaluated, Result
  <2>4. input.tag \in Tags /\ input.length \in Lengths
    BY <2>2
  <2>5. input.tag \in Word
    BY <2>4, TagsAreWords, Zenon
  <2>6. input.length \in Word /\ input.length \in Nat
    BY <2>4, LengthsAreWords, Zenon
  <2>7. /\ Fill(input.length, 7) \in Seq(Nat)
        /\ Len(Fill(input.length, 7)) = input.length
    BY <2>6, FillSeq
  <2>8. /\ input.length <= 255 => output = Fill(input.length, 7)
        /\ input.length > 255 => output = Panic
    BY <2>3, <2>5, <2>6, <2>7, VOfTlvAlone, ZenonT(30)
  <2> QED
    BY <2>6, <2>8 DEF TLVInverse
<1>2. ASSUME EncodingsInv, Evaluated("v") PROVE ValueFound
  <2> DEFINE buf == input.buf
             t == input.tag
  <2>1. input.kind = "v"
    BY <1>2 DEF Evaluated
  <2>2. input \in [kind: {"v"}, tag: Tags,
                   buf: UNION {[1..n -> TagOctets] : n \in 0..MaxBuffer}]
    BY <1>2, <2>1 DEF EncodingsInv, Inputs
  <2>3. output = v(buf, t)
    BY <1>2, <2>1 DEF EncodingsInv, Evaluated, Result
  <2>4. t \in Tags /\ buf \in UNION {[1..n -> TagOctets] : n \in 0..MaxBuffer}
    BY <2>2
  <2>5. t \in Word
    BY <2>4, TagsAreWords, Zenon
  <2> HIDE DEF buf, t
  <2>6. /\ buf \in Seq(Nat) /\ Len(buf) <= MaxBuffer
        /\ \A j \in 1..Len(buf) : buf[j] \in TagOctets
    <3>1. PICK n \in 0..MaxBuffer : buf \in [1..n -> TagOctets]
      BY <2>4
    <3>2. n \in Nat /\ n <= MaxBuffer
      BY <3>1, EncodingsAssumption, SMT
    <3>3. \A x \in TagOctets : x \in Nat
      BY DEF TagOctets
    <3>4. buf \in Seq(Nat) /\ Len(buf) = n
      BY <3>1, <3>2, <3>3
    <3> QED
      BY <3>1, <3>2, <3>4
  <2> DEFINE panics == \/ buf \in {tagOf(t), tagOf(t) \o <<129>>}
                       \/ \E b \in TagOctets, n \in 0..MaxBuffer :
                             /\ n <= Len(buf)
                             /\ SubSeq(buf, 1, n) = tagOf(t) \o <<130, b>>
  <2>7. panics <=> StartsWith(buf, tagOf(t)) /\ Unreadable(buf, Len(tagOf(t)))
    BY <2>5, <2>6, PanicIff, Zenon
  <2> HIDE DEF panics
  <2>8. IF panics THEN output = Panic
        ELSE output \in FoundIn(buf, t) \/ (FoundIn(buf, t) = {} /\ output = <<>>)
    BY <2>3, <2>5, <2>6, <2>7, VFinds, Zenon
  <2> QED
    BY <2>8, Zenon DEF ValueFound, panics, buf, t
<1>3. EncodingsInv => ValuesFound
  <2>1. ~Evaluated("tlv") => TLVInverse
    BY DEF TLVInverse
  <2>2. ~Evaluated("v") => ValueFound
    BY DEF ValueFound
  <2> QED
    BY <1>1, <1>2, <2>1, <2>2, Zenon DEF ValuesFound
<1> QED
  BY <1>3, EncodingsInvariant, PTL

(***************************************************************************)
(* The reader of the host                                                  *)
(***************************************************************************)

\* An octet of a buffer, or beyond it, is a number.
LEMMA OctetNat ==
    ASSUME NEW buf \in Seq(Nat), NEW i \in Nat
    PROVE  OctetAt(buf, i) \in Nat
BY ElementOfSeq DEF OctetAt

\* A header has two octets or more, and the length in it is a number.
LEMMA HeaderNat ==
    ASSUME NEW buf \in Seq(Nat), NEW i \in Nat
    PROVE  EndOf(buf, i) \in Nat /\ EndOf(buf, i) > i
<1> DEFINE t == TagLength(buf, i)
           l == OctetAt(buf, i + t)
           more == IF l = 129 THEN 2 ELSE IF l = 130 THEN 3 ELSE 1
           length == IF l = 129 THEN OctetAt(buf, i + t + 1)
                     ELSE IF l = 130
                          THEN 256 * OctetAt(buf, i + t + 1) + OctetAt(buf, i + t + 2)
                     ELSE l
<1>1. Header(buf, i).start = i + t + more
  BY Zenon DEF Header
<1>2. Header(buf, i).length = length
  BY Zenon DEF Header
<1>3. t \in Nat
  BY DEF TagLength
<1> HIDE DEF t
<1>4. i + t \in Nat /\ i + t + 1 \in Nat /\ i + t + 2 \in Nat
  BY <1>3
<1>5. l \in Nat /\ OctetAt(buf, i + t + 1) \in Nat /\ OctetAt(buf, i + t + 2) \in Nat
  BY <1>4, OctetNat, Zenon
<1> HIDE DEF l
<1>6. length \in Nat
  BY <1>5
<1>7. more \in Nat /\ more > 0
  OBVIOUS
<1> HIDE DEF length, more
<1>8. EndOf(buf, i) = i + t + more + length
  BY <1>1, <1>2, Zenon DEF EndOf
<1> QED
  BY <1>3, <1>6, <1>7, <1>8

\* What a host reads at i, if it reads f[k] at each later k.
ReadAt(buf, f, i) ==
    IF i = Len(buf) + 1 THEN <<>>
    ELSE IF ReadableAt(buf, i) THEN <<ObjectAt(buf, i)>> \o f[EndOf(buf, i)]
    ELSE <<Garbage>>

\* There is a function that satisfies the equation of the reader: one for the
\* octets from some place on can be extended by one octet.
LEMMA ReaderExists ==
    ASSUME NEW buf \in Seq(Nat)
    PROVE  \E f : f = [i \in 1..(Len(buf) + 1) |-> ReadAt(buf, f, i)]
<1> DEFINE N == Len(buf)
           D(m) == ((N + 1) - m)..(N + 1)
           S == {m \in 0..N : \E f : f = [i \in D(m) |-> ReadAt(buf, f, i)]}
<1>1. N \in Nat
  BY LenProperties
<1> HIDE DEF N
<1>2. 0 \in S
  <2> DEFINE g == [i \in D(0) |-> <<>>]
  <2>1. ASSUME NEW i \in D(0) PROVE i = N + 1
    BY <1>1
  <2>2. g = [i \in D(0) |-> ReadAt(buf, g, i)]
    BY <2>1 DEF ReadAt, N
  <2> HIDE DEF g
  <2>3. 0 \in 0..N
    BY <1>1
  <2> QED
    BY <2>2, <2>3
<1>3. ASSUME NEW m \in 0..(N - 1), m \in S PROVE m + 1 \in S
  <2>1. PICK f : f = [i \in D(m) |-> ReadAt(buf, f, i)]
    BY <1>3
  <2> DEFINE x == (N + 1) - (m + 1)
             g == [i \in D(m + 1) |-> IF i = x THEN ReadAt(buf, f, x) ELSE f[i]]
  <2>2. ASSUME NEW i \in D(m + 1), i # x PROVE i \in D(m)
    BY <1>1, <2>2
  <2>3. ASSUME NEW i \in D(m + 1), i # N + 1, ReadableAt(buf, i)
        PROVE  /\ EndOf(buf, i) \in D(m)
               /\ g[EndOf(buf, i)] = f[EndOf(buf, i)]
    <3>1. i \in Nat /\ i >= x
      BY <1>1
    <3>2. EndOf(buf, i) \in Nat /\ EndOf(buf, i) > i
      BY <3>1, HeaderNat, Zenon
    <3>3. EndOf(buf, i) <= N + 1
      BY <2>3, Zenon DEF ReadableAt, N
    <3>4. EndOf(buf, i) \in D(m) /\ EndOf(buf, i) \in D(m + 1) /\ EndOf(buf, i) # x
      BY <1>1, <3>1, <3>2, <3>3
    <3> QED
      BY <3>4
  <2>5. ASSUME NEW i \in D(m + 1) PROVE g[i] = ReadAt(buf, f, i)
    BY <2>1, <2>2
  <2>4. ASSUME NEW i \in D(m + 1) PROVE ReadAt(buf, g, i) = ReadAt(buf, f, i)
    <3> HIDE DEF g
    <3>1. i # Len(buf) + 1 /\ ReadableAt(buf, i) => g[EndOf(buf, i)] = f[EndOf(buf, i)]
      BY <2>3, Zenon DEF N
    <3> QED
      BY <3>1, Zenon DEF ReadAt
  <2> HIDE DEF x
  <2>6. g = [i \in D(m + 1) |-> ReadAt(buf, g, i)]
    <3>1. ASSUME NEW i \in D(m + 1) PROVE g[i] = ReadAt(buf, g, i)
      BY <2>4, <2>5, Zenon
    <3>2. g = [i \in D(m + 1) |-> g[i]]
      OBVIOUS
    <3> HIDE DEF g
    <3> QED
      BY <3>1, <3>2
  <2>7. m + 1 \in 0..N
    BY <1>1
  <2> HIDE DEF g
  <2> QED
    BY <2>6, <2>7
<1>4. 0 \in S /\ \A m \in 0..(N - 1) : m \in S => m + 1 \in S
  BY <1>2, <1>3, Zenon
<1> HIDE DEF S
<1>5. \A m \in 0..N : m \in S
  BY <1>1, <1>4, SetInduction, Zenon
<1>6. N \in S
  BY <1>1, <1>5
<1>7. PICK f : f = [i \in D(N) |-> ReadAt(buf, f, i)]
  BY <1>6 DEF S
<1>8. D(N) = 1..(N + 1)
  BY <1>1
<1> QED
  BY <1>7, <1>8, Zenon DEF N

\* So the reader satisfies it.
LEMMA ReaderDef ==
    ASSUME NEW buf \in Seq(Nat), NEW i \in 1..(Len(buf) + 1)
    PROVE  ObjectsFrom(buf)[i] = ReadAt(buf, ObjectsFrom(buf), i)
<1> DEFINE f == ObjectsFrom(buf)
<1>1. f = CHOOSE g : g = [k \in 1..(Len(buf) + 1) |-> ReadAt(buf, g, k)]
  BY DEF ObjectsFrom, ReadAt
<1> HIDE DEF f
<1>2. f = [k \in 1..(Len(buf) + 1) |-> ReadAt(buf, f, k)]
  BY <1>1, ReaderExists, Zenon
<1>3. f[i] = ReadAt(buf, f, i)
  BY <1>2
<1> QED
  BY <1>3 DEF f

\* The tags that a host takes for what they are.
ReadableTag(t) == IF t <= 255 THEN t % 32 # 31 ELSE tagOf(t)[1] % 32 = 31

\* What stands somewhere is made of what stands there part by part.
LEMMA StandsConcat ==
    ASSUME NEW s, NEW o \in Nat, NEW p \in Seq(Nat), NEW q \in Seq(Nat), Len(s) \in Nat,
           StandsAt(s, o, p \o q)
    PROVE  StandsAt(s, o, p) /\ StandsAt(s, o + Len(p), q)
<1> DEFINE w == p \o q
<1>1. /\ Len(w) = Len(p) + Len(q)
      /\ Len(p) \in Nat /\ Len(q) \in Nat
      /\ \A j \in 1..Len(p) : w[j] = p[j]
      /\ \A j \in 1..Len(q) : w[Len(p) + j] = q[j]
  BY ConcatParts, Zenon
<1>2. o + Len(w) <= Len(s) /\ \A j \in 1..Len(w) : s[o + j] = w[j]
  BY Zenon DEF StandsAt
<1> HIDE DEF w
<1>3. ASSUME NEW j \in 1..Len(p) PROVE s[o + j] = p[j]
  <2>1. j \in 1..Len(w)
    BY <1>1
  <2> QED
    BY <1>1, <1>2, <2>1
<1>4. ASSUME NEW j \in 1..Len(q) PROVE s[(o + Len(p)) + j] = q[j]
  <2>1. Len(p) + j \in 1..Len(w) /\ (o + Len(p)) + j = o + (Len(p) + j)
    BY <1>1
  <2> QED
    BY <1>1, <1>2, <2>1
<1>5. o + Len(p) <= Len(s) /\ (o + Len(p)) + Len(q) <= Len(s)
  BY <1>1, <1>2
<1> QED
  BY <1>3, <1>4, <1>5, Zenon DEF StandsAt

\* The parts of an object stand after each other.
LEMMA TlvStands ==
    ASSUME NEW s, NEW o \in Nat, Len(s) \in Nat,
           NEW t \in Word, NEW val \in Seq(Nat), Len(val) \in Word,
           StandsAt(s, o, tlv(t, val))
    PROVE  /\ StandsAt(s, o, tagOf(t))
           /\ StandsAt(s, o + Len(tagOf(t)), lengthOf(Len(val)))
           /\ StandsAt(s, o + Len(tagOf(t)) + Len(lengthOf(Len(val))), val)
<1> DEFINE a == tagOf(t)
           b == lengthOf(Len(val))
           ab == a \o b
<1>1. a \in Seq(Nat) /\ b \in Seq(Nat)
  BY TagValue, LengthValue
<1>2. StandsAt(s, o, ab \o val)
  BY DEF tlv
<1> HIDE DEF a, b
<1>3. ab \in Seq(Nat) /\ Len(ab) = Len(a) + Len(b) /\ Len(a) \in Nat /\ Len(b) \in Nat
  BY <1>1, ConcatParts, Zenon
<1>4. StandsAt(s, o, a \o b) /\ StandsAt(s, o + Len(ab), val)
  BY <1>2, <1>3, StandsConcat, Zenon
<1>5. StandsAt(s, o, a) /\ StandsAt(s, o + Len(a), b)
  BY <1>1, <1>4, StandsConcat, Zenon
<1>6. o + Len(ab) = o + Len(a) + Len(b)
  BY <1>3
<1>7. StandsAt(s, o + Len(a) + Len(b), val)
  BY <1>4, <1>6, Zenon
<1> QED
  BY <1>5, <1>7, Zenon DEF a, b

\* The octets that a host looks at where something stands.
LEMMA OctetStands ==
    ASSUME NEW s, Len(s) \in Nat, NEW o \in Nat, NEW q, Len(q) \in Nat,
           StandsAt(s, o, q), NEW j \in 1..Len(q)
    PROVE  OctetAt(s, o + j) = q[j]
<1>1. o + j \in 1..Len(s)
  BY DEF StandsAt
<1>2. s[o + j] = q[j]
  BY DEF StandsAt
<1> QED
  BY <1>1, <1>2 DEF OctetAt

\* The fields of a header.
LEMMA HeaderFields ==
    ASSUME NEW buf, NEW i
    PROVE  LET x == TagLength(buf, i)
               l == OctetAt(buf, i + x)
           IN /\ Header(buf, i).tag = IF x = 2 THEN 256 * OctetAt(buf, i) + OctetAt(buf, i + 1)
                                      ELSE OctetAt(buf, i)
              /\ Header(buf, i).start
                   = i + x + (IF l = 129 THEN 2 ELSE IF l = 130 THEN 3 ELSE 1)
              /\ Header(buf, i).length
                   = IF l = 129 THEN OctetAt(buf, i + x + 1)
                     ELSE IF l = 130
                          THEN 256 * OctetAt(buf, i + x + 1) + OctetAt(buf, i + x + 2)
                     ELSE l
              /\ Header(buf, i).defined = (l <= 127 \/ l \in {129, 130})
BY Zenon DEF Header

\* The header of an object that stands after the first o octets, with a tag
\* that can be read.
LEMMA HeaderRead ==
    ASSUME NEW s, Len(s) \in Nat, NEW o \in Nat,
           NEW t \in Word, ReadableTag(t), NEW val \in Seq(Nat), Len(val) \in Word,
           StandsAt(s, o, tlv(t, val))
    PROVE  /\ Header(s, o + 1).tag = t
           /\ Header(s, o + 1).start = (o + Len(tagOf(t)) + Len(lengthOf(Len(val)))) + 1
           /\ Header(s, o + 1).length = Len(val)
           /\ Header(s, o + 1).defined
<1> DEFINE i == o + 1
           a == tagOf(t)
           b == lengthOf(Len(val))
           n == Len(val)
           x == Len(a)
           y == Len(b)
           l == OctetAt(s, i + x)
<1>1. StandsAt(s, o, a) /\ StandsAt(s, o + x, b)
  BY TlvStands, Zenon
<1>2. /\ t \in Nat /\ n \in Nat
      /\ t <= 255 => x = 1 /\ a[1] = t
      /\ t > 255 => x = 2 /\ 256 * a[1] + a[2] = t
  <2>1. t \in Nat /\ n \in Nat
    BY LenProperties, SMT DEF Word
  <2> QED
    BY <2>1, TagValue, ZenonT(30)
<1>3. /\ n <= 127 => y = 1 /\ b[1] = n
      /\ n > 127 /\ n <= 255 => y = 2 /\ b[1] = 129 /\ b[2] = n
      /\ n > 255 => y = 3 /\ b[1] = 130 /\ 256 * b[2] + b[3] = n
  <2>1. n > 255 => 256 * b[2] + b[3] = n
    BY LengthValue, Zenon
  <2>2. n > 255 => y = 3 /\ b[1] = 130
    BY LengthValue, SMT
  <2>3. n > 127 /\ n <= 255 => y = 2 /\ b[1] = 129 /\ b[2] = n
    BY LengthValue, Zenon
  <2>4. n <= 127 => y = 1 /\ b[1] = n
    BY LengthValue, Zenon
  <2> QED
    BY <2>1, <2>2, <2>3, <2>4, Zenon
<1>4. ReadableTag(t) <=> IF t <= 255 THEN t % 32 # 31 ELSE a[1] % 32 = 31
  BY Zenon DEF ReadableTag
<1> HIDE DEF a, b, n, x, y
<1>5. x \in Nat /\ y \in Nat /\ x >= 1 /\ y >= 1
  BY <1>2, <1>3
<1>6. \A j \in 1..x : OctetAt(s, o + j) = a[j]
  BY <1>1, <1>5, OctetStands, Zenon DEF x
<1>7. \A j \in 1..y : OctetAt(s, (o + x) + j) = b[j]
  <2>1. o + x \in Nat
    BY <1>5
  <2> QED
    BY <1>1, <1>5, <2>1, OctetStands, Zenon DEF y
<1>8. OctetAt(s, i) = a[1] /\ (x = 2 => OctetAt(s, i + 1) = a[2])
  <2>1. 1 \in 1..x /\ (x = 2 => 2 \in 1..x) /\ i + 1 = o + 2
    BY <1>5
  <2> QED
    BY <1>6, <2>1
<1>9. /\ l = b[1]
      /\ y >= 2 => OctetAt(s, i + x + 1) = b[2]
      /\ y >= 3 => OctetAt(s, i + x + 2) = b[3]
  <2>1. /\ 1 \in 1..y /\ (y >= 2 => 2 \in 1..y) /\ (y >= 3 => 3 \in 1..y)
        /\ i + x = (o + x) + 1 /\ i + x + 1 = (o + x) + 2 /\ i + x + 2 = (o + x) + 3
    BY <1>5
  <2> QED
    BY <1>7, <2>1
<1>10. TagLength(s, i) = x
  <2>1. CASE t <= 255
    BY <1>2, <1>4, <1>8, <2>1, Zenon DEF TagLength
  <2>2. CASE t > 255
    <3>1. ~(t <= 255)
      BY <1>2, <2>2
    <3> QED
      BY <1>2, <1>4, <1>8, <2>2, <3>1, Zenon DEF TagLength
  <2> QED
    BY <1>2, <2>1, <2>2
<1> DEFINE h == Header(s, i)
<1>11. /\ h.tag = IF x = 2 THEN 256 * OctetAt(s, i) + OctetAt(s, i + 1) ELSE OctetAt(s, i)
       /\ h.start = i + x + (IF l = 129 THEN 2 ELSE IF l = 130 THEN 3 ELSE 1)
       /\ h.length = IF l = 129 THEN OctetAt(s, i + x + 1)
                     ELSE IF l = 130
                          THEN 256 * OctetAt(s, i + x + 1) + OctetAt(s, i + x + 2)
                     ELSE l
       /\ h.defined = (l <= 127 \/ l \in {129, 130})
  <2> DEFINE z == TagLength(s, i)
             m == OctetAt(s, i + z)
  <2>1. /\ h.tag = IF z = 2 THEN 256 * OctetAt(s, i) + OctetAt(s, i + 1)
                   ELSE OctetAt(s, i)
        /\ h.start = i + z + (IF m = 129 THEN 2 ELSE IF m = 130 THEN 3 ELSE 1)
        /\ h.length = IF m = 129 THEN OctetAt(s, i + z + 1)
                      ELSE IF m = 130
                           THEN 256 * OctetAt(s, i + z + 1) + OctetAt(s, i + z + 2)
                      ELSE m
        /\ h.defined = (m <= 127 \/ m \in {129, 130})
    BY HeaderFields, SMT
  <2>2. z = x /\ m = l
    BY <1>10
  <2> HIDE DEF z, m, h, i, l
  <2> QED
    BY <2>1, <2>2
<1> HIDE DEF h, i, l
<1>12. h.tag = t
  <2>1. CASE t <= 255
    BY <1>2, <1>8, <1>11, <2>1
  <2>2. CASE t > 255
    BY <1>2, <1>8, <1>11, <2>2, SMT
  <2> QED
    BY <1>2, <2>1, <2>2
<1>13. h.start = i + x + y /\ h.length = n /\ h.defined
  <2>1. CASE n <= 127
    <3>1. y = 1 /\ l = n /\ l # 129 /\ l # 130 /\ l <= 127
      BY <1>2, <1>3, <1>9, <2>1
    <3> QED
      BY <1>11, <3>1, Zenon
  <2>2. CASE n > 127 /\ n <= 255
    <3>1. y = 2 /\ y >= 2 /\ l = 129 /\ b[2] = n
      BY <1>3, <1>9, <2>2
    <3> QED
      BY <1>9, <1>11, <3>1, Zenon
  <2>3. CASE n > 255
    <3>1. y = 3 /\ y >= 2 /\ y >= 3 /\ l = 130 /\ l # 129 /\ 256 * b[2] + b[3] = n
      BY <1>3, <1>9, <2>3
    <3> QED
      BY <1>9, <1>11, <3>1, ZenonT(60)
  <2> QED
    BY <1>2, <2>1, <2>2, <2>3
<1>14. i + x + y = (o + x + y) + 1
  BY <1>5 DEF i
<1>15. h.tag = t /\ h.start = (o + x + y) + 1 /\ h.length = n /\ h.defined
  BY <1>12, <1>13, <1>14, Zenon
<1> QED
  BY <1>15, Zenon DEF h, i, x, y, n, a, b

\* A value that a host can read with its tag.
Encodable(t, val) ==
    t \in Word /\ ReadableTag(t) /\ val \in Seq(Nat) /\ Len(val) \in Word

\* An object is encoded in numbers.
LEMMA TlvSeq ==
    ASSUME NEW t, NEW val, Encodable(t, val)
    PROVE  /\ tlv(t, val) \in Seq(Nat)
           /\ Len(tlv(t, val)) = Len(tagOf(t)) + Len(lengthOf(Len(val))) + Len(val)
<1>1. <<>> \in Seq(Nat)
  BY EmptySeq
<1> QED
  BY <1>1, TlvParts, Zenon DEF Encodable

\* A host reads the object that stands after the first o octets, and goes on
\* behind it.
LEMMA ObjectRead ==
    ASSUME NEW s \in Seq(Nat), NEW o \in Nat, NEW t, NEW val, Encodable(t, val),
           StandsAt(s, o, tlv(t, val))
    PROVE  ObjectsFrom(s)[o + 1]
             = <<Object(t, val)>> \o ObjectsFrom(s)[(o + Len(tlv(t, val))) + 1]
<1> DEFINE a == tagOf(t)
           b == lengthOf(Len(val))
           p == o + Len(a) + Len(b)
           e == Len(tlv(t, val))
           h == Header(s, o + 1)
<1>1. t \in Word /\ ReadableTag(t) /\ val \in Seq(Nat) /\ Len(val) \in Word
  BY Zenon DEF Encodable
<1>2. Len(s) \in Nat /\ Len(val) \in Nat /\ Len(a) \in Nat /\ Len(b) \in Nat
  BY <1>1, TagValue, LengthValue, LenProperties
<1>3. e = Len(a) + Len(b) + Len(val)
  BY TlvSeq, Zenon
<1>4. h.tag = t
  BY <1>1, <1>2, HeaderRead, Zenon
<1>5. h.start = p + 1
  BY <1>1, <1>2, HeaderRead, Zenon
<1>6. h.length = Len(val)
  BY <1>1, <1>2, HeaderRead, Zenon
<1>7. h.defined
  BY <1>1, <1>2, HeaderRead, Zenon
<1>8. StandsAt(s, p, val)
  BY <1>1, <1>2, TlvStands, Zenon
<1> HIDE DEF a, b, h, e
<1>9. p \in Nat /\ p + Len(val) <= Len(s)
  BY <1>2, <1>8 DEF StandsAt
<1>10. SubSeq(s, p + 1, p + Len(val)) = val
  BY <1>1, <1>8, <1>9, PartEqual DEF StandsAt
<1>11. EndOf(s, o + 1) = (p + 1) + Len(val)
  BY <1>5, <1>6, Zenon DEF EndOf, h
<1> HIDE DEF p
<1>12. (p + 1) + Len(val) = (o + e) + 1
  BY <1>2, <1>3 DEF p
<1>13. ((p + 1) + Len(val)) - 1 = p + Len(val) /\ (p + 1) + Len(val) <= Len(s) + 1
  BY <1>2, <1>9
<1>14. ReadableAt(s, o + 1)
  BY <1>7, <1>11, <1>13, Zenon DEF ReadableAt, h
<1>15. ObjectAt(s, o + 1) = Object(t, val)
  BY <1>4, <1>5, <1>10, <1>11, <1>13, Zenon DEF ObjectAt, h
<1>16. o + 1 \in 1..(Len(s) + 1) /\ o + 1 # Len(s) + 1
  <2>1. Len(a) >= 1
    BY <1>1, TagValue, SMT DEF a, Word
  <2> QED
    BY <1>2, <1>9, <2>1 DEF p
<1>17. ObjectsFrom(s)[o + 1] = ReadAt(s, ObjectsFrom(s), o + 1)
  BY <1>16, ReaderDef, Zenon
<1>18. ReadAt(s, ObjectsFrom(s), o + 1) =
         <<ObjectAt(s, o + 1)>> \o ObjectsFrom(s)[EndOf(s, o + 1)]
  BY <1>14, <1>16, Zenon DEF ReadAt
<1> QED
  BY <1>11, <1>12, <1>15, <1>17, <1>18, Zenon DEF e

\* A host that has read p, the beginning of s, reads q in the rest.
Reads(s, p, q) == ObjectsFrom(s)[Len(p) + 1] = q

\* Behind the last octet there is nothing to be read.
LEMMA ReadsNothing ==
    ASSUME NEW s \in Seq(Nat)
    PROVE  StandsAt(s, 0, s) /\ Reads(s, s, <<>>)
<1>1. Len(s) \in Nat
  BY LenProperties
<1>2. Len(s) + 1 \in 1..(Len(s) + 1) /\ 0 + Len(s) <= Len(s)
  BY <1>1
<1>3. \A j \in 1..Len(s) : 0 + j = j
  BY <1>1
<1>4. ObjectsFrom(s)[Len(s) + 1] = ReadAt(s, ObjectsFrom(s), Len(s) + 1)
  BY <1>2, ReaderDef, Zenon
<1>5. ObjectsFrom(s)[Len(s) + 1] = <<>>
  BY <1>4, Zenon DEF ReadAt
<1>6. StandsAt(s, 0, s)
  BY <1>2, <1>3, Zenon DEF StandsAt
<1> QED
  BY <1>5, <1>6, Zenon DEF Reads

\* An object more is read from the place before it.
LEMMA ReadsBefore ==
    ASSUME NEW s \in Seq(Nat), NEW p \in Seq(Nat), NEW t, NEW val, Encodable(t, val),
           NEW q, StandsAt(s, 0, p \o tlv(t, val)), Reads(s, p \o tlv(t, val), q)
    PROVE  StandsAt(s, 0, p) /\ Reads(s, p, <<Object(t, val)>> \o q)
<1> DEFINE e == tlv(t, val)
<1>1. e \in Seq(Nat)
  BY TlvSeq, Zenon
<1>2. Len(s) \in Nat /\ Len(p) \in Nat /\ 0 \in Nat /\ 0 + Len(p) = Len(p)
  BY LenProperties
<1>3. Len(p \o e) = Len(p) + Len(e)
  BY <1>1, ConcatParts, Zenon
<1>4. StandsAt(s, 0, p) /\ StandsAt(s, 0 + Len(p), e)
  BY <1>1, <1>2, StandsConcat, Zenon
<1>5. StandsAt(s, Len(p), e)
  BY <1>2, <1>4, Zenon
<1>6. ObjectsFrom(s)[Len(p) + 1]
        = <<Object(t, val)>> \o ObjectsFrom(s)[(Len(p) + Len(e)) + 1]
  <2>1. ASSUME NEW o \in Nat, StandsAt(s, o, tlv(t, val))
        PROVE  ObjectsFrom(s)[o + 1]
                 = <<Object(t, val)>> \o ObjectsFrom(s)[(o + Len(tlv(t, val))) + 1]
    BY <2>1, ObjectRead
  <2> HIDE DEF e
  <2> QED
    BY <1>2, <1>5, <2>1 DEF e
<1>7. ObjectsFrom(s)[(Len(p) + Len(e)) + 1] = q
  BY <1>3, Zenon DEF Reads
<1> QED
  BY <1>4, <1>6, <1>7, Zenon DEF Reads

\* The first object is the last to be put in front.
LEMMA ReadsFirst ==
    ASSUME NEW s \in Seq(Nat), NEW t, NEW val, Encodable(t, val),
           NEW q, StandsAt(s, 0, tlv(t, val)), Reads(s, tlv(t, val), q)
    PROVE  Objects(s) = <<Object(t, val)>> \o q
<1> DEFINE e == tlv(t, val)
<1>1. Len(e) \in Nat
  BY TlvSeq, LenProperties
<1>2. 0 \in Nat /\ 0 + 1 = 1 /\ (0 + Len(e)) + 1 = Len(e) + 1
  BY <1>1
<1>3. ObjectsFrom(s)[0 + 1]
        = <<Object(t, val)>> \o ObjectsFrom(s)[(0 + Len(e)) + 1]
  BY <1>2, ObjectRead, SMT
<1> QED
  BY <1>2, <1>3, Zenon DEF Reads, Objects

\* A sequence with one more element in front.
LEMMA Cons ==
    ASSUME NEW S, NEW a \in S, NEW q \in Seq(S), NEW w \in Seq(S),
           Len(w) = Len(q) + 1, w[1] = a, \A j \in 1..Len(q) : w[j + 1] = q[j]
    PROVE  <<a>> \o q = w
<1> DEFINE x == <<a>>
<1>1. x \in Seq(S) /\ Len(x) = 1 /\ x[1] = a /\ Len(q) \in Nat
  BY LenProperties
<1> HIDE DEF x
<1>2. /\ x \o q \in Seq(S) /\ Len(x \o q) = Len(x) + Len(q)
      /\ \A i \in 1..Len(x) + Len(q) :
            (x \o q)[i] = IF i <= Len(x) THEN x[i] ELSE q[i - Len(x)]
  BY <1>1, ConcatProperties, Zenon
<1>3. ASSUME NEW i \in 1..Len(w) PROVE (x \o q)[i] = w[i]
  <2>1. CASE i = 1
    BY <1>1, <1>2, <2>1
  <2>2. CASE i # 1
    <3>1. /\ i - 1 \in 1..Len(q) /\ (i - 1) + 1 = i
          /\ ~(i <= Len(x)) /\ i \in 1..Len(x) + Len(q)
      BY <1>1, <2>2
    <3>2. (x \o q)[i] = q[i - 1]
      BY <1>1, <1>2, <3>1
    <3>3. w[(i - 1) + 1] = q[i - 1]
      BY <3>1
    <3> QED
      BY <3>1, <3>2, <3>3
  <2> QED
    BY <2>1, <2>2
<1>4. Len(x \o q) = Len(w)
  BY <1>1, <1>2
<1>5. x \o q = w
  BY <1>2, <1>3, <1>4, SeqEqual
<1> QED
  BY <1>5 DEF x

\* Tuples with one more element in front.
LEMMA Tuple1 ==
    ASSUME NEW a
    PROVE  <<a>> \o <<>> = <<a>>
OBVIOUS

\* A tuple of 2.
LEMMA Tuple2 ==
    ASSUME NEW a, NEW b
    PROVE  <<a>> \o <<b>> = <<a, b>>
<1> DEFINE S == {a, b}
           q == <<b>>
           w == <<a, b>>
<1>1. a \in S /\ q \in Seq(S) /\ w \in Seq(S)
  OBVIOUS
<1>2. Len(w) = Len(q) + 1 /\ w[1] = a /\ \A j \in 1..Len(q) : w[j + 1] = q[j]
  OBVIOUS
<1> HIDE DEF q, w, S
<1>3. <<a>> \o q = w
  BY <1>1, <1>2, Cons
<1> QED
  BY <1>3 DEF q, w

\* A tuple of 3.
LEMMA Tuple3 ==
    ASSUME NEW a, NEW b, NEW c
    PROVE  <<a>> \o <<b, c>> = <<a, b, c>>
<1> DEFINE S == {a, b, c}
           q == <<b, c>>
           w == <<a, b, c>>
<1>1. a \in S /\ q \in Seq(S) /\ w \in Seq(S)
  OBVIOUS
<1>2. Len(w) = Len(q) + 1 /\ w[1] = a /\ \A j \in 1..Len(q) : w[j + 1] = q[j]
  OBVIOUS
<1> HIDE DEF q, w, S
<1>3. <<a>> \o q = w
  BY <1>1, <1>2, Cons
<1> QED
  BY <1>3 DEF q, w

\* A tuple of 4.
LEMMA Tuple4 ==
    ASSUME NEW a, NEW b, NEW c, NEW d
    PROVE  <<a>> \o <<b, c, d>> = <<a, b, c, d>>
<1> DEFINE S == {a, b, c, d}
           q == <<b, c, d>>
           w == <<a, b, c, d>>
<1>1. a \in S /\ q \in Seq(S) /\ w \in Seq(S)
  OBVIOUS
<1>2. Len(w) = Len(q) + 1 /\ w[1] = a /\ \A j \in 1..Len(q) : w[j + 1] = q[j]
  OBVIOUS
<1> HIDE DEF q, w, S
<1>3. <<a>> \o q = w
  BY <1>1, <1>2, Cons
<1> QED
  BY <1>3 DEF q, w

\* A tuple of 5.
LEMMA Tuple5 ==
    ASSUME NEW a, NEW b, NEW c, NEW d, NEW e
    PROVE  <<a>> \o <<b, c, d, e>> = <<a, b, c, d, e>>
<1> DEFINE S == {a, b, c, d, e}
           q == <<b, c, d, e>>
           w == <<a, b, c, d, e>>
<1>1. a \in S /\ q \in Seq(S) /\ w \in Seq(S)
  OBVIOUS
<1>2. Len(w) = Len(q) + 1 /\ w[1] = a /\ \A j \in 1..Len(q) : w[j + 1] = q[j]
  OBVIOUS
<1> HIDE DEF q, w, S
<1>3. <<a>> \o q = w
  BY <1>1, <1>2, Cons
<1> QED
  BY <1>3 DEF q, w

\* A tuple of 6.
LEMMA Tuple6 ==
    ASSUME NEW a, NEW b, NEW c, NEW d, NEW e, NEW f
    PROVE  <<a>> \o <<b, c, d, e, f>> = <<a, b, c, d, e, f>>
<1> DEFINE S == {a, b, c, d, e, f}
           q == <<b, c, d, e, f>>
           w == <<a, b, c, d, e, f>>
<1>1. a \in S /\ q \in Seq(S) /\ w \in Seq(S)
  OBVIOUS
<1>2. Len(w) = Len(q) + 1 /\ w[1] = a /\ \A j \in 1..Len(q) : w[j + 1] = q[j]
  OBVIOUS
<1> HIDE DEF q, w, S
<1>3. <<a>> \o q = w
  BY <1>1, <1>2, Cons
<1> QED
  BY <1>3 DEF q, w

\* A tuple of 7.
LEMMA Tuple7 ==
    ASSUME NEW a, NEW b, NEW c, NEW d, NEW e, NEW f, NEW g
    PROVE  <<a>> \o <<b, c, d, e, f, g>> = <<a, b, c, d, e, f, g>>
<1> DEFINE S == {a, b, c, d, e, f, g}
           q == <<b, c, d, e, f, g>>
           w == <<a, b, c, d, e, f, g>>
<1>1. a \in S /\ q \in Seq(S) /\ w \in Seq(S)
  OBVIOUS
<1>2. Len(w) = Len(q) + 1 /\ w[1] = a /\ \A j \in 1..Len(q) : w[j + 1] = q[j]
  OBVIOUS
<1> HIDE DEF q, w, S
<1>3. <<a>> \o q = w
  BY <1>1, <1>2, Cons
<1> QED
  BY <1>3 DEF q, w

\* A tuple of 8.
LEMMA Tuple8 ==
    ASSUME NEW a, NEW b, NEW c, NEW d, NEW e, NEW f, NEW g, NEW h
    PROVE  <<a>> \o <<b, c, d, e, f, g, h>> = <<a, b, c, d, e, f, g, h>>
<1> DEFINE S == {a, b, c, d, e, f, g, h}
           q == <<b, c, d, e, f, g, h>>
           w == <<a, b, c, d, e, f, g, h>>
<1>1. a \in S /\ q \in Seq(S) /\ w \in Seq(S)
  OBVIOUS
<1>2. Len(w) = Len(q) + 1 /\ w[1] = a /\ \A j \in 1..Len(q) : w[j + 1] = q[j]
  OBVIOUS
<1> HIDE DEF q, w, S
<1>3. <<a>> \o q = w
  BY <1>1, <1>2, Cons
<1> QED
  BY <1>3 DEF q, w

\* One object is read back.
LEMMA ReadsOne ==
    ASSUME NEW t1, NEW x1,
           Encodable(t1, x1)
    PROVE  Objects(tlv(t1, x1))
             = <<Object(t1, x1)>>
<1> DEFINE p1 == tlv(t1, x1)
           o1 == Object(t1, x1)
<1>1. p1 \in Seq(Nat)
  BY TlvSeq, Zenon
<1>2. StandsAt(p1, 0, p1) /\ Reads(p1, p1, <<>>)
  BY <1>1, ReadsNothing, Zenon
<1>3. Objects(p1) = <<o1>> \o <<>>
  BY <1>1, <1>2, ReadsFirst, Zenon
<1> HIDE DEF p1, o1
<1>4. Objects(p1) = <<o1>>
  BY <1>3, Tuple1, Zenon
<1> QED
  BY <1>4, Zenon DEF p1, o1

\* Two objects are read back.
LEMMA ReadsTwo ==
    ASSUME NEW t1, NEW x1, NEW t2, NEW x2,
           Encodable(t1, x1), Encodable(t2, x2)
    PROVE  Objects(tlv(t1, x1) \o tlv(t2, x2))
             = <<Object(t1, x1), Object(t2, x2)>>
<1> DEFINE p1 == tlv(t1, x1)
           p2 == p1 \o tlv(t2, x2)
           o1 == Object(t1, x1)
           o2 == Object(t2, x2)
<1>1. p1 \in Seq(Nat)
  BY TlvSeq, Zenon
<1>2. p2 \in Seq(Nat)
  BY <1>1, TlvSeq, ConcatParts, Zenon
<1>3. StandsAt(p2, 0, p2) /\ Reads(p2, p2, <<>>)
  BY <1>2, ReadsNothing, Zenon
<1>4. StandsAt(p2, 0, p1) /\ Reads(p2, p1, <<o2>>)
  <2>1. StandsAt(p2, 0, p1) /\ Reads(p2, p1, <<o2>> \o <<>>)
    BY <1>1, <1>2, <1>3, ReadsBefore, Zenon
  <2> QED
    BY <2>1, Tuple1, Zenon
<1>5. Objects(p2) = <<o1>> \o <<o2>>
  BY <1>2, <1>4, ReadsFirst, Zenon
<1> HIDE DEF p2, o1, o2
<1>6. Objects(p2) = <<o1, o2>>
  BY <1>5, Tuple2, Zenon
<1> QED
  BY <1>6, Zenon DEF p2, o1, o2

\* Three objects are read back.
LEMMA ReadsThree ==
    ASSUME NEW t1, NEW x1, NEW t2, NEW x2, NEW t3, NEW x3,
           Encodable(t1, x1), Encodable(t2, x2), Encodable(t3, x3)
    PROVE  Objects(tlv(t1, x1) \o tlv(t2, x2) \o tlv(t3, x3))
             = <<Object(t1, x1), Object(t2, x2), Object(t3, x3)>>
<1> DEFINE p1 == tlv(t1, x1)
           p2 == p1 \o tlv(t2, x2)
           p3 == p2 \o tlv(t3, x3)
           o1 == Object(t1, x1)
           o2 == Object(t2, x2)
           o3 == Object(t3, x3)
<1>1. p1 \in Seq(Nat)
  BY TlvSeq, Zenon
<1>2. p2 \in Seq(Nat)
  BY <1>1, TlvSeq, ConcatParts, Zenon
<1>3. p3 \in Seq(Nat)
  BY <1>2, TlvSeq, ConcatParts, Zenon
<1>4. StandsAt(p3, 0, p3) /\ Reads(p3, p3, <<>>)
  BY <1>3, ReadsNothing, Zenon
<1>5. StandsAt(p3, 0, p2) /\ Reads(p3, p2, <<o3>>)
  <2>1. StandsAt(p3, 0, p2) /\ Reads(p3, p2, <<o3>> \o <<>>)
    BY <1>2, <1>3, <1>4, ReadsBefore, Zenon
  <2> QED
    BY <2>1, Tuple1, Zenon
<1>6. StandsAt(p3, 0, p1) /\ Reads(p3, p1, <<o2, o3>>)
  <2>1. StandsAt(p3, 0, p1) /\ Reads(p3, p1, <<o2>> \o <<o3>>)
    BY <1>1, <1>3, <1>5, ReadsBefore, Zenon
  <2> QED
    BY <2>1, Tuple2, Zenon
<1>7. Objects(p3) = <<o1>> \o <<o2, o3>>
  BY <1>3, <1>6, ReadsFirst, Zenon
<1> HIDE DEF p3, o1, o2, o3
<1>8. Objects(p3) = <<o1, o2, o3>>
  BY <1>7, Tuple3, Zenon
<1> QED
  BY <1>8, Zenon DEF p3, o1, o2, o3

\* Four objects are read back.
LEMMA ReadsFour ==
    ASSUME NEW t1, NEW x1, NEW t2, NEW x2, NEW t3, NEW x3, NEW t4, NEW x4,
           Encodable(t1, x1), Encodable(t2, x2), Encodable(t3, x3), Encodable(t4, x4)
    PROVE  Objects(tlv(t1, x1) \o tlv(t2, x2) \o tlv(t3, x3) \o tlv(t4, x4))
             = <<Object(t1, x1), Object(t2, x2), Object(t3, x3), Object(t4, x4)>>
<1> DEFINE p1 == tlv(t1, x1)
           p2 == p1 \o tlv(t2, x2)
           p3 == p2 \o tlv(t3, x3)
           p4 == p3 \o tlv(t4, x4)
           o1 == Object(t1, x1)
           o2 == Object(t2, x2)
           o3 == Object(t3, x3)
           o4 == Object(t4, x4)
<1>1. p1 \in Seq(Nat)
  BY TlvSeq, Zenon
<1>2. p2 \in Seq(Nat)
  BY <1>1, TlvSeq, ConcatParts, Zenon
<1>3. p3 \in Seq(Nat)
  BY <1>2, TlvSeq, ConcatParts, Zenon
<1>4. p4 \in Seq(Nat)
  BY <1>3, TlvSeq, ConcatParts, Zenon
<1>5. StandsAt(p4, 0, p4) /\ Reads(p4, p4, <<>>)
  BY <1>4, ReadsNothing, Zenon
<1>6. StandsAt(p4, 0, p3) /\ Reads(p4, p3, <<o4>>)
  <2>1. StandsAt(p4, 0, p3) /\ Reads(p4, p3, <<o4>> \o <<>>)
    BY <1>3, <1>4, <1>5, ReadsBefore, Zenon
  <2> QED
    BY <2>1, Tuple1, Zenon
<1>7. StandsAt(p4, 0, p2) /\ Reads(p4, p2, <<o3, o4>>)
  <2>1. StandsAt(p4, 0, p2) /\ Reads(p4, p2, <<o3>> \o <<o4>>)
    BY <1>2, <1>4, <1>6, ReadsBefore, Zenon
  <2> QED
    BY <2>1, Tuple2, Zenon
<1>8. StandsAt(p4, 0, p1) /\ Reads(p4, p1, <<o2, o3, o4>>)
  <2>1. StandsAt(p4, 0, p1) /\ Reads(p4, p1, <<o2>> \o <<o3, o4>>)
    BY <1>1, <1>4, <1>7, ReadsBefore, Zenon
  <2> QED
    BY <2>1, Tuple3, Zenon
<1>9. Objects(p4) = <<o1>> \o <<o2, o3, o4>>
  BY <1>4, <1>8, ReadsFirst, Zenon
<1> HIDE DEF p4, o1, o2, o3, o4
<1>10. Objects(p4) = <<o1, o2, o3, o4>>
  BY <1>9, Tuple4, Zenon
<1> QED
  BY <1>10, Zenon DEF p4, o1, o2, o3, o4

\* Eight objects are read back.
LEMMA ReadsEight ==
    ASSUME NEW t, NEW x, \A i \in 1..8 : Encodable(t[i], x[i])
    PROVE  Objects(tlv(t[1], x[1]) \o tlv(t[2], x[2]) \o tlv(t[3], x[3]) \o tlv(t[4], x[4])
                     \o tlv(t[5], x[5]) \o tlv(t[6], x[6]) \o tlv(t[7], x[7])
                     \o tlv(t[8], x[8]))
             = <<Object(t[1], x[1]), Object(t[2], x[2]), Object(t[3], x[3]),
                 Object(t[4], x[4]), Object(t[5], x[5]), Object(t[6], x[6]),
                 Object(t[7], x[7]), Object(t[8], x[8])>>
<1> DEFINE t1 == t[1]
           x1 == x[1]
           t2 == t[2]
           x2 == x[2]
           t3 == t[3]
           x3 == x[3]
           t4 == t[4]
           x4 == x[4]
           t5 == t[5]
           x5 == x[5]
           t6 == t[6]
           x6 == x[6]
           t7 == t[7]
           x7 == x[7]
           t8 == t[8]
           x8 == x[8]
<1>0. /\ Encodable(t1, x1) /\ Encodable(t2, x2) /\ Encodable(t3, x3) /\ Encodable(t4, x4)
      /\ Encodable(t5, x5) /\ Encodable(t6, x6) /\ Encodable(t7, x7) /\ Encodable(t8, x8)
  OBVIOUS
<1> HIDE DEF t1, x1, t2, x2, t3, x3, t4, x4, t5, x5, t6, x6, t7, x7, t8, x8
<1> DEFINE p1 == tlv(t1, x1)
           p2 == p1 \o tlv(t2, x2)
           p3 == p2 \o tlv(t3, x3)
           p4 == p3 \o tlv(t4, x4)
           p5 == p4 \o tlv(t5, x5)
           p6 == p5 \o tlv(t6, x6)
           p7 == p6 \o tlv(t7, x7)
           p8 == p7 \o tlv(t8, x8)
           o1 == Object(t1, x1)
           o2 == Object(t2, x2)
           o3 == Object(t3, x3)
           o4 == Object(t4, x4)
           o5 == Object(t5, x5)
           o6 == Object(t6, x6)
           o7 == Object(t7, x7)
           o8 == Object(t8, x8)
<1>1. p1 \in Seq(Nat)
  BY <1>0, TlvSeq, Zenon
<1>2. p2 \in Seq(Nat)
  BY <1>0, <1>1, TlvSeq, ConcatParts, Zenon
<1>3. p3 \in Seq(Nat)
  BY <1>0, <1>2, TlvSeq, ConcatParts, Zenon
<1>4. p4 \in Seq(Nat)
  BY <1>0, <1>3, TlvSeq, ConcatParts, Zenon
<1>5. p5 \in Seq(Nat)
  BY <1>0, <1>4, TlvSeq, ConcatParts, Zenon
<1>6. p6 \in Seq(Nat)
  BY <1>0, <1>5, TlvSeq, ConcatParts, Zenon
<1>7. p7 \in Seq(Nat)
  BY <1>0, <1>6, TlvSeq, ConcatParts, Zenon
<1>8. p8 \in Seq(Nat)
  BY <1>0, <1>7, TlvSeq, ConcatParts, Zenon
<1>9. StandsAt(p8, 0, p8) /\ Reads(p8, p8, <<>>)
  BY <1>8, ReadsNothing, Zenon
<1>10. StandsAt(p8, 0, p7) /\ Reads(p8, p7, <<o8>>)
  <2>1. StandsAt(p8, 0, p7) /\ Reads(p8, p7, <<o8>> \o <<>>)
    BY <1>0, <1>7, <1>8, <1>9, ReadsBefore, Zenon
  <2> QED
    BY <2>1, Tuple1, Zenon
<1>11. StandsAt(p8, 0, p6) /\ Reads(p8, p6, <<o7, o8>>)
  <2>1. StandsAt(p8, 0, p6) /\ Reads(p8, p6, <<o7>> \o <<o8>>)
    BY <1>0, <1>6, <1>8, <1>10, ReadsBefore, Zenon
  <2> QED
    BY <2>1, Tuple2, Zenon
<1>12. StandsAt(p8, 0, p5) /\ Reads(p8, p5, <<o6, o7, o8>>)
  <2>1. StandsAt(p8, 0, p5) /\ Reads(p8, p5, <<o6>> \o <<o7, o8>>)
    BY <1>0, <1>5, <1>8, <1>11, ReadsBefore, Zenon
  <2> QED
    BY <2>1, Tuple3, Zenon
<1>13. StandsAt(p8, 0, p4) /\ Reads(p8, p4, <<o5, o6, o7, o8>>)
  <2>1. StandsAt(p8, 0, p4) /\ Reads(p8, p4, <<o5>> \o <<o6, o7, o8>>)
    BY <1>0, <1>4, <1>8, <1>12, ReadsBefore, Zenon
  <2> QED
    BY <2>1, Tuple4, Zenon
<1>14. StandsAt(p8, 0, p3) /\ Reads(p8, p3, <<o4, o5, o6, o7, o8>>)
  <2>1. StandsAt(p8, 0, p3) /\ Reads(p8, p3, <<o4>> \o <<o5, o6, o7, o8>>)
    BY <1>0, <1>3, <1>8, <1>13, ReadsBefore, Zenon
  <2> QED
    BY <2>1, Tuple5, Zenon
<1>15. StandsAt(p8, 0, p2) /\ Reads(p8, p2, <<o3, o4, o5, o6, o7, o8>>)
  <2>1. StandsAt(p8, 0, p2) /\ Reads(p8, p2, <<o3>> \o <<o4, o5, o6, o7, o8>>)
    BY <1>0, <1>2, <1>8, <1>14, ReadsBefore, Zenon
  <2> QED
    BY <2>1, Tuple6, ZenonT(60)
<1>16. StandsAt(p8, 0, p1) /\ Reads(p8, p1, <<o2, o3, o4, o5, o6, o7, o8>>)
  <2>1. StandsAt(p8, 0, p1) /\ Reads(p8, p1, <<o2>> \o <<o3, o4, o5, o6, o7, o8>>)
    BY <1>0, <1>1, <1>8, <1>15, ReadsBefore, Zenon
  <2> HIDE DEF o2, o3, o4, o5, o6, o7, o8
  <2>2. <<o2>> \o <<o3, o4, o5, o6, o7, o8>> = <<o2, o3, o4, o5, o6, o7, o8>>
    BY Tuple7
  <2> QED
    BY <2>1, <2>2, Zenon
<1>17. Objects(p8) = <<o1>> \o <<o2, o3, o4, o5, o6, o7, o8>>
  BY <1>0, <1>8, <1>16, ReadsFirst, Zenon
<1> HIDE DEF p8, o1, o2, o3, o4, o5, o6, o7, o8
<1>18. Objects(p8) = <<o1, o2, o3, o4, o5, o6, o7, o8>>
  <2>1. <<o1>> \o <<o2, o3, o4, o5, o6, o7, o8>> = <<o1, o2, o3, o4, o5, o6, o7, o8>>
    BY Tuple8
  <2> QED
    BY <1>17, <2>1, Zenon
<1> QED
  BY <1>18, Zenon DEF p8, o1, o2, o3, o4, o5, o6, o7, o8,
     t1, t2, t3, t4, t5, t6, t7, t8, x1, x2, x3, x4, x5, x6, x7, x8

(***************************************************************************)
(* The data objects of the card                                            *)
(***************************************************************************)

\* Octets of which there are at most n.
Short(val, n) == val \in Seq(Nat) /\ Len(val) <= n

\* Short octets after short octets.
LEMMA ShortConcat ==
    ASSUME NEW a, NEW b, NEW m \in Nat, NEW n \in Nat, Short(a, m), Short(b, n)
    PROVE  Short(a \o b, m + n)
<1>1. a \in Seq(Nat) /\ b \in Seq(Nat) /\ Len(a) <= m /\ Len(b) <= n
  BY DEF Short
<1>2. a \o b \in Seq(Nat) /\ Len(a \o b) = Len(a) + Len(b)
  BY <1>1, ConcatParts, Zenon
<1>3. Len(a) \in Nat /\ Len(b) \in Nat
  BY <1>1, LenProperties
<1> QED
  BY <1>1, <1>2, <1>3 DEF Short

\* Short values have a length that can be encoded.
LEMMA ShortEncodable ==
    ASSUME NEW t \in Word, ReadableTag(t), NEW val, NEW n \in 0..255, Short(val, n)
    PROVE  Encodable(t, val)
<1>1. val \in Seq(Nat) /\ Len(val) \in Nat /\ Len(val) <= 255
  BY LenProperties DEF Short
<1>2. Len(val) \in Word
  <2>1. Len(val) <= 65535
    BY <1>1, SMT
  <2> QED
    BY <1>1, <2>1, SMT DEF Word
<1> QED
  BY <1>1, <1>2, Zenon DEF Encodable

\* The octets that tlv adds to a short value.
LEMMA TlvShort ==
    ASSUME NEW t, NEW val, Encodable(t, val), NEW n \in 0..255, Short(val, n)
    PROVE  /\ n <= 127 /\ t <= 255 => Short(tlv(t, val), n + 2)
           /\ n <= 127 => Short(tlv(t, val), n + 3)
           /\ t <= 255 => Short(tlv(t, val), n + 3)
           /\ Short(tlv(t, val), n + 4)
<1> DEFINE x == Len(tagOf(t))
           l == Len(val)
           y == Len(lengthOf(l))
           w == tlv(t, val)
<1>1. t \in Word /\ l \in Word /\ val \in Seq(Nat)
  BY Zenon DEF Encodable
<1>2. t \in Nat /\ l \in Nat /\ l <= n
  BY <1>1, LenProperties DEF Short, Word
<1>3. (t <= 255 => x = 1) /\ (t > 255 => x = 2)
  BY <1>1, TagValue, Zenon
<1>4. (l <= 127 => y = 1) /\ (l > 127 /\ l <= 255 => y = 2)
  BY <1>1, LengthValue, Zenon
<1>5. w \in Seq(Nat) /\ Len(w) = x + y + l
  BY TlvSeq, Zenon
<1> HIDE DEF x, l, y, w
<1>6. l <= 255
  BY <1>2
<1>7. (n <= 127 => y = 1) /\ (y = 1 \/ y = 2) /\ (x = 1 \/ x = 2)
  BY <1>2, <1>3, <1>4, <1>6
<1>8. /\ n <= 127 /\ t <= 255 => Len(w) <= n + 2
      /\ n <= 127 => Len(w) <= n + 3
      /\ t <= 255 => Len(w) <= n + 3
      /\ Len(w) <= n + 4
  BY <1>2, <1>3, <1>5, <1>7, SMTT(30)
<1>9. /\ n <= 127 /\ t <= 255 => Short(w, n + 2)
      /\ n <= 127 => Short(w, n + 3)
      /\ t <= 255 => Short(w, n + 3)
      /\ Short(w, n + 4)
  BY <1>5, <1>8, Zenon DEF Short
<1> QED
  BY <1>9, Zenon DEF w

\* Equal octets.
LEMMA FillShort ==
    ASSUME NEW n \in Nat, NEW b \in Nat
    PROVE  Short(Fill(n, b), n)
BY FillSeq DEF Short

\* The tags of one octet are read as such.
LEMMA OneOctetTags ==
    ASSUME NEW t \in {79, 91, 101, 110, 115, 122, 129, 130, 134, 147, 192, 193, 194, 195,
                      196, 197, 198, 205}
    PROVE  t \in Word /\ ReadableTag(t) /\ t <= 255
<1>1. t \in Word /\ t <= 255
  BY SMT DEF Word
<1>2. t % 32 # 31
  BY SMT
<1> QED
  BY <1>1, <1>2 DEF ReadableTag

\* So are those of two octets.
LEMMA TwoOctetTags ==
    ASSUME NEW t \in {24365, 24373, 24402, 32585, 32614}
    PROVE  t \in Word /\ ReadableTag(t)
<1>1. t \in Nat /\ t <= 65535 /\ t > 255
  BY SMT
<1>2. t \div 256 = 95 \/ t \div 256 = 127
  BY SMT
<1>3. tagOf(t)[1] = (t \div 256) % 256
  BY <1>1, SMT DEF tagOf, uint16
<1>4. tagOf(t)[1] = 95 \/ tagOf(t)[1] = 127
  BY <1>2, <1>3, SMT
<1>5. tagOf(t)[1] % 32 = 31
  BY <1>4, SMT
<1> QED
  BY <1>1, <1>5, SMT DEF ReadableTag, Word

\* The algorithm attributes of any subkey have at most 11 octets.
LEMMA AttributesShort ==
    ASSUME NEW subkey \in Subkeys
    PROVE  Short(AlgorithmAttributes(subkey), 11)
<1>1. ASSUME NEW n \in Word PROVE Short(uint16(n), 2)
  <2>1. uint16(n) \in Seq(Nat) /\ Len(uint16(n)) = 2
    BY Uint16Value, Zenon
  <2>2. Len(uint16(n)) <= 2
    BY <2>1
  <2> QED
    BY <2>1, <2>2, Zenon DEF Short
<1>2. Short(<<1>>, 1) /\ Short(<<0>>, 1) /\ Short(<<19>>, 1)
  BY DEF Short
<1>3. ASSUME NEW m \in Nat, NEW n \in Nat, m <= n, NEW w, Short(w, m) PROVE Short(w, n)
  BY <1>3, LenProperties DEF Short
<1>4. ASSUME NEW n \in Word PROVE Short(<<1>> \o uint16(n) \o uint16(32) \o <<0>>, 11)
  <2>1. 32 \in Word
    BY SMT DEF Word
  <2>2. Short(<<1>> \o uint16(n), 1 + 2)
    BY <1>1, <1>2, ShortConcat
  <2>3. Short(<<1>> \o uint16(n) \o uint16(32), 3 + 2)
    BY <1>1, <2>1, <2>2, ShortConcat
  <2>4. Short(<<1>> \o uint16(n) \o uint16(32) \o <<0>>, 5 + 1)
    BY <1>2, <2>3, ShortConcat
  <2> QED
    BY <1>3, <2>4
<1>5. ASSUME NEW n \in Nat, n <= 9 PROVE Short(<<19>> \o Fill(n, 43) \o <<0>>, 11)
  <2>1. Short(Fill(n, 43), n)
    BY FillShort
  <2>2. Short(<<19>> \o Fill(n, 43), 1 + n)
    BY <1>2, <2>1, ShortConcat
  <2>3. Short(<<19>> \o Fill(n, 43) \o <<0>>, (1 + n) + 1)
    BY <1>2, <2>2, ShortConcat
  <2> QED
    BY <1>3, <1>5, <2>3
<1>6. CASE subkey = "nil"
  <2> DEFINE n == 4096
  <2>1. n \in Word
    BY SMT DEF Word
  <2>2. AlgorithmAttributes(subkey) = <<1>> \o uint16(n) \o uint16(32) \o <<0>>
    BY <1>6, SMT DEF AlgorithmAttributes, Curves
  <2> HIDE DEF n
  <2> QED
    BY <1>4, <2>1, <2>2, Zenon
<1>7. CASE subkey = "rsa"
  <2> DEFINE n == 3072
  <2>1. n \in Word
    BY SMT DEF Word
  <2>2. AlgorithmAttributes(subkey) = <<1>> \o uint16(n) \o uint16(32) \o <<0>>
    BY <1>7, SMT DEF AlgorithmAttributes, Curves
  <2> HIDE DEF n
  <2> QED
    BY <1>4, <2>1, <2>2, Zenon
<1>8. CASE subkey = "other"
  BY <1>8 DEF AlgorithmAttributes, Curves, Short
<1>9. CASE subkey \in Curves
  <2> DEFINE n == CASE subkey = "P-256"     -> 8
                    [] subkey = "brainpool" -> 9
                    [] OTHER                -> 5
  <2>1. n \in Nat /\ n <= 9
    BY <1>9 DEF Curves
  <2>2. AlgorithmAttributes(subkey) = <<19>> \o Fill(n, 43) \o <<0>>
    BY <1>9 DEF AlgorithmAttributes, Curves, getOID
  <2> HIDE DEF n
  <2> QED
    BY <1>5, <2>1, <2>2
<1> QED
  BY <1>6, <1>7, <1>8, <1>9 DEF Subkeys

\* The fingerprints and the creation times have the same number of octets
\* whatever keys there are.
LEMMA PerRoleShort ==
    ASSUME NEW card, NEW n \in Nat
    PROVE  Short(PerRole(card, n), 3 * n)
<1> DEFINE of(subkey, role) == Fill(n, IF subkey = "nil" THEN 0 ELSE role)
           a == of(card.Sig, 1)
           b == of(card.Dec, 2)
           c == of(card.Aut, 3)
<1>1. ASSUME NEW subkey, NEW role \in Nat PROVE Short(of(subkey, role), n)
  BY FillShort
<1>2. Short(a, n) /\ Short(b, n) /\ Short(c, n)
  BY <1>1
<1>3. PerRole(card, n) = a \o b \o c
  BY DEF PerRole
<1> HIDE DEF a, b, c
<1>4. Short(a \o b, n + n)
  BY <1>2, ShortConcat
<1>5. Short(a \o b \o c, (n + n) + n)
  BY <1>2, <1>4, ShortConcat
<1>6. (n + n) + n = 3 * n
  OBVIOUS
<1> QED
  BY <1>3, <1>5, <1>6

\* The values of fixed octets.
LEMMA FixedShort ==
    /\ Short(EXTENDED_CAPABILITIES, 10)
    /\ Short(PWStatusBytes, 7)
    /\ Short(CAFingerprints, 60)
    /\ Short(AID, 16)
    /\ Short(HISTORICAL_BYTES, 10)
    /\ Short(EXTENDED_LENGTH, 8)
<1>1. Short(EXTENDED_CAPABILITIES, 10)
  BY DEF Short, EXTENDED_CAPABILITIES
<1>2. Short(PWStatusBytes, 7)
  BY DEF Short, PWStatusBytes
<1>3. Short(CAFingerprints, 60)
  BY FillShort DEF CAFingerprints
<1>4. Short(AID, 16)
  BY FillShort DEF AID
<1>5. Short(HISTORICAL_BYTES, 10)
  BY FillShort DEF HISTORICAL_BYTES
<1>6. Short(EXTENDED_LENGTH, 8)
  BY DEF Short, EXTENDED_LENGTH
<1> QED
  BY <1>1, <1>2, <1>3, <1>4, <1>5, <1>6

\* The subkeys of a card.
IsCard(card) == card.Sig \in Subkeys /\ card.Dec \in Subkeys /\ card.Aut \in Subkeys

\* A short value with a tag of one octet can be read, and is at most two octets
\* longer.
LEMMA ShortObject ==
    ASSUME NEW t \in {79, 91, 101, 110, 115, 122, 129, 130, 134, 147, 192, 193, 194, 195,
                      196, 197, 198, 205},
           NEW val, NEW n \in 0..127, Short(val, n)
    PROVE  Encodable(t, val) /\ Short(tlv(t, val), n + 2)
<1>1. t \in Word /\ ReadableTag(t) /\ t <= 255
  BY OneOctetTags, SMT
<1>2. n \in 0..255 /\ n <= 127
  OBVIOUS
<1>3. Encodable(t, val)
  BY <1>1, <1>2, ShortEncodable, Zenon
<1>4. Short(tlv(t, val), n + 2)
  BY <1>1, <1>2, <1>3, TlvShort
<1> QED
  BY <1>3, <1>4

\* The discretionary data are read back as eight objects, and fit 198 octets.
LEMMA DiscretionaryRead ==
    ASSUME NEW card, IsCard(card)
    PROVE  /\ Short(DiscretionaryData(card), 198)
           /\ Objects(DiscretionaryData(card)) =
                <<Object(192, EXTENDED_CAPABILITIES),
                  Object(193, AlgorithmAttributes(card.Sig)),
                  Object(194, AlgorithmAttributes(card.Dec)),
                  Object(195, AlgorithmAttributes(card.Aut)),
                  Object(196, PWStatusBytes),
                  Object(197, Fingerprints(card)),
                  Object(198, CAFingerprints),
                  Object(205, GenerationEpochs(card))>>
<1> DEFINE x1 == EXTENDED_CAPABILITIES
           x2 == AlgorithmAttributes(card.Sig)
           x3 == AlgorithmAttributes(card.Dec)
           x4 == AlgorithmAttributes(card.Aut)
           x5 == PWStatusBytes
           x6 == Fingerprints(card)
           x7 == CAFingerprints
           x8 == GenerationEpochs(card)
<1>1. Short(x1, 10) /\ Short(x5, 7) /\ Short(x7, 60)
  BY FixedShort
<1>2. Short(x2, 11) /\ Short(x3, 11) /\ Short(x4, 11)
  BY AttributesShort DEF IsCard
<1>3. Short(x6, 60)
  <2>1. Short(PerRole(card, 20), 3 * 20)
    BY PerRoleShort
  <2> QED
    BY <2>1 DEF Fingerprints
<1>4. Short(x8, 12)
  <2>1. Short(PerRole(card, 4), 3 * 4)
    BY PerRoleShort
  <2> QED
    BY <2>1 DEF GenerationEpochs
<1>5. DiscretionaryData(card) = tlv(192, x1) \o tlv(193, x2) \o tlv(194, x3)
        \o tlv(195, x4) \o tlv(196, x5) \o tlv(197, x6) \o tlv(198, x7) \o tlv(205, x8)
  BY DEF DiscretionaryData
<1> HIDE DEF x1, x2, x3, x4, x5, x6, x7, x8
<1>11. Encodable(192, x1) /\ Short(tlv(192, x1), 12)
  BY <1>1, ShortObject
<1>12. Encodable(193, x2) /\ Short(tlv(193, x2), 13)
  BY <1>2, ShortObject
<1>13. Encodable(194, x3) /\ Short(tlv(194, x3), 13)
  BY <1>2, ShortObject
<1>14. Encodable(195, x4) /\ Short(tlv(195, x4), 13)
  BY <1>2, ShortObject
<1>15. Encodable(196, x5) /\ Short(tlv(196, x5), 9)
  BY <1>1, ShortObject
<1>16. Encodable(197, x6) /\ Short(tlv(197, x6), 62)
  BY <1>3, ShortObject
<1>17. Encodable(198, x7) /\ Short(tlv(198, x7), 62)
  BY <1>1, ShortObject
<1>18. Encodable(205, x8) /\ Short(tlv(205, x8), 14)
  BY <1>4, ShortObject
<1> DEFINE w2 == tlv(192, x1) \o tlv(193, x2)
           w3 == w2 \o tlv(194, x3)
           w4 == w3 \o tlv(195, x4)
           w5 == w4 \o tlv(196, x5)
           w6 == w5 \o tlv(197, x6)
           w7 == w6 \o tlv(198, x7)
           w8 == w7 \o tlv(205, x8)
<1>22. Short(w2, 25)
  BY <1>11, <1>12, ShortConcat
<1>23. Short(w3, 38)
  BY <1>13, <1>22, ShortConcat
<1>24. Short(w4, 51)
  BY <1>14, <1>23, ShortConcat
<1>25. Short(w5, 60)
  BY <1>15, <1>24, ShortConcat
<1>26. Short(w6, 122)
  BY <1>16, <1>25, ShortConcat
<1>27. Short(w7, 184)
  BY <1>17, <1>26, ShortConcat
<1>28. Short(w8, 198)
  BY <1>18, <1>27, ShortConcat
<1> DEFINE t == <<192, 193, 194, 195, 196, 197, 198, 205>>
           x == <<x1, x2, x3, x4, x5, x6, x7, x8>>
<1>29. /\ t[1] = 192 /\ t[2] = 193 /\ t[3] = 194 /\ t[4] = 195
       /\ t[5] = 196 /\ t[6] = 197 /\ t[7] = 198 /\ t[8] = 205
       /\ x[1] = x1 /\ x[2] = x2 /\ x[3] = x3 /\ x[4] = x4
       /\ x[5] = x5 /\ x[6] = x6 /\ x[7] = x7 /\ x[8] = x8
  OBVIOUS
<1> HIDE DEF t, x
<1>30. \A i \in 1..8 : Encodable(t[i], x[i])
  <2> SUFFICES ASSUME NEW i \in 1..8 PROVE Encodable(t[i], x[i])
    OBVIOUS
  <2>1. \/ i = 1 \/ i = 2 \/ i = 3 \/ i = 4 \/ i = 5 \/ i = 6 \/ i = 7 \/ i = 8
    OBVIOUS
  <2> QED
    BY <1>11, <1>12, <1>13, <1>14, <1>15, <1>16, <1>17, <1>18, <1>29, <2>1
<1>31. Objects(tlv(t[1], x[1]) \o tlv(t[2], x[2]) \o tlv(t[3], x[3]) \o tlv(t[4], x[4])
                 \o tlv(t[5], x[5]) \o tlv(t[6], x[6]) \o tlv(t[7], x[7])
                 \o tlv(t[8], x[8]))
         = <<Object(t[1], x[1]), Object(t[2], x[2]), Object(t[3], x[3]),
             Object(t[4], x[4]), Object(t[5], x[5]), Object(t[6], x[6]),
             Object(t[7], x[7]), Object(t[8], x[8])>>
  BY <1>30, ReadsEight, Zenon
<1> QED
  BY <1>5, <1>28, <1>29, <1>31 DEF x1, x2, x3, x4, x5, x6, x7, x8

\* The same for a longer value, and for a tag of two octets.
LEMMA LongObject ==
    ASSUME NEW t \in {79, 91, 101, 110, 115, 122, 129, 130, 134, 147, 192, 193, 194, 195,
                      196, 197, 198, 205},
           NEW val, NEW n \in Nat, n <= 255, Short(val, n)
    PROVE  Encodable(t, val) /\ Short(tlv(t, val), n + 3)
<1>1. t \in Word /\ ReadableTag(t) /\ t <= 255
  BY OneOctetTags, SMT
<1>0. n \in 0..255
  OBVIOUS
<1>2. Encodable(t, val)
  BY <1>0, <1>1, ShortEncodable, Zenon
<1>3. Short(tlv(t, val), n + 3)
  BY <1>0, <1>1, <1>2, TlvShort
<1> QED
  BY <1>2, <1>3

\* A tag of two octets.
LEMMA TwoOctetObject ==
    ASSUME NEW t, t \in Word, ReadableTag(t), NEW val, NEW n \in 0..127, Short(val, n)
    PROVE  Encodable(t, val) /\ Short(tlv(t, val), n + 3)
<1>1. n \in 0..255
  OBVIOUS
<1>2. Encodable(t, val)
  BY <1>1, ShortEncodable, Zenon
<1>3. Short(tlv(t, val), n + 3)
  BY <1>1, <1>2, TlvShort
<1> QED
  BY <1>2, <1>3

\* The value of the application related data.
ApplicationValue(card) ==
    tlv(79, AID) \o tlv(24402, HISTORICAL_BYTES) \o tlv(32614, EXTENDED_LENGTH)
      \o tlv(115, DiscretionaryData(card))

\* The application related data are read back, and fit a short response.
LEMMA ApplicationRead ==
    ASSUME NEW card, IsCard(card)
    PROVE  /\ Short(ApplicationRelatedData(card), 246)
           /\ Objects(ApplicationRelatedData(card))
                = <<Object(110, ApplicationValue(card))>>
           /\ Objects(ApplicationValue(card))
                = <<Object(79, AID), Object(24402, HISTORICAL_BYTES),
                    Object(32614, EXTENDED_LENGTH), Object(115, DiscretionaryData(card))>>
<1> DEFINE x1 == AID
           x2 == HISTORICAL_BYTES
           x3 == EXTENDED_LENGTH
           x4 == DiscretionaryData(card)
           t2 == 24402
           t3 == 32614
           w2 == tlv(79, x1) \o tlv(t2, x2)
           w3 == w2 \o tlv(t3, x3)
           w4 == w3 \o tlv(115, x4)
<1>1. Short(x1, 16) /\ Short(x2, 10) /\ Short(x3, 8)
  BY FixedShort
<1>2. Short(x4, 198)
  BY DiscretionaryRead
<1>3. t2 \in Word /\ ReadableTag(t2) /\ t3 \in Word /\ ReadableTag(t3)
  BY TwoOctetTags, SMT
<1>4. ApplicationValue(card) = w4
  BY SMT DEF ApplicationValue
<1>5. ApplicationRelatedData(card) = tlv(110, w4)
  BY SMT DEF ApplicationRelatedData
<1> HIDE DEF x1, x2, x3, x4, t2, t3
<1>6. Encodable(79, x1) /\ Short(tlv(79, x1), 18)
  BY <1>1, ShortObject
<1>7. Encodable(t2, x2) /\ Short(tlv(t2, x2), 13)
  BY <1>1, <1>3, TwoOctetObject
<1>8. Encodable(t3, x3) /\ Short(tlv(t3, x3), 11)
  BY <1>1, <1>3, TwoOctetObject
<1>9. Encodable(115, x4) /\ Short(tlv(115, x4), 201)
  BY <1>2, LongObject, SMT
<1>10. Short(w2, 31)
  BY <1>6, <1>7, ShortConcat
<1>11. Short(w3, 42)
  BY <1>8, <1>10, ShortConcat
<1>12. Short(w4, 243)
  BY <1>9, <1>11, ShortConcat
<1>13. Objects(w4) = <<Object(79, x1), Object(t2, x2), Object(t3, x3), Object(115, x4)>>
  BY <1>6, <1>7, <1>8, <1>9, ReadsFour
<1> HIDE DEF w4
<1>14. Encodable(110, w4) /\ Short(tlv(110, w4), 246)
  BY <1>12, LongObject, SMT
<1>15. Objects(tlv(110, w4)) = <<Object(110, w4)>>
  BY <1>14, ReadsOne, Zenon
<1> QED
  BY <1>4, <1>5, <1>13, <1>14, <1>15, SMT DEF x1, x2, x3, x4, t2, t3

\* The algorithm information is read back.
LEMMA AlgorithmsRead ==
    ASSUME NEW card, IsCard(card)
    PROVE  Objects(AlgorithmInformation(card))
             = <<Object(193, AlgorithmAttributes(card.Sig)),
                 Object(194, AlgorithmAttributes(card.Dec)),
                 Object(195, AlgorithmAttributes(card.Aut))>>
<1> DEFINE x1 == AlgorithmAttributes(card.Sig)
           x2 == AlgorithmAttributes(card.Dec)
           x3 == AlgorithmAttributes(card.Aut)
<1>1. Short(x1, 11) /\ Short(x2, 11) /\ Short(x3, 11)
  BY AttributesShort DEF IsCard
<1>2. AlgorithmInformation(card) = tlv(193, x1) \o tlv(194, x2) \o tlv(195, x3)
  BY DEF AlgorithmInformation
<1> HIDE DEF x1, x2, x3
<1>3. Encodable(193, x1) /\ Encodable(194, x2) /\ Encodable(195, x3)
  BY <1>1, ShortObject
<1>4. Objects(tlv(193, x1) \o tlv(194, x2) \o tlv(195, x3))
        = <<Object(193, x1), Object(194, x2), Object(195, x3)>>
  BY <1>3, ReadsThree
<1> QED
  BY <1>2, <1>4 DEF x1, x2, x3

\* The value of the cardholder related data.
HolderValue(card) ==
    tlv(91, Fill(card.Name, 78)) \o tlv(24365, Fill(2, 76)) \o tlv(24373, Fill(1, 57))

\* The cardholder related data are read back with a name of any length.
LEMMA HolderRead ==
    ASSUME NEW card, card.Name \in Lengths
    PROVE  /\ Objects(CardholderRelatedData(card)) = <<Object(101, HolderValue(card))>>
           /\ Objects(HolderValue(card))
                = <<Object(91, Fill(card.Name, 78)), Object(24365, Fill(2, 76)),
                    Object(24373, Fill(1, 57))>>
<1> DEFINE n == card.Name
           x1 == Fill(n, 78)
           x2 == Fill(2, 76)
           x3 == Fill(1, 57)
           t2 == 24365
           t3 == 24373
           e1 == tlv(91, x1)
           w2 == e1 \o tlv(t2, x2)
           w3 == w2 \o tlv(t3, x3)
<1>1. n \in Word /\ n \in Nat
  BY LengthsAreWords, Zenon
<1>2. x1 \in Seq(Nat) /\ Len(x1) = n
  BY <1>1, FillSeq
<1>3. Short(x2, 2) /\ Short(x3, 1)
  BY FillShort
<1>4. t2 \in Word /\ ReadableTag(t2) /\ t3 \in Word /\ ReadableTag(t3)
  BY TwoOctetTags, SMT
<1>5. HolderValue(card) = w3
  BY SMT DEF HolderValue
<1>6. CardholderRelatedData(card) = tlv(101, w3)
  BY SMT DEF CardholderRelatedData
<1> HIDE DEF x1, x2, x3, t2, t3
<1>7. Encodable(91, x1)
  <2>1. 91 \in Word /\ ReadableTag(91)
    BY OneOctetTags
  <2> QED
    BY <1>1, <1>2, <2>1, Zenon DEF Encodable
<1>8. Encodable(t2, x2) /\ Short(tlv(t2, x2), 5)
  BY <1>3, <1>4, TwoOctetObject
<1>9. Encodable(t3, x3) /\ Short(tlv(t3, x3), 4)
  BY <1>3, <1>4, TwoOctetObject
<1>10. Objects(w3) = <<Object(91, x1), Object(t2, x2), Object(t3, x3)>>
  BY <1>7, <1>8, <1>9, ReadsThree
<1>11. Short(e1, n + 4)
  <2>1. e1 \in Seq(Nat) /\ Len(e1) = Len(tagOf(91)) + Len(lengthOf(n)) + n
    BY <1>2, <1>7, TlvSeq, SMT
  <2>2. Len(tagOf(91)) = 1
    <3>1. 91 \in Word
      BY OneOctetTags
    <3> QED
      BY <3>1, TagValue
  <2>3. Len(lengthOf(n)) \in {1, 2, 3}
    <3>1. (n <= 127 => Len(lengthOf(n)) = 1) /\ (n > 255 => Len(lengthOf(n)) = 3)
      BY <1>1, LengthValue, SMT
    <3>2. n > 127 /\ n <= 255 => Len(lengthOf(n)) = 2
      BY <1>1, LengthValue, Zenon
    <3> QED
      BY <1>1, <3>1, <3>2
  <2>4. Len(e1) <= n + 4
    <3> DEFINE a == Len(tagOf(91))
               b == Len(lengthOf(n))
               m == Len(e1)
    <3>1. m = a + b + n /\ a = 1 /\ b \in {1, 2, 3}
      BY <2>1, <2>2, <2>3, Zenon
    <3> HIDE DEF a, b, m, n, e1
    <3>2. m <= n + 4
      BY <1>1, <3>1
    <3> QED
      BY <3>2 DEF m
  <2> QED
    BY <2>1, <2>4, Zenon DEF Short
<1> HIDE DEF e1, n
<1>12. Short(w2, (n + 4) + 5)
  BY <1>1, <1>8, <1>11, ShortConcat
<1>13. Short(w3, ((n + 4) + 5) + 4)
  BY <1>1, <1>9, <1>12, ShortConcat
<1> HIDE DEF w3
<1>14. Encodable(101, w3)
  <2>1. w3 \in Seq(Nat) /\ Len(w3) \in Nat /\ Len(w3) <= ((n + 4) + 5) + 4
    BY <1>13, LenProperties DEF Short
  <2>2. n <= 65522
    BY LengthsBound, SMT DEF n
  <2>3. Len(w3) <= 65535
    BY <1>1, <2>1, <2>2, SMT
  <2>4. Len(w3) \in Word
    BY <2>1, <2>3, SMT DEF Word
  <2>5. 101 \in Word /\ ReadableTag(101)
    BY OneOctetTags
  <2> QED
    BY <2>1, <2>4, <2>5, Zenon DEF Encodable
<1>15. Objects(tlv(101, w3)) = <<Object(101, w3)>>
  BY <1>14, ReadsOne, Zenon
<1> QED
  BY <1>5, <1>6, <1>10, <1>15, SMT DEF n, x1, x2, x3, t2, t3

\* The input and the answers when the data objects have been asked for.
LEMMA CardAnswers ==
    ASSUME EncodingsInv, Evaluated("card")
    PROVE  /\ IsCard(input) /\ input.Name \in Lengths
           /\ output[79] = AID
           /\ output[101] = CardholderRelatedData(input)
           /\ output[110] = ApplicationRelatedData(input)
           /\ output[196] = PWStatusBytes
           /\ output[250] = AlgorithmInformation(input)
           /\ output[24402] = HISTORICAL_BYTES
           /\ output[32614] = EXTENDED_LENGTH
<1>1. input.kind = "card"
  BY DEF Evaluated
<1>2. input \in [kind: {"card"}, Sig: Subkeys, Dec: Subkeys, Aut: Subkeys,
                 Name: Lengths, counter: {0}]
  BY <1>1 DEF EncodingsInv, Inputs
<1>3. IsCard(input) /\ input.Name \in Lengths
  BY <1>2 DEF IsCard
<1>4. output = [tag \in DOs |-> GetData(tag, input)]
  BY <1>1 DEF EncodingsInv, Evaluated, Result
<1>5. \A tag \in DOs : output[tag] = GetData(tag, input)
  BY <1>4
<1>6. /\ 79 \in DOs /\ 101 \in DOs /\ 110 \in DOs /\ 196 \in DOs /\ 250 \in DOs
      /\ 24402 \in DOs /\ 32614 \in DOs
  BY SMT DEF DOs
<1>7. GetData(79, input) = AID
  BY SMT DEF GetData
<1>8. GetData(101, input) = CardholderRelatedData(input)
  BY SMT DEF GetData
<1>9. GetData(110, input) = ApplicationRelatedData(input)
  BY SMT DEF GetData
<1>10. GetData(196, input) = PWStatusBytes
  BY SMT DEF GetData
<1>11. GetData(250, input) = AlgorithmInformation(input)
  BY SMT DEF GetData
<1>12. GetData(24402, input) = HISTORICAL_BYTES
  BY SMT DEF GetData
<1>13. GetData(32614, input) = EXTENDED_LENGTH
  BY SMT DEF GetData
<1> QED
  BY <1>3, <1>5, <1>6, <1>7, <1>8, <1>9, <1>10, <1>11, <1>12, <1>13, SMT

\* The fields of an object.
LEMMA ObjectFields ==
    ASSUME NEW t, NEW val
    PROVE  Object(t, val).tag = t /\ Object(t, val).val = val
BY DEF Object

\* A host reads the objects of the card from the answers to GET DATA.
LEMMA CardReadBack ==
    ASSUME EncodingsInv, Evaluated("card")
    PROVE  ObjectsReadBack
<1> DEFINE role(subkey, n, id) == Fill(n, IF subkey = "nil" THEN 0 ELSE id)
           application == Objects(output[110])[1].val
           discretionary == Objects(application)[4].val
           holder == Objects(output[101])[1].val
<1>1. IsCard(input) /\ input.Name \in Lengths
  BY CardAnswers, SMT
<1>2. output[110] = ApplicationRelatedData(input)
  BY CardAnswers, SMT
<1>3. output[101] = CardholderRelatedData(input)
  BY CardAnswers, SMT
<1>4. output[250] = AlgorithmInformation(input)
  BY CardAnswers, SMT
<1>5. /\ output[79] = AID /\ output[196] = PWStatusBytes
      /\ output[24402] = HISTORICAL_BYTES /\ output[32614] = EXTENDED_LENGTH
  BY CardAnswers, SMT
<1>6. Objects(output[110]) = <<Object(110, ApplicationValue(input))>>
  BY <1>1, <1>2, ApplicationRead, SMT
<1>7. application = ApplicationValue(input)
  BY <1>6, ObjectFields
<1>8. Objects(application)
        = <<Object(79, AID), Object(24402, HISTORICAL_BYTES),
            Object(32614, EXTENDED_LENGTH), Object(115, DiscretionaryData(input))>>
  BY <1>1, <1>7, ApplicationRead, SMT
<1>9. Len(output[110]) <= 256
  <2>1. Short(ApplicationRelatedData(input), 246)
    BY <1>1, ApplicationRead, SMT
  <2> QED
    BY <1>2, <2>1, LenProperties DEF Short
<1>10. Objects(output[101]) = <<Object(101, HolderValue(input))>>
  BY <1>1, <1>3, HolderRead, SMT
<1>11. holder = HolderValue(input)
  BY <1>10, ObjectFields
<1>12. Objects(holder) = <<Object(91, Fill(input.Name, 78)), Object(24365, Fill(2, 76)),
                           Object(24373, Fill(1, 57))>>
  BY <1>1, <1>11, HolderRead, SMT
<1>13. Objects(output[250])
         = <<Object(193, AlgorithmAttributes(input.Sig)),
             Object(194, AlgorithmAttributes(input.Dec)),
             Object(195, AlgorithmAttributes(input.Aut))>>
  BY <1>1, <1>4, AlgorithmsRead, SMT
<1> HIDE DEF application, holder
<1>14. discretionary = DiscretionaryData(input)
  <2>1. Objects(application)[4] = Object(115, DiscretionaryData(input))
    BY <1>8, SMT
  <2> QED
    BY <2>1, ObjectFields
<1> HIDE DEF discretionary
<1>15. Objects(discretionary) =
         <<Object(192, EXTENDED_CAPABILITIES),
           Object(193, AlgorithmAttributes(input.Sig)),
           Object(194, AlgorithmAttributes(input.Dec)),
           Object(195, AlgorithmAttributes(input.Aut)),
           Object(196, PWStatusBytes),
           Object(197, Fingerprints(input)),
           Object(198, CAFingerprints),
           Object(205, GenerationEpochs(input))>>
  BY <1>1, <1>14, DiscretionaryRead
<1>16. /\ Fingerprints(input) = role(input.Sig, 20, 1) \o role(input.Dec, 20, 2)
                                  \o role(input.Aut, 20, 3)
       /\ GenerationEpochs(input) = role(input.Sig, 4, 1) \o role(input.Dec, 4, 2)
                                      \o role(input.Aut, 4, 3)
       /\ CAFingerprints = Fill(60, 0)
  BY Zenon DEF Fingerprints, GenerationEpochs, PerRole, CAFingerprints
<1>17. Objects(output[110]) = <<Object(110, application)>>
  BY <1>6, <1>7
<1>18. Objects(application)
         = <<Object(79, output[79]), Object(24402, output[24402]),
             Object(32614, output[32614]), Object(115, discretionary)>>
  BY <1>5, <1>8, <1>14, SMT
<1>19. Objects(discretionary) =
         <<Object(192, EXTENDED_CAPABILITIES),
           Object(193, AlgorithmAttributes(input.Sig)),
           Object(194, AlgorithmAttributes(input.Dec)),
           Object(195, AlgorithmAttributes(input.Aut)),
           Object(196, output[196]),
           Object(197, role(input.Sig, 20, 1) \o role(input.Dec, 20, 2)
                         \o role(input.Aut, 20, 3)),
           Object(198, Fill(60, 0)),
           Object(205, role(input.Sig, 4, 1) \o role(input.Dec, 4, 2)
                         \o role(input.Aut, 4, 3))>>
  <2>1. output[196] = PWStatusBytes
    BY <1>5, SMT
  <2> DEFINE fingerprints == role(input.Sig, 20, 1) \o role(input.Dec, 20, 2)
                               \o role(input.Aut, 20, 3)
             epochs == role(input.Sig, 4, 1) \o role(input.Dec, 4, 2)
                         \o role(input.Aut, 4, 3)
             none == Fill(60, 0)
  <2>2. Fingerprints(input) = fingerprints
    BY <1>16, Zenon
  <2>3. GenerationEpochs(input) = epochs
    BY <1>16, Zenon
  <2>4. CAFingerprints = none
    BY <1>16, Zenon
  <2> HIDE DEF fingerprints, epochs, none
  <2>5. Objects(discretionary) =
          <<Object(192, EXTENDED_CAPABILITIES),
            Object(193, AlgorithmAttributes(input.Sig)),
            Object(194, AlgorithmAttributes(input.Dec)),
            Object(195, AlgorithmAttributes(input.Aut)),
            Object(196, output[196]),
            Object(197, fingerprints),
            Object(198, none),
            Object(205, epochs)>>
    BY <1>15, <2>1, <2>2, <2>3, <2>4
  <2> QED
    BY <2>5, Zenon DEF fingerprints, epochs, none
<1>20. Objects(output[101]) = <<Object(101, holder)>>
  BY <1>10, <1>11
<1> QED
  BY <1>9, <1>12, <1>13, <1>17, <1>18, <1>19, <1>20, SMT
     DEF ObjectsReadBack, application, discretionary, holder

\* Two pairs after each other.
LEMMA ConcatPairs ==
    ASSUME NEW a, NEW b, NEW c, NEW d
    PROVE  <<a, b>> \o <<c, d>> = <<a, b, c, d>>
<1> DEFINE S == {a, b, c, d}
           x == <<a, b>>
           y == <<c, d>>
           w == <<a, b, c, d>>
<1>1. x \in Seq(S) /\ y \in Seq(S) /\ w \in Seq(S) /\ Len(x) = 2 /\ Len(y) = 2 /\ Len(w) = 4
  OBVIOUS
<1>2. /\ w[1] = x[1] /\ w[2] = x[2] /\ w[3] = y[1] /\ w[4] = y[2]
  OBVIOUS
<1> HIDE DEF x, y, w, S
<1>3. /\ x \o y \in Seq(S) /\ Len(x \o y) = Len(x) + Len(y)
      /\ \A i \in 1..Len(x) + Len(y) :
            (x \o y)[i] = IF i <= Len(x) THEN x[i] ELSE y[i - Len(x)]
  BY <1>1, ConcatProperties, Zenon
<1>4. ASSUME NEW i \in 1..Len(w) PROVE (x \o y)[i] = w[i]
  <2>1. (x \o y)[i] = IF i <= 2 THEN x[i] ELSE y[i - 2]
    BY <1>1, <1>3
  <2>2. i = 1 \/ i = 2 \/ i = 3 \/ i = 4
    BY <1>1
  <2> QED
    BY <1>2, <2>1, <2>2
<1>5. Len(x \o y) = Len(w)
  BY <1>1, <1>3
<1>6. x \o y = w
  BY <1>1, <1>3, <1>4, <1>5, SeqEqual
<1> QED
  BY <1>6 DEF x, y, w

\* What follows the first of four.
LEMMA TailOfFour ==
    ASSUME NEW a, NEW b, NEW c, NEW d
    PROVE  Tail(<<a, b, c, d>>) = <<b, c, d>>
OBVIOUS

\* A counter that fits three octets.
IsCounter(n) == n \in Nat /\ n <= 16777215

\* The number that three octets stand for.
NumberOf(x) == 65536 * x[1] + 256 * x[2] + x[3]

\* The octets of such a counter.
LEMMA CounterOctets ==
    ASSUME NEW n, IsCounter(n)
    PROVE  /\ Short(Tail(uint32(n)), 3)
           /\ NumberOf(Tail(uint32(n))) = n
<1> DEFINE h == n \div 65536
           a == (h \div 256) % 256
           b == h % 256
           c == (n \div 256) % 256
           d == n % 256
<1>0. n \in Nat
  BY SMT DEF IsCounter
<1>1. h \in Nat /\ h <= 255
  BY SMT DEF IsCounter
<1>2. b = h
  BY <1>1, SMT
<1>3. c \in Nat /\ d \in Nat
  BY <1>0, SMT
<1>4. n = 65536 * h + 256 * c + d
  <2> DEFINE m == n \div 256
  <2>1. m \in Nat /\ n = 256 * m + d
    BY <1>0, SMT
  <2>2. m \div 256 = h
    BY <1>0, SMT
  <2>3. m = 256 * (m \div 256) + (m % 256)
    BY <2>1, SMT
  <2>4. c = m % 256
    OBVIOUS
  <2> HIDE DEF m, h, c, d
  <2>5. m = 256 * h + c
    BY <2>2, <2>3, <2>4, Zenon
  <2> QED
    BY <1>0, <1>1, <1>3, <2>1, <2>5, SMT
<1>5. uint32(n) = <<a, b>> \o <<c, d>>
  BY SMT DEF uint32, uint16
<1> HIDE DEF h, a, b, c, d
<1>6. Tail(uint32(n)) = <<b, c, d>>
  <2>1. uint32(n) = <<a, b, c, d>>
    BY <1>5, ConcatPairs
  <2> QED
    BY <2>1, TailOfFour
<1>7. b \in Nat
  BY <1>1, <1>2, Zenon
<1>8. <<b, c, d>> \in Seq(Nat) /\ Len(<<b, c, d>>) <= 3
  BY <1>3, <1>7, SMT
<1>9. <<b, c, d>>[1] = b /\ <<b, c, d>>[2] = c /\ <<b, c, d>>[3] = d
  BY SMT
<1>10. Short(Tail(uint32(n)), 3)
  BY <1>6, <1>8, Zenon DEF Short
<1>11. /\ Tail(uint32(n))[1] = h /\ Tail(uint32(n))[2] = c /\ Tail(uint32(n))[3] = d
  BY <1>2, <1>6, <1>9, Zenon
<1>12. NumberOf(Tail(uint32(n))) = n
  <2> DEFINE y == Tail(uint32(n))
  <2>1. y[1] = h /\ y[2] = c /\ y[3] = d
    BY <1>11
  <2> HIDE DEF y
  <2>2. NumberOf(y) = n
    BY <1>4, <2>1, SMT DEF NumberOf
  <2> QED
    BY <2>2, Zenon DEF y
<1> QED
  BY <1>10, <1>12, Zenon

\* The counters are numbers.
LEMMA CountersAreNat ==
    ASSUME NEW n \in Counters
    PROVE  n \in Nat
BY EncodingsAssumption, SMT

\* A host reads the signature counter.
LEMMA CounterReadBack ==
    ASSUME EncodingsInv, Evaluated("counter")
    PROVE  CounterReported
<1> DEFINE n == input.counter
           c == DigitalSignatureCounter(n)
           x == Tail(uint32(c))
           e == tlv(147, x)
<1>1. input.kind = "counter"
  BY DEF Evaluated
<1>2. input \in [kind: {"counter"}, counter: Counters]
  BY <1>1 DEF EncodingsInv, Inputs
<1>3. output = <<GetData(122, input), c>>
  BY <1>1, SMT DEF EncodingsInv, Evaluated, Result
<1>4. n \in Nat
  <2>1. n \in Counters
    BY <1>2
  <2> QED
    BY <2>1, CountersAreNat, Zenon
<1>5. IsCounter(c) /\ (n < 16777216 => c = n)
  BY <1>4, SMT DEF DigitalSignatureCounter, IsCounter
<1>6. GetData(122, input) = SecuritySupportTemplate(n)
  BY SMT DEF GetData
<1>7. SecuritySupportTemplate(n) = tlv(122, e)
  BY Zenon DEF SecuritySupportTemplate
<1> HIDE DEF n, c
<1>8. Short(x, 3) /\ NumberOf(x) = c
  <2>1. IsCounter(c)
    BY <1>5, SMT
  <2> QED
    BY <2>1, CounterOctets, Zenon
<1> HIDE DEF x
<1>9. Encodable(147, x) /\ Short(e, 5)
  BY <1>8, ShortObject
<1>10. Objects(e) = <<Object(147, x)>>
  BY <1>9, ReadsOne, Zenon
<1> HIDE DEF e
<1>11. Encodable(122, e)
  BY <1>9, ShortObject
<1>12. Objects(tlv(122, e)) = <<Object(122, e)>>
  BY <1>11, ReadsOne, Zenon
<1>13. output[1] = tlv(122, e) /\ output[2] = c
  BY <1>3, <1>6, <1>7
<1>14. Objects(output[1])[1].val = e
  BY <1>12, <1>13, ObjectFields
<1>15. Objects(Objects(output[1])[1].val)[1].val = x
  BY <1>10, <1>14, ObjectFields
<1> QED
  BY <1>5, <1>8, <1>13, <1>15, SMT DEF CounterReported, NumberOf, n

\* The points of all curves have at most 133 octets.
LEMMA PointShort ==
    ASSUME NEW curve \in Curves
    PROVE  Short(Point(curve), 133)
<1> DEFINE n == CASE curve = "P-256"     -> 65
                  [] curve = "P-384"     -> 97
                  [] curve = "P-521"     -> 133
                  [] curve = "brainpool" -> 129
<1>1. n \in Nat /\ n <= 133
  BY DEF Curves
<1>2. Point(curve) = Fill(n, 4)
  BY DEF Point
<1> HIDE DEF n
<1>3. Fill(n, 4) \in Seq(Nat) /\ Len(Fill(n, 4)) = n
  BY <1>1, FillSeq
<1> QED
  BY <1>1, <1>2, <1>3 DEF Short

\* The octets of the public exponent.
LEMMA Exponent == uint32(65537) = <<0, 1, 0, 1>>
<1> DEFINE n == 65537
<1> DEFINE h == n \div 65536
<1>1. uint16(h) = <<0, 1>>
  <2>1. h = 1
    BY SMT
  <2> QED
    BY <2>1, SMT DEF uint16
<1>2. uint16(n) = <<0, 1>>
  <2>1. (n \div 256) % 256 = 0 /\ n % 256 = 1
    BY SMT
  <2> QED
    BY <2>1, SMT DEF uint16
<1> HIDE DEF n
<1>3. uint32(n) = uint16(h) \o uint16(n)
  BY SMT DEF uint32
<1> HIDE DEF h
<1>4. uint32(n) = <<0, 1, 0, 1>>
  <2>1. <<0, 1>> \o <<0, 1>> = <<0, 1, 0, 1>>
    BY ConcatPairs, Zenon
  <2>2. uint32(n) = <<0, 1>> \o <<0, 1>>
    BY ONLY <1>1, <1>2, <1>3, Zenon
  <2> QED
    BY <2>1, <2>2, Zenon
<1> QED
  BY <1>4, SMT DEF n

\* A value of any length that fits can be read.
LEMMA WordEncodable ==
    ASSUME NEW t \in Word, ReadableTag(t), NEW val, NEW n \in Word, Short(val, n)
    PROVE  Encodable(t, val)
<1>1. val \in Seq(Nat) /\ Len(val) \in Nat /\ Len(val) <= n
  BY LenProperties DEF Short
<1>2. Len(val) \in Word
  BY <1>1, SMT DEF Word
<1> QED
  BY <1>1, <1>2, Zenon DEF Encodable

\* A host finds the public key in the template.
LEMMA PublicKeyReadBack ==
    ASSUME EncodingsInv, Evaluated("template")
    PROVE  LET inner == Objects(Objects(output)[1].val) IN
           IF input.subkey = "rsa"
           THEN inner = <<Object(129, Fill(384, 255)), Object(130, <<0, 1, 0, 1>>)>>
           ELSE inner = <<Object(134, Point(input.subkey))>>
<1> DEFINE t == 32585
<1>1. input.kind = "template"
  BY DEF Evaluated
<1>2. input \in [kind: {"template"}, subkey: Curves \cup {"rsa"}]
  BY <1>1 DEF EncodingsInv, Inputs
<1>3. output = PublicKeyTemplate(input.subkey)
  BY <1>1, SMT DEF EncodingsInv, Evaluated, Result
<1>4. t \in Word /\ ReadableTag(t)
  BY TwoOctetTags, SMT
<1>5. ASSUME NEW e, Encodable(t, e), output = tlv(t, e)
      PROVE  Objects(Objects(output)[1].val) = Objects(e)
  <2> HIDE DEF t
  <2>1. Objects(output) = <<Object(t, e)>>
    BY <1>5, ReadsOne, Zenon
  <2>2. Objects(output)[1].val = e
    BY <2>1, ObjectFields
  <2> QED
    BY <2>2, Zenon
<1>6. CASE input.subkey = "rsa"
  <2> DEFINE x == Fill(384, 255)
             y == uint32(65537)
             e == tlv(129, x) \o tlv(130, y)
  <2>1. output = tlv(t, e)
    BY <1>3, <1>6, SMT DEF PublicKeyTemplate
  <2>2. y = <<0, 1, 0, 1>>
    BY Exponent, SMT
  <2>3. x \in Seq(Nat) /\ Len(x) = 384
    <3>1. ASSUME NEW n \in Nat PROVE Fill(n, 255) \in Seq(Nat) /\ Len(Fill(n, 255)) = n
      BY FillSeq
    <3> DEFINE k == 384
    <3>2. k \in Nat /\ x = Fill(k, 255)
      OBVIOUS
    <3> HIDE DEF k, x
    <3>3. x \in Seq(Nat) /\ Len(x) = k
      BY <3>1, <3>2, Zenon
    <3> QED
      BY <3>3, Zenon DEF k
  <2> HIDE DEF x, y, t
  <2>4. Short(y, 4)
    BY <2>2, SMT DEF Short
  <2>5. Encodable(130, y) /\ Short(tlv(130, y), 6)
    BY <2>4, ShortObject
  <2>6. 129 \in Word /\ ReadableTag(129)
    BY OneOctetTags
  <2>7. Len(x) \in Word
    BY <2>3, SMT DEF Word
  <2>8. Encodable(129, x)
    BY <2>3, <2>6, <2>7, Zenon DEF Encodable
  <2>9. Short(tlv(129, x), 388)
    <3>1. tlv(129, x) \in Seq(Nat)
      BY <2>8, TlvSeq, Zenon
    <3>2. Len(tlv(129, x)) = Len(tagOf(129)) + Len(lengthOf(Len(x))) + Len(x)
      BY <2>8, TlvSeq, Zenon
    <3>3. Len(tagOf(129)) = 1
      BY <2>6, TagValue
    <3>4. Len(lengthOf(Len(x))) = 3
      BY <2>3, <2>7, LengthValue
    <3>5. Len(tlv(129, x)) <= 388
      <4> DEFINE a == Len(tagOf(129))
                 b == Len(lengthOf(Len(x)))
                 c == Len(x)
                 m == Len(tlv(129, x))
      <4>1. m = a + b + c /\ a = 1 /\ b = 3 /\ c = 384
        BY <2>3, <3>2, <3>3, <3>4
      <4> HIDE DEF a, b, c, m
      <4>2. m <= 388
        BY <4>1
      <4> QED
        BY <4>2 DEF m
    <3> QED
      BY <3>1, <3>5, SMT DEF Short
  <2>10. Short(e, 388 + 6)
    BY <2>5, <2>9, ShortConcat
  <2>11. Objects(e) = <<Object(129, x), Object(130, y)>>
    BY <2>5, <2>8, ReadsTwo
  <2> HIDE DEF e
  <2>12. Encodable(t, e)
    <3> DEFINE n == 388 + 6
    <3>1. n \in Word
      BY SMT DEF Word
    <3>2. Short(e, n)
      BY <2>10
    <3> HIDE DEF n
    <3> QED
      BY <1>4, <3>1, <3>2, WordEncodable, Zenon
  <2>13. Objects(Objects(output)[1].val) = <<Object(129, x), Object(130, y)>>
    BY <1>5, <2>1, <2>11, <2>12, Zenon
  <2> QED
    BY <1>6, <2>2, <2>13, SMT DEF x
<1>7. CASE input.subkey # "rsa"
  <2> DEFINE x == Point(input.subkey)
             e == tlv(134, x)
  <2>1. input.subkey \in Curves
    BY <1>2, <1>7
  <2>2. output = tlv(t, e)
    BY <1>3, <1>7, SMT DEF PublicKeyTemplate
  <2>3. Short(x, 133)
    BY <2>1, PointShort, Zenon
  <2> HIDE DEF x, t
  <2>4. Encodable(134, x) /\ Short(e, 136)
    BY <2>3, LongObject, SMT
  <2>5. Objects(e) = <<Object(134, x)>>
    BY <2>4, ReadsOne, Zenon
  <2> HIDE DEF e
  <2>6. Encodable(t, e)
    <3>1. 136 \in 0..255
      OBVIOUS
    <3> QED
      BY <1>4, <2>4, <3>1, ShortEncodable, Zenon
  <2>7. Objects(Objects(output)[1].val) = <<Object(134, x)>>
    BY <1>5, <2>2, <2>5, <2>6, Zenon
  <2> QED
    BY <1>7, <2>7, Zenon DEF x
<1> QED
  BY <1>6, <1>7, Zenon

\* The card finds the point in a cryptogram.
LEMMA CipherReadBack ==
    ASSUME EncodingsInv, Evaluated("cipher")
    PROVE  output = Point(input.curve)
<1> DEFINE t1 == 166
           t2 == 32585
           t3 == 134
           x == Point(input.curve)
           e3 == tlv(t3, x)
           e2 == tlv(t2, e3)
           e1 == tlv(t1, e2)
<1>1. input.kind = "cipher"
  BY DEF Evaluated
<1>2. input \in [kind: {"cipher"}, curve: Curves]
  BY <1>1 DEF EncodingsInv, Inputs
<1>3. input.curve \in Curves
  BY <1>2
<1>4. output = cipherPoint(e1)
  BY <1>1, SMT DEF EncodingsInv, Evaluated, Result
<1>5. cipherPoint(e1) = v(v(v(e1, t1), t2), t3)
  BY SMT DEF cipherPoint
<1>6. t1 \in Word /\ t2 \in Word /\ ReadableTag(t2) /\ t3 \in Word
  <2>1. t1 \in Word
    BY SMT DEF Word
  <2>2. t2 \in Word /\ ReadableTag(t2)
    BY TwoOctetTags, SMT
  <2>3. t3 \in Word
    BY OneOctetTags
  <2> QED
    BY <2>1, <2>2, <2>3, SMT
<1>7. Short(x, 133)
  BY <1>3, PointShort, Zenon
<1> HIDE DEF x
<1>8. Short(e3, 136)
  BY <1>7, LongObject, SMT
<1> HIDE DEF t1, t2, t3, e3
<1>9. Short(e2, 140)
  <2>1. Encodable(t2, e3)
    <3>1. 136 \in 0..255
      OBVIOUS
    <3> QED
      BY <1>6, <1>8, <3>1, ShortEncodable, Zenon
  <2> QED
    BY <1>8, <2>1, TlvShort
<1> HIDE DEF e2
<1>10. ASSUME NEW w, NEW n \in 0..255, Short(w, n), NEW t \in Word PROVE v(tlv(t, w), t) = w
  <2>1. w \in Seq(Nat) /\ Len(w) \in Nat /\ Len(w) <= 255
    BY <1>10, LenProperties DEF Short
  <2>2. Len(w) \in Word
    BY <2>1, SMT DEF Word
  <2> QED
    BY <2>1, <2>2, VOfTlvAlone, Zenon
<1>11. v(e1, t1) = e2
  BY <1>6, <1>9, <1>10
<1>12. v(e2, t2) = e3
  BY <1>6, <1>8, <1>10 DEF e2
<1>13. v(e3, t3) = x
  BY <1>6, <1>7, <1>10 DEF e3
<1>14. output = x
  BY <1>4, <1>5, <1>11, <1>12, <1>13, Zenon
<1> QED
  BY <1>14, Zenon DEF x

\* A host that follows the standard reads back what the card answers, whatever
\* keys it holds, whatever its counter and however long the name.
THEOREM HostReadsBackTheorem == EncodingsSpec => []HostReadsBack
<1>1. EncodingsInv => HostReadsBack
  <2> SUFFICES ASSUME EncodingsInv PROVE HostReadsBack
    OBVIOUS
  <2>1. ObjectsReadBack
    <3>1. ~Evaluated("card") => ObjectsReadBack
      BY SMT DEF ObjectsReadBack
    <3> QED
      BY <3>1, CardReadBack, Zenon
  <2>2. CounterReported
    <3>1. ~Evaluated("counter") => CounterReported
      BY SMT DEF CounterReported
    <3> QED
      BY <3>1, CounterReadBack, Zenon
  <2>3. TemplateReadBack
    BY PublicKeyReadBack, CipherReadBack, Zenon DEF TemplateReadBack
  <2> QED
    BY <2>1, <2>2, <2>3, Zenon DEF HostReadsBack
<1> QED
  BY <1>1, EncodingsInvariant, PTL

=============================================================================
