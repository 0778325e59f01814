------------------------ MODULE ProtocolStreamProofs ------------------------
(***************************************************************************)
(* Proofs about ProtocolStream, for any base, any length of length fields, *)
(* any buffer and any sizes of strings and integers: a message is read     *)
(* back as it was written, and its header says how long it is.             *)
(***************************************************************************)
EXTENDS ProtocolStream, RecursionFacts, TLAPS, SequenceTheorems

Digit == 0..(Base - 1)

-----------------------------------------------------------------------------
(* Numbers and their digits *)

LEMMA QuotientAndRest ==
    ASSUME NEW n \in Nat, NEW d \in Nat \ {0}
    PROVE  \E p \in Nat : \E s \in 0..(d - 1) :
              p = n \div d /\ s = n % d /\ n = p * d + s
<1>1. PICK p, s : p = n \div d /\ s = n % d
    OBVIOUS
<1>2. p \in Nat /\ s \in 0..(d - 1) /\ n = p * d + s
    BY <1>1
<1> QED BY <1>1, <1>2

LEMMA QuotientIsUnique ==
    ASSUME NEW n \in Nat, NEW d \in Nat \ {0}, NEW q \in Nat, NEW r \in 0..(d - 1),
           n = q * d + r
    PROVE  n \div d = q
<1>1. PICK p, s : p = n \div d /\ s = n % d
    OBVIOUS
<1>2. p \in Nat /\ s \in 0..(d - 1) /\ p * d + s = n
    BY <1>1, QuotientAndRest
<1>3. ~(p < q)
    <2>1. SUFFICES ASSUME p < q
                   PROVE  FALSE
        OBVIOUS
    <2>2. PICK e \in Nat : q = p + 1 + e
        <3>1. q - p - 1 \in Nat /\ q = p + 1 + (q - p - 1)
            BY <1>2, <2>1
        <3> QED BY <3>1
    <2>3. q * d = p * d + d + e * d /\ e * d \in Nat /\ p * d \in Nat
        BY <1>2, <2>2
    <2> QED BY <1>2, <2>3
<1>4. ~(q < p)
    <2>1. SUFFICES ASSUME q < p
                   PROVE  FALSE
        OBVIOUS
    <2>2. PICK e \in Nat : p = q + 1 + e
        <3>1. p - q - 1 \in Nat /\ p = q + 1 + (p - q - 1)
            BY <1>2, <2>1
        <3> QED BY <3>1
    <2>3. p * d = q * d + d + e * d /\ e * d \in Nat /\ q * d \in Nat
        BY <1>2, <2>2
    <2> QED BY <1>2, <2>3
<1> QED BY <1>1, <1>2, <1>3, <1>4

LEMMA QuotientOfQuotient ==
    ASSUME NEW n \in Nat, NEW p \in Nat \ {0}, NEW b \in Nat \ {0}
    PROVE  n \div (b * p) = (n \div p) \div b
<1>1. PICK q, r, s, t : q = n \div p /\ r = n % p /\ s = q \div b /\ t = q % b
    OBVIOUS
<1>2. q \in Nat /\ r \in 0..(p - 1) /\ n = q * p + r
    BY <1>1
<1>3. s \in Nat /\ t \in 0..(b - 1) /\ q = s * b + t
    BY <1>1, <1>2
<1>4. PICK u : u = t * p + r
    OBVIOUS
<1>5. n = s * (b * p) + u
    <2>1. q * p = (s * b) * p + t * p
        <3>1. PICK sb \in Nat : sb = s * b
            BY <1>3
        <3>2. (sb + t) * p = sb * p + t * p
            BY <1>3, <3>1
        <3> QED BY <1>3, <3>1, <3>2
    <2>2. (s * b) * p = s * (b * p)
        BY <1>3
    <2>3. PICK x \in Nat, y \in Nat, z \in Nat :
             x = q * p /\ y = t * p /\ z = (s * b) * p
        BY <1>2, <1>3
    <2>4. x = z + y /\ n = x + r /\ u = y + r /\ r \in Int
        BY <1>2, <1>4, <2>1, <2>3
    <2>5. n = z + u
        BY <2>4
    <2> QED BY <2>2, <2>3, <2>5
<1>6. b * p \in Nat \ {0} /\ u \in 0..(b * p - 1)
    <2>1. PICK e \in Nat : b = t + 1 + e
        <3>1. b - t - 1 \in Nat /\ b = t + 1 + (b - t - 1)
            BY <1>3
        <3> QED BY <3>1
    <2>2. b * p = t * p + p + e * p /\ e * p \in Nat /\ t * p \in Nat
        BY <1>3, <2>1
    <2> QED BY <1>2, <1>4, <2>2
<1>7. n \div (b * p) = s
    <2>1. PICK d \in Nat \ {0} : d = b * p
        BY <1>6
    <2> QED BY <1>3, <1>5, <1>6, <2>1, QuotientIsUnique
<1> QED BY <1>1, <1>7

LEMMA PowersGrow ==
    /\ Power \in [0..LenField -> Nat \ {0}]
    /\ Power[0] = 1
    /\ \A i \in 1..LenField : Power[i] = Base * Power[i - 1]
<1> DEFINE n == LenField
           S == Nat \ {0}
           step == [i \in 1..n |-> [x \in S |-> Base * x]]
           Eq(f) == f = [i \in 0..n |-> IF i = 0 THEN 1 ELSE Base * f[i - 1]]
<1>1. n \in Nat /\ Base \in Nat \ {0} /\ 1 \in S
    BY StreamAssumption
<1>2. StaysIn(step, n, S)
    <2>1. \A x \in S : Base * x \in S
        BY <1>1
    <2> QED BY <2>1 DEF StaysIn
<1>3. PICK f : Follows(f, n, S, 1, step)
    <2> HIDE DEF S, step, n
    <2> QED BY <1>1, <1>2, StepByStep
<1>4. \A i \in 1..n : f[i] = Base * f[i - 1]
    <2> TAKE i \in 1..n
    <2>1. f[i - 1] \in S /\ f[i] = step[i][f[i - 1]]
        <3> HIDE DEF step
        <3>1. i - 1 \in 0..n
            BY <1>1
        <3> QED BY <1>3, <3>1 DEF Follows
    <2>2. \A x \in S : step[i][x] = Base * x
        OBVIOUS
    <2> HIDE DEF step, S
    <2> QED BY <2>1, <2>2
<1>5. Eq(f)
    <2> HIDE DEF step, S
    <2>1. \A i \in 0..n : f[i] = IF i = 0 THEN 1 ELSE Base * f[i - 1]
        BY <1>1, <1>3, <1>4 DEF Follows
    <2> QED BY <1>3, <2>1 DEF Follows
<1>6. Eq(Power)
    <2>1. Power = CHOOSE g : Eq(g)
        BY DEF Power
    <2> HIDE DEF Eq
    <2> QED BY <1>5, <2>1
<1> DEFINE P == Power
<1>7. P[0] = 1 /\ DOMAIN P = 0..n /\ \A i \in 1..n : P[i] = Base * P[i - 1]
    <2>1. P = [i \in 0..n |-> IF i = 0 THEN 1 ELSE Base * P[i - 1]]
        BY <1>6
    <2> HIDE DEF P
    <2>2. \A i \in 0..n : P[i] = IF i = 0 THEN 1 ELSE Base * P[i - 1]
        BY <2>1
    <2>3. DOMAIN P = 0..n
        BY <2>1
    <2> QED BY <1>1, <2>2, <2>3
<1> HIDE DEF P, step
<1> DEFINE C == {i \in 0..n : P[i] \notin S}
<1>8. 0 \notin C
    BY <1>7
<1>9. ASSUME NEW i \in 1..n, i - 1 \notin C
      PROVE  i \notin C
    <2>1. P[i - 1] \in S
        BY <1>1, <1>9
    <2> QED BY <1>1, <1>7, <2>1
<1>10. C = {}
    BY <1>1, <1>8, <1>9, NoLeastCounterexample
<1>11. P \in [0..n -> S]
    <2>1. P = [i \in 0..n |-> P[i]]
        <3>1. P = [i \in 0..n |-> IF i = 0 THEN 1 ELSE Base * P[i - 1]]
            BY <1>6 DEF P
        <3> QED BY <3>1
    <2> QED BY <1>10, <2>1
<1> QED BY <1>7, <1>11 DEF P

\* What Value computes, digit by digit.
LEMMA ValueByDigits ==
    ASSUME NEW field, \A i \in 1..LenField : field[i] \in Nat
    PROVE  \E v \in [0..LenField -> Nat] :
              /\ Value(field) = v[LenField] /\ v[0] = 0
              /\ \A i \in 1..LenField : v[i] = v[i - 1] * Base + field[i]
<1> DEFINE n == LenField
           step == [i \in 1..n |-> [x \in Nat |-> x * Base + field[i]]]
           Eq(f) == f = [i \in 0..n |-> IF i = 0 THEN 0 ELSE f[i - 1] * Base + field[i]]
<1>1. n \in Nat /\ Base \in Nat
    BY StreamAssumption
<1>2. StaysIn(step, n, Nat)
    <2>1. \A i \in 1..n : \A x \in Nat : x * Base + field[i] \in Nat
        BY <1>1
    <2> QED BY <2>1 DEF StaysIn
<1>3. PICK f : Follows(f, n, Nat, 0, step)
    <2> HIDE DEF step, n
    <2> QED BY <1>1, <1>2, StepByStep
<1>4. \A i \in 1..n : f[i] = f[i - 1] * Base + field[i]
    <2> TAKE i \in 1..n
    <2>1. f[i - 1] \in Nat /\ f[i] = step[i][f[i - 1]]
        <3> HIDE DEF step
        <3>1. i - 1 \in 0..n
            BY <1>1
        <3> QED BY <1>3, <3>1 DEF Follows
    <2>2. \A x \in Nat : step[i][x] = x * Base + field[i]
        OBVIOUS
    <2> HIDE DEF step
    <2> QED BY <2>1, <2>2
<1>5. Eq(f)
    <2> HIDE DEF step
    <2>1. \A i \in 0..n : f[i] = IF i = 0 THEN 0 ELSE f[i - 1] * Base + field[i]
        BY <1>1, <1>3, <1>4 DEF Follows
    <2> QED BY <1>3, <2>1 DEF Follows
<1> DEFINE v == CHOOSE g : Eq(g)
<1>6. Eq(v)
    <2> HIDE DEF Eq
    <2> QED BY <1>5
<1>7. Value(field) = v[n]
    BY DEF Value
<1> HIDE DEF v, step
<1>8. v[0] = 0 /\ \A i \in 1..n : v[i] = v[i - 1] * Base + field[i]
    <2>1. \A i \in 0..n : v[i] = IF i = 0 THEN 0 ELSE v[i - 1] * Base + field[i]
        BY <1>6
    <2> QED BY <1>1, <2>1
<1> DEFINE C == {i \in 0..n : v[i] \notin Nat}
<1>9. 0 \notin C
    BY <1>8
<1>10. ASSUME NEW i \in 1..n, i - 1 \notin C
       PROVE  i \notin C
    <2>1. v[i - 1] \in Nat
        BY <1>1, <1>10
    <2> QED BY <1>1, <1>8, <2>1
<1>11. C = {}
    BY <1>1, <1>9, <1>10, NoLeastCounterexample
<1>12. v \in [0..n -> Nat]
    <2>1. v = [i \in 0..n |-> v[i]]
        BY <1>6
    <2> QED BY <1>11, <2>1
<1> QED BY <1>7, <1>8, <1>12

LEMMA ValueIsANumber ==
    ASSUME NEW field, \A i \in 1..LenField : field[i] \in Nat
    PROVE  Value(field) \in Nat
<1>1. PICK v \in [0..LenField -> Nat] : Value(field) = v[LenField]
    BY ValueByDigits
<1>2. LenField \in 0..LenField
    BY StreamAssumption
<1> QED BY <1>1, <1>2

LEMMA DigitsAreDigits ==
    ASSUME NEW n \in Nat
    PROVE  /\ Digits(n) \in [1..LenField -> Digit]
           /\ Digits(n) \in Seq(Digit) /\ Len(Digits(n)) = LenField
           /\ \A i \in 1..LenField : Digits(n)[i] \in Nat
<1>1. Base \in Nat \ {0} /\ LenField \in Nat
    BY StreamAssumption
<1>2. ASSUME NEW i \in 1..LenField
      PROVE  (n \div Power[LenField - i]) % Base \in Digit
    <2>1. LenField - i \in 0..LenField
        BY <1>1
    <2>2. PICK p \in Nat \ {0} : p = Power[LenField - i]
        BY <2>1, PowersGrow
    <2>3. PICK q \in Nat : q = n \div p
        BY <2>2
    <2>4. q % Base \in 0..(Base - 1)
        BY <1>1, <2>3
    <2> QED BY <2>2, <2>3, <2>4 DEF Digit
<1>3. Digits(n) \in [1..LenField -> Digit]
    BY <1>2 DEF Digits
<1>4. Digits(n) \in Seq(Digit) /\ Len(Digits(n)) = LenField
    BY <1>1, <1>3
<1>5. Digit \subseteq Nat
    BY <1>1 DEF Digit
<1> QED BY <1>3, <1>4, <1>5

\* Reading the digits of a number gives the number back, if it has no more
\* digits than the field.
LEMMA ValueOfDigits ==
    ASSUME NEW n \in Nat, n < Max
    PROVE  Value(Digits(n)) = n
<1>1. Base \in Nat \ {0} /\ LenField \in Nat \ {0}
    BY StreamAssumption
<1>2. PICK v \in [0..LenField -> Nat] :
         /\ Value(Digits(n)) = v[LenField] /\ v[0] = 0
         /\ \A i \in 1..LenField : v[i] = v[i - 1] * Base + Digits(n)[i]
    BY DigitsAreDigits, ValueByDigits
<1> DEFINE C == {i \in 0..LenField : v[i] # n \div Power[LenField - i]}
<1>3. 0 \notin C
    <2>1. PICK p \in Nat \ {0} : p = Power[LenField] /\ n < p
        BY <1>1, PowersGrow DEF Max
    <2>2. n \div p = 0
        BY <2>1
    <2>3. LenField - 0 = LenField
        BY <1>1
    <2> QED BY <1>2, <2>1, <2>2, <2>3
<1>4. ASSUME NEW i \in 1..LenField, i - 1 \notin C
      PROVE  i \notin C
    <2>1. /\ LenField - i \in 0..LenField /\ LenField - (i - 1) \in 1..LenField
          /\ (LenField - (i - 1)) - 1 = LenField - i /\ i - 1 \in 0..LenField
        BY <1>1
    <2>2. PICK p \in Nat \ {0} : p = Power[LenField - i]
        BY <2>1, PowersGrow
    <2>3. Power[LenField - (i - 1)] = Base * p
        BY <2>1, <2>2, PowersGrow
    <2>4. PICK q \in Nat : q = n \div p
        BY <2>2
    <2>5. v[i - 1] = q \div Base
        <3>1. v[i - 1] = n \div (Base * p)
            BY <1>4, <2>1, <2>3
        <3> QED BY <1>1, <2>2, <2>4, <3>1, QuotientOfQuotient
    <2>6. Digits(n)[i] = q % Base
        BY <2>2, <2>4 DEF Digits
    <2>7. v[i] = q
        <3>1. v[i] = v[i - 1] * Base + Digits(n)[i]
            BY <1>2
        <3>2. PICK b \in Nat \ {0} : b = Base
            BY <1>1
        <3>3. \E s \in Nat : \E t \in 0..(b - 1) :
                 s = q \div b /\ t = q % b /\ q = s * b + t
            BY QuotientAndRest
        <3> QED BY <2>5, <2>6, <3>1, <3>2, <3>3
    <2> QED BY <2>2, <2>4, <2>7
<1>5. C = {}
    <2> HIDE DEF C
    <2>1. C \in SUBSET (0..LenField)
        BY DEF C
    <2> QED BY <1>1, <1>3, <1>4, <2>1, NoLeastCounterexample
<1>6. v[LenField] = n \div Power[LenField - LenField]
    <2>1. LenField \in 0..LenField
        BY <1>1
    <2> QED BY <1>5, <2>1
<1>7. LenField - LenField = 0 /\ n \div 1 = n
    BY <1>1
<1> QED BY <1>2, <1>6, <1>7, PowersGrow

-----------------------------------------------------------------------------
(* The inductive invariant *)

FieldRecords == [string : BOOLEAN, data : Seq(Digit)]

\* A field's bytes: those of a string have their number in front.
Encoded(f) == IF f.string THEN Digits(Len(f.data)) \o f.data ELSE f.data

\* Where each field starts in out, and the end of the last one.
Layout(pos) ==
    /\ pos \in [1..Len(fields) + 1 -> 0..Len(out)]
    /\ pos[1] = 0 /\ pos[Len(fields) + 1] = Len(out)
    /\ \A i \in 1..Len(fields) :
          /\ pos[i + 1] = pos[i] + Len(Encoded(fields[i]))
          /\ \A j \in 1..Len(Encoded(fields[i])) : out[pos[i] + j] = Encoded(fields[i])[j]

\* The reader has read the first fields and stands where the next one starts.
InStep(pos) ==
    at = "read" => /\ Len(got) \in 0..Len(fields)
                   /\ got = SubSeq(fields, 1, Len(got))
                   /\ cur = LenField + pos[Len(got) + 1]

StreamTypes ==
    /\ binary \in BOOLEAN /\ exclude \in BOOLEAN /\ (exclude => binary)
    /\ header \in [1..LenField -> Digit] /\ header \in Seq(Digit) /\ Len(header) = LenField
    /\ out \in Seq(Digit) /\ LenField + Len(out) <= Cap
    /\ fields \in Seq(FieldRecords) /\ Len(fields) <= MaxFields
    /\ cur \in Nat /\ LenField <= cur
    /\ at \in {"write", "read", "probe", "past", "aborted"}

Reading == {"read", "probe", "past"}

\* What the length field counts.
Counted == IF ~binary \/ exclude THEN Len(out) ELSE LenField + Len(out)

HeaderOK ==
    at \in Reading => header = Digits(Counted) /\ Counted < Max /\ (binary => Len(out) > 0)

NotRead == at \in {"write", "aborted"} => cur = LenField /\ got = <<>>

StreamInv ==
    /\ StreamTypes /\ HeaderOK /\ NotRead /\ CursorInBounds
    /\ \E pos : Layout(pos) /\ InStep(pos)

-----------------------------------------------------------------------------
(* Fields, and what a reader finds in a message *)

LEMMA FieldFacts ==
    ASSUME NEW c \in Seq(Digit), NEW string \in BOOLEAN
    PROVE  /\ Field(string, c) \in FieldRecords
           /\ Field(string, c).string = string /\ Field(string, c).data = c
    BY DEF Field, FieldRecords

LEMMA EncodedFacts ==
    ASSUME NEW f \in FieldRecords
    PROVE  /\ Encoded(f) \in Seq(Digit)
           /\ f.string => Encoded(f) = Digits(Len(f.data)) \o f.data
           /\ f.string => Len(Encoded(f)) = LenField + Len(f.data)
           /\ ~f.string => Encoded(f) = f.data
           /\ f.data \in Seq(Digit)
<1>1. f.data \in Seq(Digit) /\ f.string \in BOOLEAN
    BY DEF FieldRecords
<1>2. Len(f.data) \in Nat
    BY <1>1, LenProperties
<1>3. Digits(Len(f.data)) \in Seq(Digit) /\ Len(Digits(Len(f.data))) = LenField
    BY <1>2, DigitsAreDigits
<1> QED BY <1>1, <1>3, ConcatProperties DEF Encoded

LEMMA MessageFacts ==
    ASSUME StreamTypes
    PROVE  /\ Size = LenField + Len(out) /\ Len(out) \in Nat
           /\ \A p \in LenField..Size : \A n \in 0..(Size - p) :
                 /\ At(p, n) \in Seq(Digit) /\ Len(At(p, n)) = n
                 /\ \A j \in 1..n : At(p, n)[j] = out[p - LenField + j]
<1> DEFINE m == Message
<1>1. /\ header \in Seq(Digit) /\ out \in Seq(Digit) /\ Len(header) = LenField
      /\ LenField \in Nat /\ Len(out) \in Nat
    BY StreamAssumption, LenProperties DEF StreamTypes
<1>2. /\ m \in Seq(Digit) /\ Len(m) = LenField + Len(out)
      /\ \A i \in 1..Len(out) : m[LenField + i] = out[i]
    <2>1. /\ m \in Seq(Digit) /\ Len(m) = Len(header) + Len(out)
          /\ \A i \in 1..Len(header) + Len(out) :
                m[i] = IF i <= Len(header) THEN header[i] ELSE out[i - Len(header)]
        BY <1>1, ConcatProperties DEF Message
    <2>2. ASSUME NEW i \in 1..Len(out)
          PROVE  m[LenField + i] = out[i]
        <3>1. PICK k : k = LenField + i
            OBVIOUS
        <3>2. k \in 1..Len(header) + Len(out) /\ ~(k <= Len(header)) /\ k - Len(header) = i
            BY <1>1, <3>1
        <3> HIDE DEF m
        <3>3. m[k] = IF k <= Len(header) THEN header[k] ELSE out[k - Len(header)]
            BY <2>1, <3>2
        <3> QED BY <3>1, <3>2, <3>3
    <2> QED BY <1>1, <2>1, <2>2
<1>3. Size = Len(m)
    BY DEF Size
<1>4. ASSUME NEW p \in LenField..Size, NEW n \in 0..(Size - p)
      PROVE  /\ At(p, n) \in Seq(Digit) /\ Len(At(p, n)) = n
             /\ \A j \in 1..n : At(p, n)[j] = out[p - LenField + j]
    <2>1. At(p, n) = SubSeq(m, p + 1, p + n)
        BY DEF At
    <2> HIDE DEF m
    <2>2. p \in Nat /\ n \in Nat /\ p + n <= Len(m) /\ p >= LenField /\ Len(m) \in Nat
        BY <1>1, <1>2, <1>3
    <2>3. /\ At(p, n) \in Seq(Digit) /\ Len(At(p, n)) = n
          /\ \A j \in 1..n : At(p, n)[j] = m[p + j]
        BY <1>2, <2>1, <2>2
    <2>4. ASSUME NEW j \in 1..n
          PROVE  m[p + j] = out[p - LenField + j]
        <3>1. p - LenField + j \in 1..Len(out) /\ LenField + (p - LenField + j) = p + j
            BY <1>1, <1>2, <2>2
        <3> QED BY <1>2, <3>1
    <2> QED BY <2>3, <2>4
<1> HIDE DEF m
<1> QED BY <1>1, <1>2, <1>3, <1>4

\* Whatever stands at the reader's position, its digits are some number.
LEMMA NextLengthIsANumber ==
    ASSUME StreamTypes, Holds(LenField)
    PROVE  NextLength \in Nat
<1>1. /\ Size = LenField + Len(out) /\ Len(out) \in Nat /\ LenField \in Nat /\ cur \in Nat
      /\ LenField <= cur /\ cur + LenField <= Size
    BY MessageFacts, StreamAssumption DEF StreamTypes, Holds
<1>2. cur \in LenField..Size /\ LenField \in 0..(Size - cur)
    BY <1>1
<1>3. At(cur, LenField) \in Seq(Digit) /\ Len(At(cur, LenField)) = LenField
    BY <1>2, MessageFacts
<1>4. \A i \in 1..LenField : At(cur, LenField)[i] \in Nat
    <2>1. Digit \subseteq Nat
        BY StreamAssumption DEF Digit
    <2>2. \A i \in 1..LenField : At(cur, LenField)[i] \in Digit
        BY <1>3, ElementOfSeq
    <2> QED BY <2>1, <2>2
<1> QED BY <1>4, ValueIsANumber DEF NextLength

\* The next field of a message that is read is where the reader is.
LEMMA ExpectedIsNext ==
    ASSUME StreamInv, at = "read", Len(got) < Len(fields)
    PROVE  /\ Expected \in FieldRecords
           /\ Expected.string => /\ StringThere /\ NextLength = Len(Expected.data)
                                 /\ At(cur + LenField, NextLength) = Expected.data
           /\ ~Expected.string => At(cur, Len(Expected.data)) = Expected.data
<1>1. PICK pos : Layout(pos) /\ InStep(pos)
    BY DEF StreamInv
<1>2. PICK k, f, e : k = Len(got) + 1 /\ f = fields[k] /\ e = Encoded(f)
    OBVIOUS
<1>3. /\ fields \in Seq(FieldRecords) /\ Len(fields) \in Nat /\ Len(got) \in Nat
      /\ k \in 1..Len(fields) /\ LenField \in Nat
    BY <1>1, <1>2, StreamAssumption, LenProperties DEF StreamInv, StreamTypes, InStep
<1>4. Expected = f /\ f \in FieldRecords
    BY <1>2, <1>3, ElementOfSeq DEF Expected
<1>5. PICK p, n : p = pos[k] /\ n = Len(e)
    OBVIOUS
<1>6. /\ e \in Seq(Digit) /\ f.data \in Seq(Digit)
      /\ n \in Nat /\ Len(f.data) \in Nat
      /\ f.string => e = Digits(Len(f.data)) \o f.data
      /\ f.string => n = LenField + Len(f.data)
      /\ ~f.string => e = f.data
    BY <1>2, <1>4, <1>5, EncodedFacts, LenProperties
<1>7. /\ cur = LenField + p /\ p \in Nat /\ p + n <= Len(out) /\ Len(out) \in Nat
      /\ \A j \in 1..n : out[p + j] = e[j]
    <2>1. cur = LenField + p
        BY <1>1, <1>2, <1>5 DEF InStep
    <2>2. Len(out) \in Nat
        BY LenProperties DEF StreamInv, StreamTypes
    <2>3. k \in 1..Len(fields) + 1 /\ k + 1 \in 1..Len(fields) + 1
        BY <1>3
    <2>4. p \in 0..Len(out) /\ pos[k + 1] \in 0..Len(out)
        BY <1>1, <1>5, <2>3 DEF Layout
    <2>5. pos[k + 1] = p + n /\ \A j \in 1..n : out[p + j] = e[j]
        BY <1>1, <1>2, <1>3, <1>5 DEF Layout
    <2> QED BY <2>1, <2>2, <2>4, <2>5
<1>8. /\ Size = LenField + Len(out) /\ StreamTypes
      /\ \A a \in LenField..Size : \A b \in 0..(Size - a) :
            /\ At(a, b) \in Seq(Digit) /\ Len(At(a, b)) = b
            /\ \A j \in 1..b : At(a, b)[j] = out[a - LenField + j]
    BY MessageFacts DEF StreamInv
<1>9. ~f.string => At(cur, Len(f.data)) = f.data
    <2>1. SUFFICES ASSUME ~f.string
                   PROVE  At(cur, n) = e
        BY <1>5, <1>6
    <2>2. cur \in LenField..Size /\ n \in 0..(Size - cur) /\ cur - LenField = p
        BY <1>3, <1>6, <1>7, <1>8
    <2>3. PICK s : s = At(cur, n)
        OBVIOUS
    <2>4. s \in Seq(Digit) /\ Len(s) = n /\ \A j \in 1..n : s[j] = e[j]
        BY <1>7, <1>8, <2>2, <2>3
    <2> QED BY <1>5, <1>6, <2>3, <2>4, SeqEqual
<1>10. f.string => /\ StringThere /\ NextLength = Len(f.data)
                   /\ At(cur + LenField, NextLength) = f.data
    <2> SUFFICES ASSUME f.string
                 PROVE  /\ StringThere /\ NextLength = Len(f.data)
                        /\ At(cur + LenField, NextLength) = f.data
        OBVIOUS
    <2>1. PICK d, m : m = Len(f.data) /\ d = Digits(m)
        OBVIOUS
    <2>2. /\ m \in Nat /\ n = LenField + m /\ e = d \o f.data
          /\ d \in Seq(Digit) /\ Len(d) = LenField
        BY <1>6, <2>1, DigitsAreDigits
    <2>3. m < Max
        <3>1. Counted < Max /\ Len(out) <= Counted
            BY <1>3, <1>7 DEF StreamInv, HeaderOK, Reading, Counted
        <3>2. Max \in Nat /\ Counted \in Nat
            <4>1. LenField \in 0..LenField
                BY <1>3
            <4> QED BY <1>3, <1>7, <4>1, PowersGrow DEF Max, Counted
        <3> QED BY <1>3, <1>7, <2>2, <3>1, <3>2
    <2>4. /\ cur \in LenField..Size /\ LenField \in 0..(Size - cur) /\ cur - LenField = p
          /\ cur + LenField \in LenField..Size /\ m \in 0..(Size - (cur + LenField))
          /\ (cur + LenField) - LenField = p + LenField
          /\ cur + LenField <= Size /\ cur + (LenField + m) <= Size
        BY <1>3, <1>7, <1>8, <2>2
    <2>5. \A j \in 1..LenField : e[j] = d[j] /\ j \in 1..n
        BY <1>3, <1>6, <2>2, ConcatProperties
    <2>6. \A j \in 1..m : e[LenField + j] = f.data[j] /\ LenField + j \in 1..n
        <3> TAKE j \in 1..m
        <3>1. PICK i : i = LenField + j
            OBVIOUS
        <3>2. i \in 1..Len(d) + Len(f.data) /\ ~(i <= Len(d)) /\ i - Len(d) = j /\ i \in 1..n
            BY <1>3, <2>1, <2>2, <3>1
        <3>3. e[i] = IF i <= Len(d) THEN d[i] ELSE f.data[i - Len(d)]
            BY <1>6, <2>2, <3>2, ConcatProperties
        <3> QED BY <3>1, <3>2, <3>3
    <2>7. At(cur, LenField) = d
        <3>1. PICK s : s = At(cur, LenField)
            OBVIOUS
        <3>2. s \in Seq(Digit) /\ Len(s) = LenField /\ \A j \in 1..LenField : s[j] = out[p + j]
            BY <1>8, <2>4, <3>1
        <3>3. \A j \in 1..LenField : s[j] = d[j]
            BY <1>7, <2>5, <3>2
        <3> QED BY <2>2, <3>1, <3>2, <3>3, SeqEqual
    <2>8. NextLength = m
        BY <2>1, <2>2, <2>3, <2>7, ValueOfDigits DEF NextLength
    <2>9. At(cur + LenField, m) = f.data
        <3>1. PICK s, c : c = cur + LenField /\ s = At(c, m)
            OBVIOUS
        <3>2. /\ s \in Seq(Digit) /\ Len(s) = m
              /\ \A j \in 1..m : s[j] = out[p + LenField + j]
            BY <1>8, <2>4, <3>1
        <3>3. ASSUME NEW j \in 1..m
              PROVE  s[j] = f.data[j]
            <4>1. PICK i : i = LenField + j
                OBVIOUS
            <4>2. i \in 1..n /\ e[i] = f.data[j]
                BY <2>6, <4>1
            <4>3. p + LenField + j = p + i
                BY <1>3, <1>7, <4>1
            <4>4. s[j] = out[p + i]
                BY <3>2, <4>3
            <4> QED BY <1>7, <4>2, <4>4
        <3> QED BY <1>6, <2>1, <3>1, <3>2, <3>3, SeqEqual
    <2>10. StringThere
        BY <2>4, <2>8 DEF StringThere, Holds
    <2> QED BY <2>1, <2>8, <2>9, <2>10
<1> QED BY <1>4, <1>9, <1>10

LEMMA SizeOf ==
    ASSUME StreamTypes
    PROVE  /\ LenField \in Nat \ {0} /\ Len(out) \in Nat /\ Len(fields) \in Nat
           /\ Size = LenField + Len(out) /\ cur \in Nat /\ LenField <= cur
           /\ Max \in Nat /\ Counted \in Nat /\ Counted <= Size
           /\ Cap \in Nat /\ PackageMax \in Nat /\ PackageMax < Max
<1>1. LenField \in 0..LenField /\ LenField \in Nat \ {0}
    BY StreamAssumption
<1>2. Max \in Nat
    BY <1>1, PowersGrow DEF Max
<1>3. Len(out) \in Nat /\ Len(fields) \in Nat
    BY LenProperties DEF StreamTypes
<1> QED BY <1>1, <1>2, <1>3, MessageFacts, StreamAssumption DEF StreamTypes, Counted

LEMMA ContentsAreDigits ==
    ASSUME NEW n \in Nat, NEW c \in Contents(n)
    PROVE  c \in Seq(Digit) /\ Len(c) = n
<1>1. PICK b \in {0, Base - 1} : c = [i \in 1..n |-> b]
    BY DEF Contents
<1>2. b \in Digit
    BY <1>1, StreamAssumption DEF Digit
<1> QED BY <1>1, <1>2

-----------------------------------------------------------------------------
(* A field is written *)

\* The layout of a message that has one more field.
LEMMA LayoutGrows ==
    ASSUME StreamTypes, NEW pos, Layout(pos), NEW f \in FieldRecords, NEW bytes,
           bytes = Encoded(f), out' = out \o bytes, fields' = Append(fields, f)
    PROVE  /\ \E new : Layout(new)'
           /\ out' \in Seq(Digit) /\ Len(out') = Len(out) + Len(bytes)
           /\ fields' \in Seq(FieldRecords) /\ Len(fields') = Len(fields) + 1
<1>1. PICK n, m, b, o, o1, fs, fs1 :
         /\ n = Len(fields) /\ m = Len(out) /\ b = Len(bytes)
         /\ o = out /\ o1 = out' /\ fs = fields /\ fs1 = fields'
    OBVIOUS
<1>2. /\ o \in Seq(Digit) /\ fs \in Seq(FieldRecords) /\ bytes \in Seq(Digit)
      /\ n \in Nat /\ m \in Nat /\ b \in Nat /\ n = Len(fs) /\ m = Len(o)
    BY <1>1, EncodedFacts, LenProperties DEF StreamTypes
<1>3. /\ o1 \in Seq(Digit) /\ Len(o1) = m + b
      /\ \A i \in 1..m + b : o1[i] = IF i <= m THEN o[i] ELSE bytes[i - m]
    BY <1>1, <1>2, ConcatProperties
<1>4. /\ fs1 \in Seq(FieldRecords) /\ Len(fs1) = n + 1
      /\ \A i \in 1..n : fs1[i] = fs[i]
      /\ fs1[n + 1] = f
    BY <1>1, <1>2, AppendProperties
<1> DEFINE new == [i \in 1..n + 2 |-> IF i <= n + 1 THEN pos[i] ELSE m + b]
<1>5. /\ pos \in [1..n + 1 -> 0..m] /\ pos[1] = 0 /\ pos[n + 1] = m
      /\ \A i \in 1..n : /\ pos[i + 1] = pos[i] + Len(Encoded(fs[i]))
                         /\ \A j \in 1..Len(Encoded(fs[i])) :
                               o[pos[i] + j] = Encoded(fs[i])[j]
    BY <1>1 DEF Layout
<1>6. new \in [1..n + 2 -> 0..m + b]
    <2>1. \A i \in 1..n + 1 : pos[i] \in 0..m
        BY <1>5
    <2>2. \A i \in 1..n + 2 : i <= n + 1 => i \in 1..n + 1
        BY <1>2
    <2>3. m + b \in 0..m + b /\ \A x \in 0..m : x \in 0..m + b
        BY <1>2
    <2> QED BY <2>1, <2>2, <2>3
<1>7. new[1] = 0 /\ new[n + 2] = m + b /\ new[n + 1] = m
      /\ \A i \in 1..n + 1 : new[i] = pos[i]
    BY <1>2, <1>5
<1>8. ASSUME NEW i \in 1..n
      PROVE  /\ new[i + 1] = new[i] + Len(Encoded(fs1[i]))
             /\ \A j \in 1..Len(Encoded(fs1[i])) : o1[new[i] + j] = Encoded(fs1[i])[j]
    <2> HIDE DEF new
    <2>1. PICK e, l, p : e = Encoded(fs[i]) /\ l = Len(e) /\ p = pos[i]
        OBVIOUS
    <2>2. fs[i] \in FieldRecords
        BY <1>2, ElementOfSeq
    <2>3. l \in Nat
        BY <2>1, <2>2, EncodedFacts, LenProperties
    <2>4. i \in 1..n + 1 /\ i + 1 \in 1..n + 1
        BY <1>2
    <2>5. p \in 0..m /\ pos[i + 1] \in 0..m /\ pos[i + 1] = p + l
          /\ \A j \in 1..l : o[p + j] = e[j]
        BY <1>5, <2>1, <2>4
    <2>6. new[i] = p /\ new[i + 1] = p + l /\ Encoded(fs1[i]) = e
        BY <1>4, <1>7, <2>1, <2>4, <2>5
    <2>7. ASSUME NEW j \in 1..l
          PROVE  o1[p + j] = e[j]
        <3>1. PICK k : k = p + j
            OBVIOUS
        <3>2. k \in 1..m + b /\ k <= m
            BY <1>2, <2>3, <2>5, <3>1
        <3>3. o1[k] = o[k]
            BY <1>3, <3>2
        <3> QED BY <2>5, <3>1, <3>3
    <2> QED BY <2>1, <2>6, <2>7
<1>9. /\ new[n + 2] = new[n + 1] + Len(Encoded(fs1[n + 1]))
      /\ \A j \in 1..Len(Encoded(fs1[n + 1])) :
            o1[new[n + 1] + j] = Encoded(fs1[n + 1])[j]
    <2> HIDE DEF new
    <2>1. Encoded(fs1[n + 1]) = bytes
        BY <1>4
    <2>2. ASSUME NEW j \in 1..b
          PROVE  o1[m + j] = bytes[j]
        <3>1. PICK k : k = m + j
            OBVIOUS
        <3>2. k \in 1..m + b /\ ~(k <= m) /\ k - m = j
            BY <1>2, <3>1
        <3>3. o1[k] = bytes[k - m]
            BY <1>3, <3>2
        <3> QED BY <3>1, <3>2, <3>3
    <2> QED BY <1>1, <1>7, <2>1, <2>2
<1>10. Layout(new)'
    <2> HIDE DEF new
    <2>1. Len(fields') = n + 1 /\ Len(fields') + 1 = n + 2 /\ Len(out') = m + b
        BY <1>1, <1>2, <1>3, <1>4
    <2>2. ASSUME NEW i \in 1..n + 1
          PROVE  /\ new[i + 1] = new[i] + Len(Encoded(fs1[i]))
                 /\ \A j \in 1..Len(Encoded(fs1[i])) : o1[new[i] + j] = Encoded(fs1[i])[j]
        <3>1. CASE i = n + 1
            <4>1. i + 1 = n + 2
                BY <1>2, <3>1
            <4> QED BY <1>9, <3>1, <4>1
        <3>2. CASE i # n + 1
            <4>1. i \in 1..n
                BY <1>2, <3>2
            <4> QED BY <1>8, <4>1
        <3> QED BY <3>1, <3>2
    <2> QED BY <1>1, <1>6, <1>7, <2>1, <2>2, ZenonT(30) DEF Layout
<1> QED BY <1>1, <1>3, <1>4, <1>10

LEMMA WriteKeeps ==
    ASSUME StreamInv, NEW string \in BOOLEAN, NEW c \in Seq(Digit), NEW bytes,
           bytes = Encoded(Field(string, c)), LenField + Len(out) + Len(bytes) <= Cap,
           Append1(string, c, bytes)
    PROVE  StreamInv'
<1>1. PICK pos : Layout(pos)
    BY DEF StreamInv
<1>2. PICK f : f = Field(string, c) /\ f \in FieldRecords
    BY FieldFacts
<1>3. /\ at = "write" /\ Len(fields) < MaxFields
      /\ out' = out \o bytes /\ fields' = Append(fields, f)
      /\ UNCHANGED <<binary, exclude, header, cur, got, at>>
    BY <1>2 DEF Append1
<1>4. PICK new : Layout(new)'
    BY <1>1, <1>2, <1>3, LayoutGrows DEF StreamInv
<1>5. /\ out' \in Seq(Digit) /\ Len(out') = Len(out) + Len(bytes)
      /\ fields' \in Seq(FieldRecords) /\ Len(fields') = Len(fields) + 1
    BY <1>1, <1>2, <1>3, LayoutGrows DEF StreamInv
<1>6. /\ LenField \in Nat /\ Len(out) \in Nat /\ Len(bytes) \in Nat /\ Len(fields) \in Nat
      /\ MaxFields \in Nat /\ Cap \in Nat
    BY <1>2, EncodedFacts, LenProperties, StreamAssumption DEF StreamInv, StreamTypes
<1>7. StreamTypes'
    BY <1>3, <1>5, <1>6 DEF StreamInv, StreamTypes
<1>8. HeaderOK' /\ NotRead' /\ InStep(new)'
    BY <1>3 DEF StreamInv, HeaderOK, NotRead, InStep, Reading
<1>9. CursorInBounds'
    <2>1. Size' = (LenField + Len(out))'
        BY <1>5, <1>7, ConcatProperties DEF Size, Message, StreamTypes
    <2>2. cur' = LenField
        BY <1>3 DEF StreamInv, NotRead
    <2> QED BY <1>5, <1>6, <2>1, <2>2 DEF CursorInBounds
<1> QED BY <1>4, <1>7, <1>8, <1>9 DEF StreamInv

-----------------------------------------------------------------------------
(* The message is finished *)

LEMMA SentKeeps ==
    ASSUME StreamInv, at = "write", Sent(Counted), Counted < Max, binary => Len(out) > 0
    PROVE  StreamInv'
<1>1. PICK pos : Layout(pos)
    BY DEF StreamInv
<1>2. /\ header' = Digits(Counted) /\ at' \in {"read", "probe"}
      /\ UNCHANGED <<binary, exclude, out, fields, cur, got>>
    BY DEF Sent
<1>3. /\ LenField \in Nat \ {0} /\ Len(out) \in Nat /\ Len(fields) \in Nat
      /\ Counted \in Nat /\ Size = LenField + Len(out)
    BY SizeOf DEF StreamInv
<1>4. /\ header' \in [1..LenField -> Digit] /\ header' \in Seq(Digit)
      /\ Len(header') = LenField
    BY <1>2, <1>3, DigitsAreDigits
<1>5. StreamTypes'
    BY <1>2, <1>4 DEF StreamInv, StreamTypes
<1>6. HeaderOK'
    <2>1. Counted' = Counted
        BY <1>2 DEF Counted
    <2> QED BY <1>2, <2>1 DEF HeaderOK
<1>7. cur = LenField /\ got = <<>>
    BY DEF StreamInv, NotRead
<1>8. NotRead'
    BY <1>2 DEF NotRead
<1>9. CursorInBounds'
    <2>1. /\ header' \in Seq(Digit) /\ out' \in Seq(Digit) /\ Len(header') = LenField
          /\ Len(out') = Len(out)
        BY <1>2, <1>4 DEF StreamInv, StreamTypes
    <2>2. Size' = LenField + Len(out)
        <3>1. PICK h, o : h = header' /\ o = out'
            OBVIOUS
        <3>2. h \in Seq(Digit) /\ o \in Seq(Digit) /\ Len(h) = LenField /\ Len(o) = Len(out)
            BY <2>1, <3>1
        <3>3. Len(h \o o) = Len(h) + Len(o)
            BY <3>2, ConcatProperties
        <3>4. Size' = Len(h \o o)
            BY <3>1 DEF Size, Message
        <3> QED BY <3>2, <3>3, <3>4
    <2> QED BY <1>2, <1>3, <1>7, <2>2 DEF CursorInBounds
<1>10. Layout(pos)'
    BY <1>1, <1>2 DEF Layout
<1>11. InStep(pos)'
    <2>1. Len(<<>>) = 0 /\ <<>> = SubSeq(fields, 1, 0)
        <3>1. SubSeq(fields, 1, 0) = <<>>
            BY DEF StreamInv, StreamTypes
        <3> QED BY <3>1
    <2>2. pos[1] = 0
        BY <1>1 DEF Layout
    <2>3. PICK g : g = Len(got)
        OBVIOUS
    <2>4. g = 0 /\ g + 1 = 1 /\ Len(got') = g /\ got' = SubSeq(fields', 1, g)
        BY <1>2, <1>7, <2>1, <2>3
    <2>5. cur' = LenField + pos[g + 1] /\ g \in 0..Len(fields')
        BY <1>2, <1>3, <1>7, <2>2, <2>4
    <2> QED BY <2>4, <2>5 DEF InStep
<1> QED BY <1>5, <1>6, <1>8, <1>9, <1>10, <1>11 DEF StreamInv

LEMMA TextFlushKeeps ==
    ASSUME StreamInv, TextFlush
    PROVE  StreamInv'
<1>1. at = "write" /\ ~binary
    BY DEF TextFlush
<1>2. CASE Len(out) < Max
    <2>1. Counted = Len(out)
        BY <1>1 DEF Counted
    <2>2. Sent(Counted)
        BY <1>2, <2>1 DEF TextFlush
    <2> QED BY <1>1, <1>2, <2>1, <2>2, SentKeeps
<1>3. CASE ~(Len(out) < Max)
    <2>1. at' = "aborted" /\ UNCHANGED <<binary, exclude, header, out, fields, cur, got>>
        BY <1>3 DEF TextFlush
    <2>2. PICK pos : Layout(pos)
        BY DEF StreamInv
    <2>3. Layout(pos)' /\ InStep(pos)'
        BY <2>1, <2>2 DEF Layout, InStep
    <2>4. StreamTypes' /\ HeaderOK' /\ NotRead' /\ CursorInBounds'
        BY <1>1, <2>1
        DEF StreamInv, StreamTypes, HeaderOK, Reading, NotRead, CursorInBounds, Size, Message
    <2> QED BY <2>3, <2>4 DEF StreamInv
<1> QED BY <1>2, <1>3

LEMMA BinaryFlushKeeps ==
    ASSUME StreamInv, BinaryFlush
    PROVE  StreamInv'
<1>1. at = "write" /\ binary /\ BinaryValid
    BY DEF BinaryFlush, Valid
<1>2. /\ LenField \in Nat /\ Len(out) \in Nat /\ Max \in Nat
      /\ PackageMax \in Nat /\ PackageMax < Max
    BY SizeOf DEF StreamInv
<1>3. Len(out) > 0 /\ LenField + Len(out) <= PackageMax
    BY <1>1, <1>2 DEF BinaryValid
<1>4. Counted < Max
    BY <1>2, <1>3 DEF Counted
<1>5. Sent(Counted)
    BY <1>1 DEF BinaryFlush, Counted
<1> QED BY <1>1, <1>3, <1>4, <1>5, SentKeeps

\* A message of no fields lies out as nothing.
LEMMA NoFields ==
    ASSUME out' = <<>>, fields' = <<>>
    PROVE  Layout([i \in 1..1 |-> 0])'
<1>1. Len(<<>>) = 0 /\ 0 + 1 = 1 /\ 0 \in 0..0
    OBVIOUS
<1>2. [i \in 1..1 |-> 0] \in [1..1 -> 0..0] /\ [i \in 1..1 |-> 0][1] = 0
    OBVIOUS
<1>3. \A i \in 1..0 : FALSE
    OBVIOUS
<1> QED BY <1>1, <1>2, <1>3 DEF Layout

LEMMA RestartKeeps ==
    ASSUME StreamInv, Restart
    PROVE  StreamInv'
<1>1. /\ at = "write" /\ out' = <<>> /\ fields' = <<>>
      /\ UNCHANGED <<binary, exclude, header, cur, got, at>>
    BY DEF Restart
<1>2. PICK pos : Layout(pos)'
    BY <1>1, NoFields
<1>3. InStep(pos)' /\ HeaderOK' /\ NotRead'
    BY <1>1 DEF InStep, HeaderOK, Reading, NotRead, StreamInv
<1>4. StreamTypes'
    <2>1. <<>> \in Seq(Digit) /\ <<>> \in Seq(FieldRecords) /\ Len(<<>>) = 0
        OBVIOUS
    <2> QED BY <1>1, <2>1, StreamAssumption DEF StreamInv, StreamTypes
<1>5. CursorInBounds'
    <2>1. /\ header' \in Seq(Digit) /\ out' \in Seq(Digit) /\ Len(header') = LenField
          /\ Len(out') = 0
        BY <1>1, <1>4 DEF StreamTypes
    <2>2. Size' = LenField + 0
        BY <2>1, ConcatProperties DEF Size, Message
    <2> QED BY <1>1, <2>2, StreamAssumption DEF CursorInBounds, StreamInv, NotRead
<1> QED BY <1>2, <1>3, <1>4, <1>5 DEF StreamInv

-----------------------------------------------------------------------------
(* The message is read *)

\* What a reader takes: something that is there and, if it knows the fields,
\* the next of them.
LEMMA ReadsKeep ==
    ASSUME StreamInv, at \in {"read", "probe"}, NEW string, NEW c, NEW n \in Nat,
           Reads(string, c, n), Holds(n),
           at = "read" => /\ Len(got) < Len(fields)
                          /\ Field(string, c) = Expected /\ n = Len(Encoded(Expected))
    PROVE  StreamInv'
<1>1. PICK pos : Layout(pos) /\ InStep(pos)
    BY DEF StreamInv
<1>2. /\ cur' = cur + n
      /\ UNCHANGED <<binary, exclude, header, out, fields, at>>
      /\ at = "read" => got' = Append(got, Field(string, c))
    BY DEF Reads
<1>3. LenField \in Nat /\ cur \in Nat /\ LenField <= cur /\ Len(fields) \in Nat
    BY SizeOf DEF StreamInv
<1>4. StreamTypes' /\ HeaderOK' /\ NotRead' /\ Layout(pos)'
    <2>1. StreamTypes'
        BY <1>2, <1>3 DEF StreamInv, StreamTypes
    <2>2. HeaderOK' /\ NotRead'
        BY <1>2 DEF StreamInv, HeaderOK, NotRead, Counted
    <2>3. Layout(pos)'
        BY <1>1, <1>2 DEF Layout
    <2> QED BY <2>1, <2>2, <2>3
<1>5. CursorInBounds'
    <2>1. Size' = Size
        BY <1>2 DEF Size, Message
    <2> QED BY <1>2, <2>1 DEF Holds, CursorInBounds
<1>6. InStep(pos)'
    <2>1. SUFFICES ASSUME at = "read"
                   PROVE  InStep(pos)'
        BY <1>2 DEF InStep
    <2>2. PICK k, g : k = Len(got) /\ g = got
        OBVIOUS
    <2>3. /\ k \in 0..Len(fields) /\ g = SubSeq(fields, 1, k) /\ cur = LenField + pos[k + 1]
          /\ k < Len(fields) /\ fields \in Seq(FieldRecords)
        BY <1>1, <2>1, <2>2 DEF InStep, StreamInv, StreamTypes
    <2>4. k \in Nat /\ k + 1 \in 1..Len(fields) /\ fields[k + 1] = Expected
        BY <1>3, <2>2, <2>3 DEF Expected
    <2>5. pos[(k + 1) + 1] = pos[k + 1] + n
        BY <1>1, <2>1, <2>4 DEF Layout
    <2>6. pos[k + 1] \in Nat
        <3>1. k + 1 \in 1..Len(fields) + 1
            BY <1>3, <2>4
        <3> QED BY <1>1, <3>1 DEF Layout
    <2>7. cur' = LenField + pos[(k + 1) + 1]
        BY <1>2, <1>3, <2>3, <2>5, <2>6
    <2>8. got' = Append(g, fields[k + 1])
        BY <1>2, <2>1, <2>2, <2>4
    <2>9. got' = SubSeq(fields, 1, k + 1) /\ Len(got') = k + 1
        <3>1. g \in Seq(FieldRecords) /\ Len(g) = k
            BY <2>2, <2>3, <2>4
        <3>2. fields[k + 1] \in FieldRecords
            BY <2>3, <2>4, ElementOfSeq
        <3>3. /\ got' \in Seq(FieldRecords) /\ Len(got') = k + 1
              /\ got'[k + 1] = fields[k + 1]
              /\ \A i \in 1..k : got'[i] = g[i]
            BY <2>8, <3>1, <3>2, AppendProperties
        <3>4. PICK s : s = SubSeq(fields, 1, k + 1)
            OBVIOUS
        <3>5. /\ s \in Seq(FieldRecords) /\ Len(s) = k + 1
              /\ \A i \in 1..k + 1 : s[i] = fields[i]
            BY <2>3, <2>4, <3>4
        <3>6. \A i \in 1..k : g[i] = fields[i]
            BY <2>3, <2>4
        <3>7. \A i \in 1..k + 1 : got'[i] = s[i]
            BY <2>4, <3>3, <3>5, <3>6
        <3> QED BY <3>3, <3>4, <3>5, <3>7, SeqEqual
    <2>10. k + 1 \in 0..Len(fields)
        BY <1>3, <2>4
    <2> QED BY <1>2, <2>7, <2>9, <2>10 DEF InStep
<1> QED BY <1>4, <1>5, <1>6 DEF StreamInv

LEMMA ReadExpectedKeeps ==
    ASSUME StreamInv, ReadExpected
    PROVE  StreamInv'
<1>1. at = "read" /\ Len(got) < Len(fields)
    BY DEF ReadExpected
<1>2. PICK f : f = Expected /\ f \in FieldRecords
    BY <1>1, ExpectedIsNext
<1>3. f = Field(f.string, f.data) /\ f.data \in Seq(Digit)
    BY <1>2 DEF FieldRecords, Field
<1>4. LenField \in Nat /\ Len(f.data) \in Nat
    BY <1>3, SizeOf, LenProperties DEF StreamInv
<1>5. CASE f.string
    <2>1. StringThere /\ NextLength = Len(f.data) /\ At(cur + LenField, NextLength) = f.data
        BY <1>1, <1>2, <1>5, ExpectedIsNext
    <2>2. Reads(TRUE, f.data, LenField + Len(f.data))
        BY <1>2, <1>5, <2>1 DEF ReadExpected, ReadString
    <2>3. Field(TRUE, f.data) = f
        BY <1>2, <1>5 DEF Field, FieldRecords
    <2>4. LenField + Len(f.data) \in Nat /\ Holds(LenField + Len(f.data))
        BY <1>4, <2>1 DEF StringThere
    <2>5. LenField + Len(f.data) = Len(Encoded(f))
        BY <1>2, <1>5, EncodedFacts
    <2> QED BY <1>1, <1>2, <2>2, <2>3, <2>4, <2>5, ReadsKeep
<1>6. CASE ~f.string
    <2>1. At(cur, Len(f.data)) = f.data
        BY <1>1, <1>2, <1>6, ExpectedIsNext
    <2>2. Reads(FALSE, f.data, Len(f.data)) /\ Holds(Len(f.data))
        BY <1>2, <1>6, <2>1 DEF ReadExpected, ReadFixed
    <2>3. Field(FALSE, f.data) = f
        BY <1>2, <1>6 DEF Field, FieldRecords
    <2>4. Len(f.data) = Len(Encoded(f))
        BY <1>2, <1>6, EncodedFacts
    <2> QED BY <1>1, <1>2, <1>4, <2>2, <2>3, <2>4, ReadsKeep
<1> QED BY <1>5, <1>6

LEMMA ProbeKeeps ==
    ASSUME StreamInv, Probe
    PROVE  StreamInv'
<1>1. at = "probe" /\ LenField \in Nat /\ StreamTypes
    BY SizeOf DEF Probe, StreamInv
<1>2. CASE ReadString
    <2>1. Holds(LenField) /\ Holds(LenField + NextLength)
        BY <1>2 DEF ReadString, StringThere
    <2>2. NextLength \in Nat
        BY <1>1, <2>1, NextLengthIsANumber
    <2>3. LenField + NextLength \in Nat
        BY <1>1, <2>2
    <2> QED BY <1>1, <1>2, <2>1, <2>3, ReadsKeep DEF ReadString
<1>3. CASE ReadLength
    BY <1>1, <1>3, ReadsKeep DEF ReadLength
<1>4. ASSUME NEW n \in Sizes, ReadFixed(n)
      PROVE  StreamInv'
    <2>1. n \in Nat
        BY StreamAssumption
    <2> QED BY <1>1, <1>4, <2>1, ReadsKeep DEF ReadFixed
<1>5. ASSUME NEW n \in Sizes, ReadContent(n)
      PROVE  StreamInv'
    <2>1. n \in Nat
        BY StreamAssumption
    <2> QED BY <1>1, <1>5, <2>1, ReadsKeep DEF ReadContent
<1> QED BY <1>2, <1>3, <1>4, <1>5 DEF Probe

\* A reader that does not know the fields may go past the end, or begin again.
LEMMA ReadPastKeeps ==
    ASSUME StreamInv, ReadPast
    PROVE  StreamInv'
<1>1. /\ at = "probe" /\ Holds(LenField) /\ at' = "past"
      /\ cur' = cur + LenField + NextLength
      /\ UNCHANGED <<binary, exclude, header, out, fields, got>>
    BY DEF ReadPast
<1>2. PICK pos : Layout(pos)
    BY DEF StreamInv
<1>3. NextLength \in Nat /\ LenField \in Nat /\ cur \in Nat /\ LenField <= cur
    BY <1>1, NextLengthIsANumber, SizeOf DEF StreamInv
<1>4. StreamTypes'
    BY <1>1, <1>3 DEF StreamInv, StreamTypes
<1>5. HeaderOK'
    BY <1>1 DEF StreamInv, HeaderOK, Reading, Counted
<1>6. NotRead' /\ CursorInBounds' /\ Layout(pos)' /\ InStep(pos)'
    BY <1>1, <1>2 DEF NotRead, CursorInBounds, Layout, InStep
<1> QED BY <1>4, <1>5, <1>6 DEF StreamInv

LEMMA RewindKeeps ==
    ASSUME StreamInv, Rewind
    PROVE  StreamInv'
<1>1. /\ at \in Reading /\ cur' = LenField /\ got' = <<>>
      /\ at' \in {"read", "probe"}
      /\ UNCHANGED <<binary, exclude, header, out, fields>>
    BY DEF Rewind, Reading
<1>2. PICK pos : Layout(pos)
    BY DEF StreamInv
<1>3. /\ LenField \in Nat /\ Len(out) \in Nat /\ Size = LenField + Len(out)
      /\ Len(fields) \in Nat
    BY SizeOf DEF StreamInv
<1>4. StreamTypes'
    BY <1>1, <1>3 DEF StreamInv, StreamTypes
<1>5. HeaderOK' /\ NotRead' /\ Layout(pos)'
    BY <1>1, <1>2 DEF StreamInv, HeaderOK, Reading, NotRead, Counted, Layout
<1>6. CursorInBounds'
    <2>1. Size' = Size
        BY <1>1 DEF Size, Message
    <2> QED BY <1>1, <1>3, <2>1 DEF CursorInBounds
<1>7. InStep(pos)'
    <2>1. Len(<<>>) = 0 /\ <<>> = SubSeq(fields, 1, 0)
        <3>1. SubSeq(fields, 1, 0) = <<>>
            BY DEF StreamInv, StreamTypes
        <3> QED BY <3>1
    <2>2. pos[1] = 0
        BY <1>2 DEF Layout
    <2>3. PICK g : g = Len(got')
        OBVIOUS
    <2>4. g = 0 /\ g + 1 = 1 /\ got' = SubSeq(fields', 1, g)
        BY <1>1, <2>1, <2>3
    <2>5. cur' = LenField + pos[g + 1] /\ g \in 0..Len(fields')
        BY <1>1, <1>3, <2>2, <2>4
    <2> QED BY <2>3, <2>4, <2>5 DEF InStep
<1> QED BY <1>4, <1>5, <1>6, <1>7 DEF StreamInv

-----------------------------------------------------------------------------
(* The theorems *)

LEMMA InitHolds == Init => StreamInv
<1> SUFFICES ASSUME Init
             PROVE  StreamInv
    OBVIOUS
<1>1. /\ LenField \in Nat \ {0} /\ Cap \in Nat /\ LenField <= Cap /\ MaxFields \in Nat
      /\ 0 \in Nat
    BY StreamAssumption
<1>2. /\ header \in [1..LenField -> Digit] /\ header \in Seq(Digit)
      /\ Len(header) = LenField
    BY <1>1, DigitsAreDigits DEF Init
<1>3. Len(<<>>) = 0 /\ <<>> \in Seq(Digit) /\ <<>> \in Seq(FieldRecords)
    OBVIOUS
<1>4. StreamTypes
    BY <1>1, <1>2, <1>3 DEF Init, StreamTypes
<1>5. HeaderOK /\ NotRead
    BY DEF Init, HeaderOK, NotRead, Reading
<1>6. CursorInBounds
    BY <1>1, <1>3, <1>4, SizeOf DEF Init, CursorInBounds
<1>7. PICK pos : Layout(pos)
    <2>1. [i \in 1..1 |-> 0] \in [1..1 -> 0..0] /\ [i \in 1..1 |-> 0][1] = 0
        OBVIOUS
    <2>2. 0 + 1 = 1 /\ \A i \in 1..0 : FALSE
        OBVIOUS
    <2>3. Layout([i \in 1..1 |-> 0])
        BY <1>3, <2>1, <2>2 DEF Init, Layout
    <2> QED BY <2>3
<1>8. InStep(pos)
    BY DEF Init, InStep
<1> QED BY <1>4, <1>5, <1>6, <1>7, <1>8 DEF StreamInv

LEMMA NextKeeps == StreamInv /\ [Next]_vars => StreamInv'
<1> SUFFICES ASSUME StreamInv, [Next]_vars
             PROVE  StreamInv'
    OBVIOUS
<1>1. /\ LenField \in Nat /\ Len(out) \in Nat
      /\ Strings \subseteq Nat /\ Sizes \subseteq Nat
    BY StreamAssumption, SizeOf DEF StreamInv
<1>2. ASSUME NEW n \in Strings, NEW c \in Contents(n), TextWrite(c) \/ BinaryWrite(c)
      PROVE  StreamInv'
    <2>1. n \in Nat /\ c \in Seq(Digit) /\ Len(c) = n
        BY <1>1, ContentsAreDigits
    <2>2. PICK bytes : bytes = Digits(Len(c)) \o c
        OBVIOUS
    <2>3. bytes = Encoded(Field(TRUE, c)) /\ Len(bytes) = LenField + n
        <3>1. Field(TRUE, c) \in FieldRecords
            BY <2>1, FieldFacts
        <3> QED BY <2>1, <2>2, <3>1, FieldFacts, EncodedFacts
    <2>4. Append1(TRUE, c, bytes) /\ Room(Len(c))
        BY <1>2, <2>2 DEF TextWrite, BinaryWrite
    <2>5. LenField + Len(out) + Len(bytes) <= Cap
        <3>1. Cap \in Nat /\ Len(bytes) = LenField + n /\ Len(c) = n /\ n \in Nat
            BY <2>1, <2>3, StreamAssumption
        <3>2. LenField + Len(out) + LenField + n <= Cap
            BY <2>1, <2>4 DEF Room
        <3>3. PICK l, o : l = Len(bytes) /\ o = Len(out)
            OBVIOUS
        <3> QED BY <1>1, <3>1, <3>2, <3>3
    <2> QED BY <2>1, <2>3, <2>4, <2>5, WriteKeeps
<1>3. ASSUME NEW n \in Sizes, NEW c \in Contents(n), BinaryWriteFixed(c)
      PROVE  StreamInv'
    <2>1. n \in Nat /\ c \in Seq(Digit) /\ Len(c) = n
        BY <1>1, ContentsAreDigits
    <2>2. c = Encoded(Field(FALSE, c))
        BY <2>1, FieldFacts, EncodedFacts
    <2>3. Append1(FALSE, c, c) /\ LenField + Len(out) + Len(c) <= Cap
        BY <1>3 DEF BinaryWriteFixed
    <2> QED BY <2>1, <2>2, <2>3, WriteKeeps
<1>4. CASE UNCHANGED vars
    <2>1. PICK pos : Layout(pos) /\ InStep(pos)
        BY DEF StreamInv
    <2>2. Layout(pos)' /\ InStep(pos)'
        BY <1>4, <2>1 DEF vars, Layout, InStep
    <2>3. StreamTypes' /\ HeaderOK' /\ NotRead' /\ CursorInBounds'
        BY <1>4 DEF vars, StreamInv, StreamTypes, HeaderOK, Counted, NotRead,
                    CursorInBounds, Size, Message
    <2> QED BY <2>2, <2>3 DEF StreamInv
<1>5. Over => UNCHANGED vars
    BY DEF Over
<1> QED BY <1>2, <1>3, <1>4, <1>5, TextFlushKeeps, BinaryFlushKeeps, RestartKeeps,
           ReadExpectedKeeps, ProbeKeeps, ReadPastKeeps, RewindKeeps DEF Next

LEMMA StreamInvariant == Spec => []StreamInv
<1> QED BY InitHolds, NextKeeps, PTL DEF Spec

\* Every variable keeps to what the code may hold there, and a writer never
\* passes the end of its buffer (protocolstream.cpp:239, 636, 653).
THEOREM StreamTypeCorrect == Spec => []TypeOK
<1>1. StreamInv => TypeOK
    BY DEF StreamInv, StreamTypes, TypeOK, Digit
<1> QED BY <1>1, StreamInvariant, PTL

\* Whatever was written is read back, field by field, and the reader is then at
\* the end (protocolstream.cpp:45-69, 237-252, 394-416, 634-649).
THEOREM MessagesRoundTrip == Spec => []RoundTrip
<1>1. ASSUME StreamInv, at = "read"
      PROVE  /\ got = SubSeq(fields, 1, Len(got))
             /\ IF Len(got) = Len(fields) THEN cur = Size
                ELSE Expected.string => StringThere
    <2>1. PICK pos : Layout(pos) /\ InStep(pos)
        BY <1>1 DEF StreamInv
    <2>2. /\ Len(got) \in 0..Len(fields) /\ got = SubSeq(fields, 1, Len(got))
          /\ cur = LenField + pos[Len(got) + 1]
        BY <1>1, <2>1 DEF InStep
    <2>3. Len(fields) \in Nat /\ Size = LenField + Len(out)
        BY <1>1, SizeOf DEF StreamInv
    <2>4. Len(got) = Len(fields) => cur = Size
        BY <2>1, <2>2, <2>3 DEF Layout
    <2>5. Len(got) # Len(fields) => (Expected.string => StringThere)
        <3>1. Len(got) # Len(fields) => Len(got) < Len(fields)
            BY <2>2, <2>3
        <3> QED BY <1>1, <3>1, ExpectedIsNext
    <2> QED BY <2>2, <2>4, <2>5
<1>2. StreamInv => RoundTrip
    BY <1>1 DEF RoundTrip
<1> QED BY <1>2, StreamInvariant, PTL

\* The length field of a message that IsValid has allowed is never cut: the reader
\* reads from it the length of the whole message, and ExtractStream cuts off that
\* much and never less (protocolstream.cpp:177-211, 551-607, 745-764).
THEOREM HeadersAgree == Spec => []HeaderAgrees
<1>1. ASSUME StreamInv, at = "read"
      PROVE  /\ Whole = Size
             /\ \A n \in 0..Size + 1 : Extracted(n) = IF n < Size THEN 0 ELSE Size
    <2>1. header = Digits(Counted) /\ Counted < Max /\ (binary => Len(out) > 0)
        BY <1>1 DEF StreamInv, HeaderOK, Reading
    <2>2. /\ LenField \in Nat \ {0} /\ Len(out) \in Nat /\ Size = LenField + Len(out)
          /\ Counted \in Nat
        BY <1>1, SizeOf DEF StreamInv
    <2>3. Value(header) = Counted
        BY <2>1, <2>2, ValueOfDigits
    <2>4. Whole = Size
        BY <2>2, <2>3 DEF Whole, Counted
    <2>5. ASSUME NEW n \in 0..Size + 1
          PROVE  Extracted(n) = IF n < Size THEN 0 ELSE Size
        BY <2>1, <2>2, <2>4 DEF Extracted
    <2> QED BY <2>4, <2>5
<1>2. StreamInv => HeaderAgrees
    BY <1>1 DEF HeaderAgrees
<1> QED BY <1>2, StreamInvariant, PTL

\* Only ReadNoCopy of a binary stream takes the reader past the end of the message
\* (IsEnd's assertion, protocolstream.cpp:161, 535).
THEOREM CursorStaysInside == Spec => []CursorInBounds
<1>1. StreamInv => CursorInBounds
    BY DEF StreamInv
<1> QED BY <1>1, StreamInvariant, PTL
=============================================================================
