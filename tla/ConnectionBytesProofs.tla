------------------------ MODULE ConnectionBytesProofs ------------------------
(***************************************************************************)
(* Proofs about DataBlock, StreamFraming and ConnectionBytes, for streams  *)
(* and blocks of any length: a block's operations are those of a sequence, *)
(* the frames handed over do not depend on how the stream was cut, and     *)
(* what is sent are the answers.                                           *)
(***************************************************************************)
EXTENDS ConnectionBytes, RecursionFacts, TLAPS, SequenceTheorems

-----------------------------------------------------------------------------
(* Sequences *)

LEMMA TakeFacts ==
    ASSUME NEW S, NEW s \in Seq(S), NEW n \in 0..Len(s)
    PROVE  /\ Take(s, n) \in Seq(S) /\ Len(Take(s, n)) = n
           /\ \A i \in 1..n : Take(s, n)[i] = s[i]
<1>1. n \in Nat /\ Len(s) \in Nat
    BY LenProperties
<1>2. \A i \in 1..n : s[i] \in S
    BY <1>1, ElementOfSeq
<1> QED BY <1>1, <1>2, SubSeqProperties DEF Take

LEMMA DropFacts ==
    ASSUME NEW S, NEW s \in Seq(S), NEW n \in 0..Len(s)
    PROVE  /\ Drop(s, n) \in Seq(S) /\ Len(Drop(s, n)) = Len(s) - n
           /\ \A i \in 1..(Len(s) - n) : Drop(s, n)[i] = s[n + i]
<1>1. n \in Nat /\ Len(s) \in Nat
    BY LenProperties
<1>2. \A i \in (n + 1)..Len(s) : s[i] \in S
    BY <1>1, ElementOfSeq
<1>3. PICK d, l : d = Drop(s, n) /\ l = Len(s)
    OBVIOUS
<1>4. d = SubSeq(s, n + 1, l)
    BY <1>3 DEF Drop
<1>5. /\ d \in Seq(S) /\ Len(d) = IF n + 1 <= l THEN l - (n + 1) + 1 ELSE 0
      /\ \A i \in 1..(l - (n + 1) + 1) : d[i] = s[n + 1 + i - 1]
    BY <1>1, <1>2, <1>3, <1>4, SubSeqProperties
<1>6. \A i \in 1..(l - n) : n + 1 + i - 1 = n + i
    BY <1>1
<1> QED BY <1>1, <1>3, <1>5, <1>6

LEMMA TakeThenDrop ==
    ASSUME NEW S, NEW s \in Seq(S), NEW n \in 0..Len(s)
    PROVE  Take(s, n) \o Drop(s, n) = s
<1>1. PICK t, d : t = Take(s, n) /\ d = Drop(s, n)
    OBVIOUS
<1>2. n \in Nat /\ Len(s) \in Nat /\ n <= Len(s)
    BY LenProperties
<1>3. /\ t \in Seq(S) /\ Len(t) = n /\ \A i \in 1..n : t[i] = s[i]
      /\ d \in Seq(S) /\ Len(d) = Len(s) - n
      /\ \A i \in 1..(Len(s) - n) : d[i] = s[n + i]
    BY <1>1, TakeFacts, DropFacts
<1>4. /\ t \o d \in Seq(S) /\ Len(t \o d) = Len(s)
      /\ \A i \in 1..Len(s) : (t \o d)[i] = IF i <= n THEN t[i] ELSE d[i - n]
    BY <1>2, <1>3, ConcatProperties
<1>5. ASSUME NEW i \in 1..Len(s)
      PROVE  (t \o d)[i] = s[i]
    <2>1. CASE i <= n
        BY <1>2, <1>3, <1>4, <2>1
    <2>2. CASE ~(i <= n)
        <3>1. i - n \in 1..(Len(s) - n) /\ n + (i - n) = i
            BY <1>2, <2>2
        <3> QED BY <1>3, <1>4, <2>2, <3>1
    <2> QED BY <2>1, <2>2
<1> QED BY <1>1, <1>4, <1>5, SeqEqual

LEMMA DropMore ==
    ASSUME NEW S, NEW s \in Seq(S), NEW m \in 0..Len(s), NEW n \in 0..(Len(s) - m)
    PROVE  Drop(Drop(s, m), n) = Drop(s, m + n)
<1>1. PICK d, e, f, k : d = Drop(s, m) /\ e = Drop(d, n) /\ k = m + n /\ f = Drop(s, k)
    OBVIOUS
<1>2. m \in Nat /\ n \in Nat /\ Len(s) \in Nat /\ k \in 0..Len(s)
    BY <1>1, LenProperties
<1>3. /\ d \in Seq(S) /\ Len(d) = Len(s) - m
      /\ \A i \in 1..(Len(s) - m) : d[i] = s[m + i]
      /\ f \in Seq(S) /\ Len(f) = Len(s) - k
      /\ \A i \in 1..(Len(s) - k) : f[i] = s[k + i]
    <2>1. /\ d \in Seq(S) /\ Len(d) = Len(s) - m
          /\ \A i \in 1..(Len(s) - m) : d[i] = s[m + i]
        BY <1>1, DropFacts
    <2>2. /\ f \in Seq(S) /\ Len(f) = Len(s) - k
          /\ \A i \in 1..(Len(s) - k) : f[i] = s[k + i]
        <3>1. f = Drop(s, k)
            BY <1>1
        <3> QED BY <1>2, <3>1, DropFacts
    <2> QED BY <2>1, <2>2
<1>4. /\ e \in Seq(S) /\ Len(e) = Len(d) - n
      /\ \A i \in 1..(Len(d) - n) : e[i] = d[n + i]
    <2>1. n \in 0..Len(d) /\ d \in Seq(S) /\ e = Drop(d, n)
        BY <1>1, <1>2, <1>3
    <2> QED BY <2>1, DropFacts
<1>5. Len(e) = Len(f) /\ Len(e) = Len(s) - k /\ Len(d) - n = Len(s) - k
    <2>1. PICK l : l = Len(s)
        OBVIOUS
    <2>2. (l - m) - n = l - k
        BY <1>1, <1>2, <2>1
    <2> QED BY <1>3, <1>4, <2>1, <2>2
<1>6. ASSUME NEW i \in 1..Len(e)
      PROVE  e[i] = f[i]
    <2>1. i \in 1..(Len(s) - k) /\ i \in 1..(Len(d) - n)
        BY <1>5, <1>6
    <2>2. n + i \in 1..(Len(s) - m) /\ m + (n + i) = k + i
        BY <1>1, <1>2, <2>1
    <2> QED BY <1>3, <1>4, <2>1, <2>2
<1> QED BY <1>1, <1>3, <1>4, <1>5, <1>6, SeqEqual

LEMMA TakeOfMore ==
    ASSUME NEW S, NEW s \in Seq(S), NEW t \in Seq(S), NEW n \in 0..Len(s)
    PROVE  Take(s \o t, n) = Take(s, n)
<1>1. PICK u, x, y : u = s \o t /\ x = Take(u, n) /\ y = Take(s, n)
    OBVIOUS
<1>2. n \in Nat /\ Len(s) \in Nat /\ Len(t) \in Nat /\ n <= Len(s)
    BY LenProperties
<1>3. /\ u \in Seq(S) /\ Len(u) = Len(s) + Len(t)
      /\ \A i \in 1..Len(s) + Len(t) : u[i] = IF i <= Len(s) THEN s[i] ELSE t[i - Len(s)]
    BY <1>1, ConcatProperties
<1>4. n \in 0..Len(u)
    BY <1>2, <1>3
<1>5. /\ x \in Seq(S) /\ Len(x) = n /\ \A i \in 1..n : x[i] = u[i]
      /\ y \in Seq(S) /\ Len(y) = n /\ \A i \in 1..n : y[i] = s[i]
    BY <1>1, <1>3, <1>4, TakeFacts
<1>6. \A i \in 1..n : i \in 1..Len(s) + Len(t) /\ i <= Len(s)
    BY <1>2
<1>7. \A i \in 1..n : x[i] = y[i]
    BY <1>3, <1>5, <1>6
<1> QED BY <1>1, <1>5, <1>7, SeqEqual

LEMMA DropOfMore ==
    ASSUME NEW S, NEW s \in Seq(S), NEW t \in Seq(S), NEW n \in 0..Len(s)
    PROVE  Drop(s \o t, n) = Drop(s, n) \o t
<1>1. PICK u, x, y, z : u = s \o t /\ x = Drop(u, n) /\ y = Drop(s, n) /\ z = y \o t
    OBVIOUS
<1>2. n \in Nat /\ Len(s) \in Nat /\ Len(t) \in Nat /\ n <= Len(s)
    BY LenProperties
<1>3. /\ u \in Seq(S) /\ Len(u) = Len(s) + Len(t)
      /\ \A i \in 1..Len(s) + Len(t) : u[i] = IF i <= Len(s) THEN s[i] ELSE t[i - Len(s)]
    BY <1>1, ConcatProperties
<1>4. n \in 0..Len(u)
    BY <1>2, <1>3
<1>5. /\ x \in Seq(S) /\ Len(x) = Len(u) - n /\ \A i \in 1..(Len(u) - n) : x[i] = u[n + i]
      /\ y \in Seq(S) /\ Len(y) = Len(s) - n /\ \A i \in 1..(Len(s) - n) : y[i] = s[n + i]
    <2>1. x = Drop(u, n) /\ y = Drop(s, n) /\ u \in Seq(S)
        BY <1>1, <1>3
    <2>2. /\ x \in Seq(S) /\ Len(x) = Len(u) - n
          /\ \A i \in 1..(Len(u) - n) : x[i] = u[n + i]
        BY <1>4, <2>1, DropFacts
    <2>3. /\ y \in Seq(S) /\ Len(y) = Len(s) - n
          /\ \A i \in 1..(Len(s) - n) : y[i] = s[n + i]
        BY <2>1, DropFacts
    <2> QED BY <2>2, <2>3
<1>6. /\ z \in Seq(S) /\ Len(z) = Len(y) + Len(t)
      /\ \A i \in 1..Len(y) + Len(t) : z[i] = IF i <= Len(y) THEN y[i] ELSE t[i - Len(y)]
    BY <1>1, <1>5, ConcatProperties, SMTT(30)
<1>7. Len(x) = Len(z)
    BY <1>2, <1>3, <1>5, <1>6
<1>8. ASSUME NEW i \in 1..Len(x)
      PROVE  x[i] = z[i]
    <2>1. /\ i \in 1..(Len(u) - n) /\ i \in 1..Len(y) + Len(t)
          /\ n + i \in 1..Len(s) + Len(t)
        BY <1>2, <1>3, <1>5, <1>6, <1>7
    <2>2. CASE i <= Len(y)
        <3>1. n + i <= Len(s) /\ i \in 1..(Len(s) - n)
            BY <1>2, <1>5, <2>1, <2>2
        <3> QED BY <1>3, <1>5, <1>6, <2>1, <2>2, <3>1
    <2>3. CASE ~(i <= Len(y))
        <3>1. ~(n + i <= Len(s)) /\ (n + i) - Len(s) = i - Len(y)
            BY <1>2, <1>5, <2>1, <2>3
        <3> QED BY <1>3, <1>5, <1>6, <2>1, <2>3, <3>1
    <2> QED BY <2>2, <2>3
<1> QED BY <1>1, <1>5, <1>6, <1>7, <1>8, SeqEqual

LEMMA WholeOrNothing ==
    ASSUME NEW S, NEW s \in Seq(S)
    PROVE  /\ Take(s, Len(s)) = s /\ Drop(s, 0) = s
           /\ Take(s, 0) = <<>> /\ \A n \in Nat : n >= Len(s) => Drop(s, n) = <<>>
<1>1. Len(s) \in Nat
    BY LenProperties
<1>2. Take(s, Len(s)) = s
    BY SubSeqFull DEF Take
<1>3. Drop(s, 0) = s
    BY <1>1, SubSeqFull DEF Drop
<1>4. Take(s, 0) = <<>>
    BY SubSeqEmpty DEF Take
<1>5. ASSUME NEW n \in Nat, n >= Len(s)
      PROVE  Drop(s, n) = <<>>
    <2>1. n + 1 \in Int /\ Len(s) \in Int /\ Len(s) < n + 1
        BY <1>1, <1>5
    <2> QED BY <2>1, SubSeqEmpty DEF Drop
<1> QED BY <1>2, <1>3, <1>4, <1>5

\* The bytes from offset on are replaced, and the sequence grows if there are more.
LEMMA ReplacedFacts ==
    ASSUME NEW S, NEW s \in Seq(S), NEW offset \in 0..Len(s), NEW t \in Seq(S)
    PROVE  /\ Replaced(s, offset, t) \in Seq(S)
           /\ Len(Replaced(s, offset, t)) = IF offset + Len(t) > Len(s) THEN offset + Len(t)
                                            ELSE Len(s)
           /\ \A i \in 1..Len(Replaced(s, offset, t)) :
                 Replaced(s, offset, t)[i] = IF i <= offset \/ i > offset + Len(t) THEN s[i]
                                             ELSE t[i - offset]
<1>1. PICK e, x, y, z, r :
         /\ e = offset + Len(t) /\ x = Take(s, offset) /\ y = x \o t
         /\ z = Drop(s, e) /\ r = y \o z
    OBVIOUS
<1>2. /\ offset \in Nat /\ Len(s) \in Nat /\ Len(t) \in Nat /\ offset <= Len(s)
      /\ e \in Nat
    BY <1>1, LenProperties
<1>3. Replaced(s, offset, t) = r
    BY <1>1 DEF Replaced
<1>4. x \in Seq(S) /\ Len(x) = offset /\ \A i \in 1..offset : x[i] = s[i]
    BY <1>1, TakeFacts
<1>5. /\ y \in Seq(S) /\ Len(y) = e
      /\ \A i \in 1..e : y[i] = IF i <= offset THEN x[i] ELSE t[i - offset]
    BY <1>1, <1>2, <1>4, ConcatProperties
<1>6. /\ z \in Seq(S) /\ Len(z) = IF e > Len(s) THEN 0 ELSE Len(s) - e
      /\ \A i \in 1..Len(z) : z[i] = s[e + i]
    <2>1. CASE e <= Len(s)
        <3>1. e \in 0..Len(s) /\ z = Drop(s, e)
            BY <1>1, <1>2, <2>1
        <3>2. /\ z \in Seq(S) /\ Len(z) = Len(s) - e
              /\ \A i \in 1..(Len(s) - e) : z[i] = s[e + i]
            BY <3>1, DropFacts
        <3> QED BY <1>2, <2>1, <3>2
    <2>2. CASE e > Len(s)
        <3>1. z = <<>>
            BY <1>1, <1>2, <2>2, WholeOrNothing
        <3> QED BY <2>2, <3>1
    <2> QED BY <1>2, <2>1, <2>2
<1>7. /\ r \in Seq(S) /\ Len(r) = e + Len(z) /\ Len(z) \in Nat
      /\ \A i \in 1..e + Len(z) : r[i] = IF i <= e THEN y[i] ELSE z[i - e]
    <2>1. r = y \o z /\ y \in Seq(S) /\ z \in Seq(S) /\ Len(y) = e
        BY <1>1, <1>5, <1>6
    <2>2. Len(z) \in Nat
        BY <2>1, LenProperties
    <2>3. /\ y \o z \in Seq(S) /\ Len(y \o z) = Len(y) + Len(z)
          /\ \A i \in 1..Len(y) + Len(z) :
                (y \o z)[i] = IF i <= Len(y) THEN y[i] ELSE z[i - Len(y)]
        BY <2>1, ConcatProperties
    <2> QED BY <2>1, <2>2, <2>3
<1>8. Len(r) = IF e > Len(s) THEN e ELSE Len(s)
    BY <1>2, <1>6, <1>7
<1>9. ASSUME NEW i \in 1..Len(r)
      PROVE  r[i] = IF i <= offset \/ i > e THEN s[i] ELSE t[i - offset]
    <2>1. CASE i <= e
        <3>1. i \in 1..e + Len(z) /\ i \in 1..e
            BY <1>2, <1>7, <2>1
        <3>2. i <= offset => i \in 1..offset
            BY <1>2
        <3> QED BY <1>2, <1>4, <1>5, <1>7, <2>1, <3>1, <3>2
    <2>2. CASE ~(i <= e)
        <3>1. i \in 1..e + Len(z) /\ i - e \in 1..Len(z) /\ e + (i - e) = i /\ i > e
            BY <1>2, <1>7, <2>2
        <3> QED BY <1>6, <1>7, <2>2, <3>1
    <2> QED BY <2>1, <2>2
<1> QED BY <1>1, <1>3, <1>7, <1>8, <1>9

-----------------------------------------------------------------------------
(* Blocks *)

\* What the constructor makes and every operation keeps: no more counts than
\* there is.
GoodBlock(b) == b \in [mem : Seq(Int), size : Nat] /\ b.size <= Len(b.mem)

LEMMA BlockFacts ==
    ASSUME NEW b, GoodBlock(b)
    PROVE  /\ b.mem \in Seq(Int) /\ b.size \in Nat /\ Len(b.mem) \in Nat /\ b.size <= Len(b.mem)
           /\ b.size \in 0..Len(b.mem) /\ Capacity(b) = Len(b.mem)
           /\ Contents(b) \in Seq(Int) /\ Len(Contents(b)) = b.size
           /\ \A i \in 1..b.size : Contents(b)[i] = b.mem[i]
           /\ b = [mem |-> b.mem, size |-> b.size]
<1>1. b.mem \in Seq(Int) /\ b.size \in Nat /\ b.size <= Len(b.mem)
    BY DEF GoodBlock
<1>2. Len(b.mem) \in Nat
    BY <1>1, LenProperties
<1>3. b.size \in 0..Len(b.mem)
    BY <1>1, <1>2
<1>4. b = [mem |-> b.mem, size |-> b.size]
    BY DEF GoodBlock
<1> QED BY <1>1, <1>2, <1>3, <1>4, TakeFacts DEF Contents, Capacity

LEMMA MakeBlock ==
    ASSUME NEW mem \in Seq(Int), NEW size \in Nat, size <= Len(mem), NEW b,
           b = [mem |-> mem, size |-> size]
    PROVE  GoodBlock(b) /\ b.mem = mem /\ b.size = size /\ Capacity(b) = Len(mem)
<1>1. b.mem = mem /\ b.size = size
    OBVIOUS
<1> QED BY <1>1 DEF GoodBlock, Capacity

\* The contents are those of a sequence if byte by byte they are.
LEMMA ContentsAre ==
    ASSUME NEW b, GoodBlock(b), NEW s \in Seq(Int), Len(s) = b.size,
           \A i \in 1..b.size : b.mem[i] = s[i]
    PROVE  Contents(b) = s
<1>1. PICK c : c = Contents(b)
    OBVIOUS
<1>2. c \in Seq(Int) /\ Len(c) = b.size /\ \A i \in 1..b.size : c[i] = b.mem[i]
    BY <1>1, BlockFacts
<1>3. \A i \in 1..Len(c) : c[i] = s[i]
    BY <1>2
<1> QED BY <1>1, <1>2, <1>3, SeqEqual

LEMMA MemoryFacts ==
    ASSUME NEW n \in Nat
    PROVE  Memory(n) \in Seq(Int) /\ Len(Memory(n)) = n
<1>1. Unset \in Int
    BY DEF Unset
<1> QED BY <1>1 DEF Memory

LEMMA NewBlock ==
    ASSUME NEW n \in Nat
    PROVE  /\ GoodBlock(Block(n)) /\ Block(n).size = 0 /\ Capacity(Block(n)) = n
           /\ Contents(Block(n)) = <<>>
<1>1. Block(n) = [mem |-> Memory(n), size |-> 0]
    BY DEF Block
<1>2. GoodBlock(Block(n)) /\ Block(n).size = 0 /\ Capacity(Block(n)) = n
    <2>1. PICK m : m = Memory(n)
        OBVIOUS
    <2>2. m \in Seq(Int) /\ Len(m) = n /\ 0 \in Nat /\ 0 <= Len(m)
        BY <2>1, MemoryFacts
    <2> QED BY <1>1, <2>1, <2>2, MakeBlock
<1>3. Contents(Block(n)) = <<>>
    <2>1. <<>> \in Seq(Int) /\ Len(<<>>) = 0 /\ \A i \in 1..0 : FALSE
        OBVIOUS
    <2> QED BY <1>2, <2>1, ContentsAre
<1> QED BY <1>2, <1>3

LEMMA ClearFacts ==
    ASSUME NEW b, GoodBlock(b)
    PROVE  /\ GoodBlock(Clear(b)) /\ Clear(b).size = 0
           /\ Contents(Clear(b)) = <<>>
<1>1. b = [mem |-> b.mem, size |-> b.size] /\ b.mem \in Seq(Int) /\ Len(b.mem) \in Nat
    BY BlockFacts
<1>2. Clear(b) = [mem |-> b.mem, size |-> 0]
    BY <1>1 DEF Clear
<1>3. GoodBlock(Clear(b)) /\ Clear(b).size = 0
    BY <1>1, <1>2, MakeBlock
<1>4. <<>> \in Seq(Int) /\ Len(<<>>) = 0 /\ \A i \in 1..0 : FALSE
    OBVIOUS
<1> QED BY <1>3, <1>4, ContentsAre

LEMMA DecEndFacts ==
    ASSUME NEW b, GoodBlock(b), NEW n \in 0..b.size
    PROVE  /\ GoodBlock(DecEnd(b, n)) /\ DecEnd(b, n).size = b.size - n
           /\ Contents(DecEnd(b, n)) = Take(Contents(b), b.size - n)
<1>1. /\ b = [mem |-> b.mem, size |-> b.size] /\ b.mem \in Seq(Int) /\ Len(b.mem) \in Nat
      /\ b.size \in Nat /\ b.size <= Len(b.mem)
      /\ Contents(b) \in Seq(Int) /\ Len(Contents(b)) = b.size
      /\ \A i \in 1..b.size : Contents(b)[i] = b.mem[i]
    BY BlockFacts
<1>2. PICK d, k, s : d = DecEnd(b, n) /\ k = b.size - n /\ s = Take(Contents(b), k)
    OBVIOUS
<1>3. k \in 0..b.size /\ k \in Nat /\ k <= Len(b.mem) /\ ~(n > b.size)
    BY <1>1, <1>2
<1>4. d = [mem |-> b.mem, size |-> k]
    BY <1>1, <1>2, <1>3 DEF DecEnd
<1>5. GoodBlock(d) /\ d.size = k /\ d.mem = b.mem
    BY <1>1, <1>3, <1>4, MakeBlock
<1>6. s \in Seq(Int) /\ Len(s) = k /\ \A i \in 1..k : s[i] = b.mem[i]
    <2>1. /\ s \in Seq(Int) /\ Len(s) = k /\ \A i \in 1..k : s[i] = Contents(b)[i]
        <3>1. PICK c : c = Contents(b)
            OBVIOUS
        <3>2. c \in Seq(Int) /\ k \in 0..Len(c) /\ s = Take(c, k)
            BY <1>1, <1>2, <1>3, <3>1
        <3> QED BY <3>1, <3>2, TakeFacts
    <2>2. \A i \in 1..k : i \in 1..b.size
        BY <1>1, <1>3
    <2> QED BY <1>1, <2>1, <2>2
<1>7. Contents(d) = s
    BY <1>5, <1>6, ContentsAre
<1> QED BY <1>2, <1>5, <1>7

LEMMA ResizeFacts ==
    ASSUME NEW b, GoodBlock(b), NEW n \in Nat
    PROVE  LET r == Resize(b, n)
               k == IF n < b.size THEN n ELSE b.size
           IN /\ GoodBlock(r) /\ r.size = k /\ k \in 0..b.size /\ Capacity(r) >= n
              /\ Capacity(r) >= Capacity(b)
              /\ \A i \in 1..k : r.mem[i] = b.mem[i]
              /\ Contents(r) = Take(Contents(b), k)
<1>1. /\ b = [mem |-> b.mem, size |-> b.size] /\ b.mem \in Seq(Int) /\ Len(b.mem) \in Nat
      /\ b.size \in Nat /\ b.size <= Len(b.mem) /\ Capacity(b) = Len(b.mem)
      /\ Contents(b) \in Seq(Int) /\ Len(Contents(b)) = b.size
      /\ \A i \in 1..b.size : Contents(b)[i] = b.mem[i]
    BY BlockFacts
<1>2. PICK r, k, s : /\ r = Resize(b, n) /\ k = IF n < b.size THEN n ELSE b.size
                     /\ s = Take(Contents(b), k)
    OBVIOUS
<1>3. k \in 0..b.size /\ k \in Nat /\ k <= Len(b.mem) /\ k <= n
    BY <1>1, <1>2
<1>4. s \in Seq(Int) /\ Len(s) = k /\ \A i \in 1..k : s[i] = b.mem[i]
    <2>1. /\ s \in Seq(Int) /\ Len(s) = k /\ \A i \in 1..k : s[i] = Contents(b)[i]
        <3>1. PICK c : c = Contents(b)
            OBVIOUS
        <3>2. c \in Seq(Int) /\ k \in 0..Len(c) /\ s = Take(c, k)
            BY <1>1, <1>2, <1>3, <3>1
        <3> QED BY <3>1, <3>2, TakeFacts
    <2>2. \A i \in 1..k : i \in 1..b.size
        BY <1>1, <1>3
    <2> QED BY <1>1, <2>1, <2>2
<1>5. /\ GoodBlock(r) /\ r.size = k /\ Capacity(r) >= n /\ Capacity(r) >= Len(b.mem)
      /\ \A i \in 1..k : r.mem[i] = b.mem[i]
    <2>1. CASE n <= Len(b.mem)
        <3>1. r = [mem |-> b.mem, size |-> k]
            BY <1>1, <1>2, <2>1 DEF Resize
        <3>2. GoodBlock(r) /\ r.size = k /\ r.mem = b.mem /\ Capacity(r) = Len(b.mem)
            BY <1>1, <1>3, <3>1, MakeBlock
        <3> QED BY <1>1, <2>1, <3>2
    <2>2. CASE ~(n <= Len(b.mem))
        <3>1. k = b.size /\ n - b.size \in Nat
            BY <1>1, <1>2, <2>2
        <3>2. PICK c, m, l : c = Contents(b) /\ m = Memory(l) /\ l = n - b.size
            OBVIOUS
        <3>3. m \in Seq(Int) /\ Len(m) = l /\ c \in Seq(Int) /\ Len(c) = k
            BY <1>1, <3>1, <3>2, MemoryFacts
        <3>4. /\ c \o m \in Seq(Int) /\ Len(c \o m) = Len(c) + Len(m)
              /\ \A i \in 1..Len(c) + Len(m) :
                    (c \o m)[i] = IF i <= Len(c) THEN c[i] ELSE m[i - Len(c)]
            BY <3>3, ConcatProperties
        <3>5. Len(c) + Len(m) = n
            <4>1. k + (n - k) = n
                BY <1>3
            <4> QED BY <3>1, <3>2, <3>3, <4>1
        <3>6. r = [mem |-> c \o m, size |-> k]
            BY <1>1, <1>2, <2>2, <3>1, <3>2 DEF Resize
        <3>7. GoodBlock(r) /\ r.size = k /\ r.mem = c \o m /\ Capacity(r) = n
            <4>1. c \o m \in Seq(Int) /\ Len(c \o m) = n
                BY <3>4, <3>5
            <4>2. k \in Nat /\ k <= Len(c \o m)
                BY <1>1, <1>3, <2>2, <3>1, <4>1
            <4>3. PICK mem : mem = c \o m
                OBVIOUS
            <4>4. mem \in Seq(Int) /\ k \in Nat /\ k <= Len(mem) /\ r = [mem |-> mem, size |-> k]
                BY <3>6, <4>1, <4>2, <4>3
            <4>5. GoodBlock(r) /\ r.mem = mem /\ r.size = k /\ Capacity(r) = Len(mem)
                BY <4>4, MakeBlock
            <4> QED BY <4>1, <4>3, <4>5
        <3>8. \A i \in 1..k : i \in 1..Len(c) + Len(m) /\ i <= Len(c)
            BY <1>3, <3>3, <3>5
        <3>9. \A i \in 1..k : r.mem[i] = b.mem[i]
            BY <1>1, <3>1, <3>2, <3>4, <3>7, <3>8
        <3>10. Capacity(r) >= n /\ Capacity(r) >= Len(b.mem)
            BY <1>1, <2>2, <3>7
        <3> QED BY <3>7, <3>9, <3>10
    <2> QED BY <2>1, <2>2
<1>6. Contents(r) = s
    BY <1>4, <1>5, ContentsAre
<1> QED BY <1>1, <1>2, <1>3, <1>5, <1>6

LEMMA WrittenFacts ==
    ASSUME NEW b, GoodBlock(b), NEW offset \in Nat, NEW bytes \in Seq(Int)
    PROVE  /\ GoodBlock(Written(b, offset, bytes)) /\ Written(b, offset, bytes).size = b.size
           /\ Len(Written(b, offset, bytes).mem) = Len(b.mem)
           /\ \A i \in 1..Len(b.mem) :
                 Written(b, offset, bytes).mem[i] =
                     IF i <= offset \/ i > offset + Len(bytes) THEN b.mem[i]
                     ELSE bytes[i - offset]
<1>1. /\ b = [mem |-> b.mem, size |-> b.size] /\ b.mem \in Seq(Int) /\ Len(b.mem) \in Nat
      /\ b.size \in Nat /\ b.size <= Len(b.mem)
    BY BlockFacts
<1>2. PICK m, l, n : m = b.mem /\ l = Len(m) /\ n = Len(bytes)
    OBVIOUS
<1>3. DOMAIN m = 1..l /\ DOMAIN bytes = 1..n /\ l \in Nat /\ n \in Nat
    BY <1>1, <1>2, LenProperties
<1> DEFINE w == [i \in 1..l |-> IF i - offset \in 1..n THEN bytes[i - offset] ELSE m[i]]
<1>4. Written(b, offset, bytes) = [mem |-> w, size |-> b.size]
    <2>1. Written(b, offset, bytes) =
             [b EXCEPT !.mem = [i \in DOMAIN m |-> IF i - offset \in DOMAIN bytes
                                                   THEN bytes[i - offset] ELSE m[i]]]
        BY <1>2 DEF Written
    <2>2. Written(b, offset, bytes) = [b EXCEPT !.mem = w]
        BY <1>3, <2>1
    <2> HIDE DEF w
    <2> QED BY <1>1, <2>2
<1>5. \A i \in 1..l : w[i] \in Int
    <2>1. \A j \in 1..n : bytes[j] \in Int
        BY <1>2, ElementOfSeq
    <2>2. \A i \in 1..l : m[i] \in Int
        BY <1>1, <1>2, ElementOfSeq
    <2> QED BY <2>1, <2>2
<1>6. w \in Seq(Int) /\ Len(w) = l
    BY <1>3, <1>5
<1>7. \A i \in 1..l : w[i] = IF i <= offset \/ i > offset + n THEN m[i] ELSE bytes[i - offset]
    <2>1. \A i \in 1..l : i - offset \in 1..n <=> ~(i <= offset \/ i > offset + n)
        BY <1>3
    <2> QED BY <2>1
<1> HIDE DEF w
<1> QED BY <1>1, <1>2, <1>4, <1>6, <1>7, MakeBlock

\* Once there is room, a copy replaces bytes and moves the end if it must.
LEMMA PlacedFacts ==
    ASSUME NEW b, GoodBlock(b), NEW offset \in 0..b.size, NEW bytes \in Seq(Int),
           offset + Len(bytes) <= Capacity(b)
    PROVE  /\ GoodBlock(Placed(b, offset, bytes))
           /\ Contents(Placed(b, offset, bytes)) = Replaced(Contents(b), offset, bytes)
<1>1. /\ b.mem \in Seq(Int) /\ Len(b.mem) \in Nat /\ b.size \in Nat /\ b.size <= Len(b.mem)
      /\ Capacity(b) = Len(b.mem) /\ offset \in Nat /\ offset <= b.size
      /\ Contents(b) \in Seq(Int) /\ Len(Contents(b)) = b.size
      /\ \A i \in 1..b.size : Contents(b)[i] = b.mem[i]
    BY BlockFacts
<1>2. PICK n, l, e, w, p, s, more, size :
         /\ n = Len(bytes) /\ l = Len(b.mem) /\ e = offset + n
         /\ w = Written(b, offset, bytes) /\ p = Placed(b, offset, bytes)
         /\ s = Contents(b) /\ more = e - b.size
         /\ size = IF e > b.size THEN e ELSE b.size
    OBVIOUS
<1>3. n \in Nat /\ e \in Nat /\ l \in Nat /\ e <= l /\ size \in Nat /\ size <= l /\ b.size <= l
    BY <1>1, <1>2, LenProperties
<1>4. /\ GoodBlock(w) /\ w.size = b.size /\ Len(w.mem) = l
      /\ \A i \in 1..l : w.mem[i] = IF i <= offset \/ i > e THEN b.mem[i] ELSE bytes[i - offset]
    <2>1. /\ GoodBlock(w) /\ w.size = b.size /\ Len(w.mem) = Len(b.mem)
          /\ \A i \in 1..Len(b.mem) :
                w.mem[i] = IF i <= offset \/ i > offset + Len(bytes) THEN b.mem[i]
                           ELSE bytes[i - offset]
        <3>1. offset \in Nat /\ w = Written(b, offset, bytes)
            BY <1>1, <1>2
        <3> QED BY <3>1, WrittenFacts
    <2>2. offset + Len(bytes) = e /\ Len(b.mem) = l
        BY <1>2
    <2> QED BY <2>1, <2>2
<1>5. /\ w = [mem |-> w.mem, size |-> b.size] /\ w.mem \in Seq(Int) /\ Capacity(w) = l
    BY <1>4, BlockFacts
<1>6. p = [mem |-> w.mem, size |-> size]
    <2>1. p = IncEnd(w, IF more < 0 THEN 0 ELSE more)
        <3>1. offset + Len(bytes) - b.size = more
            <4>1. n = Len(bytes) /\ e = offset + n /\ more = e - b.size
                BY <1>2
            <4>2. PICK z : z = b.size
                OBVIOUS
            <4>3. z \in Nat /\ offset \in Nat /\ n \in Nat
                BY <1>1, <1>3, <4>2
            <4>4. offset + (n - z) = (offset + n) - z
                BY <4>3
            <4> QED BY <4>1, <4>2, <4>4
        <3>2. p = IncEnd(w, IF offset + Len(bytes) - b.size < 0 THEN 0
                            ELSE offset + Len(bytes) - b.size)
            BY <1>2 DEF Placed
        <3> QED BY <3>1, <3>2
    <2>2. PICK k : k = IF more < 0 THEN 0 ELSE more
        OBVIOUS
    <2>3. k \in Nat /\ ~(k > l - b.size) /\ b.size + k = size
        BY <1>1, <1>2, <1>3, <2>2
    <2>4. p = [w EXCEPT !.size = @ + k]
        BY <1>4, <1>5, <2>1, <2>2, <2>3 DEF IncEnd
    <2> QED BY <1>5, <2>3, <2>4
<1>7. GoodBlock(p) /\ p.mem = w.mem /\ p.size = size
    BY <1>3, <1>4, <1>5, <1>6, MakeBlock
<1>8. PICK r : r = Replaced(s, offset, bytes)
    OBVIOUS
<1>9. /\ r \in Seq(Int) /\ Len(r) = size
      /\ \A i \in 1..Len(r) : r[i] = IF i <= offset \/ i > e THEN s[i] ELSE bytes[i - offset]
    <2>1. offset \in 0..Len(s) /\ s \in Seq(Int) /\ Len(s) = b.size
        BY <1>1, <1>2
    <2>2. /\ r \in Seq(Int)
          /\ Len(r) = IF offset + Len(bytes) > Len(s) THEN offset + Len(bytes) ELSE Len(s)
          /\ \A i \in 1..Len(r) : r[i] = IF i <= offset \/ i > offset + Len(bytes) THEN s[i]
                                         ELSE bytes[i - offset]
        <3> DEFINE q == Replaced(s, offset, bytes)
        <3>1. /\ q \in Seq(Int)
              /\ Len(q) = IF offset + Len(bytes) > Len(s) THEN offset + Len(bytes) ELSE Len(s)
              /\ \A i \in 1..Len(q) : q[i] = IF i <= offset \/ i > offset + Len(bytes) THEN s[i]
                                             ELSE bytes[i - offset]
            BY <2>1, ReplacedFacts
        <3> QED BY <1>8, <3>1
    <2>3. offset + Len(bytes) = e
        BY <1>2
    <2> QED BY <1>2, <2>1, <2>2, <2>3
<1>10. \A i \in 1..size : p.mem[i] = r[i]
    <2> TAKE i \in 1..size
    <2>1. i \in 1..l /\ i \in 1..Len(r)
        BY <1>3, <1>9
    <2>2. CASE i <= offset \/ i > e
        <3>1. i \in 1..b.size
            BY <1>1, <1>2, <1>3, <2>2
        <3>2. s[i] = b.mem[i]
            BY <1>1, <1>2, <3>1
        <3> QED BY <1>4, <1>7, <1>9, <2>1, <2>2, <3>2
    <2>3. CASE ~(i <= offset \/ i > e)
        BY <1>4, <1>7, <1>9, <2>1, <2>3
    <2> QED BY <2>2, <2>3
<1>11. Contents(p) = r
    BY <1>7, <1>9, <1>10, ContentsAre
<1> QED BY <1>2, <1>7, <1>8, <1>11

LEMMA RoomyFacts ==
    ASSUME NEW b, GoodBlock(b), NEW n \in Nat
    PROVE  /\ GoodBlock(Roomy(b, n)) /\ Roomy(b, n).size = b.size
           /\ n <= Capacity(Roomy(b, n)) /\ Contents(Roomy(b, n)) = Contents(b)
<1>1. /\ b.size \in Nat /\ Len(b.mem) \in Nat /\ b.size <= Len(b.mem)
      /\ Capacity(b) = Len(b.mem) /\ Contents(b) \in Seq(Int) /\ Len(Contents(b)) = b.size
    BY BlockFacts
<1>2. CASE n > Capacity(b)
    <2>1. Roomy(b, n) = Resize(b, n) /\ ~(n < b.size)
        BY <1>1, <1>2 DEF Roomy
    <2>2. PICK r : r = Resize(b, n)
        OBVIOUS
    <2>3. /\ GoodBlock(r) /\ r.size = b.size /\ Capacity(r) >= n
          /\ Contents(r) = Take(Contents(b), b.size)
        BY <2>1, <2>2, ResizeFacts
    <2>4. Contents(r) = Contents(b)
        BY <1>1, <2>3, WholeOrNothing
    <2>5. Capacity(r) \in Nat
        BY <2>3, BlockFacts
    <2> QED BY <2>1, <2>2, <2>3, <2>4, <2>5
<1>3. CASE ~(n > Capacity(b))
    BY <1>1, <1>3 DEF Roomy
<1> QED BY <1>2, <1>3

LEMMA CopyFacts ==
    ASSUME NEW b, GoodBlock(b), NEW offset \in 0..b.size, NEW bytes \in Seq(Int)
    PROVE  /\ GoodBlock(Copy(b, offset, bytes))
           /\ Contents(Copy(b, offset, bytes)) = Replaced(Contents(b), offset, bytes)
<1>1. b.size \in Nat /\ Len(bytes) \in Nat /\ offset \in Nat /\ ~(offset > b.size)
    BY BlockFacts, LenProperties
<1>2. PICK n, r : n = offset + Len(bytes) /\ r = Roomy(b, n)
    OBVIOUS
<1>3. /\ n \in Nat /\ GoodBlock(r) /\ r.size = b.size /\ n <= Capacity(r)
      /\ Contents(r) = Contents(b)
    <2>1. n \in Nat
        BY <1>1, <1>2
    <2> QED BY <1>2, <2>1, RoomyFacts
<1>4. Copy(b, offset, bytes) = Placed(r, offset, bytes)
    BY <1>1, <1>2 DEF Copy
<1> QED BY <1>2, <1>3, <1>4, PlacedFacts

LEMMA AppendFacts ==
    ASSUME NEW b, GoodBlock(b), NEW bytes \in Seq(Int)
    PROVE  /\ GoodBlock(AppendTo(b, bytes))
           /\ Contents(AppendTo(b, bytes)) = Contents(b) \o bytes
<1>1. PICK s : s = Contents(b)
    OBVIOUS
<1>2. b.size \in Nat /\ b.size \in 0..b.size /\ s \in Seq(Int) /\ Len(s) = b.size
    BY <1>1, BlockFacts
<1>3. Len(bytes) \in Nat /\ s \o bytes \in Seq(Int)
    BY <1>2, LenProperties, ConcatProperties
<1>4. AppendTo(b, bytes) = Copy(b, b.size, bytes)
    BY DEF AppendTo
<1>5. Replaced(s, b.size, bytes) = s \o bytes
    <2>1. b.size + Len(bytes) \in Nat /\ b.size + Len(bytes) >= Len(s)
        BY <1>2, <1>3
    <2>2. Take(s, b.size) = s /\ Drop(s, b.size + Len(bytes)) = <<>>
        BY <1>2, <2>1, WholeOrNothing
    <2>3. (s \o bytes) \o <<>> = s \o bytes
        BY <1>3, ConcatEmptySeq
    <2> QED BY <2>2, <2>3 DEF Replaced
<1> QED BY <1>1, <1>2, <1>4, <1>5, CopyFacts

\* A block's own bytes are the same before and after it has moved.
LEMMA CopyOwnFacts ==
    ASSUME NEW b, GoodBlock(b), NEW offset \in 0..b.size, NEW source \in Nat, NEW n \in Nat,
           source + n <= b.size
    PROVE  /\ GoodBlock(CopyOwn(b, offset, source, n))
           /\ SubSeq(Contents(b), source + 1, source + n) \in Seq(Int)
           /\ Len(SubSeq(Contents(b), source + 1, source + n)) = n
           /\ Contents(CopyOwn(b, offset, source, n)) =
                 Replaced(Contents(b), offset, SubSeq(Contents(b), source + 1, source + n))
<1>1. PICK s, m, r : s = Contents(b) /\ m = offset + n /\ r = Roomy(b, m)
    OBVIOUS
<1>2. /\ b.size \in Nat /\ offset \in Nat /\ ~(offset > b.size)
      /\ s \in Seq(Int) /\ Len(s) = b.size
    BY <1>1, BlockFacts
<1>3. m \in Nat /\ GoodBlock(r) /\ r.size = b.size /\ m <= Capacity(r) /\ Contents(r) = s
    <2>1. m \in Nat
        BY <1>1, <1>2
    <2> QED BY <1>1, <2>1, RoomyFacts
<1>4. r.mem \in Seq(Int) /\ \A i \in 1..b.size : s[i] = r.mem[i]
    BY <1>3, BlockFacts
<1>5. PICK f, t, u, v :
         /\ f = source + 1 /\ t = source + n
         /\ u = SubSeq(r.mem, f, t) /\ v = SubSeq(s, f, t)
    OBVIOUS
<1>6. f \in Nat /\ t \in Nat /\ \A i \in f..t : i \in 1..b.size
    BY <1>2, <1>5
<1>7. \A i \in f..t : s[i] \in Int /\ r.mem[i] \in Int /\ s[i] = r.mem[i]
    BY <1>2, <1>4, <1>6, ElementOfSeq
<1>8. (IF f <= t THEN t - f + 1 ELSE 0) = n
    BY <1>5
<1>9. u \in Seq(Int) /\ Len(u) = n /\ \A i \in 1..(t - f + 1) : u[i] = r.mem[f + i - 1]
    BY <1>5, <1>6, <1>7, <1>8, SubSeqProperties
<1>10. v \in Seq(Int) /\ Len(v) = n /\ \A i \in 1..(t - f + 1) : v[i] = s[f + i - 1]
    BY <1>5, <1>6, <1>7, <1>8, SubSeqProperties
<1>11. u = v
    <2>1. \A i \in 1..n : i \in 1..(t - f + 1) /\ f + i - 1 \in f..t
        BY <1>5
    <2>2. \A i \in 1..n : u[i] = v[i]
        BY <1>7, <1>9, <1>10, <2>1
    <2> QED BY <1>9, <1>10, <2>2, SeqEqual
<1>12. CopyOwn(b, offset, source, n) = Placed(r, offset, u)
    BY <1>1, <1>2, <1>5 DEF CopyOwn
<1>13. /\ GoodBlock(Placed(r, offset, u))
       /\ Contents(Placed(r, offset, u)) = Replaced(s, offset, u)
    <2>1. offset \in 0..r.size /\ offset + Len(u) <= Capacity(r)
        BY <1>1, <1>3, <1>9
    <2> QED BY <1>3, <1>9, <2>1, PlacedFacts
<1> QED BY <1>1, <1>5, <1>10, <1>11, <1>12, <1>13

\* Copying the end of a block over what is before it, and cutting the block.
LEMMA ClosedUp ==
    ASSUME NEW b, GoodBlock(b), NEW from \in 0..b.size, NEW to \in from..b.size
    PROVE  LET moved == CopyOwn(b, from, to, b.size - to)
               left == b.size - (to - from)
           IN /\ GoodBlock(moved) /\ moved.size = b.size
              /\ left \in 0..b.size
              /\ Take(Contents(moved), left) = Take(Contents(b), from) \o Drop(Contents(b), to)
<1>1. PICK s, n, left, moved, d, x, z :
         /\ s = Contents(b) /\ n = b.size - to /\ left = b.size - (to - from)
         /\ moved = CopyOwn(b, from, to, n) /\ d = Drop(s, to)
         /\ x = Take(s, from) \o d /\ z = Drop(s, from + Len(d))
    OBVIOUS
<1>2. /\ b.size \in Nat /\ s \in Seq(Int) /\ Len(s) = b.size
    BY <1>1, BlockFacts
<1>3. /\ from \in Nat /\ to \in Nat /\ from <= to /\ to <= b.size /\ n \in Nat /\ to + n = b.size
      /\ left \in 0..b.size /\ left = from + n
    BY <1>1, <1>2
<1>4. d \in Seq(Int) /\ Len(d) = n /\ d = SubSeq(s, to + 1, to + n)
    <2>1. to \in 0..Len(s)
        BY <1>2, <1>3
    <2>2. d \in Seq(Int) /\ Len(d) = Len(s) - to
        BY <1>1, <1>2, <2>1, DropFacts
    <2>3. d = SubSeq(s, to + 1, Len(s))
        BY <1>1 DEF Drop
    <2> QED BY <1>1, <1>2, <1>3, <2>2, <2>3
<1>5. GoodBlock(moved) /\ Contents(moved) = Replaced(s, from, d)
    <2>1. to + n <= b.size
        BY <1>2, <1>3
    <2>2. /\ GoodBlock(CopyOwn(b, from, to, n))
          /\ Contents(CopyOwn(b, from, to, n)) =
                Replaced(Contents(b), from, SubSeq(Contents(b), to + 1, to + n))
        BY <1>3, <2>1, CopyOwnFacts
    <2> QED BY <1>1, <1>4, <2>2
<1>6. Replaced(s, from, d) = x \o z
    BY <1>1 DEF Replaced
<1>7. x \in Seq(Int) /\ Len(x) = left
    <2>1. PICK y : y = Take(s, from)
        OBVIOUS
    <2>2. y \in Seq(Int) /\ Len(y) = from
        <3>1. from \in 0..Len(s)
            BY <1>2
        <3> QED BY <1>2, <2>1, <3>1, TakeFacts
    <2>3. x = y \o d
        BY <1>1, <2>1
    <2> QED BY <1>3, <1>4, <2>2, <2>3, ConcatProperties
<1>8. z \in Seq(Int)
    <2>1. from + Len(d) \in 0..Len(s)
        BY <1>2, <1>3, <1>4
    <2> QED BY <1>1, <1>2, <2>1, DropFacts
<1>9. Take(x \o z, left) = x
    <2>1. left \in 0..Len(x)
        BY <1>3, <1>7
    <2>2. Take(x \o z, left) = Take(x, left)
        BY <1>7, <1>8, <2>1, TakeOfMore
    <2> QED BY <1>7, <2>2, WholeOrNothing
<1>10. moved.size = b.size
    <2>1. Len(Contents(moved)) = moved.size
        BY <1>5, BlockFacts
    <2>2. from \in 0..Len(s) /\ ~(from + Len(d) > Len(s))
        BY <1>2, <1>3, <1>4
    <2>3. Len(Replaced(s, from, d)) = Len(s)
        BY <1>2, <1>4, <2>2, ReplacedFacts
    <2> QED BY <1>2, <1>5, <2>1, <2>3
<1> QED BY <1>1, <1>3, <1>5, <1>6, <1>9, <1>10

\* What HandleInput leaves: the bytes that are not used.
LEMMA CutFromFront ==
    ASSUME NEW b, GoodBlock(b), NEW n \in 0..b.size
    PROVE  LET q == DecEnd(CopyOwn(b, 0, n, b.size - n), n)
           IN GoodBlock(q) /\ q.size = b.size - n /\ Contents(q) = Drop(Contents(b), n)
<1>1. PICK moved, d, s, q :
         /\ moved = CopyOwn(b, 0, n, b.size - n) /\ s = Contents(b)
         /\ d = Drop(s, n) /\ q = DecEnd(moved, n)
    OBVIOUS
<1>2. b.size \in Nat /\ n \in Nat /\ n <= b.size /\ s \in Seq(Int) /\ Len(s) = b.size
    BY <1>1, BlockFacts
<1>3. d \in Seq(Int)
    BY <1>1, <1>2, DropFacts
<1>4. /\ GoodBlock(moved) /\ moved.size = b.size
      /\ Take(Contents(moved), b.size - n) = Take(s, 0) \o d
    <2>1. 0 \in 0..b.size /\ n \in 0..b.size /\ n - 0 = n
        BY <1>2
    <2> QED BY <1>1, <2>1, ClosedUp
<1>5. Take(s, 0) \o d = d
    BY <1>2, <1>3, WholeOrNothing, ConcatEmptySeq
<1>6. GoodBlock(q) /\ q.size = b.size - n /\ Contents(q) = Take(Contents(moved), b.size - n)
    BY <1>1, <1>4, DecEndFacts
<1> QED BY <1>1, <1>4, <1>5, <1>6

\* What HandleOutput leaves: the bytes that are not sent.
LEMMA LeftFacts ==
    ASSUME NEW b, GoodBlock(b), NEW n \in 0..b.size
    PROVE  GoodBlock(Left(b, n)) /\ Contents(Left(b, n)) = Drop(Contents(b), n)
<1>1. PICK s, d, k, moved :
         /\ s = Contents(b) /\ d = Drop(s, n) /\ k = b.size - n
         /\ moved = CopyOwn(b, 0, n, k)
    OBVIOUS
<1>2. /\ b.size \in Nat /\ n \in Nat /\ n <= b.size /\ s \in Seq(Int) /\ Len(s) = b.size
      /\ k \in Nat
    BY <1>1, BlockFacts
<1>3. d \in Seq(Int)
    BY <1>1, <1>2, DropFacts
<1>4. CASE n = b.size
    <2>1. Left(b, n) = Clear(b)
        BY <1>4 DEF Left
    <2>2. d = <<>>
        BY <1>1, <1>2, <1>4, WholeOrNothing
    <2> QED BY <1>1, <2>1, <2>2, ClearFacts
<1>5. CASE n # b.size
    <2>1. /\ GoodBlock(moved) /\ moved.size = b.size
          /\ Take(Contents(moved), k) = Take(s, 0) \o d
        <3>1. 0 \in 0..b.size /\ n \in 0..b.size /\ n - 0 = n
            BY <1>2
        <3> QED BY <1>1, <3>1, ClosedUp
    <2>2. Take(s, 0) \o d = d
        BY <1>2, <1>3, WholeOrNothing, ConcatEmptySeq
    <2>3. Left(b, n) = Resize(moved, k)
        BY <1>1, <1>5 DEF Left
    <2>4. (IF k < moved.size THEN k ELSE moved.size) = k
        BY <1>1, <1>2, <2>1
    <2>5. GoodBlock(Resize(moved, k)) /\ Contents(Resize(moved, k)) = Take(Contents(moved), k)
        BY <1>2, <2>1, <2>4, ResizeFacts
    <2> QED BY <1>1, <2>1, <2>2, <2>3, <2>5
<1> QED BY <1>4, <1>5

LEMMA CopyOfFacts ==
    ASSUME NEW b, GoodBlock(b)
    PROVE  Contents(CopyOf(b)) = Contents(b)
<1>1. PICK e, s : e = Block(Capacity(b)) /\ s = Contents(b)
    OBVIOUS
<1>2. Capacity(b) \in Nat /\ s \in Seq(Int)
    BY <1>1, BlockFacts
<1>3. GoodBlock(e) /\ Contents(e) = <<>>
    BY <1>1, <1>2, NewBlock
<1>4. Contents(AppendTo(e, s)) = <<>> \o s
    BY <1>2, <1>3, AppendFacts
<1>5. <<>> \o s = s
    BY <1>2, ConcatEmptySeq
<1> QED BY <1>1, <1>4, <1>5 DEF CopyOf

LEMMA SetDataFacts ==
    ASSUME NEW b, GoodBlock(b), NEW bytes \in Seq(Int)
    PROVE  Contents(SetData(b, bytes)) = bytes
<1>1. PICK c, r, n : c = Clear(b) /\ n = Len(bytes) /\ r = Resize(c, n)
    OBVIOUS
<1>2. n \in Nat /\ GoodBlock(c) /\ c.size = 0
    BY <1>1, ClearFacts, LenProperties
<1>3. GoodBlock(r) /\ r.size = 0
    <2>1. ~(n < c.size)
        BY <1>2
    <2> QED BY <1>1, <1>2, <2>1, ResizeFacts
<1>4. SetData(b, bytes) = Copy(r, r.size, bytes)
    BY <1>1, <1>3 DEF SetData
<1>5. Contents(AppendTo(r, bytes)) = Contents(r) \o bytes
    BY <1>3, AppendFacts
<1>6. Contents(r) = <<>>
    <2>1. <<>> \in Seq(Int) /\ Len(<<>>) = 0 /\ \A i \in 1..0 : FALSE
        OBVIOUS
    <2> QED BY <1>3, <2>1, ContentsAre
<1>7. <<>> \o bytes = bytes
    BY ConcatEmptySeq
<1> QED BY <1>4, <1>5, <1>6, <1>7 DEF AppendTo

LEMMA EraseFacts ==
    ASSUME NEW b, GoodBlock(b), NEW from \in 0..b.size, NEW to \in from..b.size
    PROVE  Contents(Erase(b, from, to)) = Take(Contents(b), from) \o Drop(Contents(b), to)
<1>1. PICK s, n, k : s = Contents(b) /\ n = to - from /\ k = b.size - n
    OBVIOUS
<1>2. /\ b.size \in Nat /\ s \in Seq(Int) /\ Len(s) = b.size
      /\ from \in Nat /\ to \in Nat /\ from <= to /\ to <= b.size
      /\ n \in 0..b.size /\ k \in 0..b.size
    BY <1>1, BlockFacts
<1>3. CASE from >= to
    <2>1. from = to /\ from \in 0..Len(s)
        BY <1>2, <1>3
    <2>2. Take(s, from) \o Drop(s, to) = s
        BY <1>2, <2>1, TakeThenDrop
    <2>3. Erase(b, from, to) = b
        BY <1>3 DEF Erase
    <2> QED BY <1>1, <2>2, <2>3
<1>4. CASE ~(from >= to) /\ from = 0 /\ to = b.size
    <2>1. Erase(b, from, to) = Clear(b)
        BY <1>2, <1>4 DEF Erase
    <2>2. Take(s, from) = <<>> /\ Drop(s, to) = <<>>
        BY <1>2, <1>4, WholeOrNothing
    <2>3. <<>> \in Seq(Int)
        OBVIOUS
    <2>4. <<>> \o <<>> = <<>>
        BY <2>3, ConcatEmptySeq
    <2> QED BY <1>1, <2>1, <2>2, <2>4, ClearFacts
<1>5. CASE ~(from >= to) /\ ~(from = 0 /\ to = b.size)
    <2>1. PICK moved : moved = CopyOwn(b, from, to, b.size - to)
        OBVIOUS
    <2>2. Erase(b, from, to) = DecEnd(moved, n)
        BY <1>1, <1>2, <1>5, <2>1 DEF Erase
    <2>3. /\ GoodBlock(moved) /\ moved.size = b.size
          /\ Take(Contents(moved), k) = Take(s, from) \o Drop(s, to)
        BY <1>1, <2>1, ClosedUp
    <2>4. Contents(DecEnd(moved, n)) = Take(Contents(moved), k)
        BY <1>1, <1>2, <2>3, DecEndFacts
    <2> QED BY <1>1, <2>2, <2>3, <2>4
<1> QED BY <1>3, <1>4, <1>5

\* A block's operations are those of a sequence, on every block.
LEMMA OperationsExact ==
    ASSUME NEW b, GoodBlock(b)
    PROVE  LET s == Contents(b)
               Within == {r \in (0..b.size) \X (0..b.size) : r[1] <= r[2]}
           IN /\ Contents(CopyOf(b)) = s
              /\ \A n \in 0..Capacity(b) + 1 :
                    Contents(Resize(b, n)) = Take(s, IF n < b.size THEN n ELSE b.size)
              /\ \A r \in Within :
                    /\ Contents(Erase(b, r[1], r[2])) = Take(s, r[1]) \o Drop(s, r[2])
                    /\ \A offset \in 0..b.size :
                          Contents(CopyOwn(b, offset, r[1], r[2] - r[1])) =
                              Replaced(s, offset, SubSeq(s, r[1] + 1, r[2]))
<1> DEFINE s == Contents(b)
           Within == {r \in (0..b.size) \X (0..b.size) : r[1] <= r[2]}
<1>1. b.size \in Nat /\ Capacity(b) \in Nat
    BY BlockFacts
<1>2. Contents(CopyOf(b)) = s
    BY CopyOfFacts
<1>3. \A n \in 0..Capacity(b) + 1 :
         Contents(Resize(b, n)) = Take(s, IF n < b.size THEN n ELSE b.size)
    <2> TAKE n \in 0..Capacity(b) + 1
    <2>1. n \in Nat
        BY <1>1
    <2> QED BY <2>1, ResizeFacts
<1>4. ASSUME NEW r \in Within
      PROVE  /\ Contents(Erase(b, r[1], r[2])) = Take(s, r[1]) \o Drop(s, r[2])
             /\ \A offset \in 0..b.size :
                   Contents(CopyOwn(b, offset, r[1], r[2] - r[1])) =
                       Replaced(s, offset, SubSeq(s, r[1] + 1, r[2]))
    <2>1. PICK from, to, n : from = r[1] /\ to = r[2] /\ n = to - from
        OBVIOUS
    <2>2. from \in 0..b.size /\ to \in 0..b.size /\ from <= to
        BY <1>4, <2>1
    <2>3. to \in from..b.size /\ from \in Nat /\ n \in Nat /\ from + n = to /\ from + n <= b.size
        BY <1>1, <2>1, <2>2
    <2>4. Contents(Erase(b, from, to)) = Take(s, from) \o Drop(s, to)
        BY <2>2, <2>3, EraseFacts
    <2>5. ASSUME NEW offset \in 0..b.size
          PROVE  Contents(CopyOwn(b, offset, from, n)) =
                     Replaced(s, offset, SubSeq(s, from + 1, to))
        <3>1. Contents(CopyOwn(b, offset, from, n)) =
                  Replaced(s, offset, SubSeq(s, from + 1, from + n))
            BY <2>3, CopyOwnFacts
        <3> QED BY <2>3, <3>1
    <2> QED BY <2>1, <2>4, <2>5
<1> QED BY <1>2, <1>3, <1>4

-----------------------------------------------------------------------------
(* The frames of a stream *)

Byte == 0..Junk

\* The operators of StreamFraming, with the kind of Procpack as a parameter.
EatAs(b, s) == IF b THEN Packlen(s) ELSE HeaderLen + Packlen(s)
WholeAs(b, s) ==
    /\ Len(s) >= HeaderLen /\ Len(s) >= EatAs(b, s)
    /\ EatAs(b, s) > HeaderLen \/ ~b
FramesFrom(b, s, F, i) ==
    IF WholeAs(b, Drop(s, i))
    THEN <<Take(Drop(s, i), EatAs(b, Drop(s, i)))>> \o F[i + EatAs(b, Drop(s, i))]
    ELSE <<>>
Parsed(b, s) == CHOOSE F : F = [i \in 0..Len(s) |-> FramesFrom(b, s, F, i)]
FramesAs(b, s) == Parsed(b, s)[0]

LEMMA SameFrames ==
    ASSUME NEW s
    PROVE  /\ Eat(s) = EatAs(binary, s) /\ Whole(s) = WholeAs(binary, s)
           /\ FramesOf(s) = FramesAs(binary, s)
<1>1. \A u : Eat(u) = EatAs(binary, u)
    BY DEF Eat, EatAs
<1>2. \A u : Whole(u) = WholeAs(binary, u)
    BY <1>1 DEF Whole, WholeAs
<1>3. FramesOf(s) = FramesAs(binary, s)
    BY DEF FramesOf, FramesAs, Parsed, FramesFrom, Whole, WholeAs, Eat, EatAs
<1> QED BY <1>1, <1>2, <1>3

LEMMA ByteFacts ==
    /\ Junk \in Nat /\ Byte \subseteq Nat /\ Byte \subseteq Int
    /\ Base \in Nat /\ HeaderLen \in Nat \ {0} /\ MaxChunk \in Nat \ {0}
    /\ BlockSize \in Nat /\ MaxBytes \in Nat
    /\ \A b \in BOOLEAN : Bytes(b) \subseteq Byte
<1>1. /\ Base \in Nat /\ HeaderLen \in Nat \ {0} /\ MaxChunk \in Nat \ {0}
      /\ BlockSize \in Nat /\ MaxBytes \in Nat
    BY FramingAssumption
<1>2. Junk \in Nat /\ 0..(Base - 1) \subseteq 0..Junk
    BY <1>1 DEF Junk
<1> QED BY <1>1, <1>2 DEF Byte, Bytes

\* Whatever the characters of a length field, it says some number.
LEMMA ValueIsANumber ==
    ASSUME NEW field \in Seq(Byte)
    PROVE  Value(field) \in Nat
<1> DEFINE n == Len(field)
           Ends(i) == field[i] = Junk \/ \E j \in 1..(i - 1) : field[j] = Junk
           step == [i \in 1..n |-> [x \in Nat |-> IF Ends(i) THEN x ELSE x * Base + field[i]]]
           Eq(f) == f = [i \in 0..n |->
                             IF i = 0 THEN 0
                             ELSE IF field[i] = Junk THEN f[i - 1]
                             ELSE IF \E j \in 1..(i - 1) : field[j] = Junk THEN f[i - 1]
                             ELSE f[i - 1] * Base + field[i]]
<1>1. n \in Nat /\ Base \in Nat
    BY ByteFacts, LenProperties
<1>2. \A i \in 1..n : field[i] \in Nat
    BY ByteFacts, ElementOfSeq
<1>3. StaysIn(step, n, Nat)
    <2>1. \A i \in 1..n : \A x \in Nat : x * Base + field[i] \in Nat
        BY <1>1, <1>2
    <2> HIDE DEF Ends
    <2> QED BY <2>1 DEF StaysIn
<1>4. PICK f : Follows(f, n, Nat, 0, step)
    <2> HIDE DEF step, n
    <2> QED BY <1>1, <1>3, StepByStep
<1>5. \A i \in 1..n : f[i] = IF Ends(i) THEN f[i - 1] ELSE f[i - 1] * Base + field[i]
    <2> TAKE i \in 1..n
    <2>1. f[i - 1] \in Nat /\ f[i] = step[i][f[i - 1]]
        <3> HIDE DEF step, n
        <3>1. i - 1 \in 0..n
            BY <1>1
        <3> QED BY <1>4, <3>1 DEF Follows
    <2> HIDE DEF Ends
    <2>2. \A x \in Nat : step[i][x] = IF Ends(i) THEN x ELSE x * Base + field[i]
        OBVIOUS
    <2> HIDE DEF step
    <2> QED BY <2>1, <2>2
<1>6. Eq(f)
    <2> HIDE DEF step
    <2>1. f[0] = 0 /\ f = [i \in 0..n |-> f[i]]
        BY <1>4 DEF Follows
    <2>2. ASSUME NEW i \in 0..n
          PROVE  f[i] = IF i = 0 THEN 0
                        ELSE IF field[i] = Junk THEN f[i - 1]
                        ELSE IF \E j \in 1..(i - 1) : field[j] = Junk THEN f[i - 1]
                        ELSE f[i - 1] * Base + field[i]
        <3>1. CASE i = 0
            BY <2>1, <3>1
        <3>2. CASE i # 0
            <4>1. i \in 1..n
                BY <1>1, <3>2
            <4>2. f[i] = IF Ends(i) THEN f[i - 1] ELSE f[i - 1] * Base + field[i]
                BY <1>5, <4>1
            <4> QED BY <3>2, <4>2
        <3> QED BY <3>1, <3>2
    <2> QED BY <2>1, <2>2
<1> DEFINE v == CHOOSE g : Eq(g)
<1>7. Eq(v)
    <2> HIDE DEF Eq
    <2> QED BY <1>6
<1>8. Value(field) = v[n]
    BY DEF Value
<1> HIDE DEF v, step
<1>9. v[0] = 0 /\ \A i \in 1..n : v[i] = IF Ends(i) THEN v[i - 1] ELSE v[i - 1] * Base + field[i]
    <2>1. \A i \in 0..n : v[i] = IF i = 0 THEN 0
                                 ELSE IF field[i] = Junk THEN v[i - 1]
                                 ELSE IF \E j \in 1..(i - 1) : field[j] = Junk THEN v[i - 1]
                                 ELSE v[i - 1] * Base + field[i]
        BY <1>7
    <2>2. \A i \in 1..n : i \in 0..n /\ i # 0
        BY <1>1
    <2> QED BY <1>1, <2>1, <2>2
<1> DEFINE C == {i \in 0..n : v[i] \notin Nat}
<1>10. 0 \notin C
    BY <1>9
<1>11. ASSUME NEW i \in 1..n, i - 1 \notin C
       PROVE  i \notin C
    <2>1. v[i - 1] \in Nat
        BY <1>1, <1>11
    <2>2. v[i - 1] * Base + field[i] \in Nat
        BY <1>1, <1>2, <2>1
    <2> HIDE DEF Ends
    <2> QED BY <1>9, <2>1, <2>2
<1>12. C = {}
    <2> HIDE DEF C
    <2>1. C \in SUBSET (0..n)
        BY DEF C
    <2> HIDE DEF n
    <2> QED BY <1>1, <1>10, <1>11, <2>1, NoLeastCounterexample
<1> QED BY <1>1, <1>8, <1>12

LEMMA EatFacts ==
    ASSUME NEW b \in BOOLEAN, NEW s \in Seq(Byte), Len(s) >= HeaderLen
    PROVE  /\ EatAs(b, s) \in Nat /\ Len(s) \in Nat
           /\ WholeAs(b, s) => EatAs(b, s) \in 1..Len(s)
<1>1. Len(s) \in Nat /\ HeaderLen \in Nat \ {0}
    BY ByteFacts, LenProperties
<1>2. HeaderLen \in 0..Len(s)
    BY <1>1
<1>3. Packlen(s) \in Nat
    BY <1>2, TakeFacts, ValueIsANumber DEF Packlen
<1> QED BY <1>1, <1>3 DEF EatAs, WholeAs

\* A chain of pieces, each with the place of the next further on: it exists,
\* there is but one, and it is a sequence of pieces.
Onwards(n, On, jump) == \A i \in On : i \in 0..n /\ jump[i] \in (i + 1)..n
IsChain(f, n, On, piece, jump) ==
    \A i \in 0..n : f[i] = IF i \in On THEN <<piece[i]>> \o f[jump[i]] ELSE <<>>

LEMMA ChainExists ==
    ASSUME NEW n \in Nat, NEW On, NEW piece, NEW jump, Onwards(n, On, jump)
    PROVE  \E f : f = [i \in 0..n |-> f[i]] /\ IsChain(f, n, On, piece, jump)
<1> DEFINE Link(f, i) == IF i \in On THEN <<piece[i]>> \o f[jump[i]] ELSE <<>>
           B == {i \in 0..n : ~ \E f : f = [j \in i..n |-> Link(f, j)]}
<1>1. ASSUME NEW i \in 0..n, \A j \in (i + 1)..n : j \notin B
      PROVE  i \notin B
    <2>1. \E f : f = [j \in (i + 1)..n |-> Link(f, j)]
        <3>1. CASE i = n
            <4>1. (i + 1)..n = {}
                BY <3>1
            <4> DEFINE e == [j \in {} |-> 0]
            <4>2. e = [j \in {} |-> Link(e, j)]
                OBVIOUS
            <4> HIDE DEF Link, e
            <4> QED BY <4>1, <4>2
        <3>2. CASE i # n
            <4>1. i + 1 \in (i + 1)..n /\ i + 1 \in 0..n
                BY <3>2
            <4> HIDE DEF Link
            <4> QED BY <1>1, <4>1
        <3> QED BY <3>1, <3>2
    <2>2. PICK f : f = [j \in (i + 1)..n |-> Link(f, j)]
        BY <2>1
    <2> DEFINE g == [j \in i..n |-> IF j = i THEN Link(f, i) ELSE f[j]]
    <2>3. \A j \in (i + 1)..n : g[j] = f[j]
        OBVIOUS
    <2>4. ASSUME NEW j \in i..n
          PROVE  g[j] = Link(g, j)
        <3>1. Link(g, j) = Link(f, j)
            <4>1. CASE j \in On
                <5>1. jump[j] \in (i + 1)..n
                    BY <4>1 DEF Onwards
                <5>2. g[jump[j]] = f[jump[j]]
                    BY <2>3, <5>1
                <5> HIDE DEF g
                <5> QED BY <5>2
            <4>2. CASE j \notin On
                BY <4>2
            <4> QED BY <4>1, <4>2
        <3>2. CASE j = i
            <4> HIDE DEF Link
            <4> QED BY <3>1, <3>2
        <3>3. CASE j # i
            <4>1. j \in (i + 1)..n
                BY <3>3
            <4> HIDE DEF Link
            <4>2. f[j] = Link(f, j)
                BY <2>2, <4>1
            <4> HIDE DEF g
            <4> QED BY <2>3, <3>1, <4>1, <4>2
        <3> QED BY <3>2, <3>3
    <2>5. g = [j \in i..n |-> Link(g, j)]
        <3>1. g = [j \in i..n |-> g[j]]
            OBVIOUS
        <3> HIDE DEF g, Link
        <3> QED BY <2>4, <3>1
    <2> HIDE DEF g, Link
    <2> QED BY <2>5
<1>2. B = {}
    <2> HIDE DEF B
    <2>1. B \in SUBSET (0..n)
        BY DEF B
    <2> QED BY <1>1, <2>1, NoGreatestCounterexample
<1>3. 0 \in 0..n
    OBVIOUS
<1> HIDE DEF Link
<1>4. PICK f : f = [i \in 0..n |-> Link(f, i)]
    BY <1>2, <1>3
<1>5. f = [i \in 0..n |-> f[i]] /\ \A i \in 0..n : f[i] = Link(f, i)
    BY <1>4
<1> QED BY <1>5 DEF Link, IsChain

LEMMA OneChain ==
    ASSUME NEW n \in Nat, NEW On, NEW piece, NEW jump, Onwards(n, On, jump),
           NEW f, NEW g, IsChain(f, n, On, piece, jump), IsChain(g, n, On, piece, jump)
    PROVE  \A i \in 0..n : f[i] = g[i]
<1> DEFINE B == {i \in 0..n : f[i] # g[i]}
<1>1. ASSUME NEW i \in 0..n, \A j \in (i + 1)..n : j \notin B
      PROVE  i \notin B
    <2>1. CASE i \in On
        <3>1. jump[i] \in (i + 1)..n /\ jump[i] \in 0..n
            BY <2>1 DEF Onwards
        <3>2. f[jump[i]] = g[jump[i]]
            BY <1>1, <3>1
        <3> QED BY <2>1, <3>2 DEF IsChain
    <2>2. CASE i \notin On
        BY <2>2 DEF IsChain
    <2> QED BY <2>1, <2>2
<1>2. B = {}
    <2> HIDE DEF B
    <2>1. B \in SUBSET (0..n)
        BY DEF B
    <2> QED BY <1>1, <2>1, NoGreatestCounterexample
<1> QED BY <1>2

LEMMA ChainOfPieces ==
    ASSUME NEW n \in Nat, NEW On, NEW piece, NEW jump, Onwards(n, On, jump),
           NEW f, IsChain(f, n, On, piece, jump), NEW S, \A i \in On : piece[i] \in S
    PROVE  \A i \in 0..n : f[i] \in Seq(S)
<1> DEFINE B == {i \in 0..n : f[i] \notin Seq(S)}
<1>1. ASSUME NEW i \in 0..n, \A j \in (i + 1)..n : j \notin B
      PROVE  i \notin B
    <2>1. CASE i \in On
        <3>1. jump[i] \in (i + 1)..n /\ jump[i] \in 0..n
            BY <2>1 DEF Onwards
        <3>2. f[jump[i]] \in Seq(S) /\ <<piece[i]>> \in Seq(S)
            BY <1>1, <2>1, <3>1
        <3>3. f[i] \in Seq(S)
            BY <2>1, <3>2, ConcatProperties DEF IsChain
        <3> QED BY <3>3
    <2>2. CASE i \notin On
        <3>1. f[i] = <<>>
            BY <2>2 DEF IsChain
        <3>2. <<>> \in Seq(S)
            BY EmptySeq
        <3>3. f[i] \in Seq(S)
            BY <3>1, <3>2
        <3> QED BY <3>3
    <2> QED BY <2>1, <2>2
<1>2. B = {}
    <2> HIDE DEF B
    <2>1. B \in SUBSET (0..n)
        BY DEF B
    <2> QED BY <1>1, <2>1, NoGreatestCounterexample
<1> QED BY <1>2

\* The places of a stream where a frame starts, if one starts at 0.
Starts(b, s) == {i \in 0..Len(s) : WholeAs(b, Drop(s, i))}
Pieces(b, s) == [i \in 0..Len(s) |-> Take(Drop(s, i), EatAs(b, Drop(s, i)))]
Ends(b, s) == [i \in 0..Len(s) |-> i + EatAs(b, Drop(s, i))]

LEMMA FramesAreAChain ==
    ASSUME NEW b \in BOOLEAN, NEW s \in Seq(Byte)
    PROVE  /\ Onwards(Len(s), Starts(b, s), Ends(b, s))
           /\ \A i \in Starts(b, s) : Pieces(b, s)[i] \in Seq(Byte)
           /\ IsChain(Parsed(b, s), Len(s), Starts(b, s), Pieces(b, s), Ends(b, s))
<1> DEFINE n == Len(s)
           On == Starts(b, s)
           piece == Pieces(b, s)
           jump == Ends(b, s)
           Eq(F) == F = [i \in 0..n |-> FramesFrom(b, s, F, i)]
<1>1. n \in Nat
    BY LenProperties
<1>2. ASSUME NEW i \in On
      PROVE  i \in 0..n /\ jump[i] \in (i + 1)..n /\ piece[i] \in Seq(Byte)
    <2>1. i \in 0..n /\ WholeAs(b, Drop(s, i))
        BY DEF Starts
    <2>2. PICK d, e : d = Drop(s, i) /\ e = EatAs(b, d)
        OBVIOUS
    <2>3. d \in Seq(Byte) /\ Len(d) = n - i
        BY <2>1, <2>2, DropFacts
    <2>4. WholeAs(b, d) /\ Len(d) >= HeaderLen
        BY <2>1, <2>2 DEF WholeAs
    <2>5. e \in 1..Len(d)
        BY <2>2, <2>3, <2>4, EatFacts
    <2>6. jump[i] = i + e /\ piece[i] = Take(d, e)
        BY <2>1, <2>2 DEF Ends, Pieces
    <2>7. jump[i] \in (i + 1)..n
        BY <1>1, <2>1, <2>3, <2>5, <2>6
    <2>8. e \in 0..Len(d)
        BY <2>5
    <2> QED BY <2>1, <2>3, <2>6, <2>7, <2>8, TakeFacts
<1>3. Onwards(n, On, jump)
    BY <1>2 DEF Onwards
<1>4. ASSUME NEW F, NEW i \in 0..n
      PROVE  FramesFrom(b, s, F, i) = IF i \in On THEN <<piece[i]>> \o F[jump[i]] ELSE <<>>
    BY DEF FramesFrom, Starts, Pieces, Ends
<1> HIDE DEF On, piece, jump
<1>5. PICK f : f = [i \in 0..n |-> f[i]] /\ IsChain(f, n, On, piece, jump)
    <2> HIDE DEF n
    <2> QED BY <1>1, <1>3, ChainExists
<1>6. Eq(f)
    <2>1. \A i \in 0..n : f[i] = FramesFrom(b, s, f, i)
        BY <1>4, <1>5 DEF IsChain
    <2> QED BY <1>5, <2>1
<1> DEFINE P == Parsed(b, s)
<1>7. Eq(P)
    <2>1. P = CHOOSE F : Eq(F)
        BY DEF Parsed
    <2> HIDE DEF Eq, P
    <2> QED BY <1>6, <2>1
<1> HIDE DEF P
<1>8. \A i \in 0..n : P[i] = FramesFrom(b, s, P, i)
    BY <1>7
<1>9. IsChain(P, n, On, piece, jump)
    BY <1>4, <1>8 DEF IsChain
<1> QED BY <1>2, <1>3, <1>9 DEF On, piece, jump, P

\* The frames of a stream are its first and those of the rest.
LEMMA FramesUnfold ==
    ASSUME NEW b \in BOOLEAN, NEW s \in Seq(Byte)
    PROVE  /\ FramesAs(b, s) \in Seq(Seq(Byte))
           /\ ~WholeAs(b, s) => FramesAs(b, s) = <<>>
           /\ WholeAs(b, s) => FramesAs(b, s) = <<Take(s, EatAs(b, s))>>
                                                   \o FramesAs(b, Drop(s, EatAs(b, s)))
<1>1. PICK n, F : n = Len(s) /\ F = Parsed(b, s)
    OBVIOUS
<1>2. n \in Nat /\ 0 \in 0..n
    BY <1>1, LenProperties
<1>3. /\ Onwards(n, Starts(b, s), Ends(b, s))
      /\ \A i \in Starts(b, s) : Pieces(b, s)[i] \in Seq(Byte)
      /\ IsChain(F, n, Starts(b, s), Pieces(b, s), Ends(b, s))
    BY <1>1, FramesAreAChain
<1>4. F[0] \in Seq(Seq(Byte)) /\ FramesAs(b, s) = F[0]
    BY <1>1, <1>2, <1>3, ChainOfPieces DEF FramesAs
<1>5. ASSUME NEW i \in 0..n
      PROVE  F[i] = IF WholeAs(b, Drop(s, i))
                    THEN <<Take(Drop(s, i), EatAs(b, Drop(s, i)))>> \o F[i + EatAs(b, Drop(s, i))]
                    ELSE <<>>
    BY <1>1, <1>3 DEF IsChain, Starts, Pieces, Ends
<1>6. Drop(s, 0) = s
    BY WholeOrNothing
<1>7. ~WholeAs(b, s) => F[0] = <<>>
    BY <1>2, <1>5, <1>6
<1>8. ASSUME WholeAs(b, s)
      PROVE  F[0] = <<Take(s, EatAs(b, s))>> \o FramesAs(b, Drop(s, EatAs(b, s)))
    <2>1. PICK e, u, m, G : e = EatAs(b, s) /\ u = Drop(s, e) /\ m = Len(u) /\ G = Parsed(b, u)
        OBVIOUS
    <2>2. e \in 1..n
        <3>1. Len(s) >= HeaderLen
            BY <1>8 DEF WholeAs
        <3> QED BY <1>1, <1>8, <2>1, <3>1, EatFacts
    <2>3. u \in Seq(Byte) /\ m = n - e /\ m \in Nat
        <3>1. e \in 0..Len(s)
            BY <1>1, <2>2
        <3>2. u \in Seq(Byte) /\ Len(u) = Len(s) - e
            BY <2>1, <3>1, DropFacts
        <3> QED BY <1>1, <1>2, <2>1, <2>2, <3>2
    <2>4. /\ Onwards(m, Starts(b, u), Ends(b, u))
          /\ IsChain(G, m, Starts(b, u), Pieces(b, u), Ends(b, u))
        BY <2>1, <2>3, FramesAreAChain
    <2> DEFINE g == [j \in 0..m |-> F[e + j]]
    <2>5. IsChain(g, m, Starts(b, u), Pieces(b, u), Ends(b, u))
        <3>1. ASSUME NEW j \in 0..m
              PROVE  g[j] = IF j \in Starts(b, u) THEN <<Pieces(b, u)[j]>> \o g[Ends(b, u)[j]]
                            ELSE <<>>
            <4>1. PICK i, d : i = e + j /\ d = Drop(s, i)
                OBVIOUS
            <4>2. i \in 0..n /\ j \in 0..(Len(s) - e) /\ e \in 0..Len(s)
                BY <1>1, <1>2, <2>2, <2>3, <4>1
            <4>3. Drop(u, j) = d
                BY <2>1, <4>1, <4>2, DropMore
            <4>4. g[j] = F[i]
                BY <4>1
            <4>5. F[i] = IF WholeAs(b, d) THEN <<Take(d, EatAs(b, d))>> \o F[i + EatAs(b, d)]
                         ELSE <<>>
                BY <1>5, <4>1, <4>2
            <4>6. j \in Starts(b, u) <=> WholeAs(b, d)
                BY <2>1, <4>3 DEF Starts
            <4>7. Pieces(b, u)[j] = Take(d, EatAs(b, d)) /\ Ends(b, u)[j] = j + EatAs(b, d)
                BY <2>1, <4>3 DEF Pieces, Ends
            <4>8. ASSUME WholeAs(b, d)
                  PROVE  g[j + EatAs(b, d)] = F[i + EatAs(b, d)]
                <5>1. PICK k : k = EatAs(b, d)
                    OBVIOUS
                <5>2. j + k \in (j + 1)..m
                    BY <2>4, <4>6, <4>7, <4>8, <5>1 DEF Onwards
                <5>3. d \in Seq(Byte) /\ Len(d) >= HeaderLen
                    BY <1>1, <4>1, <4>2, <4>8, DropFacts DEF WholeAs
                <5>4. k \in Nat
                    BY <5>1, <5>3, EatFacts
                <5>5. j + k \in 0..m /\ e + (j + k) = i + k
                    BY <2>2, <2>3, <4>1, <5>2, <5>4
                <5> QED BY <5>1, <5>5
            <4> HIDE DEF g
            <4> QED BY <4>4, <4>5, <4>6, <4>7, <4>8
        <3> HIDE DEF g
        <3> QED BY <3>1 DEF IsChain
    <2>6. G[0] = g[0]
        <3> HIDE DEF g
        <3>1. 0 \in 0..m
            BY <2>3
        <3> QED BY <2>3, <2>4, <2>5, <3>1, OneChain
    <2>7. g[0] = F[e]
        BY <2>2, <2>3
    <2>8. F[0] = <<Take(s, e)>> \o F[e]
        <3>1. 0 + e = e
            BY <2>2
        <3> QED BY <1>2, <1>5, <1>6, <1>8, <2>1, <3>1
    <2> QED BY <2>1, <2>6, <2>7, <2>8 DEF FramesAs
<1> QED BY <1>4, <1>7, <1>8

\* A whole frame stays one, and what follows it, whatever comes behind.
LEMMA MoreToCome ==
    ASSUME NEW b \in BOOLEAN, NEW s \in Seq(Byte), NEW t \in Seq(Byte), WholeAs(b, s)
    PROVE  /\ EatAs(b, s) \in 1..Len(s)
           /\ Take(s, EatAs(b, s)) \in Seq(Byte) /\ Drop(s, EatAs(b, s)) \in Seq(Byte)
           /\ FramesAs(b, s \o t) = <<Take(s, EatAs(b, s))>>
                                       \o FramesAs(b, Drop(s, EatAs(b, s)) \o t)
<1>1. PICK e, u : e = EatAs(b, s) /\ u = s \o t
    OBVIOUS
<1>2. /\ Len(s) >= HeaderLen /\ Len(s) \in Nat /\ Len(t) \in Nat /\ HeaderLen \in Nat
      /\ e \in 1..Len(s)
    BY <1>1, EatFacts, ByteFacts, LenProperties DEF WholeAs
<1>3. u \in Seq(Byte) /\ Len(u) = Len(s) + Len(t)
    BY <1>1, ConcatProperties
<1>4. HeaderLen \in 0..Len(s) /\ e \in 0..Len(s)
    BY <1>2
<1>5. Take(u, HeaderLen) = Take(s, HeaderLen)
    BY <1>1, <1>4, TakeOfMore
<1>6. EatAs(b, u) = e
    BY <1>1, <1>5 DEF EatAs, Packlen
<1>7. WholeAs(b, u)
    BY <1>1, <1>2, <1>3, <1>6 DEF WholeAs
<1>8. FramesAs(b, u) = <<Take(u, e)>> \o FramesAs(b, Drop(u, e))
    BY <1>3, <1>6, <1>7, FramesUnfold
<1>9. Take(u, e) = Take(s, e) /\ Drop(u, e) = Drop(s, e) \o t
    BY <1>1, <1>4, TakeOfMore, DropOfMore
<1>10. Take(s, e) \in Seq(Byte) /\ Drop(s, e) \in Seq(Byte)
    BY <1>4, TakeFacts, DropFacts
<1> QED BY <1>1, <1>2, <1>8, <1>9, <1>10

\* recv puts bytes behind those the buffer has.
LEMMA ReceivedFacts ==
    ASSUME NEW b, GoodBlock(b), NEW n \in 1..MaxChunk, NEW chunk \in Seq(Int), Len(chunk) = n
    PROVE  LET q == IncEnd(Written(Resize(b, b.size + MaxChunk), b.size, chunk), n)
           IN GoodBlock(q) /\ q.size = b.size + n /\ Contents(q) = Contents(b) \o chunk
<1>1. PICK k, size, r, w, q, s, u :
         /\ size = b.size /\ k = size + MaxChunk /\ r = Resize(b, k)
         /\ w = Written(r, size, chunk) /\ q = IncEnd(w, n)
         /\ s = Contents(b) /\ u = s \o chunk
    OBVIOUS
<1>2. size \in Nat /\ MaxChunk \in Nat \ {0} /\ n \in Nat /\ n <= MaxChunk /\ k \in Nat
    BY <1>1, BlockFacts, ByteFacts
<1>3. s \in Seq(Int) /\ Len(s) = size /\ \A i \in 1..size : s[i] = b.mem[i]
    BY <1>1, BlockFacts
<1>4. /\ GoodBlock(r) /\ r.size = size /\ Capacity(r) >= k
      /\ \A i \in 1..size : r.mem[i] = b.mem[i]
    <2>1. (IF k < size THEN k ELSE size) = size
        BY <1>1, <1>2
    <2> QED BY <1>1, <1>2, <2>1, ResizeFacts, ZenonT(30)
<1>5. PICK l : l = Len(r.mem)
    OBVIOUS
<1>6. l \in Nat /\ size + n <= l
    <2>1. l = Capacity(r) /\ l \in Nat
        BY <1>4, <1>5, BlockFacts
    <2> QED BY <1>1, <1>2, <1>4, <2>1
<1>7. /\ GoodBlock(w) /\ w.size = size /\ Len(w.mem) = l
      /\ \A i \in 1..l : w.mem[i] = IF i <= size \/ i > size + Len(chunk) THEN r.mem[i]
                                    ELSE chunk[i - size]
    <2>1. GoodBlock(r) /\ size \in Nat /\ chunk \in Seq(Int) /\ r.size = size
        BY <1>2, <1>4
    <2>2. /\ GoodBlock(Written(r, size, chunk)) /\ Written(r, size, chunk).size = r.size
          /\ Len(Written(r, size, chunk).mem) = Len(r.mem)
          /\ \A i \in 1..Len(r.mem) :
                 Written(r, size, chunk).mem[i] =
                     IF i <= size \/ i > size + Len(chunk) THEN r.mem[i] ELSE chunk[i - size]
        BY <2>1, WrittenFacts
    <2>3. w = Written(r, size, chunk)
        BY <1>1
    <2> QED BY <1>5, <2>1, <2>2, <2>3
<1>8. w = [mem |-> w.mem, size |-> size] /\ w.mem \in Seq(Int) /\ Capacity(w) = l
    BY <1>7, BlockFacts
<1>9. q = [mem |-> w.mem, size |-> size + n]
    <2>1. ~(n > Capacity(w) - w.size)
        BY <1>2, <1>6, <1>7, <1>8
    <2>2. q = [w EXCEPT !.size = @ + n]
        BY <1>1, <2>1 DEF IncEnd
    <2> QED BY <1>8, <2>2
<1>10. GoodBlock(q) /\ q.mem = w.mem /\ q.size = size + n
    <2>1. size + n \in Nat /\ size + n <= Len(w.mem) /\ w.mem \in Seq(Int)
        BY <1>2, <1>6, <1>7, <1>8
    <2> QED BY <1>9, <2>1, MakeBlock
<1>11. /\ u \in Seq(Int) /\ Len(u) = size + n
       /\ \A i \in 1..size + n : u[i] = IF i <= size THEN s[i] ELSE chunk[i - size]
    <2>1. Len(s) = size /\ Len(chunk) = n /\ s \in Seq(Int) /\ chunk \in Seq(Int)
        BY <1>3
    <2>2. /\ s \o chunk \in Seq(Int) /\ Len(s \o chunk) = Len(s) + Len(chunk)
          /\ \A i \in 1..Len(s) + Len(chunk) :
                 (s \o chunk)[i] = IF i <= Len(s) THEN s[i] ELSE chunk[i - Len(s)]
        BY <2>1, ConcatProperties
    <2>3. u = s \o chunk
        BY <1>1
    <2> QED BY <2>1, <2>2, <2>3
<1>12. \A i \in 1..q.size : q.mem[i] = u[i]
    <2> TAKE i \in 1..q.size
    <2>1. i \in 1..size + n /\ i \in 1..l /\ ~(i > size + Len(chunk))
        BY <1>2, <1>6, <1>10
    <2>2. i <= size => i \in 1..size
        BY <1>2, <2>1
    <2> QED BY <1>3, <1>4, <1>7, <1>10, <1>11, <2>1, <2>2
<1>13. Contents(q) = u
    BY <1>10, <1>11, <1>12, ContentsAre
<1> QED BY <1>1, <1>10, <1>13

-----------------------------------------------------------------------------
(* The inductive invariants *)

\* No complete frame, but one without data for which a further byte is awaited.
Idle(b, s) == Len(s) <= HeaderLen \/ Len(s) < EatAs(b, s)

\* Whatever is sent next, the frames are those handed over and those of what is
\* left with what is sent.
Agree(b, s, fs, rest) ==
    \A t \in Seq(Byte) : FramesAs(b, s \o t) = fs \o FramesAs(b, rest \o t)

StreamInv ==
    /\ binary \in BOOLEAN /\ at \in {"recv", "extract", "closed"}
    /\ sent \in Seq(Byte) /\ Len(sent) <= MaxBytes
    /\ GoodBlock(recvbuffer) /\ Contents(recvbuffer) \in Seq(Byte)
    /\ recvbuffer.size <= Len(sent) /\ used \in 0..recvbuffer.size
    /\ at = "recv" => used = 0 /\ Idle(binary, Rest)
    /\ frames \in Seq(Seq(Byte))
    /\ Agree(binary, sent, frames, Rest)

SendInv ==
    /\ GoodBlock(sendbuffer) /\ answers \in Seq(Int) /\ delivered \in Seq(Int)
    /\ AnswersInOrder

LEMMA RestFacts ==
    ASSUME StreamInv
    PROVE  /\ Rest \in Seq(Byte) /\ Len(Rest) = recvbuffer.size - used
           /\ recvbuffer.size \in Nat /\ used \in Nat
           /\ used = 0 => Rest = Contents(recvbuffer)
<1>1. PICK c : c = Contents(recvbuffer)
    OBVIOUS
<1>2. recvbuffer.size \in Nat /\ c \in Seq(Byte) /\ Len(c) = recvbuffer.size
    BY <1>1, BlockFacts DEF StreamInv
<1>3. used \in 0..Len(c) /\ used \in Nat
    BY <1>2 DEF StreamInv
<1>4. Drop(c, used) \in Seq(Byte) /\ Len(Drop(c, used)) = Len(c) - used
    BY <1>2, <1>3, DropFacts
<1>5. used = 0 => Drop(c, used) = c
    BY <1>2, WholeOrNothing
<1> QED BY <1>1, <1>2, <1>3, <1>4, <1>5 DEF Rest

LEMMA InitHolds == ConnectionInit => StreamInv /\ SendInv
<1> SUFFICES ASSUME ConnectionInit
             PROVE  StreamInv /\ SendInv
    OBVIOUS
<1>1. BlockSize \in Nat /\ MaxBytes \in Nat
    BY ByteFacts
<1>2. PICK b : b = Block(BlockSize)
    OBVIOUS
<1>3. GoodBlock(b) /\ b.size = 0 /\ Contents(b) = <<>>
    BY <1>1, <1>2, NewBlock
<1>4. <<>> \in Seq(Byte) /\ <<>> \in Seq(Seq(Byte)) /\ <<>> \in Seq(Int) /\ Len(<<>>) = 0
    OBVIOUS
<1>5. /\ binary \in BOOLEAN /\ sent = <<>> /\ recvbuffer = b /\ used = 0 /\ frames = <<>>
      /\ at = "recv" /\ sendbuffer = b /\ answers = <<>> /\ delivered = <<>>
    BY <1>2 DEF ConnectionInit, Init
<1>6. Rest = <<>>
    BY <1>3, <1>4, <1>5, WholeOrNothing DEF Rest
<1>7. Idle(binary, Rest)
    BY <1>4, <1>6, ByteFacts DEF Idle
<1>8. Agree(binary, sent, frames, Rest)
    <2>1. ASSUME NEW t \in Seq(Byte)
          PROVE  FramesAs(binary, sent \o t) = frames \o FramesAs(binary, Rest \o t)
        <3>1. <<>> \o t = t
            BY ConcatEmptySeq
        <3>2. FramesAs(binary, t) \in Seq(Seq(Byte))
            BY <1>5, FramesUnfold
        <3>3. <<>> \o FramesAs(binary, t) = FramesAs(binary, t)
            BY <3>2, ConcatEmptySeq
        <3> QED BY <1>5, <1>6, <3>1, <3>3
    <2> QED BY <2>1 DEF Agree
<1>9. StreamInv
    BY <1>1, <1>3, <1>4, <1>5, <1>7, <1>8 DEF StreamInv
<1>10. <<>> \o <<>> = <<>>
    BY <1>4, ConcatEmptySeq
<1> QED BY <1>3, <1>4, <1>5, <1>9, <1>10 DEF SendInv, AnswersInOrder

LEMMA RecvKeeps ==
    ASSUME StreamInv, NEW n \in 1..MaxChunk, Recv(n)
    PROVE  StreamInv'
<1>1. PICK chunk \in [1..n -> Bytes(binary)] :
         /\ sent' = sent \o chunk
         /\ recvbuffer' = IncEnd(Written(Resize(recvbuffer, recvbuffer.size + MaxChunk),
                                         recvbuffer.size, chunk), n)
    BY DEF Recv
<1>2. /\ at = "recv" /\ Len(sent) + n <= MaxBytes /\ used' = 0 /\ at' = "extract"
      /\ UNCHANGED <<binary, frames>>
    BY DEF Recv
<1>3. n \in Nat /\ chunk \in Seq(Byte) /\ chunk \in Seq(Int) /\ Len(chunk) = n
    <2>1. n \in Nat
        BY ByteFacts
    <2>2. \A i \in 1..n : chunk[i] \in Byte /\ chunk[i] \in Int
        BY ByteFacts DEF StreamInv
    <2>3. chunk = [i \in 1..n |-> chunk[i]]
        OBVIOUS
    <2>4. chunk \in [1..n -> Byte] /\ chunk \in [1..n -> Int]
        BY <2>2, <2>3
    <2> QED BY <2>1, <2>4
<1>4. PICK q, c, s, fs, b :
         q = recvbuffer' /\ c = Contents(recvbuffer) /\ s = sent /\ fs = frames /\ b = binary
    OBVIOUS
<1>5. /\ GoodBlock(q) /\ q.size = recvbuffer.size + n /\ Contents(q) = c \o chunk
    BY <1>1, <1>3, <1>4, ReceivedFacts DEF StreamInv
<1>6. /\ s \in Seq(Byte) /\ c \in Seq(Byte) /\ Rest = c /\ b \in BOOLEAN
      /\ recvbuffer.size \in Nat /\ Len(s) \in Nat /\ recvbuffer.size <= Len(s)
      /\ fs \in Seq(Seq(Byte)) /\ Agree(b, s, fs, c)
    BY <1>2, <1>4, RestFacts, LenProperties DEF StreamInv
<1>7. /\ sent' = s \o chunk /\ s \o chunk \in Seq(Byte) /\ Len(s \o chunk) = Len(s) + n
      /\ c \o chunk \in Seq(Byte)
    BY <1>1, <1>3, <1>4, <1>6, ConcatProperties
<1>8. Rest' = c \o chunk
    <2>1. Drop(c \o chunk, 0) = c \o chunk
        BY <1>7, WholeOrNothing
    <2> QED BY <1>2, <1>4, <1>5, <2>1 DEF Rest
<1>9. Agree(b, s \o chunk, fs, c \o chunk)
    <2>1. ASSUME NEW t \in Seq(Byte)
          PROVE  FramesAs(b, (s \o chunk) \o t) = fs \o FramesAs(b, (c \o chunk) \o t)
        <3>1. PICK u : u = chunk \o t
            OBVIOUS
        <3>2. u \in Seq(Byte) /\ (s \o chunk) \o t = s \o u /\ (c \o chunk) \o t = c \o u
            <4>1. s \in Seq(Byte) /\ c \in Seq(Byte) /\ chunk \in Seq(Byte)
                BY <1>3, <1>6
            <4>2. u \in Seq(Byte)
                BY <3>1, <4>1, ConcatProperties
            <4>3. (s \o chunk) \o t = s \o (chunk \o t)
                BY <4>1, ConcatAssociative, SMTT(30)
            <4>4. (c \o chunk) \o t = c \o (chunk \o t)
                BY <4>1, ConcatAssociative
            <4> QED BY <3>1, <4>2, <4>3, <4>4
        <3> QED BY <1>6, <3>2 DEF Agree
    <2> QED BY <2>1 DEF Agree
<1>10. 0 \in 0..q.size /\ q.size <= Len(s \o chunk) /\ Len(s \o chunk) <= MaxBytes
    BY <1>2, <1>3, <1>4, <1>5, <1>6, <1>7
<1> QED BY <1>2, <1>4, <1>5, <1>6, <1>7, <1>8, <1>9, <1>10 DEF StreamInv

LEMMA ExtractFrameKeeps ==
    ASSUME StreamInv, ExtractFrame
    PROVE  StreamInv'
<1>1. PICK b, s, rest, c, e, fs, x, m :
         /\ b = binary /\ s = sent /\ rest = Rest /\ c = Contents(recvbuffer) /\ m = used
         /\ e = EatAs(b, rest) /\ fs = frames /\ x = Take(rest, e)
    OBVIOUS
<1>2. /\ at = "extract" /\ HasFrame(rest) /\ ~BadLength(rest)
      /\ frames' = Append(fs, Package(Take(rest, Eat(rest)))) /\ used' = m + Eat(rest)
      /\ UNCHANGED <<binary, sent, recvbuffer, at>>
    BY <1>1 DEF ExtractFrame
<1>3. /\ b \in BOOLEAN /\ rest \in Seq(Byte) /\ fs \in Seq(Seq(Byte)) /\ Agree(b, s, fs, rest)
      /\ c \in Seq(Byte) /\ Len(c) = recvbuffer.size /\ recvbuffer.size \in Nat
      /\ m \in 0..Len(c) /\ m \in Nat /\ rest = Drop(c, m) /\ Len(rest) = Len(c) - m
    BY <1>1, RestFacts, BlockFacts DEF StreamInv, Rest
<1>4. Eat(rest) = e
    BY <1>1, SameFrames
<1>5. Len(rest) > HeaderLen /\ Len(rest) >= e /\ Len(rest) \in Nat /\ HeaderLen \in Nat
    BY <1>2, <1>3, <1>4, LenProperties, ByteFacts DEF HasFrame
<1>6. Packlen(rest) \in Nat
    <2>1. HeaderLen \in 0..Len(rest)
        BY <1>5
    <2> QED BY <1>3, <2>1, TakeFacts, ValueIsANumber DEF Packlen
<1>7. WholeAs(b, rest)
    BY <1>1, <1>2, <1>5, <1>6 DEF WholeAs, BadLength, EatAs
<1>8. /\ e \in 1..Len(rest) /\ x \in Seq(Byte) /\ Drop(rest, e) \in Seq(Byte)
    <2>1. EatAs(b, rest) \in 1..Len(rest)
        BY <1>3, <1>5, <1>7, EatFacts
    <2>2. e \in 1..Len(rest) /\ e \in 0..Len(rest)
        BY <1>1, <1>5, <2>1
    <2>3. Take(rest, e) \in Seq(Byte)
        BY <1>3, <2>2, TakeFacts
    <2>4. Drop(rest, e) \in Seq(Byte)
        BY <1>3, <2>2, DropFacts
    <2> QED BY <1>1, <2>2, <2>3, <2>4
<1>9. frames' = fs \o <<x>> /\ frames' \in Seq(Seq(Byte)) /\ <<x>> \in Seq(Seq(Byte))
    <2>1. x \in Seq(Int)
        BY <1>8, ByteFacts, SeqMonotonic
    <2>2. PICK q : q = Block(BlockSize)
        OBVIOUS
    <2>3. GoodBlock(q)
        BY <2>2, ByteFacts, NewBlock
    <2>4. Contents(SetData(q, x)) = x
        BY <2>1, <2>3, SetDataFacts
    <2>5. Package(x) = x
        BY <2>2, <2>4 DEF Package
    <2>6. frames' = Append(fs, x)
        BY <1>1, <1>2, <1>4, <2>5
    <2>7. Append(fs, x) \in Seq(Seq(Byte))
        BY <1>3, <1>8, AppendProperties
    <2>8. Append(fs, x) = fs \o <<x>>
        BY <1>3, <1>8, AppendIsConcat
    <2>9. <<x>> \in Seq(Seq(Byte))
        BY <1>8
    <2> QED BY <2>6, <2>7, <2>8, <2>9
<1>10. used' \in 0..recvbuffer.size
    BY <1>2, <1>3, <1>4, <1>8
<1>11. Rest' = Drop(rest, e)
    <2>1. e \in 0..(Len(c) - m)
        BY <1>3, <1>8
    <2>2. Drop(Drop(c, m), e) = Drop(c, m + e)
        BY <1>3, <2>1, DropMore
    <2> QED BY <1>1, <1>2, <1>3, <1>4, <2>2 DEF Rest
<1>12. Agree(b, s, fs \o <<x>>, Drop(rest, e))
    <2>1. ASSUME NEW t \in Seq(Byte)
          PROVE  FramesAs(b, s \o t) = (fs \o <<x>>) \o FramesAs(b, Drop(rest, e) \o t)
        <3>1. PICK g : g = FramesAs(b, Drop(rest, e) \o t)
            OBVIOUS
        <3>2. g \in Seq(Seq(Byte))
            <4>1. Drop(rest, e) \o t \in Seq(Byte)
                BY <1>8, ConcatProperties
            <4> QED BY <1>3, <3>1, <4>1, FramesUnfold
        <3>3. FramesAs(b, rest \o t) = <<x>> \o g
            <4>1. b \in BOOLEAN /\ rest \in Seq(Byte) /\ WholeAs(b, rest)
                BY <1>3, <1>7
            <4>2. FramesAs(b, rest \o t) = <<Take(rest, EatAs(b, rest))>>
                                             \o FramesAs(b, Drop(rest, EatAs(b, rest)) \o t)
                BY <4>1, MoreToCome
            <4> QED BY <1>1, <3>1, <4>2
        <3>4. FramesAs(b, s \o t) = fs \o (<<x>> \o g)
            BY <1>3, <3>3 DEF Agree
        <3>5. (fs \o <<x>>) \o g = fs \o (<<x>> \o g)
            BY <1>3, <1>9, <3>2, ConcatAssociative, SMTT(30)
        <3> QED BY <3>1, <3>4, <3>5
    <2> QED BY <2>1 DEF Agree
<1> QED BY <1>1, <1>2, <1>9, <1>10, <1>11, <1>12 DEF StreamInv

LEMMA ExtractFailsKeeps ==
    ASSUME StreamInv, ExtractFails
    PROVE  StreamInv'
<1>1. at' = "closed" /\ UNCHANGED <<binary, sent, recvbuffer, used, frames>>
    BY DEF ExtractFails
<1>2. Rest' = Rest
    BY <1>1 DEF Rest
<1> QED BY <1>1, <1>2 DEF StreamInv

LEMMA ExtractDoneKeeps ==
    ASSUME StreamInv, ExtractDone
    PROVE  StreamInv'
<1>1. PICK q, n, rest, b :
         q = recvbuffer /\ n = used /\ rest = Rest /\ b = binary
    OBVIOUS
<1>2. /\ ~HasFrame(rest) /\ ~BadLength(rest) /\ recvbuffer' = Moved(n) /\ used' = 0
      /\ at' = "recv" /\ UNCHANGED <<binary, sent, frames>>
    BY <1>1 DEF ExtractDone
<1>3. /\ GoodBlock(q) /\ q.size \in Nat /\ n \in 0..q.size /\ rest = Drop(Contents(q), n)
      /\ rest \in Seq(Byte) /\ Len(rest) = q.size - n /\ q.size <= Len(sent)
      /\ sent \in Seq(Byte) /\ Len(sent) \in Nat
      /\ n = 0 => rest = Contents(q)
    BY <1>1, RestFacts, LenProperties DEF StreamInv, Rest
<1>4. PICK p : p = recvbuffer'
    OBVIOUS
<1>5. GoodBlock(p) /\ p.size = q.size - n /\ Contents(p) = rest
    <2>1. CASE n = 0
        BY <1>1, <1>2, <1>3, <1>4, <2>1 DEF Moved
    <2>2. CASE n # 0
        <3>1. p = DecEnd(CopyOwn(q, 0, n, q.size - n), n)
            BY <1>1, <1>2, <1>4, <2>2 DEF Moved
        <3>2. LET z == DecEnd(CopyOwn(q, 0, n, q.size - n), n)
              IN GoodBlock(z) /\ z.size = q.size - n /\ Contents(z) = Drop(Contents(q), n)
            BY <1>3, CutFromFront
        <3> QED BY <1>3, <3>1, <3>2
    <2> QED BY <2>1, <2>2
<1>6. Rest' = rest
    <2>1. Drop(rest, 0) = rest
        BY <1>3, WholeOrNothing
    <2> QED BY <1>2, <1>4, <1>5, <2>1 DEF Rest
<1>7. Idle(b, rest)
    <2>1. Eat(rest) = EatAs(b, rest)
        BY <1>1, SameFrames
    <2>2. HeaderLen \in Nat /\ Len(rest) \in Nat
        BY <1>3, ByteFacts, LenProperties
    <2>3. b \in BOOLEAN
        BY <1>1 DEF StreamInv
    <2>4. Len(rest) >= HeaderLen => EatAs(b, rest) \in Nat
        BY <1>3, <2>3, EatFacts
    <2> QED BY <1>2, <2>1, <2>2, <2>4 DEF Idle, HasFrame
<1>8. p.size <= Len(sent) /\ 0 \in 0..p.size
    BY <1>3, <1>5
<1>9. Agree(b, sent, frames, rest)
    BY <1>1 DEF StreamInv
<1> QED BY <1>1, <1>2, <1>3, <1>4, <1>5, <1>6, <1>7, <1>8, <1>9 DEF StreamInv

LEMMA NextKeeps ==
    ASSUME StreamInv, [Next]_vars
    PROVE  StreamInv'
<1>1. CASE \E n \in 1..MaxChunk : Recv(n)
    BY <1>1, RecvKeeps
<1>2. CASE ExtractFrame
    BY <1>2, ExtractFrameKeeps
<1>3. CASE ExtractFails
    BY <1>3, ExtractFailsKeeps
<1>4. CASE ExtractDone
    BY <1>4, ExtractDoneKeeps
<1>5. CASE UNCHANGED vars
    <2>1. UNCHANGED <<binary, sent, recvbuffer, used, frames, at>>
        BY <1>5 DEF vars
    <2>2. Rest' = Rest
        BY <2>1 DEF Rest
    <2> QED BY <2>1, <2>2 DEF StreamInv
<1> QED BY <1>1, <1>2, <1>3, <1>4, <1>5 DEF Next

\* What goes out comes off the front.
LEMMA OutputKeeps ==
    ASSUME NEW b, GoodBlock(b), NEW a \in Seq(Int), delivered \in Seq(Int),
           delivered \o Contents(b) = a, Output(b)
    PROVE  /\ GoodBlock(sendbuffer') /\ delivered' \in Seq(Int)
           /\ delivered' \o Contents(sendbuffer') = a
<1>1. PICK n \in 0..b.size :
         sendbuffer' = Left(b, n) /\ delivered' = delivered \o Take(Contents(b), n)
    BY DEF Output
<1>2. PICK d, c, t, u, p :
         /\ d = delivered /\ c = Contents(b) /\ t = Take(c, n) /\ u = Drop(c, n)
         /\ p = sendbuffer'
    OBVIOUS
<1>3. c \in Seq(Int) /\ n \in 0..Len(c)
    BY <1>2, BlockFacts
<1>4. t \in Seq(Int)
    BY <1>2, <1>3, TakeFacts
<1>5. u \in Seq(Int)
    BY <1>2, <1>3, DropFacts
<1>6. t \o u = c
    BY <1>2, <1>3, TakeThenDrop
<1>7. GoodBlock(p) /\ Contents(p) = u
    BY <1>1, <1>2, LeftFacts
<1>8. delivered' = d \o t /\ d \in Seq(Int) /\ d \o c = a
    BY <1>1, <1>2
<1>9. d \o t \in Seq(Int)
    BY <1>4, <1>8, ConcatProperties
<1>10. (d \o t) \o u = d \o (t \o u)
    <2>1. PICK S : S = Int
        OBVIOUS
    <2>2. d \in Seq(S) /\ t \in Seq(S) /\ u \in Seq(S)
        BY <1>4, <1>5, <1>8, <2>1
    <2> QED BY <2>2, ConcatAssociative, SMTT(30)
<1> QED BY <1>2, <1>6, <1>7, <1>8, <1>9, <1>10

LEMMA SendKeeps ==
    ASSUME StreamInv, SendInv, Send
    PROVE  SendInv'
<1>1. PICK f \in DOMAIN frames \ answered :
         answers' = answers \o frames[f] /\ Output(AppendTo(sendbuffer, frames[f]))
    BY DEF Send
<1>2. PICK x, a, b, c, d :
         /\ x = frames[f] /\ a = answers /\ b = AppendTo(sendbuffer, x)
         /\ c = Contents(sendbuffer) /\ d = delivered
    OBVIOUS
<1>3. x \in Seq(Int)
    <2>1. frames \in Seq(Seq(Byte)) /\ f \in 1..Len(frames)
        BY LenProperties DEF StreamInv
    <2>2. frames[f] \in Seq(Byte)
        BY <2>1, ElementOfSeq
    <2> QED BY <1>2, <2>2, ByteFacts, SeqMonotonic
<1>4. GoodBlock(sendbuffer) /\ a \in Seq(Int) /\ d \in Seq(Int) /\ d \o c = a
    BY <1>2 DEF SendInv, AnswersInOrder
<1>5. c \in Seq(Int)
    BY <1>2, <1>4, BlockFacts
<1>6. GoodBlock(b) /\ Contents(b) = c \o x
    BY <1>2, <1>3, <1>4, AppendFacts
<1>7. a \o x \in Seq(Int)
    BY <1>3, <1>4, ConcatProperties
<1>8. (d \o c) \o x = d \o (c \o x)
    <2>1. PICK S : S = Int
        OBVIOUS
    <2>2. d \in Seq(S) /\ c \in Seq(S) /\ x \in Seq(S)
        BY <1>3, <1>4, <1>5, <2>1
    <2> QED BY <2>2, ConcatAssociative
<1>9. d \o Contents(b) = a \o x
    BY <1>4, <1>6, <1>8
<1>10. Output(b) /\ delivered \in Seq(Int) /\ delivered \o Contents(b) = a \o x
    BY <1>1, <1>2, <1>4, <1>9
<1>11. /\ GoodBlock(sendbuffer') /\ delivered' \in Seq(Int)
       /\ delivered' \o Contents(sendbuffer') = a \o x
    BY <1>6, <1>7, <1>10, OutputKeeps
<1>12. answers' = a \o x
    BY <1>1, <1>2
<1> QED BY <1>7, <1>11, <1>12 DEF SendInv, AnswersInOrder

LEMMA HandleOutputKeeps ==
    ASSUME SendInv, HandleOutput
    PROVE  SendInv'
<1>1. Output(sendbuffer) /\ answers' = answers
    BY DEF HandleOutput
<1>2. /\ GoodBlock(sendbuffer) /\ answers \in Seq(Int) /\ delivered \in Seq(Int)
      /\ delivered \o Contents(sendbuffer) = answers
    BY DEF SendInv, AnswersInOrder
<1>3. PICK a, b : a = answers /\ b = sendbuffer
    OBVIOUS
<1>4. /\ GoodBlock(sendbuffer') /\ delivered' \in Seq(Int)
      /\ delivered' \o Contents(sendbuffer') = a
    BY <1>1, <1>2, <1>3, OutputKeeps
<1> QED BY <1>1, <1>2, <1>3, <1>4 DEF SendInv, AnswersInOrder

LEMMA ConnectionInvariant == ConnectionSpec => [](StreamInv /\ SendInv)
<1>1. ConnectionInit => StreamInv /\ SendInv
    BY InitHolds
<1>2. ASSUME StreamInv, SendInv, [ConnectionNext]_allvars
      PROVE  StreamInv' /\ SendInv'
    <2>1. UNCHANGED output => SendInv'
        BY <1>2 DEF output, SendInv, AnswersInOrder
    <2>2. UNCHANGED vars => StreamInv'
        BY <1>2, NextKeeps
    <2>3. CASE Next /\ UNCHANGED output
        BY <1>2, <2>1, <2>3, NextKeeps
    <2>4. CASE Send
        <3>1. UNCHANGED vars
            BY <2>4 DEF Send
        <3> QED BY <1>2, <2>2, <2>4, <3>1, SendKeeps
    <2>5. CASE HandleOutput
        <3>1. UNCHANGED vars
            BY <2>5 DEF HandleOutput, vars
        <3> QED BY <1>2, <2>2, <2>5, <3>1, HandleOutputKeeps
    <2>6. CASE Ended \/ UNCHANGED allvars
        <3>1. UNCHANGED allvars
            BY <2>6 DEF Ended
        <3>2. UNCHANGED vars /\ UNCHANGED output
            BY <3>1 DEF allvars
        <3> QED BY <2>1, <2>2, <3>2
    <2> QED BY <1>2, <2>3, <2>4, <2>5, <2>6 DEF ConnectionNext
<1> QED BY <1>1, <1>2, PTL DEF ConnectionSpec

-----------------------------------------------------------------------------
(* What the invariants say *)

\* Both directions keep to their types, and Extract never uses more than the
\* receive buffer holds (connecteventhandler.cpp:47-48, 81-85).
THEOREM BytesTypeCorrect == ConnectionSpec => []TypeOK
<1>1. StreamInv => TypeOK
    <2> SUFFICES ASSUME StreamInv
                 PROVE  TypeOK
        OBVIOUS
    <2>1. /\ binary \in BOOLEAN /\ at \in {"recv", "extract", "closed"}
          /\ sent \in Seq(Byte) /\ Len(sent) <= MaxBytes /\ Contents(recvbuffer) \in Seq(Byte)
          /\ recvbuffer.size <= Len(sent) /\ used \in 0..recvbuffer.size
          /\ frames \in Seq(Seq(Byte))
        BY DEF StreamInv
    <2> QED BY <2>1 DEF TypeOK, Byte
<1> QED BY <1>1, ConnectionInvariant, PTL

\* The frames of what is sent are those handed over and those of what is left.
LEMMA FramesSoFar ==
    ASSUME StreamInv
    PROVE  /\ frames \in Seq(Seq(Byte)) /\ FramesAs(binary, Rest) \in Seq(Seq(Byte))
           /\ FramesOf(sent) = frames \o FramesAs(binary, Rest)
<1>1. /\ binary \in BOOLEAN /\ sent \in Seq(Byte) /\ frames \in Seq(Seq(Byte))
      /\ Agree(binary, sent, frames, Rest)
    BY DEF StreamInv
<1>2. Rest \in Seq(Byte)
    BY RestFacts
<1>3. <<>> \in Seq(Byte)
    BY EmptySeq
<1>4. FramesAs(binary, sent \o <<>>) = frames \o FramesAs(binary, Rest \o <<>>)
    BY <1>1, <1>3 DEF Agree
<1>5. sent \o <<>> = sent
    BY <1>1, ConcatEmptySeq
<1>6. Rest \o <<>> = Rest
    BY <1>2, ConcatEmptySeq
<1>7. FramesOf(sent) = FramesAs(binary, sent)
    BY SameFrames
<1> QED BY <1>1, <1>2, <1>4, <1>5, <1>6, <1>7, FramesUnfold

\* However recv cuts the stream, and whichever Procpack extracts, OnPackage has
\* been given the first frames of the stream, in order (procpack.cpp:10-29,
\* 36-62, connecteventhandler.cpp:47-48, 81-85).
THEOREM FramesDoNotDependOnChunks == ConnectionSpec => []ChunkingIrrelevant
<1>1. StreamInv => ChunkingIrrelevant
    <2> SUFFICES ASSUME StreamInv
                 PROVE  ChunkingIrrelevant
        OBVIOUS
    <2>1. PICK fs, g : fs = frames /\ g = FramesAs(binary, Rest)
        OBVIOUS
    <2>2. fs \in Seq(Seq(Byte)) /\ g \in Seq(Seq(Byte)) /\ FramesOf(sent) = fs \o g
        BY <2>1, FramesSoFar
    <2>3. Len(fs) \in 0..Len(fs) /\ Len(fs) \in Nat /\ Len(g) \in Nat
        BY <2>2, LenProperties
    <2>4. Take(fs \o g, Len(fs)) = Take(fs, Len(fs))
        BY <2>2, <2>3, TakeOfMore
    <2>5. Take(fs, Len(fs)) = fs
        BY <2>2, WholeOrNothing
    <2>6. Len(fs \o g) = Len(fs) + Len(g)
        BY <2>2, ConcatProperties
    <2> QED BY <2>1, <2>2, <2>3, <2>4, <2>5, <2>6 DEF ChunkingIrrelevant, IsPrefixOf
<1> QED BY <1>1, ConnectionInvariant, PTL

\* Before the next recv every complete frame has been handed over, and only a
\* text frame without data may wait in the buffer, for a further byte
\* (procpack.cpp:11, 36-62, connecteventhandler.cpp:81-85).
THEOREM NothingIsHeldBack == ConnectionSpec => []NothingHeldBack
<1>1. StreamInv => NothingHeldBack
    <2> SUFFICES ASSUME StreamInv, at = "recv"
                 PROVE  \/ frames = FramesOf(sent)
                        \/ /\ EmptyFrameWaits(Contents(recvbuffer))
                           /\ Append(frames, Contents(recvbuffer)) = FramesOf(sent)
        BY DEF NothingHeldBack
    <2>1. PICK fs, b, s : fs = frames /\ b = binary /\ s = Contents(recvbuffer)
        OBVIOUS
    <2>2. s \in Seq(Byte) /\ Rest = s /\ Idle(b, s) /\ b \in BOOLEAN /\ Len(s) \in Nat
        BY <2>1, RestFacts, LenProperties DEF StreamInv
    <2>3. fs \in Seq(Seq(Byte)) /\ FramesOf(sent) = fs \o FramesAs(b, s)
        BY <2>1, <2>2, FramesSoFar
    <2>4. HeaderLen \in Nat \ {0}
        BY ByteFacts
    <2>5. CASE ~WholeAs(b, s)
        <3>1. FramesAs(b, s) = <<>>
            BY <2>2, <2>5, FramesUnfold
        <3>2. fs \o <<>> = fs
            BY <2>3, ConcatEmptySeq
        <3> QED BY <2>1, <2>3, <3>1, <3>2
    <2>6. CASE WholeAs(b, s)
        <3>1. PICK e : e = EatAs(b, s)
            OBVIOUS
        <3>2. Len(s) >= HeaderLen /\ Len(s) >= e /\ (e > HeaderLen \/ ~b)
            BY <2>6, <3>1 DEF WholeAs
        <3>3. e \in Nat
            BY <2>2, <3>1, <3>2, EatFacts
        <3>4. Len(s) = HeaderLen
            BY <2>2, <2>4, <3>1, <3>2, <3>3 DEF Idle
        <3>5. ~b /\ e = HeaderLen + Packlen(s)
            BY <2>4, <3>1, <3>2, <3>3, <3>4 DEF EatAs
        <3>6. Packlen(s) \in Nat
            <4>1. HeaderLen \in 0..Len(s)
                BY <2>4, <3>4
            <4> QED BY <2>2, <4>1, TakeFacts, ValueIsANumber DEF Packlen
        <3>7. Packlen(s) = 0 /\ e = Len(s)
            BY <2>4, <3>2, <3>4, <3>5, <3>6
        <3>8. EmptyFrameWaits(s)
            BY <2>1, <3>4, <3>5, <3>7 DEF EmptyFrameWaits
        <3>9. Take(s, e) = s /\ Drop(s, e) = <<>>
            BY <2>2, <3>7, WholeOrNothing
        <3>10. <<>> \in Seq(Byte) /\ Len(<<>>) = 0
            BY EmptySeq
        <3>11. FramesAs(b, <<>>) = <<>>
            <4>1. ~WholeAs(b, <<>>)
                BY <2>4, <3>10 DEF WholeAs
            <4> QED BY <2>2, <3>10, <4>1, FramesUnfold
        <3>12. FramesAs(b, s) = <<s>> \o <<>>
            <4>1. FramesAs(b, s) = <<Take(s, EatAs(b, s))>> \o FramesAs(b, Drop(s, EatAs(b, s)))
                BY <2>2, <2>6, FramesUnfold
            <4> QED BY <3>1, <3>9, <3>11, <4>1
        <3>13. <<s>> \in Seq(Seq(Byte))
            BY <2>2
        <3>14. <<s>> \o <<>> = <<s>>
            BY <3>13, ConcatEmptySeq
        <3>15. Append(fs, s) = fs \o <<s>>
            BY <2>2, <2>3, AppendIsConcat
        <3> QED BY <2>1, <2>3, <3>8, <3>12, <3>14, <3>15
    <2> QED BY <2>5, <2>6
<1> QED BY <1>1, ConnectionInvariant, PTL

\* What send has taken and what waits in the send buffer are the answers, one
\* after the other, for every size of answer and however much each send takes
\* (connecteventhandler.cpp:96-137, 176-180, datablock.cpp:57-111).
THEOREM AnswersAreInOrder == ConnectionSpec => []AnswersInOrder
<1>1. SendInv => AnswersInOrder
    BY DEF SendInv
<1> QED BY <1>1, ConnectionInvariant, PTL

\* Copy, Erase, Resize and the copy constructor do to both buffers what they would
\* do to sequences, whatever the block's size and capacity (datablock.cpp:57-137).
THEOREM BlocksAreSequences == ConnectionSpec => []BlockOpsExact
<1>1. StreamInv /\ SendInv => BlockOpsExact
    <2>1. ASSUME StreamInv, SendInv, NEW b \in {recvbuffer, sendbuffer}
          PROVE  GoodBlock(b)
        BY <2>1 DEF StreamInv, SendInv
    <2> QED BY <2>1, OperationsExact DEF BlockOpsExact
<1> QED BY <1>1, ConnectionInvariant, PTL
=============================================================================
