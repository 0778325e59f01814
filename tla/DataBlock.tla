----------------------------- MODULE DataBlock -----------------------------
(***************************************************************************)
(* utils/datablock.cpp: a piece of memory of which the first size bytes    *)
(* count.  The rest is what was there before, or what the allocator gave   *)
(* (Unset).  Iterators are offsets, and allocations succeed.  A call that  *)
(* fails leaves the block as it is; no caller looks.                       *)
(***************************************************************************)
EXTENDS Integers, Sequences

Unset == -1
Memory(n) == [i \in 1..n |-> Unset]

Take(s, n) == SubSeq(s, 1, n)
Drop(s, n) == SubSeq(s, n + 1, Len(s))

Block(n) == [mem |-> Memory(n), size |-> 0]
Contents(b) == Take(b.mem, b.size)
Capacity(b) == Len(b.mem)

Clear(b) == [b EXCEPT !.size = 0]
IncEnd(b, n) == IF n > Capacity(b) - b.size THEN b ELSE [b EXCEPT !.size = @ + n]
DecEnd(b, n) == IF n > b.size THEN b ELSE [b EXCEPT !.size = @ - n]

\* A longer block takes what counts along, and nothing else.
Resize(b, n) ==
    IF n <= Capacity(b)
    THEN [b EXCEPT !.size = IF n < @ THEN n ELSE @]
    ELSE [b EXCEPT !.mem = Contents(b) \o Memory(n - b.size)]

\* recv, memcpy or memmove of these bytes to an offset.
Written(b, offset, bytes) ==
    [b EXCEPT !.mem = [i \in DOMAIN @ |-> IF i - offset \in DOMAIN bytes
                                          THEN bytes[i - offset] ELSE @[i]]]

\* Copy once there is room: the end moves if the bytes reach beyond it.
Placed(b, offset, bytes) ==
    LET more == offset + Len(bytes) - b.size
    IN IncEnd(Written(b, offset, bytes), IF more < 0 THEN 0 ELSE more)

Roomy(b, n) == IF n > Capacity(b) THEN Resize(b, n) ELSE b

\* Copy of bytes from elsewhere.
Copy(b, offset, bytes) ==
    IF offset > b.size THEN b
    ELSE Placed(Roomy(b, offset + Len(bytes)), offset, bytes)

AppendTo(b, bytes) == Copy(b, b.size, bytes)

\* Mutant: the source is found again only where the block has not moved.
CopyOldOwn(b, offset, source, n) ==
    LET r == Roomy(b, offset + n)
    IN Placed(r, offset, IF r = b THEN SubSeq(b.mem, source + 1, source + n) ELSE Memory(n))

\* Copy of the block's own bytes: the source has moved with the block.
CopyOwn(b, offset, source, n) ==
    LET r == Roomy(b, offset + n)
    IN IF offset > b.size THEN b
       ELSE Placed(r, offset, SubSeq(r.mem, source + 1, source + n))

Erase(b, from, to) ==
    IF from >= to \/ to > b.size THEN b
    ELSE IF from = 0 /\ to = b.size THEN Clear(b)
    ELSE DecEnd(CopyOwn(b, from, to, b.size - to), to - from)

\* The copy constructor, and so what operator= leaves behind.
CopyOf(b) == AppendTo(Block(Capacity(b)), Contents(b))

\* Package::SetData.
SetData(b, bytes) == Copy(Resize(Clear(b), Len(bytes)), 0, bytes)
=============================================================================
