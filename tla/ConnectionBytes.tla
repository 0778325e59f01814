-------------------------- MODULE ConnectionBytes --------------------------
(***************************************************************************)
(* A connection's bytes in both directions: StreamFraming for those that   *)
(* come, and the send buffer of ConnectEventHandler for those that go.  An *)
(* answer is taken to be its request's bytes; answers come in any order,   *)
(* between callbacks, and send takes as much of them as it likes.  Errors  *)
(* close the connection, see Connections; no byte moves after them.        *)
(***************************************************************************)
EXTENDS StreamFraming

VARIABLES
    sendbuffer,             \* a DataBlock
    answered,               \* which frames have been answered
    answers,                \* the bytes of these answers
    delivered               \* the bytes send has taken

output == <<sendbuffer, answered, answers, delivered>>
allvars == <<vars, output>>

ConnectionInit ==
    /\ Init
    /\ sendbuffer = Block(BlockSize)
    /\ answered = {} /\ answers = <<>> /\ delivered = <<>>

\* Mutant: the end of the send buffer stays where it was.
LeftUncut(b, n) == CopyOwn(b, 0, n, b.size - n)

\* What HandleOutput leaves of the send buffer once n bytes are sent.
Left(b, n) ==
    IF n = b.size THEN Clear(b)
    ELSE Resize(CopyOwn(b, 0, n, b.size - n), b.size - n)

\* HandleOutput: all, a part, or nothing (EAGAIN) is sent.
Output(b) ==
    \E n \in 0..b.size :
        /\ sendbuffer' = Left(b, n)
        /\ delivered' = delivered \o Take(Contents(b), n)

\* ConnectEventHandler::Send.
Send ==
    /\ at = "recv"
    /\ \E f \in DOMAIN frames \ answered :
          /\ answered' = answered \union {f}
          /\ answers' = answers \o frames[f]
          /\ Output(AppendTo(sendbuffer, frames[f]))
    /\ UNCHANGED vars

\* The write event.
HandleOutput ==
    /\ at = "recv" /\ sendbuffer.size > 0
    /\ Output(sendbuffer)
    /\ UNCHANGED <<vars, answered, answers>>

Ended ==
    /\ \/ at = "closed"
       \/ at = "recv" /\ Len(sent) = MaxBytes /\ answered = DOMAIN frames /\ sendbuffer.size = 0
    /\ UNCHANGED allvars

ConnectionNext == (Next /\ UNCHANGED output) \/ Send \/ HandleOutput \/ Ended

ConnectionSpec == ConnectionInit /\ [][ConnectionNext]_allvars

-----------------------------------------------------------------------------
(* Properties *)

\* What is sent and what is left to be sent are the answers, one after the other,
\* whatever each send takes of them, and no byte of a package or of memory that
\* was free (connecteventhandler.cpp:96-137, 176-180, datablock.cpp:57-111).
AnswersInOrder == delivered \o Contents(sendbuffer) = answers

\* On every block that comes about, each operation does to the bytes that count
\* what it would do to a sequence: with its source and its destination in one
\* another, at the end, at the capacity and beyond it, where the block moves.
Replaced(s, offset, t) == Take(s, offset) \o t \o Drop(s, offset + Len(t))

BlockOpsExact ==
    \A b \in {recvbuffer, sendbuffer} :
        LET s == Contents(b)
            Within == {r \in (0..b.size) \X (0..b.size) : r[1] <= r[2]}
        IN /\ Contents(CopyOf(b)) = s
           /\ \A n \in 0..Capacity(b) + 1 :
                 Contents(Resize(b, n)) = Take(s, IF n < b.size THEN n ELSE b.size)
           /\ \A r \in Within :
                 /\ Contents(Erase(b, r[1], r[2])) = Take(s, r[1]) \o Drop(s, r[2])
                 /\ \A offset \in 0..b.size :
                       Contents(CopyOwn(b, offset, r[1], r[2] - r[1])) =
                           Replaced(s, offset, SubSeq(s, r[1] + 1, r[2]))
=============================================================================
