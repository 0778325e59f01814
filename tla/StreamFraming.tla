--------------------------- MODULE StreamFraming ---------------------------
(***************************************************************************)
(* Cutting a connection's byte stream into frames: HandleInput appends     *)
(* what recv gives to the receive buffer, Extract of the text or of the    *)
(* binary Procpack hands every complete frame in it to OnPackage, and      *)
(* HandleInput moves the rest to the front.  TCP cuts the stream wherever  *)
(* it likes.                                                               *)
(*                                                                         *)
(* A frame starts with a length field of HeaderLen digits, most            *)
(* significant first: hexadecimal characters and the length of the data    *)
(* (text), or bytes in network order and the length of the whole frame     *)
(* (binary).  Digits are taken in a smaller base.                          *)
(***************************************************************************)
EXTENDS DataBlock

CONSTANTS Base,          \* the base of a length field's digits
          HeaderLen,     \* TEXT_PACKLEN_LEN or BINARY_PACKLEN_LEN
          MaxChunk,      \* bytes recv takes at once (RECV_SIZE)
          BlockSize,     \* DEFAULT_BLOCK_SIZE
          MaxBytes       \* bound: bytes a peer sends

ASSUME FramingAssumption ==
    /\ Base \in Nat \ {0, 1}
    /\ HeaderLen \in Nat \ {0}
    /\ MaxChunk \in Nat \ {0} /\ {BlockSize, MaxBytes} \subseteq Nat

Junk == Base             \* any character that is no digit
Bytes(b) == IF b THEN 0..(Base - 1) ELSE 0..Junk

VARIABLES binary,        \* which Procpack extracts
          sent,          \* what recv has given so far
          recvbuffer,    \* a DataBlock
          used,          \* bytes of it this Extract has used
          frames,        \* what OnPackage has been given
          at             \* "recv", "extract" or "closed"

vars == <<binary, sent, recvbuffer, used, frames, at>>

-----------------------------------------------------------------------------
\* ntohs, or strtol, which stops at the first character that is no digit.  (A
\* sign, blanks or 0x in front of the digits, which strtol takes, are left out.)
Value(field) ==
    LET V[i \in 0..Len(field)] ==
            IF i = 0 THEN 0
            ELSE IF field[i] = Junk THEN V[i - 1]
            ELSE IF \E j \in 1..(i - 1) : field[j] = Junk THEN V[i - 1]
            ELSE V[i - 1] * Base + field[i]
    IN V[Len(field)]

Packlen(s) == Value(Take(s, HeaderLen))
Eat(s) == IF binary THEN Packlen(s) ELSE HeaderLen + Packlen(s)

Rest == Drop(Contents(recvbuffer), used)

Init ==
    /\ binary \in BOOLEAN
    /\ sent = <<>> /\ recvbuffer = Block(BlockSize) /\ used = 0 /\ frames = <<>>
    /\ at = "recv"

Recv(n) ==
    /\ at = "recv"
    /\ Len(sent) + n <= MaxBytes
    /\ LET pos == recvbuffer.size
           b == Resize(recvbuffer, pos + MaxChunk)
       IN \E chunk \in [1..n -> Bytes(binary)] :
             /\ sent' = sent \o chunk
             /\ recvbuffer' = IncEnd(Written(b, pos, chunk), n)
    /\ used' = 0
    /\ at' = "extract"
    /\ UNCHANGED <<binary, frames>>

\* The header and at least one byte more are there, and then the whole frame.
HasFrame(s) == Len(s) > HeaderLen /\ Len(s) >= Eat(s)

\* A binary frame that has no room for its own header.
BadLength(s) == binary /\ Len(s) > HeaderLen /\ Packlen(s) <= HeaderLen

\* The data OnPackage puts into a package (SetData).
Package(frame) == Contents(SetData(Block(BlockSize), frame))

\* What HandleInput leaves once n bytes are used.
Moved(n) ==
    LET left == recvbuffer.size - n
    IN IF n = 0 THEN recvbuffer ELSE DecEnd(CopyOwn(recvbuffer, 0, n, left), n)

\* Mutant: one frame is extracted for each recv.
ExtractOne ==
    /\ at = "extract"
    /\ HasFrame(Rest) /\ ~BadLength(Rest)
    /\ frames' = Append(frames, Package(Take(Rest, Eat(Rest))))
    /\ recvbuffer' = Moved(used + Eat(Rest))
    /\ used' = 0 /\ at' = "recv"
    /\ UNCHANGED <<binary, sent>>

ExtractFrame ==
    /\ at = "extract"
    /\ HasFrame(Rest) /\ ~BadLength(Rest)
    /\ frames' = Append(frames, Package(Take(Rest, Eat(Rest))))
    /\ used' = used + Eat(Rest)
    /\ UNCHANGED <<binary, sent, recvbuffer, at>>

\* Extract says -1, for the frame's length or because OnPackage says so: Close.
ExtractFails ==
    /\ at = "extract"
    /\ BadLength(Rest) \/ HasFrame(Rest)
    /\ at' = "closed"
    /\ UNCHANGED <<binary, sent, recvbuffer, used, frames>>

\* Mutant: the frames used stay in the buffer.
ExtractKeeps ==
    /\ at = "extract"
    /\ ~HasFrame(Rest) /\ ~BadLength(Rest)
    /\ used' = 0 /\ at' = "recv"
    /\ UNCHANGED <<binary, sent, recvbuffer, frames>>

\* Mutant: used frames leave the buffer but still count.
ExtractCounts ==
    /\ at = "extract"
    /\ ~HasFrame(Rest) /\ ~BadLength(Rest)
    /\ recvbuffer' = Moved(used) /\ at' = "recv"
    /\ UNCHANGED <<binary, sent, used, frames>>

\* Extract says how much it has used, and the rest moves to the front.
ExtractDone ==
    /\ at = "extract"
    /\ ~HasFrame(Rest) /\ ~BadLength(Rest)
    /\ recvbuffer' = Moved(used)
    /\ used' = 0
    /\ at' = "recv"
    /\ UNCHANGED <<binary, sent, frames>>

Next == (\E n \in 1..MaxChunk : Recv(n)) \/ ExtractFrame \/ ExtractFails \/ ExtractDone

Spec == Init /\ [][Next]_vars

-----------------------------------------------------------------------------
(* Properties *)

\* Every variable holds what the code keeps there: Extract never uses more than
\* the buffer holds.
TypeOK ==
    /\ binary \in BOOLEAN
    /\ {sent, Contents(recvbuffer)} \subseteq Seq(0..Junk)
    /\ recvbuffer.size <= Len(sent) /\ Len(sent) <= MaxBytes
    /\ used \in 0..recvbuffer.size
    /\ frames \in Seq(Seq(0..Junk))
    /\ at \in {"recv", "extract", "closed"}

\* The frames of a whole stream, up to its first incomplete or bad one.
Whole(s) ==
    /\ Len(s) >= HeaderLen /\ Len(s) >= Eat(s)
    /\ Eat(s) > HeaderLen \/ ~binary

FramesOf(s) ==
    LET F[i \in 0..Len(s)] ==
            IF Whole(Drop(s, i))
            THEN <<Take(Drop(s, i), Eat(Drop(s, i)))>> \o F[i + Eat(Drop(s, i))]
            ELSE <<>>
    IN F[0]

IsPrefixOf(s, t) == Len(s) <= Len(t) /\ s = Take(t, Len(s))

\* However the stream is cut, OnPackage is given its frames, in order, none twice
\* and none out of the middle of another (procpack.cpp:10-29, 36-62,
\* connecteventhandler.cpp:47-48, 81-85).
ChunkingIrrelevant == IsPrefixOf(frames, FramesOf(sent))

\* What recv has given is in the frames or still in the buffer, and before the
\* next recv no complete frame is left there: but a text frame without data,
\* which Extract leaves until a further byte has come (procpack.cpp:11).
EmptyFrameWaits(s) == ~binary /\ Len(s) = HeaderLen /\ Packlen(s) = 0

NothingHeldBack ==
    at = "recv" => \/ frames = FramesOf(sent)
                   \/ /\ EmptyFrameWaits(Contents(recvbuffer))
                      /\ Append(frames, Contents(recvbuffer)) = FramesOf(sent)
=============================================================================
