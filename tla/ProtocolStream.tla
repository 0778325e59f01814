--------------------------- MODULE ProtocolStream ---------------------------
(***************************************************************************)
(* pros/protocolstream.cpp: a TextWriteStream or BinaryWriteStream over a  *)
(* buffer of Cap bytes, whose message is then read by the read stream of   *)
(* the same kind.  A message starts with the length that Flush writes, and *)
(* a string in it with its own; both take LenField digits.  Binary streams *)
(* also have integers and characters of fixed sizes without a length; text *)
(* streams write an integer as a string, so they have none.                *)
(*                                                                         *)
(* Digits are taken in a smaller base; a length too large for its binary   *)
(* field is cut to the field, as the conversion to unsigned short is.  The *)
(* contents of a field are a digit repeated.  Programs write by Write: the *)
(* public WriteContent and WriteLength, which do not look at the end of    *)
(* the buffer (but for the binary WriteContent), are parts of it here.     *)
(***************************************************************************)
EXTENDS Integers, Sequences

CONSTANTS Base,          \* the base of a length's digits
          LenField,      \* lenFieldLen
          PackageMax,    \* BINARY_PACKAGE_MAXLEN
          Cap,           \* len: the size of the writer's buffer
          Strings,       \* lengths of the strings written
          Sizes,         \* sizes of the binary integers
          MaxFields      \* bound: fields of a message

\* Base to the power of i.
Power[i \in 0..LenField] == IF i = 0 THEN 1 ELSE Base * Power[i - 1]
Max == Power[LenField]       \* what LenField digits cannot hold

ASSUME StreamAssumption ==
    /\ Base \in Nat \ {0, 1} /\ LenField \in Nat \ {0}
    /\ PackageMax \in Nat /\ PackageMax < Max
    /\ Cap \in Nat /\ LenField <= Cap
    /\ Strings \subseteq Nat /\ Sizes \subseteq Nat \ {0}
    /\ MaxFields \in Nat

VARIABLES binary, exclude,   \* the kind of stream; headerFlag = LENGTH_EXCLUDE_SELF
          header,            \* what Flush writes
          out,               \* what has been written after it
          fields,            \* the fields written
          cur,               \* the reader's position: bytes before it
          got,               \* the fields read
          at                 \* "write", "read", "probe", "past" or "aborted"

vars == <<binary, exclude, header, out, fields, cur, got, at>>

Digits(n) == [i \in 1..LenField |-> (n \div Power[LenField - i]) % Base]
Value(field) ==
    LET V[i \in 0..LenField] == IF i = 0 THEN 0 ELSE V[i - 1] * Base + field[i]
    IN V[LenField]

Contents(n) == {[i \in 1..n |-> b] : b \in {0, Base - 1}}
Field(string, c) == [string |-> string, data |-> c]

Message == header \o out
At(p, n) == SubSeq(Message, p + 1, p + n)

Init ==
    /\ binary \in BOOLEAN /\ exclude \in BOOLEAN /\ (exclude => binary)
    /\ header = Digits(0) /\ out = <<>> /\ fields = <<>>
    /\ cur = LenField /\ got = <<>>
    /\ at = "write"

-----------------------------------------------------------------------------
(* Writing *)

\* Mutant: the string's own length field is forgotten.
RoomForString(n) == LenField + Len(out) + n <= Cap

Room(n) == LenField + Len(out) + LenField + n <= Cap

Append1(string, c, bytes) ==
    /\ at = "write" /\ Len(fields) < MaxFields
    /\ out' = out \o bytes
    /\ fields' = Append(fields, Field(string, c))
    /\ UNCHANGED <<binary, exclude, header, cur, got, at>>

\* Write of a string; WriteLength refuses a length that has too many digits.
TextWrite(c) ==
    /\ ~binary /\ Room(Len(c)) /\ Len(c) < Max
    /\ Append1(TRUE, c, Digits(Len(c)) \o c)

BinaryWrite(c) ==
    /\ binary /\ Room(Len(c))
    /\ Append1(TRUE, c, Digits(Len(c)) \o c)

BinaryWriteFixed(c) ==
    /\ binary /\ LenField + Len(out) + Len(c) <= Cap
    /\ Append1(FALSE, c, c)

\* Mutant: nobody asks whether the message fits its length field.
AlwaysValid == TRUE

TextValid == Len(out) <= Max
BinaryValid == LET size == LenField + Len(out) IN size > LenField /\ size <= PackageMax
Valid == IF binary THEN BinaryValid ELSE TextValid

\* The message goes to its reader, who knows its fields, or does not.
Sent(length) ==
    /\ header' = Digits(length)
    /\ at' \in {"read", "probe"}
    /\ UNCHANGED <<binary, exclude, out, fields, cur, got>>

\* Flush, once IsValid has said so: the length must fit or assert ends it all.
TextFlush ==
    /\ at = "write" /\ ~binary /\ Valid
    /\ IF Len(out) < Max
       THEN Sent(Len(out))
       ELSE at' = "aborted" /\ UNCHANGED <<binary, exclude, header, out, fields, cur, got>>

\* Mutant: the length field counts itself whatever headerFlag says.
BinaryFlushWhole == at = "write" /\ binary /\ Valid /\ Sent(LenField + Len(out))

BinaryFlush ==
    /\ at = "write" /\ binary /\ Valid
    /\ Sent(IF exclude THEN Len(out) ELSE LenField + Len(out))

\* Clear, Reset, or Assign of a buffer that is as large.
Restart ==
    /\ at = "write"
    /\ out' = <<>> /\ fields' = <<>>
    /\ UNCHANGED <<binary, exclude, header, cur, got, at>>

-----------------------------------------------------------------------------
(* Reading *)

\* The length of the message, as the header says.
Whole == Value(header) + (IF ~binary \/ exclude THEN LenField ELSE 0)

\* ExtractStream where n bytes are there: the length of the stream it gives.
Extracted(n) ==
    IF n < LenField \/ n < Whole \/ (binary /\ Whole <= LenField) THEN 0 ELSE Whole

Size == Len(Message)
Holds(p) == cur + p <= Size
NextLength == Value(At(cur, LenField))

\* Mutant: the string is taken without looking whether it is all there.
StringUnseen == Holds(LenField)

\* ReadLengthWithoutOffset, then ReadContent: both look at the end.  (A reader
\* whose own buffer is too small is refused and stays where it is.)
StringThere == Holds(LenField) /\ Holds(LenField + NextLength)

Reads(string, c, n) ==
    /\ cur' = cur + n
    /\ got' = IF at = "read" THEN Append(got, Field(string, c)) ELSE got
    /\ UNCHANGED <<binary, exclude, header, out, fields, at>>

\* Read of a string, and ReadNoCopy of one that is there.
ReadString ==
    /\ StringThere
    /\ Reads(TRUE, At(cur + LenField, NextLength), LenField + NextLength)

ReadFixed(n) ==
    /\ binary /\ Holds(n)
    /\ Reads(FALSE, At(cur, n), n)

\* The reader that knows the fields, and one that tries whatever it likes.
Expected == fields[Len(got) + 1]

ReadExpected ==
    /\ at = "read" /\ Len(got) < Len(fields)
    /\ IF Expected.string THEN ReadString ELSE ReadFixed(Len(Expected.data))

ReadLength == Holds(LenField) /\ Reads(TRUE, <<>>, LenField)
ReadContent(n) == Holds(n) /\ Reads(TRUE, <<>>, n)

Probe ==
    /\ at = "probe"
    /\ ReadString \/ ReadLength \/ \E n \in Sizes : ReadFixed(n) \/ ReadContent(n)

\* The binary stream's ReadNoCopy does not look whether the string is there.
ReadPast ==
    /\ at = "probe" /\ binary
    /\ Holds(LenField) /\ ~StringThere
    /\ cur' = cur + LenField + NextLength
    /\ at' = "past"
    /\ UNCHANGED <<binary, exclude, header, out, fields, got>>

\* Reset, or Assign of the message.
Rewind ==
    /\ at \in {"read", "probe", "past"}
    /\ cur' = LenField /\ got' = <<>>
    /\ at' = IF at = "past" THEN "probe" ELSE at
    /\ UNCHANGED <<binary, exclude, header, out, fields>>

Over == at = "aborted" /\ UNCHANGED vars

Next ==
    \/ \E n \in Strings : \E c \in Contents(n) : TextWrite(c) \/ BinaryWrite(c)
    \/ \E n \in Sizes : \E c \in Contents(n) : BinaryWriteFixed(c)
    \/ TextFlush \/ BinaryFlush \/ Restart
    \/ ReadExpected \/ Probe \/ ReadPast \/ Rewind \/ Over

Spec == Init /\ [][Next]_vars

-----------------------------------------------------------------------------
(* Properties *)

\* Every variable holds what the code keeps there, and the writer stays in its
\* buffer (protocolstream.cpp:239, 636, 653).
TypeOK ==
    /\ binary \in BOOLEAN /\ exclude \in BOOLEAN
    /\ header \in [1..LenField -> 0..(Base - 1)]
    /\ out \in Seq(0..(Base - 1)) /\ LenField + Len(out) <= Cap
    /\ Len(fields) <= MaxFields
    /\ cur \in Nat
    /\ at \in {"write", "read", "probe", "past", "aborted"}

\* What a valid stream has written is read back field by field, whatever the
\* sizes of its strings, and the reader is at the end when it has read all
\* (protocolstream.cpp:45-69, 237-252, 394-416, 634-649).
RoundTrip ==
    at = "read" =>
        /\ got = SubSeq(fields, 1, Len(got))
        /\ IF Len(got) = Len(fields) THEN cur = Size
           ELSE Expected.string => StringThere

\* The length field, with or without itself, says how long the message is: the
\* reader's IsValid accepts it, and ExtractStream cuts it off what follows, and
\* takes no part of it for the whole (protocolstream.cpp:177-211, 551-607, 745-764).
HeaderAgrees ==
    at = "read" =>
        /\ Whole = Size
        /\ \A n \in 0..Size + 1 : Extracted(n) = IF n < Size THEN 0 ELSE Size

\* IsEnd's assertion, for whatever is read but by the binary stream's ReadNoCopy:
\* the position never passes the end (protocolstream.cpp:161, 535).
CursorInBounds == at # "past" => cur <= Size

\* Flush's assertion (protocolstream.cpp:333): the length of a message that
\* IsValid has allowed fits its field.
FlushFits == at # "aborted"
=============================================================================
