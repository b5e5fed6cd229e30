----------------------------- MODULE PerlStream -----------------------------
(***************************************************************************)
(* The methods of a tied handle of the Perl binding, FCGI::Stream::WRITE,  *)
(* PRINT, READ, GETC and CLOSE (perl/FCGI.c): which part of a scalar WRITE *)
(* sends, with lengths and offsets that are ints and a string length that  *)
(* is an unsigned STRLEN, and what READ makes of the scalar it reads into. *)
(* Byte i of a scalar that is written is the number i.  The FCGX_Stream    *)
(* below is FcgxWriter and FcgxReader; here it takes or gives bytes.       *)
(***************************************************************************)
EXTENDS Integers, Sequences, SequencesExt, FiniteSetsExt

CONSTANTS
    IntMax,         \* of int
    SizeMax,        \* of STRLEN
    MaxStrings,     \* bound: the longest scalar that is written
    MaxCalls,       \* bound: calls of the methods
    InputLength     \* bound: bytes the stream delivers

ASSUME PerlStreamAssumption ==
    /\ {IntMax, SizeMax, MaxStrings, MaxCalls, InputLength} \subseteq Nat
    /\ MaxStrings <= IntMax /\ 2 * IntMax < SizeMax

Input == [i \in 1..InputLength |-> i]
Ints == (-IntMax - 1)..IntMax
ToSize(x) == x % (SizeMax + 1)
ToInt(x) == ((x + IntMax + 1) % (2 * (IntMax + 1))) - IntMax - 1

\* Both widths are powers of two: an int survives its conversion to STRLEN and back.
ASSUME WidthsAssumption == \A x \in Ints : ToInt(ToSize(x)) = x

VARIABLES
    output,     \* what FCGX_PutStr has been given and taken
    asked,      \* what the calls that succeeded asked to be sent
    toRead,     \* what the stream has still to give
    bufsv,      \* the scalar that READ fills
    readOut,    \* what READ and GETC gave the program, in order
    isClosed, error, calls

streamVars == <<output, asked, toRead, bufsv, readOut, isClosed, error, calls>>

Call == calls < MaxCalls /\ calls' = calls + 1
Bytes(from, n) == [i \in 1..n |-> from + i]

-----------------------------------------------------------------------------

\* FCGX_PutStr of n bytes behind offset: all of them, or an error after some.
PutBytes(offset, n) ==
    \/ /\ ~isClosed \/ n = 0
       /\ output' = output \o Bytes(offset, n)
       /\ UNCHANGED error
    \/ /\ n > 0
       /\ error' = TRUE
       /\ \E k \in IF isClosed THEN {0} ELSE 0..(n - 1) : output' = output \o Bytes(offset, k)

\* Mutant of Clamped: the length is compared as it is, not as a STRLEN.
SignedClamped(blen, len, offset) ==
    IF len > blen - offset THEN blen - offset ELSE len

\* if (len > blen - offset) len = blen - offset;
Clamped(blen, len, offset) ==
    LET rest == ToSize(blen - offset) IN IF ToSize(len) > rest THEN ToInt(rest) ELSE len

\* if (offset < 0) offset += blen;
Offset(blen, offset) == IF offset < 0 THEN ToInt(ToSize(offset + blen)) ELSE offset

\* What WRITE is asked for: length bytes from offset, which counts from the end
\* if it is negative, as far as the scalar has them; all to the end if the length
\* is negative.
Part(blen, len, offset) ==
    LET start == IF offset < 0 THEN blen + offset ELSE offset
        rest == blen - start
    IN  IF start \notin 0..(blen - 1) THEN <<>>
        ELSE Bytes(start, IF len < 0 THEN rest ELSE Min({len, rest}))

\* WRITE; undef without a call of FCGX_PutStr if the offset is outside the scalar.
WRITE(blen, len, offset0) ==
    LET offset == Offset(blen, offset0)
        n == Clamped(blen, len, offset)
    IN  /\ Call
        /\ IF offset < 0 \/ ToSize(offset) >= blen
           THEN UNCHANGED <<output, error>>
           ELSE PutBytes(offset, n)
        /\ asked' = asked \o Part(blen, len, offset0)
        /\ UNCHANGED <<toRead, bufsv, readOut, isClosed>>

\* PRINT of one scalar.
PRINT(blen) ==
    /\ Call
    /\ PutBytes(0, blen)
    /\ asked' = asked \o Bytes(0, blen)
    /\ UNCHANGED <<toRead, bufsv, readOut, isClosed>>

\* READ into the scalar, from an offset that is inside it or at its end: the scalar
\* ends behind what was read.
READ(len, offset) ==
    LET n == Min({len, Len(toRead)}) IN
    /\ Call
    /\ offset <= Len(bufsv)
    /\ bufsv' = SubSeq(bufsv, 1, offset) \o SubSeq(toRead, 1, n)
    /\ readOut' = readOut \o SubSeq(bufsv', offset + 1, Len(bufsv'))
    /\ toRead' = SubSeq(toRead, n + 1, Len(toRead))
    /\ UNCHANGED <<output, asked, isClosed, error>>

\* GETC; undef at the end.
GETC ==
    /\ Call
    /\ IF toRead = <<>> THEN UNCHANGED <<toRead, readOut>>
       ELSE toRead' = Tail(toRead) /\ readOut' = Append(readOut, Head(toRead))
    /\ UNCHANGED <<output, asked, bufsv, isClosed, error>>

\* CLOSE of the handle that is written.
CLOSE ==
    /\ Call
    /\ isClosed' = TRUE
    /\ UNCHANGED <<output, asked, toRead, bufsv, readOut, error>>

Rest == calls = MaxCalls /\ UNCHANGED streamVars

-----------------------------------------------------------------------------

StreamInit ==
    /\ output = <<>> /\ asked = <<>> /\ toRead = Input /\ bufsv = <<>> /\ readOut = <<>>
    /\ isClosed = FALSE /\ error = FALSE /\ calls = 0

StreamNext ==
    \/ \E blen \in 0..MaxStrings : PRINT(blen) \/ \E len, offset \in Ints : WRITE(blen, len, offset)
    \/ \E len \in 0..Len(Input), offset \in 0..Len(Input) : READ(len, offset)
    \/ GETC \/ CLOSE \/ Rest

StreamSpec == StreamInit /\ [][StreamNext]_streamVars

-----------------------------------------------------------------------------
(* Properties.                                                             *)

\* Every call of WRITE sends the part of its scalar that it was asked for, for any
\* sign of the length and the offset, and nothing from outside the scalar; calls
\* follow one another without a byte lost until the stream has an error.
PartWritten == ~error => output = asked

\* What READ and GETC give the program is the stream's input in order, whatever
\* offsets into its scalar the program reads to.
InputInOrder == readOut \o toRead = Input

=============================================================================
