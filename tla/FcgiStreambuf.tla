---------------------------- MODULE FcgiStreambuf ----------------------------
(***************************************************************************)
(* fcgi_streambuf (libfcgi/fcgio.cpp): the C++ stream buffer over one      *)
(* FCGX_Stream, with or without a buffer of its own, under the calls that  *)
(* istream and ostream make on it.  The members of std::streambuf that the *)
(* class does not override (sputc, sgetc, sbumpc, sungetc and the loops    *)
(* over them) are those of the C++ library.                                *)
(*                                                                         *)
(* Characters are numbered in the order in which they are written, or in   *)
(* which the FCGX_Stream holds them.  A FCGX_Stream reads or it writes, so *)
(* a behaviour has one direction.                                          *)
(***************************************************************************)
EXTENDS Integers, Sequences, FiniteSets, SequencesExt, SequenceOps

CONSTANTS
    BufSize,    \* size of a buffer given to setbuf
    MaxChars,   \* bound: characters written, or held by the input stream
    Streams,    \* FCGX_Streams a writing buffer is attached to in turn
    Retries     \* TRUE: the application reads on after an end of file

ASSUME StreambufAssumption ==
    BufSize \in Nat \ {0} /\ MaxChars \in Nat /\ Retries \in BOOLEAN

VARIABLES
    direction,  \* "out" | "in"
    bufsize,    \* 0 while there is no buffer
    alive,      \* FALSE once the destructor has run
    stream,     \* the stream attached
    area,       \* writing: what is between pbase and pptr
    taken,      \* what each FCGX_Stream took, in order
    broken,     \* streams closed by an error
    given,      \* characters the caller was told were written, per stream
    dropped,    \* those of them that attach threw away
    written,    \* number of the last character written
    input,      \* reading: number of characters the stream holds
    pos,        \* of them, those FCGX_GetStr has handed out
    hold,       \* the buffer, as far as it was ever filled
    gptr, egptr,    \* offsets from eback
    delivered,  \* what the caller was given
    seen,       \* the character a caller has peeked at, 0 for none
    state       \* of the istream: "good" | "eof" | "fail"

put == <<stream, area, taken, broken, given, dropped, written>>
get == <<input, pos, hold, gptr, egptr, delivered, seen, state>>
streambufVars == <<direction, bufsize, alive, put, get>>

Smaller(a, b) == IF a < b THEN a ELSE b

-----------------------------------------------------------------------------
(* Writing.                                                                *)

Writing == direction = "out" /\ alive

\* The stream takes s; what a stream closed by an error still takes into its
\* buffer is of no interest.
Take(s) == taken' = IF stream \in broken THEN taken ELSE [taken EXCEPT ![stream] = @ \o s]

\* FCGX_PutStr of s: all of it is taken, or a part and the stream is closed by
\* an error.
PutStr(s) == Take(s) /\ UNCHANGED broken
PutStrFails(s) ==
    /\ \E k \in 0..Len(s) : Take(SubSeq(s, 1, k))
    /\ broken' = broken \cup {stream}

\* sputc, and each character of xsputn, while the put area has room.
SputcStores ==
    /\ Writing /\ written < MaxChars
    /\ Len(area) < bufsize
    /\ area' = Append(area, written + 1)
    /\ given' = [given EXCEPT ![stream] = Append(@, written + 1)]
    /\ written' = written + 1
    /\ UNCHANGED <<direction, bufsize, alive, stream, taken, broken, dropped, get>>

\* overflow(c) with the put area full, or without a buffer: the area, then c,
\* go to the stream.
Overflow ==
    /\ Writing /\ written < MaxChars
    /\ Len(area) = bufsize
    /\ written' = written + 1
    /\ \/ /\ PutStr(Append(area, written + 1))
          /\ area' = <<>>
          /\ given' = [given EXCEPT ![stream] = Append(@, written + 1)]
       \/ /\ area # <<>> /\ PutStrFails(area)
          /\ UNCHANGED <<area, given>>
       \/ /\ Take(area)
          /\ broken' = broken \cup {stream}
          /\ area' = <<>>
          /\ UNCHANGED given
    /\ UNCHANGED <<direction, bufsize, alive, stream, dropped, get>>

\* overflow(EOF): the put area goes to the stream, or stays.
OverflowEOF ==
    \/ PutStr(area) /\ area' = <<>>
    \/ area # <<>> /\ PutStrFails(area) /\ UNCHANGED area

\* sync: FCGX_FFlush, when it is reached, may fail too.
Sync ==
    /\ Writing
    /\ \/ OverflowEOF
       \/ /\ Take(area)
          /\ area' = <<>>
          /\ broken' = broken \cup {stream}
    /\ UNCHANGED <<direction, bufsize, alive, stream, given, dropped, written, get>>

\* attach, with reset: what is in the put area is lost.
AttachStream ==
    /\ Writing
    /\ stream' \in Streams
    /\ dropped' = dropped \cup ToSet(area)
    /\ area' = <<>>
    /\ UNCHANGED <<direction, bufsize, alive, taken, broken, given, written, get>>

\* ~fcgi_streambuf
DestroyBuffer ==
    /\ alive
    /\ alive' = FALSE
    /\ IF direction = "out" THEN OverflowEOF ELSE UNCHANGED <<area, taken, broken>>
    /\ UNCHANGED <<direction, bufsize, stream, given, dropped, written, get>>

-----------------------------------------------------------------------------
(* Reading.  An istream does not call its buffer once it has failed, and   *)
(* after an end of file it has only looked at only to step back.           *)

Reading == direction = "in" /\ alive /\ (state = "good" \/ Retries)

\* What is behind a get pointer; 0 lies outside the buffer.
CharAt(i) == IF i < Len(hold) THEN hold[i + 1] ELSE 0

\* FCGX_GetStr into the buffer: short only where the input ends.
Fill ==
    LET glen == Smaller(bufsize, input - pos) IN
    /\ glen > 0
    /\ pos' = pos + glen
    /\ hold' = [i \in 1..glen |-> pos + i] \o SubSeq(hold, glen + 1, Len(hold))
    /\ egptr' = glen

\* underflow asks for more when in_avail() = egptr - gptr is 0, and takes what
\* is behind gptr when it is not, also when gptr is past egptr.  (While gptr is
\* before egptr it is not called.)
FillsArea == egptr = gptr

\* sgetc: underflow, where the area is empty.  Only with a buffer.
Peek ==
    /\ Reading /\ bufsize > 0
    /\ \/ /\ ~FillsArea
          /\ seen' = CharAt(gptr) /\ state' = "good"
          /\ UNCHANGED <<pos, hold, gptr, egptr>>
       \/ /\ FillsArea /\ Fill
          /\ gptr' = 0 /\ seen' = pos + 1 /\ state' = "good"
       \/ /\ FillsArea /\ pos = input
          /\ state' = "eof" /\ seen' = 0
          /\ UNCHANGED <<pos, hold, gptr, egptr>>
    /\ UNCHANGED <<direction, bufsize, alive, put, input, delivered>>

\* sbumpc, and each character of xsgetn: uflow, where the area is empty, moves
\* gptr on whatever underflow returned.
Bump ==
    /\ Reading /\ bufsize > 0
    /\ \/ /\ ~FillsArea
          /\ delivered' = Append(delivered, CharAt(gptr))
          /\ gptr' = gptr + 1 /\ state' = "good"
          /\ UNCHANGED <<pos, hold, egptr>>
       \/ /\ FillsArea /\ Fill
          /\ delivered' = Append(delivered, pos + 1)
          /\ gptr' = 1 /\ state' = "good"
       \/ /\ FillsArea /\ pos = input
          /\ gptr' = gptr + 1 /\ state' = "fail"
          /\ UNCHANGED <<pos, hold, egptr, delivered>>
    /\ seen' = 0
    /\ UNCHANGED <<direction, bufsize, alive, put, input>>

\* uflow and xsgetn without a buffer: FCGX_GetChar, FCGX_GetStr.
GetDirect ==
    /\ Reading /\ bufsize = 0
    /\ \E n \in 1..Smaller(2, MaxChars) :
        LET m == Smaller(n, input - pos) IN
        /\ delivered' = delivered \o [i \in 1..m |-> pos + i]
        /\ pos' = pos + m
        /\ state' = IF m < n THEN "fail" ELSE "good"
    /\ UNCHANGED <<direction, bufsize, alive, put, input, hold, gptr, egptr, seen>>

\* sungetc: steps back while there is something before gptr; an istream that
\* was at end of file is good again.
Unget ==
    /\ direction = "in" /\ alive /\ (state # "fail" \/ Retries)
    /\ gptr > 0
    /\ gptr' = gptr - 1
    /\ delivered' = IF gptr <= egptr THEN Front(delivered) ELSE delivered
    /\ state' = "good" /\ seen' = 0
    /\ UNCHANGED <<direction, bufsize, alive, put, input, pos, hold, egptr>>

-----------------------------------------------------------------------------
\* setbuf takes a buffer only where there is none.
SetBuf ==
    /\ alive /\ bufsize = 0
    /\ bufsize' = BufSize
    /\ area' = <<>> /\ gptr' = 0 /\ egptr' = 0 /\ hold' = [i \in 1..BufSize |-> 0]
    /\ UNCHANGED <<direction, alive, stream, taken, broken, given, dropped, written,
                   input, pos, delivered, seen, state>>

Stopped == (~alive \/ (direction = "in" /\ state = "fail")) /\ UNCHANGED streambufVars

StreambufInit ==
    /\ direction \in {"out", "in"}
    /\ bufsize \in {0, BufSize}
    /\ alive = TRUE
    /\ stream \in Streams
    /\ area = <<>> /\ taken = [s \in Streams |-> <<>>] /\ broken = {}
    /\ given = [s \in Streams |-> <<>>] /\ dropped = {} /\ written = 0
    /\ input \in 0..MaxChars /\ pos = 0
    /\ hold = [i \in 1..bufsize |-> 0] /\ gptr = 0 /\ egptr = 0
    /\ delivered = <<>> /\ seen = 0 /\ state = "good"

Put == SputcStores \/ Overflow \/ Sync \/ AttachStream
Get == Peek \/ Bump \/ GetDirect \/ Unget

StreambufNext == Put \/ Get \/ SetBuf \/ DestroyBuffer \/ Stopped

StreambufSpec == StreambufInit /\ [][StreambufNext]_streambufVars

-----------------------------------------------------------------------------
(* Properties.                                                             *)

\* Every variable has its type, and the areas stay within the buffer; an end
\* of file leaves gptr one past egptr.
StreambufTypeOK ==
    /\ direction \in {"out", "in"} /\ bufsize \in {0, BufSize} /\ alive \in BOOLEAN
    /\ stream \in Streams /\ broken \subseteq Streams
    /\ area \in Seq(Nat) /\ Len(area) <= bufsize
    /\ taken \in [Streams -> Seq(Nat)] /\ given \in [Streams -> Seq(Nat)]
    /\ dropped \subseteq 1..written /\ written \in 0..MaxChars
    /\ input \in 0..MaxChars /\ pos \in 0..input
    /\ hold \in Seq(Nat) /\ Len(hold) = bufsize
    /\ egptr \in 0..bufsize
    /\ gptr \in 0..(IF state = "fail" THEN egptr + 1 ELSE egptr)
    /\ delivered \in Seq(Nat) /\ seen \in Nat
    /\ state \in {"good", "eof", "fail"}

\* What the destructor leaves in the put area is lost.
Pending(s) == IF alive /\ s = stream THEN area ELSE <<>>

\* A stream without an error holds, with what is still in the put area, exactly
\* what its caller was told was written while it was attached, each character
\* once and in order, except for what attach was called upon without a sync;
\* whether characters were stored, overflowed or went past the buffer, and
\* also once the stream buffer is destroyed.
OutputFidelity ==
    \A s \in Streams \ broken :
        taken[s] \o Pending(s) = Selected(given[s], Nat \ dropped)

\* Reading, stepping back and looking ahead in any order, with any input length
\* against any buffer size, the caller gets the characters of the stream one by
\* one, is told of the end of file only after the last, and the character it
\* has looked at is the next one it gets.
InputFidelity ==
    /\ delivered = [i \in DOMAIN delivered |-> i]
    /\ state # "good" => Len(delivered) = input
    /\ seen # 0 => seen = Len(delivered) + 1

\* Reading on after an end of file removes no character there is not: the
\* characters delivered are characters of the stream.
NoCharacterInvented == Len(delivered) <= input

=============================================================================
