------------------------------- MODULE VFPrintF -------------------------------
(***************************************************************************)
(* FCGX_VFPrintF: a format is taken apart by two paths.  The fast path     *)
(* knows the bare conversions and formats them into a buffer of fixed      *)
(* length; it gives up, without having read the argument, on anything      *)
(* else.  The slow path bounds the length of the result, keeps a larger    *)
(* buffer for it and copies the specifier for sprintf into fmtBuff.        *)
(*                                                                         *)
(* Text has only a length here.  An item of a format is                    *)
(*    op     "text", a conversion, or "other" for what is none             *)
(*    size   " ", "l", "L" or "h"                                          *)
(*    flags  how many of "-0+ #"                                           *)
(*    width, wstar   minimum field width, 0 for none; given by an argument *)
(*    prec, pstar    precision, -1 for none                                *)
(*    arg    text: its length; d, x, c, p: characters without padding;     *)
(*           s: strlen; f: binary exponent; e: characters of the exponent  *)
(***************************************************************************)
EXTENDS Integers, Sequences, FiniteSets, SequenceOps

CONSTANTS
    Items,      \* the items formats are made of
    MaxItems    \* bound: items of a format

Ops == {"text", "d", "x", "c", "p", "s", "n", "f", "e", "%", "other"}

PRINTF_BUFFLEN == 100
FMT_BUFFLEN == 25
Limit == 999999
MaxFlags == 5

Larger(a, b) == IF a > b THEN a ELSE b
Smaller(a, b) == IF a < b THEN a ELSE b
Abs(n) == IF n < 0 THEN -n ELSE n

ASSUME ItemsAssumption ==
    /\ MaxItems \in Nat
    /\ \A item \in Items :
          /\ item.op \in Ops /\ item.size \in {" ", "l", "L", "h"}
          /\ item.flags \in Nat /\ item.width \in Int /\ item.prec \in Int /\ item.arg \in Int
          /\ item.wstar \in BOOLEAN /\ item.pstar \in BOOLEAN
          /\ item.width < 0 => item.wstar
          /\ item.prec < -1 => item.pstar
          /\ item.op \in {"d", "x", "p"} => item.arg \in 1..25
          /\ item.op = "c" => item.arg \in 0..1
          /\ item.op = "e" => item.arg \in 4..6
          /\ item.op = "text" => item.arg > 0
          /\ item.op = "s" => item.arg \in Nat

VARIABLES
    format,     \* the items
    next,       \* f: the item to come
    path,       \* "scan" | "slow" | "put" | "done"
    args,       \* arguments read with va_arg
    fmtLen,     \* characters in fmtBuff, the NUL not counted
    buffCount, buffLen, \* what was formatted, and the room it had
    auxBuffLen, \* of the allocated buffer, 0 before there is one
    blocks,     \* buffers allocated and not freed
    sent,       \* <<item, length>> given to FCGX_PutStr
    streamCount

output == <<sent, streamCount>>
buffer == <<fmtLen, buffCount, buffLen, auxBuffLen, blocks>>
printfVars == <<format, next, path, args, buffer, output>>

Item == format[next]

-----------------------------------------------------------------------------
(* sprintf.                                                                *)

\* A precision given as an argument is not less than 0.
Precision(item) ==
    IF item.pstar THEN Larger(item.prec, 0)
    ELSE IF item.prec = -1 /\ item.op \in {"f", "e"} THEN 6
    ELSE item.prec

Fraction(p) == IF p = 0 THEN 0 ELSE p + 1

\* Decimal digits of a number below 2^exp.
IntegerDigits(exp) == IF exp > 0 THEN (exp * 30103) \div 100000 + 1 ELSE 1

\* Characters before padding to the width, a sign and a prefix included.
Body(item) ==
    LET p == Precision(item)
    IN CASE item.op \in {"d", "x", "p"} -> Larger(p, item.arg) + 2
         [] item.op = "s" -> IF p = -1 THEN item.arg ELSE Smaller(p, item.arg)
         [] item.op = "f" -> 1 + IntegerDigits(item.arg) + Fraction(p)
         [] item.op = "e" -> 2 + Fraction(p) + item.arg
         [] OTHER -> item.arg

Formatted(item) == Larger(Abs(item.width), Body(item))

Digits(n) ==
    IF n < 10 THEN 1 ELSE IF n < 100 THEN 2 ELSE IF n < 1000 THEN 3
    ELSE IF n < 10000 THEN 4 ELSE IF n < 100000 THEN 5 ELSE 6

-----------------------------------------------------------------------------
(* What a specifier asks for.                                              *)

Reads(item) ==
    IF item.op \in {"text", "%", "other"} THEN 0
    ELSE 1 + (IF item.wstar THEN 1 ELSE 0) + (IF item.pstar THEN 1 ELSE 0)

Bare(item) == item.flags = 0 /\ item.width = 0 /\ ~item.wstar /\ item.prec = -1 /\ ~item.pstar

\* Conversions the fast path performs.
Fast(item) == Bare(item) /\ item.op \notin {"text", "f", "other"}

BadSize(item) ==
    CASE item.op \in {"d", "x", "n"}      -> item.size = "L"
      [] item.op \in {"f", "e"}           -> item.size \in {"l", "h"}
      [] item.op \in {"c", "s", "p", "%"} -> item.size # " "
      [] OTHER -> FALSE

\* goto ErrorReturn on the slow path.
Refused(item) ==
    \/ item.op \in {"n", "%", "other"} \/ BadSize(item)
    \/ item.flags > MaxFlags \/ Abs(item.width) > Limit \/ item.prec > Limit

\* The specifier in fmtBuff: '%', flags, width, precision, size, operation.
SpecifierLen(item) ==
    1 + item.flags
    + (IF item.width = 0 /\ ~item.wstar THEN 0
       ELSE Digits(Abs(item.width)) + (IF item.width < 0 THEN 1 ELSE 0))
    + (IF item.prec = -1 /\ ~item.pstar THEN 0 ELSE 1 + Digits(Larger(item.prec, 0)))
    + (IF item.size = " " THEN 0 ELSE 1) + 1

\* The bound of the slow path, before a margin of 10 and the width are added.
Bound(item) ==
    LET p == Precision(item)
    IN CASE item.op = "s" -> IF p = -1 THEN item.arg ELSE Smaller(p, item.arg)
         [] item.op = "f" -> p + 3 + (IF item.arg > 0 THEN item.arg \div 3 ELSE 0)
         [] item.op = "e" -> p + 8
         [] OTHER -> Larger(p, 46)

BuffReqd(item) == Larger(Bound(item) + 10, item.width)

-----------------------------------------------------------------------------

PutText ==
    /\ path = "scan" /\ next <= Len(format) /\ Item.op = "text"
    /\ sent' = Append(sent, <<next, Item.arg>>)
    /\ streamCount' = streamCount + Item.arg
    /\ next' = next + 1
    /\ UNCHANGED <<format, path, args, buffer>>

\* The fast path; %s bypasses the buffer.
Convert(len, room) ==
    /\ buffCount' = len /\ buffLen' = room
    /\ args' = args + Reads(Item)
    /\ path' = "put"
    /\ UNCHANGED <<format, next, output>>

FastPath ==
    /\ path = "scan" /\ next <= Len(format)
    /\ Fast(Item) /\ ~BadSize(Item)
    /\ CASE Item.op = "n" -> Convert(0, PRINTF_BUFFLEN)
         [] Item.op = "%" -> Convert(1, PRINTF_BUFFLEN)
         [] Item.op = "s" -> Convert(Item.arg, Item.arg + 1)
         [] OTHER -> Convert(Body(Item), PRINTF_BUFFLEN)
    /\ fmtLen' = 2 + (IF Item.size = " " THEN 0 ELSE 1)
    /\ UNCHANGED <<auxBuffLen, blocks>>

GiveUpFastPath ==
    /\ path = "scan" /\ next <= Len(format)
    /\ Item.op # "text" /\ ~Fast(Item)
    /\ path' = "slow"
    /\ UNCHANGED <<format, next, args, buffer, output>>

\* Mutant of Room: the buffer of an earlier conversion is taken whatever its length.
FirstRoom(item) ==
    IF BuffReqd(item) <= PRINTF_BUFFLEN THEN UNCHANGED <<auxBuffLen,
                                                         blocks>> /\ buffLen' = PRINTF_BUFFLEN
    ELSE IF auxBuffLen > 0 THEN UNCHANGED <<auxBuffLen, blocks>> /\ buffLen' = auxBuffLen
    ELSE /\ auxBuffLen' = BuffReqd(item) /\ buffLen' = BuffReqd(item)
         /\ blocks' = blocks + 1

\* The buffer for a conversion of the slow path.
Room(item) ==
    IF BuffReqd(item) <= PRINTF_BUFFLEN THEN UNCHANGED <<auxBuffLen,
                                                         blocks>> /\ buffLen' = PRINTF_BUFFLEN
    ELSE IF auxBuffLen >= BuffReqd(item) THEN UNCHANGED <<auxBuffLen,
                                                          blocks>> /\ buffLen' = auxBuffLen
    ELSE /\ auxBuffLen' = BuffReqd(item) /\ buffLen' = BuffReqd(item)
         /\ blocks' = (IF auxBuffLen > 0 THEN blocks - 1 ELSE blocks) + 1

SlowPath ==
    /\ path = "slow" /\ ~Refused(Item)
    /\ fmtLen' = SpecifierLen(Item)
    /\ Room(Item)
    /\ buffCount' = Formatted(Item)
    /\ args' = args + Reads(Item)
    /\ path' = "put"
    /\ UNCHANGED <<format, next, output>>

PutConverted ==
    /\ path = "put"
    /\ sent' = Append(sent, <<next, buffCount>>)
    /\ streamCount' = streamCount + buffCount
    /\ next' = next + 1
    /\ path' = "scan"
    /\ UNCHANGED <<format, args, buffer>>

\* FCGX_PutStr fails, malloc(3) fails, or the specifier is refused.  The stream
\* keeps what it was given.
Return(result) ==
    /\ path' = "done"
    /\ streamCount' = result
    /\ blocks' = IF auxBuffLen > 0 THEN blocks - 1 ELSE blocks
    /\ UNCHANGED <<format, next, args, fmtLen, buffCount, buffLen, auxBuffLen, sent>>

PutFails ==
    /\ \/ path = "put" /\ buffCount > 0
       \/ path = "scan" /\ next <= Len(format) /\ Item.op = "text"
    /\ Return(-1)

ErrorReturn ==
    /\ \/ path = "scan" /\ next <= Len(format) /\ Fast(Item) /\ BadSize(Item)
       \/ path = "slow" /\ Refused(Item)
    /\ Return(-1)

MallocFails ==
    /\ path = "slow" /\ ~Refused(Item) /\ BuffReqd(Item) > Larger(PRINTF_BUFFLEN, auxBuffLen)
    /\ Return(-1)

NormalReturn ==
    /\ path = "scan" /\ next > Len(format)
    /\ Return(streamCount)

Over == path = "done" /\ UNCHANGED printfVars

PrintfInit ==
    /\ format \in UNION {[1..n -> Items] : n \in 0..MaxItems}
    /\ next = 1 /\ path = "scan" /\ args = 0
    /\ fmtLen = 0 /\ buffCount = 0 /\ buffLen = PRINTF_BUFFLEN
    /\ auxBuffLen = 0 /\ blocks = 0
    /\ sent = <<>> /\ streamCount = 0

PrintfNext == \/ PutText \/ FastPath \/ GiveUpFastPath \/ SlowPath \/ PutConverted
        \/ PutFails \/ ErrorReturn \/ MallocFails \/ NormalReturn \/ Over

PrintfSpec == PrintfInit /\ [][PrintfNext]_printfVars

-----------------------------------------------------------------------------

\* The types; next stays within the format.
PrintfTypeOK ==
    /\ next \in 1..Len(format)+1
    /\ path \in {"scan", "slow", "put", "done"}
    /\ path \in {"slow", "put"} => next <= Len(format)
    /\ {args, fmtLen, buffCount, buffLen, auxBuffLen, blocks} \subseteq Nat
    /\ streamCount \in Int

\* The specifier that is copied for sprintf fits into fmtBuff, as the assertion
\* of the slow path says, because flags, width and precision are limited.
SpecifierFits == fmtLen < FMT_BUFFLEN

\* Widths the bound allows for: a positive one that its margin covers, or that
\* leaves room in the fixed buffer.
Covered(item) == item.width >= 0 /\ item.width < Larger(Bound(item) + 10, PRINTF_BUFFLEN)

\* What sprintf writes, with its NUL, fits into the buffer chosen for it, also
\* one that an earlier conversion left, for widths the bound allows for.
OutputFits == path = "put" /\ (Bare(Item) \/ Covered(Item)) => buffCount < buffLen

\* Each conversion reads its own arguments: the fast path has read none when it
\* gives up, and none is read twice (fcgiapp.c:783).
ArgumentsAligned ==
    path = "scan" => args = Total([i \in 1..next-1 |-> Reads(format[i])])

SentLength == Total([i \in DOMAIN sent |-> sent[i][2]])

\* What the caller is told is what the stream was given: the whole format, or -1
\* after a part of it.
CountMatches ==
    /\ \A i \in DOMAIN sent : sent[i][1] = i
    /\ streamCount = SentLength \/ (path = "done" /\ streamCount = -1)
    /\ path = "done" /\ streamCount >= 0 => Len(sent) = Len(format)

\* The allocated buffer is freed however the function returns, and a smaller one
\* before it is replaced.
NoneLost == blocks = (IF path # "done" /\ auxBuffLen > 0 THEN 1 ELSE 0)

\* No conversion leaves its buffer, takes the argument of another, loses a block
\* or is counted without having been put.
PrintfSafe == SpecifierFits /\ OutputFits /\ ArgumentsAligned /\ CountMatches /\ NoneLost

=============================================================================
