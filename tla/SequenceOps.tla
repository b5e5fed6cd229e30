---------------------------- MODULE SequenceOps -----------------------------
(***************************************************************************)
(* What the modules read off a sequence from its first element to its      *)
(* last, as recursive functions.                                           *)
(***************************************************************************)
EXTENDS Integers, Sequences

\* The sum of the elements: a length or a count that a loop adds up.
Total(s) == LET to[n \in 0..Len(s)] == IF n = 0 THEN 0 ELSE to[n - 1] + s[n]
          IN to[Len(s)]

\* The elements that are in T, in their order: the part of a byte stream that
\* one consumer is to see.
Selected(s, T) ==
    LET upTo[n \in 0..Len(s)] ==
            IF n = 0 THEN <<>>
            ELSE IF s[n] \in T THEN Append(upTo[n - 1], s[n]) ELSE upTo[n - 1]
    IN  upTo[Len(s)]

=============================================================================
