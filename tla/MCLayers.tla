------------------------------ MODULE MCLayers ------------------------------
(***************************************************************************)
(* Instances for TLC of the layers above the streams: the standard I/O of  *)
(* fcgi_stdio.c, the requests and the handles of the Perl binding, and the *)
(* C++ stream buffer.  They share no state and no program uses two of them *)
(* on one request, so each behaviour is one of one layer, and the others   *)
(* stay as they begin.                                                     *)
(***************************************************************************)
EXTENDS FcgiStdio, PerlRequest, PerlStream, FcgiStreambuf

CONSTANTS r1, r2, r3, h1, h2, s1

VARIABLE layer

\* The first two requests were created with the same handles.
SharedHandles == [r \in Requests |-> IF r = r3 THEN h2 ELSE h1]

LayersInit ==
    /\ layer \in {"stdio", "perl", "handles", "streambuf"}
    /\ Init /\ PerlInit /\ StreamInit /\ StreambufInit
    /\ layer # "stdio" => invokedAs = "CGI"
    /\ layer # "streambuf" => direction = "out" /\ bufsize = 0 /\ stream = s1 /\ input = 0

LayersNext ==
    /\ UNCHANGED layer
    /\ \/ /\ layer = "stdio" /\ Next
          /\ UNCHANGED <<perlVars, streamVars, streambufVars>>
       \/ /\ layer = "perl" /\ PerlNext
          /\ UNCHANGED <<vars, streamVars, streambufVars>>
       \/ /\ layer = "handles" /\ StreamNext
          /\ UNCHANGED <<vars, perlVars, streambufVars>>
       \/ /\ layer = "streambuf" /\ StreambufNext
          /\ UNCHANGED <<vars, perlVars, streamVars>>

LayersSpec == LayersInit /\ [][LayersNext]_<<layer, vars, perlVars, streamVars, streambufVars>>

\* The types of the layers.
LayersTypeOK == TypeOK /\ PerlTypeOK /\ StreambufTypeOK

\* Through a tied handle of Perl and through a fcgi_streambuf of C++ each character
\* passes once and in order, in either direction.
CharactersKept == PartWritten /\ InputInOrder /\ OutputFidelity /\ InputFidelity

=============================================================================
