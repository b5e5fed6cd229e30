-------------------------- MODULE MCFcgxConnection --------------------------
(***************************************************************************)
(* Settings for the instances of FcgxConnection: servers that send one     *)
(* request after the other, with no body, content, or content behind a     *)
(* management record; and servers that send early, go away or are slow.    *)
(***************************************************************************)
EXTENDS FcgxConnection

Orderly == [requests |-> 2, bodies |-> {<<>>, <<"STDIN", "STDIN", "STDIN">>,
                             <<"MGMT", "STDIN">>},
            puts |-> 2, faults |-> {}, pipelined |-> FALSE]

Faulty == [requests |-> 3, bodies |-> {<<"MGMT", "STDIN">>},
           puts |-> 1, faults |-> {"timeout", "abort"}, pipelined |-> TRUE]

\* A whole request fits behind the end of the one before: it is lost with the buffer.
Early == [requests |-> 3, bodies |-> {<<>>},
          puts |-> 1, faults |-> {"timeout"}, pipelined |-> TRUE]

MCSettings == {Orderly, Faulty, Early}

=============================================================================
