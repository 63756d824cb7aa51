------------------------------- MODULE MCFiles -------------------------------
(* An instance of Files: a file, a file in a directory, and a device. *)
EXTENDS Files

MCPaths == {<<"f">>, <<"d", "f">>, <<"dev", "null">>}
MCRaw == {<<"f">>, <<"d">>, <<"..", "f">>, <<"dev", ".", "null">>}
MCCards == {[d \in Dirs |-> IF d = <<>> THEN <<[name |-> "d", dir |-> TRUE, size |-> 0],
                                               [name |-> "f", dir |-> FALSE, size |-> 1]>>
                             ELSE <<>>]}
MCModes == [create : BOOLEAN, dir : {FALSE}] \cup [create : {FALSE}, dir : {TRUE}]
=============================================================================
