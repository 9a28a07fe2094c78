------------------------------ MODULE MCEditor ------------------------------
(* A small instance of Editor: two characters, lines and files cut short. *)
EXTENDS Editor

(* A file that fits, one of a line too long, one of a line too many. *)
MCFiles == {NoFile, Directory, <<>>, <<"a">>, <<"a", NL>>,
            <<"a", "b", "a", "b">>, <<NL, "b", NL, NL, "a">>}
=============================================================================
