----------------------------- MODULE MCSession -----------------------------
(***************************************************************************)
(* A file by its name and by an absolute word, a word that leads up and to *)
(* the README.txt of ramfs_init, the name of a directory and a file below  *)
(* it, README and its copy, a name cut on the disk and the cut name.       *)
(***************************************************************************)
EXTENDS Session, TLC

MCWords == {<<"a">>, <<"", "home", ".", "u", "a">>, <<"..", "README.txt">>,
            <<"docs">>, <<"docs", "a">>, <<"README">>, <<"README.txt">>,
            <<"long">>, <<"cut">>}
MCLong  == {<<"long">>}
MCCut   == <<"cut">>
MCTexts == Permutations(Texts)
=============================================================================
