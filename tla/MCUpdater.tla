------------------------------ MODULE MCUpdater ------------------------------
(* Binaries of two blocks, downloads that deliver them, a part of one, or   *)
(* something else, and the directives of two small instances of Updater.    *)
EXTENDS Updater

MCOriginal  == <<"o", "o">>
MCPublished == {<<"a", "b">>, <<"c", "d", "c">>}
MCBodies    == MCPublished \cup {<<>>, <<"a">>, <<"c", "d">>, <<"b", "a">>}

\* No file_size, or one no larger than any binary.
FittingHints == {0, 1, 2}

\* A file_size larger than the binary it comes with.
LargeHints == {0, 3}
=============================================================================
