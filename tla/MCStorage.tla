----------------------------- MODULE MCStorage ------------------------------
(* TLC instances of StorageManager. *)
EXTENDS StorageManager

\* Two objects of one cache.
Pair == {<<"a", 1>>, <<"a", 2>>}

\* One object in each of two.
Apart == {<<"a", 1>>, <<"b", 1>>}
=============================================================================
