----------------------------- MODULE MCRuntime ------------------------------
(* Instances of Runtime: the globals, and the elements they have.          *)
EXTENDS RuntimeProperties

\* one global, not an array
One == {<<"a", 0>>}

\* the two elements of an array
Pair == {<<"a", 0>>, <<"a", 1>>}

\* a and an array b of two elements: an index of b may be none of a
Arrays == {<<"a", 0>>, <<"b", 0>>, <<"b", 1>>}

=============================================================================
