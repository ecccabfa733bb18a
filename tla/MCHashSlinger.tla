--------------------------- MODULE MCHashSlinger ---------------------------
(* Digests of two bits: three of them make a tree with two inner nodes.  Any *)
(* address is as good as another, and no liveness is checked, so addresses    *)
(* and threads are symmetric.                                                 *)
EXTENDS HashSlinger, TLC
MCDigest == {<<0, 0>>, <<0, 1>>, <<1, 0>>}
Symmetry == Permutations(Objhead) \cup Permutations(Hcby) \cup Permutations(Thread)
=============================================================================
