------------------------------ MODULE HashTable ------------------------------
(***************************************************************************)
(* What the object cache expects of a hash slinger (struct hash_slinger):   *)
(* lookup() hands out a counted reference to the one objhead of a digest,    *)
(* deref() gives one back.  As long as anybody has a reference, every        *)
(* lookup of the digest gets the same objhead.                               *)
(***************************************************************************)
EXTENDS Naturals

CONSTANTS
  Digest,   \* the digests looked up
  Objhead      \* addresses of objheads

VARIABLES
  refs,     \* references handed out, per objhead
  key       \* the digest of an objhead with references

vars == <<refs, key>>

Init == refs = [h \in Objhead |-> 0] /\ key \in [Objhead -> Digest]

Of(d) == {h \in Objhead : refs[h] > 0 /\ key[h] = d}

Lookup(d, h) ==
  /\ Of(d) = {h} \/ (Of(d) = {} /\ refs[h] = 0)
  /\ refs' = [refs EXCEPT ![h] = @ + 1]
  /\ key' = [key EXCEPT ![h] = d]

Deref(h) ==
  /\ refs[h] > 0
  /\ refs' = [refs EXCEPT ![h] = @ - 1]
  /\ UNCHANGED key

\* The digest of an objhead that nobody refers to means nothing.
Scratch == /\ key' \in [Objhead -> Digest]
           /\ \A h \in Objhead : refs[h] > 0 => key'[h] = key[h]
           /\ UNCHANGED refs

Next == \/ Scratch
        \/ \E h \in Objhead : Deref(h) \/ \E d \in Digest : Lookup(d, h)

Spec == Init /\ [][Next]_vars
=============================================================================
