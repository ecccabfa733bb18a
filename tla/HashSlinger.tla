----------------------------- MODULE HashSlinger -----------------------------
(***************************************************************************)
(* The hash slingers: hash_critbit.c, hash_classic.c, hash_simple_list.c.   *)
(*                                                                         *)
(* critbit searches its tree without a lock, one pointer at a time, while   *)
(* inserts and deletes go on under hcb_mtx; what a delete takes out of the  *)
(* tree cools off on a list before the cleaner thread frees it.  A section  *)
(* under hcb_mtx publishes its change with one pointer write and is one     *)
(* step here; a search is a step per pointer.  classic locks a bucket for   *)
(* the whole operation, the simple list is classic with one bucket.         *)
(***************************************************************************)
EXTENDS Naturals, Sequences, SequencesExt, FiniteSets, FiniteSetsExt

CONSTANTS
  Thread,
  Digest,    \* sequences of bits, all of the length Bits
  Bits,      \* DIGEST_LEN * 8
  Objhead,      \* addresses of objheads: a bound on the memory
  Hcby,      \* addresses of struct hcb_y: a bound on the memory
  Null,
  MaxRefs    \* bound: no lookup of a digest begins with more references to it

ASSUME HashSlingerAssumption ==
  /\ Bits \in Nat \ {0} /\ MaxRefs \in Nat \ {0}
  /\ Digest \subseteq [1..Bits -> {0, 1}] /\ Digest # {}
  /\ Objhead \cap Hcby = {} /\ Null \notin Objhead \cup Hcby
  /\ IsFiniteSet(Thread)

VARIABLES
  slinger,   \* "critbit", "classic" or "simple" (-h)
  oh,        \* the objheads: where they are, digest, refcnt
  y,         \* the inner nodes of the tree: where they are, critbit, leaf
  origo,     \* hcb_root.origo
  bucket,    \* hcl_head[].head, hsl_head
  th,        \* the threads: pc, the pointer in hand, the digest wanted
  cleaner,   \* the cleaner thread
  cooling,   \* threads whose search began before the cleaner went to sleep
  refs       \* ghost: references handed out and not given back

slingervars == <<slinger, oh, y, origo, bucket, th, cleaner, cooling, refs>>

Ptr == Objhead \cup Hcby \cup {Null}
AnyDigest == CHOOSE d \in Digest : TRUE
FreeHead == [st |-> "free", digest |-> AnyDigest, refcnt |-> 0]
FreeNode == [st |-> "free", critbit |-> 1, leaf |-> [b \in {0, 1} |-> Null]]
Idle     == [pc |-> "idle", p |-> Null, d |-> AnyDigest]

SlingerTypeOK ==
  /\ slinger \in {"critbit", "classic", "simple"}
  /\ oh \in [Objhead -> [st : {"free", "hashed", "cool", "dead"},
                      digest : Digest, refcnt : 0..(MaxRefs + Cardinality(Thread) - 1)]]
  /\ y \in [Hcby -> [st : {"free", "tree", "cool", "dead"},
                     critbit : 1..Bits, leaf : [{0, 1} -> Ptr]]]
  /\ origo \in Ptr
  /\ \A b \in {0, 1} : bucket[b] \in Seq(Objhead)
  /\ th \in [Thread -> [pc : {"idle", "search", "grab", "locked", "delete", "free"},
                        p : Ptr, d : Digest]]
  /\ cleaner \in {"free", "concat", "sleep"} /\ cooling \subseteq Thread
  /\ refs \in [Objhead -> 0..(MaxRefs + Cardinality(Thread) - 1)]

SlingerInit ==
  /\ slinger \in {"critbit", "classic", "simple"}
  /\ oh = [h \in Objhead |-> FreeHead] /\ y = [n \in Hcby |-> FreeNode]
  /\ origo = Null /\ bucket = [b \in {0, 1} |-> <<>>]
  /\ th = [t \in Thread |-> Idle]
  /\ cleaner = "free" /\ cooling = {} /\ refs = [h \in Objhead |-> 0]

Want(t) == th[t].d
MayRefer(d) == \A h \in Objhead : oh[h].digest = d => refs[h] < MaxRefs
Goto(t, pc, p) ==
  th' = [th EXCEPT ![t] = [pc |-> pc, p |-> p,
                           d |-> IF pc \in {"search", "grab", "locked"} THEN @.d ELSE AnyDigest]]

\* HSH_Prealloc(), hcb_prep(): a thread comes with an objhead and a node of its
\* own to insert, which nobody else sees before: memory that is free here.
Spare(mem) == {a \in DOMAIN mem : mem[a].st = "free"}

-----------------------------------------------------------------------------
(* The tree.                                                               *)

\* hcb_crit_bit(): the first bit in which two digests differ.
hcb_crit_bit(d1, d2) == Min({i \in 1..Bits : d1[i] # d2[i]})

\* The pointers a search for d passes, beginning with origo; critical bits
\* grow on the way down, so Bits steps are enough.
Path(d) ==
  LET at[n \in 0..Bits] ==
        IF n = 0 THEN origo
        ELSE IF at[n - 1] \in Hcby THEN y[at[n - 1]].leaf[d[y[at[n - 1]].critbit]]
             ELSE at[n - 1]
  IN at

\* *p = new, where p is the n-th pointer on the path of d: the nodes, the root.
Linked(ys, d, n, new) ==
  IF n = 0 THEN ys
  ELSE [ys EXCEPT ![Path(d)[n - 1]].leaf[d[y[Path(d)[n - 1]].critbit]] = new]
Root(n, new) == IF n = 0 THEN new ELSE origo

\* Where the second loop of hcb_insert() stops: at a node with a larger
\* critical bit, or at the objhead.
Place(d, c) == Min({i \in 0..Bits : Path(d)[i] \in Objhead \/ y[Path(d)[i]].critbit > c})

\* hcb_insert() with the lock and another objhead, oh2, at the end of the path.
hcb_insert(d, noh, y2, oh2) ==
  LET c    == hcb_crit_bit(d, oh[oh2].digest)
      n    == Place(d, c)
      leaf == [b \in {0, 1} |-> IF b = d[c] THEN noh ELSE Path(d)[n]]
  IN /\ y' = Linked([y EXCEPT ![y2] = [st |-> "tree", critbit |-> c, leaf |-> leaf]],
                    d, n, y2)
     /\ origo' = Root(n, y2)

Cooled(node) == [node EXCEPT !.st = "cool"]

\* hcb_delete(): the sibling takes the place of the node above the objhead, and
\* the node goes to the cool list.
hcb_delete(h) ==
  LET d    == oh[h].digest
      n    == Min({i \in 0..Bits : Path(d)[i] = h})
      up   == Path(d)[n - 1]
      sib  == y[up].leaf[1 - d[y[up].critbit]]
  IN IF n = 0 THEN origo' = Null /\ UNCHANGED y
     ELSE /\ y' = Linked([y EXCEPT ![up] = Cooled(@)], d, n - 1, sib)
          /\ origo' = Root(n - 1, sib)

-----------------------------------------------------------------------------
(* critbit: lookup, deref, the cleaner.                                    *)

\* hcb_lookup() reads the first pointer, without the lock.
hcb_lookup(t, d) ==
  /\ slinger = "critbit" /\ th[t].pc = "idle" /\ MayRefer(d)
  /\ th' = [th EXCEPT ![t] = [pc |-> "search", p |-> origo, d |-> d]]
  /\ UNCHANGED <<slinger, oh, y, origo, bucket, cleaner, cooling, refs>>

\* One turn of the loop of hcb_insert() without the lock.
hcb_search(t) ==
  /\ th[t].pc = "search" /\ th[t].p \in Hcby
  /\ Goto(t, "search", y[th[t].p].leaf[Want(t)[y[th[t].p].critbit]])
  /\ UNCHANGED <<slinger, oh, y, origo, bucket, cleaner, cooling, refs>>

\* The end of the path: the objhead if the digest is right, else "try again,
\* with lock".
hcb_found(t) ==
  /\ th[t].pc = "search" /\ th[t].p \notin Hcby
  /\ IF th[t].p # Null /\ oh[th[t].p].digest = Want(t)
     THEN Goto(t, "grab", th[t].p) /\ UNCHANGED cooling
     ELSE Goto(t, "locked", Null) /\ cooling' = cooling \ {t}
  /\ UNCHANGED <<slinger, oh, y, origo, bucket, cleaner, refs>>

\* The insert with the lock: into the empty tree, next to another digest, or
\* not at all if the digest is there.
hcb_locked(t) ==
  /\ th[t].pc = "locked"
  /\ LET d   == Want(t)
         end == Path(d)[Bits]
     IN IF end # Null /\ oh[end].digest = d
        THEN Goto(t, "grab", end) /\ UNCHANGED <<oh, y, origo, refs>>
        ELSE \E h \in Spare(oh), n \in Spare(y) :
             /\ IF end = Null THEN origo' = h /\ UNCHANGED y
                              ELSE hcb_insert(d, h, n, end)
             /\ oh' = [oh EXCEPT ![h] = [st |-> "hashed", digest |-> d, refcnt |-> 1]]
             /\ refs' = [refs EXCEPT ![h] = 1]
             /\ Goto(t, "idle", Null)
  /\ UNCHANGED <<slinger, bucket, cleaner, cooling>>

Unlocked(h) == \A t \in Thread : ~(th[t].pc = "delete" /\ th[t].p = h)

GrabAny(t) ==   \* (mutation) a count of zero is not noticed
  /\ th[t].pc = "grab" /\ Unlocked(th[t].p)
  /\ oh' = [oh EXCEPT ![th[t].p].refcnt = @ + 1]
  /\ refs' = [refs EXCEPT ![th[t].p] = @ + 1]
  /\ Goto(t, "idle", Null)
  /\ cooling' = cooling \ {t}
  /\ UNCHANGED <<slinger, y, origo, bucket, cleaner>>

\* Under oh->mtx: a count of zero shows that the tree changed under us.
hcb_grab(t) ==
  /\ th[t].pc = "grab" /\ Unlocked(th[t].p)
  /\ IF oh[th[t].p].refcnt > 0
     THEN /\ oh' = [oh EXCEPT ![th[t].p].refcnt = @ + 1]
          /\ refs' = [refs EXCEPT ![th[t].p] = @ + 1]
          /\ Goto(t, "idle", Null)
     ELSE Goto(t, "locked", Null) /\ UNCHANGED <<oh, refs>>
  /\ cooling' = cooling \ {t}
  /\ UNCHANGED <<slinger, y, origo, bucket, cleaner>>

\* hcb_deref(): the count under oh->mtx, which the thread keeps while it waits
\* for hcb_mtx to take the objhead out of the tree.
hcb_deref(t, h) ==
  /\ slinger = "critbit" /\ th[t].pc = "idle" /\ refs[h] > 0 /\ Unlocked(h)
  /\ oh' = [oh EXCEPT ![h].refcnt = @ - 1]
  /\ refs' = [refs EXCEPT ![h] = @ - 1]
  /\ IF oh[h].refcnt = 1 THEN Goto(t, "delete", h) ELSE UNCHANGED th
  /\ UNCHANGED <<slinger, y, origo, bucket, cleaner, cooling>>
hcb_deref_delete(t) ==
  /\ th[t].pc = "delete"
  /\ oh[th[t].p].st = "hashed"      \* else the assertions of hcb_delete() fail
  /\ hcb_delete(th[t].p)
  /\ oh' = [oh EXCEPT ![th[t].p].st = "cool"]
  /\ Goto(t, "idle", Null)
  /\ UNCHANGED <<slinger, bucket, cleaner, cooling, refs>>

ConcatTooLate ==   \* (mutation) the cool lists are freed without a sleep
  /\ cleaner = "concat" /\ cleaner' = "free"
  /\ oh' = [h \in Objhead |-> IF oh[h].st = "cool" THEN [oh[h] EXCEPT !.st = "dead"] ELSE oh[h]]
  /\ y' = [n \in Hcby |-> IF y[n].st = "cool" THEN [y[n] EXCEPT !.st = "dead"] ELSE y[n]]
  /\ cooling' = {}
  /\ UNCHANGED <<slinger, origo, bucket, th, refs>>

\* hcb_cleaner(): free the dead, let the cool ones die, sleep.  The sleep of
\* critbit_cooloff seconds is longer than any search: it does not end before
\* the searches that were going on at its start.
hcb_cleaner_free ==
  /\ slinger = "critbit" /\ cleaner = "free" /\ cleaner' = "concat"
  /\ oh' = [h \in Objhead |-> IF oh[h].st = "dead" THEN FreeHead ELSE oh[h]]
  /\ y' = [n \in Hcby |-> IF y[n].st = "dead" THEN FreeNode ELSE y[n]]
  /\ UNCHANGED <<slinger, origo, bucket, th, cooling, refs>>
hcb_cleaner_concat ==
  /\ cleaner = "concat" /\ cleaner' = "sleep"
  /\ oh' = [h \in Objhead |-> IF oh[h].st = "cool" THEN [oh[h] EXCEPT !.st = "dead"] ELSE oh[h]]
  /\ y' = [n \in Hcby |-> IF y[n].st = "cool" THEN [y[n] EXCEPT !.st = "dead"] ELSE y[n]]
  /\ cooling' = {t \in Thread : th[t].pc \in {"search", "grab"}}
  /\ UNCHANGED <<slinger, origo, bucket, th, refs>>
hcb_cleaner_sleep ==
  /\ cleaner = "sleep" /\ cooling = {} /\ cleaner' = "free"
  /\ UNCHANGED <<slinger, oh, y, origo, bucket, th, cooling, refs>>

-----------------------------------------------------------------------------
(* classic and simple: sorted lists of objheads.                           *)

\* memcmp() of two digests.
Less(d1, d2) == \E i \in 1..Bits : d1[i] < d2[i] /\ \A j \in 1..(i - 1) : d1[j] = d2[j]

\* digest % hcl_nhash: by the last bit, so that lists of several digests occur.
BucketOf(d) == IF slinger = "classic" THEN d[Bits] ELSE 0

\* VTAILQ_FOREACH of hcl_lookup(), hsl_lookup(): the first digest not smaller, or 0.
Search(list, d) == SelectInSeq(list, LAMBDA h : ~Less(oh[h].digest, d))

\* hcl_lookup(), hsl_lookup(): all of it under the lock of the bucket.
hcl_lookup(t, d) ==
  /\ slinger # "critbit" /\ th[t].pc = "idle" /\ MayRefer(d)
  /\ LET list  == bucket[BucketOf(d)]
         i     == Search(list, d)
     IN IF i # 0 /\ oh[list[i]].digest = d
        THEN /\ oh' = [oh EXCEPT ![list[i]].refcnt = @ + 1]
             /\ refs' = [refs EXCEPT ![list[i]] = @ + 1]
             /\ UNCHANGED bucket
        ELSE \E h \in Spare(oh) :
             /\ oh' = [oh EXCEPT ![h] = [st |-> "hashed", digest |-> d, refcnt |-> 1]]
             /\ refs' = [refs EXCEPT ![h] = 1]
             /\ bucket' = [bucket EXCEPT ![BucketOf(d)] =
                             InsertAt(@, IF i = 0 THEN Len(list) + 1 ELSE i, h)]
  /\ UNCHANGED th
  /\ UNCHANGED <<slinger, y, origo, cleaner, cooling>>

\* Where h is on the list.
Position(list, h) == CHOOSE i \in DOMAIN list : list[i] = h

\* hcl_deref(), hsl_deref(); the caller frees the objhead after the last reference.
hcl_deref(t, h) ==
  /\ slinger # "critbit" /\ th[t].pc = "idle" /\ refs[h] > 0
  /\ refs' = [refs EXCEPT ![h] = @ - 1]
  /\ IF oh[h].refcnt = 1
     THEN /\ bucket' = [bucket EXCEPT ![BucketOf(oh[h].digest)] = RemoveAt(@, Position(@, h))]
          /\ oh' = [oh EXCEPT ![h].st = "dead", ![h].refcnt = 0]
          /\ Goto(t, "free", h)
     ELSE oh' = [oh EXCEPT ![h].refcnt = @ - 1] /\ UNCHANGED <<bucket, th>>
  /\ UNCHANGED <<slinger, y, origo, cleaner, cooling>>
HSH_DeleteObjHead(t) ==
  /\ th[t].pc = "free"
  /\ oh' = [oh EXCEPT ![th[t].p] = FreeHead]
  /\ Goto(t, "idle", Null)
  /\ UNCHANGED <<slinger, y, origo, bucket, cleaner, cooling, refs>>

-----------------------------------------------------------------------------
SlingerNext ==
  \/ \E t \in Thread :
       \/ \E d \in Digest : hcb_lookup(t, d) \/ hcl_lookup(t, d)
       \/ hcb_search(t) \/ hcb_found(t) \/ hcb_locked(t) \/ hcb_grab(t)
       \/ hcb_deref_delete(t) \/ HSH_DeleteObjHead(t)
       \/ \E h \in Objhead : hcb_deref(t, h) \/ hcl_deref(t, h)
  \/ hcb_cleaner_free \/ hcb_cleaner_concat \/ hcb_cleaner_sleep

SlingerSpec == SlingerInit /\ [][SlingerNext]_slingervars

-----------------------------------------------------------------------------
\* Every objhead in use is where a search for its digest ends, the nodes of
\* the tree are the ones on the paths to them, and critical bits grow: the
\* order in which inserts and deletes rebuilt the tree does not matter.
TreeComplete ==
  slinger = "critbit" =>
    LET in == {h \in Objhead : oh[h].st = "hashed"}
        Nodes(h) == {Path(oh[h].digest)[i] : i \in 0..Bits} \cap Hcby
    IN /\ \A h \in in : Path(oh[h].digest)[Bits] = h
       /\ {n \in Hcby : y[n].st = "tree"} = UNION {Nodes(h) : h \in in}
       /\ \A n \in Hcby : y[n].st = "tree" =>
            \A b \in {0, 1} : y[n].leaf[b] \in Hcby =>
              y[y[n].leaf[b]].st = "tree" /\ y[y[n].leaf[b]].critbit > y[n].critbit

\* Lists are sorted without duplicates and hold the objheads in use.
ListsComplete ==
  slinger # "critbit" =>
    \A b \in {0, 1} :
      /\ \A i, j \in 1..Len(bucket[b]) :
           i < j => Less(oh[bucket[b][i]].digest, oh[bucket[b][j]].digest)
      /\ ToSet(bucket[b]) = {h \in Objhead : oh[h].st = "hashed" /\ BucketOf(oh[h].digest) = b}

\* A search without the lock never stands on freed memory: nodes and objheads
\* taken out of the tree behind its back are still intact.
NoUseAfterFree ==
  \A t \in Thread : th[t].pc \in {"search", "grab"} =>
    /\ th[t].p \in Objhead => oh[th[t].p].st # "free"
    /\ th[t].p \in Hcby => y[th[t].p].st # "free"

HT == INSTANCE HashTable WITH key <- [h \in Objhead |-> oh[h].digest]

\* Whatever the slinger and the interleaving, references are handed out as by
\* an atomic table: while a digest has references, lookups get the same objhead.
IsHashTable == HT!Spec

\* The structure of the slinger is intact and no search without the lock stands
\* on freed memory (hcb_insert, hcb_delete, hcb_cleaner, hcl_lookup, hsl_lookup).
SlingerSound == SlingerTypeOK /\ TreeComplete /\ ListsComplete /\ NoUseAfterFree
=============================================================================
