---------------------------- MODULE Lookup_proofs ----------------------------
(***************************************************************************)
(* What a lookup in the cache rests on, the ban list and the hash slingers, *)
(* for any number of threads, objects, bans and digests and any amount of   *)
(* memory.                                                                  *)
(*                                                                         *)
(* The ban list: the walks without the lock are safe because a reference    *)
(* keeps the ban it ends at on the list, so the inductive invariant BanInv  *)
(* joins the positions of the walks (Structure) with the reference counts.  *)
(*                                                                         *)
(* The hash slingers: the tree of critbit is in order when every pointer    *)
(* has a set of objheads below it (the S of Tree) that the critical bits    *)
(* divide.  Inserts and deletes change S along one path only, so the        *)
(* invariant SlingerInv has such an S after each of them, and says what     *)
(* threads without the lock may have in hand: memory in the tree or cooling *)
(* off, or memory that the cleaner lets be until their search is over.      *)
(***************************************************************************)
EXTENDS Ban, HashSlinger, SequenceTheorems, FiniteSetTheorems, WellFoundedInduction, TLAPS

-----------------------------------------------------------------------------
(* The ban list.                                                           *)

Ordered == oldest <= newest

ObjInList == \A o \in Obj : ban[o] # None => oldest <= ban[o] /\ ban[o] <= newest

\* A walk is between the object's ban and b0, and its object is alive.
WalkOK == \A w \in Checker : walk[w] # None =>
    /\ ban[walk[w].oc] # None
    /\ ban[walk[w].oc] <= walk[w].b /\ walk[w].b <= walk[w].b0 /\ walk[w].b0 <= newest
    /\ st[walk[w].oc] \in {"cached", "off"}

\* Two walks never share an object: the objhead mutex.
WalkExclusive == \A w, v \in Checker :
    walk[w] # None /\ walk[v] # None /\ walk[w].oc = walk[v].oc => w = v

HuntOK == \A i \in Inserter : hunt[i] # None =>
    /\ oldest <= hunt[i].be /\ hunt[i].be <= hunt[i].bi
    /\ hunt[i].bi <= hunt[i].b /\ hunt[i].b <= newest

ListOK == tailref # None =>
    /\ oldest <= tailref.bl /\ tailref.bl <= tailref.b /\ tailref.b <= newest

\* An objcore that is not in use has no ban: BAN_NewObjCore asserts it.
FreeHasNoBan == \A o \in Obj : st[o] = "none" => ban[o] = None

Structure == FreeHasNoBan /\ Ordered /\ ObjInList /\ WalkOK /\ WalkExclusive /\ HuntOK /\ ListOK

BanInv == TypeOK /\ Structure /\ BanRefcnt

\* The references a ban has.
OnBan(b) == {o \in Obj : ban[o] = b}
HuntsTo(b) == {i \in Inserter : hunt[i] # None /\ hunt[i].be = b}
Listed(b) == IF tailref # None /\ tailref.bl = b THEN 1 ELSE 0

-----------------------------------------------------------------------------
\* Initially ban_magic is the whole list and nobody holds it.
LEMMA BanInit == Init => BanInv
<1> SUFFICES ASSUME Init PROVE BanInv
  OBVIOUS
<1> USE DEF Init
<1>1. TypeOK
  BY BanBound DEF TypeOK, BanId, States, Checker, Tests
<1>2. Structure
  BY BanBound DEF Structure, FreeHasNoBan, Ordered, ObjInList, WalkOK, WalkExclusive, HuntOK, ListOK, BanId
<1>3. BanRefcnt
  <2> SUFFICES ASSUME NEW b \in BanId
               PROVE refcount[b] = Cardinality({o \in Obj : ban[o] = b})
                       + Cardinality({i \in Inserter : hunt[i] # None /\ hunt[i].be = b})
                       + (IF tailref # None /\ tailref.bl = b THEN 1 ELSE 0)
    BY DEF BanRefcnt
  <2>1. {o \in Obj : ban[o] = b} = {}
    BY BanNull
  <2>2. {i \in Inserter : hunt[i] # None /\ hunt[i].be = b} = {}
    OBVIOUS
  <2>3. refcount[b] = 0 /\ tailref = None
    OBVIOUS
  <2> HIDE DEF Init
  <2> QED
    BY <2>1, <2>2, <2>3, FS_EmptySet
<1> QED
  BY <1>1, <1>2, <1>3 DEF BanInv

-----------------------------------------------------------------------------
(* Counting.                                                               *)

\* Two sets that differ at most in x.
LEMMA CardChange ==
    ASSUME NEW S, IsFiniteSet(S), NEW A \in SUBSET S, NEW B \in SUBSET S,
           NEW x \in S, \A z \in S : z # x => (z \in A <=> z \in B)
    PROVE  /\ Cardinality(A) \in Nat /\ Cardinality(B) \in Nat
           /\ Cardinality(B) = Cardinality(A) + (IF x \in B THEN 1 ELSE 0)
                                             - (IF x \in A THEN 1 ELSE 0)
<1>1. IsFiniteSet(A) /\ IsFiniteSet(B)
  BY FS_Subset
<1>2. Cardinality(A) \in Nat /\ Cardinality(B) \in Nat
  BY <1>1, FS_CardinalityType
<1>3. CASE x \in A /\ x \in B
  <2>1. A = B
    BY <1>3
  <2> QED
    BY <2>1, <1>2, <1>3
<1>4. CASE x \notin A /\ x \notin B
  <2>1. A = B
    BY <1>4
  <2> QED
    BY <2>1, <1>2, <1>4
<1>5. CASE x \in A /\ x \notin B
  <2>1. B = A \ {x}
    BY <1>5
  <2>2. Cardinality(B) = Cardinality(A) - 1
    BY <2>1, <1>1, <1>5, FS_RemoveElement
  <2> QED
    BY <2>2, <1>2, <1>5
<1>6. CASE x \notin A /\ x \in B
  <2>1. B = A \cup {x}
    BY <1>6
  <2>2. Cardinality(B) = Cardinality(A) + 1
    BY <2>1, <1>1, <1>6, FS_AddElement
  <2> QED
    BY <2>2, <1>2, <1>6
<1> QED
  BY <1>3, <1>4, <1>5, <1>6

\* An object changes its ban.
LEMMA BanMoves ==
    ASSUME TypeOK, NEW x \in Obj, NEW v \in BanId \cup {None},
           ban' = [ban EXCEPT ![x] = v], NEW b \in BanId
    PROVE  /\ Cardinality(OnBan(b)) \in Nat /\ Cardinality(OnBan(b)') \in Nat
           /\ Cardinality(OnBan(b)') = Cardinality(OnBan(b)) + (IF v = b THEN 1 ELSE 0)
                                                           - (IF ban[x] = b THEN 1 ELSE 0)
<1>1. \A z \in Obj : ban'[z] = IF z = x THEN v ELSE ban[z]
  BY DEF TypeOK
<1>2. OnBan(b) \in SUBSET Obj /\ OnBan(b)' \in SUBSET Obj
  BY DEF OnBan
<1>3. \A z \in Obj : z # x => (z \in OnBan(b) <=> z \in OnBan(b)')
  BY <1>1 DEF OnBan
<1>4. (x \in OnBan(b)' <=> v = b) /\ (x \in OnBan(b) <=> ban[x] = b)
  BY <1>1 DEF OnBan
<1>5. IsFiniteSet(Obj)
  BY BanActors
<1> HIDE DEF OnBan
<1> QED
  BY <1>2, <1>3, <1>4, <1>5, CardChange

\* A hunt starts (v is a hunt) or ends (v is None).
LEMMA HuntMoves ==
    ASSUME TypeOK, NEW i \in Inserter, NEW v \in Hunt \cup {None},
           hunt' = [hunt EXCEPT ![i] = v], NEW b \in BanId
    PROVE  /\ Cardinality(HuntsTo(b)) \in Nat /\ Cardinality(HuntsTo(b)') \in Nat
           /\ Cardinality(HuntsTo(b)') = Cardinality(HuntsTo(b))
                 + (IF v # None /\ v.be = b THEN 1 ELSE 0)
                 - (IF hunt[i] # None /\ hunt[i].be = b THEN 1 ELSE 0)
<1>1. \A z \in Inserter : hunt'[z] = IF z = i THEN v ELSE hunt[z]
  BY DEF TypeOK
<1>2. HuntsTo(b) \in SUBSET Inserter /\ HuntsTo(b)' \in SUBSET Inserter
  BY DEF HuntsTo
<1>3. \A z \in Inserter : z # i => (z \in HuntsTo(b) <=> z \in HuntsTo(b)')
  BY <1>1 DEF HuntsTo
<1>4. /\ i \in HuntsTo(b)' <=> v # None /\ v.be = b
      /\ i \in HuntsTo(b) <=> hunt[i] # None /\ hunt[i].be = b
  BY <1>1 DEF HuntsTo
<1>5. IsFiniteSet(Inserter)
  BY BanActors
<1> HIDE DEF HuntsTo
<1> QED
  BY <1>2, <1>3, <1>4, <1>5, CardChange

\* The counts are natural numbers.
LEMMA CountTypes ==
    ASSUME NEW b PROVE Cardinality(OnBan(b)) \in Nat /\ Cardinality(HuntsTo(b)) \in Nat
BY BanActors, FS_Subset, FS_CardinalityType DEF OnBan, HuntsTo

\* BanRefcnt in terms of the three sets of holders.
LEMMA Refcnt == BanRefcnt <=> \A b \in BanId :
                   refcount[b] = Cardinality(OnBan(b)) + Cardinality(HuntsTo(b)) + Listed(b)
BY DEF BanRefcnt, OnBan, HuntsTo, Listed

\* A ban nobody counts on has no holder.
LEMMA ZeroFree ==
    ASSUME NEW A \in SUBSET Obj, NEW B \in SUBSET Inserter, NEW n \in Nat,
           Cardinality(A) + Cardinality(B) + n = 0
    PROVE  A = {} /\ B = {} /\ n = 0
<1>1. IsFiniteSet(A) /\ IsFiniteSet(B)
  BY BanActors, FS_Subset
<1>2. Cardinality(A) \in Nat /\ Cardinality(B) \in Nat
  BY <1>1, FS_CardinalityType
<1>3. Cardinality(A) = 0 /\ Cardinality(B) = 0 /\ n = 0
  BY <1>2
<1> QED
  BY <1>1, <1>3, FS_EmptySet

-----------------------------------------------------------------------------
(* One lemma per group of actions.                                         *)

\* Steps that leave the references of every ban alone.
LEMMA RefcntUnchanged ==
    ASSUME BanRefcnt, UNCHANGED <<refcount, ban>>,
           \A b \in BanId : HuntsTo(b)' = HuntsTo(b) /\ Listed(b)' = Listed(b)
    PROVE  BanRefcnt'
<1>1. \A b \in BanId : OnBan(b)' = OnBan(b)
  BY DEF OnBan
<1>2. \A b \in BanId :
        refcount[b] = Cardinality(OnBan(b)) + Cardinality(HuntsTo(b)) + Listed(b)
  BY Refcnt
<1>3. \A b \in BanId :
        refcount'[b] = Cardinality(OnBan(b)') + Cardinality(HuntsTo(b)') + Listed(b)'
  BY <1>1, <1>2
<1> QED
  BY <1>3 DEF BanRefcnt, OnBan, HuntsTo, Listed

\* A step changes the references of b by as much as the count.
LEMMA RefcntStep ==
    ASSUME \A b \in BanId :
             refcount'[b] = Cardinality(OnBan(b)') + Cardinality(HuntsTo(b)') + Listed(b)'
    PROVE  BanRefcnt'
BY DEF BanRefcnt, OnBan, HuntsTo, Listed

\* BAN_Insert puts the new ban in front of the list.
LEMMA InsertKeeps ==
    ASSUME BanInv, NEW i \in Inserter, NEW s \in Tests, BAN_Insert(i, s)
    PROVE  BanInv'
<1> USE DEF BanInv
<1>1. TypeOK'
  <2>1. newest + 1 \in BanId
    BY BanBound DEF TypeOK, BAN_Insert, BanId
  <2>2. spec' \in [BanId -> Tests \cup {None}] /\ newest' \in BanId
    BY <2>1 DEF TypeOK, BAN_Insert
  <2>3. hunt' \in [Inserter -> Hunt \cup {None}]
    BY <2>1 DEF TypeOK, BAN_Insert, Hunt
  <2>4. refcount' \in [BanId -> Int]
    BY DEF TypeOK, BAN_Insert, TailHold
  <2> QED
    BY <2>2, <2>3, <2>4 DEF TypeOK, BAN_Insert, objvars
<1>2. Structure'
  <2> USE DEF Structure, BAN_Insert, objvars, TypeOK, BanId
  <2>1. Ordered' /\ ObjInList'
    BY BanNull DEF Ordered, ObjInList
  <2>0. FreeHasNoBan'
    BY DEF FreeHasNoBan
  <2>2. WalkOK' /\ WalkExclusive'
    BY DEF WalkOK, WalkExclusive, Walk
  <2>3. HuntOK'
    <3>1. ASSUME NEW j \in Inserter, hunt'[j] # None, hunt'[j] = hunt[j]
          PROVE /\ oldest <= hunt[j].be /\ hunt[j].be <= hunt[j].bi
                /\ hunt[j].bi <= hunt[j].b /\ hunt[j].b <= newest + 1
      <4>1. hunt[j] \in Hunt
        BY <3>1
      <4> QED
        BY <3>1, <4>1 DEF HuntOK, Hunt
    <3>2. ASSUME NEW j \in Inserter, hunt'[j] # hunt[j]
          PROVE hunt'[j] = [b |-> newest + 1, bi |-> newest + 1, be |-> oldest]
      BY <3>2
    <3>3. newest' = newest + 1 /\ oldest' = oldest /\ oldest <= newest + 1
      BY DEF Ordered
    <3> QED
      BY <3>1, <3>2, <3>3 DEF HuntOK
  <2>4. ListOK'
    BY DEF ListOK, Listing
  <2> QED
    BY <2>0, <2>1, <2>2, <2>3, <2>4
<1>3. BanRefcnt'
  <2>1. CASE ~BanDups
    <3>1. UNCHANGED <<refcount, ban, hunt, tailref>>
      BY <2>1 DEF BAN_Insert, objvars
    <3> QED
      BY <3>1, RefcntUnchanged DEF HuntsTo, Listed
  <2>2. CASE BanDups
    <3> DEFINE v == [b |-> newest + 1, bi |-> newest + 1, be |-> oldest]
    <3>1. v \in Hunt /\ v.be = oldest
      BY BanBound DEF TypeOK, BAN_Insert, BanId, Hunt
    <3>2. hunt' = [hunt EXCEPT ![i] = v] /\ hunt[i] = None
      BY <2>2 DEF BAN_Insert
    <3>3. UNCHANGED <<ban, tailref>> /\ refcount' = [refcount EXCEPT ![oldest] = @ + 1]
      BY <2>2 DEF BAN_Insert, objvars, TailHold
    <3>4. v # None
      BY <3>1, BanNull
    <3> HIDE DEF v
    <3>5. ASSUME NEW b \in BanId
          PROVE refcount'[b] = Cardinality(OnBan(b)') + Cardinality(HuntsTo(b)') + Listed(b)'
      <4>1. OnBan(b)' = OnBan(b) /\ Listed(b)' = Listed(b)
        BY <3>3 DEF OnBan, Listed
      <4>2. Cardinality(HuntsTo(b)') = Cardinality(HuntsTo(b)) + (IF oldest = b THEN 1 ELSE 0)
        <5>1. Cardinality(HuntsTo(b)') = Cardinality(HuntsTo(b))
                + (IF v # None /\ v.be = b THEN 1 ELSE 0)
                - (IF hunt[i] # None /\ hunt[i].be = b THEN 1 ELSE 0)
          BY <3>1, <3>2, HuntMoves
        <5> QED
          BY <5>1, <3>1, <3>2, <3>4, CountTypes
      <4>3. refcount'[b] = refcount[b] + (IF oldest = b THEN 1 ELSE 0)
        BY <3>3 DEF TypeOK
      <4>4. refcount[b] = Cardinality(OnBan(b)) + Cardinality(HuntsTo(b)) + Listed(b)
        BY Refcnt
      <4>5. Listed(b) \in Int
        BY DEF Listed
      <4> QED
        BY <4>1, <4>2, <4>3, <4>4, <4>5, CountTypes
    <3> QED
      BY <3>5, RefcntStep
  <2> QED
    BY <2>1, <2>2
<1> QED
  BY <1>1, <1>2, <1>3

\* The hunt for duplicates marks one older ban, or does not.
LEMMA HuntStepKeeps ==
    ASSUME BanInv, NEW i \in Inserter, HuntStep(i)
    PROVE  BanInv'
<1> USE DEF BanInv
<1>1. /\ hunt[i] \in Hunt /\ hunt[i] # None
      /\ hunt[i].be <= hunt[i].bi /\ hunt[i].bi # hunt[i].be
      /\ oldest <= hunt[i].be /\ hunt[i].bi <= hunt[i].b /\ hunt[i].b <= newest
  BY DEF HuntStep, Structure, HuntOK, TypeOK
<1> DEFINE v == [hunt[i] EXCEPT !.bi = @ - 1]
<1>2. hunt' = [hunt EXCEPT ![i] = v]
  BY DEF HuntStep
<1>3. /\ v \in Hunt /\ v.be = hunt[i].be /\ v.b = hunt[i].b /\ v.bi = hunt[i].bi - 1
      /\ hunt[i].bi - 1 \in BanId
  BY <1>1, BanBound DEF Hunt, BanId
<1>4. UNCHANGED <<newest, oldest, spec, refcount, objvars, walk, holds, tailref>>
  BY DEF HuntStep
<1>5. gone' \subseteq BanId
  BY <1>3 DEF HuntStep, Duplicate, TypeOK
<1> HIDE DEF v
<1>6. v # None
  BY <1>3, BanNull
<1>7. TypeOK'
  BY <1>2, <1>3, <1>4, <1>5 DEF TypeOK, objvars
<1>8. Structure'
  <2>1. HuntOK'
    BY <1>1, <1>2, <1>3, <1>4 DEF HuntOK, Structure, TypeOK, BanId, Hunt
  <2> QED
    BY <2>1, <1>4 DEF Structure, FreeHasNoBan, Ordered, ObjInList, WalkOK, WalkExclusive, ListOK, objvars
<1>9. BanRefcnt'
  <2>1. \A b \in BanId : HuntsTo(b)' = HuntsTo(b)
    BY <1>1, <1>2, <1>3, <1>6 DEF HuntsTo, TypeOK
  <2> QED
    BY <2>1, <1>4, RefcntUnchanged DEF objvars, Listed
<1> QED
  BY <1>7, <1>8, <1>9

\* The hunt reached the tail and gives back its reference to it.
LEMMA HuntDoneKeeps ==
    ASSUME BanInv, NEW i \in Inserter, HuntDone(i)
    PROVE  BanInv'
<1> USE DEF BanInv
<1>1. hunt[i] \in Hunt /\ hunt[i] # None
  BY DEF HuntDone, TypeOK
<1>2. hunt' = [hunt EXCEPT ![i] = None] /\ refcount' = [refcount EXCEPT ![hunt[i].be] = @ - 1]
  BY DEF HuntDone
<1>3. UNCHANGED <<newest, oldest, spec, gone, objvars, walk, holds, tailref>>
  BY DEF HuntDone
<1>4. hunt[i].be \in BanId
  BY <1>1 DEF Hunt
<1>5. TypeOK'
  BY <1>2, <1>3, <1>4 DEF TypeOK, objvars
<1>6. Structure'
  BY <1>2, <1>3 DEF Structure, FreeHasNoBan, Ordered, ObjInList, WalkOK, WalkExclusive, HuntOK, ListOK,
                    objvars, TypeOK
<1>7. ASSUME NEW b \in BanId
      PROVE refcount'[b] = Cardinality(OnBan(b)') + Cardinality(HuntsTo(b)') + Listed(b)'
  <2>1. OnBan(b)' = OnBan(b) /\ Listed(b)' = Listed(b)
    BY <1>3 DEF OnBan, Listed, objvars
  <2>2. Cardinality(HuntsTo(b)') = Cardinality(HuntsTo(b)) - (IF hunt[i].be = b THEN 1 ELSE 0)
    <3>1. Cardinality(HuntsTo(b)') = Cardinality(HuntsTo(b))
            + (IF None # None /\ None.be = b THEN 1 ELSE 0)
            - (IF hunt[i] # None /\ hunt[i].be = b THEN 1 ELSE 0)
      BY <1>2, HuntMoves
    <3> QED
      BY <3>1, <1>1, CountTypes
  <2>3. refcount'[b] = refcount[b] - (IF hunt[i].be = b THEN 1 ELSE 0)
    BY <1>2, <1>4 DEF TypeOK
  <2>4. refcount[b] = Cardinality(OnBan(b)) + Cardinality(HuntsTo(b)) + Listed(b)
    BY Refcnt
  <2>5. Listed(b) \in Int
    BY DEF Listed
  <2> QED
    BY <2>1, <2>2, <2>3, <2>4, <2>5, CountTypes
<1> QED
  BY <1>5, <1>6, <1>7, RefcntStep

\* ban_CheckLast may retire the tail when no reference is left.
LEMMA RetireKeeps ==
    ASSUME TypeOK, ObjInList, HuntOK, ListOK, Ordered,
           \A o \in Obj : ban'[o] \in {ban[o], None},
           UNCHANGED <<newest, hunt, tailref>>,
           NEW rc, BanRefcnt', refcount' = rc, oldest' = ban_CheckLast(rc)
    PROVE  oldest' \in BanId /\ ObjInList' /\ HuntOK' /\ ListOK' /\ Ordered'
<1>1. CASE oldest' = oldest
  BY <1>1 DEF TypeOK, ObjInList, HuntOK, ListOK, Ordered
<1>2. CASE oldest' # oldest
  <2>1. oldest # newest /\ rc[oldest] = 0 /\ oldest' = oldest + 1
    BY <1>2 DEF ban_CheckLast
  <2>2. refcount'[oldest] = 0 /\ oldest \in BanId /\ newest \in BanId
    BY <2>1 DEF TypeOK
  <2> DEFINE A == {o \in Obj : ban'[o] = oldest}
             B == {i \in Inserter : hunt'[i] # None /\ hunt'[i].be = oldest}
             n == IF tailref' # None /\ tailref'.bl = oldest THEN 1 ELSE 0
  <2>3. Cardinality(A) + Cardinality(B) + n = 0
    BY <2>2 DEF BanRefcnt
  <2>4. /\ \A o \in Obj : ban'[o] # oldest
        /\ \A i \in Inserter : hunt'[i] # None => hunt'[i].be # oldest
        /\ tailref' # None => tailref'.bl # oldest
    <3>1. A \in SUBSET Obj /\ B \in SUBSET Inserter /\ n \in Nat
      OBVIOUS
    <3>2. A = {} /\ B = {} /\ n = 0
      <4> HIDE DEF A, B, n
      <4> QED
        BY <2>3, <3>1, ZeroFree
    <3> QED
      BY <3>2
  <2>5. oldest' \in BanId /\ Ordered'
    <3>1. newest' = newest
      OBVIOUS
    <3> QED
      BY <2>1, <2>2, <3>1, BanBound DEF Ordered, BanId
  <2>6. ObjInList'
    BY <2>1, <2>2, <2>4 DEF ObjInList, TypeOK, BanId
  <2>7. HuntOK'
    <3> SUFFICES ASSUME NEW i \in Inserter, hunt[i] # None
                 PROVE oldest + 1 <= hunt[i].be
      BY <2>1 DEF HuntOK
    <3>1. hunt[i] \in Hunt
      BY DEF TypeOK
    <3> QED
      BY <3>1, <2>2, <2>4 DEF HuntOK, Hunt, BanId
  <2>8. ListOK'
    BY <2>1, <2>2, <2>4 DEF ListOK, TypeOK, Listing, BanId
  <2> QED
    BY <2>5, <2>6, <2>7, <2>8
<1> QED
  BY <1>1, <1>2

\* An object that is not walked, in the sense of the mutex.
LEMMA NotWalked ==
    ASSUME WalkOK, NEW o \in Obj, st[o] \notin {"cached", "off"} \/ ~Locked(o),
           NEW w \in Checker, walk[w] # None
    PROVE  walk[w].oc # o
BY DEF WalkOK, Locked

\* BAN_NewObjCore hangs a new objcore on the newest ban.
LEMMA NewObjCoreKeeps ==
    ASSUME BanInv, NEW o \in Obj, NEW t \in SUBSET ObjSpec, BAN_NewObjCore(o, t)
    PROVE  BanInv'
<1> USE DEF BanInv
<1>1. /\ st[o] = "none" /\ ban[o] = None /\ ban' = [ban EXCEPT ![o] = newest]
      /\ refcount' = [refcount EXCEPT ![newest] = @ + 1]
      /\ st' = [st EXCEPT ![o] = "busy"]
      /\ UNCHANGED <<newest, oldest, spec, gone, walk, holds, hunt, tailref>>
  BY DEF BAN_NewObjCore, Structure, FreeHasNoBan
<1>2. newest \in BanId /\ newest # None
  BY BanNull DEF TypeOK
<1>3. TypeOK'
  BY DEF TypeOK, BAN_NewObjCore, States
<1>4. Structure'
  <2> USE DEF Structure
  <2>1. FreeHasNoBan' /\ Ordered' /\ HuntOK' /\ ListOK' /\ WalkExclusive'
    BY <1>1 DEF FreeHasNoBan, Ordered, HuntOK, ListOK, WalkExclusive, TypeOK
  <2>2. ObjInList'
    <3>1. \A p \in Obj : ban'[p] = IF p = o THEN newest ELSE ban[p]
      BY <1>1 DEF TypeOK
    <3> QED
      BY <1>1, <1>2, <3>1 DEF ObjInList, Ordered, BanId
  <2>3. WalkOK'
    <3>1. \A p \in Obj : p # o => ban'[p] = ban[p] /\ st'[p] = st[p]
      BY <1>1 DEF TypeOK
    <3>2. ASSUME NEW w \in Checker, walk[w] # None
          PROVE walk[w].oc \in Obj /\ walk[w].oc # o
      BY <1>1, <3>2, NotWalked DEF TypeOK, Walk
    <3> QED
      BY <1>1, <3>1, <3>2 DEF WalkOK
  <2> QED
    BY <2>1, <2>2, <2>3
<1>5. ASSUME NEW b \in BanId
      PROVE refcount'[b] = Cardinality(OnBan(b)') + Cardinality(HuntsTo(b)') + Listed(b)'
  <2>1. HuntsTo(b)' = HuntsTo(b) /\ Listed(b)' = Listed(b) /\ Listed(b) \in Int
    BY <1>1 DEF HuntsTo, Listed
  <2>2. Cardinality(OnBan(b)') = Cardinality(OnBan(b)) + (IF newest = b THEN 1 ELSE 0)
                                   - (IF ban[o] = b THEN 1 ELSE 0)
    BY <1>1, <1>2, BanMoves
  <2>3. ban[o] # b
    BY <1>1, BanNull
  <2>4. refcount'[b] = refcount[b] + (IF newest = b THEN 1 ELSE 0)
    BY <1>1, <1>2 DEF TypeOK
  <2>5. refcount[b] = Cardinality(OnBan(b)) + Cardinality(HuntsTo(b)) + Listed(b)
    BY Refcnt
  <2> QED
    BY <2>1, <2>2, <2>3, <2>4, <2>5, CountTypes
<1> QED
  BY <1>3, <1>4, <1>5, RefcntStep

\* A fetch ends, or an object is evicted: no ban changes.
LEMMA ObjectKeeps ==
    ASSUME BanInv, NEW o \in Obj,
           (\E live \in BOOLEAN : HSH_Unbusy(o, live)) \/ Evict(o)
    PROVE  BanInv'
<1> USE DEF BanInv
<1>1. UNCHANGED <<banvars, ban, walk, holds, hunt, tailref>>
  BY DEF HSH_Unbusy, Evict
<1>2. TypeOK'
  BY <1>1 DEF TypeOK, HSH_Unbusy, Evict, Deref, banvars, States
<1>3. /\ st' \in [Obj -> States] /\ st \in [Obj -> States]
      /\ \A p \in Obj : p # o => st'[p] = st[p]
      /\ st'[o] # "none"
      /\ st[o] \notin {"cached", "off"} \/ ~Locked(o)
  BY <1>2 DEF TypeOK, HSH_Unbusy, Evict, Deref
<1>4. WalkOK'
  BY <1>1, <1>3, NotWalked DEF Structure, WalkOK, TypeOK, Walk, banvars
<1>5. Structure'
  BY <1>1, <1>3, <1>4 DEF Structure, FreeHasNoBan, Ordered, ObjInList, WalkExclusive,
                          HuntOK, ListOK, banvars
<1>6. BanRefcnt'
  BY <1>1, RefcntUnchanged DEF HuntsTo, Listed, banvars
<1> QED
  BY <1>2, <1>5, <1>6

\* HSH_Deref gives back a reference to an objcore, not to a ban.
LEMMA DerefKeeps ==
    ASSUME BanInv, NEW w \in Checker, HSH_Deref(w)
    PROVE  BanInv'
<1> USE DEF BanInv
<1> DEFINE o == holds[w]
<1>1. UNCHANGED <<banvars, ban, birth, tags, ttl, walk, hunt, tailref>> /\ o \in Obj
  BY DEF HSH_Deref, TypeOK
<1>2. TypeOK'
  BY <1>1 DEF TypeOK, HSH_Deref, Deref, banvars, States
<1>3. /\ st' \in [Obj -> States] /\ st \in [Obj -> States]
      /\ \A p \in Obj : p # o => st'[p] = st[p]
      /\ st'[o] = "none" => st[o] = "none"
      /\ ~Locked(o)
  BY <1>1, <1>2 DEF TypeOK, HSH_Deref, Deref
<1> HIDE DEF o
<1>4. WalkOK'
  BY <1>1, <1>3, NotWalked DEF Structure, WalkOK, TypeOK, Walk, banvars
<1>5. Structure'
  BY <1>1, <1>3, <1>4 DEF Structure, FreeHasNoBan, Ordered, ObjInList, WalkExclusive,
                          HuntOK, ListOK, banvars
<1>6. BanRefcnt'
  BY <1>1, RefcntUnchanged DEF HuntsTo, Listed, banvars
<1> QED
  BY <1>2, <1>5, <1>6

\* BAN_DestroyObj takes the objcore from its ban.
LEMMA DestroyKeeps ==
    ASSUME BanInv, NEW o \in Obj, BAN_DestroyObj(o)
    PROVE  BanInv'
<1> USE DEF BanInv
<1>1. /\ st[o] = "dead" /\ st' = [st EXCEPT ![o] = "none"]
      /\ ban' = [ban EXCEPT ![o] = None] /\ ttl' = [ttl EXCEPT ![o] = FALSE]
      /\ UNCHANGED <<newest, spec, gone, birth, tags, ocref, walk, holds, hunt, tailref>>
  <2>1. ban[o] = None => ban = [ban EXCEPT ![o] = None]
    BY DEF TypeOK
  <2> QED
    BY <2>1 DEF BAN_DestroyObj
<1>2. refcount' \in [BanId -> Int]
  BY DEF BAN_DestroyObj, DropBanRef, TypeOK
<1>3. BanRefcnt'
  <2>1. ASSUME NEW b \in BanId
        PROVE refcount'[b] = Cardinality(OnBan(b)') + Cardinality(HuntsTo(b)') + Listed(b)'
    <3>1. HuntsTo(b)' = HuntsTo(b) /\ Listed(b)' = Listed(b) /\ Listed(b) \in Int
      BY <1>1 DEF HuntsTo, Listed
    <3>2. Cardinality(OnBan(b)') = Cardinality(OnBan(b)) + (IF None = b THEN 1 ELSE 0)
                                     - (IF ban[o] = b THEN 1 ELSE 0)
      BY <1>1, BanMoves
    <3>3. None # b
      BY BanNull
    <3>4. refcount'[b] = refcount[b] - (IF ban[o] = b THEN 1 ELSE 0)
      BY <3>3 DEF BAN_DestroyObj, DropBanRef, TypeOK
    <3>5. refcount[b] = Cardinality(OnBan(b)) + Cardinality(HuntsTo(b)) + Listed(b)
      BY Refcnt
    <3> QED
      BY <3>1, <3>2, <3>3, <3>4, <3>5, CountTypes
  <2> QED
    BY <2>1, RefcntStep
<1>4. oldest' \in BanId /\ ObjInList' /\ HuntOK' /\ ListOK' /\ Ordered'
  <2>1. CASE ban[o] = None
    BY <2>1, <1>1 DEF BAN_DestroyObj, Structure, ObjInList, HuntOK, ListOK, Ordered, TypeOK
  <2>2. CASE ban[o] # None
    <3>1. refcount' = DropBanRef(o) /\ oldest' = ban_CheckLast(DropBanRef(o))
      BY <2>2 DEF BAN_DestroyObj
    <3>2. \A p \in Obj : ban'[p] \in {ban[p], None}
      BY <1>1 DEF TypeOK
    <3> QED
      BY <1>1, <1>3, <3>1, <3>2, RetireKeeps DEF Structure
  <2> QED
    BY <2>1, <2>2
<1>5. TypeOK'
  BY <1>1, <1>2, <1>4 DEF TypeOK, States
<1>6. Structure'
  <2>1. \A p \in Obj : p # o => ban'[p] = ban[p] /\ st'[p] = st[p]
    BY <1>1 DEF TypeOK
  <2>2. ASSUME NEW w \in Checker, walk[w] # None
        PROVE walk[w].oc \in Obj /\ walk[w].oc # o
    BY <1>1, <2>2, NotWalked DEF TypeOK, Walk, Structure
  <2>3. WalkOK' /\ WalkExclusive'
    BY <1>1, <2>1, <2>2 DEF Structure, WalkOK, WalkExclusive
  <2>4. FreeHasNoBan'
    BY <1>1, <2>1 DEF Structure, FreeHasNoBan, TypeOK
  <2> QED
    BY <1>4, <2>3, <2>4 DEF Structure
<1> QED
  BY <1>3, <1>5, <1>6

\* The lurker retires the tail of the list when nothing refers to it.
LEMMA LurkerRetireKeeps ==
    ASSUME BanInv, LurkerRetire
    PROVE  BanInv'
<1> USE DEF BanInv
<1>1. UNCHANGED <<newest, spec, gone, refcount, objvars, walk, holds, hunt, tailref>>
  BY DEF LurkerRetire
<1>2. BanRefcnt'
  BY <1>1, RefcntUnchanged DEF HuntsTo, Listed, objvars
<1>3. oldest' \in BanId /\ ObjInList' /\ HuntOK' /\ ListOK' /\ Ordered'
  <2>1. refcount' = refcount /\ oldest' = ban_CheckLast(refcount)
    BY DEF LurkerRetire
  <2>2. \A o \in Obj : ban'[o] \in {ban[o], None}
    BY <1>1 DEF objvars
  <2> QED
    BY <1>1, <1>2, <2>1, <2>2, RetireKeeps DEF Structure
<1>4. TypeOK'
  BY <1>1, <1>3 DEF TypeOK, objvars
<1>5. FreeHasNoBan' /\ WalkOK' /\ WalkExclusive'
  BY <1>1 DEF Structure, FreeHasNoBan, WalkOK, WalkExclusive, objvars
<1> QED
  BY <1>2, <1>3, <1>4, <1>5 DEF Structure

\* A walk that starts on an unlocked live object, at the newest ban.
LEMMA StartKeeps ==
    ASSUME BanInv, NEW w \in Checker, NEW o \in Obj, NEW r \in SUBSET ReqSpec,
           StartWalk(w, o, r), ~Locked(o), ban[o] # None, st[o] \in {"cached", "off"},
           UNCHANGED <<banvars, st, ban, hunt, tailref>>
    PROVE  walk' \in [Checker -> Walk \cup {None}] /\ Structure' /\ BanRefcnt'
<1> USE DEF BanInv
<1> DEFINE v == [oc |-> o, b0 |-> newest, b |-> newest,
                 skipped |-> FALSE, req |-> r, banned |-> FALSE]
<1>1. walk' = [walk EXCEPT ![w] = v]
  BY DEF StartWalk
<1>2. v \in Walk /\ v.oc = o /\ v.b = newest /\ v.b0 = newest
  BY DEF Walk, TypeOK
<1> HIDE DEF v
<1>3. walk' \in [Checker -> Walk \cup {None}]
  BY <1>1, <1>2 DEF TypeOK
<1>4. \A u \in Checker : walk'[u] = IF u = w THEN v ELSE walk[u]
  BY <1>1 DEF TypeOK
<1>5. \A u \in Checker : walk[u] # None => walk[u].oc # o
  BY NotWalked DEF Structure
<1>6. ban[o] <= newest /\ newest <= newest
  BY DEF Structure, ObjInList, TypeOK, BanId
<1>7. WalkOK'
  BY <1>2, <1>4, <1>6 DEF Structure, WalkOK, banvars
<1>8. WalkExclusive'
  BY <1>2, <1>4, <1>5 DEF Structure, WalkExclusive
<1>9. Structure'
  BY <1>7, <1>8 DEF Structure, FreeHasNoBan, Ordered, ObjInList, HuntOK, ListOK, banvars
<1>10. BanRefcnt'
  BY RefcntUnchanged DEF HuntsTo, Listed, banvars
<1> QED
  BY <1>3, <1>9, <1>10

\* BAN_CheckObject begins its walk at the newest ban.
LEMMA CheckObjectKeeps ==
    ASSUME BanInv, NEW w \in Worker, NEW o \in Obj, NEW r \in SUBSET ReqSpec,
           BAN_CheckObject(w, o, r)
    PROVE  BanInv'
<1> USE DEF BanInv
<1>1. UNCHANGED <<banvars, st, ban, birth, tags, ttl, hunt, tailref>> /\ w \in Checker
  BY DEF BAN_CheckObject, Checker
<1>2. holds' \in [Checker -> Obj \cup {None}] /\ ocref' \in [Obj -> Int]
  BY DEF BAN_CheckObject, TypeOK
<1>3. CASE walk' = walk
  <2>1. Structure'
    BY <1>1, <1>3 DEF Structure, FreeHasNoBan, Ordered, ObjInList, WalkOK, WalkExclusive,
                      HuntOK, ListOK, banvars
  <2>2. BanRefcnt'
    BY <1>1, RefcntUnchanged DEF HuntsTo, Listed, banvars
  <2> QED
    BY <1>1, <1>2, <1>3, <2>1, <2>2 DEF TypeOK, banvars
<1>4. CASE StartWalk(w, o, r)
  <2>1. walk' \in [Checker -> Walk \cup {None}] /\ Structure' /\ BanRefcnt'
    BY <1>1, <1>4, StartKeeps DEF BAN_CheckObject, Examinable
  <2> QED
    BY <1>1, <1>2, <2>1 DEF TypeOK, banvars
<1> QED
  BY <1>3, <1>4 DEF BAN_CheckObject

\* The lurker begins its walk with an objcore of the tail.
LEMMA LurkerPickKeeps ==
    ASSUME BanInv, NEW o \in Obj, LurkerPick(o)
    PROVE  BanInv'
<1> USE DEF BanInv
<1>1. UNCHANGED <<banvars, st, ban, birth, tags, ttl, hunt, tailref>> /\ Lurker \in Checker
  BY DEF LurkerPick, Checker
<1>2. holds' \in [Checker -> Obj \cup {None}] /\ ocref' \in [Obj -> Int]
  BY <1>1 DEF LurkerPick, TypeOK
<1>3. ~Locked(o) /\ st[o] \in {"cached", "off"} /\ StartWalk(Lurker, o, {})
  BY DEF LurkerPick, LurkerFinds
<1>4. ban[o] # None
  BY BanNull DEF LurkerPick, LurkerFinds, TypeOK
<1>5. walk' \in [Checker -> Walk \cup {None}] /\ Structure' /\ BanRefcnt'
  <2>1. {} \in SUBSET ReqSpec
    OBVIOUS
  <2> QED
    BY <1>1, <1>3, <1>4, <2>1, StartKeeps
<1> QED
  BY <1>1, <1>2, <1>5 DEF TypeOK, banvars

\* A walk tests the object against one ban.
LEMMA WalkStepKeeps ==
    ASSUME BanInv, NEW w \in Checker, WalkStep(w)
    PROVE  BanInv'
<1> USE DEF BanInv
<1>1. UNCHANGED <<banvars, objvars, holds, hunt, tailref>>
  BY DEF WalkStep
<1>0. walk[w] # None /\ walk[w] \in Walk
  BY DEF WalkStep, TypeOK
<1> DEFINE b == walk[w].b
           match == b \notin gone /\ ~Skips(w, b) /\ ban_evaluate(w, b)
           n == IF match THEN b ELSE b - 1
           k == walk[w].skipped \/ (b \notin gone /\ Skips(w, b))
           v == [walk[w] EXCEPT !.b = n, !.banned = match, !.skipped = k]
<1>2. /\ walk' = [walk EXCEPT ![w] = v] /\ n \in {walk[w].b, walk[w].b - 1}
      /\ match \in BOOLEAN /\ k \in BOOLEAN
  <2>1. walk' = [walk EXCEPT ![w] = v]
    BY DEF WalkStep
  <2>2. n \in {b, b - 1} /\ match \in BOOLEAN
    OBVIOUS
  <2>4. walk[w].skipped \in BOOLEAN
    BY <1>0 DEF Walk
  <2>5. k \in BOOLEAN
    BY <2>4
  <2> QED
    BY <2>1, <2>2, <2>5
<1> HIDE DEF match, n, k
<1>3. /\ walk[w] \in Walk /\ walk[w] # None /\ walk[w].b # ban[walk[w].oc]
      /\ ban[walk[w].oc] \in BanId /\ ban[walk[w].oc] <= walk[w].b
      /\ walk[w].b <= walk[w].b0
  BY DEF WalkStep, Unfinished, TypeOK, Structure, WalkOK, Walk
<1>4. v.b \in {walk[w].b, walk[w].b - 1} /\ v.oc = walk[w].oc /\ v.b0 = walk[w].b0 /\ v.b = n
  BY <1>2, <1>3 DEF Walk
<1>5. v.b \in BanId /\ ban[walk[w].oc] <= v.b /\ v.b <= v.b0
  <2>1. walk[w].b \in BanId /\ walk[w].b0 \in BanId
    BY <1>3 DEF Walk
  <2> HIDE DEF v
  <2> QED
    BY <2>1, <1>3, <1>4, BanBound DEF BanId
<1>6. v \in Walk
  BY <1>2, <1>3, <1>4, <1>5 DEF Walk
<1> HIDE DEF v
<1>7. \A u \in Checker : walk'[u] = IF u = w THEN v ELSE walk[u]
  BY <1>2 DEF TypeOK
<1>8. TypeOK'
  BY <1>1, <1>2, <1>6 DEF TypeOK, banvars, objvars
<1>9. WalkOK' /\ WalkExclusive'
  BY <1>1, <1>3, <1>4, <1>5, <1>7 DEF Structure, WalkOK, WalkExclusive, banvars, objvars
<1>10. Structure'
  BY <1>1, <1>9 DEF Structure, FreeHasNoBan, Ordered, ObjInList, HuntOK, ListOK, banvars, objvars
<1>11. BanRefcnt'
  BY <1>1, RefcntUnchanged DEF HuntsTo, Listed, banvars, objvars
<1> QED
  BY <1>8, <1>10, <1>11

\* A walk that skipped tests leaves the object on its ban.
LEMMA WalkGiveUpKeeps ==
    ASSUME BanInv, NEW w \in Checker, WalkGiveUp(w)
    PROVE  BanInv'
<1> USE DEF BanInv
<1>1. UNCHANGED <<banvars, objvars, holds, hunt, tailref>> /\ walk' = [walk EXCEPT ![w] = None]
  BY DEF WalkGiveUp
<1>2. \A u \in Checker : walk'[u] = IF u = w THEN None ELSE walk[u]
  BY <1>1 DEF TypeOK
<1>3. TypeOK'
  BY <1>1 DEF TypeOK, banvars, objvars
<1>4. Structure'
  BY <1>1, <1>2 DEF Structure, WalkOK, WalkExclusive, FreeHasNoBan, Ordered, ObjInList,
                    HuntOK, ListOK, banvars, objvars
<1>5. BanRefcnt'
  BY <1>1, RefcntUnchanged DEF HuntsTo, Listed, banvars, objvars
<1> QED
  BY <1>3, <1>4, <1>5

\* The end of a walk: the object moves from its ban to v, a newer ban or none.
LEMMA WalkEndKeeps ==
    ASSUME BanInv, NEW w \in Checker, walk[w] # None, walk' = [walk EXCEPT ![w] = None],
           NEW v \in BanId \cup {None}, v # None => oldest <= v /\ v <= newest,
           ban' = [ban EXCEPT ![walk[w].oc] = v],
           \A b \in BanId : refcount'[b] = refcount[b] + (IF v = b THEN 1 ELSE 0)
                                             - (IF ban[walk[w].oc] = b THEN 1 ELSE 0),
           UNCHANGED <<newest, oldest, spec, gone, st, birth, tags, hunt, tailref>>
    PROVE  /\ ban' \in [Obj -> BanId \cup {None}] /\ walk' \in [Checker -> Walk \cup {None}]
           /\ Structure' /\ BanRefcnt'
<1> USE DEF BanInv
<1> DEFINE o == walk[w].oc
<1>1. o \in Obj /\ st[o] \in {"cached", "off"}
  BY DEF TypeOK, Walk, Structure, WalkOK
<1>2. ban' = [ban EXCEPT ![o] = v]
  OBVIOUS
<1>3. \A u \in Checker : walk'[u] = IF u = w THEN None ELSE walk[u]
  BY DEF TypeOK
<1>4. \A u \in Checker : walk'[u] # None => walk[u].oc # o
  BY <1>3 DEF Structure, WalkExclusive
<1> HIDE DEF o
<1>5. \A p \in Obj : ban'[p] = IF p = o THEN v ELSE ban[p]
  BY <1>2 DEF TypeOK
<1>6. ban' \in [Obj -> BanId \cup {None}] /\ walk' \in [Checker -> Walk \cup {None}]
  BY <1>2, ZenonT(40) DEF TypeOK
<1>7. WalkOK' /\ WalkExclusive'
  <2>1. \A u \in Checker : walk[u] # None => walk[u].oc \in Obj
    BY DEF TypeOK, Walk
  <2> QED
    BY <1>3, <1>4, <1>5, <2>1 DEF Structure, WalkOK, WalkExclusive
<1>8. FreeHasNoBan' /\ ObjInList'
  BY <1>1, <1>5 DEF Structure, FreeHasNoBan, ObjInList
<1>9. Structure'
  BY <1>7, <1>8 DEF Structure, Ordered, HuntOK, ListOK
<1>10. ASSUME NEW b \in BanId
       PROVE refcount'[b] = Cardinality(OnBan(b)') + Cardinality(HuntsTo(b)') + Listed(b)'
  <2>1. HuntsTo(b)' = HuntsTo(b) /\ Listed(b)' = Listed(b) /\ Listed(b) \in Int
    BY DEF HuntsTo, Listed
  <2>2. Cardinality(OnBan(b)') = Cardinality(OnBan(b)) + (IF v = b THEN 1 ELSE 0)
                                   - (IF ban[o] = b THEN 1 ELSE 0)
    <3>1. TypeOK /\ v \in BanId \cup {None}
      OBVIOUS
    <3> QED
      BY ONLY <1>1, <1>2, <3>1, b \in BanId, BanMoves
  <2>3. refcount'[b] = refcount[b] + (IF v = b THEN 1 ELSE 0) - (IF ban[o] = b THEN 1 ELSE 0)
    BY DEF o
  <2>4. refcount[b] = Cardinality(OnBan(b)) + Cardinality(HuntsTo(b)) + Listed(b)
    BY Refcnt
  <2> QED
    BY <2>1, <2>2, <2>3, <2>4, CountTypes
<1> QED
  BY <1>6, <1>9, <1>10, RefcntStep

\* A walk that found no ban moves the objcore to the ban it began at.
LEMMA NotBannedKeeps ==
    ASSUME BanInv, NEW w \in Checker, NotBanned(w)
    PROVE  BanInv'
<1> USE DEF BanInv
<1> DEFINE o == walk[w].oc
           v == walk[w].b0
<1>1. /\ walk[w] \in Walk /\ walk[w] # None /\ o \in Obj /\ v \in BanId
      /\ ban[o] \in BanId /\ oldest <= ban[o] /\ ban[o] <= walk[w].b
      /\ walk[w].b <= v /\ v <= newest
  BY DEF NotBanned, TypeOK, Walk, Structure, WalkOK, ObjInList
<1>2. oldest <= v
  BY <1>1 DEF TypeOK, BanId, Walk
<1>3. /\ walk' = [walk EXCEPT ![w] = None] /\ ban' = [ban EXCEPT ![o] = v]
      /\ refcount' = [refcount EXCEPT ![ban[o]] = @ - 1, ![v] = @ + 1]
      /\ UNCHANGED <<newest, oldest, spec, gone, st, birth, tags, ttl, hunt, tailref>>
  BY DEF NotBanned, MoveTo
<1>4. holds' \in [Checker -> Obj \cup {None}] /\ ocref' \in [Obj -> Int]
  BY <1>1 DEF NotBanned, TypeOK
<1>5. /\ refcount' \in [BanId -> Int]
      /\ \A b \in BanId : refcount'[b] = refcount[b] + (IF v = b THEN 1 ELSE 0)
                                            - (IF ban[o] = b THEN 1 ELSE 0)
  BY <1>1, <1>3 DEF TypeOK
<1>6. /\ ban' \in [Obj -> BanId \cup {None}] /\ walk' \in [Checker -> Walk \cup {None}]
      /\ Structure' /\ BanRefcnt'
  BY <1>1, <1>2, <1>3, <1>5, WalkEndKeeps
<1> QED
  BY <1>3, <1>4, <1>5, <1>6 DEF TypeOK

\* A walk that found a ban takes the objcore from its ban.
LEMMA BannedKeeps ==
    ASSUME BanInv, NEW w \in Checker, Banned(w)
    PROVE  BanInv'
<1> USE DEF BanInv
<1> DEFINE o == walk[w].oc
<1>1. walk[w] # None /\ o \in Obj /\ ban[o] \in BanId
  BY DEF Banned, TypeOK, Walk, Structure, WalkOK
<1>2. /\ walk' = [walk EXCEPT ![w] = None] /\ ban' = [ban EXCEPT ![o] = None]
      /\ refcount' = [refcount EXCEPT ![ban[o]] = @ - 1]
      /\ UNCHANGED <<newest, oldest, spec, gone, st, birth, tags, ocref, holds, hunt, tailref>>
  BY DEF Banned, DropBanRef
<1>3. /\ refcount' \in [BanId -> Int]
      /\ \A b \in BanId : refcount'[b] = refcount[b] + (IF None = b THEN 1 ELSE 0)
                                            - (IF ban[o] = b THEN 1 ELSE 0)
  BY <1>1, <1>2, BanNull DEF TypeOK
<1>4. ttl' \in [Obj -> BOOLEAN]
  BY DEF Banned, TypeOK
<1>5. /\ ban' \in [Obj -> BanId \cup {None}] /\ walk' \in [Checker -> Walk \cup {None}]
      /\ Structure' /\ BanRefcnt'
  BY <1>1, <1>2, <1>3, WalkEndKeeps, ZenonT(40)
<1> QED
  BY <1>2, <1>3, <1>4, <1>5 DEF TypeOK

\* ban.list takes a reference to the tail, goes through the list and gives it back.
LEMMA ListKeeps ==
    ASSUME BanInv, ListNext
    PROVE  BanInv'
<1> USE DEF BanInv
<1>1. UNCHANGED <<newest, oldest, spec, gone, objvars, walk, holds, hunt>>
  BY DEF ListNext, BAN_TailRef, ListStep, BAN_TailDeref, banvars
<1>2. Structure' <=> ListOK'
  BY <1>1 DEF Structure, FreeHasNoBan, Ordered, ObjInList, WalkOK, WalkExclusive, HuntOK, objvars
<1>3. \A b \in BanId : OnBan(b)' = OnBan(b) /\ HuntsTo(b)' = HuntsTo(b)
  BY <1>1 DEF OnBan, HuntsTo, objvars
<1>4. \A b \in BanId :
        refcount[b] = Cardinality(OnBan(b)) + Cardinality(HuntsTo(b)) + Listed(b)
  BY Refcnt
<1>5. CASE BAN_TailRef
  <2> DEFINE v == [bl |-> oldest, b |-> newest]
  <2>1. v \in Listing /\ v.bl = oldest /\ v.b = newest
    BY DEF TypeOK, Listing
  <2>2. tailref = None /\ tailref' = v /\ refcount' = [refcount EXCEPT ![oldest] = @ + 1]
    BY <1>5 DEF BAN_TailRef, TailHold
  <2> HIDE DEF v
  <2>3. v # None
    BY <2>1, BanNull
  <2>4. TypeOK'
    BY <1>1, <2>1, <2>2 DEF TypeOK, objvars
  <2>5. ListOK'
    BY <1>1, <2>1, <2>2 DEF ListOK, Structure, Ordered, TypeOK, BanId
  <2>6. \A b \in BanId : Listed(b)' = (IF oldest = b THEN 1 ELSE 0) /\ Listed(b) = 0
    BY <2>1, <2>2, <2>3 DEF Listed
  <2>7. \A b \in BanId : refcount'[b] = refcount[b] + (IF oldest = b THEN 1 ELSE 0)
    BY <2>2 DEF TypeOK
  <2>8. \A b \in BanId :
          refcount'[b] = Cardinality(OnBan(b)') + Cardinality(HuntsTo(b)') + Listed(b)'
    BY <1>3, <1>4, <2>6, <2>7, CountTypes
  <2> QED
    BY <1>2, <2>4, <2>5, <2>8, RefcntStep
<1>6. CASE ListStep
  <2>1. tailref \in Listing /\ tailref # None /\ refcount' = refcount
        /\ tailref' = [tailref EXCEPT !.b = @ - 1] /\ tailref.b # tailref.bl
    BY <1>6 DEF ListStep, TypeOK, banvars
  <2>2. tailref.bl <= tailref.b /\ oldest <= tailref.bl /\ tailref.b <= newest
    BY <2>1 DEF Structure, ListOK
  <2>3. tailref'.bl = tailref.bl /\ tailref'.b = tailref.b - 1 /\ tailref.b - 1 \in BanId
    BY <2>1, <2>2, BanBound DEF Listing, BanId
  <2>4. tailref' \in Listing
    BY <2>1, <2>3 DEF Listing
  <2>5. tailref' # None
    BY <2>4, BanNull
  <2>6. TypeOK'
    BY <1>1, <2>1, <2>4 DEF TypeOK, objvars
  <2>7. ListOK'
    BY <1>1, <2>1, <2>2, <2>3 DEF ListOK, Listing, BanId, TypeOK
  <2>8. \A b \in BanId : Listed(b)' = Listed(b)
    BY <2>1, <2>3, <2>5 DEF Listed
  <2>9. UNCHANGED <<refcount, ban>>
    BY <1>1, <2>1 DEF objvars
  <2>10. BanRefcnt'
    BY <1>3, <2>8, <2>9, RefcntUnchanged
  <2> QED
    BY <1>2, <2>6, <2>7, <2>10
<1>7. CASE BAN_TailDeref
  <2>1. /\ tailref \in Listing /\ tailref # None /\ tailref' = None
        /\ refcount' = [refcount EXCEPT ![tailref.bl] = @ - 1]
    BY <1>7 DEF BAN_TailDeref, TypeOK
  <2>2. tailref.bl \in BanId
    BY <2>1 DEF Listing
  <2>3. TypeOK'
    BY <1>1, <2>1, <2>2 DEF TypeOK, objvars
  <2>4. ListOK'
    BY <2>1 DEF ListOK
  <2>5. \A b \in BanId : Listed(b)' = 0 /\ Listed(b) = (IF tailref.bl = b THEN 1 ELSE 0)
    BY <2>1 DEF Listed
  <2>6. \A b \in BanId : refcount'[b] = refcount[b] - (IF tailref.bl = b THEN 1 ELSE 0)
    BY <2>1, <2>2 DEF TypeOK
  <2>7. \A b \in BanId :
          refcount'[b] = Cardinality(OnBan(b)') + Cardinality(HuntsTo(b)') + Listed(b)'
    BY <1>3, <1>4, <2>5, <2>6, CountTypes
  <2> QED
    BY <1>2, <2>3, <2>4, <2>7, RefcntStep
<1> QED
  BY <1>5, <1>6, <1>7 DEF ListNext

\* VCL changes the TTL of an object: no ban changes.
LEMMA SetTtlKeeps ==
    ASSUME BanInv, NEW w \in Worker, SetObjTtl(w)
    PROVE  BanInv'
<1> USE DEF BanInv
<1>1. UNCHANGED <<banvars, st, ban, birth, tags, ocref, walk, holds, hunt, tailref>>
  BY DEF SetObjTtl
<1>2. TypeOK'
  BY <1>1 DEF TypeOK, SetObjTtl, banvars
<1>3. Structure'
  BY <1>1 DEF Structure, FreeHasNoBan, Ordered, ObjInList, WalkOK, WalkExclusive, HuntOK,
              ListOK, banvars
<1>4. BanRefcnt'
  BY <1>1, RefcntUnchanged DEF HuntsTo, Listed, banvars
<1> QED
  BY <1>2, <1>3, <1>4

\* No step of any thread breaks the invariant.
LEMMA BanNext == BanInv /\ [Next]_vars => BanInv'
<1> SUFFICES ASSUME BanInv, [Next]_vars PROVE BanInv'
  OBVIOUS
<1>1. ASSUME NEW i \in Inserter, NEW s \in Tests, BAN_Insert(i, s) PROVE BanInv'
  BY <1>1, InsertKeeps
<1>2. ASSUME NEW i \in Inserter, HuntNext(i) PROVE BanInv'
  BY <1>2, HuntStepKeeps, HuntDoneKeeps DEF HuntNext
<1>3. ASSUME NEW w \in Checker, WalkNext(w) PROVE BanInv'
  BY <1>3, WalkStepKeeps, WalkGiveUpKeeps, NotBannedKeeps, BannedKeeps DEF WalkNext
<1>4. ASSUME NEW w \in Checker, HSH_Deref(w) PROVE BanInv'
  BY <1>4, DerefKeeps
<1>5. ASSUME NEW w \in Worker, NEW o \in Obj, NEW r \in SUBSET ReqSpec,
             BAN_CheckObject(w, o, r) PROVE BanInv'
  BY <1>5, CheckObjectKeeps
<1>6. ASSUME NEW w \in Worker, SetObjTtl(w) PROVE BanInv'
  BY <1>6, SetTtlKeeps
<1>7. ASSUME NEW o \in Obj, ObjNext(o) PROVE BanInv'
  BY <1>7, NewObjCoreKeeps, ObjectKeeps, DestroyKeeps DEF ObjNext
<1>8. ASSUME LurkerNext PROVE BanInv'
  BY <1>8, LurkerRetireKeeps, LurkerPickKeeps DEF LurkerNext
<1>9. ASSUME ListNext PROVE BanInv'
  BY <1>9, ListKeeps
<1>10. CASE UNCHANGED vars
  <2>1. TypeOK'
    BY <1>10 DEF BanInv, TypeOK, vars
  <2>2. Structure'
    BY <1>10 DEF BanInv, Structure, FreeHasNoBan, Ordered, ObjInList, WalkOK, WalkExclusive,
                 HuntOK, ListOK, vars
  <2>3. BanRefcnt'
    BY <1>10 DEF BanInv, BanRefcnt, vars
  <2> QED
    BY <2>1, <2>2, <2>3 DEF BanInv
<1> QED
  BY <1>1, <1>2, <1>3, <1>4, <1>5, <1>6, <1>7, <1>8, <1>9, <1>10 DEF Next

\* The inductive invariant holds in every reachable state.
THEOREM BanInvariant == Spec => []BanInv
BY BanInit, BanNext, PTL DEF Spec

\* The state of the ban list has its type: in particular no walk ever steps
\* off the list (VTAILQ_NEXT of the tail).
THEOREM BanTypeCorrect == Spec => []TypeOK
<1>1. BanInv => TypeOK
  BY DEF BanInv
<1> QED
  BY <1>1, BanInvariant, PTL

\* A ban's refcount is the number of objects, hunts and listings that hold it.
THEOREM BanRefcntCorrect == Spec => []BanRefcnt
<1>1. BanInv => BanRefcnt
  BY DEF BanInv
<1> QED
  BY <1>1, BanInvariant, PTL

\* Every ban an object points to or an unlocked walk still visits is on the
\* list: ban_CheckLast never frees a ban under a reader.
THEOREM UnlockedWalksSafe == Spec => []NoDanglingBan
<1>1. BanInv => NoDanglingBan
  <2> SUFFICES ASSUME BanInv PROVE NoDanglingBan
    OBVIOUS
  <2> USE DEF BanInv, Structure, InList
  <2>1. oldest \in Int /\ newest \in Int
    BY DEF TypeOK, BanId
  <2>2. \A o \in Obj : ban[o] # None => InList(ban[o])
    BY <2>1 DEF ObjInList, TypeOK, BanId
  <2>3. ASSUME NEW w \in Checker, walk[w] # None
        PROVE /\ ban[walk[w].oc] # None
              /\ InList(walk[w].b0) /\ InList(walk[w].b)
              /\ walk[w].b >= ban[walk[w].oc]
    <3>1. walk[w] \in Walk
      BY <2>3 DEF TypeOK
    <3>2. walk[w].oc \in Obj /\ walk[w].b \in BanId /\ walk[w].b0 \in BanId
      BY <3>1 DEF Walk
    <3>3. /\ ban[walk[w].oc] # None /\ ban[walk[w].oc] \in BanId
          /\ oldest <= ban[walk[w].oc] /\ ban[walk[w].oc] <= walk[w].b
          /\ walk[w].b <= walk[w].b0 /\ walk[w].b0 <= newest
      BY <2>3, <3>2 DEF WalkOK, ObjInList, TypeOK
    <3> QED
      BY <2>1, <3>2, <3>3 DEF BanId
  <2>4. ASSUME NEW i \in Inserter, hunt[i] # None
        PROVE /\ InList(hunt[i].be) /\ InList(hunt[i].b)
              /\ hunt[i].bi \in hunt[i].be .. hunt[i].b
    <3>1. hunt[i] \in Hunt
      BY <2>4 DEF TypeOK
    <3> QED
      BY <2>1, <2>4, <3>1 DEF HuntOK, Hunt, BanId
  <2>5. tailref # None => InList(tailref.bl) /\ tailref.b \in tailref.bl .. newest
    BY <2>1 DEF ListOK, TypeOK, Listing, BanId
  <2> QED
    BY <2>2, <2>3, <2>4, <2>5 DEF NoDanglingBan
<1> QED
  BY <1>1, BanInvariant, PTL

-----------------------------------------------------------------------------
(* No ban is forgotten.                                                    *)

\* A walk has passed a ban that matches its object only because a hunt had
\* marked it GONE.
WalkClear == \A w \in Checker : walk[w] # None =>
    \A n \in BanId : /\ walk[w].b < n /\ n <= walk[w].b0
                    /\ spec[n] \in tags[walk[w].oc]
                    => n \in gone

GoneInList == \A b \in gone : b <= newest

Memory == GoneInList /\ GoneSuperseded /\ WalkClear /\ BanNotForgotten

\* The bans on the list and the objects in use keep their tests and headers;
\* an object that is new and a walk that starts have passed no ban.
OldBans == /\ newest <= newest' /\ gone' = gone
           /\ \A n \in BanId : n <= newest => spec'[n] = spec[n]
OldObjs == /\ \A o \in Obj : ban'[o] # None =>
                 \/ ban'[o] = ban[o] /\ birth'[o] = birth[o] /\ tags'[o] = tags[o]
                 \/ ban'[o] = birth'[o]
           /\ \A o \in Obj : ban[o] # None => tags'[o] = tags[o] /\ ban'[o] \in {ban[o], None}
OldWalks == \A w \in Checker : walk'[w] # None =>
              walk'[w] = walk[w] \/ walk'[w].b = walk'[w].b0

\* Nothing is forgotten then.
LEMMA MemoryFrame ==
    ASSUME TypeOK, TypeOK', Memory, WalkOK, ObjInList, OldBans, OldObjs, OldWalks
    PROVE  Memory'
<1> USE DEF Memory, OldBans, OldObjs, OldWalks
<1>1. GoneInList'
  BY DEF GoneInList, TypeOK, BanId
<1>2. GoneSuperseded'
  <2> SUFFICES ASSUME NEW b \in gone \ {0}
               PROVE \E n \in BanId : b < n /\ n <= newest' /\ spec'[n] = spec'[b] /\ n \notin gone
    BY DEF GoneSuperseded
  <2>1. PICK n \in BanId : b < n /\ n <= newest /\ spec[n] = spec[b] /\ n \notin gone
    BY DEF GoneSuperseded
  <2>2. b \in BanId /\ b <= newest
    BY DEF GoneInList, TypeOK
  <2>3. spec'[n] = spec[n] /\ spec'[b] = spec[b] /\ n <= newest'
    BY <2>1, <2>2 DEF TypeOK, BanId
  <2> QED
    BY <2>1, <2>3
<1>3. WalkClear'
  <2> SUFFICES ASSUME NEW w \in Checker, walk'[w] # None, NEW n \in BanId,
                      walk'[w].b < n, n <= walk'[w].b0, spec'[n] \in tags'[walk'[w].oc]
               PROVE n \in gone
    BY DEF WalkClear
  <2>0. walk'[w] \in Walk
    BY DEF TypeOK
  <2>00. walk'[w].b # walk'[w].b0
    BY <2>0 DEF Walk, BanId
  <2>1. walk'[w] = walk[w] /\ walk[w] \in Walk /\ walk[w] # None
    BY <2>0, <2>00
  <2>2. walk[w].oc \in Obj /\ walk[w].b0 \in BanId
    BY <2>1 DEF Walk
  <2>3. ban[walk[w].oc] # None /\ walk[w].b0 <= newest
    BY <2>1 DEF WalkOK
  <2>4. tags'[walk[w].oc] = tags[walk[w].oc]
    BY <2>2, <2>3
  <2>5. spec'[n] = spec[n]
    BY <2>1, <2>2, <2>3 DEF TypeOK, BanId
  <2> QED
    BY <2>1, <2>4, <2>5 DEF WalkClear
<1>4. BanNotForgotten'
  <2> SUFFICES ASSUME NEW o \in Obj, NEW b \in BanId, ban'[o] # None,
                      b \in birth'[o] + 1 .. ban'[o], spec'[b] \in tags'[o]
               PROVE \E n \in BanId : ban'[o] < n /\ n <= newest' /\ spec'[n] = spec'[b]
    BY DEF BanNotForgotten, PassedMatch
  <2>0. birth'[o] \in Int /\ ban'[o] \in Int /\ ban'[o] # birth'[o]
    BY DEF TypeOK, BanId
  <2>1. ban'[o] = ban[o] /\ birth'[o] = birth[o] /\ tags'[o] = tags[o] /\ ban[o] <= newest
    BY <2>0 DEF ObjInList
  <2>2. ban[o] \in BanId /\ b <= ban[o] /\ b <= newest
    BY <2>1 DEF TypeOK, BanId
  <2>3. spec'[b] = spec[b]
    BY <2>2
  <2>4. PICK n \in BanId : ban[o] < n /\ n <= newest /\ spec[n] = spec[b]
    BY <2>1, <2>3 DEF BanNotForgotten, PassedMatch
  <2>5. spec'[n] = spec[n] /\ n <= newest'
    BY <2>4 DEF TypeOK, BanId
  <2> QED
    BY <2>1, <2>3, <2>4, <2>5
<1> QED
  BY <1>1, <1>2, <1>3, <1>4

\* A hunt marks a duplicate of a newer ban.
LEMMA HuntRemembers ==
    ASSUME BanInv, Memory, NEW i \in Inserter, HuntStep(i)
    PROVE  Memory'
<1> USE DEF BanInv, Memory
<1>1. UNCHANGED <<newest, oldest, spec, objvars, walk>>
  BY DEF HuntStep
<1>2. /\ hunt[i] \in Hunt
      /\ hunt[i].bi <= hunt[i].b /\ hunt[i].b <= newest
      /\ hunt[i].be <= hunt[i].bi /\ hunt[i].bi # hunt[i].be
  BY DEF HuntStep, Structure, HuntOK, TypeOK
<1> DEFINE B == hunt[i].b
           c == hunt[i].bi - 1
<1>3. B \in BanId /\ c \in BanId /\ c < B /\ B <= newest
  BY <1>2, BanBound DEF Hunt, BanId
<1>4. gone' = gone \/ (gone' = gone \cup {c} /\ spec[B] = spec[c])
  BY DEF HuntStep, Duplicate
<1>5. CASE gone' = gone
  BY <1>1, <1>5 DEF GoneInList, GoneSuperseded, WalkClear, BanNotForgotten, PassedMatch, objvars
<1>6. CASE gone' = gone \cup {c} /\ spec[B] = spec[c]
  <2> HIDE DEF B, c
  <2>1. GoneInList'
    BY <1>1, <1>3, <1>6 DEF GoneInList, TypeOK, BanId
  <2>2. WalkClear' /\ BanNotForgotten'
    BY <1>1, <1>6 DEF WalkClear, BanNotForgotten, PassedMatch, objvars
  <2>3. \E n \in BanId : c < n /\ n <= newest /\ spec[n] = spec[c] /\ n \notin gone'
    <3>1. CASE B \notin gone
      BY <1>3, <1>6, <3>1 DEF BanId
    <3>2. CASE B \in gone
      <4>1. B # 0
        BY <1>3 DEF BanId
      <4>2. PICK n \in BanId : B < n /\ n <= newest /\ spec[n] = spec[B] /\ n \notin gone
        BY <3>2, <4>1 DEF GoneSuperseded
      <4>3. c < n /\ n # c
        BY <1>3, <4>2 DEF BanId
      <4> QED
        BY <1>6, <4>2, <4>3
    <3> QED
      BY <3>1, <3>2
  <2>4. ASSUME NEW b \in gone' \ {0}
        PROVE \E n \in BanId : b < n /\ n <= newest /\ spec[n] = spec[b] /\ n \notin gone'
    <3>1. CASE b = c
      BY <2>3, <3>1
    <3>2. CASE b # c
      <4>1. PICK n \in BanId : b < n /\ n <= newest /\ spec[n] = spec[b] /\ n \notin gone
        BY <1>6, <3>2 DEF GoneSuperseded
      <4>2. CASE n # c
        BY <1>6, <4>1, <4>2
      <4>3. CASE n = c
        <5>1. PICK k \in BanId : c < k /\ k <= newest /\ spec[k] = spec[c] /\ k \notin gone'
          BY <2>3
        <5>2. b < k
          BY <1>3, <4>1, <4>3, <5>1, <1>6 DEF BanId, TypeOK
        <5> QED
          BY <4>1, <4>3, <5>1, <5>2
      <4> QED
        BY <4>2, <4>3
    <3> QED
      BY <3>1, <3>2
  <2>5. GoneSuperseded'
    BY <1>1, <2>4 DEF GoneSuperseded
  <2> QED
    BY <2>1, <2>2, <2>5
<1> QED
  BY <1>4, <1>5, <1>6

\* A walk steps past a ban that is GONE or does not match.
LEMMA WalkRemembers ==
    ASSUME BanInv, Memory, NEW w \in Checker, WalkStep(w)
    PROVE  Memory'
<1> USE DEF BanInv, Memory
<1>1. UNCHANGED <<banvars, objvars>> /\ walk[w] \in Walk /\ walk[w] # None
  BY DEF WalkStep, TypeOK
<1> DEFINE b == walk[w].b
           match == b \notin gone /\ ~Skips(w, b) /\ ban_evaluate(w, b)
           n == IF match THEN b ELSE b - 1
           k == walk[w].skipped \/ (b \notin gone /\ Skips(w, b))
           v == [walk[w] EXCEPT !.b = n, !.banned = match, !.skipped = k]
<1>2. walk' = [walk EXCEPT ![w] = v]
  BY DEF WalkStep
<1>3. v.oc = walk[w].oc /\ v.b0 = walk[w].b0 /\ v.b = n /\ b \in BanId /\ walk[w].oc \in Obj
  BY <1>1 DEF Walk
<1>4. b \notin gone /\ n # b => spec[b] \notin tags[walk[w].oc]
  <2>1. SUFFICES ASSUME b \notin gone, ~match PROVE spec[b] \notin tags[walk[w].oc]
    OBVIOUS
  <2>2. CASE Skips(w, b)
    BY <2>2, <1>3, BanSpecs DEF Skips, TypeOK
  <2>3. CASE ~Skips(w, b)
    BY <2>1, <2>3 DEF ban_evaluate
  <2> QED
    BY <2>2, <2>3
<1>5. n \in {b, b - 1}
  OBVIOUS
<1> HIDE DEF match, n, k, v
<1>6. \A u \in Checker : walk'[u] = IF u = w THEN v ELSE walk[u]
  BY <1>2 DEF TypeOK
<1>7. WalkClear'
  <2> SUFFICES ASSUME NEW u \in Checker, walk'[u] # None, NEW x \in BanId,
                      walk'[u].b < x, x <= walk'[u].b0, spec[x] \in tags[walk'[u].oc]
               PROVE x \in gone
    BY <1>1 DEF WalkClear, banvars, objvars
  <2>1. CASE u # w
    BY <2>1, <1>6 DEF WalkClear
  <2>2. CASE u = w
    <3>1. n < x /\ x <= walk[w].b0 /\ spec[x] \in tags[walk[w].oc]
      BY <2>2, <1>3, <1>6
    <3>2. CASE b < x
      BY <3>1, <3>2, <1>1 DEF WalkClear
    <3>3. CASE ~(b < x)
      <4>1. x = b /\ n # b
        BY <3>1, <3>3, <1>3, <1>5 DEF BanId
      <4> QED
        BY <4>1, <3>1, <1>4
    <3> QED
      BY <3>2, <3>3
  <2> QED
    BY <2>1, <2>2
<1> QED
  BY <1>1, <1>7 DEF GoneInList, GoneSuperseded, BanNotForgotten, PassedMatch, banvars, objvars

\* An object passes the bans up to b0: those that match have a newer duplicate.
LEMMA NotBannedRemembers ==
    ASSUME BanInv, BanInv', Memory, NEW w \in Checker, NotBanned(w)
    PROVE  Memory'
<1> USE DEF BanInv, Memory
<1> DEFINE o == walk[w].oc
           v == walk[w].b0
<1>1. /\ walk[w] \in Walk /\ walk[w] # None /\ o \in Obj /\ v \in BanId
      /\ ban[o] \in BanId /\ ban[o] <= v /\ v <= newest /\ walk[w].b = ban[o]
  BY DEF NotBanned, TypeOK, Walk, Structure, WalkOK, ObjInList
<1>2. /\ walk' = [walk EXCEPT ![w] = None] /\ ban' = [ban EXCEPT ![o] = v]
      /\ UNCHANGED <<newest, spec, gone, birth, tags>>
  BY DEF NotBanned, MoveTo
<1>3. ASSUME NEW n \in BanId, ban[o] < n, n <= newest, spec[n] \in tags[o]
      PROVE \E k \in BanId : v < k /\ k <= newest /\ spec[k] = spec[n]
  <2>1. CASE v < n
    BY <2>1, <1>3
  <2>2. CASE ~(v < n)
    <3>1. n <= v /\ n # 0
      BY <2>2, <1>1, <1>3 DEF BanId
    <3>2. n \in gone
      BY <3>1, <1>1, <1>3 DEF WalkClear
    <3>3. PICK k \in BanId : n < k /\ k <= newest /\ spec[k] = spec[n] /\ k \notin gone
      BY <3>1, <3>2 DEF GoneSuperseded
    <3>4. ~(k <= v)
      <4>1. ban[o] < k
        BY <3>3, <1>1, <1>3 DEF BanId
      <4> QED
        BY <4>1, <3>3, <1>1, <1>3 DEF WalkClear
    <3> QED
      BY <3>3, <3>4, <1>1 DEF BanId
  <2> QED
    BY <2>1, <2>2
<1> HIDE DEF o, v
<1>4. \A p \in Obj : ban'[p] = IF p = o THEN v ELSE ban[p]
  BY <1>2 DEF TypeOK
<1>5. ASSUME NEW b \in BanId, b \in birth[o] + 1 .. v, spec[b] \in tags[o]
      PROVE \E n \in BanId : v < n /\ n <= newest /\ spec[n] = spec[b]
  <2>1. birth[o] \in Int /\ newest \in Int
    BY <1>1 DEF TypeOK, BanId
  <2>2. CASE ban[o] < b
    BY <2>1, <2>2, <1>1, <1>3, <1>5 DEF BanId
  <2>3. CASE ~(ban[o] < b)
    <3>1. b \in birth[o] + 1 .. ban[o] /\ ban[o] # None
      BY <2>1, <2>3, <1>1, <1>5, BanNull DEF BanId
    <3>2. PICK n \in BanId : ban[o] < n /\ n <= newest /\ spec[n] = spec[b]
      BY <3>1, <1>1, <1>5 DEF BanNotForgotten, PassedMatch
    <3> QED
      BY <3>2, <1>3, <1>5
  <2> QED
    BY <2>2, <2>3
<1>6. BanNotForgotten'
  BY <1>2, <1>4, <1>5 DEF BanNotForgotten, PassedMatch
<1>7. WalkClear'
  <2>1. \A u \in Checker : walk'[u] = IF u = w THEN None ELSE walk[u]
    BY <1>2 DEF TypeOK
  <2> QED
    BY <2>1, <1>2 DEF WalkClear
<1> QED
  BY <1>2, <1>6, <1>7 DEF GoneInList, GoneSuperseded

\* Every other step is a frame step.
LEMMA FrameSteps ==
    ASSUME BanInv,
           \/ \E i \in Inserter : (\E t \in Tests : BAN_Insert(i, t)) \/ HuntDone(i)
           \/ \E w \in Checker : WalkGiveUp(w) \/ Banned(w) \/ HSH_Deref(w)
           \/ \E w \in Worker, o \in Obj, r \in SUBSET ReqSpec : BAN_CheckObject(w, o, r)
           \/ \E w \in Worker : SetObjTtl(w)
           \/ \E o \in Obj : ObjNext(o)
           \/ LurkerNext \/ ListNext \/ UNCHANGED vars
    PROVE  OldBans /\ OldObjs /\ OldWalks
<1> USE DEF BanInv
<1> USE DEF OldBans, OldObjs, OldWalks
<1>1. newest \in Int /\ newest <= newest
  BY DEF TypeOK, BanId
<1>2. ASSUME NEW i \in Inserter, NEW t \in Tests, BAN_Insert(i, t)
      PROVE OldBans /\ OldObjs /\ OldWalks
  <2>1. \A n \in BanId : n <= newest => n # newest + 1
    BY <1>1 DEF BanId
  <2>2. OldBans
    BY <1>1, <1>2, <2>1 DEF BAN_Insert, TypeOK
  <2> QED
    BY <1>2, <2>2 DEF BAN_Insert, objvars
<1>3. ASSUME UNCHANGED <<newest, gone, spec, ban, birth, tags, walk>>
      PROVE OldBans /\ OldObjs /\ OldWalks
  BY <1>1, <1>3
<1>4. ASSUME NEW i \in Inserter, HuntDone(i) PROVE OldBans /\ OldObjs /\ OldWalks
  BY <1>3, <1>4 DEF HuntDone, objvars
<1>5. ASSUME NEW w \in Checker, WalkGiveUp(w) PROVE OldBans /\ OldObjs /\ OldWalks
  BY <1>1, <1>5 DEF WalkGiveUp, objvars, banvars, TypeOK
<1>6. ASSUME NEW w \in Checker, Banned(w) PROVE OldBans /\ OldObjs /\ OldWalks
  BY <1>1, <1>6 DEF Banned, TypeOK
<1>7. ASSUME NEW w \in Checker, HSH_Deref(w) PROVE OldBans /\ OldObjs /\ OldWalks
  BY <1>3, <1>7 DEF HSH_Deref, banvars
<1>8. ASSUME NEW w \in Checker, NEW o \in Obj, NEW r \in SUBSET ReqSpec, StartWalk(w, o, r)
      PROVE OldWalks
  BY <1>8 DEF StartWalk, TypeOK
<1>9. ASSUME NEW w \in Worker, NEW o \in Obj, NEW r \in SUBSET ReqSpec,
             BAN_CheckObject(w, o, r)
      PROVE OldBans /\ OldObjs /\ OldWalks
  <2>1. OldBans /\ OldObjs
    BY <1>1, <1>9 DEF BAN_CheckObject, banvars
  <2>2. OldWalks
    <3>1. w \in Checker
      BY DEF Checker
    <3>2. CASE walk' = walk
      BY <3>2
    <3>3. CASE StartWalk(w, o, r)
      BY <3>1, <3>3, <1>8
    <3> HIDE DEF OldWalks
    <3> QED
      BY <1>9, <3>2, <3>3 DEF BAN_CheckObject
  <2> QED
    BY <2>1, <2>2
<1>10. ASSUME NEW w \in Worker, SetObjTtl(w) PROVE OldBans /\ OldObjs /\ OldWalks
  BY <1>3, <1>10 DEF SetObjTtl, banvars
<1>11. ASSUME NEW o \in Obj, ObjNext(o) PROVE OldBans /\ OldObjs /\ OldWalks
  <2>1. ASSUME NEW t \in SUBSET ObjSpec, BAN_NewObjCore(o, t)
        PROVE OldBans /\ OldObjs /\ OldWalks
    <3>1. ban[o] = None
      BY <2>1 DEF BAN_NewObjCore, Structure, FreeHasNoBan
    <3>2. OldObjs
      BY <2>1, <3>1 DEF BAN_NewObjCore, TypeOK
    <3> QED
      BY <1>1, <2>1, <3>2 DEF BAN_NewObjCore
  <2>2. ASSUME (\E live \in BOOLEAN : HSH_Unbusy(o, live)) \/ Evict(o)
        PROVE OldBans /\ OldObjs /\ OldWalks
    BY <1>3, <2>2 DEF HSH_Unbusy, Evict, banvars
  <2>3. ASSUME BAN_DestroyObj(o) PROVE OldBans /\ OldObjs /\ OldWalks
    BY <1>1, <2>3 DEF BAN_DestroyObj, TypeOK
  <2> HIDE DEF OldBans, OldObjs, OldWalks
  <2> QED
    BY <1>11, <2>1, <2>2, <2>3 DEF ObjNext
<1>12. ASSUME LurkerNext PROVE OldBans /\ OldObjs /\ OldWalks
  <2>1. ASSUME LurkerRetire PROVE OldBans /\ OldObjs /\ OldWalks
    BY <1>3, <2>1 DEF LurkerRetire, objvars
  <2>2. ASSUME NEW o \in Obj, LurkerPick(o) PROVE OldBans /\ OldObjs /\ OldWalks
    <3>1. OldBans /\ OldObjs
      BY <1>1, <2>2 DEF LurkerPick, banvars
    <3>2. Lurker \in Checker /\ {} \in SUBSET ReqSpec /\ StartWalk(Lurker, o, {})
      BY <2>2 DEF Checker, LurkerPick
    <3> HIDE DEF OldWalks
    <3> QED
      BY <3>1, <3>2, <1>8
  <2> HIDE DEF OldBans, OldObjs, OldWalks
  <2> QED
    BY <1>12, <2>1, <2>2 DEF LurkerNext
<1>13. ASSUME ListNext PROVE OldBans /\ OldObjs /\ OldWalks
  BY <1>3, <1>13 DEF ListNext, BAN_TailRef, ListStep, BAN_TailDeref, objvars, banvars
<1>14. ASSUME UNCHANGED vars PROVE OldBans /\ OldObjs /\ OldWalks
  BY <1>3, <1>14 DEF vars
<1> HIDE DEF OldBans, OldObjs, OldWalks
<1> QED
  BY <1>2, <1>4, <1>5, <1>6, <1>7, <1>9, <1>10, <1>11, <1>12, <1>13, <1>14

\* A ban that matches an object is tested against it, or a newer duplicate is
\* still to be tested, whatever hunts, walks and lurker passes interleave.
THEOREM NoBanForgotten == Spec => [](GoneSuperseded /\ BanNotForgotten)
<1>1. Init => Memory
  <2> SUFFICES ASSUME Init PROVE Memory
    OBVIOUS
  <2>1. GoneInList /\ GoneSuperseded
    BY DEF Init, GoneInList, GoneSuperseded
  <2>2. WalkClear /\ BanNotForgotten
    BY DEF Init, WalkClear, BanNotForgotten
  <2> QED
    BY <2>1, <2>2 DEF Memory
<1>2. BanInv /\ BanInv' /\ Memory /\ [Next]_vars => Memory'
  <2> SUFFICES ASSUME BanInv, BanInv', Memory, [Next]_vars PROVE Memory'
    OBVIOUS
  <2>1. ASSUME NEW i \in Inserter, HuntStep(i) PROVE Memory'
    BY <2>1, HuntRemembers
  <2>2. ASSUME NEW w \in Checker, WalkStep(w) PROVE Memory'
    BY <2>2, WalkRemembers
  <2>3. ASSUME NEW w \in Checker, NotBanned(w) PROVE Memory'
    BY <2>3, NotBannedRemembers
  <2>4. ASSUME OldBans, OldObjs, OldWalks PROVE Memory'
    BY <2>4, MemoryFrame DEF BanInv, Structure
  <2> QED
    BY <2>1, <2>2, <2>3, <2>4, FrameSteps DEF Next, HuntNext, WalkNext
<1>3. Memory => GoneSuperseded /\ BanNotForgotten
  BY DEF Memory
<1> QED
  BY <1>1, <1>2, <1>3, BanInvariant, PTL DEF Spec

-----------------------------------------------------------------------------
(* The lurker leaves the bans that test a request to the lookups.          *)

\* The lurker, unless it remembers a skipped test, has walked past no live ban
\* that tests a request.
LurkerClear == walk[Lurker] # None /\ ~walk[Lurker].skipped =>
    \A n \in BanId : walk[Lurker].b < n /\ n <= walk[Lurker].b0
                    => n \in gone \/ spec[n] \notin ReqSpec

\* A walk that goes on or starts has nothing more to remember.
LEMMA ClearFrame ==
    ASSUME BanInv, BanInv', LurkerClear, gone \subseteq gone',
           \A n \in BanId : n <= newest => spec'[n] = spec[n],
           walk'[Lurker] # None =>
               walk'[Lurker] = walk[Lurker] \/ walk'[Lurker].b = walk'[Lurker].b0
    PROVE  LurkerClear'
<1> SUFFICES ASSUME walk'[Lurker] # None, ~walk'[Lurker].skipped, NEW n \in BanId,
                    walk'[Lurker].b < n, n <= walk'[Lurker].b0
             PROVE n \in gone' \/ spec'[n] \notin ReqSpec
  BY DEF LurkerClear
<1>1. Lurker \in Checker /\ walk'[Lurker] \in Walk
  BY DEF Checker, BanInv, TypeOK
<1>2. walk'[Lurker].b # walk'[Lurker].b0
  BY <1>1 DEF Walk, BanId
<1>3. walk'[Lurker] = walk[Lurker] /\ walk[Lurker] # None
  BY <1>2
<1>4. walk[Lurker].b0 \in BanId /\ walk[Lurker].b0 <= newest /\ newest \in BanId
  BY <1>1, <1>3 DEF BanInv, Structure, WalkOK, TypeOK, Walk
<1>5. n <= newest
  BY <1>3, <1>4 DEF BanId
<1> QED
  BY <1>3, <1>5 DEF LurkerClear

\* A step of the lurker past such a ban is remembered.
LEMMA ClearWalk ==
    ASSUME BanInv, BanInv', LurkerClear, NEW w \in Checker, WalkStep(w)
    PROVE  LurkerClear'
<1>1. UNCHANGED banvars /\ walk[w] \in Walk /\ walk[w] # None
  BY DEF WalkStep, BanInv, TypeOK
<1>2. Lurker \in Checker /\ walk \in [Checker -> Walk \cup {None}] /\ newest \in BanId
  BY DEF Checker, BanInv, TypeOK
<1>3. CASE w # Lurker
  <2>1. walk'[Lurker] = walk[Lurker]
    BY <1>2, <1>3 DEF WalkStep
  <2> QED
    BY <1>1, <2>1, ClearFrame DEF banvars
<1>4. CASE w = Lurker
  <2> DEFINE b == walk[w].b
             match == b \notin gone /\ ~Skips(w, b) /\ ban_evaluate(w, b)
             k == walk[w].skipped \/ (b \notin gone /\ Skips(w, b))
             v == [walk[w] EXCEPT !.b = IF match THEN b ELSE b - 1, !.banned = match,
                                  !.skipped = k]
  <2>1. walk' = [walk EXCEPT ![w] = v]
    BY DEF WalkStep
  <2>2. b \in BanId /\ v.b \in {b, b - 1} /\ v.b0 = walk[w].b0 /\ v.skipped = k
    BY <1>1 DEF Walk
  <2>3. walk'[Lurker] = v
    BY <1>2, <1>4, <2>1
  <2>4. ~k => ~walk[w].skipped /\ (b \in gone \/ spec[b] \notin ReqSpec)
    BY <1>4 DEF Skips
  <2> HIDE DEF b, match, k, v
  <2>5. ASSUME ~v.skipped, NEW n \in BanId, v.b < n, n <= v.b0
        PROVE n \in gone \/ spec[n] \notin ReqSpec
    <3>1. ~k /\ ~walk[w].skipped
      BY <2>2, <2>4, <2>5
    <3>2. CASE b < n
      BY <1>1, <1>4, <2>2, <2>5, <3>1, <3>2 DEF LurkerClear, b
    <3>3. CASE ~(b < n)
      <4>1. n = b
        BY <2>2, <2>5, <3>3 DEF BanId
      <4> QED
        BY <2>4, <3>1, <4>1
    <3> QED
      BY <3>2, <3>3
  <2> QED
    BY <1>1, <2>3, <2>5 DEF LurkerClear, banvars
<1> QED
  BY <1>3, <1>4

\* LurkerClear is an invariant.
LEMMA LurkerRemembers ==
    ASSUME BanInv, BanInv', LurkerClear, [Next]_vars
    PROVE  LurkerClear'
<1>0. Lurker \in Checker /\ walk \in [Checker -> Walk \cup {None}]
  BY DEF Checker, BanInv, TypeOK
<1>1. ASSUME NEW i \in Inserter, HuntStep(i) PROVE LurkerClear'
  BY <1>1, ClearFrame DEF HuntStep
<1>2. ASSUME NEW w \in Checker, WalkStep(w) PROVE LurkerClear'
  BY <1>2, ClearWalk
<1>3. ASSUME NEW w \in Checker, NotBanned(w) PROVE LurkerClear'
  BY <1>0, <1>3, ClearFrame DEF NotBanned
<1>4. ASSUME OldBans, OldObjs, OldWalks PROVE LurkerClear'
  BY <1>0, <1>4, ClearFrame DEF OldBans, OldWalks
<1> QED
  BY <1>1, <1>2, <1>3, <1>4, FrameSteps DEF Next, HuntNext, WalkNext

\* What one step may do to the object the lurker is at.
Cautious ==
    \A o \in Obj : /\ walk[Lurker] # None /\ walk[Lurker].oc = o
                   /\ ban[o] # None /\ ban'[o] # None
                   => \A b \in ban[o] + 1 .. ban'[o] : b \in gone \/ spec[b] \notin ReqSpec

\* Only the walk of the lurker itself can move its object, and only past bans
\* that the lurker could test.
LEMMA CautiousStep ==
    ASSUME BanInv, LurkerClear, [Next]_vars
    PROVE  Cautious
<1> SUFFICES ASSUME NEW o \in Obj, walk[Lurker] # None, walk[Lurker].oc = o,
                    ban[o] # None, ban'[o] # None, NEW b \in ban[o] + 1 .. ban'[o]
             PROVE b \in gone \/ spec[b] \notin ReqSpec
  BY DEF Cautious
<1>1. Lurker \in Checker /\ ban[o] \in BanId /\ ban \in [Obj -> BanId \cup {None}]
  BY DEF Checker, BanInv, TypeOK
<1>2. ASSUME ban'[o] = ban[o] PROVE FALSE
  BY <1>1, <1>2 DEF BanId
<1>3. ASSUME NEW i \in Inserter, HuntStep(i) PROVE FALSE
  BY <1>2, <1>3 DEF HuntStep, objvars
<1>4. ASSUME NEW w \in Checker, WalkStep(w) PROVE FALSE
  BY <1>2, <1>4 DEF WalkStep, objvars
<1>5. ASSUME NEW w \in Checker, NotBanned(w) PROVE b \in gone \/ spec[b] \notin ReqSpec
  <2>1. ban' = [ban EXCEPT ![walk[w].oc] = walk[w].b0] /\ walk[w] # None
    BY <1>5 DEF NotBanned, MoveTo
  <2>2. CASE w # Lurker
    <3>1. walk[w].oc # o
      BY <1>1, <2>1, <2>2 DEF BanInv, Structure, WalkExclusive
    <3> QED
      BY <1>1, <1>2, <2>1, <3>1
  <2>3. CASE w = Lurker
    <3>1. ban'[o] = walk[Lurker].b0 /\ walk[Lurker].b = ban[o] /\ ~walk[Lurker].skipped
      BY <1>1, <1>5, <2>1, <2>3 DEF NotBanned
    <3>2. walk[Lurker].b0 \in BanId
      BY <1>1 DEF BanInv, TypeOK, Walk
    <3>3. b \in BanId /\ walk[Lurker].b < b /\ b <= walk[Lurker].b0
      BY <1>1, <3>1, <3>2, BanBound DEF BanId
    <3> QED
      BY <3>1, <3>3 DEF LurkerClear
  <2> QED
    BY <2>2, <2>3
<1>6. ASSUME OldBans, OldObjs, OldWalks PROVE FALSE
  BY <1>2, <1>6 DEF OldObjs
<1> QED
  BY <1>3, <1>4, <1>5, <1>6, FrameSteps DEF Next, HuntNext, WalkNext

\* The lurker, which has no request, never moves an object past a live ban that
\* tests one (ban_check_object counts the skipped tests), although bans are
\* inserted and marked GONE while it walks without a lock.
THEOREM LurkerCautious == Spec => LurkerLeavesReqBans
<1>1. Init => LurkerClear
  BY DEF Init, LurkerClear, Checker
<1>2. BanInv /\ BanInv' /\ LurkerClear /\ [Next]_vars => LurkerClear'
  BY LurkerRemembers
<1>3. BanInv /\ LurkerClear /\ [Next]_vars => [Cautious]_vars
  BY CautiousStep
<1>4. [][Cautious]_vars => LurkerLeavesReqBans
  BY DEF Cautious, LurkerLeavesReqBans
<1> QED
  BY <1>1, <1>2, <1>3, <1>4, BanInvariant, PTL DEF Spec

-----------------------------------------------------------------------------
(* The hash slingers.                                                      *)

\* A set of numbers has a least one.
LEMMA LeastIndex ==
  ASSUME NEW T \in SUBSET Nat, T # {}
  PROVE  /\ Min(T) \in T /\ \A n \in T : Min(T) <= n
<1>1. PICK m \in T : \A n \in T : ~ (<<n, m>> \in OpToRel(<, Nat))
  BY NatLessThanWellFounded, WFMin
<1>2. ASSUME NEW n \in T, n < m PROVE FALSE
  <2>1. <<n, m>> \in OpToRel(<, Nat)
    BY <1>2 DEF OpToRel
  <2> QED
    BY <1>1, <2>1
<1>3. \E x \in T : \A n \in T : x <= n
  BY <1>2
<1> QED
  BY <1>3 DEF Min

-----------------------------------------------------------------------------
(* The tree.                                                               *)

\* The objheads of the tree and its nodes.
Hashed(O) == {h \in Objhead : O[h].st = "hashed"}
Trees(Y)  == {n \in Hcby : Y[n].st = "tree"}

\* Two digests agree before bit k.
Agree(d1, d2, k) == \A i \in 1..Bits : i < k => d1[i] = d2[i]

NodesTyped(Y) ==
  \A n \in Hcby : Y[n].critbit \in 1..Bits /\ Y[n].leaf[0] \in Ptr /\ Y[n].leaf[1] \in Ptr

\* Node n of the tree has the objheads of its leafs below it, which agree up to
\* its critical bit and part there; critical bits grow downwards.
NodeOK(O, Y, r, S, n) ==
  /\ S[n] # {} /\ S[n] = S[Y[n].leaf[0]] \cup S[Y[n].leaf[1]]
  /\ \A h1, h2 \in S[n] : Agree(O[h1].digest, O[h2].digest, Y[n].critbit)
  /\ \A b \in {0, 1} :
       /\ Y[n].leaf[b] \in Trees(Y) \cup Hashed(O) /\ Y[n].leaf[b] # r
       /\ Y[n].leaf[b] \in Trees(Y) => Y[n].critbit < Y[Y[n].leaf[b]].critbit
       /\ \A h \in S[Y[n].leaf[b]] : O[h].digest[Y[n].critbit] = b

\* One pointer leads to each node and objhead but the root.
OneParent(O, Y, r) ==
  /\ \A m, n \in Trees(Y) : \A a, b \in {0, 1} :
       Y[m].leaf[a] = Y[n].leaf[b] => m = n /\ a = b
  /\ \A p \in Trees(Y) \cup Hashed(O) :
       p = r \/ \E n \in Trees(Y), b \in {0, 1} : p = Y[n].leaf[b]

\* The tree with the root r, where S says which objheads are below a pointer.
Tree(O, Y, r, S) ==
  /\ S \in [Ptr -> SUBSET Hashed(O)]
  /\ r \in Trees(Y) \cup Hashed(O) \cup {Null}
  /\ S[r] = Hashed(O) /\ S[Null] = {}
  /\ \A h \in Hashed(O) : S[h] = {h}
  /\ \A n \in Trees(Y) : NodeOK(O, Y, r, S, n)
  /\ OneParent(O, Y, r)

LEMMA AgreeSym ==
  \A d1, d2, k : Agree(d1, d1, k) /\ (Agree(d1, d2, k) => Agree(d2, d1, k))
BY DEF Agree

\* Another bit is the other bit.
LEMMA OtherBit ==
  ASSUME NEW d1 \in [1..Bits -> {0, 1}], NEW d2 \in [1..Bits -> {0, 1}], NEW c \in 1..Bits
  PROVE  d1[c] \in {0, 1} /\ d2[c] \in {0, 1} /\ (d1[c] # d2[c] => d2[c] = 1 - d1[c])
OBVIOUS

\* hcb_insert(): the node m takes the place of the pointer k and has the new
\* objhead h and k below it.  A are the nodes above k.
InsertOf(O, Y, r, S, Q, Z, s, h, m, d, c, q, k, A) ==
  /\ h \in Objhead /\ h \notin Hashed(O) /\ Hashed(Q) = Hashed(O) \cup {h}
  /\ \A g \in Hashed(O) : Q[g].digest = O[g].digest
  /\ m \in Hcby /\ m \notin Trees(Y) /\ Trees(Z) = Trees(Y) \cup {m}
  /\ \A n \in Trees(Y) : Z[n].critbit = Y[n].critbit
  /\ d \in [1..Bits -> {0, 1}] /\ c \in 1..Bits /\ Q[h].digest = d
  /\ q \in Hashed(O) /\ Agree(d, O[q].digest, c) /\ d[c] # O[q].digest[c]
  /\ O[q].digest \in [1..Bits -> {0, 1}]
  /\ k \in Trees(Y) \cup Hashed(O) /\ q \in S[k]
  /\ k \in Trees(Y) => c < Y[k].critbit
  /\ A \in SUBSET Trees(Y) /\ k \notin A /\ r \in A \cup {k}
  /\ \A n \in A : Y[n].critbit < c /\ q \in S[n] /\ Y[n].leaf[d[Y[n].critbit]] \in A \cup {k}
  /\ \A n \in Trees(Y), b \in {0, 1} :
       Y[n].leaf[b] \in A \cup {k} => n \in A /\ b = d[Y[n].critbit]
  /\ Z[m].critbit = c /\ Z[m].leaf[d[c]] = h /\ Z[m].leaf[1 - d[c]] = k
  /\ \A n \in Trees(Y), b \in {0, 1} :
       Z[n].leaf[b] = IF Y[n].leaf[b] = k THEN m ELSE Y[n].leaf[b]
  /\ s = IF r = k THEN m ELSE r

LEMMA TreeInsert ==
  ASSUME NEW O, NEW Y, NEW r, NEW S, Tree(O, Y, r, S), NodesTyped(Y),
         NEW Q, NEW Z, NEW s, NEW h, NEW m, NEW d, NEW c, NEW q, NEW k, NEW A,
         InsertOf(O, Y, r, S, Q, Z, s, h, m, d, c, q, k, A)
  PROVE  \E R : Tree(Q, Z, s, R)
<1> USE DEF InsertOf
<1> DEFINE R == [p \in Ptr |-> IF p = m THEN S[k] \cup {h}
                              ELSE IF p = h THEN {h}
                              ELSE IF p \in A THEN S[p] \cup {h} ELSE S[p]]
<1>1. /\ h # m /\ h \notin Hcby /\ m \notin Objhead /\ m \notin A /\ h \notin A
      /\ k # m /\ k # h /\ Null \notin A /\ Null # m /\ Null # h /\ Null # k
      /\ r # Null /\ r # m /\ r # h
      /\ Trees(Y) \subseteq Hcby /\ Hashed(O) \subseteq Objhead /\ A \subseteq Ptr
      /\ Trees(Y) \cap Objhead = {} /\ Hcby \cap Objhead = {}
      /\ k \in Ptr /\ r \in Ptr /\ m \in Ptr /\ h \in Ptr /\ Null \in Ptr
  BY HashSlingerAssumption DEF Trees, Hashed, Ptr
<1>2. /\ R[m] = S[k] \cup {h} /\ R[h] = {h} /\ R[Null] = S[Null]
      /\ \A n \in A : R[n] = S[n] \cup {h}
      /\ \A p \in Trees(Y) \cup Hashed(O) : p \notin A => R[p] = S[p]
  BY <1>1 DEF Ptr
<1>3. /\ S \in [Ptr -> SUBSET Hashed(O)]
      /\ S[r] = Hashed(O) /\ S[Null] = {}
      /\ \A g \in Hashed(O) : S[g] = {g}
      /\ \A n \in Trees(Y) : NodeOK(O, Y, r, S, n)
      /\ OneParent(O, Y, r)
  BY DEF Tree
<1>4. R \in [Ptr -> SUBSET Hashed(Q)]
  <2>1. \A p \in Ptr : S[p] \subseteq Hashed(O)
    BY <1>3
  <2> QED
    BY <1>1, <2>1
<1>5. /\ \A g \in Hashed(Q) : R[g] = {g}
      /\ R[s] = Hashed(Q) /\ R[Null] = {}
      /\ s \in Trees(Z) \cup Hashed(Q) \cup {Null}
  <2> HIDE DEF R
  <2> QED
    BY <1>1, <1>2, <1>3 DEF Tree
<1> HIDE DEF R
<1>6. \A n \in A : \A g \in S[n] : Agree(d, O[g].digest, Y[n].critbit)
  <2> SUFFICES ASSUME NEW n \in A, NEW g \in S[n], NEW i \in 1..Bits, i < Y[n].critbit
               PROVE  d[i] = O[g].digest[i]
    BY DEF Agree
  <2>1. Agree(O[q].digest, O[g].digest, Y[n].critbit)
    BY <1>3 DEF NodeOK
  <2>2. Y[n].critbit \in Nat /\ i < c
    BY <1>1 DEF NodesTyped
  <2> QED
    BY <2>1, <2>2 DEF Agree
<1>7. \A g \in S[k] : Agree(d, O[g].digest, c) /\ O[g].digest[c] = 1 - d[c]
  <2> SUFFICES ASSUME NEW g \in S[k]
               PROVE  Agree(d, O[g].digest, c) /\ O[g].digest[c] = 1 - d[c]
    OBVIOUS
  <2>1. O[q].digest[c] = 1 - d[c]
    BY OtherBit
  <2>2. CASE k \in Hashed(O)
    BY <1>3, <2>1, <2>2
  <2>3. CASE k \in Trees(Y)
    <3>1. Agree(O[q].digest, O[g].digest, Y[k].critbit) /\ c < Y[k].critbit
      BY <1>3, <2>3 DEF NodeOK
    <3>2. Y[k].critbit \in 1..Bits
      BY <1>1, <2>3 DEF NodesTyped
    <3> QED
      BY <2>1, <3>1, <3>2 DEF Agree
  <2> QED
    BY <2>2, <2>3
<1>8. ASSUME NEW n \in Trees(Y), n \notin A PROVE NodeOK(Q, Z, s, R, n)
  <2>1. NodeOK(O, Y, r, S, n)
    BY <1>3
  <2>2. \A b \in {0, 1} : Y[n].leaf[b] \in (Trees(Y) \cup Hashed(O)) \ (A \cup {k, r})
    BY <1>8, <2>1 DEF NodeOK
  <2>3. \A b \in {0, 1} : Z[n].leaf[b] = Y[n].leaf[b] /\ R[Z[n].leaf[b]] = S[Y[n].leaf[b]]
    BY <1>2, <2>2
  <2>4. R[n] = S[n] /\ S[n] \subseteq Hashed(O)
    BY <1>1, <1>2, <1>3, <1>8 DEF Ptr
  <2>5. /\ R[n] # {} /\ R[n] = R[Z[n].leaf[0]] \cup R[Z[n].leaf[1]]
        /\ \A h1, h2 \in R[n] : Agree(Q[h1].digest, Q[h2].digest, Z[n].critbit)
    BY <2>1, <2>3, <2>4 DEF NodeOK
  <2>6. ASSUME NEW b \in {0, 1}
        PROVE /\ Z[n].leaf[b] \in Trees(Z) \cup Hashed(Q) /\ Z[n].leaf[b] # s
              /\ Z[n].leaf[b] \in Trees(Z) => Z[n].critbit < Z[Z[n].leaf[b]].critbit
              /\ \A g \in R[Z[n].leaf[b]] : Q[g].digest[Z[n].critbit] = b
    <3>1. Z[n].leaf[b] \in Trees(Z) \cup Hashed(Q) /\ Z[n].leaf[b] # s
      BY <1>1, <2>2, <2>3
    <3>2. Z[n].leaf[b] \in Trees(Z) => Z[n].critbit < Z[Z[n].leaf[b]].critbit
      BY <1>1, <2>1, <2>2, <2>3 DEF NodeOK
    <3>3. S[Y[n].leaf[b]] \subseteq Hashed(O)
      BY <2>1, <2>4 DEF NodeOK
    <3>4. \A g \in R[Z[n].leaf[b]] : Q[g].digest[Z[n].critbit] = b
      BY <2>1, <2>3, <3>3 DEF NodeOK
    <3> QED
      BY <3>1, <3>2, <3>4
  <2> QED
    BY <2>5, <2>6 DEF NodeOK
<1>9. ASSUME NEW n \in A PROVE NodeOK(Q, Z, s, R, n)
  <2> DEFINE e == d[Y[n].critbit]
  <2>1. NodeOK(O, Y, r, S, n) /\ n \in Trees(Y) /\ n \in Ptr
    BY <1>1, <1>3
  <2>2. Y[n].critbit \in 1..Bits /\ e \in {0, 1}
    BY <1>1, <2>1 DEF NodesTyped
  <2> HIDE DEF e
  <2>3. /\ Y[n].leaf[e] \in A \cup {k}
        /\ Y[n].leaf[1 - e] \in (Trees(Y) \cup Hashed(O)) \ (A \cup {k, r})
        /\ 1 - e \in {0, 1} /\ 1 - e # e
    BY <2>1, <2>2 DEF NodeOK, e
  <2>4. /\ Z[n].leaf[1 - e] = Y[n].leaf[1 - e] /\ R[Z[n].leaf[1 - e]] = S[Y[n].leaf[1 - e]]
        /\ Z[n].leaf[e] = (IF Y[n].leaf[e] = k THEN m ELSE Y[n].leaf[e])
        /\ R[Z[n].leaf[e]] = S[Y[n].leaf[e]] \cup {h}
    BY <1>2, <2>1, <2>2, <2>3
  <2>5. R[n] = S[n] \cup {h} /\ S[n] \subseteq Hashed(O)
    BY <1>2, <1>3, <2>1
  <2>6. R[n] # {} /\ R[n] = R[Z[n].leaf[0]] \cup R[Z[n].leaf[1]]
    <3>1. S[n] = S[Y[n].leaf[e]] \cup S[Y[n].leaf[1 - e]]
      BY <2>1, <2>2 DEF NodeOK
    <3>2. R[n] = R[Z[n].leaf[e]] \cup R[Z[n].leaf[1 - e]]
      BY <2>4, <2>5, <3>1
    <3> QED
      BY <2>2, <2>5, <3>2
  <2>7. \A h1, h2 \in R[n] : Agree(Q[h1].digest, Q[h2].digest, Z[n].critbit)
    <3>1. \A g \in S[n] : Q[g].digest = O[g].digest
      BY <2>5
    <3>2. \A g \in S[n] : Agree(Q[h].digest, Q[g].digest, Y[n].critbit)
      BY <1>6, <1>9, <3>1
    <3>3. \A g1, g2 \in S[n] : Agree(Q[g1].digest, Q[g2].digest, Y[n].critbit)
      BY <2>1, <3>1 DEF NodeOK
    <3>4. Z[n].critbit = Y[n].critbit
      BY <2>1
    <3> QED
      BY <2>5, <3>2, <3>3, <3>4, AgreeSym
  <2>8. ASSUME NEW b \in {0, 1}
        PROVE /\ Z[n].leaf[b] \in Trees(Z) \cup Hashed(Q) /\ Z[n].leaf[b] # s
              /\ Z[n].leaf[b] \in Trees(Z) => Z[n].critbit < Z[Z[n].leaf[b]].critbit
              /\ \A g \in R[Z[n].leaf[b]] : Q[g].digest[Z[n].critbit] = b
    <3>1. S[Y[n].leaf[b]] \subseteq Hashed(O)
      BY <2>1, <2>5 DEF NodeOK
    <3>2. /\ Y[n].leaf[b] \in Trees(Y) \cup Hashed(O) /\ Y[n].leaf[b] # r
          /\ Y[n].leaf[b] \in Trees(Y) => Y[n].critbit < Y[Y[n].leaf[b]].critbit
          /\ \A g \in S[Y[n].leaf[b]] : O[g].digest[Y[n].critbit] = b
      BY <2>1 DEF NodeOK
    <3>3. CASE b = e
      <4>1. Z[n].leaf[b] \in Trees(Z) \cup Hashed(Q) /\ Z[n].leaf[b] # s
        BY <1>1, <2>4, <3>2, <3>3
      <4>2. Z[n].leaf[b] \in Trees(Z) => Z[n].critbit < Z[Z[n].leaf[b]].critbit
        BY <1>1, <2>1, <2>4, <3>2, <3>3
      <4>3. \A g \in R[Z[n].leaf[b]] : Q[g].digest[Z[n].critbit] = b
        <5>1. Z[n].critbit = Y[n].critbit /\ Q[h].digest[Y[n].critbit] = e
          BY <2>1 DEF e
        <5>2. \A g \in S[Y[n].leaf[b]] : Q[g].digest[Y[n].critbit] = b
          BY <3>1, <3>2
        <5>3. R[Z[n].leaf[b]] = S[Y[n].leaf[b]] \cup {h}
          BY <2>4, <3>3
        <5>4. ASSUME NEW g \in R[Z[n].leaf[b]] PROVE Q[g].digest[Z[n].critbit] = b
          <6>1. g \in S[Y[n].leaf[b]] \/ g = h
            BY <5>3
          <6>2. Q[g].digest[Y[n].critbit] = b
            BY <3>3, <5>1, <5>2, <6>1
          <6> QED
            BY <5>1, <6>2
        <5> QED
          BY <5>4
      <4> QED
        BY <4>1, <4>2, <4>3
    <3>4. CASE b = 1 - e
      <4>1. Z[n].leaf[b] \in Trees(Z) \cup Hashed(Q) /\ Z[n].leaf[b] # s
        BY <1>1, <2>3, <2>4, <3>2, <3>4
      <4>2. Z[n].leaf[b] \in Trees(Z) => Z[n].critbit < Z[Z[n].leaf[b]].critbit
        BY <1>1, <2>1, <2>4, <3>2, <3>4
      <4>3. \A g \in R[Z[n].leaf[b]] : Q[g].digest[Z[n].critbit] = b
        BY <2>1, <2>4, <3>1, <3>2, <3>4
      <4> QED
        BY <4>1, <4>2, <4>3
    <3> QED
      BY <2>2, <3>3, <3>4
  <2> QED
    BY <2>6, <2>7, <2>8 DEF NodeOK
<1>10. NodeOK(Q, Z, s, R, m)
  <2> DEFINE e == d[c]
  <2>1. e \in {0, 1}
    OBVIOUS
  <2> HIDE DEF e
  <2>2. /\ Z[m].leaf[e] = h /\ Z[m].leaf[1 - e] = k /\ Z[m].critbit = c
        /\ R[m] = S[k] \cup {h} /\ R[h] = {h} /\ R[k] = S[k] /\ S[k] \subseteq Hashed(O)
    BY <1>1, <1>2, <1>3 DEF e
  <2>3. R[m] # {} /\ R[m] = R[Z[m].leaf[0]] \cup R[Z[m].leaf[1]]
    BY <2>1, <2>2
  <2>4. \A h1, h2 \in R[m] : Agree(Q[h1].digest, Q[h2].digest, Z[m].critbit)
    <3>1. \A g \in S[k] : Q[g].digest = O[g].digest
      BY <2>2
    <3>2. \A g \in S[k] : Agree(d, Q[g].digest, c)
      BY <1>7, <3>1
    <3>3. \A g1, g2 \in S[k] : Agree(Q[g1].digest, Q[g2].digest, c)
      BY <3>2 DEF Agree
    <3> QED
      BY <2>2, <3>2, <3>3, AgreeSym
  <2>5. ASSUME NEW b \in {0, 1}
        PROVE /\ Z[m].leaf[b] \in Trees(Z) \cup Hashed(Q) /\ Z[m].leaf[b] # s
              /\ Z[m].leaf[b] \in Trees(Z) => Z[m].critbit < Z[Z[m].leaf[b]].critbit
              /\ \A g \in R[Z[m].leaf[b]] : Q[g].digest[Z[m].critbit] = b
    <3>1. Z[m].leaf[b] \in Trees(Z) \cup Hashed(Q) /\ Z[m].leaf[b] # s
      BY <1>1, <2>1, <2>2
    <3>2. Z[m].leaf[b] \in Trees(Z) => Z[m].critbit < Z[Z[m].leaf[b]].critbit
      BY <1>1, <2>1, <2>2
    <3>3. \A g \in R[Z[m].leaf[b]] : Q[g].digest[Z[m].critbit] = b
      <4>1. Q[h].digest[c] = e /\ \A g \in S[k] : Q[g].digest[c] = 1 - e
        BY <1>7, <2>2 DEF e
      <4>2. CASE b = e
        BY <2>2, <4>1, <4>2
      <4>3. CASE b = 1 - e
        BY <2>2, <4>1, <4>3
      <4> QED
        BY <2>1, <4>2, <4>3
    <3> QED
      BY <3>1, <3>2, <3>3
  <2> QED
    BY <2>3, <2>4, <2>5 DEF NodeOK
<1>11. OneParent(Q, Z, s)
  <2>1. ASSUME NEW n1 \in Trees(Z), NEW n2 \in Trees(Z), NEW a \in {0, 1}, NEW b \in {0, 1},
               Z[n1].leaf[a] = Z[n2].leaf[b]
        PROVE n1 = n2 /\ a = b
    <3>1. \A n \in Trees(Y) : \A x \in {0, 1} : Y[n].leaf[x] \in Trees(Y) \cup Hashed(O)
      BY <1>3 DEF NodeOK
    <3>2. \A x \in {0, 1} : /\ Z[m].leaf[x] \in {h, k}
                            /\ Z[m].leaf[x] = h => x = d[c]
                            /\ Z[m].leaf[x] = k => x = 1 - d[c]
      BY <1>1
    <3>3. \A n \in Trees(Y) : \A x \in {0, 1} : Z[n].leaf[x] \notin {h, k}
      BY <1>1, <3>1
    <3>4. CASE n1 = m \/ n2 = m
      BY <1>1, <2>1, <3>2, <3>3, <3>4
    <3>5. CASE n1 \in Trees(Y) /\ n2 \in Trees(Y)
      <4>1. Y[n1].leaf[a] = Y[n2].leaf[b]
        BY <1>1, <2>1, <3>1, <3>5
      <4> QED
        BY <1>3, <3>5, <4>1 DEF OneParent
    <3> QED
      BY <3>4, <3>5
  <2>2. ASSUME NEW p \in Trees(Z) \cup Hashed(Q), p # s
        PROVE \E n \in Trees(Z), b \in {0, 1} : p = Z[n].leaf[b]
    <3>1. CASE p = h
      BY <3>1
    <3>2. CASE p = k
      <4>1. m \in Trees(Z) /\ 1 - d[c] \in {0, 1} /\ p = Z[m].leaf[1 - d[c]]
        BY <3>2
      <4> QED
        BY <4>1
    <3>3. CASE p = m
      <4>1. k # r
        BY <2>2, <3>3
      <4>2. PICK n \in Trees(Y), b \in {0, 1} : k = Y[n].leaf[b]
        BY <1>3, <4>1 DEF OneParent
      <4>3. p = Z[n].leaf[b] /\ n \in Trees(Z)
        BY <3>3, <4>2
      <4> QED
        BY <4>3
    <3>4. CASE p \notin {h, k, m}
      <4>1. p \in Trees(Y) \cup Hashed(O) /\ p # r
        BY <2>2, <3>4
      <4>2. PICK n \in Trees(Y), b \in {0, 1} : p = Y[n].leaf[b]
        BY <1>3, <4>1 DEF OneParent
      <4>3. p = Z[n].leaf[b] /\ n \in Trees(Z)
        BY <3>4, <4>2
      <4> QED
        BY <4>3
    <3> QED
      BY <3>1, <3>2, <3>3, <3>4
  <2> QED
    BY <2>1, <2>2 DEF OneParent
<1>12. \A n \in Trees(Z) : NodeOK(Q, Z, s, R, n)
  BY <1>8, <1>9, <1>10
<1> QED
  BY <1>4, <1>5, <1>11, <1>12 DEF Tree

\* A step that leaves the tree alone.
LEMMA TreeSame ==
  ASSUME NEW O, NEW Y, NEW r, NEW S, Tree(O, Y, r, S), NEW Q, NEW Z,
         Hashed(Q) = Hashed(O), \A h \in Hashed(O) : Q[h].digest = O[h].digest,
         Trees(Z) = Trees(Y),
         \A n \in Trees(Y) : /\ Z[n].critbit = Y[n].critbit
                             /\ \A b \in {0, 1} : Z[n].leaf[b] = Y[n].leaf[b]
  PROVE  Tree(Q, Z, r, S)
<1>1. /\ S \in [Ptr -> SUBSET Hashed(O)]
      /\ \A n \in Trees(Y) : NodeOK(O, Y, r, S, n)
      /\ OneParent(O, Y, r)
  BY DEF Tree
<1>2. OneParent(Q, Z, r)
  BY <1>1 DEF OneParent
<1>3. ASSUME NEW n \in Trees(Y) PROVE NodeOK(Q, Z, r, S, n)
  <2>1. NodeOK(O, Y, r, S, n) /\ n \in Ptr
    BY <1>1 DEF Trees, Ptr
  <2>2. S[n] \subseteq Hashed(O)
    BY <1>1, <2>1
  <2>3. \A b \in {0, 1} : S[Y[n].leaf[b]] \subseteq Hashed(O)
    BY <2>1, <2>2 DEF NodeOK
  <2> QED
    BY <2>1, <2>2, <2>3 DEF NodeOK
<1> QED
  BY <1>2, <1>3 DEF Tree

\* hcb_insert() into the empty tree, hcb_delete() of its only objhead.
LEMMA TreeFirst ==
  ASSUME NEW O, NEW Y, NEW S, Tree(O, Y, Null, S), NEW Q,
         NEW h \in Objhead, Hashed(Q) = Hashed(O) \cup {h}
  PROVE  \E R : Tree(Q, Y, h, R)
<1> DEFINE R == [p \in Ptr |-> IF p = h THEN {h} ELSE {}]
<1>1. Hashed(O) = {} /\ Trees(Y) = {}
  <2>1. S \in [Ptr -> SUBSET Hashed(O)] /\ Hashed(O) = {}
    BY DEF Tree
  <2>2. \A n \in Trees(Y) : n \in Ptr /\ S[n] # {}
    BY DEF Tree, NodeOK, Trees, Ptr
  <2> QED
    BY <2>1, <2>2
<1>2. Tree(Q, Y, h, R)
  <2>1. h # Null /\ h \in Ptr /\ Null \in Ptr
    BY HashSlingerAssumption DEF Ptr
  <2> QED
    BY <1>1, <2>1 DEF Tree, OneParent
<1> QED
  BY <1>2

LEMMA TreeLast ==
  ASSUME NEW O, NEW Y, NEW r, NEW S, Tree(O, Y, r, S), NEW Q,
         r \in Hashed(O), Hashed(Q) = Hashed(O) \ {r}
  PROVE  \E R : Tree(Q, Y, Null, R)
<1> DEFINE R == [p \in Ptr |-> {}]
<1>1. Hashed(O) = {r}
  BY DEF Tree
<1>2. ASSUME NEW n \in Trees(Y) PROVE FALSE
  <2>1. NodeOK(O, Y, r, S, n) /\ n \in Ptr /\ S \in [Ptr -> SUBSET Hashed(O)]
    BY DEF Tree, Trees, Ptr
  <2>2. Y[n].leaf[0] \in Trees(Y) \cup Hashed(O) /\ Y[n].leaf[1] \in Trees(Y) \cup Hashed(O)
    BY <2>1 DEF NodeOK
  <2>3. S[Y[n].leaf[0]] # {} /\ S[Y[n].leaf[1]] # {}
    BY <2>2 DEF Tree, NodeOK
  <2>4. S[Y[n].leaf[0]] \subseteq {r} /\ S[Y[n].leaf[1]] \subseteq {r}
    BY <1>1, <2>1 DEF NodeOK
  <2>5. r \in S[Y[n].leaf[0]] /\ r \in S[Y[n].leaf[1]]
    BY <2>3, <2>4
  <2> QED
    BY <2>1, <2>5 DEF NodeOK
<1>3. Tree(Q, Y, Null, R)
  <2>1. Trees(Y) = {} /\ Hashed(Q) = {} /\ Null \in Ptr
    BY <1>1, <1>2 DEF Ptr
  <2> QED
    BY <2>1 DEF Tree, OneParent
<1> QED
  BY <1>3

\* hcb_delete(): the sibling k of h takes the place of the node u above them.
DeleteOf(O, Y, r, Q, Z, s, h, u, e, k) ==
  /\ h \in Hashed(O) /\ Hashed(Q) = Hashed(O) \ {h}
  /\ \A g \in Hashed(Q) : Q[g].digest = O[g].digest
  /\ u \in Trees(Y) /\ Trees(Z) = Trees(Y) \ {u}
  /\ \A n \in Trees(Z) : Z[n].critbit = Y[n].critbit
  /\ e \in {0, 1} /\ Y[u].leaf[e] = h /\ k = Y[u].leaf[1 - e]
  /\ \A n \in Trees(Z), b \in {0, 1} :
       Z[n].leaf[b] = IF Y[n].leaf[b] = u THEN k ELSE Y[n].leaf[b]
  /\ s = IF r = u THEN k ELSE r

LEMMA TreeDelete ==
  ASSUME NEW O, NEW Y, NEW r, NEW S, Tree(O, Y, r, S), NodesTyped(Y),
         NEW Q, NEW Z, NEW s, NEW h, NEW u, NEW e, NEW k,
         DeleteOf(O, Y, r, Q, Z, s, h, u, e, k)
  PROVE  \E R : Tree(Q, Z, s, R)
<1> USE DEF DeleteOf
<1> DEFINE R == [p \in Ptr |-> S[p] \ {h}]
<1>1. /\ S \in [Ptr -> SUBSET Hashed(O)]
      /\ S[r] = Hashed(O) /\ S[Null] = {}
      /\ r \in Trees(Y) \cup Hashed(O) \cup {Null}
      /\ \A g \in Hashed(O) : S[g] = {g}
      /\ \A n \in Trees(Y) : NodeOK(O, Y, r, S, n)
      /\ OneParent(O, Y, r)
  BY DEF Tree
<1>2. /\ Trees(Y) \subseteq Ptr /\ Hashed(O) \subseteq Ptr /\ r \in Ptr /\ Null \in Ptr
      /\ Trees(Y) \cap Hashed(O) = {} /\ Null \notin Trees(Y) \cup Hashed(O)
  BY <1>1, HashSlingerAssumption DEF Trees, Hashed, Ptr
<1>3. \A p \in Ptr : R[p] = S[p] \ {h} /\ S[p] \subseteq Hashed(O)
  BY <1>1
<1>4. R \in [Ptr -> SUBSET Hashed(Q)]
  BY <1>3
<1> HIDE DEF R
<1>5. \A n \in Trees(Y) : \A b \in {0, 1} :
        /\ Y[n].leaf[b] \in Trees(Y) \cup Hashed(O) /\ Y[n].leaf[b] # r
        /\ Y[n].leaf[b] \in Trees(Y) => Y[n].critbit < Y[Y[n].leaf[b]].critbit
        /\ \A g \in S[Y[n].leaf[b]] : O[g].digest[Y[n].critbit] = b
  BY <1>1 DEF NodeOK
<1>6. /\ 1 - e \in {0, 1} /\ e # 1 - e
      /\ k \in Trees(Y) \cup Hashed(O) /\ k # u /\ k # h /\ k # r
      /\ k \in Ptr /\ h # r
  <2>1. 1 - e \in {0, 1} /\ e # 1 - e
    OBVIOUS
  <2>2. k \in Trees(Y) \cup Hashed(O) /\ k # r
    BY <1>5, <2>1
  <2>3. k # u
    <3>1. Y[u].critbit \in Nat
      BY DEF NodesTyped, Trees
    <3> QED
      BY <1>5, <2>1, <3>1
  <2>4. k # h /\ h # r
    BY <1>1, <1>5, <2>1 DEF OneParent
  <2> QED
    BY <1>2, <2>1, <2>2, <2>3, <2>4
<1>7. S[u] \ {h} = S[k] \ {h}
  <2>1. S[u] = S[Y[u].leaf[e]] \cup S[Y[u].leaf[1 - e]]
    <3>1. S[u] = S[Y[u].leaf[0]] \cup S[Y[u].leaf[1]]
      BY <1>1 DEF NodeOK
    <3> QED
      BY <3>1
  <2> QED
    BY <1>1, <2>1
<1>8. /\ \A g \in Hashed(Q) : R[g] = {g}
      /\ R[s] = Hashed(Q) /\ R[Null] = {}
      /\ s \in Trees(Z) \cup Hashed(Q) \cup {Null}
  BY <1>1, <1>2, <1>3, <1>6, <1>7
<1>9. \A p \in Trees(Y) : S[p] \ {h} # {}
  <2> SUFFICES ASSUME NEW p \in Trees(Y), S[p] \subseteq {h} PROVE FALSE
    OBVIOUS
  <2>1. S[p] = S[Y[p].leaf[0]] \cup S[Y[p].leaf[1]]
    BY <1>1 DEF NodeOK
  <2>2. \A q \in Trees(Y) \cup Hashed(O) : S[q] # {}
    <3>1. \A q \in Trees(Y) : S[q] # {}
      BY <1>1 DEF NodeOK
    <3>2. \A q \in Hashed(O) : S[q] # {}
      BY <1>1
    <3> QED
      BY <3>1, <3>2
  <2>3. h \in S[Y[p].leaf[0]] /\ h \in S[Y[p].leaf[1]]
    BY <1>5, <2>1, <2>2
  <2> QED
    BY <1>5, <2>3
<1>10. ASSUME NEW n \in Trees(Z) PROVE NodeOK(Q, Z, s, R, n)
  <2>1. NodeOK(O, Y, r, S, n) /\ n \in Trees(Y) /\ n # u /\ n \in Ptr
    BY <1>1, <1>2
  <2>2. R[n] = S[n] \ {h} /\ S[n] \subseteq Hashed(O) /\ R[n] # {}
    BY <1>3, <1>9, <2>1
  <2>3. \A b \in {0, 1} : R[Z[n].leaf[b]] = S[Y[n].leaf[b]] \ {h}
    <3>1. \A b \in {0, 1} : Y[n].leaf[b] \in Ptr
      BY <1>2, <1>5, <2>1
    <3> QED
      BY <1>3, <1>6, <1>7, <3>1
  <2>4. R[n] = R[Z[n].leaf[0]] \cup R[Z[n].leaf[1]]
    <3>1. S[n] = S[Y[n].leaf[0]] \cup S[Y[n].leaf[1]]
      BY <2>1 DEF NodeOK
    <3> QED
      BY <2>2, <2>3, <3>1
  <2>5. \A h1, h2 \in R[n] : Agree(Q[h1].digest, Q[h2].digest, Z[n].critbit)
    <3>1. \A g \in R[n] : g \in S[n] /\ Q[g].digest = O[g].digest
      BY <2>2
    <3> QED
      BY <2>1, <3>1 DEF NodeOK
  <2>6. ASSUME NEW b \in {0, 1}
        PROVE /\ Z[n].leaf[b] \in Trees(Z) \cup Hashed(Q) /\ Z[n].leaf[b] # s
              /\ Z[n].leaf[b] \in Trees(Z) => Z[n].critbit < Z[Z[n].leaf[b]].critbit
              /\ \A g \in R[Z[n].leaf[b]] : Q[g].digest[Z[n].critbit] = b
    <3>1. Y[n].leaf[b] # h /\ Y[n].leaf[b] # k
      BY <1>1, <1>6, <2>1 DEF OneParent
    <3>2. Z[n].leaf[b] \in Trees(Z) \cup Hashed(Q) /\ Z[n].leaf[b] # s
      BY <1>2, <1>5, <1>6, <2>1, <3>1
    <3>3. Z[n].leaf[b] \in Trees(Z) => Z[n].critbit < Z[Z[n].leaf[b]].critbit
      <4>1. CASE Y[n].leaf[b] = u
        <5>1. Y[n].critbit < Y[u].critbit /\ (k \in Trees(Y) => Y[u].critbit < Y[k].critbit)
          BY <1>5, <1>6, <2>1, <4>1
        <5>2. Y[n].critbit \in Nat /\ Y[u].critbit \in Nat /\ (k \in Trees(Y) => Y[k].critbit \in Nat)
          BY <2>1 DEF NodesTyped, Trees
        <5> QED
          BY <4>1, <5>1, <5>2
      <4>2. CASE Y[n].leaf[b] # u
        BY <1>5, <2>1, <4>2
      <4> QED
        BY <4>1, <4>2
    <3>4. \A g \in R[Z[n].leaf[b]] : Q[g].digest[Z[n].critbit] = b
      <4>1. \A g \in R[Z[n].leaf[b]] : g \in S[Y[n].leaf[b]] /\ g \in Hashed(Q)
        <5>1. S[Y[n].leaf[b]] \subseteq Hashed(O)
          BY <2>1, <2>2 DEF NodeOK
        <5> QED
          BY <2>3, <5>1
      <4>2. \A g \in S[Y[n].leaf[b]] : O[g].digest[Y[n].critbit] = b
        BY <1>5, <2>1
      <4> QED
        BY <4>1, <4>2
    <3> QED
      BY <3>2, <3>3, <3>4
  <2> QED
    BY <2>2, <2>4, <2>5, <2>6 DEF NodeOK
<1>11. OneParent(Q, Z, s)
  <2>1. ASSUME NEW n1 \in Trees(Z), NEW n2 \in Trees(Z), NEW a \in {0, 1}, NEW b \in {0, 1},
               Z[n1].leaf[a] = Z[n2].leaf[b]
        PROVE n1 = n2 /\ a = b
    <3>1. Y[n1].leaf[a] # k /\ Y[n2].leaf[b] # k
      BY <1>1, <1>6 DEF OneParent
    <3>2. Y[n1].leaf[a] = Y[n2].leaf[b]
      BY <2>1, <3>1
    <3> QED
      BY <1>1, <3>2 DEF OneParent
  <2>2. ASSUME NEW p \in Trees(Z) \cup Hashed(Q), p # s
        PROVE \E n \in Trees(Z), b \in {0, 1} : p = Z[n].leaf[b]
    <3>1. CASE p = k
      <4>1. u # r
        BY <2>2, <3>1
      <4>2. PICK n \in Trees(Y), b \in {0, 1} : u = Y[n].leaf[b]
        BY <1>1, <4>1 DEF OneParent
      <4>3. n # u
        <5>1. Y[u].critbit \in Nat
          BY DEF NodesTyped, Trees
        <5> QED
          BY <1>5, <4>2, <5>1
      <4> QED
        BY <3>1, <4>2, <4>3
    <3>2. CASE p # k
      <4>1. p \in Trees(Y) \cup Hashed(O) /\ p # h /\ p # u /\ p # r
        BY <1>2, <1>6, <2>2, <3>2
      <4>2. PICK n \in Trees(Y), b \in {0, 1} : p = Y[n].leaf[b]
        BY <1>1, <4>1 DEF OneParent
      <4>3. n # u
        BY <1>6, <3>2, <4>1, <4>2
      <4> QED
        BY <4>1, <4>2, <4>3
    <3> QED
      BY <3>1, <3>2
  <2> QED
    BY <2>1, <2>2 DEF OneParent
<1> QED
  BY <1>4, <1>8, <1>10, <1>11 DEF Tree

-----------------------------------------------------------------------------
(* The path of a search.                                                   *)

\* One turn of the loop of hcb_insert().
Turn(d, p) == IF p \in Hcby THEN y[p].leaf[d[y[p].critbit]] ELSE p

\* The recursive definition of Path is sound.
LEMMA PathExists ==
  ASSUME NEW d
  PROVE  \E f : f = [n \in 0..Bits |-> IF n = 0 THEN origo ELSE Turn(d, f[n - 1])]
<1> DEFINE Upto(n, f) == f = [i \in 0..n |-> IF i = 0 THEN origo ELSE Turn(d, f[i - 1])]
           T == {n \in 0..Bits : ~ \E f : Upto(n, f)}
<1> USE HashSlingerAssumption
<1>1. SUFFICES ASSUME T # {} PROVE FALSE
  OBVIOUS
<1>2. PICK m \in T : \A n \in T : m <= n
  <2>1. T \in SUBSET Nat
    OBVIOUS
  <2> HIDE DEF T
  <2> QED
    BY <1>1, <2>1, LeastIndex
<1>3. m # 0
  <2> DEFINE f == [i \in 0..0 |-> origo]
  <2>1. Upto(0, f)
    OBVIOUS
  <2> QED
    BY <2>1
<1>4. m - 1 \in 0..Bits /\ m - 1 \notin T
  <2>1. m \in 0..Bits
    OBVIOUS
  <2>2. m - 1 \in 0..Bits /\ ~(m <= m - 1)
    BY <1>3, <2>1
  <2> HIDE DEF T
  <2> QED
    BY <1>2, <2>2
<1>5. PICK f : Upto(m - 1, f)
  BY <1>4
<1> DEFINE g == [i \in 0..m |-> IF i = m THEN Turn(d, f[m - 1]) ELSE f[i]]
<1>6. \A i \in 0..m : g[i] = IF i = 0 THEN origo ELSE Turn(d, g[i - 1])
  <2>1. \A i \in 0..(m - 1) : f[i] = IF i = 0 THEN origo ELSE Turn(d, f[i - 1])
    BY <1>5
  <2>2. \A i \in 0..m : i # 0 => g[i - 1] = f[i - 1]
    BY <1>3
  <2>3. \A i \in 0..m : i = m \/ i \in 0..(m - 1)
    OBVIOUS
  <2> QED
    BY <1>3, <2>1, <2>2, <2>3
<1>7. Upto(m, g)
  <2>1. g = [i \in 0..m |-> g[i]]
    OBVIOUS
  <2> HIDE DEF g
  <2> QED
    BY <1>6, <2>1
<1> QED
  BY <1>7

LEMMA PathStep ==
  ASSUME NEW d
  PROVE  Path(d)[0] = origo /\ \A n \in 1..Bits : Path(d)[n] = Turn(d, Path(d)[n - 1])
<1> DEFINE Is(f) == f = [n \in 0..Bits |-> IF n = 0 THEN origo ELSE Turn(d, f[n - 1])]
<1>1. \E f : Is(f)
  BY PathExists
<1>2. Path(d) = CHOOSE f : Is(f)
  BY DEF Path, Turn
<1>3. Is(Path(d))
  BY <1>1, <1>2
<1> QED
  BY <1>3, HashSlingerAssumption

\* The tree is in order, in this state.
InTree(S) == Tree(oh, y, origo, S) /\ NodesTyped(y)

\* A turn of the loop at a node of the tree.
LEMMA TurnDown ==
  ASSUME NEW S, InTree(S), NEW d \in [1..Bits -> {0, 1}], NEW n \in Trees(y)
  PROVE  /\ d[y[n].critbit] \in {0, 1} /\ Turn(d, n) = y[n].leaf[d[y[n].critbit]]
         /\ Turn(d, n) \in Trees(y) \cup Hashed(oh) /\ S[Turn(d, n)] \subseteq S[n]
         /\ Turn(d, n) \in Trees(y) => y[n].critbit < y[Turn(d, n)].critbit
         /\ \A g \in S[Turn(d, n)] : oh[g].digest[y[n].critbit] = d[y[n].critbit]
         /\ \A g \in S[n] : oh[g].digest[y[n].critbit] = d[y[n].critbit] => g \in S[Turn(d, n)]
<1>1. n \in Hcby /\ y[n].critbit \in 1..Bits
  BY DEF InTree, NodesTyped, Trees
<1>2. d[y[n].critbit] \in {0, 1} /\ Turn(d, n) = y[n].leaf[d[y[n].critbit]]
  BY <1>1 DEF Turn
<1>3. NodeOK(oh, y, origo, S, n)
  BY DEF InTree, Tree
<1>4. \A g \in S[n] : oh[g].digest[y[n].critbit] = d[y[n].critbit] => g \in S[Turn(d, n)]
  <2> SUFFICES ASSUME NEW g \in S[n], oh[g].digest[y[n].critbit] = d[y[n].critbit]
               PROVE  g \in S[Turn(d, n)]
    OBVIOUS
  <2>1. g \in S[y[n].leaf[0]] \/ g \in S[y[n].leaf[1]]
    BY <1>3 DEF NodeOK
  <2>2. \A b \in {0, 1} : g \in S[y[n].leaf[b]] => d[y[n].critbit] = b
    BY <1>3 DEF NodeOK
  <2> QED
    BY <1>2, <2>1, <2>2
<1>5. \A b \in {0, 1} : S[y[n].leaf[b]] \subseteq S[n]
  BY <1>3 DEF NodeOK
<1> QED
  BY <1>2, <1>3, <1>4, <1>5 DEF NodeOK

LEMMA TurnBit ==
  ASSUME NEW S, InTree(S), NEW d \in [1..Bits -> {0, 1}], NEW n \in Trees(y),
         NEW g \in S[Turn(d, n)]
  PROVE  oh[g].digest[y[n].critbit] = d[y[n].critbit]
<1>1. Turn(d, n) = y[n].leaf[d[y[n].critbit]] /\ d[y[n].critbit] \in {0, 1}
  BY TurnDown
<1>2. \A b \in {0, 1} : \A x \in S[y[n].leaf[b]] : oh[x].digest[y[n].critbit] = b
  BY DEF InTree, Tree, NodeOK
<1> QED
  BY <1>1, <1>2

\* A path stays in the tree and goes down; it ends in an objhead.
LEMMA PathInTree ==
  ASSUME NEW S, InTree(S), origo # Null, NEW d \in [1..Bits -> {0, 1}]
  PROVE  /\ \A i \in 0..Bits : /\ Path(d)[i] \in Trees(y) \cup Hashed(oh)
                               /\ Path(d)[i] \in Trees(y) => i < y[Path(d)[i]].critbit
         /\ Path(d)[Bits] \in Hashed(oh)
<1> DEFINE Good(i) == /\ Path(d)[i] \in Trees(y) \cup Hashed(oh)
                      /\ Path(d)[i] \in Trees(y) => i < y[Path(d)[i]].critbit
           T == {i \in 0..Bits : ~ Good(i)}
<1>1. \A n \in Trees(y) : y[n].critbit \in 1..Bits
  BY DEF InTree, NodesTyped, Trees
<1>2. Trees(y) \cap Hashed(oh) = {} /\ Hashed(oh) \cap Hcby = {} /\ Bits \in Nat
  BY HashSlingerAssumption DEF Trees, Hashed
<1>3. \A i \in 0..Bits : Good(i)
  <2>1. SUFFICES ASSUME T # {} PROVE FALSE
    OBVIOUS
  <2>2. PICK m \in T : \A i \in T : m <= i
    <3>1. T \in SUBSET Nat
      OBVIOUS
    <3> HIDE DEF T
    <3> QED
      BY <2>1, <3>1, LeastIndex
  <2>3. m # 0
    <3>1. Path(d)[0] = origo /\ origo \in Trees(y) \cup Hashed(oh)
      BY PathStep DEF InTree, Tree
    <3> QED
      BY <1>1, <2>2, <3>1
  <2>4. m - 1 \in 0..Bits /\ m \in 1..Bits /\ m - 1 \notin T
    <3>1. m \in 0..Bits
      OBVIOUS
    <3>2. m - 1 \in 0..Bits /\ m \in 1..Bits /\ ~(m <= m - 1)
      BY <1>2, <2>3, <3>1, SMTT(30)
    <3> HIDE DEF T
    <3> QED
      BY <2>2, <3>2
  <2>5. Good(m - 1) /\ ~Good(m)
    BY <2>4, Zenon
  <2>6. Path(d)[m] = Turn(d, Path(d)[m - 1])
    BY <2>4, PathStep, ZenonT(60)
  <2>7. CASE Path(d)[m - 1] \in Hashed(oh)
    BY <1>2, <2>5, <2>6, <2>7 DEF Turn
  <2>8. CASE Path(d)[m - 1] \in Trees(y)
    <3>1. /\ Path(d)[m] \in Trees(y) \cup Hashed(oh)
          /\ Path(d)[m] \in Trees(y) => y[Path(d)[m - 1]].critbit < y[Path(d)[m]].critbit
      BY <2>6, <2>8, TurnDown
    <3>2. /\ m - 1 < y[Path(d)[m - 1]].critbit /\ y[Path(d)[m - 1]].critbit \in Nat
          /\ Path(d)[m] \in Trees(y) => y[Path(d)[m]].critbit \in Nat
      BY <1>1, <2>5, <2>8
    <3>3. Path(d)[m] \in Trees(y) => m < y[Path(d)[m]].critbit
      BY <2>4, <3>1, <3>2
    <3> QED
      BY <2>5, <3>1, <3>3
  <2> QED
    BY <2>5, <2>7, <2>8
<1>4. Path(d)[Bits] \in Hashed(oh)
  <2>1. Bits \in 0..Bits
    BY <1>2
  <2>2. Path(d)[Bits] \in Trees(y) => Bits < y[Path(d)[Bits]].critbit
    BY <1>3, <2>1
  <2> QED
    BY <1>1, <1>2, <1>3, <2>1, <2>2
<1> QED
  BY <1>3, <1>4

\* What is below the end of a path is below every pointer on it.
LEMMA PathShrinks ==
  ASSUME NEW S, InTree(S), origo # Null, NEW d \in [1..Bits -> {0, 1}]
  PROVE  \A i \in 0..Bits : Path(d)[Bits] \in S[Path(d)[i]]
<1> DEFINE q == Path(d)[Bits]
           T == {i \in 0..Bits : q \notin S[Path(d)[Bits - i]]}
<1>1. q \in Hashed(oh) /\ S[q] = {q} /\ Bits \in Nat
  BY PathInTree, HashSlingerAssumption DEF InTree, Tree
<1>2. T = {}
  <2>1. SUFFICES ASSUME T # {} PROVE FALSE
    OBVIOUS
  <2>2. PICK m \in T : \A i \in T : m <= i
    <3>1. T \in SUBSET Nat
      OBVIOUS
    <3> HIDE DEF T
    <3> QED
      BY <2>1, <3>1, LeastIndex
  <2>3. m # 0
    BY <1>1, <2>2
  <2>4. m - 1 \in 0..Bits /\ m \in 1..Bits /\ m - 1 \notin T
    <3>1. m \in 0..Bits
      OBVIOUS
    <3>2. m - 1 \in 0..Bits /\ m \in 1..Bits /\ ~(m <= m - 1)
      BY <1>1, <2>3, <3>1
    <3> HIDE DEF T
    <3> QED
      BY <2>2, <3>2
  <2> DEFINE k == Bits - m
  <2>5. k \in 0..Bits /\ k + 1 \in 1..Bits /\ Bits - (m - 1) = k + 1 /\ (k + 1) - 1 = k
    BY <1>1, <2>4
  <2>6. q \in S[Path(d)[k + 1]] /\ q \notin S[Path(d)[k]]
    BY <2>2, <2>4, <2>5
  <2> HIDE DEF k, T, q
  <2>7. Path(d)[k + 1] = Turn(d, Path(d)[k]) /\ Path(d)[k] \in Trees(y) \cup Hashed(oh)
    BY <2>5, PathStep, PathInTree
  <2>8. CASE Path(d)[k] \in Trees(y)
    BY <2>6, <2>7, <2>8, TurnDown
  <2>9. CASE Path(d)[k] \in Hashed(oh)
    <3>1. Path(d)[k] \notin Hcby
      BY <2>9, HashSlingerAssumption DEF Hashed
    <3> QED
      BY <2>6, <2>7, <3>1 DEF Turn
  <2> QED
    BY <2>7, <2>8, <2>9
<1>3. ASSUME NEW i \in 0..Bits PROVE q \in S[Path(d)[i]]
  <2>1. Bits - i \in 0..Bits /\ Bits - (Bits - i) = i
    BY <1>1
  <2> QED
    BY <1>2, <2>1
<1> QED
  BY <1>3

\* The path of an objhead leads to it.
LEMMA PathFinds ==
  ASSUME NEW S, InTree(S), NEW h \in Hashed(oh), oh[h].digest \in [1..Bits -> {0, 1}]
  PROVE  /\ origo # Null /\ Path(oh[h].digest)[Bits] = h
         /\ \A i \in 0..Bits : h \in S[Path(oh[h].digest)[i]]
<1> DEFINE d == oh[h].digest
           T == {i \in 0..Bits : h \notin S[Path(d)[i]]}
<1>1. origo # Null /\ Bits \in Nat /\ h \in S[origo]
  BY HashSlingerAssumption DEF InTree, Tree
<1>2. T = {}
  <2>1. SUFFICES ASSUME T # {} PROVE FALSE
    OBVIOUS
  <2>2. PICK m \in T : \A i \in T : m <= i
    <3>1. T \in SUBSET Nat
      OBVIOUS
    <3> HIDE DEF T
    <3> QED
      BY <2>1, <3>1, LeastIndex
  <2>3. m # 0
    BY <1>1, <2>2, PathStep
  <2>4. m - 1 \in 0..Bits /\ m \in 1..Bits /\ m - 1 \notin T
    <3>1. m \in 0..Bits
      OBVIOUS
    <3>2. m - 1 \in 0..Bits /\ m \in 1..Bits /\ ~(m <= m - 1)
      BY <1>1, <2>3, <3>1
    <3> HIDE DEF T
    <3> QED
      BY <2>2, <3>2
  <2>5. h \in S[Path(d)[m - 1]] /\ h \notin S[Path(d)[m]]
    BY <2>2, <2>4
  <2> HIDE DEF T
  <2>6. Path(d)[m] = Turn(d, Path(d)[m - 1]) /\ Path(d)[m - 1] \in Trees(y) \cup Hashed(oh)
    BY <1>1, <2>4, PathStep, PathInTree, Zenon
  <2>7. CASE Path(d)[m - 1] \in Trees(y)
    BY <2>5, <2>6, <2>7, TurnDown, SMTT(30)
  <2>8. CASE Path(d)[m - 1] \in Hashed(oh)
    <3>1. Path(d)[m - 1] \notin Hcby
      BY <2>8, HashSlingerAssumption DEF Hashed
    <3> QED
      BY <2>5, <2>6, <3>1, Zenon DEF Turn
  <2> QED
    BY <2>6, <2>7, <2>8
<1>3. \A i \in 0..Bits : h \in S[Path(d)[i]]
  BY <1>2
<1>4. Path(d)[Bits] = h
  <2>1. Path(d)[Bits] \in Hashed(oh)
    BY <1>1, PathInTree
  <2> QED
    BY <1>1, <1>3, <2>1 DEF InTree, Tree
<1> QED
  BY <1>1, <1>3, <1>4

\* A node is on the paths of all objheads below it.
LEMMA NodeOnPath ==
  ASSUME NEW S, InTree(S), \A g \in Objhead : oh[g].digest \in [1..Bits -> {0, 1}]
  PROVE  \A n \in Trees(y) : \A h \in S[n] : \E i \in 0..Bits : Path(oh[h].digest)[i] = n
<1> DEFINE Off(n, h) == \A i \in 0..Bits : Path(oh[h].digest)[i] # n
           T == {c \in 1..Bits : \E n \in Trees(y), h \in Objhead : h \in S[n] /\ Off(n, h) /\ y[n].critbit = c}
<1>1. \A n \in Trees(y) : y[n].critbit \in 1..Bits /\ S[n] \subseteq Hashed(oh) /\ Hashed(oh) \subseteq Objhead
  BY DEF InTree, Tree, NodesTyped, Trees, Hashed, Ptr
<1>2. T = {}
  <2>1. SUFFICES ASSUME T # {} PROVE FALSE
    OBVIOUS
  <2>2. PICK c \in T : \A i \in T : c <= i
    <3>1. T \in SUBSET Nat
      BY HashSlingerAssumption
    <3> HIDE DEF T
    <3> QED
      BY <2>1, <3>1, LeastIndex
  <2>3. PICK n \in Trees(y), h \in Objhead : h \in S[n] /\ Off(n, h) /\ y[n].critbit = c
    OBVIOUS
  <2> DEFINE d == oh[h].digest
  <2>4. n # origo
    <3>1. Path(d)[0] = origo /\ 0 \in 0..Bits
      BY PathStep, HashSlingerAssumption
    <3> QED
      BY <2>3, <3>1
  <2>5. PICK m \in Trees(y), b \in {0, 1} : n = y[m].leaf[b]
    BY <2>4 DEF InTree, Tree, OneParent
  <2>6. y[m].critbit < c /\ h \in S[m] /\ d[y[m].critbit] = b
    BY <2>3, <2>5 DEF InTree, Tree, NodeOK
  <2>7. y[m].critbit \notin T
    BY <1>1, <2>2, <2>6
  <2>8. PICK i \in 0..Bits : Path(d)[i] = m
    BY <1>1, <2>6, <2>7
  <2>9. origo # Null /\ d \in [1..Bits -> {0, 1}]
    BY <2>3, <1>1 DEF InTree, Tree
  <2>10. i + 1 \in 1..Bits /\ (i + 1) - 1 = i /\ i + 1 \in 0..Bits
    <3>1. i < y[m].critbit
      BY <2>8, <2>9, PathInTree
    <3> QED
      BY <1>1, <3>1, HashSlingerAssumption
  <2>11. Path(d)[i + 1] = Turn(d, m)
    BY <2>8, <2>10, PathStep
  <2>12. Turn(d, m) = n
    BY <2>5, <2>6, <2>9, TurnDown
  <2> QED
    BY <2>3, <2>10, <2>11, <2>12
<1> QED
  BY <1>1, <1>2

-----------------------------------------------------------------------------
(* hcb_insert() and hcb_delete().                                          *)

LEMMA CritBit ==
  ASSUME NEW d1 \in [1..Bits -> {0, 1}], NEW d2 \in [1..Bits -> {0, 1}], d1 # d2
  PROVE  /\ hcb_crit_bit(d1, d2) \in 1..Bits /\ Agree(d1, d2, hcb_crit_bit(d1, d2))
         /\ d1[hcb_crit_bit(d1, d2)] # d2[hcb_crit_bit(d1, d2)]
<1> DEFINE T == {i \in 1..Bits : d1[i] # d2[i]}
<1>1. T \in SUBSET Nat /\ T # {}
  BY HashSlingerAssumption
<1>2. Min(T) \in T /\ \A i \in T : Min(T) <= i
  <2> HIDE DEF T
  <2> QED
    BY <1>1, LeastIndex
<1>3. hcb_crit_bit(d1, d2) = Min(T)
  BY DEF hcb_crit_bit
<1>4. ASSUME NEW i \in 1..Bits, i < Min(T) PROVE d1[i] = d2[i]
  <2>1. i \notin T
    <3>1. Min(T) \in Nat
      BY <1>2, HashSlingerAssumption
    <3> HIDE DEF T
    <3> QED
      BY <1>2, <1>4, <3>1
  <2> QED
    BY <2>1
<1> QED
  BY <1>2, <1>3, <1>4 DEF Agree

\* Above the place of the new node critical bits are smaller than its own.
LEMMA PlaceOK ==
  ASSUME NEW S, InTree(S), origo # Null, NEW d \in [1..Bits -> {0, 1}], NEW c \in 1..Bits,
         d[c] # oh[Path(d)[Bits]].digest[c]
  PROVE  /\ Place(d, c) \in 0..Bits
         /\ \A i \in 0..(Place(d, c) - 1) :
              /\ Path(d)[i] \in Trees(y) /\ y[Path(d)[i]].critbit < c
              /\ Path(d)[i + 1] = Turn(d, Path(d)[i])
         /\ Path(d)[Place(d, c)] \in Trees(y) \cup Hashed(oh)
         /\ Path(d)[Place(d, c)] \in Trees(y) => c < y[Path(d)[Place(d, c)]].critbit
<1> DEFINE T == {i \in 0..Bits : Path(d)[i] \in Objhead \/ y[Path(d)[i]].critbit > c}
           N == Place(d, c)
           q == Path(d)[Bits]
<1>1. T \in SUBSET Nat /\ Bits \in T
  BY PathInTree, HashSlingerAssumption DEF Hashed
<1>2. N \in T /\ \A i \in T : N <= i
  <2>1. N = Min(T)
    BY DEF Place
  <2>2. T # {}
    BY <1>1
  <2> HIDE DEF T, N
  <2> QED
    BY <1>1, <2>1, <2>2, LeastIndex
<1>3. N \in 0..Bits
  BY <1>2
<1>4. /\ Path(d)[N] \in Trees(y) \cup Hashed(oh)
      /\ Path(d)[N] \in Trees(y) => c < y[Path(d)[N]].critbit
  <2>1. Path(d)[N] \in Trees(y) \cup Hashed(oh)
    BY <1>3, PathInTree
  <2>2. Path(d)[N] \in Objhead \/ y[Path(d)[N]].critbit > c
    BY <1>2
  <2>3. Path(d)[N] \in Trees(y) => Path(d)[N] \notin Objhead /\ y[Path(d)[N]].critbit \in 1..Bits
    BY HashSlingerAssumption DEF Trees, InTree, NodesTyped
  <2> QED
    BY <2>1, <2>2, <2>3
<1>5. ASSUME NEW i \in 0..(N - 1)
      PROVE  /\ Path(d)[i] \in Trees(y) /\ y[Path(d)[i]].critbit < c
             /\ Path(d)[i + 1] = Turn(d, Path(d)[i])
  <2>1. i \in 0..Bits /\ i + 1 \in 0..Bits /\ i + 1 \in 1..Bits /\ (i + 1) - 1 = i /\ ~(N <= i)
    BY <1>3, HashSlingerAssumption
  <2>2. i \notin T
    <3> HIDE DEF T
    <3> QED
      BY <1>2, <2>1
  <2>3. Path(d)[i] \in Trees(y) /\ ~(y[Path(d)[i]].critbit > c)
    BY <2>1, <2>2, PathInTree DEF Hashed
  <2>4. Path(d)[i + 1] = Turn(d, Path(d)[i])
    BY <2>1, PathStep
  <2>5. q \in S[Turn(d, Path(d)[i])]
    BY <2>1, <2>4, PathShrinks
  <2>6. y[Path(d)[i]].critbit # c
    <3>1. oh[q].digest[y[Path(d)[i]].critbit] = d[y[Path(d)[i]].critbit]
      <4> DEFINE p == Path(d)[i]
      <4>1. p \in Trees(y) /\ q \in S[Turn(d, p)]
        BY <2>3, <2>5
      <4> HIDE DEF p, q, T, N
      <4>2. oh[q].digest[y[p].critbit] = d[y[p].critbit]
        BY <4>1, TurnBit
      <4> QED
        BY <4>2 DEF p
    <3> QED
      BY <3>1
  <2>7. y[Path(d)[i]].critbit \in 1..Bits
    BY <2>3 DEF Trees, InTree, NodesTyped
  <2> QED
    BY <2>3, <2>4, <2>6, <2>7
<1> QED
  BY <1>3, <1>4, <1>5

\* The types that the tree needs.
Heads == [Objhead -> [st : {"free", "hashed", "cool", "dead"}, digest : Digest, refcnt : Nat]]
Nodes == [Hcby -> [st : {"free", "tree", "cool", "dead"}, critbit : 1..Bits, leaf : [{0, 1} -> Ptr]]]
TreeTyped ==
  /\ y \in [Hcby -> [st : {"free", "tree", "cool", "dead"},
                     critbit : 1..Bits, leaf : [{0, 1} -> Ptr]]]
  /\ oh \in [Objhead -> [st : {"free", "hashed", "cool", "dead"}, digest : Digest, refcnt : Nat]]
  /\ origo \in Ptr

LEMMA TreeTypes ==
  ASSUME TreeTyped
  PROVE  /\ NodesTyped(y) /\ \A h \in Objhead : oh[h].digest \in [1..Bits -> {0, 1}]
         /\ Digest \subseteq [1..Bits -> {0, 1}]
BY HashSlingerAssumption DEF TreeTyped, NodesTyped

\* The nodes after hcb_insert(), by its place and its critical bit; what has changed.
NodesAfter(d, h, m, c, n) ==
  Linked([y EXCEPT ![m] = [st |-> "tree", critbit |-> c,
                           leaf |-> [b \in {0, 1} |-> IF b = d[c] THEN h ELSE Path(d)[n]]]],
         d, n, m)
Written(Z, d, h, m, c, N) ==
  /\ Z \in [Hcby -> [st : {"free", "tree", "cool", "dead"},
                     critbit : 1..Bits, leaf : [{0, 1} -> Ptr]]]
  /\ Z[m].st = "tree" /\ Z[m].critbit = c
  /\ Z[m].leaf[d[c]] = h /\ Z[m].leaf[1 - d[c]] = Path(d)[N]
  /\ \A n \in Hcby \ {m} :
       /\ Z[n].st = y[n].st /\ Z[n].critbit = y[n].critbit
       /\ \A b \in {0, 1} : Z[n].leaf[b] =
            IF N > 0 /\ n = Path(d)[N - 1] /\ b = d[y[n].critbit] THEN m ELSE y[n].leaf[b]

LEMMA InsertWrites ==
  ASSUME TreeTyped, NEW d, NEW h \in Objhead, NEW m \in Hcby, NEW c \in 1..Bits, NEW N \in 0..Bits,
         d \in [1..Bits -> {0, 1}], Path(d)[N] \in Ptr, N > 0 => Path(d)[N - 1] \in Hcby \ {m}
  PROVE  Written(NodesAfter(d, h, m, c, N), d, h, m, c, N)
<1> USE DEF Written
<1> DEFINE Z == NodesAfter(d, h, m, c, N)
<1> SUFFICES Written(Z, d, h, m, c, N)
  OBVIOUS
<1> DEFINE leaf == [b \in {0, 1} |-> IF b = d[c] THEN h ELSE Path(d)[N]]
           X == [y EXCEPT ![m] = [st |-> "tree", critbit |-> c, leaf |-> leaf]]
<1>1. d[c] \in {0, 1} /\ 1 - d[c] \in {0, 1} /\ 1 - d[c] # d[c]
  OBVIOUS
<1>2. leaf \in [{0, 1} -> Ptr] /\ leaf[d[c]] = h /\ leaf[1 - d[c]] = Path(d)[N]
  BY <1>1 DEF Ptr
<1> HIDE DEF leaf
<1>3. /\ X \in [Hcby -> [st : {"free", "tree", "cool", "dead"},
                         critbit : 1..Bits, leaf : [{0, 1} -> Ptr]]]
      /\ X[m] = [st |-> "tree", critbit |-> c, leaf |-> leaf]
      /\ \A n \in Hcby \ {m} : X[n] = y[n]
  BY <1>2 DEF TreeTyped
<1> HIDE DEF X
<1>4. Z = Linked(X, d, N, m)
  BY DEF X, leaf, NodesAfter
<1> HIDE DEF Z
<1>5. CASE N = 0
  <2>1. Z = X
    BY <1>4, <1>5 DEF Linked
  <2> QED
    BY <1>1, <1>2, <1>3, <1>5, <2>1
<1>6. CASE N > 0
  <2> DEFINE u == Path(d)[N - 1]
             e == d[y[u].critbit]
  <2>1. Z = [X EXCEPT ![u].leaf[e] = m] /\ u \in Hcby /\ u # m
    <3>1. u \in Hcby /\ u # m /\ N # 0
      BY <1>6
    <3>2. Z = [X EXCEPT ![u].leaf[e] = m]
      BY <1>4, <3>1 DEF Linked
    <3> QED
      BY <3>1, <3>2
  <2>2. e \in {0, 1}
    BY <2>1 DEF TreeTyped
  <2> HIDE DEF u, e
  <2>3. /\ Z \in [Hcby -> [st : {"free", "tree", "cool", "dead"},
                           critbit : 1..Bits, leaf : [{0, 1} -> Ptr]]]
        /\ \A n \in Hcby \ {u} : Z[n] = X[n]
        /\ Z[u] = [X[u] EXCEPT !.leaf[e] = m]
    BY <1>3, <2>1, <2>2 DEF Ptr
  <2>4. /\ Z[u].st = y[u].st /\ Z[u].critbit = y[u].critbit
        /\ \A b \in {0, 1} : Z[u].leaf[b] = IF b = e THEN m ELSE y[u].leaf[b]
    <3>1. X[u] = y[u]
      BY <1>3, <2>1
    <3>2. y[u] \in [st : {"free", "tree", "cool", "dead"}, critbit : 1..Bits, leaf : [{0, 1} -> Ptr]]
      BY <2>1 DEF TreeTyped
    <3>3. Z[u].st = y[u].st /\ Z[u].critbit = y[u].critbit /\ Z[u].leaf = [y[u].leaf EXCEPT ![e] = m]
      BY <2>3, <3>1, <3>2
    <3> QED
      BY <3>2, <3>3
  <2>5. Z[m] = [st |-> "tree", critbit |-> c, leaf |-> leaf]
    BY <1>3, <2>1, <2>3
  <2>6. \A n \in Hcby \ {m} :
              /\ Z[n].st = y[n].st /\ Z[n].critbit = y[n].critbit
              /\ \A b \in {0, 1} : Z[n].leaf[b] =
                   IF N > 0 /\ n = u /\ b = d[y[n].critbit] THEN m ELSE y[n].leaf[b]
    BY <1>3, <1>6, <2>3, <2>4 DEF e
  <2> QED
    BY <1>2, <2>3, <2>5, <2>6 DEF u
<1> QED
  BY <1>5, <1>6

\* hcb_insert(d, h, m, q), where Z and s are the nodes and the root after it.
Inserts(d, h, m, q, Z, s) ==
  LET c == hcb_crit_bit(d, oh[q].digest)
      n == Place(d, c)
  IN Z = NodesAfter(d, h, m, c, n) /\ s = Root(n, m)

\* hcb_insert() next to another objhead: the tree stays in order, and nodes
\* outside of the tree stay as they are.
InsertDone(Q, Z, s, m) ==
  /\ \E R : Tree(Q, Z, s, R)
  /\ Z \in Nodes /\ s \in Ptr /\ Z[m].st = "tree"
  /\ \A n \in Hcby \ {m} :
       /\ Z[n].st = y[n].st
       /\ n \notin Trees(y) => \A b \in {0, 1} : Z[n].leaf[b] = y[n].leaf[b]

LEMMA InsertKeepsTree ==
  ASSUME TreeTyped, NEW S, Tree(oh, y, origo, S), origo # Null, NEW d \in Digest,
         oh[Path(d)[Bits]].digest # d,
         NEW h \in Objhead, oh[h].st = "free", NEW m \in Hcby, y[m].st = "free",
         NEW Q, NEW Z, NEW s,
         Q \in Heads, Q[h].st = "hashed", Q[h].digest = d, \A g \in Objhead \ {h} : Q[g] = oh[g],
         Inserts(d, h, m, Path(d)[Bits], Z, s)
  PROVE  InsertDone(Q, Z, s, m)
<1> DEFINE q == Path(d)[Bits]
           c == hcb_crit_bit(d, oh[q].digest)
           N == Place(d, c)
           k == Path(d)[N]
           A == {Path(d)[i] : i \in 0..(N - 1)}
<1>1. /\ InTree(S) /\ d \in [1..Bits -> {0, 1}] /\ Bits \in Nat
      /\ \A g \in Objhead : oh[g].digest \in [1..Bits -> {0, 1}]
  BY TreeTypes, HashSlingerAssumption DEF InTree
<1>2. q \in Hashed(oh) /\ oh[q].digest \in [1..Bits -> {0, 1}]
  BY <1>1, PathInTree DEF Hashed
<1>3. c \in 1..Bits /\ Agree(d, oh[q].digest, c) /\ d[c] # oh[q].digest[c]
  <2> HIDE DEF q
  <2>1. oh[q].digest # d
    BY DEF q
  <2> QED
    BY <1>1, <1>2, <2>1, CritBit
<1> HIDE DEF c
<1>4. /\ N \in 0..Bits
      /\ \A i \in 0..(N - 1) :
           /\ Path(d)[i] \in Trees(y) /\ y[Path(d)[i]].critbit < c
           /\ Path(d)[i + 1] = Turn(d, Path(d)[i])
      /\ k \in Trees(y) \cup Hashed(oh)
      /\ k \in Trees(y) => c < y[k].critbit
  BY <1>1, <1>3, PlaceOK
<1>5. Z = NodesAfter(d, h, m, c, N) /\ s = Root(N, m)
  BY DEF c, Inserts
<1>6. k \in Ptr /\ h \notin Hashed(oh) /\ m \notin Trees(y)
  BY <1>4 DEF Trees, Hashed, Ptr
<1>7. N > 0 => N - 1 \in 0..(N - 1) /\ (N - 1) + 1 = N /\ Path(d)[N - 1] \in Trees(y)
  BY <1>4
<1>8. N > 0 => Path(d)[N - 1] \in Hcby \ {m}
  BY <1>6, <1>7 DEF Trees
<1>9. /\ Z \in [Hcby -> [st : {"free", "tree", "cool", "dead"},
                            critbit : 1..Bits, leaf : [{0, 1} -> Ptr]]]
      /\ Z[m].st = "tree" /\ Z[m].critbit = c
      /\ Z[m].leaf[d[c]] = h /\ Z[m].leaf[1 - d[c]] = k
      /\ \A n \in Hcby \ {m} :
           /\ Z[n].st = y[n].st /\ Z[n].critbit = y[n].critbit
           /\ \A b \in {0, 1} : Z[n].leaf[b] =
                IF N > 0 /\ n = Path(d)[N - 1] /\ b = d[y[n].critbit] THEN m ELSE y[n].leaf[b]
  <2>1. Path(d)[N] \in Ptr
    BY <1>6
  <2> HIDE DEF N, A
  <2> QED
    <3>1. Written(Z, d, h, m, c, N)
      BY <1>1, <1>3, <1>4, <1>5, <2>1, <1>8, InsertWrites
    <3> QED
      BY <3>1 DEF Written
<1>10. s = IF N = 0 THEN m ELSE origo
  BY <1>5 DEF Root
<1> HIDE DEF N, q
<1>11. Path(d)[0] = origo /\ \A i \in 0..Bits : q \in S[Path(d)[i]]
  BY <1>1, PathStep, PathShrinks DEF q
<1>12. Trees(Z) = Trees(y) \cup {m} /\ Hashed(Q) = Hashed(oh) \cup {h}
  <2>1. Z[m].st = "tree" /\ \A n \in Hcby \ {m} : Z[n].st = y[n].st
    BY <1>9
  <2> QED
    BY <2>1 DEF Trees, Hashed
<1>13. A \in SUBSET Trees(y) /\ k \notin A /\ origo \in A \cup {k}
  <2>1. A \in SUBSET Trees(y)
    BY <1>4
  <2>2. ASSUME NEW i \in 0..(N - 1), k = Path(d)[i] PROVE FALSE
    <3>1. k \in Trees(y) /\ y[k].critbit < c /\ c < y[k].critbit /\ y[k].critbit \in 1..Bits
      BY <1>1, <1>4, <2>2 DEF InTree, NodesTyped, Trees
    <3> QED
      BY <1>3, <3>1
  <2>3. origo \in A \cup {k}
    <3>1. CASE N = 0
      BY <1>11, <3>1
    <3>2. CASE N > 0
      <4>1. 0 \in 0..(N - 1)
        BY <1>4, <3>2
      <4> QED
        BY <1>11, <4>1
    <3> QED
      BY <1>4, <3>1, <3>2
  <2> QED
    BY <2>1, <2>2, <2>3
<1>14. \A n \in A : y[n].critbit < c /\ q \in S[n] /\ y[n].leaf[d[y[n].critbit]] \in A \cup {k}
  <2> SUFFICES ASSUME NEW i \in 0..(N - 1)
               PROVE  LET n == Path(d)[i]
                      IN y[n].critbit < c /\ q \in S[n] /\ y[n].leaf[d[y[n].critbit]] \in A \cup {k}
    OBVIOUS
  <2> DEFINE n == Path(d)[i]
  <2>1. n \in Trees(y) /\ y[n].critbit < c /\ Path(d)[i + 1] = Turn(d, n) /\ i \in 0..Bits
    BY <1>1, <1>4
  <2>2. q \in S[n]
    BY <1>11, <2>1
  <2>3. Path(d)[i + 1] \in A \cup {k}
    <3>1. i + 1 = N \/ i + 1 \in 0..(N - 1)
      BY <1>4
    <3> QED
      BY <3>1
  <2> HIDE DEF n
  <2>4. Turn(d, n) = y[n].leaf[d[y[n].critbit]]
    BY <1>1, <2>1, TurnDown
  <2>5. y[n].critbit < c /\ q \in S[n] /\ y[n].leaf[d[y[n].critbit]] \in A \cup {k}
    BY <2>1, <2>2, <2>3, <2>4
  <2> QED
    BY <2>5 DEF n
<1>15. ASSUME NEW n \in Trees(y), NEW b \in {0, 1}, NEW i \in 0..N, y[n].leaf[b] = Path(d)[i]
       PROVE  i > 0 /\ n = Path(d)[i - 1] /\ b = d[y[n].critbit]
  <2>1. y[n].leaf[b] # origo
    BY DEF Tree, NodeOK
  <2>2. i > 0 /\ i - 1 \in 0..(N - 1) /\ (i - 1) + 1 = i
    BY <1>4, <1>11, <1>15, <2>1
  <2> DEFINE u == Path(d)[i - 1]
  <2>3. u \in Trees(y) /\ Path(d)[i] = Turn(d, u)
    BY <1>4, <2>2
  <2> HIDE DEF u
  <2>4. d[y[u].critbit] \in {0, 1} /\ Turn(d, u) = y[u].leaf[d[y[u].critbit]]
    BY <1>1, <2>3, TurnDown
  <2>5. n = u /\ b = d[y[u].critbit]
    BY <1>15, <2>3, <2>4 DEF Tree, OneParent
  <2> QED
    BY <2>2, <2>5 DEF u
<1>16. \A n \in Trees(y), b \in {0, 1} :
           y[n].leaf[b] \in A \cup {k} => n \in A /\ b = d[y[n].critbit]
  <2> SUFFICES ASSUME NEW n \in Trees(y), NEW b \in {0, 1}, y[n].leaf[b] \in A \cup {k}
               PROVE  n \in A /\ b = d[y[n].critbit]
    OBVIOUS
  <2>1. PICK i \in 0..N : y[n].leaf[b] = Path(d)[i]
    BY <1>4
  <2>2. i > 0 /\ n = Path(d)[i - 1] /\ b = d[y[n].critbit]
    BY <1>15, <2>1
  <2>3. i - 1 \in 0..(N - 1)
    BY <1>4, <2>2
  <2> QED
    BY <2>2, <2>3
<1>17. \A n \in Trees(y), b \in {0, 1} :
           Z[n].leaf[b] = IF y[n].leaf[b] = k THEN m ELSE y[n].leaf[b]
  <2> SUFFICES ASSUME NEW n \in Trees(y), NEW b \in {0, 1}
               PROVE  Z[n].leaf[b] = IF y[n].leaf[b] = k THEN m ELSE y[n].leaf[b]
    OBVIOUS
  <2>1. n \in Hcby \ {m}
    BY <1>6 DEF Trees
  <2>2. N \in 0..N
    BY <1>4
  <2>3. y[n].leaf[b] = k => N > 0 /\ n = Path(d)[N - 1] /\ b = d[y[n].critbit]
    BY <1>15, <2>2
  <2>4. N > 0 /\ n = Path(d)[N - 1] /\ b = d[y[n].critbit] => y[n].leaf[b] = k
    <3> SUFFICES ASSUME N > 0, n = Path(d)[N - 1], b = d[y[n].critbit]
                 PROVE  y[n].leaf[b] = k
      OBVIOUS
    <3>1. k = Turn(d, n)
      BY <1>4, <1>7
    <3> QED
      BY <3>1, <1>1, TurnDown
  <2>5. Z[n].leaf[b] =
          IF N > 0 /\ n = Path(d)[N - 1] /\ b = d[y[n].critbit] THEN m ELSE y[n].leaf[b]
    BY <1>9, <2>1
  <2> HIDE DEF k
  <2> QED
    BY <2>3, <2>4, <2>5
<1>18. s = IF origo = k THEN m ELSE origo
  <2>1. N = 0 => origo = k
    BY <1>11
  <2>2. N > 0 => origo # k
    <3> SUFFICES ASSUME N > 0 PROVE origo # k
      OBVIOUS
    <3>1. 0 \in 0..(N - 1)
      BY <1>4
    <3>2. origo \in A
      BY <1>11, <3>1
    <3> QED
      BY <1>13, <3>2
  <2> QED
    BY <1>4, <1>10, <2>1, <2>2
<1>19. q \in S[k] /\ NodesTyped(y)
  BY <1>1, <1>4, <1>11 DEF InTree
<1>20. \A n \in Trees(y) : Z[n].critbit = y[n].critbit
  BY <1>6, <1>9 DEF Trees
<1>21. \A g \in Hashed(oh) : Q[g].digest = oh[g].digest
  BY <1>6 DEF Hashed
<1> HIDE DEF k, A
<1>22. \E R : Tree(Q, Z, s, R)
  <2>1. InsertOf(oh, y, origo, S, Q, Z, s, h, m, d, c, q, k, A)
    BY <1>1, <1>2, <1>3, <1>4, <1>6, <1>9, <1>12, <1>13, <1>14, <1>16, <1>17, <1>18, <1>19,
       <1>20, <1>21 DEF InsertOf
  <2> QED
    BY <1>19, <2>1, TreeInsert
<1>23. s \in Ptr
  BY <1>10 DEF TreeTyped, Ptr
<1>24. ASSUME NEW n \in Hcby \ {m}
       PROVE  /\ Z[n].st = y[n].st
              /\ n \notin Trees(y) => \A b \in {0, 1} : Z[n].leaf[b] = y[n].leaf[b]
  <2>1. /\ Z[n].st = y[n].st
        /\ \A b \in {0, 1} : Z[n].leaf[b] =
             IF N > 0 /\ n = Path(d)[N - 1] /\ b = d[y[n].critbit] THEN m ELSE y[n].leaf[b]
    BY <1>9
  <2>2. ASSUME n \notin Trees(y), NEW b \in {0, 1} PROVE Z[n].leaf[b] = y[n].leaf[b]
    <3>1. ~(N > 0 /\ n = Path(d)[N - 1])
      BY <1>7, <2>2
    <3> QED
      BY <2>1, <3>1
  <2> QED
    BY <2>1, <2>2
<1> QED
  BY <1>9, <1>22, <1>23, <1>24 DEF InsertDone, Nodes

\* The nodes after hcb_delete() took node u, the N-th on the path, out and put k
\* in its place; what has changed.
NodesWithout(d, u, N, k) == Linked([y EXCEPT ![u] = Cooled(@)], d, N, k)
Removed(Z, d, u, N, k) ==
  /\ Z \in [Hcby -> [st : {"free", "tree", "cool", "dead"},
                     critbit : 1..Bits, leaf : [{0, 1} -> Ptr]]]
  /\ Z[u].st = "cool" /\ Z[u].critbit = y[u].critbit
  /\ \A b \in {0, 1} : Z[u].leaf[b] = y[u].leaf[b]
  /\ \A n \in Hcby \ {u} :
       /\ Z[n].st = y[n].st /\ Z[n].critbit = y[n].critbit
       /\ \A b \in {0, 1} : Z[n].leaf[b] =
            IF N > 0 /\ n = Path(d)[N - 1] /\ b = d[y[n].critbit] THEN k ELSE y[n].leaf[b]

LEMMA DeleteWrites ==
  ASSUME TreeTyped, NEW d \in [1..Bits -> {0, 1}], NEW u \in Hcby, NEW N \in 0..Bits, NEW k \in Ptr,
         N > 0 => Path(d)[N - 1] \in Hcby \ {u}
  PROVE  Removed(NodesWithout(d, u, N, k), d, u, N, k)
<1> USE DEF Removed
<1> DEFINE Z == NodesWithout(d, u, N, k)
           X == [y EXCEPT ![u] = Cooled(@)]
<1> SUFFICES Removed(Z, d, u, N, k)
  OBVIOUS
<1>1. /\ X \in [Hcby -> [st : {"free", "tree", "cool", "dead"},
                         critbit : 1..Bits, leaf : [{0, 1} -> Ptr]]]
      /\ X[u].st = "cool" /\ X[u].critbit = y[u].critbit /\ X[u].leaf = y[u].leaf
      /\ \A n \in Hcby \ {u} : X[n] = y[n]
  BY DEF TreeTyped, Cooled
<1> HIDE DEF X
<1>2. Z = Linked(X, d, N, k)
  BY DEF X, NodesWithout
<1> HIDE DEF Z
<1>3. CASE N = 0
  <2>1. Z = X
    BY <1>2, <1>3 DEF Linked
  <2> QED
    BY <1>1, <1>3, <2>1
<1>4. CASE N > 0
  <2> DEFINE v == Path(d)[N - 1]
             e == d[y[v].critbit]
  <2>1. Z = [X EXCEPT ![v].leaf[e] = k] /\ v \in Hcby /\ v # u
    <3>1. v \in Hcby /\ v # u /\ N # 0
      BY <1>4
    <3>2. Z = [X EXCEPT ![v].leaf[e] = k]
      BY <1>2, <3>1 DEF Linked
    <3> QED
      BY <3>1, <3>2
  <2>2. e \in {0, 1}
    BY <2>1 DEF TreeTyped
  <2> HIDE DEF v, e
  <2>3. /\ Z \in [Hcby -> [st : {"free", "tree", "cool", "dead"},
                           critbit : 1..Bits, leaf : [{0, 1} -> Ptr]]]
        /\ \A n \in Hcby \ {v} : Z[n] = X[n]
        /\ Z[v] = [X[v] EXCEPT !.leaf[e] = k]
    BY <1>1, <2>1, <2>2 DEF Ptr
  <2>4. /\ Z[v].st = y[v].st /\ Z[v].critbit = y[v].critbit
        /\ \A b \in {0, 1} : Z[v].leaf[b] = IF b = e THEN k ELSE y[v].leaf[b]
    <3>1. X[v] = y[v]
      BY <1>1, <2>1
    <3>2. y[v] \in [st : {"free", "tree", "cool", "dead"}, critbit : 1..Bits, leaf : [{0, 1} -> Ptr]]
      BY <2>1 DEF TreeTyped
    <3>3. Z[v].st = y[v].st /\ Z[v].critbit = y[v].critbit /\ Z[v].leaf = [y[v].leaf EXCEPT ![e] = k]
      BY <2>3, <3>1, <3>2
    <3> QED
      BY <3>2, <3>3
  <2>5. Z[u] = X[u]
    BY <2>1, <2>3
  <2>6. \A n \in Hcby \ {u} :
              /\ Z[n].st = y[n].st /\ Z[n].critbit = y[n].critbit
              /\ \A b \in {0, 1} : Z[n].leaf[b] =
                   IF N > 0 /\ n = v /\ b = d[y[n].critbit] THEN k ELSE y[n].leaf[b]
    <3>1. \A n \in Hcby \ {u} : n # v => Z[n] = y[n]
      BY <1>1, <2>3
    <3>2. \A b \in {0, 1} : Z[v].leaf[b] =
            IF N > 0 /\ b = d[y[v].critbit] THEN k ELSE y[v].leaf[b]
      BY <1>4, <2>4 DEF e
    <3> HIDE DEF Removed
    <3> QED
      BY <2>4, <3>1, <3>2
  <2> QED
    BY <1>1, <2>3, <2>5, <2>6 DEF v
<1> QED
  BY <1>3, <1>4

\* hcb_delete(h), where Z and s are the nodes and the root after it.
Deletes(h, Z, s) ==
  LET d   == oh[h].digest
      n   == Min({i \in 0..Bits : Path(d)[i] = h})
      up  == Path(d)[n - 1]
      sib == y[up].leaf[1 - d[y[up].critbit]]
  IN IF n = 0 THEN s = Null /\ Z = y
     ELSE Z = NodesWithout(d, up, n - 1, sib) /\ s = Root(n - 1, sib)

DeleteDone(Q, Z, s) ==
  /\ \E R : Tree(Q, Z, s, R)
  /\ Z \in Nodes /\ s \in Ptr
  /\ \A n \in Hcby \ Trees(Z) :
       /\ Z[n].st = IF n \in Trees(y) THEN "cool" ELSE y[n].st
       /\ \A b \in {0, 1} : Z[n].leaf[b] = y[n].leaf[b]
  /\ Trees(Z) \subseteq Trees(y)

CooledHead(Q, h) == Q[h].st = "cool" /\ \A g \in Objhead \ {h} : Q[g] = oh[g]

LEMMA DeleteKeepsTree ==
  ASSUME TreeTyped, NEW S, Tree(oh, y, origo, S), NEW h \in Hashed(oh), NEW Q, NEW Z, NEW s,
         CooledHead(Q, h), Deletes(h, Z, s)
  PROVE  DeleteDone(Q, Z, s)
<1> DEFINE d == oh[h].digest
           T == {i \in 0..Bits : Path(d)[i] = h}
           n == Min(T)
           u == Path(d)[n - 1]
           e == d[y[u].critbit]
           k == y[u].leaf[1 - e]
<1>1. /\ InTree(S) /\ d \in [1..Bits -> {0, 1}] /\ Bits \in Nat /\ h \in Objhead
      /\ h \notin Hcby /\ Null # h
  BY TreeTypes, HashSlingerAssumption DEF InTree, Hashed
<1>2. origo # Null /\ Path(d)[Bits] = h
  BY <1>1, PathFinds
<1>3. n \in T /\ \A i \in T : n <= i
  <2>1. T \in SUBSET Nat /\ Bits \in T
    BY <1>1, <1>2
  <2>2. T # {}
    BY <2>1
  <2> HIDE DEF T
  <2> QED
    BY <2>1, <2>2, LeastIndex
<1>4. n \in 0..Bits /\ Path(d)[n] = h
  BY <1>3, Zenon
<1> HIDE DEF n, T
<1>5. Hashed(Q) = Hashed(oh) \ {h} /\ \A g \in Hashed(Q) : Q[g].digest = oh[g].digest
  BY Zenon DEF Hashed, CooledHead
<1>6. IF n = 0 THEN s = Null /\ Z = y
      ELSE Z = NodesWithout(d, u, n - 1, k) /\ s = Root(n - 1, k)
  BY Zenon DEF Deletes, n, T
<1>7. CASE n = 0
  <2>1. origo = h
    BY <1>4, <1>7, PathStep
  <2>2. s = Null /\ Z = y
    BY <1>6, <1>7
  <2>3. \E R : Tree(Q, y, Null, R)
    BY <1>5, <2>1, TreeLast
  <2> QED
    BY <2>2, <2>3 DEF TreeTyped, Trees, Ptr, DeleteDone, Nodes
<1>8. CASE n # 0
  <2> DEFINE N == n - 1
  <2>1. /\ N \in 0..Bits /\ N + 1 = n /\ n \in 1..Bits /\ ~(n <= N)
        /\ N > 0 => N - 1 \in 0..Bits /\ N \in 1..Bits
    BY <1>1, <1>4, <1>8, SMTT(30)
  <2>2. Path(d)[n] = Turn(d, u) /\ u \in Trees(y) \cup Hashed(oh)
    BY <1>1, <1>2, <2>1, PathStep, PathInTree, Zenon
  <2>3. u \in Trees(y)
    <3>1. N \notin T
      BY <1>3, <2>1
    <3>2. u # h
      BY <2>1, <3>1 DEF T
    <3>3. u \in Hashed(oh) => u \notin Hcby
      BY HashSlingerAssumption DEF Hashed
    <3> QED
      BY <1>4, <2>2, <3>2, <3>3, Zenon DEF Turn
  <2> HIDE DEF n
  <2>4. /\ e \in {0, 1} /\ y[u].leaf[e] = h /\ 1 - e \in {0, 1}
    <3> HIDE DEF u
    <3>1. e \in {0, 1} /\ y[u].leaf[e] = h
      BY <1>1, <1>4, <2>2, <2>3, TurnDown, Zenon
    <3> QED
      BY <3>1
  <2>5. u \in Hcby /\ k \in Ptr
    <3> HIDE DEF u, e
    <3> QED
      BY <2>3, <2>4, Zenon DEF Trees, TreeTyped
  <2> DEFINE v == Path(d)[N - 1]
  <2>6. N > 0 => v \in Trees(y) /\ u = Turn(d, v)
    <3> SUFFICES ASSUME N > 0 PROVE v \in Trees(y) /\ u = Turn(d, v)
      OBVIOUS
    <3>1. u = Turn(d, v) /\ v \in Trees(y) \cup Hashed(oh)
      BY <1>1, <1>2, <2>1, PathStep, PathInTree
    <3>2. v \in Hashed(oh) => v \notin Hcby /\ v \notin Trees(y)
      BY HashSlingerAssumption DEF Hashed, Trees
    <3>3. u \notin Hashed(oh)
      BY <2>3, HashSlingerAssumption DEF Hashed, Trees
    <3> QED
      BY <3>1, <3>2, <3>3, Zenon DEF Turn
  <2> HIDE DEF u, e, k, v
  <2>7. N > 0 => /\ d[y[v].critbit] \in {0, 1} /\ u = y[v].leaf[d[y[v].critbit]]
                 /\ y[v].critbit < y[u].critbit
    BY <1>1, <2>3, <2>6, TurnDown
  <2>8. N > 0 => v # u /\ v \in Hcby
    <3>1. y[u].critbit \in Nat
      BY <1>1, <2>5 DEF InTree, NodesTyped
    <3> QED
      BY <2>6, <2>7, <3>1 DEF Trees
  <2>9. Removed(Z, d, u, N, k)
    <3>1. Z = NodesWithout(d, u, N, k)
      BY <1>6, <1>8
    <3>2. N > 0 => Path(d)[N - 1] \in Hcby \ {u}
      BY <2>8 DEF v
    <3> QED
      BY <1>1, <2>1, <2>5, <3>1, <3>2, DeleteWrites
  <2>10. /\ \A x \in Hcby \ {u} :
              /\ Z[x].st = y[x].st /\ Z[x].critbit = y[x].critbit
              /\ \A b \in {0, 1} : Z[x].leaf[b] =
                   IF N > 0 /\ x = v /\ b = d[y[x].critbit] THEN k ELSE y[x].leaf[b]
         /\ Z[u].st = "cool" /\ \A b \in {0, 1} : Z[u].leaf[b] = y[u].leaf[b]
    BY <2>9 DEF Removed, v
  <2>11. s = IF N = 0 THEN k ELSE origo
    BY <1>6, <1>8 DEF Root
  <2>12. Trees(Z) = Trees(y) \ {u}
    <3>1. Z[u].st = "cool" /\ \A x \in Hcby \ {u} : Z[x].st = y[x].st
      BY <2>10
    <3> QED
      BY <2>5, <3>1 DEF Trees
  <2>13. s = IF origo = u THEN k ELSE origo
    <3>1. N = 0 => origo = u
      BY <2>1, PathStep DEF u
    <3>2. N > 0 => u # origo
      <4>1. N > 0 => NodeOK(oh, y, origo, S, v)
        BY <2>6 DEF Tree
      <4> QED
        BY <2>7, <4>1 DEF NodeOK
    <3> QED
      BY <2>1, <2>11, <3>1, <3>2
  <2>14. ASSUME NEW x \in Trees(Z), NEW b \in {0, 1}
         PROVE  Z[x].leaf[b] = IF y[x].leaf[b] = u THEN k ELSE y[x].leaf[b]
    <3>1. x \in Trees(y) /\ x # u /\ x \in Hcby
      BY <2>12 DEF Trees
    <3>2. Z[x].leaf[b] = IF N > 0 /\ x = v /\ b = d[y[x].critbit] THEN k ELSE y[x].leaf[b]
      BY <2>10, <3>1
    <3>3. N > 0 /\ x = v /\ b = d[y[x].critbit] => y[x].leaf[b] = u
      BY <2>7
    <3>4. y[x].leaf[b] = u => N > 0 /\ x = v /\ b = d[y[x].critbit]
      <4> SUFFICES ASSUME y[x].leaf[b] = u PROVE N > 0 /\ x = v /\ b = d[y[x].critbit]
        OBVIOUS
      <4>1. u # origo
        BY <3>1 DEF Tree, NodeOK
      <4>2. N > 0
        BY <2>1, <4>1, PathStep DEF u
      <4> QED
        BY <2>6, <2>7, <3>1, <4>2 DEF Tree, OneParent
    <3> QED
      BY <3>2, <3>3, <3>4
  <2>15. \E R : Tree(Q, Z, s, R)
    <3>1. DeleteOf(oh, y, origo, Q, Z, s, h, u, e, k)
      <4>1. k = y[u].leaf[1 - e]
        BY DEF k
      <4>2. \A x \in Trees(Z) : Z[x].critbit = y[x].critbit
        BY <2>10, <2>12 DEF Trees
      <4> QED
        BY <1>5, <2>3, <2>4, <2>12, <2>13, <2>14, <4>1, <4>2 DEF DeleteOf
    <3> QED
      BY <1>1, <3>1, TreeDelete DEF InTree
  <2>16. ASSUME NEW x \in Hcby \ Trees(Z)
         PROVE  /\ Z[x].st = IF x \in Trees(y) THEN "cool" ELSE y[x].st
                /\ \A b \in {0, 1} : Z[x].leaf[b] = y[x].leaf[b]
    <3>1. CASE x = u
      BY <2>3, <2>10, <3>1
    <3>2. CASE x # u
      <4>1. x \notin Trees(y) /\ ~(N > 0 /\ x = v)
        BY <2>6, <2>12, <3>2
      <4> QED
        BY <2>10, <3>2, <4>1
    <3> QED
      BY <3>1, <3>2
  <2>17. s \in Ptr
    BY <2>5, <2>11 DEF TreeTyped
  <2>18. Z \in [Hcby -> [st : {"free", "tree", "cool", "dead"},
                            critbit : 1..Bits, leaf : [{0, 1} -> Ptr]]]
    BY <2>9 DEF Removed
  <2> QED
    BY <2>12, <2>15, <2>16, <2>17, <2>18 DEF DeleteDone, Nodes
<1> QED
  BY <1>7, <1>8

-----------------------------------------------------------------------------
(* The sorted lists.                                                       *)

\* memcmp() orders the digests.
LEMMA LessIsOrder ==
  /\ \A d \in [1..Bits -> {0, 1}] : ~Less(d, d)
  /\ \A d1, d2, d3 \in [1..Bits -> {0, 1}] : Less(d1, d2) /\ Less(d2, d3) => Less(d1, d3)
  /\ \A d1, d2 \in [1..Bits -> {0, 1}] : d1 # d2 => Less(d1, d2) \/ Less(d2, d1)
<1>1. ASSUME NEW d \in [1..Bits -> {0, 1}] PROVE ~Less(d, d)
  BY DEF Less
<1>2. ASSUME NEW d1 \in [1..Bits -> {0, 1}], NEW d2 \in [1..Bits -> {0, 1}],
             NEW d3 \in [1..Bits -> {0, 1}], Less(d1, d2), Less(d2, d3)
      PROVE  Less(d1, d3)
  <2>1. PICK i \in 1..Bits : d1[i] < d2[i] /\ \A l \in 1..(i - 1) : d1[l] = d2[l]
    BY <1>2 DEF Less
  <2>2. PICK j \in 1..Bits : d2[j] < d3[j] /\ \A l \in 1..(j - 1) : d2[l] = d3[l]
    BY <1>2 DEF Less
  <2>3. CASE i < j
    <3>1. i \in 1..(j - 1) /\ \A l \in 1..(i - 1) : l \in 1..(j - 1)
      BY <2>3, HashSlingerAssumption
    <3>2. d1[i] < d3[i] /\ \A l \in 1..(i - 1) : d1[l] = d3[l]
      BY <2>1, <2>2, <3>1
    <3> QED
      BY <3>2 DEF Less
  <2>4. CASE j < i
    <3>1. j \in 1..(i - 1) /\ \A l \in 1..(j - 1) : l \in 1..(i - 1)
      BY <2>4, HashSlingerAssumption
    <3>2. d1[j] < d3[j] /\ \A l \in 1..(j - 1) : d1[l] = d3[l]
      BY <2>1, <2>2, <3>1
    <3> QED
      BY <3>2 DEF Less
  <2>5. CASE i = j
    <3>1. d1[i] \in {0, 1} /\ d2[i] \in {0, 1} /\ d3[i] \in {0, 1}
      OBVIOUS
    <3>2. d1[i] < d3[i] /\ \A l \in 1..(i - 1) : d1[l] = d3[l]
      BY <2>1, <2>2, <2>5, <3>1
    <3> QED
      BY <3>2 DEF Less
  <2> QED
    BY <2>3, <2>4, <2>5, HashSlingerAssumption
<1>3. ASSUME NEW d1 \in [1..Bits -> {0, 1}], NEW d2 \in [1..Bits -> {0, 1}], d1 # d2
      PROVE  Less(d1, d2) \/ Less(d2, d1)
  <2> DEFINE c == hcb_crit_bit(d1, d2)
  <2>1. c \in 1..Bits /\ Agree(d1, d2, c) /\ d1[c] # d2[c]
    BY <1>3, CritBit
  <2> HIDE DEF c
  <2>2. \A l \in 1..(c - 1) : d1[l] = d2[l]
    <3>1. \A l \in 1..(c - 1) : l \in 1..Bits /\ l < c
      BY <2>1, HashSlingerAssumption
    <3> QED
      BY <2>1, <3>1 DEF Agree
  <2>3. d1[c] < d2[c] \/ d2[c] < d1[c]
    <3>1. d1[c] \in {0, 1} /\ d2[c] \in {0, 1}
      BY <2>1
    <3> QED
      BY <2>1, <3>1
  <2> QED
    BY <2>1, <2>2, <2>3 DEF Less
<1> QED
  BY <1>1, <1>2, <1>3

\* A list of objheads in the order of their digests.
Sorted(O, list) ==
  \A i, j \in 1..Len(list) : i < j => Less(O[list[i]].digest, O[list[j]].digest)

HeadsTyped(O) == \A h \in Objhead : O[h].digest \in [1..Bits -> {0, 1}]

\* The loop of hcl_lookup() and hsl_lookup().
LEMMA SearchOK ==
  ASSUME NEW list \in Seq(Objhead), HeadsTyped(oh), Sorted(oh, list), NEW d \in [1..Bits -> {0, 1}]
  PROVE  LET i == Search(list, d)
             p == IF i = 0 THEN Len(list) + 1 ELSE i
         IN /\ i \in 0..Len(list) /\ p \in 1..(Len(list) + 1)
            /\ \A j \in 1..(p - 1) : Less(oh[list[j]].digest, d)
            /\ i = 0 \/ oh[list[i]].digest # d =>
                 \A j \in p..Len(list) : Less(d, oh[list[j]].digest)
<1> DEFINE i == Search(list, d)
           p == IF i = 0 THEN Len(list) + 1 ELSE i
           I == {j \in 1..Len(list) : ~Less(oh[list[j]].digest, d)}
<1>1. i = IF I # {} THEN Min(I) ELSE 0
  BY DEF Search, SelectInSeq
<1>2. I \in SUBSET Nat /\ Len(list) \in Nat
  OBVIOUS
<1>3. CASE I = {}
  <2>1. i = 0 /\ p = Len(list) + 1 /\ p - 1 = Len(list)
    BY <1>1, <1>2, <1>3
  <2>2. \A j \in 1..Len(list) : Less(oh[list[j]].digest, d)
    BY <1>3
  <2> QED
    BY <1>2, <2>1, <2>2
<1>4. CASE I # {}
  <2>1. i \in I /\ \A j \in I : i <= j
    <3> HIDE DEF I
    <3> QED
      BY <1>1, <1>2, <1>4, LeastIndex
  <2> HIDE DEF i
  <2>2. i \in 1..Len(list) /\ p = i /\ ~Less(oh[list[i]].digest, d)
    BY <2>1
  <2>3. ASSUME NEW j \in 1..(i - 1) PROVE Less(oh[list[j]].digest, d)
    <3>1. j \in 1..Len(list) /\ ~(i <= j)
      BY <1>2, <2>2
    <3>2. j \notin I
      <4> HIDE DEF I
      <4> QED
        BY <2>1, <3>1
    <3> QED
      BY <3>1, <3>2
  <2>4. ASSUME oh[list[i]].digest # d, NEW j \in i..Len(list) PROVE Less(d, oh[list[j]].digest)
    <3>1. /\ oh[list[i]].digest \in [1..Bits -> {0, 1}]
          /\ j \in 1..Len(list) /\ oh[list[j]].digest \in [1..Bits -> {0, 1}]
      BY <1>2, <2>2 DEF HeadsTyped
    <3>2. Less(d, oh[list[i]].digest)
      BY <2>2, <2>4, <3>1, LessIsOrder
    <3>3. i = j \/ Less(oh[list[i]].digest, oh[list[j]].digest)
      BY <1>2, <2>2, <3>1 DEF Sorted
    <3> QED
      BY <3>1, <3>2, <3>3, LessIsOrder
  <2> QED
    BY <1>2, <2>2, <2>3, <2>4 DEF i
<1> QED
  BY <1>3, <1>4

\* The list with h inserted before place p.
WithHead(list, p, h, new) ==
  /\ new \in Seq(Objhead) /\ Len(new) = Len(list) + 1
  /\ \A j \in 1..(Len(list) + 1) :
       new[j] = IF j < p THEN list[j] ELSE IF j = p THEN h ELSE list[j - 1]

LEMMA InsertAtIs ==
  ASSUME NEW list \in Seq(Objhead), NEW p \in 1..(Len(list) + 1), NEW h \in Objhead
  PROVE  WithHead(list, p, h, InsertAt(list, p, h))
<1> DEFINE a == SubSeq(list, 1, p - 1)
           b == SubSeq(list, p, Len(list))
<1>1. /\ a \in Seq(Objhead) /\ Len(a) = p - 1 /\ \A j \in 1..(p - 1) : a[j] = list[j]
      /\ b \in Seq(Objhead) /\ Len(b) = Len(list) - p + 1
      /\ \A j \in 1..(Len(list) - p + 1) : b[j] = list[p + j - 1]
  OBVIOUS
<1> HIDE DEF a, b
<1>2. InsertAt(list, p, h) = (a \o <<h>>) \o b
  BY DEF InsertAt, a, b
<1>3. /\ a \o <<h>> \in Seq(Objhead) /\ Len(a \o <<h>>) = p
      /\ \A j \in 1..p : (a \o <<h>>)[j] = IF j < p THEN list[j] ELSE h
  <2>1. a \o <<h>> = Append(a, h)
    BY <1>1
  <2>2. Append(a, h) \in Seq(Objhead) /\ Len(Append(a, h)) = Len(a) + 1
    BY <1>1
  <2>3. \A j \in 1..(Len(a) + 1) : Append(a, h)[j] = IF j <= Len(a) THEN a[j] ELSE h
    BY <1>1
  <2>4. Len(a) + 1 = p /\ \A j \in 1..p : (j <= Len(a) <=> j < p) /\ (j < p => j \in 1..(p - 1))
    BY <1>1
  <2> QED
    BY <1>1, <2>1, <2>2, <2>3, <2>4
<1> DEFINE x == a \o <<h>>
<1>4. /\ x \in Seq(Objhead) /\ Len(x) = p /\ InsertAt(list, p, h) = x \o b
      /\ \A j \in 1..p : x[j] = IF j < p THEN list[j] ELSE h
  BY <1>2, <1>3
<1> HIDE DEF x
<1>5. /\ x \o b \in Seq(Objhead) /\ Len(x \o b) = Len(list) + 1
      /\ \A j \in 1..(Len(list) + 1) : (x \o b)[j] = IF j <= p THEN x[j] ELSE b[j - p]
  <2>1. Len(x) + Len(b) = Len(list) + 1 /\ Len(x) = p
    BY <1>1, <1>4
  <2>2. /\ x \o b \in Seq(Objhead) /\ Len(x \o b) = Len(x) + Len(b)
        /\ \A j \in 1..(Len(x) + Len(b)) :
             (x \o b)[j] = IF j <= Len(x) THEN x[j] ELSE b[j - Len(x)]
    BY <1>1, <1>4, ConcatProperties
  <2> QED
    BY <2>1, <2>2
<1>6. \A j \in 1..(Len(list) + 1) : j > p => j - p \in 1..(Len(list) - p + 1) /\ p + (j - p) - 1 = j - 1
  OBVIOUS
<1>7. \A j \in 1..(Len(list) + 1) :
         (x \o b)[j] = IF j < p THEN list[j] ELSE IF j = p THEN h ELSE list[j - 1]
  BY <1>1, <1>4, <1>5, <1>6
<1> QED
  BY <1>4, <1>5, <1>7 DEF WithHead

LEMMA RemoveAtIs ==
  ASSUME NEW list \in Seq(Objhead), NEW p \in 1..Len(list)
  PROVE  /\ RemoveAt(list, p) \in Seq(Objhead) /\ Len(RemoveAt(list, p)) = Len(list) - 1
         /\ \A j \in 1..(Len(list) - 1) :
              RemoveAt(list, p)[j] = IF j < p THEN list[j] ELSE list[j + 1]
<1> DEFINE a == SubSeq(list, 1, p - 1)
           b == SubSeq(list, p + 1, Len(list))
<1>1. /\ a \in Seq(Objhead) /\ Len(a) = p - 1 /\ \A j \in 1..(p - 1) : a[j] = list[j]
      /\ b \in Seq(Objhead) /\ Len(b) = Len(list) - p
      /\ \A j \in 1..(Len(list) - p) : b[j] = list[p + j]
  OBVIOUS
<1> HIDE DEF a, b
<1>2. RemoveAt(list, p) = a \o b
  BY DEF RemoveAt, a, b
<1>3. Len(a) + Len(b) = Len(list) - 1 /\ Len(a) = p - 1 /\ Len(list) \in Nat
  BY <1>1
<1>4. /\ a \o b \in Seq(Objhead) /\ Len(a \o b) = Len(a) + Len(b)
      /\ \A j \in 1..(Len(a) + Len(b)) : (a \o b)[j] = IF j <= Len(a) THEN a[j] ELSE b[j - Len(a)]
  BY <1>1, ConcatProperties
<1>5. \A j \in 1..(Len(list) - 1) :
        /\ j <= p - 1 <=> j < p
        /\ j < p => j \in 1..(p - 1)
        /\ ~(j < p) => j - (p - 1) \in 1..(Len(list) - p) /\ p + (j - (p - 1)) = j + 1
  BY <1>3
<1> QED
  BY <1>1, <1>2, <1>3, <1>4, <1>5

\* An objhead goes where the search stopped.
Slot(O, Q, list, h, p) ==
  /\ p \in 1..(Len(list) + 1)
  /\ \A j \in 1..Len(list) : Q[list[j]].digest = O[list[j]].digest
  /\ \A j \in 1..(p - 1) : Less(O[list[j]].digest, Q[h].digest)
  /\ \A j \in p..Len(list) : Less(Q[h].digest, O[list[j]].digest)

LEMMA ListInsert ==
  ASSUME NEW O, NEW Q, NEW list \in Seq(Objhead), Sorted(O, list), NEW h \in Objhead,
         NEW p, Slot(O, Q, list, h, p)
  PROVE  /\ InsertAt(list, p, h) \in Seq(Objhead) /\ Sorted(Q, InsertAt(list, p, h))
         /\ ToSet(InsertAt(list, p, h)) = ToSet(list) \cup {h}
<1> DEFINE new == InsertAt(list, p, h)
<1>0. Len(list) \in Nat /\ p \in 1..(Len(list) + 1)
  BY DEF Slot
<1>1. /\ new \in Seq(Objhead) /\ Len(new) = Len(list) + 1 /\ Len(list) \in Nat
      /\ \A j \in 1..(Len(list) + 1) :
           new[j] = IF j < p THEN list[j] ELSE IF j = p THEN h ELSE list[j - 1]
  <2>1. WithHead(list, p, h, new)
    BY <1>0, InsertAtIs
  <2> HIDE DEF new
  <2> QED
    BY <1>0, <2>1 DEF WithHead
<1> HIDE DEF new
<1> USE DEF Slot
<1>2. Sorted(Q, new)
  <2> SUFFICES ASSUME NEW i \in 1..Len(new), NEW j \in 1..Len(new), i < j
               PROVE  Less(Q[new[i]].digest, Q[new[j]].digest)
    BY DEF Sorted
  <2>1. CASE j < p
    <3>1. j \in 1..Len(list) /\ i \in 1..Len(list) /\ new[i] = list[i] /\ new[j] = list[j]
      BY <1>1, <2>1
    <3> QED
      BY <3>1 DEF Sorted
  <2>2. CASE j = p
    <3>1. i \in 1..(p - 1) /\ new[i] = list[i] /\ new[j] = h /\ i \in 1..Len(list)
      BY <1>1, <2>2
    <3> QED
      BY <3>1
  <2>3. CASE j > p /\ i = p
    <3>1. j - 1 \in p..Len(list) /\ new[i] = h /\ new[j] = list[j - 1] /\ j - 1 \in 1..Len(list)
      BY <1>1, <2>3
    <3> QED
      BY <3>1
  <2>4. CASE j > p /\ i < p
    <3>1. /\ j - 1 \in 1..Len(list) /\ i \in 1..Len(list) /\ i < j - 1
          /\ new[i] = list[i] /\ new[j] = list[j - 1]
      BY <1>1, <2>4
    <3> QED
      BY <3>1 DEF Sorted
  <2>5. CASE j > p /\ i > p
    <3>1. /\ j - 1 \in 1..Len(list) /\ i - 1 \in 1..Len(list) /\ i - 1 < j - 1
          /\ new[i] = list[i - 1] /\ new[j] = list[j - 1]
      BY <1>1, <2>5
    <3> QED
      BY <3>1 DEF Sorted
  <2> QED
    BY <1>1, <2>1, <2>2, <2>3, <2>4, <2>5
<1>3. ToSet(new) = ToSet(list) \cup {h}
  <2>1. ToSet(new) \subseteq ToSet(list) \cup {h}
    <3> SUFFICES ASSUME NEW j \in 1..Len(new) PROVE new[j] = h \/ \E l \in 1..Len(list) : new[j] = list[l]
      BY <1>1 DEF ToSet
    <3>1. CASE j < p
      BY <1>1, <3>1
    <3>2. CASE j = p
      BY <1>1, <3>2
    <3>3. CASE j > p
      <4>1. j - 1 \in 1..Len(list) /\ new[j] = list[j - 1]
        BY <1>1, <3>3
      <4> QED
        BY <4>1
    <3> QED
      BY <1>1, <3>1, <3>2, <3>3
  <2>2. h \in ToSet(new)
    BY <1>1 DEF ToSet
  <2>3. ASSUME NEW l \in 1..Len(list) PROVE \E j \in 1..Len(new) : new[j] = list[l]
    <3>1. CASE l < p
      <4>1. l \in 1..Len(new) /\ new[l] = list[l]
        BY <1>1, <3>1
      <4> QED
        BY <4>1
    <3>2. CASE l >= p
      <4>1. l + 1 \in 1..Len(new) /\ new[l + 1] = list[l]
        BY <1>1, <3>2
      <4> QED
        BY <4>1
    <3> QED
      BY <1>1, <3>1, <3>2
  <2>4. ToSet(list) \subseteq ToSet(new)
    <3>1. DOMAIN list = 1..Len(list) /\ DOMAIN new = 1..Len(new)
      BY <1>1
    <3> QED
      BY <2>3, <3>1 DEF ToSet
  <2> QED
    BY <2>1, <2>2, <2>4
<1> QED
  BY <1>1, <1>2, <1>3 DEF new

\* An objhead leaves the list.
LEMMA ListRemove ==
  ASSUME NEW O, NEW Q, NEW list \in Seq(Objhead), Sorted(O, list), NEW h \in ToSet(list),
         HeadsTyped(O), \A g \in Objhead \ {h} : Q[g].digest = O[g].digest
  PROVE  LET new == RemoveAt(list, Position(list, h))
         IN new \in Seq(Objhead) /\ Sorted(Q, new) /\ ToSet(new) = ToSet(list) \ {h}
<1> DEFINE p == Position(list, h)
           new == RemoveAt(list, p)
<1>1. p \in 1..Len(list) /\ list[p] = h
  <2>1. \E i \in DOMAIN list : list[i] = h
    BY DEF ToSet
  <2> QED
    BY <2>1 DEF Position
<1> HIDE DEF p
<1>2. /\ new \in Seq(Objhead) /\ Len(new) = Len(list) - 1 /\ Len(list) \in Nat
      /\ \A j \in 1..(Len(list) - 1) : new[j] = IF j < p THEN list[j] ELSE list[j + 1]
  BY <1>1, RemoveAtIs
<1> HIDE DEF new
<1>3. ASSUME NEW i \in 1..Len(list), i # p PROVE list[i] # h /\ list[i] \in Objhead
  <2>1. list[i] \in Objhead /\ h \in Objhead
    BY <1>1
  <2>2. Less(O[list[i]].digest, O[h].digest) \/ Less(O[h].digest, O[list[i]].digest)
    BY <1>1, <1>2, <1>3 DEF Sorted
  <2> QED
    BY <2>1, <2>2, LessIsOrder DEF HeadsTyped
<1> DEFINE old(j) == IF j < p THEN j ELSE j + 1
<1>4. ASSUME NEW j \in 1..Len(new)
      PROVE  old(j) \in 1..Len(list) /\ old(j) # p /\ new[j] = list[old(j)]
  BY <1>1, <1>2
<1>5. Sorted(Q, new)
  <2> SUFFICES ASSUME NEW i \in 1..Len(new), NEW j \in 1..Len(new), i < j
               PROVE  Less(Q[new[i]].digest, Q[new[j]].digest)
    BY DEF Sorted
  <2>1. old(i) < old(j)
    BY <1>1, <1>2
  <2> HIDE DEF old
  <2>2. Less(O[list[old(i)]].digest, O[list[old(j)]].digest)
    BY <1>4, <2>1 DEF Sorted
  <2> QED
    BY <1>3, <1>4, <2>2
<1>6. ToSet(new) = ToSet(list) \ {h}
  <2>1. ToSet(new) \subseteq ToSet(list) \ {h}
    <3> HIDE DEF old
    <3> QED
      BY <1>2, <1>3, <1>4 DEF ToSet
  <2>2. ASSUME NEW l \in 1..Len(list), list[l] # h PROVE \E j \in 1..Len(new) : new[j] = list[l]
    <3>1. CASE l < p
      <4>1. l \in 1..Len(new) /\ new[l] = list[l]
        BY <1>1, <1>2, <3>1
      <4> QED
        BY <4>1
    <3>2. CASE l > p
      <4>1. l - 1 \in 1..Len(new) /\ new[l - 1] = list[l]
        BY <1>1, <1>2, <3>2
      <4> QED
        BY <4>1
    <3> QED
      BY <1>1, <2>2, <3>1, <3>2
  <2>3. ToSet(list) \ {h} \subseteq ToSet(new)
    BY <1>2, <2>2 DEF ToSet
  <2> QED
    BY <2>1, <2>3
<1> QED
  BY <1>2, <1>5, <1>6 DEF new, p

-----------------------------------------------------------------------------
(* The invariant.                                                          *)

Typed ==
  /\ TreeTyped
  /\ slinger \in {"critbit", "classic", "simple"}
  /\ bucket \in [{0, 1} -> Seq(Objhead)]
  /\ th \in [Thread -> [pc : {"idle", "search", "grab", "locked", "delete", "free"},
                        p : Ptr, d : Digest]]
  /\ cleaner \in {"free", "concat", "sleep"} /\ cooling \subseteq Thread
  /\ refs \in [Objhead -> Nat]

\* Counts are right, and what is referred to is in the table.
Counted == \A h \in Objhead : oh[h].refcnt = refs[h] /\ (refs[h] > 0 => oh[h].st = "hashed")

\* What a search may have in hand: memory in the tree or cooling off, and
\* memory that the cleaner will free after it.
Intact(O, Y) ==
  Hashed(O) \cup Trees(Y) \cup {h \in Objhead : O[h].st = "cool"} \cup {n \in Hcby : Y[n].st = "cool"}
Dying(O, Y) == {h \in Objhead : O[h].st = "dead"} \cup {n \in Hcby : Y[n].st = "dead"}

\* Nodes taken out of the tree point to nothing that dies before them.
Stored(O, Y) ==
  \A n \in Hcby : \A b \in {0, 1} :
    /\ Y[n].st = "cool" => Y[n].leaf[b] \in Intact(O, Y)
    /\ Y[n].st = "dead" => Y[n].leaf[b] \in Intact(O, Y) \cup Dying(O, Y)

\* What a thread has in hand.
Holds(t) ==
  /\ th[t].pc = "delete" => /\ slinger = "critbit" /\ th[t].p \in Objhead
                            /\ oh[th[t].p].st = "hashed" /\ refs[th[t].p] = 0
  /\ th[t].pc = "free" => /\ slinger # "critbit" /\ th[t].p \in Objhead
                          /\ oh[th[t].p].st = "dead"
  /\ th[t].pc \in {"search", "grab", "locked"} => slinger = "critbit"
  /\ th[t].pc = "grab" => th[t].p \in Objhead /\ oh[th[t].p].digest = th[t].d
  /\ th[t].pc \in {"search", "grab"} /\ th[t].p # Null =>
       th[t].p \in Intact(oh, y) \/ (th[t].p \in Dying(oh, y) /\ t \in cooling)

\* One thread deletes an objhead.
Alone ==
  \A t, u \in Thread : t # u /\ th[t].pc = th[u].pc /\ th[t].pc \in {"delete", "free"} =>
    th[t].p # th[u].p

\* Lookups under way will not take a count past the bound.
BusyIn(f, d) == {t \in Thread : f[t].pc \in {"search", "grab", "locked"} /\ f[t].d = d}
Cap == MaxRefs + Cardinality(Thread) - 1
Bounded == \A h \in Objhead : refs[h] + Cardinality(BusyIn(th, oh[h].digest)) <= Cap

TreeInv == slinger = "critbit" => \E S : Tree(oh, y, origo, S)

BucketIn(sl, d) == IF sl = "classic" THEN d[Bits] ELSE 0
InBucket(sl, O, b) == {h \in Objhead : O[h].st = "hashed" /\ BucketIn(sl, O[h].digest) = b}

Lists(sl, O, B) == \A b \in {0, 1} : Sorted(O, B[b]) /\ ToSet(B[b]) = InBucket(sl, O, b)

StoredInv == slinger = "critbit" => Stored(oh, y)
CleanerInv ==
  /\ cleaner # "sleep" => cooling = {}
  /\ cleaner # "free" => slinger = "critbit"
ListsInv == slinger # "critbit" => Lists(slinger, oh, bucket)

SlingerInv ==
  /\ Typed /\ Counted /\ Alone /\ Bounded /\ \A t \in Thread : Holds(t)
  /\ TreeInv /\ StoredInv /\ CleanerInv /\ ListsInv

LEMMA InvInit == SlingerInit => SlingerInv
<1> SUFFICES ASSUME SlingerInit PROVE SlingerInv
  OBVIOUS
<1> USE DEF SlingerInit
<1>1. AnyDigest \in Digest
  BY HashSlingerAssumption DEF AnyDigest
<1>2. Typed
  BY <1>1, HashSlingerAssumption DEF Typed, TreeTyped, FreeHead, FreeNode, Idle, Ptr
<1>3. Counted /\ Alone
  BY DEF Counted, Alone, FreeHead, Idle
<1>4. Bounded
  <2>1. \A h \in Objhead : BusyIn(th, oh[h].digest) = {}
    BY DEF BusyIn, Idle
  <2>2. Cardinality({}) = 0 /\ Cardinality(Thread) \in Nat
    BY FS_EmptySet, FS_CardinalityType, HashSlingerAssumption
  <2>3. \A h \in Objhead : refs[h] = 0 /\ Cardinality(BusyIn(th, oh[h].digest)) = 0
    BY <2>1, <2>2
  <2>4. Cap \in Nat
    BY <2>2, HashSlingerAssumption DEF Cap
  <2> HIDE DEF SlingerInit
  <2> QED
    BY <2>3, <2>4 DEF Bounded
<1>5. StoredInv /\ CleanerInv
  BY DEF StoredInv, CleanerInv, Stored, FreeNode
<1>6. \A t \in Thread : Holds(t)
  BY DEF Holds, Idle
<1>7. Hashed(oh) = {} /\ Trees(y) = {}
  BY DEF Hashed, Trees, FreeHead, FreeNode
<1>8. TreeInv
  <2> DEFINE S == [p \in Ptr |-> {}]
  <2>1. Tree(oh, y, origo, S)
    BY <1>7 DEF Tree, OneParent, Ptr
  <2> QED
    BY <2>1 DEF TreeInv
<1>9. ListsInv
  <2>1. \A b \in {0, 1} : bucket[b] = <<>>
    OBVIOUS
  <2>2. \A h \in Objhead : oh[h].st # "hashed"
    BY DEF FreeHead
  <2> QED
    BY <2>1, <2>2 DEF ListsInv, Lists, Sorted, ToSet, InBucket
<1> QED
  BY <1>2, <1>3, <1>4, <1>5, <1>6, <1>8, <1>9 DEF SlingerInv

LEMMA CapBound ==
  /\ Cardinality(Thread) \in Nat /\ Cap \in Nat /\ Cardinality(Thread) <= Cap
  /\ MaxRefs - 1 + Cardinality(Thread) <= Cap
  /\ \A t \in Thread : 1 <= Cardinality(Thread) /\ MaxRefs <= Cap
<1>1. Cardinality(Thread) \in Nat
  BY FS_CardinalityType, HashSlingerAssumption
<1>2. \A t \in Thread : 1 <= Cardinality(Thread)
  <2> SUFFICES ASSUME NEW t \in Thread PROVE Cardinality(Thread) # 0
    BY <1>1
  <2> QED
    BY FS_EmptySet, HashSlingerAssumption
<1> QED
  BY <1>1, <1>2, HashSlingerAssumption DEF Cap

\* How the lookups under way are counted.
LEMMA BusyCount ==
  ASSUME NEW f, NEW d
  PROVE  /\ Cardinality(BusyIn(f, d)) \in Nat /\ Cardinality(BusyIn(f, d)) <= Cardinality(Thread)
         /\ \A t \in Thread : t \notin BusyIn(f, d) =>
              Cardinality(BusyIn(f, d)) <= Cardinality(Thread) - 1
         /\ \A t, g : t \notin BusyIn(f, d) /\ BusyIn(g, d) = BusyIn(f, d) \cup {t} =>
              Cardinality(BusyIn(g, d)) = Cardinality(BusyIn(f, d)) + 1
<1>1. BusyIn(f, d) \subseteq Thread /\ IsFiniteSet(Thread)
  BY HashSlingerAssumption DEF BusyIn
<1>2. IsFiniteSet(BusyIn(f, d)) /\ Cardinality(BusyIn(f, d)) <= Cardinality(Thread)
  BY <1>1, FS_Subset
<1>3. Cardinality(BusyIn(f, d)) \in Nat /\ Cardinality(Thread) \in Nat
  BY <1>1, <1>2, FS_CardinalityType
<1>4. ASSUME NEW t \in Thread, t \notin BusyIn(f, d)
      PROVE  Cardinality(BusyIn(f, d)) <= Cardinality(Thread) - 1
  <2>1. BusyIn(f, d) \subseteq Thread \ {t}
    BY <1>1, <1>4
  <2>2. IsFiniteSet(Thread \ {t}) /\ Cardinality(Thread \ {t}) = Cardinality(Thread) - 1
    BY <1>1, FS_RemoveElement
  <2> QED
    BY <2>1, <2>2, FS_Subset
<1>5. ASSUME NEW t, NEW g, t \notin BusyIn(f, d), BusyIn(g, d) = BusyIn(f, d) \cup {t}
      PROVE  Cardinality(BusyIn(g, d)) = Cardinality(BusyIn(f, d)) + 1
  BY <1>2, <1>5, FS_AddElement
<1> QED
  BY <1>2, <1>3, <1>4, <1>5

\* A step of thread t.
LEMMA GotoSteps ==
  ASSUME Typed, NEW t \in Thread, NEW pc, NEW p \in Ptr,
         pc \in {"idle", "search", "grab", "locked", "delete", "free"}, Goto(t, pc, p)
  PROVE  /\ th' \in [Thread -> [pc : {"idle", "search", "grab", "locked", "delete", "free"},
                        p : Ptr, d : Digest]]
         /\ th'[t].pc = pc /\ th'[t].p = p
         /\ pc \in {"search", "grab", "locked"} => th'[t].d = th[t].d
         /\ \A u \in Thread \ {t} : th'[u] = th[u]
<1>1. AnyDigest \in Digest
  BY HashSlingerAssumption DEF AnyDigest
<1> DEFINE r == [pc |-> pc, p |-> p,
                 d |-> IF pc \in {"search", "grab", "locked"} THEN th[t].d ELSE AnyDigest]
<1>2. th' = [th EXCEPT ![t] = r]
  BY DEF Goto
<1>3. r \in [pc : {"idle", "search", "grab", "locked", "delete", "free"}, p : Ptr, d : Digest]
  BY <1>1 DEF Typed
<1>4. r.pc = pc /\ r.p = p /\ (pc \in {"search", "grab", "locked"} => r.d = th[t].d)
  OBVIOUS
<1> HIDE DEF r
<1> QED
  BY <1>2, <1>3, <1>4 DEF Typed

\* Lookups under way over a step of thread t.
Others(t) == \A u \in Thread \ {t} : th'[u] = th[u]

LEMMA BusyStays ==
  ASSUME NEW t \in Thread, Others(t), NEW d
  PROVE  /\ t \notin BusyIn(th, d) /\ t \notin BusyIn(th', d) => BusyIn(th', d) = BusyIn(th, d)
         /\ t \in BusyIn(th, d) /\ t \in BusyIn(th', d) => BusyIn(th', d) = BusyIn(th, d)
         /\ t \in BusyIn(th, d) => BusyIn(th', d) \subseteq BusyIn(th, d)
         /\ t \in BusyIn(th, d) /\ t \notin BusyIn(th', d) => BusyIn(th, d) = BusyIn(th', d) \cup {t}
         /\ t \notin BusyIn(th, d) /\ t \in BusyIn(th', d) => BusyIn(th', d) = BusyIn(th, d) \cup {t}
BY DEF BusyIn, Others

\* The count of an objhead and the lookups of its digest, over a step of thread t.
LEMMA LoadStep ==
  ASSUME Typed, refs' \in [Objhead -> Nat], NEW t \in Thread, Others(t), NEW h \in Objhead, Bounded,
         \/ /\ oh'[h].digest = oh[h].digest /\ refs'[h] <= refs[h]
            /\ t \in BusyIn(th', oh[h].digest) => t \in BusyIn(th, oh[h].digest)
         \/ /\ oh'[h].digest = oh[h].digest /\ refs'[h] <= refs[h] + 1
            /\ t \in BusyIn(th, oh[h].digest) /\ t \notin BusyIn(th', oh[h].digest)
         \/ refs'[h] <= MaxRefs - 1
         \/ refs'[h] <= MaxRefs /\ t \notin BusyIn(th', oh'[h].digest)
  PROVE  refs'[h] + Cardinality(BusyIn(th', oh'[h].digest)) <= Cap
<1> DEFINE d == oh[h].digest
           e == oh'[h].digest
           was == Cardinality(BusyIn(th, d))
           is == Cardinality(BusyIn(th', e))
<1>1. /\ was \in Nat /\ is \in Nat /\ is <= Cardinality(Thread) /\ Cardinality(Thread) \in Nat
      /\ t \notin BusyIn(th', e) => is <= Cardinality(Thread) - 1
      /\ refs[h] + was <= Cap /\ refs[h] \in Nat /\ refs'[h] \in Nat
      /\ Cap = MaxRefs + Cardinality(Thread) - 1 /\ MaxRefs \in Nat \ {0}
  BY BusyCount, CapBound, HashSlingerAssumption DEF Bounded, Typed, Cap
<1>2. CASE /\ e = d /\ refs'[h] <= refs[h]
           /\ t \in BusyIn(th', d) => t \in BusyIn(th, d)
  <2>1. is <= was
    <3>1. CASE t \in BusyIn(th, d) /\ t \notin BusyIn(th', d)
      <4>1. BusyIn(th, d) = BusyIn(th', d) \cup {t}
        BY <3>1, BusyStays
      <4>2. was = is + 1
        BY <1>2, <3>1, <4>1, BusyCount, ZenonT(60)
      <4> QED
        BY <1>1, <4>2
    <3>2. CASE ~(t \in BusyIn(th, d) /\ t \notin BusyIn(th', d))
      <4>1. BusyIn(th', d) = BusyIn(th, d)
        BY <1>2, <3>2, BusyStays
      <4> QED
        BY <1>1, <1>2, <4>1
    <3> QED
      BY <3>1, <3>2
  <2> QED
    BY <1>1, <1>2, <2>1
<1>3. CASE /\ e = d /\ refs'[h] <= refs[h] + 1
           /\ t \in BusyIn(th, d) /\ t \notin BusyIn(th', d)
  <2>1. BusyIn(th, d) = BusyIn(th', d) \cup {t}
    BY <1>3, BusyStays
  <2>2. was = is + 1
    BY <1>3, <2>1, BusyCount
  <2> QED
    BY <1>1, <1>3, <2>2
<1>4. CASE refs'[h] <= MaxRefs - 1
  BY <1>1, <1>4
<1>5. CASE refs'[h] <= MaxRefs /\ t \notin BusyIn(th', e)
  BY <1>1, <1>5
<1> QED
  BY <1>2, <1>3, <1>4, <1>5

\* A step that moves no memory.
Unmoved ==
  /\ y' = y /\ origo' = origo /\ bucket' = bucket /\ slinger' = slinger
  /\ \A h \in Objhead : oh'[h].st = oh[h].st /\ oh'[h].digest = oh[h].digest

LEMMA UnmovedKeeps ==
  ASSUME SlingerInv, Unmoved
  PROVE  /\ StoredInv' /\ TreeInv' /\ ListsInv'
         /\ Intact(oh', y') = Intact(oh, y) /\ Dying(oh', y') = Dying(oh, y)
<1> USE DEF Unmoved
<1>1. Hashed(oh') = Hashed(oh) /\ \A h \in Hashed(oh) : oh'[h].digest = oh[h].digest
  BY DEF Hashed
<1>2. Intact(oh', y') = Intact(oh, y) /\ Dying(oh', y') = Dying(oh, y)
  BY <1>1 DEF Intact, Dying
<1>3. StoredInv'
  BY <1>2 DEF Stored, StoredInv, SlingerInv
<1>4. TreeInv'
  <2> SUFFICES ASSUME slinger = "critbit" PROVE \E S : Tree(oh', y, origo, S)
    BY DEF TreeInv
  <2>1. PICK S : Tree(oh, y, origo, S)
    BY DEF SlingerInv, TreeInv
  <2>2. Tree(oh', y, origo, S)
    BY <1>1, <2>1, TreeSame
  <2> QED
    BY <2>2
<1>5. ListsInv'
  <2> SUFFICES ASSUME slinger # "critbit" PROVE Lists(slinger, oh', bucket)
    BY DEF ListsInv
  <2>1. Lists(slinger, oh, bucket) /\ \A b \in {0, 1} : bucket[b] \in Seq(Objhead)
    BY DEF SlingerInv, ListsInv, Typed
  <2>2. \A b \in {0, 1} : InBucket(slinger, oh', b) = InBucket(slinger, oh, b)
    BY DEF InBucket
  <2>3. ASSUME NEW b \in {0, 1} PROVE Sorted(oh', bucket[b])
    <3>1. \A i \in 1..Len(bucket[b]) : bucket[b][i] \in Objhead
      BY <2>1
    <3> QED
      BY <2>1, <3>1 DEF Lists, Sorted
  <2> QED
    BY <2>1, <2>2, <2>3 DEF Lists
<1> QED
  BY <1>2, <1>3, <1>4, <1>5

\* What thread u has in hand stays as it is.
Steady(u) ==
  /\ th[u].pc = "delete" => oh'[th[u].p].st = "hashed" /\ refs'[th[u].p] = 0
  /\ th[u].pc = "free" => oh'[th[u].p].st = "dead"
  /\ th[u].pc = "grab" => oh'[th[u].p].digest = oh[th[u].p].digest
  /\ th[u].pc \in {"search", "grab"} =>
       /\ th[u].p \in Intact(oh, y) => th[u].p \in Intact(oh', y')
       /\ th[u].p \in Dying(oh, y) /\ u \in cooling => th[u].p \in Dying(oh', y') /\ u \in cooling'

LEMMA HoldsStays ==
  ASSUME NEW u \in Thread, Holds(u), th'[u] = th[u], slinger' = slinger, Steady(u)
  PROVE  Holds(u)'
BY DEF Holds, Steady

LEMMA AloneStays ==
  ASSUME Alone, NEW t \in Thread, Others(t),
         \A u \in Thread \ {t} : th[u].pc = th'[t].pc /\ th'[t].pc \in {"delete", "free"} =>
           th[u].p # th'[t].p
  PROVE  Alone'
BY DEF Alone, Others

\* A step of thread t that moves no memory.
LEMMA LightStep ==
  ASSUME SlingerInv, Unmoved, NEW t \in Thread, Others(t), Typed', Counted', Bounded', Holds(t)',
         \A u \in Thread \ {t} : th[u].pc = th'[t].pc /\ th'[t].pc \in {"delete", "free"} =>
           th[u].p # th'[t].p,
         \A u \in Thread \ {t} : th[u].pc = "delete" => refs'[th[u].p] = 0,
         cleaner' = cleaner, cooling' = cooling \/ cooling' = cooling \ {t}
  PROVE  SlingerInv'
<1>1. /\ StoredInv' /\ TreeInv' /\ ListsInv'
      /\ Intact(oh', y') = Intact(oh, y) /\ Dying(oh', y') = Dying(oh, y)
  BY UnmovedKeeps
<1>2. Alone'
  BY AloneStays DEF SlingerInv
<1>3. ASSUME NEW u \in Thread \ {t} PROVE Holds(u)'
  <2>1. Holds(u) /\ th'[u] = th[u] /\ slinger' = slinger
    BY DEF SlingerInv, Others, Unmoved
  <2>2. Steady(u)
    <3>1. th[u].pc \in {"delete", "free", "grab"} => th[u].p \in Objhead
      BY <2>1 DEF Holds
    <3> QED
      BY <1>1, <2>1, <3>1 DEF Steady, Holds, Unmoved
  <2> QED
    BY <2>1, <2>2, HoldsStays
<1>4. CleanerInv'
  BY DEF SlingerInv, CleanerInv, Unmoved
<1> QED
  BY <1>1, <1>2, <1>3, <1>4 DEF SlingerInv

-----------------------------------------------------------------------------
(* The steps.                                                              *)

LEMMA StepLookup == ASSUME SlingerInv, NEW t \in Thread, NEW d \in Digest, hcb_lookup(t, d)
                    PROVE  SlingerInv'
<1> USE DEF hcb_lookup
<1> DEFINE r == [pc |-> "search", p |-> origo, d |-> d]
<1>1. /\ th' = [th EXCEPT ![t] = r] /\ th[t].pc = "idle" /\ slinger = "critbit"
      /\ Typed /\ Counted /\ Bounded
  BY DEF SlingerInv
<1>2. r \in [pc : {"idle", "search", "grab", "locked", "delete", "free"}, p : Ptr, d : Digest]
  BY <1>1 DEF Typed, TreeTyped
<1>3. Typed' /\ th'[t] = r /\ Others(t)
  <2> HIDE DEF r
  <2> QED
    BY <1>1, <1>2 DEF Typed, TreeTyped, Others
<1>4. Unmoved
  BY DEF Unmoved
<1>5. Counted'
  BY <1>1 DEF Counted
<1>6. Bounded'
  <2> SUFFICES ASSUME NEW h \in Objhead
               PROVE  refs'[h] + Cardinality(BusyIn(th', oh'[h].digest)) <= Cap
    BY DEF Bounded
  <2>1. CASE oh[h].digest = d
    <3>1. refs'[h] <= MaxRefs - 1 /\ refs' \in [Objhead -> Nat]
      BY <1>1, <2>1, HashSlingerAssumption DEF MayRefer, Typed
    <3> QED
      BY <1>1, <1>3, <3>1, LoadStep
  <2>2. CASE oh[h].digest # d
    <3>1. t \notin BusyIn(th', oh[h].digest)
      BY <1>3, <2>2 DEF BusyIn
    <3>2. refs' \in [Objhead -> Nat] /\ oh'[h].digest = oh[h].digest /\ refs'[h] <= refs[h]
      BY <1>1 DEF Typed
    <3> QED
      BY <1>1, <1>3, <3>1, <3>2, LoadStep
  <2> QED
    BY <2>1, <2>2
<1>7. Holds(t)'
  <2>1. origo # Null => origo \in Intact(oh, y)
    BY <1>1 DEF SlingerInv, TreeInv, Tree, Intact
  <2> QED
    BY <1>1, <1>3, <2>1 DEF Holds
<1>8. \A u \in Thread \ {t} : th[u].pc = "delete" => refs'[th[u].p] = 0
  BY DEF SlingerInv, Holds
<1> QED
  BY <1>1, <1>3, <1>4, <1>5, <1>6, <1>7, <1>8, LightStep

\* A thread goes on with its lookup, or stops, and no count changes.
LEMMA LookupGoesOn ==
  ASSUME SlingerInv, NEW t \in Thread, th[t].pc \in {"search", "grab", "locked"},
         NEW pc \in {"search", "grab", "locked"}, NEW p \in Ptr, Goto(t, pc, p),
         pc = "grab" => p \in Objhead /\ oh[p].digest = th[t].d,
         pc \in {"search", "grab"} /\ p # Null =>
           p \in Intact(oh, y) \/ (p \in Dying(oh, y) /\ t \in cooling'),
         cooling' = cooling \/ cooling' = cooling \ {t},
         UNCHANGED <<slinger, oh, y, origo, bucket, cleaner, refs>>
  PROVE  SlingerInv'
<1>1. Typed /\ Counted /\ Bounded /\ slinger = "critbit"
  BY DEF SlingerInv, Holds
<1>2. /\ th' \in [Thread -> [pc : {"idle", "search", "grab", "locked", "delete", "free"},
                        p : Ptr, d : Digest]]
      /\ th'[t].pc = pc /\ th'[t].p = p /\ th'[t].d = th[t].d
      /\ \A u \in Thread \ {t} : th'[u] = th[u]
  BY <1>1, GotoSteps
<1>3. Typed' /\ Others(t)
  BY <1>1, <1>2 DEF Typed, TreeTyped, Others
<1>4. Unmoved /\ Counted'
  BY <1>1 DEF Unmoved, Counted
<1>5. Bounded'
  <2> SUFFICES ASSUME NEW h \in Objhead
               PROVE  refs'[h] + Cardinality(BusyIn(th', oh'[h].digest)) <= Cap
    BY DEF Bounded
  <2>1. t \in BusyIn(th', oh[h].digest) => t \in BusyIn(th, oh[h].digest)
    BY <1>2 DEF BusyIn
  <2>2. refs' \in [Objhead -> Nat] /\ oh'[h].digest = oh[h].digest /\ refs'[h] <= refs[h]
    BY <1>1 DEF Typed
  <2> QED
    BY <1>1, <1>3, <2>1, <2>2, LoadStep
<1>6. Holds(t)'
  BY <1>1, <1>2 DEF Holds
<1>7. \A u \in Thread \ {t} : th[u].pc = "delete" => refs'[th[u].p] = 0
  BY DEF SlingerInv, Holds
<1> QED
  BY <1>2, <1>3, <1>4, <1>5, <1>6, <1>7, LightStep

LEMMA StepSearch == ASSUME SlingerInv, NEW t \in Thread, hcb_search(t) PROVE SlingerInv'
<1> USE DEF hcb_search
<1> DEFINE n == th[t].p
           b == Want(t)[y[n].critbit]
           p == y[n].leaf[b]
<1>1. Typed /\ Stored(oh, y) /\ Holds(t) /\ TreeInv /\ slinger = "critbit" /\ n \in Hcby
  BY ZenonT(60) DEF SlingerInv, Holds, StoredInv
<1>2. Want(t) \in [1..Bits -> {0, 1}] /\ y[n].critbit \in 1..Bits
  BY <1>1, HashSlingerAssumption DEF Typed, TreeTyped, Want
<1>3. b \in {0, 1}
  BY <1>2
<1> HIDE DEF b
<1>4. p \in Ptr
  BY <1>1, <1>3 DEF Typed, TreeTyped
<1>5. n # Null /\ n \notin Objhead
  BY <1>1, HashSlingerAssumption
<1>6. y[n].st \in {"tree", "cool"} \/ (y[n].st = "dead" /\ t \in cooling)
  BY <1>1, <1>5, Zenon DEF Holds, Intact, Dying, Hashed, Trees
<1>7. CASE y[n].st = "tree"
  <2>1. p \in Trees(y) \cup Hashed(oh)
    <3>1. PICK S : Tree(oh, y, origo, S)
      BY <1>1 DEF TreeInv
    <3> QED
      BY <1>1, <1>3, <1>7, <3>1, Zenon DEF Tree, NodeOK, Trees
  <2>2. p \in Intact(oh, y)
    BY <2>1 DEF Intact
  <2> HIDE DEF p
  <2> QED
    BY <1>4, <2>2, LookupGoesOn, Zenon DEF p, b
<1>8. CASE y[n].st = "cool"
  <2>1. p \in Intact(oh, y)
    BY <1>1, <1>3, <1>8, ZenonT(60) DEF Stored
  <2> HIDE DEF p
  <2> QED
    BY <1>4, <2>1, LookupGoesOn DEF p, b
<1>9. CASE y[n].st = "dead" /\ t \in cooling
  <2>1. p \in Intact(oh, y) \/ (p \in Dying(oh, y) /\ t \in cooling')
    BY <1>1, <1>3, <1>9 DEF Stored
  <2> HIDE DEF p
  <2> QED
    BY <1>4, <2>1, LookupGoesOn, Zenon DEF p, b
<1> QED
  BY <1>6, <1>7, <1>8, <1>9

LEMMA StepFound == ASSUME SlingerInv, NEW t \in Thread, hcb_found(t) PROVE SlingerInv'
<1> USE DEF hcb_found
<1> DEFINE p == th[t].p
<1>1. Typed /\ Holds(t) /\ p \in Ptr /\ Null \in Ptr
  BY DEF SlingerInv, Typed, Ptr
<1>2. CASE p # Null /\ oh[p].digest = Want(t)
  <2>1. p \in Objhead /\ Goto(t, "grab", p) /\ cooling' = cooling
    BY <1>1, <1>2 DEF Ptr
  <2>2. p \in Intact(oh, y) \/ (p \in Dying(oh, y) /\ t \in cooling')
    BY <1>1, <1>2, <2>1 DEF Holds
  <2> QED
    BY <1>1, <1>2, <2>1, <2>2, LookupGoesOn DEF Want
<1>3. CASE ~(p # Null /\ oh[p].digest = Want(t))
  BY <1>1, <1>3, LookupGoesOn
<1> QED
  BY <1>2, <1>3

\* A count changes.
Recounted(O, Q, h, v) == Q = [O EXCEPT ![h].refcnt = v]

LEMMA Recount ==
  ASSUME NEW O \in Heads, NEW h \in Objhead, NEW v \in Nat, NEW Q, Recounted(O, Q, h, v)
  PROVE  /\ Q \in Heads /\ Q[h].refcnt = v /\ Q[h].st = O[h].st /\ Q[h].digest = O[h].digest
         /\ \A g \in Objhead \ {h} : Q[g] = O[g]
BY DEF Heads, Recounted

LEMMA StepGrab == ASSUME SlingerInv, NEW t \in Thread, hcb_grab(t) PROVE SlingerInv'
<1> USE DEF hcb_grab
<1> DEFINE p == th[t].p
<1>1. /\ Typed /\ Counted /\ Bounded /\ Holds(t) /\ Null \in Ptr
      /\ p \in Objhead /\ oh[p].digest = th[t].d /\ slinger = "critbit"
  BY DEF SlingerInv, Holds, Ptr
<1>2. CASE ~(oh[p].refcnt > 0)
  BY <1>1, <1>2, LookupGoesOn
<1>3. CASE oh[p].refcnt > 0
  <2>1. /\ oh' = [oh EXCEPT ![p].refcnt = @ + 1] /\ refs' = [refs EXCEPT ![p] = @ + 1]
        /\ Goto(t, "idle", Null) /\ refs[p] > 0 /\ oh[p].st = "hashed"
    BY <1>1, <1>3 DEF Counted
  <2>2. /\ th' \in [Thread -> [pc : {"idle", "search", "grab", "locked", "delete", "free"},
                        p : Ptr, d : Digest]]
        /\ th'[t].pc = "idle" /\ Others(t)
    BY <1>1, <2>1, GotoSteps DEF Others
  <2> HIDE DEF p
  <2>3. /\ refs' \in [Objhead -> Nat] /\ refs'[p] = refs[p] + 1
        /\ \A h \in Objhead \ {p} : refs'[h] = refs[h] /\ oh'[h] = oh[h]
        /\ oh'[p].refcnt = refs[p] + 1 /\ oh'[p].st = oh[p].st /\ oh'[p].digest = oh[p].digest
        /\ oh' \in [Objhead -> [st : {"free", "hashed", "cool", "dead"}, digest : Digest, refcnt : Nat]]
    <3>1. /\ refs[p] + 1 \in Nat /\ refs' \in [Objhead -> Nat] /\ refs'[p] = refs[p] + 1
          /\ \A h \in Objhead \ {p} : refs'[h] = refs[h]
      BY <1>1, <2>1 DEF Typed
    <3>2. oh \in Heads /\ Recounted(oh, oh', p, refs[p] + 1)
      BY <1>1, <2>1 DEF Counted, Typed, TreeTyped, Heads, Recounted
    <3>3. /\ oh' \in Heads /\ oh'[p].refcnt = refs[p] + 1 /\ oh'[p].st = oh[p].st
          /\ oh'[p].digest = oh[p].digest /\ \A g \in Objhead \ {p} : oh'[g] = oh[g]
      BY <1>1, <3>1, <3>2, Recount
    <3> QED
      BY <3>1, <3>3 DEF Heads
  <2>4. Typed' /\ Unmoved /\ Counted'
    BY <1>1, <2>1, <2>2, <2>3 DEF Typed, TreeTyped, Unmoved, Counted
  <2>5. Bounded'
    <3> SUFFICES ASSUME NEW h \in Objhead
                 PROVE  refs'[h] + Cardinality(BusyIn(th', oh'[h].digest)) <= Cap
      BY DEF Bounded
    <3>1. t \notin BusyIn(th', oh[h].digest) /\ t \in BusyIn(th, oh[p].digest)
      BY <1>1, <2>2 DEF BusyIn
    <3>2. /\ oh'[h].digest = oh[h].digest /\ h = p => refs'[h] <= refs[h] + 1
          /\ h # p => refs'[h] <= refs[h]
      BY <1>1, <2>3 DEF Typed
    <3> QED
      BY <1>1, <2>2, <2>3, <3>1, <3>2, LoadStep
  <2>6. Holds(t)'
    BY <2>2 DEF Holds
  <2>7. \A u \in Thread \ {t} : th[u].pc = "delete" => refs'[th[u].p] = 0
    <3>1. \A u \in Thread \ {t} : th[u].pc = "delete" => th[u].p \in Objhead /\ refs[th[u].p] = 0
      BY DEF SlingerInv, Holds
    <3> QED
      BY <2>1, <2>3, <3>1
  <2> QED
    BY <2>2, <2>4, <2>5, <2>6, <2>7, LightStep
<1> QED
  BY <1>2, <1>3

LEMMA StepDeref == ASSUME SlingerInv, NEW t \in Thread, NEW h \in Objhead, hcb_deref(t, h)
                   PROVE  SlingerInv'
<1> USE DEF hcb_deref
<1>1. /\ Typed /\ Counted /\ Bounded /\ h \in Ptr /\ slinger = "critbit" /\ th[t].pc = "idle"
      /\ refs[h] > 0 /\ oh[h].st = "hashed" /\ oh[h].refcnt = refs[h]
  BY DEF SlingerInv, Counted, Ptr
<1>2. /\ refs' \in [Objhead -> Nat] /\ refs'[h] = refs[h] - 1
      /\ \A g \in Objhead \ {h} : refs'[g] = refs[g] /\ oh'[g] = oh[g]
      /\ oh'[h].refcnt = refs[h] - 1 /\ oh'[h].st = oh[h].st /\ oh'[h].digest = oh[h].digest
      /\ oh' \in [Objhead -> [st : {"free", "hashed", "cool", "dead"}, digest : Digest, refcnt : Nat]]
  <2>1. /\ refs[h] - 1 \in Nat /\ refs' \in [Objhead -> Nat] /\ refs'[h] = refs[h] - 1
        /\ \A g \in Objhead \ {h} : refs'[g] = refs[g]
    BY <1>1 DEF Typed
  <2>2. oh \in Heads /\ Recounted(oh, oh', h, refs[h] - 1)
    BY <1>1 DEF Typed, TreeTyped, Heads, Recounted
  <2> HIDE DEF hcb_deref
  <2>3. /\ oh' \in Heads /\ oh'[h].refcnt = refs[h] - 1 /\ oh'[h].st = oh[h].st
        /\ oh'[h].digest = oh[h].digest /\ \A g \in Objhead \ {h} : oh'[g] = oh[g]
    BY <1>1, <2>1, <2>2, Recount
  <2> QED
    BY <2>1, <2>3 DEF Heads
<1>3. /\ th' \in [Thread -> [pc : {"idle", "search", "grab", "locked", "delete", "free"},
                        p : Ptr, d : Digest]]
      /\ th'[t].pc \in {"idle", "delete"} /\ Others(t)
      /\ th'[t].pc = "delete" => th'[t].p = h /\ refs'[h] = 0
  <2>1. CASE oh[h].refcnt = 1
    BY <1>1, <1>2, <2>1, GotoSteps DEF Others
  <2>2. CASE oh[h].refcnt # 1
    BY <1>1, <2>2 DEF Others, Typed
  <2> QED
    BY <2>1, <2>2
<1>4. Typed' /\ Unmoved /\ Counted'
  BY <1>1, <1>2, <1>3 DEF Typed, TreeTyped, Unmoved, Counted
<1>5. Bounded'
  <2> SUFFICES ASSUME NEW g \in Objhead
               PROVE  refs'[g] + Cardinality(BusyIn(th', oh'[g].digest)) <= Cap
    BY DEF Bounded
  <2>1. t \notin BusyIn(th', oh[g].digest)
    BY <1>3 DEF BusyIn
  <2>2. oh'[g].digest = oh[g].digest /\ refs'[g] <= refs[g]
    BY <1>1, <1>2 DEF Typed
  <2> QED
    BY <1>1, <1>2, <1>3, <2>1, <2>2, LoadStep
<1>6. Holds(t)'
  BY <1>1, <1>2, <1>3 DEF Holds
<1>7. \A u \in Thread \ {t} : th[u].pc = "delete" => refs'[th[u].p] = 0 /\ th[u].p # h
  <2>1. \A u \in Thread \ {t} : th[u].pc = "delete" => th[u].p \in Objhead /\ refs[th[u].p] = 0
    BY DEF SlingerInv, Holds
  <2> QED
    BY <1>1, <1>2, <2>1
<1> QED
  BY <1>3, <1>4, <1>5, <1>6, <1>7, LightStep

\* A step of thread t under hcb_mtx that rebuilds the tree.
LEMMA HeavyStep ==
  ASSUME SlingerInv, NEW t \in Thread, Others(t), Typed', Counted', Bounded',
         slinger = "critbit", slinger' = "critbit", th'[t].pc = "idle",
         \E S : Tree(oh', y', origo', S),
         Intact(oh, y) \subseteq Intact(oh', y'), Dying(oh', y') = Dying(oh, y),
         \A x \in Hcby : /\ y'[x].st = "cool" => y[x].st \in {"tree", "cool"}
                         /\ y'[x].st = "dead" => y[x].st = "dead"
                         /\ y'[x].st \in {"cool", "dead"} =>
                              \A b \in {0, 1} : y'[x].leaf[b] = y[x].leaf[b],
         \A u \in Thread \ {t} :
           /\ th[u].pc = "delete" => oh'[th[u].p].st = "hashed" /\ refs'[th[u].p] = 0
           /\ th[u].pc = "grab" => oh'[th[u].p].digest = oh[th[u].p].digest,
         cleaner' = cleaner, cooling' = cooling
  PROVE  SlingerInv'
<1>1. TreeInv' /\ ListsInv'
  BY DEF TreeInv, ListsInv
<1>2. Alone'
  BY AloneStays DEF SlingerInv
<1>3. \A x \in Trees(y) : \A b \in {0, 1} : y[x].leaf[b] \in Intact(oh, y)
  <2>1. PICK S : Tree(oh, y, origo, S)
    BY DEF SlingerInv, TreeInv
  <2> QED
    BY <2>1 DEF Tree, NodeOK, Intact
<1>4. StoredInv'
  <2> SUFFICES ASSUME NEW x \in Hcby, NEW b \in {0, 1}
               PROVE  /\ y'[x].st = "cool" => y'[x].leaf[b] \in Intact(oh', y')
                      /\ y'[x].st = "dead" => y'[x].leaf[b] \in Intact(oh', y') \cup Dying(oh', y')
    BY DEF Stored, StoredInv
  <2>1. /\ y[x].st = "cool" => y[x].leaf[b] \in Intact(oh, y)
        /\ y[x].st = "dead" => y[x].leaf[b] \in Intact(oh, y) \cup Dying(oh, y)
        /\ y[x].st = "tree" => y[x].leaf[b] \in Intact(oh, y)
    BY <1>3 DEF SlingerInv, StoredInv, Stored, Trees
  <2> QED
    BY <2>1
<1>5. ASSUME NEW u \in Thread PROVE Holds(u)'
  <2>1. CASE u = t
    BY <2>1 DEF Holds
  <2>2. CASE u # t
    <3>1. Holds(u) /\ th'[u] = th[u] /\ slinger' = slinger
      BY <2>2 DEF SlingerInv, Others
    <3>2. Steady(u)
      BY <2>2, <3>1 DEF Steady, Holds
    <3> QED
      BY <3>1, <3>2, HoldsStays
  <2> QED
    BY <2>1, <2>2
<1>6. CleanerInv'
  BY DEF SlingerInv, CleanerInv
<1> QED
  BY <1>1, <1>2, <1>4, <1>5, <1>6 DEF SlingerInv

\* The path in an empty tree.
LEMMA PathEmpty == ASSUME origo = Null, NEW d PROVE Path(d)[Bits] = Null
<1> DEFINE T == {i \in 0..Bits : Path(d)[i] # Null}
<1>1. Bits \in Nat /\ Null \notin Hcby
  BY HashSlingerAssumption
<1>2. T = {}
  <2>1. SUFFICES ASSUME T # {} PROVE FALSE
    OBVIOUS
  <2>2. PICK m \in T : \A i \in T : m <= i
    <3>1. T \in SUBSET Nat
      OBVIOUS
    <3> HIDE DEF T
    <3> QED
      BY <2>1, <3>1, LeastIndex
  <2>3. m # 0
    BY <2>2, PathStep
  <2>4. m - 1 \in 0..Bits /\ m \in 1..Bits /\ m - 1 \notin T
    <3>1. m \in 0..Bits
      OBVIOUS
    <3>2. m - 1 \in 0..Bits /\ m \in 1..Bits /\ ~(m <= m - 1)
      BY <1>1, <2>3, <3>1
    <3> HIDE DEF T
    <3> QED
      BY <2>2, <3>2
  <2>5. Path(d)[m - 1] = Null /\ Path(d)[m] # Null
    BY <2>2, <2>4
  <2>6. Path(d)[m] = Turn(d, Path(d)[m - 1])
    BY <2>4, PathStep
  <2> QED
    BY <1>1, <2>5, <2>6 DEF Turn
<1> QED
  BY <1>1, <1>2

\* A new objhead.
NewHead(h, d) ==
  /\ oh' = [oh EXCEPT ![h] = [st |-> "hashed", digest |-> d, refcnt |-> 1]]
  /\ refs' = [refs EXCEPT ![h] = 1]

LEMMA NewHeadIs ==
  ASSUME Typed, Counted, NEW h \in Objhead, NEW d \in Digest, NewHead(h, d)
  PROVE  /\ oh' \in Heads /\ refs' \in [Objhead -> Nat] /\ Counted'
         /\ oh'[h].st = "hashed" /\ oh'[h].digest = d /\ refs'[h] = 1
         /\ \A g \in Objhead \ {h} : oh'[g] = oh[g] /\ refs'[g] = refs[g]
<1> DEFINE r == [st |-> "hashed", digest |-> d, refcnt |-> 1]
<1>1. r \in [st : {"free", "hashed", "cool", "dead"}, digest : Digest, refcnt : Nat]
  OBVIOUS
<1>2. r.st = "hashed" /\ r.digest = d /\ r.refcnt = 1 /\ oh' = [oh EXCEPT ![h] = r]
  BY DEF NewHead
<1> HIDE DEF r
<1>3. oh' \in Heads /\ oh'[h] = r /\ \A g \in Objhead \ {h} : oh'[g] = oh[g]
  BY <1>1, <1>2 DEF Typed, TreeTyped, Heads
<1>4. refs' \in [Objhead -> Nat] /\ refs'[h] = 1 /\ \A g \in Objhead \ {h} : refs'[g] = refs[g]
  BY DEF Typed, NewHead
<1> QED
  BY <1>2, <1>3, <1>4 DEF Counted

\* The new objhead is in the tree.
LEMMA InsertedIntoTree ==
  ASSUME SlingerInv, slinger = "critbit", NEW t \in Thread, th[t].pc = "locked",
         NEW h \in Objhead, oh[h].st = "free", NewHead(h, Want(t)), Goto(t, "idle", Null),
         y' \in [Hcby -> [st : {"free", "tree", "cool", "dead"},
                          critbit : 1..Bits, leaf : [{0, 1} -> Ptr]]],
         origo' \in Ptr, \E S : Tree(oh', y', origo', S),
         \A x \in Hcby : /\ y'[x].st = y[x].st \/ (y[x].st = "free" /\ y'[x].st = "tree")
                         /\ y'[x].st \in {"cool", "dead"} =>
                              \A b \in {0, 1} : y'[x].leaf[b] = y[x].leaf[b],
         UNCHANGED <<slinger, bucket, cleaner, cooling>>
  PROVE  SlingerInv'
<1> DEFINE d == Want(t)
<1>1. Typed /\ Counted /\ Bounded /\ d \in Digest /\ Null \in Ptr
  BY DEF SlingerInv, Typed, Want, Ptr
<1>2. /\ oh' \in Heads /\ refs' \in [Objhead -> Nat] /\ Counted'
      /\ oh'[h].st = "hashed" /\ oh'[h].digest = d /\ refs'[h] = 1
      /\ \A g \in Objhead \ {h} : oh'[g] = oh[g] /\ refs'[g] = refs[g]
  BY <1>1, NewHeadIs
<1>3. /\ th' \in [Thread -> [pc : {"idle", "search", "grab", "locked", "delete", "free"},
                        p : Ptr, d : Digest]]
      /\ th'[t].pc = "idle" /\ Others(t)
  BY <1>1, GotoSteps DEF Others
<1>4. Typed'
  BY <1>1, <1>2, <1>3 DEF Typed, TreeTyped, Heads
<1>5. Bounded'
  <2> SUFFICES ASSUME NEW g \in Objhead
               PROVE  refs'[g] + Cardinality(BusyIn(th', oh'[g].digest)) <= Cap
    BY DEF Bounded
  <2>1. t \notin BusyIn(th', oh'[g].digest)
    BY <1>3 DEF BusyIn
  <2>2. CASE g = h
    <3>1. refs'[g] <= MaxRefs
      BY <1>2, <2>2, HashSlingerAssumption
    <3> QED
      BY <1>1, <1>2, <1>3, <2>1, <3>1, LoadStep
  <2>3. CASE g # h
    <3>1. oh'[g].digest = oh[g].digest /\ refs'[g] <= refs[g]
      BY <1>1, <1>2, <2>3 DEF Typed
    <3> QED
      BY <1>1, <1>2, <1>3, <2>1, <3>1, LoadStep
  <2> QED
    BY <2>2, <2>3
<1>6. Intact(oh, y) \subseteq Intact(oh', y') /\ Dying(oh', y') = Dying(oh, y)
  <2>1. \A g \in Objhead : g # h => oh'[g].st = oh[g].st
    BY <1>2
  <2>2. \A x \in Hcby : y[x].st # "free" => y'[x].st = y[x].st
    OBVIOUS
  <2>3. \A x \in Hcby : y'[x].st = "dead" => y[x].st = "dead"
    OBVIOUS
  <2> QED
    BY <1>2, <2>1, <2>2, <2>3 DEF Intact, Dying, Hashed, Trees
<1>7. ASSUME NEW u \in Thread \ {t}
      PROVE  /\ th[u].pc = "delete" => oh'[th[u].p].st = "hashed" /\ refs'[th[u].p] = 0
             /\ th[u].pc = "grab" => oh'[th[u].p].digest = oh[th[u].p].digest
  <2>1. Holds(u) /\ Null \notin Objhead /\ Objhead \cap Hcby = {}
    BY HashSlingerAssumption DEF SlingerInv
  <2>2. th[u].pc \in {"delete", "grab"} => th[u].p \in Objhead /\ th[u].p # h
    BY <2>1 DEF Holds, Intact, Dying, Hashed, Trees
  <2> QED
    BY <1>2, <2>1, <2>2 DEF Holds
<1>8. \A x \in Hcby : /\ y'[x].st = "cool" => y[x].st \in {"tree", "cool"}
                      /\ y'[x].st = "dead" => y[x].st = "dead"
  OBVIOUS
<1> QED
  BY <1>2, <1>3, <1>4, <1>5, <1>6, <1>7, <1>8, HeavyStep

LEMMA StepLocked == ASSUME SlingerInv, NEW t \in Thread, hcb_locked(t) PROVE SlingerInv'
<1> DEFINE d == Want(t)
           end == Path(d)[Bits]
<1>1. /\ th[t].pc = "locked" /\ slinger = "critbit" /\ d \in Digest /\ Typed /\ TreeTyped
      /\ UNCHANGED <<slinger, bucket, cleaner, cooling>>
  BY DEF hcb_locked, SlingerInv, Holds, Want, Typed
<1>2. PICK S : Tree(oh, y, origo, S)
  BY <1>1 DEF SlingerInv, TreeInv
<1>3. InTree(S) /\ d \in [1..Bits -> {0, 1}] /\ NodesTyped(y)
  BY <1>1, <1>2, TreeTypes DEF InTree
<1>4. end # Null => origo # Null /\ end \in Hashed(oh)
  <2>1. end # Null => origo # Null
    BY PathEmpty
  <2>2. origo # Null => end \in Hashed(oh)
    BY <1>3, PathInTree
  <2> QED
    BY <2>1, <2>2
<1>5. end = Null => origo = Null
  <2>1. origo # Null => end \in Hashed(oh)
    BY <1>3, PathInTree
  <2> QED
    BY <2>1, HashSlingerAssumption DEF Hashed
<1>6. CASE end # Null /\ oh[end].digest = d
  <2>1. Goto(t, "grab", end) /\ UNCHANGED <<oh, y, origo, refs>>
    BY <1>6 DEF hcb_locked
  <2>2. end \in Objhead /\ end \in Ptr /\ end \in Intact(oh, y)
    BY <1>4, <1>6 DEF Hashed, Intact, Ptr
  <2> HIDE DEF end
  <2> QED
    BY <1>1, <1>6, <2>1, <2>2, LookupGoesOn DEF Want
<1>7. CASE ~(end # Null /\ oh[end].digest = d)
  <2>1. PICK h \in Spare(oh), n \in Spare(y) :
             /\ IF end = Null THEN origo' = h /\ UNCHANGED y
                              ELSE hcb_insert(d, h, n, end)
             /\ oh' = [oh EXCEPT ![h] = [st |-> "hashed", digest |-> d, refcnt |-> 1]]
             /\ refs' = [refs EXCEPT ![h] = 1]
             /\ Goto(t, "idle", Null)
    BY <1>7 DEF hcb_locked
  <2>2. h \in Objhead /\ oh[h].st = "free" /\ n \in Hcby /\ y[n].st = "free"
    BY <1>1 DEF Spare, TreeTyped
  <2>3. NewHead(h, Want(t)) /\ Goto(t, "idle", Null)
    BY <2>1 DEF NewHead
  <2>4. /\ oh' \in Heads /\ oh'[h].st = "hashed" /\ oh'[h].digest = d
        /\ \A g \in Objhead \ {h} : oh'[g] = oh[g]
    BY <1>1, <2>2, <2>3, NewHeadIs DEF SlingerInv
  <2>5. CASE end = Null
    <3>1. origo' = h /\ y' = y /\ origo = Null
      BY <1>5, <2>1, <2>5
    <3>2. Hashed(oh') = Hashed(oh) \cup {h}
      BY <2>2, <2>4 DEF Hashed
    <3>3. \E R : Tree(oh', y', origo', R)
      BY <1>2, <2>2, <3>1, <3>2, TreeFirst
    <3>4. /\ y' \in [Hcby -> [st : {"free", "tree", "cool", "dead"},
                          critbit : 1..Bits, leaf : [{0, 1} -> Ptr]]]
          /\ origo' \in Ptr
      BY <1>1, <2>2, <3>1 DEF TreeTyped, Ptr
    <3> QED
      BY <1>1, <2>2, <2>3, <3>1, <3>3, <3>4, InsertedIntoTree
  <2>6. CASE end # Null
    <3>1. hcb_insert(d, h, n, end) /\ origo # Null /\ oh[end].digest # d
      BY <1>4, <1>7, <2>1, <2>6
    <3>2. Inserts(d, h, n, Path(d)[Bits], y', origo')
      BY <3>1 DEF hcb_insert, Inserts, NodesAfter
    <3>3. /\ \E R : Tree(oh', y', origo', R)
          /\ y' \in [Hcby -> [st : {"free", "tree", "cool", "dead"},
                            critbit : 1..Bits, leaf : [{0, 1} -> Ptr]]]
          /\ origo' \in Ptr /\ y'[n].st = "tree"
          /\ \A x \in Hcby \ {n} :
              /\ y'[x].st = y[x].st
              /\ x \notin Trees(y) => \A b \in {0, 1} : y'[x].leaf[b] = y[x].leaf[b]
      <4>1. InsertDone(oh', y', origo', n)
        BY <1>1, <1>2, <2>2, <2>4, <3>1, <3>2, InsertKeepsTree
      <4> QED
        BY <4>1 DEF InsertDone, Nodes
    <3>4. \A x \in Hcby : /\ y'[x].st = y[x].st \/ (y[x].st = "free" /\ y'[x].st = "tree")
                          /\ y'[x].st \in {"cool", "dead"} =>
                              \A b \in {0, 1} : y'[x].leaf[b] = y[x].leaf[b]
      BY <2>2, <3>3 DEF Trees
    <3> QED
      BY <1>1, <2>2, <2>3, <3>3, <3>4, InsertedIntoTree
  <2> QED
    BY <2>5, <2>6
<1> QED
  BY <1>6, <1>7

LEMMA StepDelete == ASSUME SlingerInv, NEW t \in Thread, hcb_deref_delete(t) PROVE SlingerInv'
<1> DEFINE h == th[t].p
<1>1. /\ th[t].pc = "delete" /\ slinger = "critbit" /\ h \in Objhead /\ oh[h].st = "hashed"
      /\ refs[h] = 0 /\ Typed /\ TreeTyped /\ Counted /\ Bounded /\ Null \in Ptr
      /\ oh' = [oh EXCEPT ![h].st = "cool"] /\ Goto(t, "idle", Null) /\ hcb_delete(h)
      /\ UNCHANGED <<slinger, bucket, cleaner, cooling, refs>>
  BY DEF hcb_deref_delete, SlingerInv, Holds, Typed, Ptr
<1> HIDE DEF h
<1>2. /\ oh' \in Heads /\ oh'[h].st = "cool" /\ oh'[h].digest = oh[h].digest
      /\ oh'[h].refcnt = oh[h].refcnt /\ \A g \in Objhead \ {h} : oh'[g] = oh[g]
  BY <1>1 DEF TreeTyped, Heads
<1>3. /\ th' \in [Thread -> [pc : {"idle", "search", "grab", "locked", "delete", "free"},
                        p : Ptr, d : Digest]]
      /\ th'[t].pc = "idle" /\ Others(t)
  BY <1>1, GotoSteps DEF Others
<1>4. PICK S : Tree(oh, y, origo, S)
  BY <1>1 DEF SlingerInv, TreeInv
<1>5. DeleteDone(oh', y', origo')
  <2>1. Deletes(h, y', origo')
    BY <1>1, Zenon DEF hcb_delete, Deletes, NodesWithout
  <2>2. h \in Hashed(oh)
    BY <1>1 DEF Hashed
  <2>3. CooledHead(oh', h)
    BY <1>2 DEF CooledHead
  <2> QED
    BY <1>1, <1>4, <2>1, <2>2, <2>3, DeleteKeepsTree
<1>6. Typed'
  BY <1>1, <1>2, <1>3, <1>5 DEF Typed, TreeTyped, Heads, Nodes, DeleteDone
<1>7. Counted'
  BY <1>1, <1>2 DEF Counted
<1>8. \A x \in Hcby : /\ y'[x].st = y[x].st \/ (y[x].st = "tree" /\ y'[x].st = "cool")
                      /\ y'[x].st \in {"cool", "dead"} =>
                              \A b \in {0, 1} : y'[x].leaf[b] = y[x].leaf[b]
  <2> SUFFICES ASSUME NEW x \in Hcby
               PROVE  /\ y'[x].st = y[x].st \/ (y[x].st = "tree" /\ y'[x].st = "cool")
                      /\ y'[x].st \in {"cool", "dead"} =>
                              \A b \in {0, 1} : y'[x].leaf[b] = y[x].leaf[b]
    OBVIOUS
  <2>1. CASE x \in Trees(y')
    BY <1>5, <2>1 DEF DeleteDone, Trees
  <2>2. CASE x \notin Trees(y')
    BY <1>5, <2>2 DEF DeleteDone, Trees
  <2> QED
    BY <2>1, <2>2
<1>9. Intact(oh, y) \subseteq Intact(oh', y') /\ Dying(oh', y') = Dying(oh, y)
  <2>1. \A g \in Objhead : oh'[g].st = oh[g].st \/ (oh[g].st = "hashed" /\ oh'[g].st = "cool")
    BY <1>1, <1>2
  <2> QED
    BY <1>8, <2>1 DEF Intact, Dying, Hashed, Trees
<1>10. Bounded'
  <2> SUFFICES ASSUME NEW g \in Objhead
               PROVE  refs'[g] + Cardinality(BusyIn(th', oh'[g].digest)) <= Cap
    BY DEF Bounded
  <2>1. t \notin BusyIn(th', oh[g].digest)
    BY <1>3 DEF BusyIn
  <2>2. oh'[g].digest = oh[g].digest /\ refs'[g] <= refs[g] /\ refs' \in [Objhead -> Nat]
    BY <1>1, <1>2 DEF Typed
  <2> QED
    BY <1>1, <1>3, <2>1, <2>2, LoadStep
<1>11. ASSUME NEW u \in Thread \ {t}
       PROVE  /\ th[u].pc = "delete" => oh'[th[u].p].st = "hashed" /\ refs'[th[u].p] = 0
              /\ th[u].pc = "grab" => oh'[th[u].p].digest = oh[th[u].p].digest
  <2>1. Holds(u) /\ (th[u].pc = "delete" => th[u].p # h)
    BY <1>1 DEF SlingerInv, Alone, h
  <2> QED
    BY <1>1, <1>2, <2>1 DEF Holds
<1>12. \E R : Tree(oh', y', origo', R)
  BY <1>5 DEF DeleteDone
<1>13. \A x \in Hcby : /\ y'[x].st = "cool" => y[x].st \in {"tree", "cool"}
                       /\ y'[x].st = "dead" => y[x].st = "dead"
  BY <1>8
<1> QED
  BY <1>1, <1>3, <1>6, <1>7, <1>8, <1>9, <1>10, <1>11, <1>12, <1>13, HeavyStep, Zenon

\* The cleaner frees what no search can have in hand.
LEMMA StepCleanerFree == ASSUME SlingerInv, hcb_cleaner_free PROVE SlingerInv'
<1>1. /\ Typed /\ TreeTyped /\ Counted /\ Bounded /\ Alone /\ slinger = "critbit" /\ cooling = {}
      /\ cleaner' = "concat" /\ UNCHANGED <<slinger, origo, bucket, th, cooling, refs>>
      /\ Stored(oh, y) /\ \A t \in Thread : Holds(t)
  BY DEF hcb_cleaner_free, SlingerInv, Typed, CleanerInv, StoredInv
<1>2. AnyDigest \in Digest
  BY HashSlingerAssumption DEF AnyDigest
<1>3. FreeHead \in [st : {"free", "hashed", "cool", "dead"}, digest : Digest, refcnt : Nat]
      /\ FreeHead.st = "free" /\ FreeHead.refcnt = 0
  BY <1>2 DEF FreeHead
<1>4. FreeNode \in [st : {"free", "tree", "cool", "dead"}, critbit : 1..Bits, leaf : [{0, 1} -> Ptr]]
      /\ FreeNode.st = "free"
  BY HashSlingerAssumption DEF FreeNode, Ptr
<1>5. /\ oh' \in Heads
      /\ \A h \in Objhead : oh'[h] = IF oh[h].st = "dead" THEN FreeHead ELSE oh[h]
  BY <1>1, <1>3 DEF hcb_cleaner_free, TreeTyped, Heads
<1>6. /\ y' \in Nodes
      /\ \A n \in Hcby : y'[n] = IF y[n].st = "dead" THEN FreeNode ELSE y[n]
  BY <1>1, <1>4 DEF hcb_cleaner_free, TreeTyped, Nodes
<1>7. Typed'
  BY <1>1, <1>5, <1>6 DEF Typed, TreeTyped, Heads, Nodes
<1>8. \A h \in Objhead : /\ oh[h].st # "dead" => oh'[h] = oh[h]
                         /\ oh[h].st = "dead" => oh'[h].st = "free" /\ oh'[h].refcnt = 0
  BY <1>3, <1>5
<1>9. \A n \in Hcby : /\ y[n].st # "dead" => y'[n] = y[n]
                      /\ y[n].st = "dead" => y'[n].st = "free"
  BY <1>4, <1>6
<1>10. Counted' /\ \A h \in Objhead : oh[h].st = "dead" => refs[h] = 0
  <2>1. \A h \in Objhead : refs[h] \in Nat
    BY <1>1 DEF Typed
  <2> QED
    BY <1>1, <1>8, <2>1 DEF Counted
<1>11. Bounded'
  <2> SUFFICES ASSUME NEW h \in Objhead
               PROVE  refs[h] + Cardinality(BusyIn(th, oh'[h].digest)) <= Cap
    BY <1>1 DEF Bounded
  <2>1. CASE oh[h].st # "dead"
    BY <1>1, <1>8, <2>1 DEF Bounded
  <2>2. CASE oh[h].st = "dead"
    <3>1. refs[h] = 0
      BY <1>10, <2>2
    <3>2. /\ Cardinality(BusyIn(th, oh'[h].digest)) \in Nat
          /\ Cardinality(BusyIn(th, oh'[h].digest)) <= Cardinality(Thread)
      BY BusyCount
    <3> QED
      BY <3>1, <3>2, CapBound
  <2> QED
    BY <2>1, <2>2
<1>12. /\ Hashed(oh') = Hashed(oh) /\ Trees(y') = Trees(y) /\ Intact(oh', y') = Intact(oh, y)
  BY <1>8, <1>9 DEF Hashed, Trees, Intact
<1>13. TreeInv'
  <2>1. PICK S : Tree(oh, y, origo, S)
    BY <1>1 DEF SlingerInv, TreeInv
  <2>2. Tree(oh', y', origo, S)
    <3>1. \A h \in Hashed(oh) : oh'[h].digest = oh[h].digest
      BY <1>8 DEF Hashed
    <3>2. \A n \in Trees(y) : y'[n] = y[n]
      BY <1>9 DEF Trees
    <3> QED
      BY <1>12, <2>1, <3>1, <3>2, TreeSame
  <2> QED
    BY <1>1, <2>2 DEF TreeInv
<1>14. StoredInv' /\ ListsInv' /\ CleanerInv' /\ Alone'
  <2>1. \A n \in Hcby : y'[n].st # "dead" /\ (y'[n].st = "cool" => y'[n] = y[n])
    BY <1>9
  <2> QED
    BY <1>1, <1>12, <2>1 DEF StoredInv, Stored, ListsInv, CleanerInv, Alone
<1>15. ASSUME NEW u \in Thread PROVE Holds(u)'
  <2>1. Holds(u) /\ th' = th /\ slinger' = slinger
    BY <1>1
  <2>2. Steady(u)
    <3>1. th[u].pc = "grab" => th[u].p \in Objhead /\ oh[th[u].p].st # "dead"
      BY <1>1, <2>1, HashSlingerAssumption DEF Holds, Intact, Hashed, Trees
    <3> QED
      BY <1>1, <1>8, <1>12, <2>1, <3>1 DEF Steady, Holds
  <2> QED
    BY <2>1, <2>2, HoldsStays
<1> QED
  BY <1>7, <1>10, <1>11, <1>13, <1>14, <1>15 DEF SlingerInv

\* The cool ones are to die after the searches that are going on.
LEMMA StepCleanerConcat == ASSUME SlingerInv, hcb_cleaner_concat PROVE SlingerInv'
<1>1. /\ Typed /\ TreeTyped /\ Counted /\ Bounded /\ Alone /\ slinger = "critbit" /\ cooling = {}
      /\ cleaner' = "sleep" /\ UNCHANGED <<slinger, origo, bucket, th, refs>>
      /\ cooling' = {t \in Thread : th[t].pc \in {"search", "grab"}}
      /\ Stored(oh, y) /\ \A t \in Thread : Holds(t)
  BY DEF hcb_cleaner_concat, SlingerInv, Typed, CleanerInv, StoredInv
<1>2. /\ oh' \in Heads
      /\ \A h \in Objhead : /\ oh'[h].st = IF oh[h].st = "cool" THEN "dead" ELSE oh[h].st
                            /\ oh'[h].digest = oh[h].digest /\ oh'[h].refcnt = oh[h].refcnt
  <2>1. \A h \in Objhead : oh[h] \in [st : {"free", "hashed", "cool", "dead"}, digest : Digest, refcnt : Nat]
    BY <1>1 DEF TreeTyped
  <2>2. oh' = [h \in Objhead |-> IF oh[h].st = "cool" THEN [oh[h] EXCEPT !.st = "dead"] ELSE oh[h]]
    BY DEF hcb_cleaner_concat
  <2> QED
    BY <2>1, <2>2 DEF Heads
<1>3. /\ y' \in Nodes
      /\ \A n \in Hcby : /\ y'[n].st = IF y[n].st = "cool" THEN "dead" ELSE y[n].st
                         /\ y'[n].critbit = y[n].critbit /\ y'[n].leaf = y[n].leaf
  <2>1. \A n \in Hcby : y[n] \in [st : {"free", "tree", "cool", "dead"}, critbit : 1..Bits, leaf : [{0, 1} -> Ptr]]
    BY <1>1 DEF TreeTyped
  <2>2. y' = [n \in Hcby |-> IF y[n].st = "cool" THEN [y[n] EXCEPT !.st = "dead"] ELSE y[n]]
    BY DEF hcb_cleaner_concat
  <2> QED
    BY <2>1, <2>2 DEF Nodes
<1>4. Typed'
  BY <1>1, <1>2, <1>3 DEF Typed, TreeTyped, Heads, Nodes
<1>5. Counted' /\ Bounded'
  BY <1>1, <1>2 DEF Counted, Bounded
<1>6. /\ Hashed(oh') = Hashed(oh) /\ Trees(y') = Trees(y)
      /\ Intact(oh, y) \cup Dying(oh, y) = Intact(oh', y') \cup Dying(oh', y')
      /\ Dying(oh, y) \subseteq Dying(oh', y')
  BY <1>2, <1>3 DEF Hashed, Trees, Intact, Dying
<1>7. TreeInv'
  <2>1. PICK S : Tree(oh, y, origo, S)
    BY <1>1 DEF SlingerInv, TreeInv
  <2>2. Tree(oh', y', origo, S)
    <3>1. \A h \in Hashed(oh) : oh'[h].digest = oh[h].digest
      BY <1>2 DEF Hashed
    <3>2. \A n \in Trees(y) : y'[n].critbit = y[n].critbit /\ y'[n].leaf = y[n].leaf
      BY <1>3 DEF Trees
    <3> QED
      BY <1>6, <2>1, <3>1, <3>2, TreeSame
  <2> QED
    BY <1>1, <2>2 DEF TreeInv
<1>8. StoredInv' /\ ListsInv' /\ CleanerInv' /\ Alone'
  <2>1. \A n \in Hcby : y'[n].st # "cool" /\ (y'[n].st = "dead" => y[n].st \in {"cool", "dead"})
    BY <1>3
  <2>2. Stored(oh', y')
    BY <1>1, <1>3, <1>6, <2>1 DEF Stored
  <2> QED
    BY <1>1, <2>2 DEF StoredInv, ListsInv, CleanerInv, Alone
<1>9. ASSUME NEW u \in Thread PROVE Holds(u)'
  <2>1. Holds(u) /\ th' = th /\ slinger' = slinger
    BY <1>1
  <2>2. th[u].pc \in {"search", "grab"} /\ th[u].p # Null =>
          th[u].p \in Intact(oh', y') \/ (th[u].p \in Dying(oh', y') /\ u \in cooling')
    BY <1>1, <1>6, <2>1 DEF Holds
  <2> QED
    BY <1>1, <1>2, <2>1, <2>2 DEF Holds
<1> QED
  BY <1>4, <1>5, <1>7, <1>8, <1>9 DEF SlingerInv

LEMMA StepCleanerSleep == ASSUME SlingerInv, hcb_cleaner_sleep PROVE SlingerInv'
<1> USE DEF hcb_cleaner_sleep
<1>1. Unmoved
  BY DEF Unmoved
<1>2. StoredInv' /\ TreeInv' /\ ListsInv'
  BY <1>1, UnmovedKeeps
<1>3. Typed' /\ Counted' /\ Alone' /\ Bounded' /\ CleanerInv'
  BY DEF SlingerInv, Typed, TreeTyped, Counted, Alone, Bounded, CleanerInv
<1>4. ASSUME NEW u \in Thread PROVE Holds(u)'
  <2>1. Holds(u)
    BY DEF SlingerInv
  <2> QED
    BY <2>1 DEF Holds
<1> QED
  BY <1>2, <1>3, <1>4 DEF SlingerInv

-----------------------------------------------------------------------------
(* The steps of classic and of the simple list.                            *)

\* The other list is not touched.
Apart(sl, O, Q, c) ==
  \A b \in {0, 1} \ {c} : /\ InBucket(sl, Q, b) = InBucket(sl, O, b)
                          /\ \A g \in InBucket(sl, O, b) : Q[g].digest = O[g].digest

Relisted(B, A, c, new) == A = [B EXCEPT ![c] = new]

OneWritten(sl, O, Q, B, A, c, new) ==
  /\ B \in [{0, 1} -> Seq(Objhead)] /\ Lists(sl, O, B) /\ c \in {0, 1}
  /\ Sorted(Q, new) /\ ToSet(new) = InBucket(sl, Q, c)
  /\ Apart(sl, O, Q, c) /\ Relisted(B, A, c, new)

LEMMA OneList ==
  ASSUME NEW sl, NEW O, NEW Q, NEW B, NEW A, NEW c, NEW new, OneWritten(sl, O, Q, B, A, c, new)
  PROVE  Lists(sl, Q, A)
<1> USE DEF Apart, OneWritten
<1>1. A[c] = new /\ \A b \in {0, 1} \ {c} : A[b] = B[b]
  BY DEF Relisted
<1>2. ASSUME NEW b \in {0, 1} \ {c}
      PROVE  Sorted(Q, A[b]) /\ ToSet(A[b]) = InBucket(sl, Q, b)
  <2>1. /\ A[b] = B[b] /\ Sorted(O, B[b]) /\ ToSet(B[b]) = InBucket(sl, O, b)
        /\ InBucket(sl, Q, b) = InBucket(sl, O, b)
    BY <1>1 DEF Lists
  <2>2. \A i \in 1..Len(B[b]) : Q[B[b][i]].digest = O[B[b][i]].digest
    <3>1. B[b] \in Seq(Objhead)
      OBVIOUS
    <3>2. \A i \in 1..Len(B[b]) : B[b][i] \in ToSet(B[b])
      BY <3>1 DEF ToSet
    <3> QED
      BY <2>1, <3>2
  <2>3. Sorted(Q, B[b])
    BY <2>1, <2>2 DEF Sorted
  <2> QED
    BY <2>1, <2>3
<1>3. Sorted(Q, A[c]) /\ ToSet(A[c]) = InBucket(sl, Q, c)
  BY <1>1
<1> QED
  BY <1>2, <1>3 DEF Lists

\* A step of thread t under the lock of a bucket, or after it.
LEMMA ClassicStep ==
  ASSUME SlingerInv, slinger # "critbit", slinger' = slinger, NEW t \in Thread, Others(t),
         Typed', Counted', Bounded', Holds(t)', Lists(slinger, oh', bucket'),
         \A u \in Thread \ {t} : th[u].pc = th'[t].pc /\ th'[t].pc \in {"delete", "free"} =>
           th[u].p # th'[t].p,
         \A u \in Thread \ {t} : th[u].pc = "free" => oh'[th[u].p].st = "dead",
         cleaner' = cleaner, cooling' = cooling
  PROVE  SlingerInv'
<1>1. TreeInv' /\ StoredInv' /\ ListsInv' /\ CleanerInv'
  BY DEF TreeInv, StoredInv, ListsInv, CleanerInv, SlingerInv
<1>2. Alone'
  BY AloneStays DEF SlingerInv
<1>3. ASSUME NEW u \in Thread \ {t} PROVE Holds(u)'
  <2>1. Holds(u) /\ th'[u] = th[u]
    BY DEF SlingerInv, Others
  <2>2. th[u].pc \notin {"delete", "search", "grab", "locked"}
    BY <2>1 DEF Holds
  <2> QED
    BY <2>1, <2>2, HoldsStays DEF Steady
<1> QED
  BY <1>1, <1>2, <1>3 DEF SlingerInv

LEMMA BucketType ==
  ASSUME Typed, NEW d \in Digest
  PROVE  /\ BucketOf(d) = BucketIn(slinger, d) /\ BucketOf(d) \in {0, 1}
         /\ d \in [1..Bits -> {0, 1}] /\ HeadsTyped(oh)
<1>1. d \in [1..Bits -> {0, 1}] /\ Bits \in 1..Bits /\ Digest \subseteq [1..Bits -> {0, 1}]
  BY HashSlingerAssumption
<1>2. HeadsTyped(oh)
  BY <1>1 DEF HeadsTyped, Typed, TreeTyped
<1> QED
  BY <1>1, <1>2 DEF BucketOf, BucketIn

\* Threads on classic are idle or have an objhead to free.
LEMMA ClassicThreads ==
  ASSUME SlingerInv, slinger # "critbit"
  PROVE  \A u \in Thread : /\ th[u].pc \in {"idle", "free"}
                           /\ th[u].pc = "free" => th[u].p \in Objhead /\ oh[th[u].p].st = "dead"
BY DEF SlingerInv, Holds, Typed

LEMMA StepHclDeref == ASSUME SlingerInv, NEW t \in Thread, NEW h \in Objhead, hcl_deref(t, h)
                      PROVE  SlingerInv'
<1>1. /\ Typed /\ Counted /\ Bounded /\ h \in Ptr /\ slinger # "critbit" /\ th[t].pc = "idle"
      /\ refs[h] > 0 /\ oh[h].st = "hashed" /\ oh[h].refcnt = refs[h]
      /\ UNCHANGED <<slinger, y, origo, cleaner, cooling>>
      /\ refs' = [refs EXCEPT ![h] = @ - 1] /\ oh \in Heads /\ Null \in Ptr
  BY DEF SlingerInv, Counted, Ptr, hcl_deref, Typed, TreeTyped, Heads
<1>2. /\ refs[h] - 1 \in Nat /\ refs' \in [Objhead -> Nat] /\ refs'[h] = refs[h] - 1
      /\ \A g \in Objhead \ {h} : refs'[g] = refs[g]
  BY <1>1 DEF Typed
<1>3. CASE oh[h].refcnt # 1
  <2>1. oh' = [oh EXCEPT ![h].refcnt = @ - 1] /\ bucket' = bucket /\ th' = th
    BY <1>3 DEF hcl_deref
  <2>2. Recounted(oh, oh', h, refs[h] - 1)
    BY <1>1, <2>1 DEF Recounted, Heads
  <2>3. /\ oh' \in Heads /\ oh'[h].refcnt = refs[h] - 1 /\ oh'[h].st = oh[h].st
        /\ oh'[h].digest = oh[h].digest /\ \A g \in Objhead \ {h} : oh'[g] = oh[g]
    BY <1>1, <1>2, <2>2, Recount
  <2>4. Typed' /\ Unmoved /\ Others(t)
    BY <1>1, <1>2, <2>1, <2>3 DEF Typed, TreeTyped, Unmoved, Heads, Others
  <2>5. Counted'
    BY <1>1, <1>2, <1>3, <2>3 DEF Counted
  <2>6. Bounded'
    <3> SUFFICES ASSUME NEW g \in Objhead
                 PROVE  refs'[g] + Cardinality(BusyIn(th', oh'[g].digest)) <= Cap
      BY DEF Bounded
    <3>1. oh'[g].digest = oh[g].digest /\ refs'[g] <= refs[g]
      BY <1>1, <1>2, <2>3 DEF Typed
    <3> QED
      BY <1>1, <1>2, <2>1, <2>4, <3>1, LoadStep
  <2>7. Holds(t)' /\ \A u \in Thread : th[u].pc # "delete"
    BY <1>1, <2>1, ClassicThreads DEF Holds
  <2> QED
    BY <1>1, <2>1, <2>4, <2>5, <2>6, <2>7, LightStep
<1>4. CASE oh[h].refcnt = 1
  <2> DEFINE c == BucketOf(oh[h].digest)
             list == bucket[c]
             new == RemoveAt(list, Position(list, h))
  <2>1. /\ bucket' = [bucket EXCEPT ![c] = new] /\ Goto(t, "free", h)
        /\ oh' = [oh EXCEPT ![h].st = "dead", ![h].refcnt = 0]
    BY <1>4 DEF hcl_deref
  <2>2. oh[h].digest \in Digest
    BY <1>1 DEF Heads
  <2>3. /\ c = BucketIn(slinger, oh[h].digest) /\ c \in {0, 1} /\ HeadsTyped(oh)
        /\ bucket \in [{0, 1} -> Seq(Objhead)] /\ Lists(slinger, oh, bucket)
    BY <1>1, <2>2, BucketType DEF SlingerInv, ListsInv, Typed
  <2>4. /\ oh' \in Heads /\ oh'[h].refcnt = 0 /\ oh'[h].st = "dead"
        /\ oh'[h].digest = oh[h].digest /\ \A g \in Objhead \ {h} : oh'[g] = oh[g]
    BY <1>1, <2>1 DEF Heads
  <2> HIDE DEF c
  <2>5. /\ list \in Seq(Objhead) /\ Sorted(oh, list) /\ ToSet(list) = InBucket(slinger, oh, c)
        /\ h \in ToSet(list)
    BY <1>1, <2>3 DEF Lists, InBucket
  <2>6. new \in Seq(Objhead) /\ Sorted(oh', new) /\ ToSet(new) = ToSet(list) \ {h}
    <3> HIDE DEF list
    <3>1. \A g \in Objhead \ {h} : oh'[g].digest = oh[g].digest
      BY <2>4
    <3> QED
      BY <2>3, <2>5, <3>1, ListRemove
  <2> HIDE DEF new
  <2>7. Lists(slinger, oh', bucket')
    <3>1. InBucket(slinger, oh', c) = InBucket(slinger, oh, c) \ {h}
      BY <1>1, <2>4 DEF InBucket
    <3>2. Apart(slinger, oh, oh', c)
      BY <1>1, <2>3, <2>4 DEF InBucket, Apart
    <3>3. ToSet(new) = InBucket(slinger, oh', c)
      BY <2>5, <2>6, <3>1
    <3>4. Relisted(bucket, bucket', c, new)
      BY <2>1 DEF Relisted
    <3>5. OneWritten(slinger, oh, oh', bucket, bucket', c, new)
      BY <2>3, <2>6, <3>2, <3>3, <3>4 DEF OneWritten
    <3> QED
      BY <3>5, OneList
  <2>8. /\ th' \in [Thread -> [pc : {"idle", "search", "grab", "locked", "delete", "free"},
                        p : Ptr, d : Digest]]
        /\ th'[t].pc = "free" /\ th'[t].p = h /\ Others(t)
    BY <1>1, <2>1, GotoSteps DEF Others
  <2>9. Typed'
    BY <1>1, <1>2, <2>1, <2>3, <2>4, <2>6, <2>8 DEF Typed, TreeTyped, Heads
  <2>10. Counted'
    BY <1>1, <1>2, <1>4, <2>4 DEF Counted
  <2>11. Bounded'
    <3> SUFFICES ASSUME NEW g \in Objhead
                 PROVE  refs'[g] + Cardinality(BusyIn(th', oh'[g].digest)) <= Cap
      BY DEF Bounded
    <3>1. oh'[g].digest = oh[g].digest /\ refs'[g] <= refs[g] /\ t \notin BusyIn(th', oh[g].digest)
      BY <1>1, <1>2, <2>4, <2>8 DEF Typed, BusyIn
    <3> QED
      BY <1>1, <1>2, <2>8, <3>1, LoadStep
  <2>12. Holds(t)'
    BY <1>1, <2>4, <2>8 DEF Holds
  <2>13. \A u \in Thread \ {t} : th[u].pc = "free" => oh'[th[u].p].st = "dead" /\ th[u].p # h
    BY <1>1, <2>4, ClassicThreads
  <2>14. \A u \in Thread \ {t} : th[u].pc = th'[t].pc /\ th'[t].pc \in {"delete", "free"} =>
           th[u].p # th'[t].p
    BY <2>8, <2>13
  <2> QED
    BY <1>1, <2>7, <2>8, <2>9, <2>10, <2>11, <2>12, <2>13, <2>14, ClassicStep
<1> QED
  BY <1>3, <1>4

LEMMA StepHclFree == ASSUME SlingerInv, NEW t \in Thread, HSH_DeleteObjHead(t) PROVE SlingerInv'
<1> DEFINE h == th[t].p
<1>1. /\ Typed /\ Counted /\ Bounded /\ slinger # "critbit" /\ th[t].pc = "free"
      /\ h \in Objhead /\ oh[h].st = "dead" /\ refs[h] = 0 /\ oh \in Heads /\ Null \in Ptr
      /\ UNCHANGED <<slinger, y, origo, bucket, cleaner, cooling, refs>>
      /\ oh' = [oh EXCEPT ![h] = FreeHead] /\ Goto(t, "idle", Null)
      /\ Lists(slinger, oh, bucket) /\ Alone
  <2>1. /\ Typed /\ Counted /\ Bounded /\ Holds(t) /\ th[t].pc = "free" /\ Alone
    BY DEF SlingerInv, HSH_DeleteObjHead
  <2>2. slinger # "critbit" /\ h \in Objhead /\ oh[h].st = "dead"
    BY <2>1 DEF Holds
  <2>3. refs[h] = 0
    BY <2>1, <2>2 DEF Counted, Typed
  <2> QED
    BY <2>1, <2>2, <2>3 DEF SlingerInv, ListsInv, Typed, TreeTyped, Heads, Ptr, HSH_DeleteObjHead
<1>2. /\ FreeHead.st = "free" /\ FreeHead.digest \in Digest /\ FreeHead.refcnt = 0
      /\ FreeHead \in [st : {"free", "hashed", "cool", "dead"}, digest : Digest, refcnt : Nat]
  BY HashSlingerAssumption DEF FreeHead, AnyDigest
<1> HIDE DEF h
<1>3. oh' \in Heads /\ oh'[h] = FreeHead /\ \A g \in Objhead \ {h} : oh'[g] = oh[g]
  BY <1>1, <1>2 DEF Heads
<1>4. /\ th' \in [Thread -> [pc : {"idle", "search", "grab", "locked", "delete", "free"},
                        p : Ptr, d : Digest]]
      /\ th'[t].pc = "idle" /\ Others(t)
  BY <1>1, GotoSteps DEF Others
<1>5. Typed'
  BY <1>1, <1>3, <1>4 DEF Typed, TreeTyped, Heads
<1>6. Counted'
  BY <1>1, <1>2, <1>3 DEF Counted
<1>7. Bounded'
  <2> SUFFICES ASSUME NEW g \in Objhead
               PROVE  refs'[g] + Cardinality(BusyIn(th', oh'[g].digest)) <= Cap
    BY DEF Bounded
  <2>1. /\ g # h => oh'[g].digest = oh[g].digest
        /\ g = h => refs'[g] = 0
        /\ refs'[g] = refs[g] /\ refs[g] \in Nat /\ refs' \in [Objhead -> Nat]
        /\ t \notin BusyIn(th', oh'[g].digest)
    BY <1>1, <1>3, <1>4 DEF BusyIn, Typed
  <2>2. 0 <= MaxRefs /\ refs'[g] <= refs[g]
    BY <2>1, HashSlingerAssumption
  <2> QED
    BY <1>1, <1>4, <2>1, <2>2, LoadStep
<1>8. Lists(slinger, oh', bucket')
  <2>1. \A b \in {0, 1} : InBucket(slinger, oh', b) = InBucket(slinger, oh, b)
    BY <1>1, <1>2, <1>3 DEF InBucket
  <2>2. \A g \in Objhead : oh[g].st = "hashed" => oh'[g].digest = oh[g].digest
    BY <1>1, <1>3
  <2>3. bucket' = [bucket EXCEPT ![0] = bucket[0]] /\ bucket \in [{0, 1} -> Seq(Objhead)]
    BY <1>1 DEF Typed
  <2>4. \A b \in {0, 1} : \A g \in InBucket(slinger, oh, b) : oh'[g].digest = oh[g].digest
    BY <2>2 DEF InBucket
  <2>5. ASSUME NEW b \in {0, 1} PROVE Sorted(oh', bucket[b])
    <3>1. /\ Sorted(oh, bucket[b]) /\ ToSet(bucket[b]) = InBucket(slinger, oh, b)
          /\ bucket[b] \in Seq(Objhead)
      BY <1>1, <2>3 DEF Lists
    <3>2. \A i \in 1..Len(bucket[b]) : bucket[b][i] \in ToSet(bucket[b])
      BY <3>1 DEF ToSet
    <3> QED
      BY <2>4, <3>1, <3>2 DEF Sorted
  <2> QED
    BY <1>1, <2>1, <2>5 DEF Lists
<1>9. Holds(t)'
  BY <1>4 DEF Holds
<1>10. \A u \in Thread \ {t} : th[u].pc = "free" => oh'[th[u].p].st = "dead"
  <2>1. \A u \in Thread \ {t} : th[u].pc = "free" => th[u].p # h
    BY <1>1 DEF Alone, h
  <2> QED
    BY <1>1, <1>3, <2>1, ClassicThreads
<1> QED
  BY <1>1, <1>4, <1>5, <1>6, <1>7, <1>8, <1>9, <1>10, ClassicStep


LEMMA StepHclLookup == ASSUME SlingerInv, NEW t \in Thread, NEW d \in Digest, hcl_lookup(t, d)
                       PROVE  SlingerInv'
<1> DEFINE c == BucketOf(d)
           list == bucket[c]
           i == Search(list, d)
           at == IF i = 0 THEN Len(list) + 1 ELSE i
<1>1. /\ Typed /\ Counted /\ Bounded /\ slinger # "critbit" /\ th[t].pc = "idle" /\ th' = th
      /\ UNCHANGED <<slinger, y, origo, cleaner, cooling>>
      /\ Lists(slinger, oh, bucket) /\ oh \in Heads /\ Others(t) /\ MayRefer(d)
  BY DEF SlingerInv, hcl_lookup, ListsInv, Typed, TreeTyped, Heads, Others
<1>2. /\ c = BucketIn(slinger, d) /\ c \in {0, 1} /\ HeadsTyped(oh) /\ d \in [1..Bits -> {0, 1}]
      /\ bucket \in [{0, 1} -> Seq(Objhead)]
  BY <1>1, BucketType DEF Typed
<1> HIDE DEF c
<1>3. /\ list \in Seq(Objhead) /\ Sorted(oh, list) /\ ToSet(list) = InBucket(slinger, oh, c)
  BY <1>1, <1>2 DEF Lists
<1>4. /\ i \in 0..Len(list) /\ at \in 1..(Len(list) + 1)
      /\ \A j \in 1..(at - 1) : Less(oh[list[j]].digest, d)
      /\ i = 0 \/ oh[list[i]].digest # d => \A j \in at..Len(list) : Less(d, oh[list[j]].digest)
  <2> HIDE DEF list
  <2> QED
    BY <1>2, <1>3, SearchOK
<1>5. \A j \in 1..Len(list) : list[j] \in ToSet(list) /\ list[j] \in Objhead
  BY <1>3 DEF ToSet
<1>6. Holds(t)' /\ \A g : t \notin BusyIn(th', g)
  BY <1>1 DEF Holds, BusyIn
<1>7. CASE i # 0 /\ oh[list[i]].digest = d
  <2> DEFINE h == list[i]
  <2>1. h \in Objhead /\ h \in InBucket(slinger, oh, c)
    <3> HIDE DEF i
    <3> QED
      BY <1>3, <1>4, <1>5, <1>7
  <2>2. /\ oh' = [oh EXCEPT ![h].refcnt = @ + 1] /\ refs' = [refs EXCEPT ![h] = @ + 1]
        /\ bucket' = bucket /\ oh[h].digest = d
    BY <1>7 DEF hcl_lookup, c
  <2> HIDE DEF h
  <2>3. oh[h].st = "hashed" /\ refs[h] \in Nat /\ refs[h] < MaxRefs /\ oh[h].refcnt = refs[h]
    BY <1>1, <2>1, <2>2 DEF InBucket, Typed, MayRefer, Counted
  <2>4. /\ refs[h] + 1 \in Nat /\ refs' \in [Objhead -> Nat] /\ refs'[h] = refs[h] + 1
        /\ \A g \in Objhead \ {h} : refs'[g] = refs[g]
    BY <1>1, <2>1, <2>2, <2>3 DEF Typed
  <2>5. Recounted(oh, oh', h, refs[h] + 1)
    BY <1>1, <2>1, <2>2, <2>3 DEF Recounted, Heads
  <2>6. /\ oh' \in Heads /\ oh'[h].refcnt = refs[h] + 1 /\ oh'[h].st = oh[h].st
        /\ oh'[h].digest = oh[h].digest /\ \A g \in Objhead \ {h} : oh'[g] = oh[g]
    BY <1>1, <2>1, <2>4, <2>5, Recount
  <2>7. Typed' /\ Unmoved
    BY <1>1, <2>2, <2>4, <2>6 DEF Typed, TreeTyped, Unmoved, Heads
  <2>8. Counted'
    BY <1>1, <2>3, <2>4, <2>6 DEF Counted
  <2>9. Bounded'
    <3> SUFFICES ASSUME NEW g \in Objhead
                 PROVE  refs'[g] + Cardinality(BusyIn(th', oh'[g].digest)) <= Cap
      BY DEF Bounded
    <3>1. oh'[g].digest = oh[g].digest /\ (g # h => refs'[g] <= refs[g])
      BY <1>1, <2>4, <2>6 DEF Typed
    <3>2. g = h => refs'[g] <= MaxRefs
      BY <2>3, <2>4, HashSlingerAssumption
    <3> QED
      BY <1>1, <1>6, <2>4, <3>1, <3>2, LoadStep
  <2>10. \A u \in Thread : th[u].pc # "delete"
    BY <1>1, ClassicThreads
  <2> QED
    BY <1>1, <1>6, <2>7, <2>8, <2>9, <2>10, LightStep
<1>8. CASE ~(i # 0 /\ oh[list[i]].digest = d)
  <2>1. PICK h \in Spare(oh) :
             /\ oh' = [oh EXCEPT ![h] = [st |-> "hashed", digest |-> d, refcnt |-> 1]]
             /\ refs' = [refs EXCEPT ![h] = 1]
             /\ bucket' = [bucket EXCEPT ![c] = InsertAt(@, at, h)]
    BY <1>8 DEF hcl_lookup, c
  <2>2. h \in Objhead /\ oh[h].st = "free" /\ NewHead(h, d)
    BY <1>1, <2>1 DEF Spare, Heads, NewHead
  <2> DEFINE new == InsertAt(list, at, h)
  <2>3. Relisted(bucket, bucket', c, new)
    BY <1>2, <2>1 DEF Relisted
  <2>4. /\ oh' \in Heads /\ refs' \in [Objhead -> Nat] /\ Counted'
        /\ oh'[h].st = "hashed" /\ oh'[h].digest = d /\ refs'[h] = 1
        /\ \A g \in Objhead \ {h} : oh'[g] = oh[g] /\ refs'[g] = refs[g]
    BY <1>1, <2>2, NewHeadIs
  <2>5. \A j \in 1..Len(list) : list[j] # h
    BY <1>3, <1>5, <2>2 DEF InBucket
  <2>6. /\ \A j \in 1..Len(list) : oh'[list[j]].digest = oh[list[j]].digest
        /\ \A j \in 1..(at - 1) : Less(oh[list[j]].digest, oh'[h].digest)
        /\ \A j \in at..Len(list) : Less(oh'[h].digest, oh[list[j]].digest)
    BY <1>4, <1>5, <1>8, <2>4, <2>5
  <2>7. new \in Seq(Objhead) /\ Sorted(oh', new) /\ ToSet(new) = ToSet(list) \cup {h}
    <3>1. Slot(oh, oh', list, h, at)
      BY <1>4, <2>6 DEF Slot
    <3> HIDE DEF list, at
    <3> QED
      BY <1>3, <2>2, <3>1, ListInsert
  <2> HIDE DEF new
  <2>8. Lists(slinger, oh', bucket')
    <3>1. InBucket(slinger, oh', c) = InBucket(slinger, oh, c) \cup {h}
      BY <1>2, <2>2, <2>4 DEF InBucket
    <3>2. Apart(slinger, oh, oh', c)
      BY <1>2, <2>2, <2>4, ZenonT(60) DEF InBucket, Apart
    <3>3. ToSet(new) = InBucket(slinger, oh', c)
      BY <1>3, <2>7, <3>1
    <3>4. OneWritten(slinger, oh, oh', bucket, bucket', c, new)
      BY <1>1, <1>2, <2>3, <2>7, <3>2, <3>3 DEF OneWritten
    <3> QED
      BY <3>4, OneList
  <2>9. bucket' \in [{0, 1} -> Seq(Objhead)]
    BY <1>2, <2>3, <2>7 DEF Relisted
  <2>10. Typed'
    BY <1>1, <2>4, <2>9 DEF Typed, TreeTyped, Heads
  <2>11. Bounded'
    <3> SUFFICES ASSUME NEW g \in Objhead
                 PROVE  refs'[g] + Cardinality(BusyIn(th', oh'[g].digest)) <= Cap
      BY DEF Bounded
    <3>1. CASE g = h
      <4>1. refs'[g] <= MaxRefs
        BY <2>4, <3>1, HashSlingerAssumption
      <4> QED
        BY <1>1, <1>6, <2>4, <4>1, LoadStep
    <3>2. CASE g # h
      <4>1. oh'[g].digest = oh[g].digest /\ refs'[g] <= refs[g]
        BY <1>1, <2>4, <3>2 DEF Typed
      <4> QED
        BY <1>1, <1>6, <2>4, <4>1, LoadStep
    <3> QED
      BY <3>1, <3>2
  <2>12. \A u \in Thread \ {t} : th[u].pc = "free" => oh'[th[u].p].st = "dead"
    BY <1>1, <2>2, <2>4, ClassicThreads
  <2> QED
    BY <1>1, <1>6, <2>4, <2>8, <2>10, <2>11, <2>12, ClassicStep
<1> QED
  BY <1>7, <1>8


-----------------------------------------------------------------------------
(* The invariant holds and says what the runs check.                       *)

LEMMA InvStutter == ASSUME SlingerInv, UNCHANGED slingervars PROVE SlingerInv'
<1> USE DEF slingervars
<1>1. Typed' /\ Counted' /\ Alone' /\ Bounded'
  BY DEF SlingerInv, Typed, TreeTyped, Counted, Alone, Bounded, BusyIn
<1>2. \A t \in Thread : Holds(t)'
  BY DEF SlingerInv, Holds, Intact, Dying, Hashed, Trees
<1>3. TreeInv' /\ StoredInv' /\ CleanerInv' /\ ListsInv'
  BY DEF SlingerInv, TreeInv, StoredInv, CleanerInv, ListsInv
<1> QED
  BY <1>1, <1>2, <1>3 DEF SlingerInv

\* Every reachable state of the slingers, with every interleaving of searches
\* without the lock, inserts, deletes and the cleaner (hcb_lookup, hcb_deref,
\* hcb_cleaner, hcl_lookup, hcl_deref), satisfies the inductive invariant.
THEOREM SlingerInvariant == SlingerSpec => []SlingerInv
<1>1. SlingerInit => SlingerInv
  BY InvInit
<1>2. SlingerInv /\ [SlingerNext]_slingervars => SlingerInv'
  <2> SUFFICES ASSUME SlingerInv, [SlingerNext]_slingervars PROVE SlingerInv'
    OBVIOUS
  <2>1. CASE UNCHANGED slingervars
    BY <2>1, InvStutter
  <2>2. ASSUME NEW t \in Thread, NEW d \in Digest, hcb_lookup(t, d) \/ hcl_lookup(t, d)
        PROVE  SlingerInv'
    BY <2>2, StepLookup, StepHclLookup
  <2>3. ASSUME NEW t \in Thread, hcb_search(t) \/ hcb_found(t) \/ hcb_locked(t) \/ hcb_grab(t)
        PROVE  SlingerInv'
    BY <2>3, StepSearch, StepFound, StepLocked, StepGrab
  <2>4. ASSUME NEW t \in Thread, hcb_deref_delete(t) \/ HSH_DeleteObjHead(t)
        PROVE  SlingerInv'
    BY <2>4, StepDelete, StepHclFree
  <2>5. ASSUME NEW t \in Thread, NEW h \in Objhead, hcb_deref(t, h) \/ hcl_deref(t, h)
        PROVE  SlingerInv'
    BY <2>5, StepDeref, StepHclDeref
  <2>6. CASE hcb_cleaner_free \/ hcb_cleaner_concat \/ hcb_cleaner_sleep
    BY <2>6, StepCleanerFree, StepCleanerConcat, StepCleanerSleep
  <2> QED
    BY <2>1, <2>2, <2>3, <2>4, <2>5, <2>6 DEF SlingerNext
<1> QED
  BY <1>1, <1>2, PTL DEF SlingerSpec

LEMMA InvTypes == ASSUME SlingerInv PROVE SlingerTypeOK
<1>1. Typed /\ Counted /\ Bounded
  BY DEF SlingerInv
<1>2. \A h \in Objhead : refs[h] \in 0..Cap /\ oh[h].refcnt \in 0..Cap
  <2> SUFFICES ASSUME NEW h \in Objhead PROVE refs[h] \in 0..Cap /\ oh[h].refcnt = refs[h]
    OBVIOUS
  <2>1. /\ refs[h] \in Nat /\ Cardinality(BusyIn(th, oh[h].digest)) \in Nat /\ Cap \in Nat
        /\ refs[h] + Cardinality(BusyIn(th, oh[h].digest)) <= Cap
    BY <1>1, BusyCount, CapBound DEF Typed, Bounded
  <2>2. refs[h] \in 0..Cap
    BY <2>1
  <2> QED
    BY <1>1, <2>2 DEF Counted
<1> HIDE DEF Cap
<1>3. refs \in [Objhead -> 0..Cap]
  BY <1>1, <1>2 DEF Typed
<1>4. oh \in [Objhead -> [st : {"free", "hashed", "cool", "dead"}, digest : Digest, refcnt : 0..Cap]]
  <2>1. oh \in Heads
    BY <1>1 DEF Typed, TreeTyped, Heads
  <2>2. \A h \in Objhead : oh[h] = [st |-> oh[h].st, digest |-> oh[h].digest, refcnt |-> oh[h].refcnt]
    BY <2>1 DEF Heads
  <2>3. \A h \in Objhead : oh[h] \in [st : {"free", "hashed", "cool", "dead"}, digest : Digest, refcnt : 0..Cap]
    BY <1>2, <2>1, <2>2 DEF Heads
  <2> QED
    BY <2>1, <2>3 DEF Heads
<1> QED
  BY <1>1, <1>3, <1>4 DEF SlingerTypeOK, Typed, TreeTyped, Cap

LEMMA InvTree == ASSUME SlingerInv PROVE TreeComplete
<1> SUFFICES ASSUME slinger = "critbit" PROVE TreeComplete
  BY DEF TreeComplete
<1>1. PICK S : Tree(oh, y, origo, S)
  BY DEF SlingerInv, TreeInv
<1>2. InTree(S) /\ \A h \in Objhead : oh[h].digest \in [1..Bits -> {0, 1}]
  BY <1>1, TreeTypes DEF InTree, SlingerInv, Typed
<1>3. \A h \in Hashed(oh) : Path(oh[h].digest)[Bits] = h
  BY <1>2, PathFinds DEF Hashed
<1>4. ASSUME NEW n \in Trees(y)
      PROVE  \E h \in Hashed(oh) : \E i \in 0..Bits : Path(oh[h].digest)[i] = n
  <2>1. S[n] # {} /\ S[n] \subseteq Hashed(oh)
    BY <1>1 DEF Tree, NodeOK, Trees, Ptr
  <2> QED
    BY <1>2, <2>1, NodeOnPath
<1>5. ASSUME NEW h \in Hashed(oh), NEW i \in 0..Bits, Path(oh[h].digest)[i] \in Hcby
      PROVE  Path(oh[h].digest)[i] \in Trees(y)
  <2>1. oh[h].digest \in [1..Bits -> {0, 1}] /\ origo # Null
    BY <1>2, PathFinds DEF Hashed
  <2>2. Path(oh[h].digest)[i] \in Trees(y) \cup Hashed(oh)
    BY <1>2, <2>1, PathInTree
  <2> QED
    BY <1>5, <2>2, HashSlingerAssumption DEF Hashed
<1>6. ASSUME NEW n \in Trees(y), NEW b \in {0, 1}, y[n].leaf[b] \in Hcby
      PROVE  y[n].leaf[b] \in Trees(y) /\ y[y[n].leaf[b]].critbit > y[n].critbit
  <2>1. /\ y[n].leaf[b] \in Trees(y) \cup Hashed(oh)
        /\ y[n].leaf[b] \in Trees(y) => y[n].critbit < y[y[n].leaf[b]].critbit
    BY <1>1 DEF Tree, NodeOK
  <2>2. y[n].leaf[b] \in Trees(y)
    BY <1>6, <2>1, HashSlingerAssumption DEF Hashed
  <2>3. y[n].critbit \in Nat /\ y[y[n].leaf[b]].critbit \in Nat
    BY <1>2, <2>2 DEF InTree, NodesTyped, Trees
  <2> QED
    BY <2>1, <2>2, <2>3
<1> DEFINE On(h) == {Path(oh[h].digest)[i] : i \in 0..Bits} \cap Hcby
<1>7. Trees(y) = UNION {On(h) : h \in Hashed(oh)}
  <2>1. \A n \in Trees(y) : \E h \in Hashed(oh) : n \in On(h)
    BY <1>4 DEF Trees
  <2>2. \A h \in Hashed(oh) : On(h) \subseteq Trees(y)
    BY <1>5
  <2> HIDE DEF On
  <2> QED
    BY <2>1, <2>2
<1>8. \A n \in Hcby : y[n].st = "tree" => \A b \in {0, 1} : y[n].leaf[b] \in Hcby =>
        y[y[n].leaf[b]].st = "tree" /\ y[y[n].leaf[b]].critbit > y[n].critbit
  BY <1>6 DEF Trees
<1> QED
  BY <1>3, <1>7, <1>8 DEF TreeComplete, Hashed, Trees

LEMMA InvLists == ASSUME SlingerInv PROVE ListsComplete
<1> SUFFICES ASSUME slinger # "critbit" PROVE ListsComplete
  BY DEF ListsComplete
<1>1. Lists(slinger, oh, bucket)
  BY DEF SlingerInv, ListsInv
<1>2. \A h \in Objhead : BucketOf(oh[h].digest) = BucketIn(slinger, oh[h].digest)
  BY DEF BucketOf, BucketIn
<1> QED
  BY <1>1, <1>2 DEF ListsComplete, Lists, Sorted, InBucket

LEMMA InvSafe == ASSUME SlingerInv PROVE NoUseAfterFree
<1> SUFFICES ASSUME NEW t \in Thread, th[t].pc \in {"search", "grab"}
             PROVE  /\ th[t].p \in Objhead => oh[th[t].p].st # "free"
                    /\ th[t].p \in Hcby => y[th[t].p].st # "free"
  BY DEF NoUseAfterFree
<1>1. th[t].p # Null => th[t].p \in Intact(oh, y) \cup Dying(oh, y)
  BY DEF SlingerInv, Holds
<1>2. Objhead \cap Hcby = {} /\ Null \notin Objhead \cup Hcby
  BY HashSlingerAssumption
<1> QED
  BY <1>1, <1>2 DEF Intact, Dying, Hashed, Trees

\* The structure of the slinger is intact in every reachable state and no
\* search without the lock stands on freed memory, for every number of threads,
\* every set of digests and every amount of memory: a search of hcb_lookup()
\* ends at the objhead of its digest, the lists of hcl_lookup() and hsl_lookup()
\* are sorted and complete, and what hcb_delete() takes out of the tree stays
\* intact until the searches that may stand on it are over.
THEOREM SlingerCorrect == SlingerSpec => []SlingerSound
<1>1. SlingerInv => SlingerSound
  BY InvTypes, InvTree, InvLists, InvSafe DEF SlingerSound
<1> QED
  BY <1>1, SlingerInvariant, PTL


-----------------------------------------------------------------------------
(* The slingers implement HashTable.                                       *)

\* No two objheads in the table have the same digest.
LEMMA OneHead ==
  ASSUME SlingerInv, NEW g \in Hashed(oh), NEW h \in Hashed(oh), oh[g].digest = oh[h].digest
  PROVE  g = h
<1>1. Typed /\ g \in Objhead /\ h \in Objhead
  BY DEF SlingerInv, Hashed
<1>2. oh[h].digest \in Digest
  BY <1>1 DEF Typed, TreeTyped
<1>3. CASE slinger = "critbit"
  <2>1. TreeComplete
    BY InvTree
  <2> QED
    BY <1>3, <2>1 DEF TreeComplete, Hashed
<1>4. CASE slinger # "critbit"
  <2> DEFINE c == BucketOf(oh[h].digest)
             list == bucket[c]
  <2>1. /\ c = BucketIn(slinger, oh[h].digest) /\ c \in {0, 1} /\ HeadsTyped(oh)
        /\ bucket \in [{0, 1} -> Seq(Objhead)] /\ Lists(slinger, oh, bucket)
    BY <1>1, <1>2, <1>4, BucketType DEF SlingerInv, ListsInv, Typed
  <2> HIDE DEF c
  <2>2. list \in Seq(Objhead) /\ Sorted(oh, list) /\ ToSet(list) = InBucket(slinger, oh, c)
    BY <2>1 DEF Lists
  <2>3. g \in ToSet(list) /\ h \in ToSet(list)
    BY <2>1, <2>2 DEF InBucket, Hashed
  <2>4. PICK i, j \in 1..Len(list) : list[i] = g /\ list[j] = h
    BY <2>2, <2>3 DEF ToSet
  <2> HIDE DEF list
  <2>5. ~Less(oh[h].digest, oh[h].digest)
    BY <1>1, <2>1, LessIsOrder DEF HeadsTyped
  <2>6. ~(i < j) /\ ~(j < i)
    BY <2>2, <2>4, <2>5 DEF Sorted
  <2>7. i = j
    BY <2>2, <2>6
  <2> QED
    BY <2>4, <2>7
<1> QED
  BY <1>3, <1>4

\* A digest that the locked search of critbit does not find is not in the tree.
LEMMA NotInTree ==
  ASSUME SlingerInv, slinger = "critbit", NEW d \in Digest,
         ~(Path(d)[Bits] # Null /\ oh[Path(d)[Bits]].digest = d)
  PROVE  \A g \in Hashed(oh) : oh[g].digest # d
<1> SUFFICES ASSUME NEW g \in Hashed(oh), oh[g].digest = d PROVE FALSE
  OBVIOUS
<1>1. Path(d)[Bits] = g
  BY InvTree DEF TreeComplete, Hashed
<1>2. g # Null
  BY HashSlingerAssumption DEF Hashed
<1> QED
  BY <1>1, <1>2

\* A digest that the search of a list does not find is not in the table.
LEMMA NotInLists ==
  ASSUME SlingerInv, slinger # "critbit", NEW d \in Digest,
         LET list == bucket[BucketOf(d)]
             i == Search(list, d)
         IN ~(i # 0 /\ oh[list[i]].digest = d)
  PROVE  \A g \in Hashed(oh) : oh[g].digest # d
<1> DEFINE c == BucketOf(d)
           list == bucket[c]
           i == Search(list, d)
           at == IF i = 0 THEN Len(list) + 1 ELSE i
<1> SUFFICES ASSUME NEW g \in Hashed(oh), oh[g].digest = d PROVE FALSE
  OBVIOUS
<1>1. ~(i # 0 /\ oh[list[i]].digest = d)
  OBVIOUS
<1>2. /\ c = BucketIn(slinger, d) /\ c \in {0, 1} /\ HeadsTyped(oh) /\ d \in [1..Bits -> {0, 1}]
      /\ bucket \in [{0, 1} -> Seq(Objhead)] /\ Lists(slinger, oh, bucket)
  BY BucketType DEF SlingerInv, ListsInv, Typed
<1> HIDE DEF c
<1>3. list \in Seq(Objhead) /\ Sorted(oh, list) /\ ToSet(list) = InBucket(slinger, oh, c)
  BY <1>2 DEF Lists
<1>4. g \in ToSet(list)
  BY <1>2, <1>3 DEF InBucket, Hashed
<1>5. PICK j \in 1..Len(list) : list[j] = g
  BY <1>3, <1>4 DEF ToSet
<1> HIDE DEF list
<1>6. /\ i \in 0..Len(list) /\ at \in 1..(Len(list) + 1) /\ Len(list) \in Nat
      /\ \A l \in 1..(at - 1) : Less(oh[list[l]].digest, d)
      /\ i = 0 \/ oh[list[i]].digest # d => \A l \in at..Len(list) : Less(d, oh[list[l]].digest)
  BY <1>2, <1>3, SearchOK
<1> HIDE DEF i, at
<1>7. j \in 1..(at - 1) \/ j \in at..Len(list)
  BY <1>6
<1>8. Less(d, d)
  BY <1>1, <1>5, <1>6, <1>7
<1> QED
  BY <1>2, <1>8, LessIsOrder

\* The key of HashTable.
KeyOf(O) == [h \in Objhead |-> O[h].digest]

\* Steps that hand out and take back nothing.
LEMMA IsScratch ==
  ASSUME Typed', refs' = refs, \A h \in Objhead : refs[h] > 0 => oh'[h].digest = oh[h].digest
  PROVE  HT!Next
<1>1. KeyOf(oh)' \in [Objhead -> Digest]
  BY DEF KeyOf, Typed, TreeTyped
<1>2. \A h \in Objhead : refs[h] > 0 => KeyOf(oh)'[h] = KeyOf(oh)[h]
  BY DEF KeyOf
<1>3. HT!Scratch
  BY <1>1, <1>2 DEF HT!Scratch, KeyOf
<1> QED
  BY <1>3 DEF HT!Next

LEMMA IsDeref ==
  ASSUME NEW h \in Objhead, refs[h] > 0, refs' = [refs EXCEPT ![h] = @ - 1],
         \A g \in Objhead : oh'[g].digest = oh[g].digest
  PROVE  HT!Next
<1>1. KeyOf(oh)' = KeyOf(oh)
  BY DEF KeyOf
<1>2. HT!Deref(h)
  BY <1>1 DEF HT!Deref, KeyOf
<1> QED
  BY <1>2 DEF HT!Next

\* The objhead handed out is the one of the digest, or a new one.
LEMMA IsLookup ==
  ASSUME SlingerInv, NEW h \in Objhead, NEW d \in Digest, refs' = [refs EXCEPT ![h] = @ + 1],
         oh'[h].digest = d, \A g \in Objhead \ {h} : oh'[g].digest = oh[g].digest,
         \/ h \in Hashed(oh) /\ oh[h].digest = d
         \/ refs[h] = 0 /\ \A g \in Hashed(oh) : oh[g].digest # d
  PROVE  HT!Next
<1> DEFINE of == {g \in Objhead : refs[g] > 0 /\ KeyOf(oh)[g] = d}
<1>1. KeyOf(oh)' = [KeyOf(oh) EXCEPT ![h] = d]
  BY DEF KeyOf
<1>2. Typed /\ \A g \in Objhead : refs[g] > 0 => g \in Hashed(oh)
  BY DEF SlingerInv, Counted, Hashed
<1>3. \A g \in of : g \in Hashed(oh) /\ oh[g].digest = d
  BY <1>2 DEF KeyOf
<1>4. of = {h} \/ (of = {} /\ refs[h] = 0)
  <2>1. CASE h \in Hashed(oh) /\ oh[h].digest = d
    <3>1. \A g \in of : g = h
      <4> HIDE DEF of
      <4> QED
        BY <1>3, <2>1, OneHead
    <3>2. h \notin of => refs[h] = 0
      BY <1>2, <2>1 DEF Typed, KeyOf
    <3> HIDE DEF of
    <3> QED
      BY <3>1, <3>2
  <2>2. CASE refs[h] = 0 /\ \A g \in Hashed(oh) : oh[g].digest # d
    <3> HIDE DEF of
    <3> QED
      BY <1>3, <2>2
  <2> QED
    BY <2>1, <2>2
<1>5. HT!Of(d) = of
  BY DEF HT!Of, KeyOf
<1>6. HT!Lookup(d, h)
  <2> HIDE DEF of
  <2> QED
    BY <1>1, <1>4, <1>5 DEF HT!Lookup, KeyOf
<1> QED
  BY <1>6 DEF HT!Next


\* Steps of a thread that change no objhead, or none with references.
LEMMA QuietStep ==
  ASSUME SlingerInv, SlingerInv', NEW t \in Thread,
         \/ \E d \in Digest : hcb_lookup(t, d)
         \/ hcb_search(t) \/ hcb_found(t) \/ hcb_deref_delete(t) \/ HSH_DeleteObjHead(t)
  PROVE  HT!Next
<1>1. Typed /\ Typed' /\ Counted /\ Holds(t)
  BY DEF SlingerInv
<1>2. refs' = refs
  BY DEF hcb_lookup, hcb_search, hcb_found, hcb_deref_delete, HSH_DeleteObjHead
<1>3. CASE oh' = oh
  BY <1>1, <1>2, <1>3, IsScratch
<1>4. CASE hcb_deref_delete(t) \/ HSH_DeleteObjHead(t)
  <2>1. th[t].p \in Objhead /\ refs[th[t].p] = 0
    <3>1. CASE hcb_deref_delete(t)
      BY <1>1, <3>1 DEF hcb_deref_delete, Holds
    <3>2. CASE HSH_DeleteObjHead(t)
      BY <1>1, <3>2 DEF HSH_DeleteObjHead, Holds, Counted, Typed
    <3> QED
      BY <1>4, <3>1, <3>2
  <2>2. oh \in Heads
    BY <1>1 DEF Typed, TreeTyped, Heads
  <2>3. \A h \in Objhead \ {th[t].p} : oh'[h] = oh[h]
    BY <1>4, <2>1, <2>2 DEF hcb_deref_delete, HSH_DeleteObjHead, Heads
  <2>4. \A h \in Objhead : refs[h] > 0 => oh'[h].digest = oh[h].digest
    BY <2>1, <2>3
  <2> QED
    BY <1>1, <1>2, <2>4, IsScratch
<1> QED
  BY <1>3, <1>4 DEF hcb_lookup, hcb_search, hcb_found

LEMMA LockedStep ==
  ASSUME SlingerInv, SlingerInv', NEW t \in Thread, hcb_locked(t)
  PROVE  HT!Next
<1> DEFINE d == Want(t)
           end == Path(d)[Bits]
<1>1. /\ th[t].pc = "locked" /\ slinger = "critbit" /\ d \in Digest /\ Typed /\ Typed' /\ Counted
  BY DEF hcb_locked, SlingerInv, Holds, Want, Typed
<1>2. CASE end # Null /\ oh[end].digest = d
  <2>1. oh' = oh /\ refs' = refs
    BY <1>2 DEF hcb_locked
  <2> QED
    BY <1>1, <2>1, IsScratch
<1>3. CASE ~(end # Null /\ oh[end].digest = d)
  <2>1. PICK h \in Spare(oh) :
             /\ oh' = [oh EXCEPT ![h] = [st |-> "hashed", digest |-> d, refcnt |-> 1]]
             /\ refs' = [refs EXCEPT ![h] = 1]
    BY <1>3 DEF hcb_locked
  <2> HIDE DEF d
  <2>2. h \in Objhead /\ oh[h].st = "free" /\ NewHead(h, d)
    BY <1>1, <2>1 DEF Spare, Typed, TreeTyped, NewHead
  <2>3. refs[h] = 0 /\ refs' = [refs EXCEPT ![h] = @ + 1]
    <3>1. refs[h] = 0
      <4>1. refs[h] \in Nat /\ h \in Objhead /\ oh[h].st = "free"
        BY <1>1, <2>2 DEF Typed
      <4>2. refs[h] > 0 => oh[h].st = "hashed"
        BY <1>1, <4>1 DEF Counted
      <4> QED
        BY <4>1, <4>2
    <3>2. refs' = [refs EXCEPT ![h] = 1]
      BY <2>2 DEF NewHead
    <3>3. refs \in [Objhead -> Nat]
      BY <1>1 DEF Typed
    <3>4. [refs EXCEPT ![h] = 1] = [refs EXCEPT ![h] = @ + 1]
      BY <2>2, <3>1, <3>3
    <3> QED
      BY <3>1, <3>2, <3>4
  <2>4. oh'[h].digest = d /\ \A g \in Objhead \ {h} : oh'[g] = oh[g]
    BY <1>1, <2>2, NewHeadIs
  <2>5. \A g \in Hashed(oh) : oh[g].digest # d
    BY <1>1, <1>3, NotInTree
  <2> HIDE DEF end
  <2> QED
    BY <1>1, <2>2, <2>3, <2>4, <2>5, IsLookup
<1> QED
  BY <1>2, <1>3

LEMMA GrabStep ==
  ASSUME SlingerInv, SlingerInv', NEW t \in Thread, hcb_grab(t)
  PROVE  HT!Next
<1> DEFINE p == th[t].p
<1>1. /\ Typed /\ Typed' /\ Counted /\ p \in Objhead /\ oh \in Heads
  BY DEF SlingerInv, Holds, hcb_grab, Typed, TreeTyped, Heads
<1>2. CASE ~(oh[p].refcnt > 0)
  <2>1. oh' = oh /\ refs' = refs
    BY <1>2 DEF hcb_grab
  <2> QED
    BY <1>1, <2>1, IsScratch
<1>3. CASE oh[p].refcnt > 0
  <2>1. oh' = [oh EXCEPT ![p].refcnt = @ + 1] /\ refs' = [refs EXCEPT ![p] = @ + 1]
    BY <1>3 DEF hcb_grab
  <2> HIDE DEF p
  <2>2. p \in Hashed(oh) /\ oh[p].digest \in Digest
    BY <1>1, <1>3 DEF Counted, Hashed, Heads
  <2>3. \A g \in Objhead : oh'[g].digest = oh[g].digest
    BY <1>1, <2>1 DEF Heads
  <2> QED
    BY <1>1, <2>1, <2>2, <2>3, IsLookup
<1> QED
  BY <1>2, <1>3

LEMMA DerefStep ==
  ASSUME SlingerInv, NEW t \in Thread, NEW h \in Objhead, hcb_deref(t, h) \/ hcl_deref(t, h)
  PROVE  HT!Next
<1>1. oh \in Heads /\ refs[h] > 0 /\ refs' = [refs EXCEPT ![h] = @ - 1]
  BY DEF SlingerInv, Typed, TreeTyped, Heads, hcb_deref, hcl_deref
<1>2. \/ oh' = [oh EXCEPT ![h].refcnt = @ - 1]
      \/ oh' = [oh EXCEPT ![h].st = "dead", ![h].refcnt = 0]
  BY DEF hcb_deref, hcl_deref
<1>3. \A g \in Objhead : oh'[g].digest = oh[g].digest
  BY <1>1, <1>2 DEF Heads
<1> QED
  BY <1>1, <1>3, IsDeref

LEMMA ClassicLookupStep ==
  ASSUME SlingerInv, NEW t \in Thread, NEW d \in Digest, hcl_lookup(t, d)
  PROVE  HT!Next
<1> DEFINE c == BucketOf(d)
           list == bucket[c]
           i == Search(list, d)
<1>1. /\ Typed /\ Counted /\ slinger # "critbit" /\ oh \in Heads /\ Lists(slinger, oh, bucket)
      /\ bucket \in [{0, 1} -> Seq(Objhead)]
  BY DEF SlingerInv, hcl_lookup, ListsInv, Typed, TreeTyped, Heads
<1>2. c \in {0, 1} /\ HeadsTyped(oh) /\ d \in [1..Bits -> {0, 1}]
  BY <1>1, BucketType
<1> HIDE DEF c
<1>3. list \in Seq(Objhead) /\ Sorted(oh, list) /\ ToSet(list) = InBucket(slinger, oh, c)
  BY <1>1, <1>2 DEF Lists
<1>4. i \in 0..Len(list)
  <2> HIDE DEF list
  <2> QED
    BY <1>2, <1>3, SearchOK
<1>5. CASE i # 0 /\ oh[list[i]].digest = d
  <2> DEFINE h == list[i]
  <2>1. h \in ToSet(list)
    <3> HIDE DEF i
    <3> QED
      BY <1>3, <1>4, <1>5 DEF ToSet
  <2>2. /\ oh' = [oh EXCEPT ![h].refcnt = @ + 1] /\ refs' = [refs EXCEPT ![h] = @ + 1]
        /\ oh[h].digest = d
    BY <1>5 DEF hcl_lookup, c
  <2> HIDE DEF h
  <2>3. h \in Objhead /\ h \in Hashed(oh)
    BY <1>3, <2>1 DEF InBucket, Hashed
  <2>4. \A g \in Objhead : oh'[g].digest = oh[g].digest
    BY <1>1, <2>2, <2>3 DEF Heads
  <2> QED
    BY <2>2, <2>3, <2>4, IsLookup
<1>6. CASE ~(i # 0 /\ oh[list[i]].digest = d)
  <2>1. PICK h \in Spare(oh) :
             /\ oh' = [oh EXCEPT ![h] = [st |-> "hashed", digest |-> d, refcnt |-> 1]]
             /\ refs' = [refs EXCEPT ![h] = 1]
    BY <1>6 DEF hcl_lookup, c
  <2>2. h \in Objhead /\ oh[h].st = "free" /\ NewHead(h, d)
    BY <1>1, <2>1 DEF Spare, Heads, NewHead
  <2>3. refs[h] = 0 /\ refs' = [refs EXCEPT ![h] = @ + 1]
    <3>1. refs[h] = 0
      <4>1. refs[h] \in Nat /\ h \in Objhead /\ oh[h].st = "free"
        BY <1>1, <2>2 DEF Typed
      <4>2. refs[h] > 0 => oh[h].st = "hashed"
        BY <1>1, <4>1 DEF Counted
      <4> QED
        BY <4>1, <4>2
    <3>2. refs' = [refs EXCEPT ![h] = 1]
      BY <2>2 DEF NewHead
    <3>3. refs \in [Objhead -> Nat]
      BY <1>1 DEF Typed
    <3>4. [refs EXCEPT ![h] = 1] = [refs EXCEPT ![h] = @ + 1]
      BY <2>2, <3>1, <3>3
    <3> QED
      BY <3>1, <3>2, <3>4
  <2>4. oh'[h].digest = d /\ \A g \in Objhead \ {h} : oh'[g] = oh[g]
    BY <1>1, <2>2, NewHeadIs
  <2>5. \A g \in Hashed(oh) : oh[g].digest # d
    BY <1>1, <1>6, NotInLists DEF c
  <2> QED
    BY <2>2, <2>3, <2>4, <2>5, IsLookup
<1> QED
  BY <1>5, <1>6

LEMMA CleanerStep ==
  ASSUME SlingerInv, SlingerInv', hcb_cleaner_free \/ hcb_cleaner_concat \/ hcb_cleaner_sleep
  PROVE  HT!Next
<1>1. /\ Typed' /\ oh \in Heads /\ refs' = refs
      /\ \A h \in Objhead : refs[h] > 0 => oh[h].st = "hashed"
  BY DEF SlingerInv, Counted, Typed, TreeTyped, Heads, hcb_cleaner_free, hcb_cleaner_concat,
         hcb_cleaner_sleep
<1>2. \A h \in Objhead : oh[h].st = "hashed" => oh'[h] = oh[h]
  BY DEF hcb_cleaner_free, hcb_cleaner_concat, hcb_cleaner_sleep
<1> QED
  BY <1>1, <1>2, IsScratch

\* The slingers hand out references as an atomic table does: every step of a
\* search without the lock, of an insert, a delete, the cleaner, and of the
\* lists is a lookup, a deref or no step of HashTable, so that a digest with
\* references always yields the same objhead (hcb_lookup, hcb_deref,
\* hcl_lookup, hcl_deref and their users in cache_hash.c).
THEOREM SlingerRefines == SlingerSpec => IsHashTable
<1>1. SlingerInit => HT!Init
  <2> SUFFICES ASSUME SlingerInit PROVE HT!Init
    OBVIOUS
  <2>1. refs = [h \in Objhead |-> 0] /\ oh = [h \in Objhead |-> FreeHead]
    BY DEF SlingerInit
  <2>2. FreeHead.digest \in Digest
    BY HashSlingerAssumption DEF FreeHead, AnyDigest
  <2>3. KeyOf(oh) \in [Objhead -> Digest]
    BY <2>1, <2>2 DEF KeyOf
  <2> QED
    BY <2>1, <2>3 DEF HT!Init, KeyOf
<1>2. SlingerInv /\ SlingerInv' /\ [SlingerNext]_slingervars => [HT!Next]_HT!vars
  <2> SUFFICES ASSUME SlingerInv, SlingerInv', [SlingerNext]_slingervars
               PROVE  [HT!Next]_HT!vars
    OBVIOUS
  <2>1. CASE UNCHANGED slingervars
    BY <2>1 DEF slingervars, HT!vars
  <2>2. ASSUME NEW t \in Thread, NEW d \in Digest, hcb_lookup(t, d) \/ hcl_lookup(t, d)
        PROVE  HT!Next
    BY <2>2, QuietStep, ClassicLookupStep
  <2>3. ASSUME NEW t \in Thread, hcb_search(t) \/ hcb_found(t) \/ hcb_locked(t) \/ hcb_grab(t)
        PROVE  HT!Next
    BY <2>3, QuietStep, LockedStep, GrabStep
  <2>4. ASSUME NEW t \in Thread, hcb_deref_delete(t) \/ HSH_DeleteObjHead(t)
        PROVE  HT!Next
    BY <2>4, QuietStep
  <2>5. ASSUME NEW t \in Thread, NEW h \in Objhead, hcb_deref(t, h) \/ hcl_deref(t, h)
        PROVE  HT!Next
    BY <2>5, DerefStep
  <2>6. CASE hcb_cleaner_free \/ hcb_cleaner_concat \/ hcb_cleaner_sleep
    BY <2>6, CleanerStep
  <2> QED
    BY <2>1, <2>2, <2>3, <2>4, <2>5, <2>6 DEF SlingerNext
<1> QED
  BY <1>1, <1>2, SlingerInvariant, PTL DEF SlingerSpec, IsHashTable, HT!Spec
=============================================================================
