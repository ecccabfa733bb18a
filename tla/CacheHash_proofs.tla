-------------------------- MODULE CacheHash_proofs --------------------------
(* Theorems about CacheHash, checked by TLAPS.                             *)
EXTENDS CacheHash, FiniteSetTheorems, WellFoundedInduction, TLAPS

----------------------------------------------------------------------------
(* Lists.                                                                  *)

\* Removing an element (VTAILQ_REMOVE) leaves a list over the same set.
LEMMA WithoutType ==
    ASSUME NEW S, NEW q \in Seq(S), NEW e
    PROVE  Without(q, e) \in Seq(S)
<1>1. CASE e \in Elems(q)
  <2> DEFINE p == CHOOSE i \in DOMAIN q : q[i] = e
  <2>1. p \in 1 .. Len(q)
    BY <1>1 DEF Elems
  <2>2. Without(q, e) = [i \in 1 .. Len(q) - 1 |-> IF i < p THEN q[i] ELSE q[i + 1]]
    BY <1>1 DEF Without
  <2>3. Len(q) - 1 \in Nat
    BY <2>1
  <2>4. \A i \in 1 .. Len(q) - 1 : (IF i < p THEN q[i] ELSE q[i + 1]) \in S
    BY <2>1
  <2> QED
    BY <2>2, <2>3, <2>4
<1>2. CASE e \notin Elems(q)
  BY <1>2 DEF Without
<1> QED
  BY <1>1, <1>2

\* What is left of a list when hsh_rush has taken sessions from its front.
LEMMA RestType ==
    ASSUME NEW S, NEW q \in Seq(S), NEW n \in 0 .. Len(q)
    PROVE  Rest(q, n) \in Seq(S)
<1>1. Len(q) - n \in Nat
  OBVIOUS
<1>2. \A i \in 1 .. Len(q) - n : q[i + n] \in S
  OBVIOUS
<1> QED
  BY <1>1, <1>2 DEF Rest

\* Updating a function keeps its type; an argument outside the domain (a NULL
\* pointer) changes nothing.
LEMMA ExceptType ==
    ASSUME NEW S, NEW T, NEW f \in [S -> T], NEW k, NEW v, k \in S => v \in T
    PROVE  [f EXCEPT ![k] = v] \in [S -> T]
OBVIOUS

----------------------------------------------------------------------------
(* Type correctness.                                                       *)

\* hsh_rush never takes more sessions than the list has.
LEMMA RushBound ==
    ASSUME TypeOK, NEW k \in Key, NEW q \in 0 .. Len(waiting[k]), NEW d \in 0 .. 1,
           RushOutcome(k, q, d)
    PROVE  q + d \in 0 .. Len(waiting[k])
<1>1. Len(waiting[k]) \in Nat /\ RushExponent \in Nat
  BY ParamAssumption DEF TypeOK
<1> QED
  BY <1>1 DEF RushOutcome, Least

\* Every outcome of hsh_rush keeps the waiting lists and the pcs well typed.
LEMMA RushType ==
    ASSUME TypeOK, NEW k \in Key \cup {None},
           NEW q \in 0 .. Len(waiting[k]), NEW d \in 0 .. 1, NEW a, NEW p \in SessPC,
           RushOutcome(k, q, d), hsh_rush(k, q, d, a, p)
    PROVE  waiting' \in [Key -> Seq(Sess)] /\ pc' \in [Sess -> SessPC]
<1>1. pc' \in [Sess -> SessPC]
  BY DEF hsh_rush, TypeOK, SessPC
<1>2. waiting' \in [Key -> Seq(Sess)]
  <2>1. CASE k \in Key
    <3>1. Rest(waiting[k], q + d) \in Seq(Sess)
      BY <2>1, RushBound, RestType DEF TypeOK
    <3> QED
      BY <3>1 DEF hsh_rush, TypeOK
  <2>2. CASE k \notin Key
    BY <2>2 DEF hsh_rush, TypeOK
  <2> QED
    BY <2>1, <2>2
<1> QED
  BY <1>1, <1>2

\* Attaching an object to an objcore keeps the types.
LEMMA MkObjectType ==
    ASSUME TypeOK, NEW s \in Sess, NEW p \in SessPC, NEW e \in Nat, NEW t \in Int,
           STV_MkObject(s, p, e, t)
    PROVE  TypeOK'
<1> USE DEF STV_MkObject, TypeOK
<1>1. hasobj' \in [Obj -> BOOLEAN]
  BY ExceptType
<1>2. entered' \in [Obj -> Nat]
  BY ExceptType
<1>3. ttl' \in [Obj -> Int]
  BY ExceptType
<1>4. pc' \in [Sess -> SessPC] /\ nuked' \in [Sess -> 0 .. NukeLimit]
  BY ParamAssumption DEF Goto
<1> QED
  BY <1>1, <1>2, <1>3, <1>4 DEF hvars, evars, cvars

\* Every action keeps the types, given that a session at a place where it
\* uses an objcore has one.
LEMMA TypeStep ==
    ASSUME TypeOK, HasObj, [Next]_vars
    PROVE  TypeOK'
<1> USE ParamAssumption, TimeAssumption, KindAssumption DEF AtStep, Goto, SessPC, KindNames,
    hvars, ovars, evars, svars, cvars
<1>1. CASE UNCHANGED vars
  BY <1>1 DEF TypeOK, vars
<1>2. ASSUME NEW s \in Sess, StartRequest(s) PROVE TypeOK'
  <2>1. PICK k \in Key, f \in Kinds, t \in 0 .. now :
           /\ ohref' = [ohref EXCEPT ![k] = @ + 1]
           /\ hoh' = [hoh EXCEPT ![s] = k]
           /\ kind' = [kind EXCEPT ![s] = f]
           /\ treq' = [treq EXCEPT ![s] = t]
    BY <1>2 DEF StartRequest
  <2>2. t \in Nat
    BY DEF TypeOK
  <2> QED
    BY <1>2, <2>1, <2>2 DEF StartRequest, TypeOK
<1>3. ASSUME NEW s \in Sess, Lookup(s) PROVE TypeOK'
  <2>1. CASE EsiPoll(s)
    BY <2>1 DEF EsiPoll, TypeOK
  <2>2. CASE LookupHit(s)
    BY <2>2 DEF LookupHit, HSH_Ref, TypeOK
  <2>3. CASE LookupWait(s)
    <3>1. waiting' \in [Key -> Seq(Sess)]
      <4>1. hoh[s] \in Key => Append(waiting[hoh[s]], s) \in Seq(Sess)
        BY DEF TypeOK
      <4>2. CASE kind[s] = "esi"
        BY <2>3, <4>2 DEF LookupWait, TypeOK
      <4>3. CASE kind[s] # "esi"
        <5>1. waiting' = [waiting EXCEPT ![hoh[s]] = Append(waiting[hoh[s]], s)]
          BY <2>3, <4>3 DEF LookupWait
        <5>2. waiting \in [Key -> Seq(Sess)]
          BY DEF TypeOK
        <5> QED
          BY <4>1, <5>1, <5>2, ExceptType
      <4> QED
        BY <4>2, <4>3
    <3> QED
      BY <2>3, <3>1 DEF LookupWait, TypeOK
  <2>4. CASE LookupMiss(s)
    <3> USE DEF LookupMiss, FreeObj, TypeOK
    <3>1. objcs' \in [Key -> Seq(Obj)]
      <4>1. PICK o \in Obj : objcs' = [objcs EXCEPT ![hoh[s]] = Append(objcs[hoh[s]], o)]
        BY <2>4
      <4>2. hoh[s] \in Key => Append(objcs[hoh[s]], o) \in Seq(Obj)
        OBVIOUS
      <4>3. objcs \in [Key -> Seq(Obj)]
        OBVIOUS
      <4> HIDE DEF LookupMiss, FreeObj, TypeOK
      <4> QED
        BY <4>1, <4>2, <4>3, ExceptType
    <3>2. ocref' \in [Obj -> Int] /\ busy' \in [Obj -> BOOLEAN] /\ sobj' \in [Sess -> Obj \cup {None}]
      BY <2>4
    <3>3. head' \in [Obj -> Key \cup {None}] /\ hoh' \in [Sess -> Key \cup {None}]
      BY <2>4
    <3>4. ohref' \in [Key -> Int] /\ pc' \in [Sess -> SessPC] /\ kind' \in [Sess -> KindNames]
      BY <2>4 DEF InheritHeadRef
    <3> QED
      BY <2>4, <3>1, <3>2, <3>3, <3>4
  <2>5. CASE HitDerefHead(s)
    <3>1. ohref' \in [Key -> Int]
      BY <2>5, ExceptType DEF HitDerefHead, hash_deref, TypeOK
    <3> QED
      BY <2>5, <3>1 DEF HitDerefHead, TypeOK
  <2> QED
    BY <1>3, <2>1, <2>2, <2>3, <2>4, <2>5 DEF Lookup
<1>4. ASSUME NEW s \in Sess, Hit(s) PROVE TypeOK'
  <2>1. CASE SetObjTtl(s)
    <3>1. ttl' \in [Obj -> Int]
      <4>1. PICK v \in TTL : ttl' = [ttl EXCEPT ![sobj[s]] =
                                       EXP_Set_ttl(v, treq[s] - entered[sobj[s]])]
        BY <2>1 DEF SetObjTtl
      <4>2. sobj[s] \in Obj => EXP_Set_ttl(v, treq[s] - entered[sobj[s]]) \in Int
        BY DEF EXP_Set_ttl, TypeOK
      <4> QED
        BY <4>1, <4>2, ExceptType DEF TypeOK
    <3> QED
      BY <2>1, <3>1 DEF SetObjTtl, TypeOK
  <2>2. CASE HitRearm(s)
    BY <2>2 DEF HitRearm, EXP_Rearm, EXP_Grace, EXP_Ttl, TypeOK
  <2>3. CASE HitDeliver(s)
    BY <2>3 DEF HitDeliver, TypeOK
  <2>4. CASE HitDrop(s)
    BY <2>4 DEF HitDrop, EndRequest, GiveUpObj, Actor, TypeOK
  <2>5. CASE Deliver(s)
    <3>1. Without(lru, sobj[s]) \in Seq(Obj)
      BY WithoutType DEF TypeOK
    <3>2. lru' \in Seq(Obj)
      <4>1. lru \in Seq(Obj)
        BY DEF TypeOK
      <4>2. CASE lru' = lru
        BY <4>1, <4>2
      <4>3. CASE sobj[s] \in heap /\ lru' = Append(Without(lru, sobj[s]), sobj[s])
        <5>1. sobj[s] \in Obj
          BY <4>3 DEF TypeOK
        <5> QED
          BY <3>1, <4>3, <5>1
      <4> QED
        BY <2>5, <4>2, <4>3 DEF Deliver
    <3> QED
      BY <2>5, <3>2 DEF Deliver, EndRequest, GiveUpObj, Actor, TypeOK
  <2> QED
    BY <1>4, <2>1, <2>2, <2>3, <2>4, <2>5 DEF Hit
<1>5. ASSUME NEW s \in Sess, Miss(s) PROVE TypeOK'
  <2>1. CASE Fetch(s)
    BY <2>1 DEF Fetch, TypeOK
  <2>2. CASE AbandonFetch(s)
    BY <2>2 DEF AbandonFetch, EndRequest, GiveUpObj, Actor, TypeOK
  <2>3. CASE NewObject(s)
    <3>1. PICK t \in TTL : STV_MkObject(s, "body", now, EXP_Set_ttl(t, 0))
      BY <2>3 DEF NewObject
    <3>2. EXP_Set_ttl(t, 0) \in Int
      BY DEF EXP_Set_ttl
    <3>3. now \in Nat /\ "body" \in SessPC
      BY DEF TypeOK
    <3> QED
      BY <3>1, <3>2, <3>3, MkObjectType
  <2>4. CASE EXP_NukeOne(s)
    <3> USE <2>4 DEF EXP_NukeOne
    <3>1. PICK o \in Obj : OffHeapAndLru(o) /\ victim' = [victim EXCEPT ![s] = o]
      OBVIOUS
    <3>2. lru' \in Seq(Obj) /\ heap' \subseteq Obj
      BY <3>1, WithoutType DEF OffHeapAndLru, TypeOK
    <3>3. nuked' \in [Sess -> 0 .. NukeLimit]
      BY DEF MayNuke, TypeOK
    <3> QED
      BY <3>1, <3>2, <3>3 DEF Actor, TypeOK
  <2>5. CASE NewObjectFails(s)
    BY <2>5 DEF NewObjectFails, TypeOK
  <2>6. CASE ErrorObject(s)
    <3>1. treq[s] \in Nat /\ "errobj" \in SessPC /\ -1 \in Int
      BY DEF TypeOK
    <3> QED
      BY <2>6, <3>1, MkObjectType DEF ErrorObject
  <2>7. CASE OutOfObjects(s)
    BY <2>7 DEF OutOfObjects, TypeOK
  <2>8. CASE ErrorDeliver(s)
    BY <2>8 DEF ErrorDeliver, TypeOK
  <2>9. CASE HSH_Drop(s)
    <3>1. ttl' \in [Obj -> Int]
      BY <2>9, ExceptType DEF HSH_Drop, TypeOK
    <3> QED
      BY <2>9, <3>1 DEF HSH_Drop, TypeOK
  <2>10. CASE StreamFails(s)
    BY <2>10 DEF StreamFails, EndRequest, GiveUpObj, Actor, TypeOK
  <2>11. CASE FetchedRef(s)
    <3>1. ocref' \in [Obj -> Int]
      BY <2>11 DEF FetchedRef, HSH_Ref, HasObj, WithObjPC, TypeOK
    <3> QED
      BY <2>11, <3>1 DEF FetchedRef, TypeOK
  <2>12. CASE EXP_Insert(s)
    <3>1. sobj[s] \in Obj
      BY <2>12 DEF EXP_Insert, HasObj, WithObjPC, TypeOK
    <3> QED
      BY <2>12, <3>1, SMTT(30) DEF EXP_Insert, EXP_Grace, EXP_Ttl, TypeOK
  <2>13. CASE HSH_Unbusy(s)
    <3> DEFINE o == sobj[s]
               k == head[o]
               p == IF pc[s] = "drop" THEN "idle" ELSE "deliver"
    <3>1. o \in Obj /\ k \in Key \cup {None}
      BY <2>13 DEF HSH_Unbusy, HasObj, WithObjPC, TypeOK
    <3>2. objcs' \in [Key -> Seq(Obj)]
      <4>1. k \in Key => ToFront(objcs[k], o) \in Seq(Obj)
        BY <3>1, WithoutType DEF ToFront, TypeOK
      <4> QED
        <5>1. objcs' = [objcs EXCEPT ![k] = ToFront(objcs[k], o)]
          BY <2>13 DEF HSH_Unbusy
        <5>2. objcs \in [Key -> Seq(Obj)]
          BY DEF TypeOK
        <5> HIDE DEF o, k
        <5> QED
          BY <4>1, <5>1, <5>2, ExceptType
    <3>3. waiting' \in [Key -> Seq(Sess)] /\ pc' \in [Sess -> SessPC]
      <4>1. PICK q \in 0 .. Len(waiting[k]), d \in 0 .. 1 :
               RushOutcome(k, q, d) /\ hsh_rush(k, q, d, s, p)
        BY <2>13 DEF HSH_Unbusy
      <4>2. p \in SessPC
        OBVIOUS
      <4> HIDE DEF p, k
      <4> QED
        BY <3>1, <4>1, <4>2, RushType
    <3>4. sobj' \in [Sess -> Obj \cup {None}] /\ victim' \in [Actor -> Obj \cup {None}]
          /\ treq' \in [Sess -> Nat]
      <4>1. CASE pc[s] = "drop"
        <5>1. GiveUpObj(s)
          BY <2>13, <4>1 DEF HSH_Unbusy
        <5> QED
          BY <3>1, <5>1 DEF GiveUpObj, Actor, TypeOK
      <4>2. CASE pc[s] # "drop"
        BY <2>13, <4>2 DEF HSH_Unbusy, TypeOK
      <4> QED
        BY <4>1, <4>2
    <3>5. busy' \in [Obj -> BOOLEAN]
      BY <2>13, <3>1 DEF HSH_Unbusy, TypeOK
    <3> QED
      BY <2>13, <3>2, <3>3, <3>4, <3>5 DEF HSH_Unbusy, TypeOK
  <2> QED
    BY <1>5, <2>1, <2>2, <2>3, <2>4, <2>5, <2>6, <2>7, <2>8, <2>9, <2>10,
       <2>11, <2>12, <2>13 DEF Miss
<1>6. ASSUME NEW s \in Sess, Purge(s) PROVE TypeOK'
  <2>1. CASE PurgeCollect(s)
    <3>1. Purgeable(head[sobj[s]]) \subseteq Obj
      BY DEF Purgeable
    <3> QED
      BY <2>1, <3>1 DEF PurgeCollect, TypeOK
  <2>2. CASE PurgeMark(s)
    BY <2>2 DEF PurgeMark, TypeOK
  <2>3. CASE PurgeRearm(s)
    BY <2>3, SMTT(30) DEF PurgeRearm, EXP_Rearm, EXP_Grace, EXP_Ttl, Actor, TypeOK
  <2> QED
    BY <1>6, <2>1, <2>2, <2>3 DEF Purge
<1>7. ASSUME NEW a \in Actor, Release(a) PROVE TypeOK'
  <2>1. CASE HSH_Deref(a)
    <3> DEFINE o == victim[a]
               k == head[o]
    <3>1. o \in Obj /\ k \in Key \cup {None}
      BY <2>1 DEF HSH_Deref, TypeOK
    <3>2. objcs' \in [Key -> Seq(Obj)]
      <4>1. k \in Key => Without(objcs[k], o) \in Seq(Obj)
        BY <3>1, WithoutType DEF TypeOK
      <4>2. CASE ocref[o] = 1
        <5>1. objcs' = [objcs EXCEPT ![k] = Without(objcs[k], o)]
          BY <2>1, <4>2 DEF HSH_Deref, Unlink
        <5>2. objcs \in [Key -> Seq(Obj)]
          BY DEF TypeOK
        <5> HIDE DEF o, k
        <5> QED
          BY <4>1, <5>1, <5>2, ExceptType
      <4>3. CASE ocref[o] # 1
        BY <2>1, <4>3 DEF HSH_Deref, TypeOK
      <4> QED
        BY <4>2, <4>3
    <3>3. waiting' \in [Key -> Seq(Sess)] /\ pc' \in [Sess -> SessPC]
      <4>1. PICK q \in 0 .. Len(waiting[k]), d \in 0 .. 1 :
               RushOutcome(k, q, d) /\ hsh_rush(k, q, d, None, "idle")
        BY <2>1 DEF HSH_Deref
      <4>2. "idle" \in SessPC
        OBVIOUS
      <4> HIDE DEF k
      <4> QED
        BY <3>1, <4>1, <4>2, RushType
    <3>4. ocref' \in [Obj -> Int] /\ victim' \in [Actor -> Obj \cup {None}]
      BY <2>1, <3>1 DEF HSH_Deref, TypeOK
    <3>5. dying' \in [Actor -> Obj \cup {None}]
      <4>1. dying' = dying \/ dying' = [dying EXCEPT ![a] = o]
        BY <2>1 DEF HSH_Deref
      <4> QED
        BY <3>1, <4>1 DEF TypeOK
    <3> QED
      BY <2>1, <3>2, <3>3, <3>4, <3>5 DEF HSH_Deref, TypeOK
  <2>2. CASE Destroy(a)
    <3>1. dying[a] \in Obj
      BY <2>2 DEF Destroy, TypeOK
    <3>2. ohref' \in [Key -> Int]
      <4> DEFINE k == head[dying[a]]
      <4>1. ohref' = [ohref EXCEPT ![k] = ohref[k] - 1]
        BY <2>2 DEF Destroy, hash_deref
      <4>2. ohref \in [Key -> Int]
        BY DEF TypeOK
      <4> HIDE DEF k
      <4> QED
        BY <4>1, <4>2, ExceptType
    <3> QED
      BY <2>2, <3>1, <3>2 DEF Destroy, TypeOK
  <2> QED
    BY <1>7, <2>1, <2>2 DEF Release
<1>8. CASE ExpTimer
  <2>1. PICK o \in heap : OffHeapAndLru(o) /\ victim' = [victim EXCEPT ![Timer] = o]
    BY <1>8 DEF ExpTimer
  <2>2. lru' \in Seq(Obj) /\ heap' \subseteq Obj
    BY <2>1, WithoutType DEF OffHeapAndLru, TypeOK
  <2> QED
    BY <1>8, <2>1, <2>2 DEF ExpTimer, Actor, TypeOK
<1>9. CASE Tick
  BY <1>9 DEF Tick, TypeOK
<1> QED
  BY <1>1, <1>2, <1>3, <1>4, <1>5, <1>6, <1>7, <1>8, <1>9
     DEF Next, Worker, Actor

\* ... and a session never loses its objcore without going elsewhere.
LEMMA HasObjStep ==
    ASSUME TypeOK, HasObj, [Next]_vars
    PROVE  HasObj'
<1> USE ActorAssumption DEF HasObj, WithObjPC, SessPC, TypeOK, AtStep, Goto
<1>1. CASE UNCHANGED vars
  BY <1>1 DEF vars, svars
<1>2. ASSUME NEW s \in Sess, StartRequest(s) PROVE HasObj'
  BY <1>2 DEF StartRequest
<1>3. ASSUME NEW s \in Sess, Lookup(s) PROVE HasObj'
  BY <1>3 DEF Lookup, EsiPoll, LookupHit, LookupWait, LookupMiss, FreeObj,
              HitDerefHead
<1>4. ASSUME NEW s \in Sess, Hit(s) PROVE HasObj'
  BY <1>4 DEF Hit, SetObjTtl, HitRearm, HitDeliver, HitDrop, Deliver,
              EndRequest, GiveUpObj
<1>5. ASSUME NEW s \in Sess, Miss(s) PROVE HasObj'
  <2>1. CASE HSH_Unbusy(s)
    BY <2>1 DEF HSH_Unbusy, hsh_rush, GiveUpObj
  <2>2. CASE EXP_NukeOne(s)
    BY <2>2 DEF EXP_NukeOne
  <2> QED
    BY <1>5, <2>1, <2>2, SMTT(30) DEF Miss, Fetch, AbandonFetch, NewObject, STV_MkObject,
              NewObjectFails, ErrorObject, OutOfObjects, ErrorDeliver, HSH_Drop,
              StreamFails, FetchedRef, EXP_Insert, EndRequest, GiveUpObj
<1>6. ASSUME NEW s \in Sess, Purge(s) PROVE HasObj'
  BY <1>6 DEF Purge, PurgeCollect, PurgeMark, PurgeRearm, svars
<1>7. ASSUME NEW a \in Actor, Release(a) PROVE HasObj'
  <2>1. CASE HSH_Deref(a)
    <3>1. PICK k, q, d : hsh_rush(k, q, d, None, "idle")
      BY <2>1 DEF HSH_Deref
    <3>2. \A x \in Sess : pc'[x] \in {pc[x], "scan", "deleted", "idle"}
      BY <3>1 DEF hsh_rush
    <3> QED
      BY <2>1, <3>2 DEF HSH_Deref
  <2>2. CASE Destroy(a)
    BY <2>2 DEF Destroy, svars
  <2> QED
    BY <1>7, <2>1, <2>2 DEF Release
<1>8. CASE ExpTimer \/ Tick
  BY <1>8 DEF ExpTimer, Tick, svars
<1> QED
  BY <1>1, <1>2, <1>3, <1>4, <1>5, <1>6, <1>7, <1>8 DEF Next, Worker, Actor

\* The type invariant of the object cache (all of cache_hash.c and
\* cache_expire.c that is modelled) holds in every reachable state.
THEOREM TypeCorrect == Spec => []TypeOK
<1>1. Init => TypeOK /\ HasObj
  BY ParamAssumption, TimeAssumption
     DEF Init, TypeOK, HasObj, WithObjPC, SessPC, KindNames
<1>2. TypeOK /\ HasObj /\ [Next]_vars => TypeOK' /\ HasObj'
  BY TypeStep, HasObjStep
<1> QED
  BY <1>1, <1>2, PTL DEF Spec

----------------------------------------------------------------------------
(* The inductive invariant.                                                *)

\* A list has nothing twice.
Once(q) == \A i, j \in DOMAIN q : q[i] = q[j] => i = j

\* Where a session has calls in progress, and that one does not hide another.
QuietPC == {"scan", "wait", "esiwait", "hitref", "hit", "hitrearm", "miss", "body",
            "expref", "unbusy", "drop", "errobj", "deleted"}
CallsOK == \A s \in Sess :
    /\ pc[s] \in QuietPC => AtStep(s, pc[s])
    /\ rearm[s] # None => rearm[s] \notin purge[s] /\ victim[s] = None

\* Where a session carries an objhead reference, and where it has an objcore.
CarryPC == {"scan", "wait", "esiwait", "hitref"}
PlacesOK == \A s \in Sess :
    /\ pc[s] \in CarryPC => hoh[s] # None
    /\ hoh[s] # None => pc[s] \in CarryPC \cup {"deleted"}
    /\ pc[s] \in {"idle", "scan", "wait", "esiwait"} => sobj[s] = None
    /\ pc[s] = "hitref" => head[sobj[s]] = hoh[s]

\* The waiting list has exactly the sessions that wait.
WaitingOK == \A k \in Key :
    /\ Once(waiting[k])
    /\ \A s \in Sess : s \in Elems(waiting[k]) <=> pc[s] = "wait" /\ hoh[s] = k

\* The list of an objhead has exactly the objcores with a reference.
LinkedOK == \A k \in Key :
    /\ Once(objcs[k])
    /\ \A o \in Obj : o \in Elems(objcs[k]) <=> head[o] = k /\ ocref[o] > 0

\* An objcore that is being freed, or is free, has no references.
DyingOK ==
    /\ \A o \in Obj : head[o] = None => ocref[o] = 0
    /\ \A a \in Actor : dying[a] # None => ocref[dying[a]] = 0 /\ head[dying[a]] # None
    /\ \A a, b \in Actor : dying[a] # None /\ dying[a] = dying[b] => a = b

\* A busy objcore has one user, who is filling it, and it is on the heap only
\* between EXP_Insert and HSH_Unbusy.
FillPC == {"miss", "fetch", "body", "expref", "unbusy", "drop", "err", "errobj"}
FillingOK ==
    /\ \A s \in Sess : pc[s] \in FillPC =>
          /\ busy[sobj[s]]
          /\ pc[s] # "unbusy" => sobj[s] \notin heap
          /\ pc[s] \in {"body", "expref", "unbusy", "drop", "errobj"} => hasobj[sobj[s]]
    /\ \A s, t \in Sess : sobj[s] # None /\ sobj[s] = sobj[t] /\ busy[sobj[s]] => s = t
    /\ \A o \in Obj : head[o] # None /\ ~hasobj[o] => busy[o] /\ ocref[o] <= 1

\* The LRU has exactly the objcores on the heap, once.
LruOK == Once(lru) /\ LruIffHeap

CacheInv ==
    /\ TypeOK /\ HasObj /\ CallsOK /\ PlacesOK /\ WaitingOK /\ LinkedOK /\ DyingOK
    /\ FillingOK /\ LruOK /\ BusyAtTail /\ WhenCoherent
    /\ ObjcoreRefcnt /\ ObjheadRefcnt

\* If no request asks to ignore busy objects: who is busy is alone on its list.
OnlyNormal == Kinds \subseteq {"normal", "esi"}
OneBusy ==
    /\ \A s \in Sess : kind[s] \in Kinds \cup {"normal"}
    /\ \A k \in Key : \A o, p \in Elems(objcs[k]) : busy[o] /\ busy[p] => o = p

\* If workers and storage do not run out: no session is lost, and a busy objcore
\* is in the hands of its only user or of the one who is dropping it.
NothingRunsOut == ~QueueMayFill /\ ~StorageMayFail
BusyHeld ==
    /\ \A s \in Sess : pc[s] # "deleted"
    /\ \A s \in Sess : sobj[s] # None /\ busy[sobj[s]] /\ pc[s] \notin {"expref", "unbusy"} =>
          ocref[sobj[s]] = 1
    /\ \A o \in Obj : busy[o] /\ ocref[o] > 0 =>
          \E s \in Sess : sobj[s] = o \/ (victim[s] = o /\ ocref[o] = 1)

----------------------------------------------------------------------------
(* Lists and sets.                                                         *)

\* Two sets that differ at most in x.
LEMMA CardChange ==
    ASSUME NEW S, IsFiniteSet(S), NEW A \in SUBSET S, NEW B \in SUBSET S,
           NEW x \in S, \A y \in S : y # x => (y \in A <=> y \in B)
    PROVE  /\ Cardinality(A) \in Nat /\ Cardinality(B) \in Nat
           /\ Cardinality(B) = Cardinality(A) + (IF x \in B THEN 1 ELSE 0)
                                              - (IF x \in A THEN 1 ELSE 0)
<1>1. IsFiniteSet(A) /\ IsFiniteSet(B) /\ Cardinality(A) \in Nat /\ Cardinality(B) \in Nat
  BY FS_Subset, FS_CardinalityType
<1>2. CASE x \in A /\ x \notin B
  <2>1. B = A \ {x}
    BY <1>2
  <2> QED
    BY <2>1, <1>1, <1>2, FS_RemoveElement
<1>3. CASE x \notin A /\ x \in B
  <2>1. B = A \cup {x}
    BY <1>3
  <2> QED
    BY <2>1, <1>1, <1>3, FS_AddElement
<1>4. CASE x \in A <=> x \in B
  <2>1. A = B
    BY <1>4
  <2> QED
    BY <2>1, <1>1, <1>4
<1> QED
  BY <1>2, <1>3, <1>4

\* What removing an element leaves, and in which order.
LEMMA WithoutOK ==
    ASSUME NEW S, NEW q \in Seq(S), NEW e \in S, Once(q)
    PROVE  /\ Without(q, e) \in Seq(S) /\ Once(Without(q, e))
           /\ \A x : x \in Elems(Without(q, e)) <=> x \in Elems(q) /\ x # e
           /\ e \in Elems(q) => Len(Without(q, e)) = Len(q) - 1
           /\ \A i, j \in DOMAIN Without(q, e) : i < j =>
                 \E a, b \in DOMAIN q : a < b /\ Without(q, e)[i] = q[a]
                                              /\ Without(q, e)[j] = q[b]
<1>1. CASE e \in Elems(q)
  <2> DEFINE p == CHOOSE i \in DOMAIN q : q[i] = e
             At(i) == IF i < p THEN i ELSE i + 1
             w == Without(q, e)
  <2>1. p \in 1 .. Len(q) /\ q[p] = e /\ Len(q) \in Nat
    BY <1>1 DEF Elems
  <2>2. w = [i \in 1 .. Len(q) - 1 |-> IF i < p THEN q[i] ELSE q[i + 1]]
    BY <1>1 DEF Without
  <2> HIDE DEF p, w
  <2>3. w \in Seq(S) /\ Len(w) = Len(q) - 1 /\ DOMAIN w = 1 .. Len(q) - 1
    <3>1. Len(q) - 1 \in Nat
      BY <2>1
    <3>2. \A i \in 1 .. Len(q) - 1 : (IF i < p THEN q[i] ELSE q[i + 1]) \in S
      BY <2>1
    <3> QED
      BY <2>2, <3>1, <3>2
  <2>4. \A i \in DOMAIN w : At(i) \in DOMAIN q /\ At(i) # p /\ w[i] = q[At(i)]
    BY <2>1, <2>2, <2>3
  <2>5. \A i, j \in DOMAIN w : (i < j => At(i) < At(j)) /\ (At(i) = At(j) => i = j)
    BY <2>1, <2>3
  <2>6. \A j \in DOMAIN q : j # p => \E i \in DOMAIN w : At(i) = j
    <3> SUFFICES ASSUME NEW j \in DOMAIN q, j # p PROVE \E i \in DOMAIN w : At(i) = j
      OBVIOUS
    <3>1. CASE j < p
      <4>1. j \in DOMAIN w /\ At(j) = j
        BY <2>1, <2>3, <3>1
      <4> QED
        BY <4>1
    <3>2. CASE j > p
      <4>1. j - 1 \in DOMAIN w /\ At(j - 1) = j
        BY <2>1, <2>3, <3>2
      <4> QED
        BY <4>1
    <3> QED
      BY <2>1, <3>1, <3>2
  <2> HIDE DEF At
  <2>7. Once(w)
    BY <2>4, <2>5 DEF Once
  <2>8. \A x : x \in Elems(w) <=> x \in Elems(q) /\ x # e
    <3>1. ASSUME NEW x, x \in Elems(w) PROVE x \in Elems(q) /\ x # e
      BY <3>1, <2>1, <2>4 DEF Elems, Once
    <3>2. ASSUME NEW x, x \in Elems(q), x # e PROVE x \in Elems(w)
      <4>1. PICK j \in DOMAIN q : q[j] = x
        BY <3>2 DEF Elems
      <4>2. PICK i \in DOMAIN w : At(i) = j
        BY <2>1, <2>6, <3>2, <4>1
      <4> QED
        BY <2>4, <4>1, <4>2 DEF Elems
    <3> QED
      BY <3>1, <3>2
  <2>9. \A i, j \in DOMAIN w : i < j =>
           \E a, b \in DOMAIN q : a < b /\ w[i] = q[a] /\ w[j] = q[b]
    BY <2>4, <2>5
  <2> QED
    BY <2>3, <2>7, <2>8, <2>9 DEF w
<1>2. CASE e \notin Elems(q)
  <2>1. Without(q, e) = q
    BY <1>2 DEF Without
  <2> QED
    BY <1>2, <2>1
<1> QED
  BY <1>1, <1>2

\* ... as a relation between the two lists.
Loses(q, e, w) ==
    /\ Once(w)
    /\ \A x : x \in Elems(w) <=> x \in Elems(q) /\ x # e
    /\ e \in Elems(q) => Len(w) = Len(q) - 1
    /\ \A i, j \in DOMAIN w : i < j =>
          \E a, b \in DOMAIN q : a < b /\ w[i] = q[a] /\ w[j] = q[b]

\* Without does so.
LEMMA WithoutLoses ==
    ASSUME NEW S, NEW q \in Seq(S), NEW e \in S, Once(q)
    PROVE  Without(q, e) \in Seq(S) /\ Loses(q, e, Without(q, e))
BY WithoutOK DEF Loses

\* What VTAILQ_INSERT_TAIL of something new leaves.
LEMMA AppendOK ==
    ASSUME NEW S, NEW q \in Seq(S), NEW e \in S, Once(q), e \notin Elems(q)
    PROVE  /\ Append(q, e) \in Seq(S) /\ Once(Append(q, e))
           /\ \A x : x \in Elems(Append(q, e)) <=> x \in Elems(q) \/ x = e
           /\ Len(Append(q, e)) = Len(q) + 1
           /\ \A i, j \in DOMAIN Append(q, e) : i < j =>
                 /\ i \in DOMAIN q /\ Append(q, e)[i] = q[i]
                 /\ IF j \in DOMAIN q THEN Append(q, e)[j] = q[j] ELSE Append(q, e)[j] = e
<1> DEFINE w == Append(q, e)
<1>1. /\ w \in Seq(S) /\ DOMAIN w = 1 .. Len(q) + 1 /\ Len(w) = Len(q) + 1
      /\ DOMAIN q = 1 .. Len(q) /\ Len(q) \in Nat
  OBVIOUS
<1>2. /\ \A i \in 1 .. Len(q) : w[i] = q[i]
      /\ w[Len(q) + 1] = e
  OBVIOUS
<1> HIDE DEF w
<1>3. Once(w)
  <2> SUFFICES ASSUME NEW i \in DOMAIN w, NEW j \in DOMAIN w, w[i] = w[j] PROVE i = j
    BY DEF Once
  <2>1. \A n \in 1 .. Len(q) : q[n] # e
    BY <1>1 DEF Elems
  <2> QED
    BY <1>1, <1>2, <2>1 DEF Once
<1>4. \A x : x \in Elems(w) <=> x \in Elems(q) \/ x = e
  <2>1. ASSUME NEW x, x \in Elems(w) PROVE x \in Elems(q) \/ x = e
    BY <1>1, <1>2, <2>1 DEF Elems
  <2>2. ASSUME NEW x, x \in Elems(q) PROVE x \in Elems(w)
    BY <1>1, <1>2, <2>2 DEF Elems
  <2>3. e \in Elems(w)
    <3>1. Len(q) + 1 \in DOMAIN w
      BY <1>1
    <3> QED
      BY <3>1, <1>2 DEF Elems
  <2> QED
    BY <2>1, <2>2, <2>3
<1>5. \A i, j \in DOMAIN w : i < j =>
         /\ i \in DOMAIN q /\ w[i] = q[i]
         /\ IF j \in DOMAIN q THEN w[j] = q[j] ELSE w[j] = e
  BY <1>1, <1>2
<1> QED
  BY <1>1, <1>3, <1>4, <1>5 DEF w

\* What moving an element to the front leaves.
LEMMA ToFrontOK ==
    ASSUME NEW S, NEW q \in Seq(S), NEW e \in S, Once(q), e \in Elems(q)
    PROVE  /\ ToFront(q, e) \in Seq(S) /\ Once(ToFront(q, e))
           /\ \A x : x \in Elems(ToFront(q, e)) <=> x \in Elems(q)
           /\ \A i, j \in DOMAIN ToFront(q, e) : i < j =>
                 \/ ToFront(q, e)[i] = e
                 \/ \E a, b \in DOMAIN q : a < b /\ ToFront(q, e)[i] = q[a]
                                                 /\ ToFront(q, e)[j] = q[b]
                                                 /\ q[b] # e
<1> DEFINE w == Without(q, e)
           f == ToFront(q, e)
<1>1. /\ w \in Seq(S) /\ Once(w)
      /\ \A x : x \in Elems(w) <=> x \in Elems(q) /\ x # e
      /\ \A i, j \in DOMAIN w : i < j =>
            \E a, b \in DOMAIN q : a < b /\ w[i] = q[a] /\ w[j] = q[b]
  <2> HIDE DEF f
  <2>1. w \in Seq(S) /\ Once(w)
    BY WithoutOK
  <2>2. \A x : x \in Elems(w) <=> x \in Elems(q) /\ x # e
    BY WithoutOK
  <2>3. \A i, j \in DOMAIN w : i < j =>
           \E a, b \in DOMAIN q : a < b /\ w[i] = q[a] /\ w[j] = q[b]
    BY WithoutOK
  <2> QED
    BY <2>1, <2>2, <2>3
<1>2. f = <<e>> \o w
  BY DEF ToFront
<1> HIDE DEF w, f
<1>3. /\ f \in Seq(S) /\ DOMAIN f = 1 .. Len(w) + 1 /\ Len(w) \in Nat /\ DOMAIN w = 1 .. Len(w)
      /\ f[1] = e /\ \A i \in 2 .. Len(w) + 1 : f[i] = w[i - 1]
  <2>1. <<e>> \in Seq(S) /\ Len(<<e>>) = 1 /\ <<e>>[1] = e
    OBVIOUS
  <2>2. Len(w) \in Nat /\ DOMAIN w = 1 .. Len(w)
    BY <1>1
  <2>3. f \in Seq(S) /\ Len(f) = Len(w) + 1
    BY <1>1, <1>2, <2>1
  <2>4. DOMAIN f = 1 .. Len(w) + 1
    BY <2>3
  <2>5. \A i \in 1 .. Len(w) + 1 : f[i] = IF i <= 1 THEN <<e>>[i] ELSE w[i - 1]
    BY <1>1, <1>2, <2>1, <2>2
  <2> QED
    BY <2>1, <2>2, <2>3, <2>4, <2>5
<1>4. \A i \in DOMAIN f : i # 1 => i - 1 \in DOMAIN w /\ f[i] = w[i - 1]
  BY <1>3
<1>5. \A i \in DOMAIN w : i + 1 \in DOMAIN f /\ f[i + 1] = w[i]
  <2> SUFFICES ASSUME NEW i \in DOMAIN w PROVE i + 1 \in DOMAIN f /\ f[i + 1] = w[i]
    OBVIOUS
  <2>1. i + 1 \in 2 .. Len(w) + 1 /\ (i + 1) - 1 = i
    BY <1>3
  <2> QED
    BY <1>3, <2>1
<1>6. \A i \in DOMAIN w : w[i] # e
  BY <1>1 DEF Elems
<1>7. Once(f)
  <2> SUFFICES ASSUME NEW i \in DOMAIN f, NEW j \in DOMAIN f, f[i] = f[j] PROVE i = j
    BY DEF Once
  <2>1. i \in Nat /\ j \in Nat
    BY <1>3
  <2>2. CASE i = 1 \/ j = 1
    BY <1>3, <1>4, <1>6, <2>2
  <2>3. CASE i # 1 /\ j # 1
    <3>1. i - 1 = j - 1
      BY <1>1, <1>4, <2>3 DEF Once
    <3> QED
      BY <2>1, <3>1
  <2> QED
    BY <2>2, <2>3
<1>8. \A x : x \in Elems(f) <=> x \in Elems(q)
  <2>1. ASSUME NEW x, x \in Elems(f) PROVE x \in Elems(w) \/ x = e
    BY <2>1, <1>3, <1>4 DEF Elems
  <2>2. ASSUME NEW x, x \in Elems(w) PROVE x \in Elems(f)
    BY <2>2, <1>5 DEF Elems
  <2>3. e \in Elems(f)
    <3>1. 1 \in DOMAIN f
      BY <1>3
    <3> QED
      BY <1>3, <3>1 DEF Elems
  <2> QED
    BY <1>1, <2>1, <2>2, <2>3
<1>9. \A i, j \in DOMAIN f : i < j =>
         \/ f[i] = e
         \/ \E a, b \in DOMAIN q : a < b /\ f[i] = q[a] /\ f[j] = q[b] /\ q[b] # e
  <2> SUFFICES ASSUME NEW i \in DOMAIN f, NEW j \in DOMAIN f, i < j, i # 1
               PROVE  \E a, b \in DOMAIN q : a < b /\ f[i] = q[a] /\ f[j] = q[b] /\ q[b] # e
    BY <1>3
  <2>1. j # 1 /\ i - 1 < j - 1
    BY <1>3
  <2>2. i - 1 \in DOMAIN w /\ j - 1 \in DOMAIN w /\ f[i] = w[i - 1] /\ f[j] = w[j - 1]
    BY <1>4, <2>1
  <2> QED
    BY <1>1, <1>6, <2>1, <2>2
<1> QED
  BY <1>3, <1>7, <1>8, <1>9 DEF f

\* ... as a relation between the two lists.
Fronts(q, e, w) ==
    /\ Once(w)
    /\ \A x : x \in Elems(w) <=> x \in Elems(q)
    /\ \A i, j \in DOMAIN w : i < j =>
          \/ w[i] = e
          \/ \E a, b \in DOMAIN q : a < b /\ w[i] = q[a] /\ w[j] = q[b] /\ q[b] # e

\* ToFront does so.
LEMMA ToFrontFronts ==
    ASSUME NEW S, NEW q \in Seq(S), NEW e \in S, Once(q), e \in Elems(q)
    PROVE  ToFront(q, e) \in Seq(S) /\ Fronts(q, e, ToFront(q, e))
BY ToFrontOK DEF Fronts

\* What hsh_rush leaves on the list.
LEMMA RestOK ==
    ASSUME NEW S, NEW q \in Seq(S), NEW n \in 0 .. Len(q), Once(q)
    PROVE  /\ Once(Rest(q, n))
           /\ \A x : x \in Elems(Rest(q, n)) <=>
                 x \in Elems(q) /\ \A i \in 1 .. n : q[i] # x
<1> DEFINE w == Rest(q, n)
<1>1. Len(q) \in Nat /\ DOMAIN q = 1 .. Len(q) /\ n \in Nat /\ n <= Len(q)
  OBVIOUS
<1>2. DOMAIN w = 1 .. Len(q) - n /\ \A i \in DOMAIN w : w[i] = q[i + n]
  BY DEF Rest
<1> HIDE DEF w
<1>3. \A i \in DOMAIN w : i + n \in DOMAIN q /\ i + n > n /\ i \in Nat
  BY <1>1, <1>2
<1>4. \A j \in DOMAIN q : j > n => j - n \in DOMAIN w /\ w[j - n] = q[j]
  <2> SUFFICES ASSUME NEW j \in DOMAIN q, j > n PROVE j - n \in DOMAIN w /\ w[j - n] = q[j]
    OBVIOUS
  <2>1. j - n \in 1 .. Len(q) - n /\ (j - n) + n = j
    BY <1>1
  <2> QED
    BY <1>2, <2>1
<1>5. Once(w)
  <2> SUFFICES ASSUME NEW i \in DOMAIN w, NEW j \in DOMAIN w, w[i] = w[j] PROVE i = j
    BY DEF Once
  <2>1. i + n = j + n
    BY <1>2, <1>3 DEF Once
  <2> QED
    BY <1>1, <1>3, <2>1
<1>6. ASSUME NEW x, x \in Elems(w) PROVE x \in Elems(q) /\ \A i \in 1 .. n : q[i] # x
  <2>1. PICK i \in DOMAIN w : x = q[i + n]
    BY <1>2, <1>6 DEF Elems
  <2>2. i + n \in DOMAIN q /\ i + n > n
    BY <1>3
  <2>3. \A m \in 1 .. n : m \in DOMAIN q /\ m # i + n
    BY <1>1, <2>2
  <2> QED
    BY <2>1, <2>2, <2>3 DEF Elems, Once
<1>7. ASSUME NEW x, x \in Elems(q), \A i \in 1 .. n : q[i] # x PROVE x \in Elems(w)
  <2>1. PICK j \in DOMAIN q : q[j] = x
    BY <1>7 DEF Elems
  <2>2. j > n
    BY <1>1, <1>7, <2>1
  <2> QED
    BY <1>4, <2>1, <2>2 DEF Elems
<1> QED
  BY <1>5, <1>6, <1>7 DEF w

----------------------------------------------------------------------------
(* What the invariant says of one objcore, one session, one lookup.        *)

\* The actors are finitely many.
LEMMA ActorFinite ==
    /\ IsFiniteSet(Sess) /\ IsFiniteSet(Obj) /\ IsFiniteSet(Actor)
    /\ Timer \in Actor /\ Sess \subseteq Actor /\ None \notin Obj \cup Key \cup Actor
BY FiniteAssumption, ActorAssumption, FS_AddElement DEF Actor

\* Whoever holds an objcore is counted, two holders twice.
LEMMA Held ==
    ASSUME TypeOK, ObjcoreRefcnt, NEW o \in Obj
    PROVE  /\ ocref[o] \in Nat
           /\ \A s \in Sess : sobj[s] = o \/ o \in purge[s] \/ rearm[s] = o => ocref[o] > 0
           /\ \A a \in Actor : victim[a] = o => ocref[o] > 0
           /\ o \in heap => ocref[o] > 0
           /\ \A s \in Sess, a \in Actor : sobj[s] = o /\ victim[a] = o => ocref[o] > 1
           /\ \A s \in Sess : sobj[s] = o /\ o \in heap => ocref[o] > 1
<1>1. /\ IsFiniteSet(Users(o)) /\ IsFiniteSet(Purgers(o))
      /\ IsFiniteSet(Derefers(o)) /\ IsFiniteSet(Inserters(o))
  BY ActorFinite, FS_Subset DEF Users, Purgers, Derefers, Inserters
<1>2. PICK u \in Nat, p \in Nat, d \in Nat, i \in Nat :
         /\ u = Cardinality(Users(o)) /\ p = Cardinality(Purgers(o))
         /\ d = Cardinality(Derefers(o)) /\ i = Cardinality(Inserters(o))
  BY <1>1, FS_CardinalityType
<1>3. ocref[o] = u + p + d + i + (IF o \in heap THEN 1 ELSE 0)
  BY <1>2 DEF ObjcoreRefcnt
<1>4. ASSUME NEW T, IsFiniteSet(T), NEW e \in T PROVE Cardinality(T) # 0
  BY <1>4, FS_EmptySet
<1>5. \A s \in Sess : sobj[s] = o => u # 0
  BY <1>1, <1>2, <1>4 DEF Users
<1>6. \A s \in Sess : o \in purge[s] \/ rearm[s] = o => p # 0
  BY <1>1, <1>2, <1>4 DEF Purgers
<1>7. \A a \in Actor : victim[a] = o => d # 0
  BY <1>1, <1>2, <1>4 DEF Derefers
<1>8. ocref[o] \in Nat /\ (o \in heap => ocref[o] > 0) /\ (u # 0 => ocref[o] > 0)
      /\ (p # 0 => ocref[o] > 0) /\ (d # 0 => ocref[o] > 0)
      /\ (u # 0 /\ d # 0 => ocref[o] > 1) /\ (u # 0 /\ o \in heap => ocref[o] > 1)
  BY <1>3
<1> QED
  BY <1>5, <1>6, <1>7, <1>8

\* An objcore in somebody's hands hangs from an objhead and is on its list.
LEMMA HeldLinked ==
    ASSUME TypeOK, ObjcoreRefcnt, LinkedOK, DyingOK, NEW o \in Obj, ocref[o] > 0
    PROVE  head[o] \in Key /\ o \in Elems(objcs[head[o]])
           /\ \A a \in Actor : dying[a] # o
<1>1. ocref[o] # 0
  BY Held
<1>2. head[o] \in Key
  BY <1>1 DEF DyingOK, TypeOK
<1>3. \A a \in Actor : dying[a] # o
  BY <1>1, ActorFinite DEF DyingOK
<1> QED
  BY <1>2, <1>3 DEF LinkedOK

\* HSH_Lookup settles on an objcore of the list that is not busy.
LEMMA CandidateOK ==
    ASSUME TypeOK, NEW s \in Sess, hoh[s] \in Key, NEW healthy \in BOOLEAN,
           NEW o \in Candidate(s, healthy)
    PROVE  o \in Elems(objcs[hoh[s]]) /\ ~busy[o]
<1>1. CASE o \in FreshHit(s)
  BY <1>1 DEF FreshHit, Fresh, Cached, Elems
<1>2. CASE o \in GraceHit(s)
  BY <1>2 DEF GraceHit, Examined, InGrace, Cached, Elems
<1> QED
  BY <1>1, <1>2 DEF Candidate

\* hsh_rush moves waiting sessions and the caller, nobody else.
LEMMA RushMoves ==
    ASSUME TypeOK, WaitingOK, NEW k \in Key, NEW q \in 0 .. Len(waiting[k]), NEW d \in 0 .. 1,
           NEW a, NEW p, RushOutcome(k, q, d), hsh_rush(k, q, d, a, p),
           a \in Sess => pc[a] # "wait"
    PROVE  /\ \A x \in Sess : x # a =>
                 \/ pc'[x] = pc[x]
                 \/ pc[x] = "wait" /\ hoh[x] = k /\ pc'[x] \in {"scan", "deleted"}
           /\ a \in Sess => pc'[a] = p
           /\ ~QueueMayFill => \A x \in Sess : x # a => pc'[x] # "deleted" \/ pc'[x] = pc[x]
           /\ \A x \in Sess : pc'[x] = "wait" /\ x # a => pc[x] = "wait"
<1>1. q + d \in 0 .. Len(waiting[k]) /\ q \in Nat /\ d \in Nat /\ Len(waiting[k]) \in Nat
  BY RushBound, SMTT(30) DEF TypeOK
<1>2. \A i \in 1 .. q + d : i \in DOMAIN waiting[k]
  BY <1>1 DEF TypeOK
<1>3. \A i \in 1 .. q : i \in DOMAIN waiting[k]
  BY <1>1 DEF TypeOK
<1>4. \A i \in q + 1 .. q + d : i \in DOMAIN waiting[k]
  BY <1>1 DEF TypeOK
<1>5. \A x \in Queued(k, q) \cup Lost(k, q, d) : x \in Elems(waiting[k])
  BY <1>3, <1>4 DEF Queued, Lost, Elems
<1>6. \A x \in Sess : x \in Queued(k, q) \cup Lost(k, q, d) => pc[x] = "wait" /\ hoh[x] = k
  BY <1>5 DEF WaitingOK
<1>7. \A x \in Sess : /\ x \in Queued(k, q) => pc'[x] = "scan"
                      /\ x \notin Queued(k, q) /\ x \in Lost(k, q, d) => pc'[x] = "deleted"
                      /\ x \notin Queued(k, q) /\ x \notin Lost(k, q, d) =>
                            pc'[x] = IF x = a THEN p ELSE pc[x]
  <2> SUFFICES ASSUME NEW x \in Sess
               PROVE  /\ x \in Queued(k, q) => pc'[x] = "scan"
                      /\ x \notin Queued(k, q) /\ x \in Lost(k, q, d) => pc'[x] = "deleted"
                      /\ x \notin Queued(k, q) /\ x \notin Lost(k, q, d) =>
                            pc'[x] = IF x = a THEN p ELSE pc[x]
    OBVIOUS
  <2>0. Queued(k, q) \cap Lost(k, q, d) = {}
    <3> SUFFICES ASSUME NEW i \in 1 .. q, NEW j \in q + 1 .. q + d,
                        waiting[k][i] = waiting[k][j] PROVE FALSE
      BY DEF Queued, Lost
    <3>1. i # j
      BY <1>1
    <3> QED
      BY <1>3, <1>4, <3>1 DEF WaitingOK, Once
  <2>1. CASE x \in Queued(k, q)
    BY <1>6, <2>0, <2>1 DEF hsh_rush
  <2>2. CASE x \in Lost(k, q, d)
    BY <1>6, <2>0, <2>2 DEF hsh_rush
  <2>3. CASE x \notin Queued(k, q) /\ x \notin Lost(k, q, d)
    BY <2>3 DEF hsh_rush
  <2> QED
    BY <2>1, <2>2, <2>3
<1>8. ~QueueMayFill => Lost(k, q, d) = {}
  <2>1. ~QueueMayFill => d = 0
    BY DEF RushOutcome
  <2> QED
    BY <1>1, <2>1 DEF Lost
<1> QED
  BY <1>6, <1>7, <1>8

\* ... and leaves the rest waiting.
LEMMA RushWaiting ==
    ASSUME TypeOK, WaitingOK, NEW k \in Key, NEW q \in 0 .. Len(waiting[k]), NEW d \in 0 .. 1,
           NEW a, NEW p, RushOutcome(k, q, d), hsh_rush(k, q, d, a, p),
           p # "wait", hoh' = hoh, a \in Sess => pc[a] # "wait"
    PROVE  WaitingOK'
<1>1. q + d \in 0 .. Len(waiting[k]) /\ q \in Nat /\ d \in Nat /\ Len(waiting[k]) \in Nat
  BY RushBound, SMTT(30) DEF TypeOK
<1>2. waiting[k] \in Seq(Sess) /\ Once(waiting[k])
      /\ \A s \in Sess : s \in Elems(waiting[k]) <=> pc[s] = "wait" /\ hoh[s] = k
  BY DEF TypeOK, WaitingOK
<1>3. waiting'[k] = Rest(waiting[k], q + d) /\ \A j \in Key : j # k => waiting'[j] = waiting[j]
  BY DEF hsh_rush, TypeOK
<1>4. PICK n \in 0 .. Len(waiting[k]) : n = q + d
  BY <1>1
<1>5. /\ Once(waiting'[k])
      /\ \A x : x \in Elems(waiting'[k]) <=>
                   x \in Elems(waiting[k]) /\ \A i \in 1 .. n : waiting[k][i] # x
  BY <1>2, <1>3, <1>4, RestOK
<1>6. \A x : (\E i \in 1 .. n : waiting[k][i] = x) <=> x \in Queued(k, q) \cup Lost(k, q, d)
  <2>1. \A i : i \in 1 .. n <=> i \in 1 .. q \/ i \in q + 1 .. q + d
    BY <1>1, <1>4
  <2> QED
    BY <2>1 DEF Queued, Lost
<1>7. \A x \in Sess : /\ x \in Queued(k, q) \cup Lost(k, q, d) => pc'[x] # "wait"
                      /\ x \notin Queued(k, q) \cup Lost(k, q, d) =>
                            pc'[x] = IF x = a THEN p ELSE pc[x]
  BY DEF hsh_rush
<1>8. \A x \in Sess : x \in Queued(k, q) \cup Lost(k, q, d) => pc[x] = "wait" /\ hoh[x] = k
  <2>1. \A i \in 1 .. n : i \in DOMAIN waiting[k]
    BY <1>1, <1>4, <1>2
  <2> QED
    BY <1>2, <1>6, <2>1 DEF Elems
<1>9. \A x \in Sess : x \in Elems(waiting'[k]) <=> pc'[x] = "wait" /\ hoh[x] = k
  BY <1>2, <1>5, <1>6, <1>7
<1>10. \A j \in Key, x \in Sess : j # k => (pc'[x] = "wait" /\ hoh[x] = j <=> pc[x] = "wait" /\ hoh[x] = j)
  BY <1>7, <1>8
<1> QED
  BY <1>3, <1>5, <1>9, <1>10 DEF WaitingOK

----------------------------------------------------------------------------
(* The two steps that rush.                                                *)

\* The other sessions move only off the waiting list.
OthersMove(a) == \A x \in Sess : x # a =>
    \/ pc'[x] = pc[x]
    \/ pc[x] = "wait" /\ pc'[x] \in {"scan", "deleted"}

\* HSH_Unbusy: what the session had, where it goes, who else moves.
LEMMA UnbusyFacts ==
    ASSUME CacheInv, NEW s \in Sess, HSH_Unbusy(s)
    PROVE  /\ sobj[s] \in Obj /\ head[sobj[s]] \in Key
           /\ ocref[sobj[s]] > 0 /\ sobj[s] \in Elems(objcs[head[sobj[s]]])
           /\ pc[s] \in {"unbusy", "drop"} /\ AtStep(s, pc[s])
           /\ pc'[s] = IF pc[s] = "drop" THEN "idle" ELSE "deliver"
           /\ OthersMove(s) /\ WaitingOK'
           /\ pc[s] = "drop" => GiveUpObj(s)
           /\ pc[s] # "drop" => UNCHANGED <<sobj, victim, treq>>
           /\ ~QueueMayFill => \A x \in Sess : pc[x] # "deleted" => pc'[x] # "deleted"
<1> DEFINE o == sobj[s]
           k == head[o]
           p == IF pc[s] = "drop" THEN "idle" ELSE "deliver"
<1>0. TypeOK /\ HasObj /\ ObjcoreRefcnt /\ LinkedOK /\ DyingOK /\ WaitingOK
  BY DEF CacheInv
<1>1. pc[s] \in {"unbusy", "drop"} /\ AtStep(s, pc[s])
  BY DEF HSH_Unbusy, AtStep
<1>2. o \in Obj
  BY <1>0, <1>1 DEF HasObj, WithObjPC, TypeOK
<1>3. ocref[o] > 0
  BY <1>0, <1>2, Held
<1>4. k \in Key /\ o \in Elems(objcs[k])
  BY <1>0, <1>2, <1>3, HeldLinked
<1>5. PICK q \in 0 .. Len(waiting[k]), d \in 0 .. 1 :
         RushOutcome(k, q, d) /\ hsh_rush(k, q, d, s, p)
  BY DEF HSH_Unbusy
<1>6. p # "wait" /\ p # "deleted" /\ pc[s] # "wait" /\ hoh' = hoh
  BY <1>1 DEF HSH_Unbusy
<1>7. /\ pc[s] = "drop" => GiveUpObj(s)
      /\ pc[s] # "drop" => UNCHANGED <<sobj, victim, treq>>
  BY DEF HSH_Unbusy
<1> HIDE DEF o, k, p
<1>8. WaitingOK'
  BY <1>0, <1>4, <1>5, <1>6, RushWaiting
<1>9. OthersMove(s) /\ pc'[s] = p
      /\ (~QueueMayFill => \A x \in Sess : x # s => pc'[x] # "deleted" \/ pc'[x] = pc[x])
  BY <1>0, <1>4, <1>5, <1>6, RushMoves DEF OthersMove
<1> QED
  BY <1>1, <1>2, <1>3, <1>4, <1>6, <1>7, <1>8, <1>9 DEF o, k, p

\* HSH_Deref: the same.
LEMMA DerefFacts ==
    ASSUME CacheInv, NEW a \in Actor, HSH_Deref(a)
    PROVE  /\ victim[a] \in Obj /\ head[victim[a]] \in Key
           /\ ocref[victim[a]] > 0 /\ victim[a] \in Elems(objcs[head[victim[a]]])
           /\ OthersMove(None) /\ WaitingOK'
           /\ ~QueueMayFill => \A x \in Sess : pc[x] # "deleted" => pc'[x] # "deleted"
<1> DEFINE o == victim[a]
           k == head[o]
<1>0. TypeOK /\ ObjcoreRefcnt /\ LinkedOK /\ DyingOK /\ WaitingOK
  BY DEF CacheInv
<1>2. o \in Obj
  BY <1>0 DEF HSH_Deref, TypeOK
<1>3. ocref[o] > 0
  BY <1>0, <1>2, Held
<1>4. k \in Key /\ o \in Elems(objcs[k])
  BY <1>0, <1>2, <1>3, HeldLinked
<1>5. PICK q \in 0 .. Len(waiting[k]), d \in 0 .. 1 :
         RushOutcome(k, q, d) /\ hsh_rush(k, q, d, None, "idle")
  BY DEF HSH_Deref
<1>6. hoh' = hoh /\ None \notin Sess
  BY ActorFinite DEF HSH_Deref
<1> HIDE DEF o, k
<1>8. WaitingOK'
  BY <1>0, <1>4, <1>5, <1>6, RushWaiting
<1>9. OthersMove(None)
      /\ (~QueueMayFill => \A x \in Sess : x # None => pc'[x] # "deleted" \/ pc'[x] = pc[x])
  BY <1>0, <1>4, <1>5, <1>6, RushMoves DEF OthersMove
<1> QED
  BY <1>2, <1>3, <1>4, <1>6, <1>8, <1>9 DEF o, k

----------------------------------------------------------------------------
(* Sessions.                                                               *)

\* One call at a time.
LEMMA CallsStep ==
    ASSUME CacheInv, [Next]_vars
    PROVE  CallsOK'
<1>0. TypeOK /\ CallsOK /\ Timer \notin Sess
  BY ActorAssumption DEF CacheInv
<1> USE <1>0 DEF CallsOK, QuietPC, SessPC, TypeOK, AtStep, Goto, Actor
<1>1. CASE UNCHANGED vars
  BY <1>1 DEF vars, svars, cvars
<1>2. ASSUME NEW s \in Sess, StartRequest(s) PROVE CallsOK'
  BY <1>2 DEF StartRequest, cvars
<1>3. ASSUME NEW s \in Sess, Lookup(s) PROVE CallsOK'
  BY <1>3 DEF Lookup, EsiPoll, LookupHit, LookupWait, LookupMiss, HitDerefHead, cvars
<1>4. ASSUME NEW s \in Sess, Hit(s) PROVE CallsOK'
  BY <1>4 DEF Hit, SetObjTtl, HitRearm, HitDeliver, HitDrop, Deliver, EndRequest, GiveUpObj, cvars
<1>5. ASSUME NEW s \in Sess, Miss(s) PROVE CallsOK'
  <2>1. CASE HSH_Unbusy(s)
    <3>1. OthersMove(s) /\ pc'[s] \in {"idle", "deliver"}
          /\ (pc[s] = "drop" => GiveUpObj(s)) /\ (pc[s] # "drop" => UNCHANGED <<sobj, victim, treq>>)
      BY <2>1, UnbusyFacts
    <3>2. UNCHANGED <<purge, rearm, dying>> /\ AtStep(s, pc[s])
      BY <2>1 DEF HSH_Unbusy
    <3> QED
      BY <3>1, <3>2 DEF OthersMove, GiveUpObj
  <2>2. CASE EXP_NukeOne(s)
    BY <2>2 DEF EXP_NukeOne
  <2>3. CASE Fetch(s) \/ AbandonFetch(s) \/ NewObject(s) \/ NewObjectFails(s)
    BY <2>3, SMTT(30) DEF Fetch, AbandonFetch, NewObject, STV_MkObject, NewObjectFails, EndRequest, GiveUpObj, cvars
  <2>4. CASE ErrorObject(s) \/ OutOfObjects(s) \/ ErrorDeliver(s) \/ HSH_Drop(s)
    BY <2>4 DEF ErrorObject, STV_MkObject, OutOfObjects, ErrorDeliver, HSH_Drop, cvars
  <2>5. CASE StreamFails(s) \/ FetchedRef(s) \/ EXP_Insert(s)
    BY <2>5 DEF StreamFails, FetchedRef, EXP_Insert, EndRequest, GiveUpObj, cvars
  <2> QED
    BY <1>5, <2>1, <2>2, <2>3, <2>4, <2>5 DEF Miss
<1>6. ASSUME NEW s \in Sess, Purge(s) PROVE CallsOK'
  <2>1. CASE PurgeCollect(s)
    BY <2>1 DEF PurgeCollect
  <2>2. CASE PurgeMark(s)
    BY <2>2 DEF PurgeMark, svars
  <2>3. CASE PurgeRearm(s)
    BY <2>3 DEF PurgeRearm, svars
  <2> QED
    BY <1>6, <2>1, <2>2, <2>3 DEF Purge
<1>7. ASSUME NEW a \in Actor, Release(a) PROVE CallsOK'
  <2>1. CASE HSH_Deref(a)
    <3>1. OthersMove(None) /\ None \notin Sess
      BY <2>1, DerefFacts, ActorFinite
    <3>2. UNCHANGED <<purge, rearm>> /\ victim' = [victim EXCEPT ![a] = None] /\ victim[a] # None
          /\ (dying' = dying \/ dying' = [dying EXCEPT ![a] = victim[a]])
      BY <2>1 DEF HSH_Deref
    <3> QED
      BY <3>1, <3>2 DEF OthersMove
  <2>2. CASE Destroy(a)
    BY <2>2 DEF Destroy, svars
  <2> QED
    BY <1>7, <2>1, <2>2 DEF Release
<1>8. CASE ExpTimer \/ Tick
  BY <1>8 DEF ExpTimer, Tick, svars, cvars
<1> QED
  BY <1>1, <1>2, <1>3, <1>4, <1>5, <1>6, <1>7, <1>8 DEF Next, Worker, Actor

\* References and objcores are where the session's step says.
LEMMA PlacesStep ==
    ASSUME CacheInv, [Next]_vars
    PROVE  PlacesOK'
<1>0. TypeOK /\ PlacesOK /\ Timer \notin Sess /\ None \notin Key /\ None \notin Obj
  BY ActorAssumption DEF CacheInv
<1>a. HasObj /\ LinkedOK /\ DyingOK /\ ObjcoreRefcnt
  BY DEF CacheInv
<1> USE <1>0 DEF PlacesOK, CarryPC, SessPC, TypeOK, AtStep, Goto, Actor
<1>1. CASE UNCHANGED vars
  BY <1>1 DEF vars, svars, cvars, ovars
<1>2. ASSUME NEW s \in Sess, StartRequest(s) PROVE PlacesOK'
  BY <1>2 DEF StartRequest, ovars
<1>3. ASSUME NEW s \in Sess, Lookup(s) PROVE PlacesOK'
  <2>1. CASE EsiPoll(s) \/ LookupWait(s) \/ HitDerefHead(s)
    BY <1>3, <2>1, SMTT(30) DEF EsiPoll, LookupWait, HitDerefHead, ovars
  <2>2. CASE LookupHit(s)
    <3>1. hoh[s] \in Key
      BY <2>2 DEF LookupHit
    <3>2. PICK h \in BOOLEAN, o \in Obj : o \in Candidate(s, h) /\ sobj' = [sobj EXCEPT ![s] = o]
      BY <2>2 DEF LookupHit
    <3>3. head[o] = hoh[s]
      BY <1>a, <3>1, <3>2, CandidateOK DEF LinkedOK
    <3> QED
      BY <2>2, <3>2, <3>3 DEF LookupHit
  <2>3. CASE LookupMiss(s)
    <3>1. PICK o \in FreeObj : head' = [head EXCEPT ![o] = hoh[s]] /\ sobj' = [sobj EXCEPT ![s] = o]
      BY <2>3 DEF LookupMiss
    <3>2. o \in Obj /\ head[o] = None
      BY <3>1 DEF FreeObj
    <3> QED
      BY <2>3, <3>1, <3>2, SMTT(30) DEF LookupMiss
  <2> QED
    BY <1>3, <2>1, <2>2, <2>3 DEF Lookup
<1>4. ASSUME NEW s \in Sess, Hit(s) PROVE PlacesOK'
  BY <1>4, SMTT(30) DEF Hit, SetObjTtl, HitRearm, HitDeliver, HitDrop, Deliver, EndRequest, GiveUpObj, ovars
<1>5. ASSUME NEW s \in Sess, Miss(s) PROVE PlacesOK'
  <2>1. CASE HSH_Unbusy(s)
    <3>1. /\ OthersMove(s) /\ pc[s] \in {"unbusy", "drop"}
          /\ pc'[s] = IF pc[s] = "drop" THEN "idle" ELSE "deliver"
          /\ (pc[s] = "drop" => GiveUpObj(s)) /\ (pc[s] # "drop" => UNCHANGED <<sobj, victim, treq>>)
      BY <2>1, UnbusyFacts
    <3>2. UNCHANGED <<hoh, head>>
      BY <2>1 DEF HSH_Unbusy
    <3> QED
      BY <3>1, <3>2 DEF OthersMove, GiveUpObj
  <2>2. CASE EXP_NukeOne(s)
    BY <2>2 DEF EXP_NukeOne, ovars
  <2>3. CASE Fetch(s) \/ AbandonFetch(s) \/ NewObject(s) \/ NewObjectFails(s)
    <3>1. CASE Fetch(s)
      BY <3>1 DEF Fetch, EndRequest, GiveUpObj, ovars
    <3>2. CASE AbandonFetch(s)
      BY <3>2 DEF AbandonFetch, EndRequest, GiveUpObj, ovars
    <3>3. CASE NewObject(s)
      BY <3>3 DEF NewObject, STV_MkObject, ovars
    <3>4. CASE NewObjectFails(s)
      BY <3>4 DEF NewObjectFails, EndRequest, GiveUpObj, ovars
    <3> QED
      BY <2>3, <3>1, <3>2, <3>3, <3>4
  <2>4. CASE ErrorObject(s) \/ OutOfObjects(s) \/ ErrorDeliver(s) \/ HSH_Drop(s)
    BY <2>4, SMTT(30) DEF ErrorObject, STV_MkObject, OutOfObjects, ErrorDeliver, HSH_Drop, ovars
  <2>5. CASE StreamFails(s)
    BY <2>5 DEF StreamFails, EndRequest, GiveUpObj, ovars
  <2>6. CASE FetchedRef(s)
    BY <2>6 DEF FetchedRef
  <2>7. CASE EXP_Insert(s)
    BY <2>7 DEF EXP_Insert, ovars
  <2> QED
    BY <1>5, <2>1, <2>2, <2>3, <2>4, <2>5, <2>6, <2>7 DEF Miss
<1>6. ASSUME NEW s \in Sess, Purge(s) PROVE PlacesOK'
  BY <1>6, SMTT(30) DEF Purge, PurgeCollect, PurgeMark, PurgeRearm, svars, ovars
<1>7. ASSUME NEW a \in Actor, Release(a) PROVE PlacesOK'
  <2>1. CASE HSH_Deref(a)
    <3>1. OthersMove(None) /\ None \notin Sess
      BY <2>1, DerefFacts, ActorFinite
    <3>2. UNCHANGED <<sobj, hoh, head>>
      BY <2>1 DEF HSH_Deref
    <3> QED
      BY <3>1, <3>2 DEF OthersMove
  <2>2. CASE Destroy(a)
    <3>1. dying[a] \in Obj /\ ocref[dying[a]] = 0
      BY <1>a, <2>2 DEF Destroy, DyingOK
    <3>2. \A x \in Sess : sobj[x] # dying[a]
      BY <1>a, <3>1, Held
    <3>3. UNCHANGED svars /\ head' = [head EXCEPT ![dying[a]] = None]
      BY <2>2 DEF Destroy
    <3>4. \A x \in Sess : pc[x] = "hitref" => sobj[x] \in Obj /\ head'[sobj[x]] = head[sobj[x]]
      BY <1>a, <3>2, <3>3 DEF HasObj, WithObjPC
    <3> QED
      BY <3>3, <3>4 DEF svars
  <2> QED
    BY <1>7, <2>1, <2>2 DEF Release
<1>8. CASE ExpTimer \/ Tick
  BY <1>8 DEF ExpTimer, Tick, svars, ovars
<1> QED
  BY <1>1, <1>2, <1>3, <1>4, <1>5, <1>6, <1>7, <1>8 DEF Next, Worker, Actor

\* A step that neither makes a session wait nor takes one off a list.
LEMMA WaitingFrame ==
    ASSUME WaitingOK, waiting' = waiting,
           \A x \in Sess : pc'[x] = "wait" <=> pc[x] = "wait",
           \A x \in Sess : pc[x] = "wait" => hoh'[x] = hoh[x]
    PROVE  WaitingOK'
BY DEF WaitingOK

\* The waiting lists keep to the sessions that wait.
LEMMA WaitingStep ==
    ASSUME CacheInv, [Next]_vars
    PROVE  WaitingOK'
<1>0. TypeOK /\ WaitingOK /\ PlacesOK
  BY DEF CacheInv
<1> USE DEF AtStep, Goto, hvars, svars
<1>t. pc \in [Sess -> SessPC] /\ hoh \in [Sess -> Key \cup {None}] /\ Timer \notin Sess
  BY <1>0, ActorAssumption DEF TypeOK
<1>1. CASE UNCHANGED vars \/ Tick \/ ExpTimer
  BY <1>0, <1>1, WaitingFrame DEF vars, Tick, ExpTimer
<1>2. ASSUME NEW s \in Sess, StartRequest(s) PROVE WaitingOK'
  BY <1>0, <1>t, <1>2, WaitingFrame DEF StartRequest
<1>3. ASSUME NEW s \in Sess, Lookup(s) PROVE WaitingOK'
  <2>1. CASE EsiPoll(s) \/ LookupHit(s) \/ LookupMiss(s) \/ HitDerefHead(s)
    BY <1>0, <1>t, <2>1, WaitingFrame DEF EsiPoll, LookupHit, LookupMiss, HitDerefHead
  <2>2. CASE LookupWait(s) /\ kind[s] = "esi"
    BY <1>0, <1>t, <2>2, WaitingFrame DEF LookupWait
  <2>3. CASE LookupWait(s) /\ kind[s] # "esi"
    <3> DEFINE k == hoh[s]
    <3>1. pc[s] = "scan" /\ k \in Key /\ hoh' = hoh /\ pc' = [pc EXCEPT ![s] = "wait"]
          /\ waiting' = [waiting EXCEPT ![k] = Append(waiting[k], s)]
      BY <1>0, <1>t, <2>3 DEF LookupWait, PlacesOK, CarryPC
    <3> HIDE DEF k
    <3>2. waiting[k] \in Seq(Sess) /\ Once(waiting[k]) /\ s \notin Elems(waiting[k])
      BY <1>0, <3>1 DEF TypeOK, WaitingOK
    <3>3. /\ Once(Append(waiting[k], s))
          /\ \A x : x \in Elems(Append(waiting[k], s)) <=> x \in Elems(waiting[k]) \/ x = s
      BY <3>2, AppendOK
    <3>4. waiting'[k] = Append(waiting[k], s) /\ \A j \in Key : j # k => waiting'[j] = waiting[j]
      BY <1>0, <3>1 DEF TypeOK
    <3>5. \A x \in Sess : pc'[x] = "wait" <=> pc[x] = "wait" \/ x = s
      BY <1>t, <3>1
    <3>6. hoh'[s] = k
      BY <3>1 DEF k
    <3> QED
      BY <1>0, <3>1, <3>3, <3>4, <3>5, <3>6 DEF WaitingOK
  <2> QED
    BY <1>3, <2>1, <2>2, <2>3 DEF Lookup
<1>4. ASSUME NEW s \in Sess, Hit(s) PROVE WaitingOK'
  BY <1>0, <1>t, <1>4, WaitingFrame
     DEF Hit, SetObjTtl, HitRearm, HitDeliver, HitDrop, Deliver, EndRequest, GiveUpObj
<1>5. ASSUME NEW s \in Sess, Miss(s) PROVE WaitingOK'
  <2>1. CASE HSH_Unbusy(s)
    BY <2>1, UnbusyFacts
  <2>2. CASE EXP_NukeOne(s)
    BY <1>0, <1>t, <2>2, WaitingFrame DEF EXP_NukeOne
  <2>3. CASE Fetch(s) \/ AbandonFetch(s) \/ NewObject(s) \/ NewObjectFails(s)
    BY <1>0, <1>t, <2>3, WaitingFrame
       DEF Fetch, AbandonFetch, NewObject, STV_MkObject, NewObjectFails, EndRequest, GiveUpObj
  <2>4. CASE ErrorObject(s) \/ OutOfObjects(s) \/ ErrorDeliver(s) \/ HSH_Drop(s)
    BY <1>0, <1>t, <2>4, WaitingFrame
       DEF ErrorObject, STV_MkObject, OutOfObjects, ErrorDeliver, HSH_Drop
  <2>5. CASE StreamFails(s) \/ FetchedRef(s) \/ EXP_Insert(s)
    BY <1>0, <1>t, <2>5, WaitingFrame DEF StreamFails, FetchedRef, EXP_Insert, EndRequest, GiveUpObj
  <2> QED
    BY <1>5, <2>1, <2>2, <2>3, <2>4, <2>5 DEF Miss
<1>6. ASSUME NEW s \in Sess, Purge(s) PROVE WaitingOK'
  BY <1>0, <1>t, <1>6, WaitingFrame DEF Purge, PurgeCollect, PurgeMark, PurgeRearm
<1>7. ASSUME NEW a \in Actor, Release(a) PROVE WaitingOK'
  BY <1>0, <1>7, DerefFacts, WaitingFrame DEF Release, Destroy
<1> QED
  BY <1>1, <1>2, <1>3, <1>4, <1>5, <1>6, <1>7 DEF Next, Worker, Actor

----------------------------------------------------------------------------
(* The list of an objhead.                                                 *)

\* The lists agree with heads and references, and busy objcores are at the tail.
ListsOK == LinkedOK /\ BusyAtTail

\* A step that only counts references up, on objcores that have some.
LEMMA ListsFrame ==
    ASSUME TypeOK, ListsOK, objcs' = objcs, head' = head, busy' = busy,
           \A o \in Obj : ocref'[o] > 0 <=> ocref[o] > 0
    PROVE  ListsOK'
BY DEF ListsOK, LinkedOK, BusyAtTail

\* One list changes, and what is said of it is still true.
ListChange(k, o, l) ==
    /\ objcs' = [objcs EXCEPT ![k] = l] /\ Once(l)
    /\ \A x \in Obj : x \in Elems(l) <=> head'[x] = k /\ ocref'[x] > 0
    /\ \A i, j \in DOMAIN l : i < j /\ busy'[l[i]] => busy'[l[j]]
    /\ \A x \in Obj : x # o => head'[x] = head[x] /\ (ocref'[x] > 0 <=> ocref[x] > 0)
                               /\ busy'[x] = busy[x]
    /\ head[o] \in {k, None} /\ (head[o] = None => ocref[o] = 0) /\ head'[o] = k

\* Such a change keeps the lists.
LEMMA ListsOne ==
    ASSUME TypeOK, ListsOK, NEW k \in Key, NEW o \in Obj, NEW l, ListChange(k, o, l)
    PROVE  ListsOK'
<1> USE DEF ListChange
<1>1. objcs'[k] = l /\ \A j \in Key : j # k => objcs'[j] = objcs[j]
  BY DEF TypeOK
<1>2. \A j \in Key : j # k => o \notin Elems(objcs[j])
  BY ActorFinite DEF ListsOK, LinkedOK
<1>3. LinkedOK'
  <2> SUFFICES ASSUME NEW j \in Key
               PROVE  Once(objcs'[j]) /\ \A x \in Obj : x \in Elems(objcs'[j]) <=>
                                            head'[x] = j /\ ocref'[x] > 0
    BY DEF LinkedOK
  <2>1. CASE j = k
    BY <1>1, <2>1
  <2>2. CASE j # k
    <3>1. Once(objcs[j]) /\ \A x \in Obj : x \in Elems(objcs[j]) <=> head[x] = j /\ ocref[x] > 0
      BY DEF ListsOK, LinkedOK
    <3> QED
      BY <1>1, <1>2, <2>2, <3>1
  <2> QED
    BY <2>1, <2>2
<1>4. BusyAtTail'
  <2> SUFFICES ASSUME NEW j \in Key, NEW m \in DOMAIN objcs'[j], NEW n \in DOMAIN objcs'[j],
                      m < n, busy'[objcs'[j][m]]
               PROVE  busy'[objcs'[j][n]]
    BY DEF BusyAtTail
  <2>1. CASE j = k
    BY <1>1, <2>1
  <2>2. CASE j # k
    <3>1. objcs[j][m] # o /\ objcs[j][n] # o
      BY <1>1, <1>2, <2>2 DEF Elems
    <3>2. objcs[j][m] \in Obj /\ objcs[j][n] \in Obj
      BY <1>1, <2>2 DEF TypeOK
    <3>3. busy[objcs[j][m]] => busy[objcs[j][n]]
      BY <1>1, <2>2 DEF ListsOK, BusyAtTail
    <3> QED
      BY <1>1, <2>2, <3>1, <3>2, <3>3
  <2> QED
    BY <2>1, <2>2
<1> QED
  BY <1>3, <1>4 DEF ListsOK

\* A new busy objcore goes to the tail.
LEMMA ListsMiss ==
    ASSUME CacheInv, NEW s \in Sess, LookupMiss(s)
    PROVE  ListsOK'
<1>0. TypeOK /\ ListsOK /\ PlacesOK /\ DyingOK
  BY DEF CacheInv, ListsOK
<1>1. PICK o \in Obj : /\ head[o] = None
                       /\ ocref' = [ocref EXCEPT ![o] = 1]
                       /\ head' = [head EXCEPT ![o] = hoh[s]]
                       /\ busy' = [busy EXCEPT ![o] = TRUE]
                       /\ objcs' = [objcs EXCEPT ![hoh[s]] = Append(objcs[hoh[s]], o)]
  BY DEF LookupMiss, FreeObj
<1>2. PICK k \in Key : k = hoh[s]
  BY <1>0 DEF LookupMiss, AtStep, PlacesOK, CarryPC, TypeOK
<1>3. ocref[o] = 0 /\ o \notin Elems(objcs[k]) /\ k # None
  BY <1>0, <1>1, ActorFinite DEF DyingOK, ListsOK, LinkedOK
<1>4. PICK l : l = Append(objcs[k], o)
  OBVIOUS
<1>5. objcs[k] \in Seq(Obj) /\ Once(objcs[k])
      /\ \A x \in Obj : x \in Elems(objcs[k]) <=> head[x] = k /\ ocref[x] > 0
  BY <1>0 DEF TypeOK, ListsOK, LinkedOK
<1>6. /\ Once(l) /\ l \in Seq(Obj)
      /\ \A x : x \in Elems(l) <=> x \in Elems(objcs[k]) \/ x = o
      /\ \A i, j \in DOMAIN l : i < j =>
            /\ i \in DOMAIN objcs[k] /\ l[i] = objcs[k][i]
            /\ IF j \in DOMAIN objcs[k] THEN l[j] = objcs[k][j] ELSE l[j] = o
  BY <1>3, <1>4, <1>5, AppendOK
<1>7. /\ ocref'[o] = 1 /\ head'[o] = k /\ busy'[o] = TRUE
      /\ \A x \in Obj : x # o => ocref'[x] = ocref[x] /\ head'[x] = head[x] /\ busy'[x] = busy[x]
  BY <1>0, <1>1, <1>2 DEF TypeOK
<1>8. \A i, j \in DOMAIN l : i < j /\ busy'[l[i]] => busy'[l[j]]
  <2> SUFFICES ASSUME NEW i \in DOMAIN l, NEW j \in DOMAIN l, i < j, busy'[l[i]]
               PROVE  busy'[l[j]]
    OBVIOUS
  <2>1. i \in DOMAIN objcs[k] /\ l[i] = objcs[k][i] /\ l[i] # o /\ l[i] \in Obj
    BY <1>3, <1>5, <1>6 DEF Elems
  <2>2. CASE j \in DOMAIN objcs[k]
    <3>1. l[j] = objcs[k][j] /\ l[j] # o /\ l[j] \in Obj
      BY <1>3, <1>5, <1>6, <2>2 DEF Elems
    <3>2. busy[l[j]]
      BY <1>0, <1>7, <2>1, <2>2, <3>1 DEF ListsOK, BusyAtTail
    <3> QED
      BY <1>7, <3>1, <3>2
  <2>3. CASE j \notin DOMAIN objcs[k]
    BY <1>6, <1>7, <2>3
  <2> QED
    BY <2>2, <2>3
<1>9. \A x \in Obj : x \in Elems(l) <=> head'[x] = k /\ ocref'[x] > 0
  BY <1>5, <1>6, <1>7
<1>10. objcs' = [objcs EXCEPT ![k] = l]
  BY <1>1, <1>2, <1>4
<1>11. \A x \in Obj : x # o => head'[x] = head[x] /\ (ocref'[x] > 0 <=> ocref[x] > 0)
                                   /\ busy'[x] = busy[x]
  BY <1>7
<1>12. head[o] \in {k, None} /\ (head[o] = None => ocref[o] = 0) /\ head'[o] = k
  BY <1>1, <1>3, <1>7
<1>13. Once(l)
  BY <1>6
<1>14. ListChange(k, o, l)
  BY <1>8, <1>9, <1>10, <1>11, <1>12, <1>13 DEF ListChange
<1> QED
  BY <1>0, <1>14, ListsOne

\* An objcore that is not busy any more goes to the front.
LEMMA ListsUnbusy ==
    ASSUME CacheInv, NEW s \in Sess, HSH_Unbusy(s)
    PROVE  ListsOK'
<1>0. TypeOK /\ ListsOK
  BY DEF CacheInv, ListsOK
<1>1. PICK o \in Obj, k \in Key : /\ o = sobj[s] /\ k = head[o]
                                  /\ ocref[o] > 0 /\ o \in Elems(objcs[k])
  BY UnbusyFacts
<1>2. /\ objcs' = [objcs EXCEPT ![k] = ToFront(objcs[k], o)]
      /\ busy' = [busy EXCEPT ![o] = FALSE] /\ UNCHANGED <<ocref, head>>
  BY <1>1 DEF HSH_Unbusy
<1>3. PICK l : l = ToFront(objcs[k], o)
  OBVIOUS
<1>4. objcs[k] \in Seq(Obj) /\ Once(objcs[k])
      /\ \A x \in Obj : x \in Elems(objcs[k]) <=> head[x] = k /\ ocref[x] > 0
  BY <1>0 DEF TypeOK, ListsOK, LinkedOK
<1>5. /\ Once(l) /\ l \in Seq(Obj)
      /\ \A x : x \in Elems(l) <=> x \in Elems(objcs[k])
      /\ \A i, j \in DOMAIN l : i < j =>
            \/ l[i] = o
            \/ \E a, b \in DOMAIN objcs[k] : a < b /\ l[i] = objcs[k][a] /\ l[j] = objcs[k][b]
                                                   /\ objcs[k][b] # o
  <2>1. l \in Seq(Obj) /\ Fronts(objcs[k], o, l)
    BY <1>1, <1>3, <1>4, ToFrontFronts
  <2> QED
    BY <2>1 DEF Fronts
<1>6. /\ busy'[o] = FALSE
      /\ \A x \in Obj : x # o => busy'[x] = busy[x]
  BY <1>0, <1>2 DEF TypeOK
<1>7. \A i, j \in DOMAIN l : i < j /\ busy'[l[i]] => busy'[l[j]]
  <2> SUFFICES ASSUME NEW i \in DOMAIN l, NEW j \in DOMAIN l, i < j, busy'[l[i]]
               PROVE  busy'[l[j]]
    OBVIOUS
  <2>1. PICK a \in DOMAIN objcs[k], b \in DOMAIN objcs[k] :
           a < b /\ l[i] = objcs[k][a] /\ l[j] = objcs[k][b] /\ objcs[k][b] # o
    BY <1>5, <1>6
  <2>2. l[i] # o /\ l[i] \in Obj /\ l[j] \in Obj
    BY <1>5, <1>6
  <2> QED
    BY <1>0, <1>6, <2>1, <2>2 DEF ListsOK, BusyAtTail
<1>8. \A x \in Obj : x \in Elems(l) <=> head'[x] = k /\ ocref'[x] > 0
  BY <1>2, <1>4, <1>5
<1>9. objcs' = [objcs EXCEPT ![k] = l] /\ head'[o] = k
  BY <1>1, <1>2, <1>3
<1>10. head[o] \in {k, None} /\ (head[o] = None => ocref[o] = 0) /\ head'[o] = k
  BY <1>1, <1>2, ActorFinite
<1>11. \A x \in Obj : x # o => head'[x] = head[x] /\ (ocref'[x] > 0 <=> ocref[x] > 0)
                                   /\ busy'[x] = busy[x]
  BY <1>2, <1>6
<1>12. Once(l)
  BY <1>5
<1>13. ListChange(k, o, l)
  BY <1>7, <1>8, <1>9, <1>10, <1>11, <1>12 DEF ListChange
<1> QED
  BY <1>0, <1>13, ListsOne

\* An objcore leaves the list with its last reference.
LEMMA ListsDeref ==
    ASSUME CacheInv, NEW a \in Actor, HSH_Deref(a)
    PROVE  ListsOK'
<1>0. TypeOK /\ ListsOK /\ ObjcoreRefcnt
  BY DEF CacheInv, ListsOK
<1>1. PICK o \in Obj, k \in Key : /\ o = victim[a] /\ k = head[o]
                                  /\ ocref[o] > 0 /\ o \in Elems(objcs[k])
  BY DerefFacts
<1>2. /\ ocref' = [ocref EXCEPT ![o] = ocref[o] - 1] /\ UNCHANGED <<head, busy>>
      /\ IF ocref[o] = 1 THEN objcs' = [objcs EXCEPT ![k] = Without(objcs[k], o)]
                         ELSE objcs' = objcs
  BY <1>1 DEF HSH_Deref, Unlink
<1>3. /\ ocref'[o] = ocref[o] - 1 /\ \A x \in Obj : x # o => ocref'[x] = ocref[x]
      /\ ocref[o] \in Nat
  BY <1>0, <1>2, Held DEF TypeOK
<1>4. CASE ocref[o] # 1
  <2>1. \A x \in Obj : ocref'[x] > 0 <=> ocref[x] > 0
    BY <1>1, <1>3, <1>4
  <2> QED
    BY <1>0, <1>2, <1>4, <2>1, ListsFrame
<1>5. CASE ocref[o] = 1
  <2>1. PICK l : l = Without(objcs[k], o)
    OBVIOUS
  <2>2. objcs[k] \in Seq(Obj) /\ Once(objcs[k])
        /\ \A x \in Obj : x \in Elems(objcs[k]) <=> head[x] = k /\ ocref[x] > 0
    BY <1>0 DEF TypeOK, ListsOK, LinkedOK
  <2>3. l \in Seq(Obj) /\ Loses(objcs[k], o, l)
    BY <2>1, <2>2, WithoutLoses
  <2>4. Once(l) /\ \A x : x \in Elems(l) <=> x \in Elems(objcs[k]) /\ x # o
    BY <2>3 DEF Loses
  <2>5. \A i, j \in DOMAIN l : i < j =>
           \E m, n \in DOMAIN objcs[k] : m < n /\ l[i] = objcs[k][m] /\ l[j] = objcs[k][n]
    BY <2>3 DEF Loses
  <2>6. \A i, j \in DOMAIN l : i < j /\ busy'[l[i]] => busy'[l[j]]
    BY <1>0, <1>2, <2>5 DEF ListsOK, BusyAtTail
  <2>7. \A x \in Obj : x \in Elems(l) <=> head'[x] = k /\ ocref'[x] > 0
    BY <1>2, <1>3, <1>5, <2>2, <2>4
  <2>8. objcs' = [objcs EXCEPT ![k] = l] /\ head'[o] = k /\ head[o] # None
    BY <1>1, <1>2, <1>5, <2>1, ActorFinite
  <2>9. \A x \in Obj : x # o => head'[x] = head[x] /\ (ocref'[x] > 0 <=> ocref[x] > 0)
                                   /\ busy'[x] = busy[x]
    BY <1>2, <1>3
  <2>10. head[o] \in {k, None} /\ (head[o] = None => ocref[o] = 0) /\ head'[o] = k
    BY <1>1, <2>8
  <2>11. ListChange(k, o, l)
    BY <2>4, <2>6, <2>7, <2>8, <2>9, <2>10 DEF ListChange
  <2> QED
    BY <1>0, <2>11, ListsOne
<1> QED
  BY <1>4, <1>5

\* References are taken on objcores that have one and are not bare.
LEMMA RefUp ==
    ASSUME CacheInv, NEW s \in Sess, LookupHit(s) \/ FetchedRef(s) \/ PurgeCollect(s)
    PROVE  \A x \in Obj : /\ ocref[x] \in Nat
                          /\ \/ ocref'[x] = ocref[x]
                             \/ /\ ocref[x] > 0 /\ ocref'[x] = ocref[x] + 1
                                /\ ~busy[x] \/ (FetchedRef(s) /\ x = sobj[s])
<1>0. TypeOK /\ HasObj /\ PlacesOK /\ LinkedOK /\ ObjcoreRefcnt /\ DyingOK
  BY DEF CacheInv
<1>1. \A x \in Obj : ocref[x] \in Nat
  BY <1>0, Held
<1>2. CASE LookupHit(s)
  <2>1. hoh[s] \in Key
    BY <1>0, <1>2 DEF LookupHit, AtStep, PlacesOK, CarryPC, TypeOK
  <2>2. PICK h \in BOOLEAN, o \in Obj : o \in Candidate(s, h) /\ HSH_Ref(o)
    BY <1>2 DEF LookupHit
  <2>3. ocref[o] > 0 /\ ~busy[o]
    BY <1>0, <2>1, <2>2, CandidateOK DEF LinkedOK
  <2> QED
    BY <1>0, <1>1, <2>2, <2>3 DEF HSH_Ref, TypeOK
<1>3. CASE FetchedRef(s)
  <2>1. sobj[s] \in Obj
    BY <1>0, <1>3 DEF FetchedRef, AtStep, HasObj, WithObjPC, TypeOK
  <2>2. ocref[sobj[s]] > 0
    BY <1>0, <2>1, Held
  <2> QED
    BY <1>0, <1>1, <1>3, <2>1, <2>2 DEF FetchedRef, HSH_Ref, TypeOK
<1>4. CASE PurgeCollect(s)
  <2>1. sobj[s] \in Obj
    BY <1>0, <1>4 DEF PurgeCollect, AtStep, HasObj, WithObjPC, TypeOK
  <2>2. head[sobj[s]] \in Key
    BY <1>0, <2>1, Held, HeldLinked
  <2>3. \A x \in Purgeable(head[sobj[s]]) : ocref[x] > 0 /\ ~busy[x]
    BY <1>0, <2>2 DEF Purgeable, LinkedOK
  <2>4. \A x \in Obj : ocref'[x] = IF x \in Purgeable(head[sobj[s]]) THEN ocref[x] + 1 ELSE ocref[x]
    BY <1>4 DEF PurgeCollect
  <2> QED
    BY <1>1, <2>3, <2>4
<1> QED
  BY <1>2, <1>3, <1>4

\* The lists of the objheads after any step.
LEMMA ListsStep ==
    ASSUME CacheInv, [Next]_vars
    PROVE  LinkedOK' /\ BusyAtTail'
<1> SUFFICES ListsOK'
  BY DEF ListsOK
<1>0. TypeOK /\ ListsOK /\ ObjcoreRefcnt /\ DyingOK
  BY DEF CacheInv, ListsOK
<1> USE DEF hvars, ovars
<1>1. CASE UNCHANGED vars \/ Tick \/ ExpTimer
  BY <1>0, <1>1, ListsFrame DEF vars, Tick, ExpTimer
<1>a. ASSUME NEW s \in Sess, LookupHit(s) \/ FetchedRef(s) \/ PurgeCollect(s) PROVE ListsOK'
  <2>1. \A x \in Obj : ocref'[x] > 0 <=> ocref[x] > 0
    BY <1>a, RefUp
  <2> QED
    BY <1>0, <1>a, <2>1, ListsFrame DEF LookupHit, FetchedRef, PurgeCollect
<1>2. ASSUME NEW s \in Sess, StartRequest(s) PROVE ListsOK'
  BY <1>0, <1>2, ListsFrame DEF StartRequest
<1>3. ASSUME NEW s \in Sess, Lookup(s) PROVE ListsOK'
  BY <1>0, <1>a, <1>3, ListsFrame, ListsMiss DEF Lookup, EsiPoll, LookupWait, HitDerefHead
<1>4. ASSUME NEW s \in Sess, Hit(s) PROVE ListsOK'
  BY <1>0, <1>4, ListsFrame DEF Hit, SetObjTtl, HitRearm, HitDeliver, HitDrop, Deliver, EndRequest
<1>5. ASSUME NEW s \in Sess, Miss(s) PROVE ListsOK'
  <2>1. CASE HSH_Unbusy(s) \/ FetchedRef(s)
    BY <1>a, <2>1, ListsUnbusy
  <2>2. CASE Fetch(s) \/ AbandonFetch(s) \/ NewObject(s) \/ EXP_NukeOne(s) \/ NewObjectFails(s)
    BY <1>0, <2>2, ListsFrame
       DEF Fetch, AbandonFetch, NewObject, STV_MkObject, EXP_NukeOne, NewObjectFails, EndRequest
  <2>3. CASE ErrorObject(s) \/ OutOfObjects(s) \/ ErrorDeliver(s) \/ HSH_Drop(s)
    BY <1>0, <2>3, ListsFrame DEF ErrorObject, STV_MkObject, OutOfObjects, ErrorDeliver, HSH_Drop
  <2>4. CASE StreamFails(s) \/ EXP_Insert(s)
    BY <1>0, <2>4, ListsFrame DEF StreamFails, EXP_Insert, EndRequest
  <2> QED
    BY <1>5, <2>1, <2>2, <2>3, <2>4 DEF Miss
<1>6. ASSUME NEW s \in Sess, Purge(s) PROVE ListsOK'
  BY <1>0, <1>a, <1>6, ListsFrame DEF Purge, PurgeMark, PurgeRearm
<1>7. ASSUME NEW a \in Actor, Release(a) PROVE ListsOK'
  <2>1. CASE Destroy(a)
    <3>1. dying[a] \in Obj /\ ocref[dying[a]] = 0
      BY <1>0, <2>1 DEF Destroy, DyingOK, TypeOK
    <3>2. \A k \in Key : dying[a] \notin Elems(objcs[k])
      BY <1>0, <3>1 DEF ListsOK, LinkedOK
    <3>3. /\ UNCHANGED <<objcs, ocref>> /\ head'[dying[a]] = None
          /\ \A x \in Obj : x # dying[a] => head'[x] = head[x] /\ busy'[x] = busy[x]
      BY <1>0, <2>1, <3>1 DEF Destroy, TypeOK
    <3>4. LinkedOK'
      BY <1>0, <3>1, <3>2, <3>3, ActorFinite DEF ListsOK, LinkedOK
    <3>5. BusyAtTail'
      <4> SUFFICES ASSUME NEW k \in Key, NEW i \in DOMAIN objcs[k], NEW j \in DOMAIN objcs[k],
                          i < j, busy'[objcs[k][i]]
                   PROVE  busy'[objcs[k][j]]
        BY <3>3 DEF BusyAtTail
      <4>1. objcs[k][i] # dying[a] /\ objcs[k][j] # dying[a]
        BY <3>2 DEF Elems
      <4>2. objcs[k][i] \in Obj /\ objcs[k][j] \in Obj
        BY <1>0 DEF TypeOK
      <4> QED
        BY <1>0, <3>3, <4>1, <4>2 DEF ListsOK, BusyAtTail
    <3> QED
      BY <3>4, <3>5 DEF ListsOK
  <2> QED
    BY <1>7, <2>1, ListsDeref DEF Release
<1> QED
  BY <1>1, <1>2, <1>3, <1>4, <1>5, <1>6, <1>7 DEF Next, Worker, Actor

\* A step that frees nothing and takes references only where there are some.
LEMMA DyingFrame ==
    ASSUME DyingOK, dying' = dying, head' = head,
           \A x \in Obj : ocref[x] = 0 => ocref'[x] = 0
    PROVE  TypeOK => DyingOK'
BY DEF DyingOK, TypeOK

\* An objcore is freed once, by the one who dropped its last reference.
LEMMA DyingStep ==
    ASSUME CacheInv, [Next]_vars
    PROVE  DyingOK'
<1>0. TypeOK /\ DyingOK /\ ObjcoreRefcnt /\ PlacesOK
  BY DEF CacheInv
<1> USE DEF ovars, cvars
<1>1. CASE UNCHANGED vars \/ Tick \/ ExpTimer
  BY <1>0, <1>1, DyingFrame DEF vars, Tick, ExpTimer
<1>a. ASSUME NEW s \in Sess, LookupHit(s) \/ FetchedRef(s) \/ PurgeCollect(s) PROVE DyingOK'
  <2>1. \A x \in Obj : ocref[x] = 0 => ocref'[x] = 0
    BY <1>a, RefUp
  <2> QED
    BY <1>0, <1>a, <2>1, DyingFrame DEF LookupHit, FetchedRef, PurgeCollect
<1>2. ASSUME NEW s \in Sess, StartRequest(s) PROVE DyingOK'
  BY <1>0, <1>2, DyingFrame DEF StartRequest
<1>3. ASSUME NEW s \in Sess, Lookup(s) PROVE DyingOK'
  <2>1. CASE LookupMiss(s)
    <3>1. PICK o \in Obj : /\ head[o] = None
                           /\ ocref' = [ocref EXCEPT ![o] = 1]
                           /\ head' = [head EXCEPT ![o] = hoh[s]]
      BY <2>1 DEF LookupMiss, FreeObj
    <3>2. hoh[s] # None /\ dying' = dying
      BY <1>0, <2>1 DEF LookupMiss, AtStep, PlacesOK, CarryPC
    <3>3. head'[o] # None /\ \A x \in Obj : x # o => head'[x] = head[x] /\ ocref'[x] = ocref[x]
      BY <1>0, <3>1, <3>2 DEF TypeOK
    <3>4. \A a \in Actor : dying[a] # o /\ dying[a] \in Obj \cup {None}
      BY <1>0, <3>1, ActorFinite DEF DyingOK, TypeOK
    <3> QED
      BY <1>0, <3>2, <3>3, <3>4 DEF DyingOK
  <2> QED
    BY <1>0, <1>a, <1>3, <2>1, DyingFrame DEF Lookup, EsiPoll, LookupWait, HitDerefHead
<1>4. ASSUME NEW s \in Sess, Hit(s) PROVE DyingOK'
  BY <1>0, <1>4, DyingFrame DEF Hit, SetObjTtl, HitRearm, HitDeliver, HitDrop, Deliver, EndRequest
<1>5. ASSUME NEW s \in Sess, Miss(s) PROVE DyingOK'
  <2>1. CASE HSH_Unbusy(s) \/ FetchedRef(s)
    BY <1>0, <1>a, <2>1, DyingFrame DEF HSH_Unbusy
  <2>2. CASE Fetch(s) \/ AbandonFetch(s) \/ NewObject(s) \/ EXP_NukeOne(s) \/ NewObjectFails(s)
    BY <1>0, <2>2, DyingFrame
       DEF Fetch, AbandonFetch, NewObject, STV_MkObject, EXP_NukeOne, NewObjectFails, EndRequest
  <2>3. CASE ErrorObject(s) \/ OutOfObjects(s) \/ ErrorDeliver(s) \/ HSH_Drop(s)
    BY <1>0, <2>3, DyingFrame DEF ErrorObject, STV_MkObject, OutOfObjects, ErrorDeliver, HSH_Drop
  <2>4. CASE StreamFails(s) \/ EXP_Insert(s)
    BY <1>0, <2>4, DyingFrame DEF StreamFails, EXP_Insert, EndRequest
  <2> QED
    BY <1>5, <2>1, <2>2, <2>3, <2>4 DEF Miss
<1>6. ASSUME NEW s \in Sess, Purge(s) PROVE DyingOK'
  BY <1>0, <1>a, <1>6, DyingFrame DEF Purge, PurgeMark, PurgeRearm
<1>7. ASSUME NEW a \in Actor, Release(a) PROVE DyingOK'
  <2>1. CASE HSH_Deref(a)
    <3>1. PICK o \in Obj : /\ o = victim[a] /\ head[o] \in Key /\ ocref[o] > 0
      BY <2>1, DerefFacts
    <3>2. /\ ocref' = [ocref EXCEPT ![o] = ocref[o] - 1] /\ head' = head
          /\ IF ocref[o] = 1 THEN dying' = [dying EXCEPT ![a] = o] ELSE dying' = dying
      BY <2>1, <3>1 DEF HSH_Deref
    <3>3. /\ ocref'[o] = ocref[o] - 1 /\ \A x \in Obj : x # o => ocref'[x] = ocref[x]
          /\ ocref[o] \in Nat /\ head[o] # None
      BY <1>0, <3>1, <3>2, Held, ActorFinite DEF TypeOK
    <3>4. CASE ocref[o] # 1
      <4>1. \A x \in Obj : ocref[x] = 0 => ocref'[x] = 0
        BY <3>1, <3>3
      <4> QED
        BY <1>0, <3>2, <3>4, <4>1, DyingFrame
    <3>5. CASE ocref[o] = 1
      <4>1. dying'[a] = o /\ ocref'[o] = 0 /\ \A b \in Actor : b # a => dying'[b] = dying[b]
        BY <1>0, <3>2, <3>3, <3>5 DEF TypeOK
      <4>2. \A b \in Actor : dying[b] # o /\ dying[b] \in Obj \cup {None}
        BY <1>0, <3>3, <3>5, ActorFinite DEF DyingOK, TypeOK
      <4> QED
        BY <1>0, <3>2, <3>3, <4>1, <4>2 DEF DyingOK
    <3> QED
      BY <3>4, <3>5
  <2>2. CASE Destroy(a)
    <3>1. dying[a] \in Obj /\ ocref[dying[a]] = 0
      BY <1>0, <2>2 DEF Destroy, DyingOK, TypeOK
    <3>2. /\ ocref' = ocref /\ dying' = [dying EXCEPT ![a] = None]
          /\ head' = [head EXCEPT ![dying[a]] = None]
      BY <2>2 DEF Destroy
    <3>3. \A b \in Actor : b # a => dying'[b] = dying[b] /\ dying[b] # dying[a]
      BY <1>0, <2>2, <3>2 DEF DyingOK, TypeOK, Destroy
    <3>4. dying'[a] = None /\ \A x \in Obj : x # dying[a] => head'[x] = head[x]
      BY <1>0, <3>2 DEF TypeOK
    <3> QED
      BY <1>0, <3>1, <3>2, <3>3, <3>4 DEF DyingOK, TypeOK
  <2> QED
    BY <1>7, <2>1, <2>2 DEF Release
<1> QED
  BY <1>1, <1>2, <1>3, <1>4, <1>5, <1>6, <1>7 DEF Next, Worker, Actor

----------------------------------------------------------------------------
(* Busy objcores.                                                          *)

FilledPC == {"body", "expref", "unbusy", "drop", "errobj"}

\* A step that leaves objcores alone and with which nobody begins to fill one.
LEMMA FillingFrame ==
    ASSUME TypeOK, FillingOK, UNCHANGED <<busy, head, hasobj, ocref, heap>>,
           \A x \in Sess : sobj'[x] \in {sobj[x], None},
           \A x \in Sess : pc'[x] \in FillPC =>
              /\ pc[x] \in FillPC /\ sobj'[x] = sobj[x]
              /\ pc'[x] # "unbusy" => pc[x] # "unbusy"
              /\ pc'[x] \in FilledPC => pc[x] \in FilledPC
    PROVE  FillingOK'
BY DEF FillingOK, FilledPC, FillPC, TypeOK

\* A busy objcore stays with the one session that fills it.
LEMMA FillingStep ==
    ASSUME CacheInv, [Next]_vars
    PROVE  FillingOK'
<1>0. TypeOK /\ FillingOK /\ HasObj
  BY DEF CacheInv
<1>a. ObjcoreRefcnt /\ PlacesOK /\ DyingOK /\ LinkedOK
  BY DEF CacheInv
<1>b. \A s \in Sess : pc[s] \in FillPC => sobj[s] \in Obj
  BY <1>0 DEF HasObj, WithObjPC, FillPC, TypeOK
<1>n. None \notin Obj
  BY ActorFinite
<1> USE <1>0, <1>b, <1>n DEF FillingOK, FillPC, SessPC, TypeOK, AtStep, Goto, ovars, svars, evars
<1>1. CASE UNCHANGED vars \/ Tick
  BY <1>1 DEF vars, Tick
<1>c. CASE ExpTimer
  BY <1>c DEF ExpTimer, OffHeapAndLru
<1>2. ASSUME NEW s \in Sess, StartRequest(s) PROVE FillingOK'
  BY <1>2 DEF StartRequest
<1>3. ASSUME NEW s \in Sess, Lookup(s) PROVE FillingOK'
  <2>1. CASE EsiPoll(s) \/ LookupWait(s) \/ HitDerefHead(s)
    BY <1>3, <2>1 DEF EsiPoll, LookupWait, HitDerefHead
  <2>2. CASE LookupHit(s)
    <3>1. hoh[s] \in Key
      BY <1>a, <2>2 DEF LookupHit, PlacesOK, CarryPC
    <3>2. PICK h \in BOOLEAN, o \in Obj : /\ o \in Candidate(s, h) /\ sobj' = [sobj EXCEPT ![s] = o]
                                          /\ ocref' = [ocref EXCEPT ![o] = ocref[o] + 1]
      BY <2>2 DEF LookupHit, HSH_Ref
    <3>3. ~busy[o] /\ ocref[o] > 0
      BY <1>a, <3>1, <3>2, CandidateOK, SMTT(30) DEF LinkedOK
    <3> QED
      BY <2>2, <3>2, <3>3 DEF LookupHit
  <2>3. CASE LookupMiss(s)
    <3>1. PICK o \in Obj : /\ head[o] = None
                           /\ ocref' = [ocref EXCEPT ![o] = 1]
                           /\ head' = [head EXCEPT ![o] = hoh[s]]
                           /\ busy' = [busy EXCEPT ![o] = TRUE]
                           /\ sobj' = [sobj EXCEPT ![s] = o]
      BY <2>3 DEF LookupMiss, FreeObj
    <3>2. ocref[o] = 0
      BY <1>a, <3>1 DEF DyingOK
    <3>3. o \notin heap /\ \A x \in Sess : sobj[x] # o
      BY <1>a, <3>2, Held
    <3>4. UNCHANGED <<hasobj, heap>> /\ pc' = [pc EXCEPT ![s] = "miss"]
      BY <2>3 DEF LookupMiss
    <3>5. \A x \in Sess : sobj'[x] = (IF x = s THEN o ELSE sobj[x]) /\ pc'[x] = IF x = s THEN "miss" ELSE pc[x]
      BY <3>1, <3>4
    <3>6. \A x \in Obj : x # o => ocref'[x] = ocref[x] /\ head'[x] = head[x] /\ busy'[x] = busy[x]
      BY <3>1
    <3>7. busy'[o] = TRUE /\ ocref'[o] = 1
      BY <3>1
    <3> HIDE DEF TypeOK, FillingOK
    <3>8. \A x \in Sess : pc'[x] \in FillPC =>
             /\ busy'[sobj'[x]]
             /\ pc'[x] # "unbusy" => sobj'[x] \notin heap'
             /\ pc'[x] \in FilledPC => hasobj'[sobj'[x]]
      BY <3>3, <3>4, <3>5, <3>6, <3>7 DEF FillingOK, FilledPC
    <3>9. \A x, y \in Sess : sobj'[x] # None /\ sobj'[x] = sobj'[y] /\ busy'[sobj'[x]] => x = y
      <4> SUFFICES ASSUME NEW x \in Sess, NEW y \in Sess, sobj'[x] # None,
                          sobj'[x] = sobj'[y], busy'[sobj'[x]], x # y
                   PROVE  FALSE
        OBVIOUS
      <4>1. x # s /\ y # s
        BY <3>3, <3>5
      <4>2. sobj'[x] = sobj[x] /\ sobj'[y] = sobj[y] /\ sobj[x] # o
        BY <3>3, <3>5, <4>1
      <4>3. sobj[x] \in Obj
        BY <4>2 DEF TypeOK
      <4>4. busy[sobj[x]]
        BY <3>6, <4>2, <4>3
      <4> QED
        BY <4>2, <4>4 DEF FillingOK
    <3>10. \A x \in Obj : head'[x] # None /\ ~hasobj'[x] => busy'[x] /\ ocref'[x] <= 1
      BY <3>4, <3>6, <3>7 DEF FillingOK
    <3> QED
      BY <3>8, <3>9, <3>10 DEF FillingOK, FilledPC
  <2> QED
    BY <1>3, <2>1, <2>2, <2>3 DEF Lookup
<1>4. ASSUME NEW s \in Sess, Hit(s) PROVE FillingOK'
  <2> HIDE DEF FillingOK
  <2>1. CASE SetObjTtl(s) \/ HitRearm(s) \/ HitDeliver(s)
    BY <2>1, FillingFrame, SMTT(30) DEF SetObjTtl, HitRearm, HitDeliver, FilledPC
  <2>2. CASE HitDrop(s) \/ Deliver(s)
    BY <2>2, FillingFrame, SMTT(30) DEF HitDrop, Deliver, EndRequest, GiveUpObj, FilledPC
  <2> QED
    BY <1>4, <2>1, <2>2 DEF Hit
<1>5. ASSUME NEW s \in Sess, Miss(s) PROVE FillingOK'
  <2>1. CASE HSH_Unbusy(s)
    <3>1. /\ OthersMove(s) /\ pc[s] \in {"unbusy", "drop"} /\ pc'[s] \in {"idle", "deliver"}
          /\ (pc[s] = "drop" => GiveUpObj(s)) /\ (pc[s] # "drop" => UNCHANGED <<sobj, victim, treq>>)
      BY <2>1, UnbusyFacts
    <3>2. /\ UNCHANGED <<head, ocref, hasobj, heap>>
          /\ busy' = [busy EXCEPT ![sobj[s]] = FALSE]
      BY <2>1 DEF HSH_Unbusy
    <3>3. \A x \in Sess : x # s => sobj'[x] = sobj[x]
      BY <3>1 DEF GiveUpObj
    <3>4. sobj'[s] \in {sobj[s], None}
      BY <3>1 DEF GiveUpObj
    <3>5. sobj[s] \in Obj /\ hasobj[sobj[s]] /\ busy[sobj[s]]
      BY <3>1
    <3>6. \A x \in Sess : x # s => sobj[x] # sobj[s]
      BY <3>1, <3>5
    <3>7. busy'[sobj[s]] = FALSE /\ \A x \in Obj : x # sobj[s] => busy'[x] = busy[x]
      BY <3>2, <3>5
    <3>8. \A x \in Sess : pc'[x] \in FillPC => x # s /\ pc'[x] = pc[x]
      BY <3>1 DEF OthersMove
    <3>9. \A x \in Sess : pc'[x] \in FillPC =>
             /\ busy'[sobj'[x]]
             /\ pc'[x] # "unbusy" => sobj'[x] \notin heap'
             /\ pc'[x] \in FilledPC => hasobj'[sobj'[x]]
      <4> SUFFICES ASSUME NEW x \in Sess, pc'[x] \in FillPC
                   PROVE  /\ busy'[sobj'[x]]
                          /\ pc'[x] # "unbusy" => sobj'[x] \notin heap'
                          /\ pc'[x] \in FilledPC => hasobj'[sobj'[x]]
        OBVIOUS
      <4>1. x # s /\ pc'[x] = pc[x] /\ sobj'[x] = sobj[x] /\ sobj[x] \in Obj /\ sobj[x] # sobj[s]
        BY <3>3, <3>6, <3>8
      <4>2. busy'[sobj[x]] = busy[sobj[x]]
        BY <3>7, <4>1
      <4> QED
        BY <3>2, <4>1, <4>2 DEF FilledPC
    <3>10. \A x, y \in Sess : sobj'[x] # None /\ sobj'[x] = sobj'[y] /\ busy'[sobj'[x]] => x = y
      <4> SUFFICES ASSUME NEW x \in Sess, NEW y \in Sess, sobj'[x] # None,
                          sobj'[x] = sobj'[y], busy'[sobj'[x]], x # y
                   PROVE  FALSE
        OBVIOUS
      <4>1. sobj'[x] # sobj[s]
        BY <3>7
      <4>2. sobj'[x] = sobj[x] /\ sobj'[y] = sobj[y]
        BY <3>3, <3>4, <4>1
      <4>3. sobj[x] \in Obj /\ busy[sobj[x]]
        BY <3>7, <4>1, <4>2
      <4> QED
        BY <4>2, <4>3
    <3>11. \A x \in Obj : head'[x] # None /\ ~hasobj'[x] => busy'[x] /\ ocref'[x] <= 1
      BY <3>2, <3>5, <3>7
    <3> HIDE DEF TypeOK
    <3> QED
      BY <3>9, <3>10, <3>11 DEF FilledPC
  <2>2. CASE EXP_NukeOne(s)
    BY <2>2 DEF EXP_NukeOne, OffHeapAndLru
  <2>3. CASE Fetch(s) \/ AbandonFetch(s) \/ NewObjectFails(s)
    <3> HIDE DEF FillingOK
    <3> QED
      BY <2>3, FillingFrame, SMTT(30) DEF Fetch, AbandonFetch, NewObjectFails, EndRequest, GiveUpObj, FilledPC
  <2>4. ASSUME NEW p \in SessPC, NEW e, NEW t, STV_MkObject(s, p, e, t),
               pc[s] \in {"fetch", "err"}, p \in {"body", "errobj"}
        PROVE  FillingOK'
    <3>1. /\ UNCHANGED <<busy, head, ocref, heap, sobj>> /\ pc' = [pc EXCEPT ![s] = p]
          /\ hasobj' = [hasobj EXCEPT ![sobj[s]] = TRUE]
      BY <2>4 DEF STV_MkObject
    <3>2. sobj[s] \in Obj /\ hasobj'[sobj[s]] /\ \A x \in Obj : hasobj[x] => hasobj'[x]
      BY <2>4, <3>1
    <3>3. \A x \in Sess : pc'[x] = IF x = s THEN p ELSE pc[x]
      BY <3>1
    <3>4. \A x \in Sess : pc'[x] \in FillPC =>
             /\ busy'[sobj'[x]]
             /\ pc'[x] # "unbusy" => sobj'[x] \notin heap'
             /\ pc'[x] \in FilledPC => hasobj'[sobj'[x]]
      BY <2>4, <3>1, <3>2, <3>3 DEF FilledPC
    <3> QED
      BY <3>1, <3>2, <3>4 DEF FilledPC
  <2>4a. CASE NewObject(s) \/ ErrorObject(s)
    BY <2>4, <2>4a DEF NewObject, ErrorObject
  <2>5. CASE OutOfObjects(s) \/ ErrorDeliver(s) \/ HSH_Drop(s) \/ StreamFails(s)
    <3> HIDE DEF FillingOK
    <3> QED
      BY <2>5, FillingFrame, SMTT(30)
        DEF OutOfObjects, ErrorDeliver, HSH_Drop, StreamFails, EndRequest, GiveUpObj, FilledPC
  <2>6. CASE FetchedRef(s)
    BY <2>6 DEF FetchedRef, HSH_Ref
  <2>7. CASE EXP_Insert(s)
    BY <2>7 DEF EXP_Insert
  <2> QED
    BY <1>5, <2>1, <2>2, <2>3, <2>4a, <2>5, <2>6, <2>7 DEF Miss
<1>6. ASSUME NEW s \in Sess, Purge(s) PROVE FillingOK'
  <2>1. CASE PurgeCollect(s)
    <3>1. \A x \in Obj : busy[x] => ocref'[x] = ocref[x]
      BY <2>1 DEF PurgeCollect, Purgeable
    <3> QED
      BY <2>1, <3>1 DEF PurgeCollect
  <2> QED
    BY <1>6, <2>1 DEF Purge, PurgeMark, PurgeRearm
<1>7. ASSUME NEW a \in Actor, Release(a) PROVE FillingOK'
  <2>1. CASE HSH_Deref(a)
    <3>1. OthersMove(None) /\ None \notin Sess /\ victim[a] \in Obj
      BY <2>1, DerefFacts, ActorFinite
    <3>2. /\ UNCHANGED <<sobj, head, busy, hasobj, heap>>
          /\ ocref' = [ocref EXCEPT ![victim[a]] = ocref[victim[a]] - 1]
      BY <2>1 DEF HSH_Deref
    <3>3. \A x \in Sess : pc'[x] \in FillPC => pc'[x] = pc[x]
      BY <3>1 DEF OthersMove
    <3>4. \A x \in Obj : ocref[x] <= 1 => ocref'[x] <= 1
      BY <3>1, <3>2
    <3> QED
      BY <3>2, <3>3, <3>4
  <2>2. CASE Destroy(a)
    <3>1. dying[a] \in Obj /\ ocref[dying[a]] = 0
      BY <1>a, <2>2 DEF Destroy, DyingOK
    <3>2. \A x \in Sess : sobj[x] # dying[a]
      BY <1>a, <3>1, Held, SMTT(30)
    <3> QED
      BY <2>2, <3>1, <3>2 DEF Destroy
  <2> QED
    BY <1>7, <2>1, <2>2 DEF Release
<1> QED
  BY <1>1, <1>c, <1>2, <1>3, <1>4, <1>5, <1>6, <1>7 DEF Next, Worker, Actor

----------------------------------------------------------------------------
(* The heap and the LRU.                                                   *)

\* An objcore leaves both.
LEMMA LruOff ==
    ASSUME TypeOK, LruOK, NEW o \in heap, OffHeapAndLru(o)
    PROVE  LruOK'
<1>1. lru \in Seq(Obj) /\ Once(lru) /\ o \in Obj /\ o \in Elems(lru) /\ IsFiniteSet(heap)
  BY ActorFinite, FS_Subset DEF TypeOK, LruOK, LruIffHeap
<1>2. Loses(lru, o, lru')
  BY <1>1, WithoutLoses DEF OffHeapAndLru
<1>3. Elems(lru') = heap' /\ Once(lru')
  BY <1>2 DEF Loses, LruOK, LruIffHeap, OffHeapAndLru
<1>4. Cardinality(heap') = Cardinality(heap) - 1
  BY <1>1, FS_RemoveElement DEF OffHeapAndLru
<1>5. Len(lru') = Len(lru) - 1
  BY <1>1, <1>2 DEF Loses
<1> QED
  BY <1>3, <1>4, <1>5 DEF LruOK, LruIffHeap

\* The LRU keeps to the heap.
LEMMA LruStep ==
    ASSUME CacheInv, [Next]_vars
    PROVE  LruOK'
<1>0. TypeOK /\ LruOK /\ FillingOK /\ HasObj
  BY DEF CacheInv
<1>1. CASE UNCHANGED <<heap, lru>>
  BY <1>0, <1>1 DEF LruOK, LruIffHeap
<1> USE DEF evars
<1>2. CASE UNCHANGED vars \/ Tick \/ ExpTimer
  BY <1>0, <1>1, <1>2, LruOff DEF vars, Tick, ExpTimer
<1>3. ASSUME NEW s \in Sess, StartRequest(s) \/ Lookup(s) \/ Purge(s) PROVE LruOK'
  BY <1>1, <1>3 DEF StartRequest, Lookup, EsiPoll, LookupHit, LookupWait, LookupMiss, HitDerefHead,
                    Purge, PurgeCollect, PurgeMark, PurgeRearm
<1>4. ASSUME NEW s \in Sess, Hit(s) PROVE LruOK'
  <2>1. CASE Deliver(s) /\ lru' # lru
    <3> DEFINE w == Without(lru, sobj[s])
    <3>1. heap' = heap /\ sobj[s] \in heap /\ lru' = Append(w, sobj[s])
      BY <2>1 DEF Deliver
    <3>2. lru \in Seq(Obj) /\ Once(lru) /\ sobj[s] \in Obj /\ sobj[s] \in Elems(lru)
      BY <1>0, <3>1 DEF TypeOK, LruOK, LruIffHeap
    <3>3. w \in Seq(Obj) /\ Loses(lru, sobj[s], w)
      BY <3>2, WithoutLoses
    <3> HIDE DEF w
    <3>4. Once(w) /\ sobj[s] \notin Elems(w) /\ Len(w) = Len(lru) - 1
      BY <3>2, <3>3 DEF Loses
    <3>5. /\ Once(lru') /\ Len(lru') = Len(w) + 1
          /\ \A x : x \in Elems(lru') <=> x \in Elems(w) \/ x = sobj[s]
      BY <3>1, <3>2, <3>3, <3>4, AppendOK
    <3>6. Elems(lru') = Elems(lru)
      BY <3>2, <3>3, <3>5 DEF Loses
    <3>7. Len(lru') = Len(lru)
      BY <3>2, <3>3, <3>4, <3>5
    <3> QED
      BY <1>0, <3>1, <3>5, <3>6, <3>7 DEF LruOK, LruIffHeap
  <2> QED
    BY <1>1, <1>4, <2>1 DEF Hit, SetObjTtl, HitRearm, HitDeliver, HitDrop, Deliver
<1>5. ASSUME NEW s \in Sess, Miss(s) PROVE LruOK'
  <2>1. CASE EXP_Insert(s)
    <3>1. sobj[s] \in Obj /\ sobj[s] \notin heap
      BY <1>0, <2>1 DEF EXP_Insert, AtStep, FillingOK, FillPC, HasObj, WithObjPC, TypeOK
    <3>2. heap' = heap \cup {sobj[s]} /\ lru' = Append(lru, sobj[s])
      BY <2>1 DEF EXP_Insert
    <3>3. lru \in Seq(Obj) /\ Once(lru) /\ sobj[s] \notin Elems(lru) /\ IsFiniteSet(heap)
      BY <1>0, <3>1, ActorFinite, FS_Subset DEF TypeOK, LruOK, LruIffHeap
    <3>4. /\ Once(lru') /\ Len(lru') = Len(lru) + 1
          /\ \A x : x \in Elems(lru') <=> x \in Elems(lru) \/ x = sobj[s]
      BY <3>1, <3>2, <3>3, AppendOK
    <3>5. Cardinality(heap') = Cardinality(heap) + 1
      BY <3>1, <3>2, <3>3, FS_AddElement
    <3>6. Elems(lru') = heap'
      BY <1>0, <3>2, <3>4 DEF LruOK, LruIffHeap
    <3> QED
      BY <1>0, <3>4, <3>5, <3>6 DEF LruOK, LruIffHeap
  <2>2. CASE EXP_NukeOne(s)
    <3>1. PICK o \in NukeChoice : OffHeapAndLru(o)
      BY <2>2 DEF EXP_NukeOne
    <3>2. o \in heap
      BY <1>0, <3>1 DEF NukeChoice, NukeCandidates, Elems, LruOK, LruIffHeap
    <3> QED
      BY <1>0, <3>1, <3>2, LruOff
  <2>3. CASE Fetch(s) \/ AbandonFetch(s) \/ NewObject(s) \/ NewObjectFails(s)
    BY <1>1, <2>3 DEF Fetch, AbandonFetch, NewObject, STV_MkObject, NewObjectFails
  <2>4. CASE ErrorObject(s) \/ OutOfObjects(s) \/ ErrorDeliver(s) \/ HSH_Drop(s)
    BY <1>1, <2>4 DEF ErrorObject, STV_MkObject, OutOfObjects, ErrorDeliver, HSH_Drop
  <2>5. CASE StreamFails(s) \/ FetchedRef(s) \/ HSH_Unbusy(s)
    BY <1>1, <2>5 DEF StreamFails, FetchedRef, HSH_Unbusy
  <2> QED
    BY <1>5, <2>1, <2>2, <2>3, <2>4, <2>5 DEF Miss
<1>7. ASSUME NEW a \in Actor, Release(a) PROVE LruOK'
  BY <1>1, <1>7 DEF Release, HSH_Deref, Destroy
<1> QED
  BY <1>2, <1>3, <1>4, <1>5, <1>7 DEF Next, Worker, Actor

\* The key of an objcore on the heap is kept; who is on the way to rearm is kept.
KeyKept(o) == when'[o] = when[o] /\ entered'[o] = entered[o] /\ ttl'[o] = ttl[o]
Rearming(s, o) == rearm[s] = o \/ (pc[s] = "hitrearm" /\ sobj[s] = o)

\* A step that changes the key of z at most, and of z is right.
LEMMA WhenOne ==
    ASSUME WhenCoherent, NEW z,
           \A x \in heap' : x # z => x \in heap /\ KeyKept(x),
           \A s \in Sess, x \in heap : x # z /\ Rearming(s, x) => Rearming(s, x)',
           z \in heap' => when'[z] = EXP_Grace(z)' \/ \E s \in Sess : Rearming(s, z)'
    PROVE  WhenCoherent'
<1> SUFFICES ASSUME NEW x \in heap'
             PROVE  when'[x] = EXP_Grace(x)' \/ \E s \in Sess : Rearming(s, x)'
  BY DEF WhenCoherent, Rearming
<1>1. CASE x = z
  BY <1>1
<1>2. CASE x # z
  <2>1. x \in heap /\ KeyKept(x)
    BY <1>2
  <2>2. when[x] = EXP_Grace(x) \/ \E s \in Sess : Rearming(s, x)
    BY <2>1 DEF WhenCoherent, Rearming
  <2>3. EXP_Grace(x)' = EXP_Grace(x)
    BY <2>1 DEF KeyKept, EXP_Grace, EXP_Ttl
  <2>4. \A s \in Sess : Rearming(s, x) => Rearming(s, x)'
    BY <1>2, <2>1
  <2> QED
    BY <2>1, <2>2, <2>3, <2>4 DEF KeyKept
<1> QED
  BY <1>1, <1>2

\* A step that leaves the expiry code alone.
LEMMA WhenFrame ==
    ASSUME WhenCoherent, heap' \subseteq heap, UNCHANGED <<when, entered, ttl, rearm>>,
           \A s \in Sess : pc[s] = "hitrearm" => pc'[s] = "hitrearm" /\ sobj'[s] = sobj[s]
    PROVE  WhenCoherent'
<1>1. \A x \in heap' : x \in heap /\ KeyKept(x)
  BY DEF KeyKept
<1>2. \A s \in Sess, x \in heap : Rearming(s, x) => Rearming(s, x)'
  BY DEF Rearming
<1>3. PICK z : z \notin heap'
  <2>1. {x \in heap' : x \notin x} \notin heap'
    OBVIOUS
  <2> QED
    BY <2>1
<1> QED
  BY <1>1, <1>2, <1>3, WhenOne

\* The heap's keys are right after any step.
LEMMA WhenStep ==
    ASSUME CacheInv, [Next]_vars
    PROVE  WhenCoherent'
<1>0. TypeOK /\ WhenCoherent
  BY DEF CacheInv
<1>a. FillingOK /\ HasObj /\ ObjcoreRefcnt /\ DyingOK
  BY DEF CacheInv
<1>t. /\ pc \in [Sess -> SessPC] /\ sobj \in [Sess -> Obj \cup {None}]
      /\ rearm \in [Sess -> Obj \cup {None}] /\ heap \subseteq Obj /\ None \notin Obj
      /\ when \in [Obj -> Int] /\ ttl \in [Obj -> Int] /\ entered \in [Obj -> Nat]
  BY <1>0, ActorFinite DEF TypeOK
<1> USE DEF AtStep, Goto, ovars, evars, svars, cvars
<1>1. CASE UNCHANGED vars \/ Tick \/ ExpTimer
  BY <1>0, <1>1, WhenFrame DEF vars, Tick, ExpTimer, OffHeapAndLru
<1>2. ASSUME NEW s \in Sess, StartRequest(s) PROVE WhenCoherent'
  BY <1>0, <1>t, <1>2, WhenFrame DEF StartRequest
<1>3. ASSUME NEW s \in Sess, Lookup(s) PROVE WhenCoherent'
  <2>1. CASE EsiPoll(s) \/ LookupWait(s) \/ HitDerefHead(s)
    BY <1>0, <1>t, <2>1, WhenFrame DEF EsiPoll, LookupWait, HitDerefHead
  <2>2. CASE LookupHit(s) \/ LookupMiss(s)
    BY <1>0, <1>t, <2>2, WhenFrame DEF LookupHit, LookupMiss
  <2> QED
    BY <1>3, <2>1, <2>2 DEF Lookup
<1>4. ASSUME NEW s \in Sess, Hit(s) PROVE WhenCoherent'
  <2>1. CASE SetObjTtl(s)
    <3>1. UNCHANGED <<when, heap, entered, rearm, sobj>> /\ pc' = [pc EXCEPT ![s] = "hitrearm"]
      BY <2>1 DEF SetObjTtl
    <3>2. \A x \in heap : x # sobj[s] => KeyKept(x)
      BY <1>t, <2>1, <3>1 DEF KeyKept, SetObjTtl
    <3>3. \A r \in Sess, x \in heap : Rearming(r, x) => Rearming(r, x)'
      BY <1>t, <3>1 DEF Rearming
    <3>4. Rearming(s, sobj[s])'
      BY <1>t, <3>1 DEF Rearming
    <3>5. PICK z : z = sobj[s]
      OBVIOUS
    <3>6. Rearming(s, z)'
      BY <1>t, <3>1, <3>5 DEF Rearming
    <3> QED
      BY <1>0, <3>1, <3>2, <3>3, <3>5, <3>6, WhenOne
  <2>2. CASE HitRearm(s)
    <3>1. UNCHANGED <<heap, entered, ttl, rearm, sobj>> /\ pc' = [pc EXCEPT ![s] = "deliver"]
      BY <2>2 DEF HitRearm
    <3>2. PICK z \in Obj : z = sobj[s]
      BY <1>a, <1>t, <2>2 DEF HitRearm, HasObj, WithObjPC
    <3>3. when' = IF z \in heap THEN [when EXCEPT ![z] = EXP_Grace(z)] ELSE when
      BY <2>2, <3>2 DEF HitRearm, EXP_Rearm
    <3>4. \A x \in heap : x # z => KeyKept(x)
      BY <1>t, <3>1, <3>3 DEF KeyKept
    <3>5. \A r \in Sess, x \in heap : x # z /\ Rearming(r, x) => Rearming(r, x)'
      BY <1>t, <3>1, <3>2 DEF Rearming
    <3>6. z \in heap => when'[z] = EXP_Grace(z)'
      BY <1>t, <3>1, <3>3 DEF EXP_Grace, EXP_Ttl
    <3> QED
      BY <1>0, <3>1, <3>4, <3>5, <3>6, WhenOne
  <2>3. CASE HitDeliver(s) \/ HitDrop(s) \/ Deliver(s)
    BY <1>0, <1>t, <2>3, WhenFrame DEF HitDeliver, HitDrop, Deliver, EndRequest, GiveUpObj
  <2> QED
    BY <1>4, <2>1, <2>2, <2>3 DEF Hit
<1>5. ASSUME NEW s \in Sess, Miss(s) PROVE WhenCoherent'
  <2>1. CASE HSH_Unbusy(s)
    <3>1. OthersMove(s) /\ pc[s] \in {"unbusy", "drop"}
          /\ (pc[s] = "drop" => GiveUpObj(s)) /\ (pc[s] # "drop" => UNCHANGED <<sobj, victim, treq>>)
      BY <2>1, UnbusyFacts
    <3>2. UNCHANGED <<heap, when, entered, ttl, rearm>>
      BY <2>1 DEF HSH_Unbusy
    <3>3. \A x \in Sess : pc[x] = "hitrearm" => pc'[x] = "hitrearm" /\ sobj'[x] = sobj[x]
      BY <1>t, <3>1 DEF OthersMove, GiveUpObj
    <3> QED
      BY <1>0, <3>2, <3>3, WhenFrame
  <2>2. CASE Fetch(s) \/ AbandonFetch(s) \/ EXP_NukeOne(s) \/ NewObjectFails(s)
    BY <1>0, <1>t, <2>2, WhenFrame
       DEF Fetch, AbandonFetch, EXP_NukeOne, OffHeapAndLru, NewObjectFails, EndRequest, GiveUpObj
  <2>3. ASSUME NEW e, NEW t, UNCHANGED <<when, heap, rearm, sobj>>,
               pc[s] \in {"fetch", "err", "body", "errobj"},
               \A x \in Sess : x # s => pc'[x] = pc[x],
               entered' = entered \/ entered' = [entered EXCEPT ![sobj[s]] = e],
               ttl' = [ttl EXCEPT ![sobj[s]] = t]
        PROVE  WhenCoherent'
    <3>1. PICK z \in Obj : z = sobj[s] /\ z \notin heap
      BY <1>a, <1>t, <2>3 DEF FillingOK, FillPC, HasObj, WithObjPC
    <3>2. \A x \in heap : x # z => KeyKept(x)
      BY <1>t, <2>3, <3>1 DEF KeyKept
    <3>3. \A r \in Sess, x \in heap : Rearming(r, x) => Rearming(r, x)'
      BY <1>t, <2>3 DEF Rearming
    <3> QED
      BY <1>0, <2>3, <3>1, <3>2, <3>3, WhenOne
  <2>4. CASE NewObject(s)
    BY <1>t, <2>3, <2>4 DEF NewObject, STV_MkObject
  <2>5. CASE ErrorObject(s)
    BY <1>t, <2>3, <2>5 DEF ErrorObject, STV_MkObject
  <2>6. CASE HSH_Drop(s)
    BY <1>t, <2>3, <2>6 DEF HSH_Drop
  <2>7. CASE OutOfObjects(s) \/ ErrorDeliver(s) \/ StreamFails(s) \/ FetchedRef(s)
    BY <1>0, <1>t, <2>7, WhenFrame
       DEF OutOfObjects, ErrorDeliver, StreamFails, FetchedRef, EndRequest, GiveUpObj
  <2>8. CASE EXP_Insert(s)
    <3>1. /\ UNCHANGED <<entered, ttl, rearm, sobj>> /\ pc' = [pc EXCEPT ![s] = "unbusy"]
          /\ pc[s] = "expref"
      BY <2>8 DEF EXP_Insert
    <3>2. PICK z \in Obj : z = sobj[s]
      BY <1>a, <1>t, <3>1 DEF HasObj, WithObjPC
    <3>3. when' = [when EXCEPT ![z] = EXP_Grace(z)] /\ heap' = heap \cup {z}
      BY <2>8, <3>2 DEF EXP_Insert
    <3>4. \A x \in heap' : x # z => x \in heap /\ KeyKept(x)
      BY <1>t, <3>1, <3>3 DEF KeyKept
    <3>5. \A r \in Sess, x \in heap : x # z /\ Rearming(r, x) => Rearming(r, x)'
      BY <1>t, <3>1 DEF Rearming
    <3>6. when'[z] = EXP_Grace(z)'
      BY <1>t, <3>1, <3>3 DEF EXP_Grace, EXP_Ttl
    <3> QED
      BY <1>0, <3>4, <3>5, <3>6, WhenOne
  <2> QED
    BY <1>5, <2>1, <2>2, <2>4, <2>5, <2>6, <2>7, <2>8 DEF Miss
<1>6. ASSUME NEW s \in Sess, Purge(s) PROVE WhenCoherent'
  <2>1. CASE PurgeCollect(s)
    BY <1>0, <1>t, <2>1, WhenFrame DEF PurgeCollect
  <2>2. CASE PurgeMark(s)
    <3>1. PICK z \in purge[s] : /\ ttl' = [ttl EXCEPT ![z] = -1]
                                /\ rearm' = [rearm EXCEPT ![s] = z]
      BY <2>2 DEF PurgeMark
    <3>2. UNCHANGED <<when, heap, entered, pc, sobj>> /\ rearm[s] = None
      BY <2>2 DEF PurgeMark
    <3>3. \A x \in heap : x # z => KeyKept(x)
      BY <1>t, <3>1, <3>2 DEF KeyKept
    <3>4. \A r \in Sess, x \in heap : Rearming(r, x) => Rearming(r, x)'
      BY <1>t, <3>1, <3>2 DEF Rearming
    <3>5. Rearming(s, z)'
      BY <1>t, <3>1 DEF Rearming
    <3> QED
      BY <1>0, <3>2, <3>3, <3>4, <3>5, WhenOne
  <2>3. CASE PurgeRearm(s)
    <3>1. PICK z \in Obj : z = rearm[s]
      BY <1>t, <2>3 DEF PurgeRearm
    <3>2. /\ UNCHANGED <<heap, entered, ttl, pc, sobj>> /\ rearm' = [rearm EXCEPT ![s] = None]
          /\ when' = IF z \in heap THEN [when EXCEPT ![z] = EXP_Grace(z)] ELSE when
      BY <2>3, <3>1 DEF PurgeRearm, EXP_Rearm
    <3>3. \A x \in heap : x # z => KeyKept(x)
      BY <1>t, <3>2 DEF KeyKept
    <3>4. \A r \in Sess, x \in heap : x # z /\ Rearming(r, x) => Rearming(r, x)'
      BY <1>t, <3>1, <3>2 DEF Rearming
    <3>5. z \in heap => when'[z] = EXP_Grace(z)'
      BY <1>t, <3>1, <3>2 DEF EXP_Grace, EXP_Ttl
    <3> QED
      BY <1>0, <3>2, <3>3, <3>4, <3>5, WhenOne
  <2> QED
    BY <1>6, <2>1, <2>2, <2>3 DEF Purge
<1>7. ASSUME NEW a \in Actor, Release(a) PROVE WhenCoherent'
  <2>1. CASE HSH_Deref(a)
    <3>1. OthersMove(None) /\ None \notin Sess
      BY <2>1, DerefFacts, ActorFinite
    <3>2. UNCHANGED <<sobj, heap, when, entered, ttl, rearm>>
      BY <2>1 DEF HSH_Deref
    <3> QED
      BY <1>0, <3>1, <3>2, WhenFrame DEF OthersMove
  <2>2. CASE Destroy(a)
    <3>1. PICK z \in Obj : z = dying[a] /\ ocref[z] = 0
      BY <1>0, <1>a, <2>2 DEF Destroy, DyingOK, TypeOK
    <3>2. z \notin heap
      BY <1>0, <1>a, <3>1, Held
    <3>3. UNCHANGED <<heap, pc, sobj, rearm>>
      BY <2>2 DEF Destroy
    <3>4. \A x \in heap : x # z => KeyKept(x)
      BY <1>t, <2>2, <3>1 DEF KeyKept, Destroy
    <3>5. \A r \in Sess, x \in heap : Rearming(r, x) => Rearming(r, x)'
      BY <3>3 DEF Rearming
    <3> QED
      BY <1>0, <3>2, <3>3, <3>4, <3>5, WhenOne
  <2> QED
    BY <1>7, <2>1, <2>2 DEF Release
<1> QED
  BY <1>1, <1>2, <1>3, <1>4, <1>5, <1>6, <1>7 DEF Next, Worker, Actor

----------------------------------------------------------------------------
(* References.                                                             *)

\* A step that moves no reference.
LEMMA RefFrame ==
    ASSUME ObjcoreRefcnt, UNCHANGED <<ocref, sobj, purge, rearm, victim, heap>>,
           \A x \in Sess : pc'[x] = "expref" <=> pc[x] = "expref"
    PROVE  ObjcoreRefcnt'
<1> SUFFICES ASSUME NEW o \in Obj
             PROVE  /\ Users(o)' = Users(o) /\ Purgers(o)' = Purgers(o)
                    /\ Derefers(o)' = Derefers(o) /\ Inserters(o)' = Inserters(o)
  BY DEF ObjcoreRefcnt
<1> QED
  BY DEF Users, Purgers, Derefers, Inserters

\* What actor a contributes to the count of o, with the heap's share.
One(p) == IF p THEN 1 ELSE 0
Own(a, o) == One(a \in Users(o)) + One(a \in Purgers(o)) + One(a \in Derefers(o))
                + One(a \in Inserters(o)) + One(o \in heap)

\* A step of actor a that leaves the others' references to o alone and counts its own.
Balanced(a, o) ==
    /\ \A x \in Actor : x # a => /\ x \in Users(o)' <=> x \in Users(o)
                                 /\ x \in Purgers(o)' <=> x \in Purgers(o)
                                 /\ x \in Derefers(o)' <=> x \in Derefers(o)
                                 /\ x \in Inserters(o)' <=> x \in Inserters(o)
    /\ ocref'[o] - ocref[o] = Own(a, o)' - Own(a, o)

\* If each objcore is balanced so, its count stays right.
LEMMA RefBalance ==
    ASSUME TypeOK, TypeOK', ObjcoreRefcnt, NEW a \in Actor, \A o \in Obj : Balanced(a, o)
    PROVE  ObjcoreRefcnt'
<1> SUFFICES ASSUME NEW o \in Obj
             PROVE  ocref'[o] = Cardinality(Users(o)') + Cardinality(Purgers(o)')
                                + Cardinality(Derefers(o)') + Cardinality(Inserters(o)')
                                + (IF o \in heap' THEN 1 ELSE 0)
  BY DEF ObjcoreRefcnt
<1>0. Balanced(a, o) /\ ocref[o] \in Int /\ ocref'[o] \in Int
  BY DEF TypeOK
<1>1. /\ Users(o) \subseteq Actor /\ Users(o)' \subseteq Actor
      /\ Purgers(o) \subseteq Actor /\ Purgers(o)' \subseteq Actor
      /\ Derefers(o) \subseteq Actor /\ Derefers(o)' \subseteq Actor
      /\ Inserters(o) \subseteq Actor /\ Inserters(o)' \subseteq Actor
      /\ IsFiniteSet(Actor)
  BY ActorFinite DEF Users, Purgers, Derefers, Inserters
<1>2. ASSUME NEW A \in SUBSET Actor, NEW B \in SUBSET Actor,
             \A x \in Actor : x # a => (x \in A <=> x \in B)
      PROVE  /\ Cardinality(A) \in Nat /\ Cardinality(B) \in Nat
             /\ Cardinality(B) = Cardinality(A) + One(a \in B) - One(a \in A)
  BY <1>1, <1>2, CardChange DEF One
<1>3. PICK u \in Nat, v \in Nat : /\ u = Cardinality(Users(o)) /\ v = Cardinality(Users(o)')
                                  /\ v = u + One(a \in Users(o)') - One(a \in Users(o))
  BY <1>0, <1>1, <1>2 DEF Balanced
<1>4. PICK p \in Nat, q \in Nat : /\ p = Cardinality(Purgers(o)) /\ q = Cardinality(Purgers(o)')
                                  /\ q = p + One(a \in Purgers(o)') - One(a \in Purgers(o))
  BY <1>0, <1>1, <1>2 DEF Balanced
<1>5. PICK d \in Nat, e \in Nat : /\ d = Cardinality(Derefers(o)) /\ e = Cardinality(Derefers(o)')
                                  /\ e = d + One(a \in Derefers(o)') - One(a \in Derefers(o))
  BY <1>0, <1>1, <1>2 DEF Balanced
<1>6. PICK i \in Nat, j \in Nat : /\ i = Cardinality(Inserters(o)) /\ j = Cardinality(Inserters(o)')
                                  /\ j = i + One(a \in Inserters(o)') - One(a \in Inserters(o))
  BY <1>0, <1>1, <1>2 DEF Balanced
<1>7. ocref[o] = u + p + d + i + One(o \in heap)
  BY <1>3, <1>4, <1>5, <1>6 DEF ObjcoreRefcnt, One
<1>8. ocref'[o] - ocref[o] = Own(a, o)' - Own(a, o)
  BY <1>0 DEF Balanced
<1>9. ASSUME NEW b PROVE One(b) \in 0 .. 1
  BY DEF One
<1>10. ocref'[o] = v + q + e + j + One(o \in heap')
  <2>1. PICK u1 \in 0 .. 1, u2 \in 0 .. 1, p1 \in 0 .. 1, p2 \in 0 .. 1, d1 \in 0 .. 1, d2 \in 0 .. 1,
             i1 \in 0 .. 1, i2 \in 0 .. 1, h1 \in 0 .. 1, h2 \in 0 .. 1 :
           /\ u1 = One(a \in Users(o)) /\ u2 = One(a \in Users(o)')
           /\ p1 = One(a \in Purgers(o)) /\ p2 = One(a \in Purgers(o)')
           /\ d1 = One(a \in Derefers(o)) /\ d2 = One(a \in Derefers(o)')
           /\ i1 = One(a \in Inserters(o)) /\ i2 = One(a \in Inserters(o)')
           /\ h1 = One(o \in heap) /\ h2 = One(o \in heap')
    BY <1>9
  <2>2. ocref'[o] - ocref[o] = (u2 + p2 + d2 + i2 + h2) - (u1 + p1 + d1 + i1 + h1)
    BY <1>8, <2>1 DEF Own
  <2>3. v = u + u2 - u1 /\ q = p + p2 - p1 /\ e = d + d2 - d1 /\ j = i + i2 - i1
        /\ ocref[o] = u + p + d + i + h1
    BY <1>3, <1>4, <1>5, <1>6, <1>7, <2>1
  <2>4. PICK r \in Int, t \in Int : r = ocref[o] /\ t = ocref'[o]
    BY <1>0
  <2>5. /\ t - r = (u2 + p2 + d2 + i2 + h2) - (u1 + p1 + d1 + i1 + h1)
        /\ r = u + p + d + i + h1
    BY <2>2, <2>3, <2>4
  <2>6. v + q + e + j + h2 = r + (u2 + p2 + d2 + i2 + h2) - (u1 + p1 + d1 + i1 + h1)
    <3>1. v + q + e + j = (u + p + d + i) + (u2 + p2 + d2 + i2) - (u1 + p1 + d1 + i1)
      BY <2>3
    <3>2. v + q + e + j \in Int /\ u + p + d + i \in Int /\ u2 + p2 + d2 + i2 \in Int
          /\ u1 + p1 + d1 + i1 \in Int
      OBVIOUS
    <3> QED
      BY <2>5, <3>1, <3>2
  <2>7. t = v + q + e + j + h2
    BY <2>5, <2>6
  <2> QED
    BY <2>1, <2>4, <2>7
<1> QED
  BY <1>3, <1>4, <1>5, <1>6, <1>10 DEF One

\* A session or the timer moves one reference, and the count with it.
LEMMA RefMove ==
    ASSUME TypeOK, TypeOK', ObjcoreRefcnt, NEW a \in Actor,
           \A x \in Sess : x # a =>
              /\ sobj'[x] = sobj[x] /\ purge'[x] = purge[x] /\ rearm'[x] = rearm[x]
              /\ pc'[x] = "expref" <=> pc[x] = "expref",
           \A x \in Actor : x # a => victim'[x] = victim[x],
           \A o \in Obj : ocref'[o] - ocref[o] = Own(a, o)' - Own(a, o)
    PROVE  ObjcoreRefcnt'
<1>1. ASSUME NEW o \in Obj PROVE Balanced(a, o)
  <2>1. ASSUME NEW x \in Actor, x # a
        PROVE  /\ x \in Users(o)' <=> x \in Users(o)
               /\ x \in Purgers(o)' <=> x \in Purgers(o)
               /\ x \in Derefers(o)' <=> x \in Derefers(o)
               /\ x \in Inserters(o)' <=> x \in Inserters(o)
    BY <2>1 DEF Users, Purgers, Derefers, Inserters
  <2> QED
    BY <2>1 DEF Balanced
<1> QED
  BY <1>1, RefBalance

\* A session's own contribution, in terms of what it has in hand.
Share(s, o) == One(sobj[s] = o) + One(o \in purge[s] \/ rearm[s] = o) + One(victim[s] = o)
                  + One(pc[s] = "expref" /\ sobj[s] = o) + One(o \in heap)

\* It is the contribution that the sets of referrers give.
LEMMA OwnSess ==
    ASSUME NEW s \in Sess, NEW o
    PROVE  Own(s, o) = Share(s, o) /\ Own(s, o)' = Share(s, o)'
<1>1. /\ s \in Users(o) <=> sobj[s] = o
      /\ s \in Purgers(o) <=> o \in purge[s] \/ rearm[s] = o
      /\ s \in Derefers(o) <=> victim[s] = o
      /\ s \in Inserters(o) <=> pc[s] = "expref" /\ sobj[s] = o
  BY DEF Users, Purgers, Derefers, Inserters, Actor
<1>2. /\ s \in Users(o)' <=> sobj'[s] = o
      /\ s \in Purgers(o)' <=> o \in purge'[s] \/ rearm'[s] = o
      /\ s \in Derefers(o)' <=> victim'[s] = o
      /\ s \in Inserters(o)' <=> pc'[s] = "expref" /\ sobj'[s] = o
  BY DEF Users, Purgers, Derefers, Inserters, Actor
<1> QED
  BY <1>1, <1>2 DEF Own, Share, One

\* A step of session s in which nobody else's references change.
Alone(s) ==
    /\ \A x \in Sess : x # s =>
          /\ sobj'[x] = sobj[x] /\ purge'[x] = purge[x] /\ rearm'[x] = rearm[x]
          /\ pc'[x] = "expref" <=> pc[x] = "expref"
    /\ \A x \in Actor : x # s => victim'[x] = victim[x]

\* A step of one session that changes the counts as it changes its share.
LEMMA RefSess ==
    ASSUME TypeOK, TypeOK', ObjcoreRefcnt, NEW s \in Sess, Alone(s),
           \A o \in Obj : ocref'[o] - ocref[o] = Share(s, o)' - Share(s, o)
    PROVE  ObjcoreRefcnt'
<1>1. s \in Actor
  BY ActorFinite
<1>2. \A o \in Obj : ocref'[o] - ocref[o] = Own(s, o)' - Own(s, o)
  BY OwnSess
<1> QED
  BY <1>1, <1>2, RefMove DEF Alone

\* A session begins to give up the reference it has.
LEMMA RefGiveUp ==
    ASSUME TypeOK, TypeOK', ObjcoreRefcnt, NEW s \in Sess, GiveUpObj(s), victim[s] = None,
           pc[s] # "expref", pc'[s] # "expref", UNCHANGED <<ocref, heap, purge, rearm>>,
           \A x \in Sess : x # s => (pc'[x] = "expref" <=> pc[x] = "expref")
    PROVE  ObjcoreRefcnt'
<1>1. /\ sobj'[s] = None /\ victim'[s] = sobj[s]
      /\ \A x \in Sess : x # s => sobj'[x] = sobj[x]
      /\ \A x \in Actor : x # s => victim'[x] = victim[x]
  BY ActorFinite DEF GiveUpObj, TypeOK
<1>2. Alone(s)
  BY <1>1 DEF Alone
<1>3. ASSUME NEW o \in Obj PROVE ocref'[o] - ocref[o] = Share(s, o)' - Share(s, o)
  <2>1. ocref'[o] = ocref[o] /\ ocref[o] \in Int /\ o # None
    BY ActorFinite DEF TypeOK
  <2>2. Share(s, o)' = Share(s, o) /\ Share(s, o) \in Int
    BY <1>1, <2>1 DEF Share, One
  <2> QED
    BY <2>1, <2>2
<1> QED
  BY <1>2, <1>3, RefSess

\* A session takes or moves a reference to o; what it has of others stays.
LEMMA RefOne ==
    ASSUME TypeOK, TypeOK', ObjcoreRefcnt, NEW s \in Sess, Alone(s), NEW z \in Obj,
           \A o \in Obj : o # z => ocref'[o] = ocref[o] /\ Share(s, o)' = Share(s, o),
           ocref'[z] - ocref[z] = Share(s, z)' - Share(s, z)
    PROVE  ObjcoreRefcnt'
<1>1. ASSUME NEW o \in Obj PROVE ocref'[o] - ocref[o] = Share(s, o)' - Share(s, o)
  <2>1. CASE o = z
    BY <2>1
  <2>2. CASE o # z
    <3>1. ocref[o] \in Int /\ Share(s, o) \in Int
      BY DEF TypeOK, Share, One
    <3> QED
      BY <2>2, <3>1
  <2> QED
    BY <2>1, <2>2
<1> QED
  BY <1>1, RefSess

\* The lookups: a hit takes a reference, a miss begins with one.
LEMMA RefLookup ==
    ASSUME CacheInv, TypeOK', NEW s \in Sess, LookupHit(s) \/ LookupMiss(s)
    PROVE  ObjcoreRefcnt'
<1>0. TypeOK /\ ObjcoreRefcnt /\ DyingOK /\ PlacesOK /\ None \notin Obj
  BY ActorFinite DEF CacheInv
<1>1. pc[s] = "scan" /\ sobj[s] = None /\ s \in Sess
  BY <1>0 DEF LookupHit, LookupMiss, AtStep, PlacesOK
<1>2. PICK z \in Obj : /\ sobj' = [sobj EXCEPT ![s] = z]
                       /\ ocref' = [ocref EXCEPT ![z] = ocref[z] + 1]
  <2>1. CASE LookupHit(s)
    BY <2>1 DEF LookupHit, HSH_Ref
  <2>2. CASE LookupMiss(s)
    <3>1. PICK z \in FreeObj : sobj' = [sobj EXCEPT ![s] = z] /\ ocref' = [ocref EXCEPT ![z] = 1]
      BY <2>2 DEF LookupMiss
    <3>2. z \in Obj /\ ocref[z] = 0
      BY <1>0, <3>1 DEF FreeObj, DyingOK
    <3>3. ocref[z] + 1 = 1
      BY <3>2
    <3>4. /\ sobj' = [sobj EXCEPT ![s] = z]
          /\ ocref' = [ocref EXCEPT ![z] = ocref[z] + 1]
      BY <3>1, <3>3
    <3> QED
      BY <3>2, <3>4
  <2> QED
    BY <2>1, <2>2
<1>3. /\ UNCHANGED <<purge, rearm, victim, heap>> /\ pc'[s] # "expref"
      /\ \A x \in Sess : x # s => pc'[x] = pc[x]
  BY <1>0, SMTT(30) DEF LookupHit, LookupMiss, Goto, evars, cvars, TypeOK
<1>4. Alone(s)
  BY <1>0, <1>2, <1>3 DEF Alone, TypeOK
<1>5. sobj'[s] = z /\ ocref[z] \in Int /\ ocref'[z] = ocref[z] + 1
      /\ \A o \in Obj : o # z => ocref'[o] = ocref[o]
  BY <1>0, <1>2 DEF TypeOK
<1>6. \A o \in Obj : o # z => Share(s, o)' = Share(s, o)
  BY <1>0, <1>1, <1>3, <1>5 DEF Share, One
<1>7. Share(s, z)' - Share(s, z) = 1
  BY <1>0, <1>1, <1>3, <1>5 DEF Share, One
<1>8. ocref'[z] - ocref[z] = 1
  BY <1>5
<1> QED
  BY <1>0, <1>4, <1>5, <1>6, <1>7, <1>8, RefOne

\* EXP_Insert takes a reference for the heap, then hands it over.
LEMMA RefInsert ==
    ASSUME CacheInv, TypeOK', NEW s \in Sess, FetchedRef(s) \/ EXP_Insert(s)
    PROVE  ObjcoreRefcnt'
<1>0. TypeOK /\ ObjcoreRefcnt /\ HasObj /\ FillingOK /\ None \notin Obj
  BY ActorFinite DEF CacheInv
<1>1. pc[s] \in {"body", "expref"} /\ (FetchedRef(s) <=> pc[s] = "body")
  BY DEF FetchedRef, EXP_Insert, AtStep
<1>2. PICK z \in Obj : z = sobj[s] /\ z \notin heap
  BY <1>0, <1>1 DEF HasObj, WithObjPC, TypeOK, FillingOK, FillPC
<1>3. /\ UNCHANGED <<purge, rearm, victim, sobj>>
      /\ \A x \in Sess : x # s => pc'[x] = pc[x]
  BY <1>0 DEF FetchedRef, EXP_Insert, Goto, cvars, TypeOK
<1>4. Alone(s)
  BY <1>3 DEF Alone
<1>5. CASE FetchedRef(s)
  <2>1. pc'[s] = "expref" /\ heap' = heap /\ ocref[z] \in Int /\ ocref'[z] = ocref[z] + 1
        /\ \A o \in Obj : o # z => ocref'[o] = ocref[o]
    BY <1>0, <1>2, <1>5 DEF FetchedRef, HSH_Ref, TypeOK, Goto, evars
  <2>2. \A o \in Obj : o # z => Share(s, o)' = Share(s, o)
    BY <1>2, <1>3, <2>1 DEF Share, One
  <2>3. Share(s, z)' - Share(s, z) = 1
    BY <1>1, <1>2, <1>3, <1>5, <2>1 DEF Share, One
  <2>4. ocref'[z] - ocref[z] = 1
    BY <2>1
  <2> QED
    BY <1>0, <1>4, <2>1, <2>2, <2>3, <2>4, RefOne
<1>6. CASE EXP_Insert(s)
  <2>1. pc'[s] # "expref" /\ heap' = heap \cup {z} /\ ocref' = ocref /\ ocref[z] \in Int
        /\ pc[s] = "expref"
    BY <1>0, <1>2, <1>6 DEF EXP_Insert, TypeOK, Goto, ovars, AtStep
  <2>2. \A o \in Obj : o # z => Share(s, o)' = Share(s, o)
    BY <1>2, <1>3, <2>1 DEF Share, One
  <2>3. Share(s, z)' - Share(s, z) = 0
    BY <1>2, <1>3, <2>1 DEF Share, One
  <2>4. ocref'[z] - ocref[z] = 0
    BY <2>1
  <2> QED
    BY <1>0, <1>4, <2>1, <2>2, <2>3, <2>4, RefOne
<1> QED
  BY <1>5, <1>6

\* EXP_NukeOne and the timer take over the reference of the heap.
LEMMA RefOffHeap ==
    ASSUME CacheInv, TypeOK', NEW a \in Actor, NEW z \in heap, heap' = heap \ {z},
           victim[a] = None, victim' = [victim EXCEPT ![a] = z],
           UNCHANGED <<ocref, sobj, purge, rearm, pc>>
    PROVE  ObjcoreRefcnt'
<1>0. TypeOK /\ ObjcoreRefcnt /\ None \notin Obj /\ z \in Obj
  BY ActorFinite DEF CacheInv, TypeOK
<1>1. victim'[a] = z /\ \A x \in Actor : x # a => victim'[x] = victim[x]
  BY <1>0 DEF TypeOK
<1>2. ASSUME NEW o \in Obj PROVE ocref'[o] - ocref[o] = Own(a, o)' - Own(a, o)
  <2>1. /\ a \in Users(o)' <=> a \in Users(o)
        /\ a \in Purgers(o)' <=> a \in Purgers(o)
        /\ a \in Inserters(o)' <=> a \in Inserters(o)
    BY DEF Users, Purgers, Inserters
  <2>2. /\ a \in Derefers(o)' <=> o = z
        /\ a \in Derefers(o) <=> FALSE
        /\ o \in heap' <=> o \in heap /\ o # z
    BY <1>0, <1>1 DEF Derefers
  <2>3. Own(a, o)' = Own(a, o) /\ Own(a, o) \in Int
    BY <2>1, <2>2 DEF Own, One
  <2>4. ocref'[o] = ocref[o] /\ ocref[o] \in Int
    BY <1>0 DEF TypeOK
  <2> QED
    BY <2>3, <2>4
<1> QED
  BY <1>0, <1>1, <1>2, RefMove

\* HSH_Deref drops the reference it was called for.
LEMMA RefDeref ==
    ASSUME CacheInv, TypeOK', NEW a \in Actor, HSH_Deref(a)
    PROVE  ObjcoreRefcnt'
<1>0. TypeOK /\ ObjcoreRefcnt /\ None \notin Obj
  BY ActorFinite DEF CacheInv
<1>1. PICK z \in Obj : z = victim[a]
  BY DerefFacts
<1>2. OthersMove(None) /\ None \notin Sess
  BY DerefFacts, ActorFinite
<1>3. \A x \in Sess : pc'[x] = "expref" <=> pc[x] = "expref"
  BY <1>2 DEF OthersMove
<1>4. /\ UNCHANGED <<sobj, purge, rearm, heap>> /\ ocref' = [ocref EXCEPT ![z] = @ - 1]
      /\ victim' = [victim EXCEPT ![a] = None]
  BY <1>1 DEF HSH_Deref, evars
<1>5. victim'[a] = None /\ \A x \in Actor : x # a => victim'[x] = victim[x]
  BY <1>0, <1>4 DEF TypeOK
<1>6. ASSUME NEW o \in Obj PROVE ocref'[o] - ocref[o] = Own(a, o)' - Own(a, o)
  <2>1. /\ a \in Users(o)' <=> a \in Users(o)
        /\ a \in Purgers(o)' <=> a \in Purgers(o)
        /\ a \in Inserters(o)' <=> a \in Inserters(o)
    BY <1>3, <1>4 DEF Users, Purgers, Inserters
  <2>2. /\ a \in Derefers(o)' <=> FALSE
        /\ a \in Derefers(o) <=> o = z
        /\ o \in heap' <=> o \in heap
    BY <1>0, <1>1, <1>4, <1>5 DEF Derefers
  <2>3. Own(a, o)' - Own(a, o) = IF o = z THEN -1 ELSE 0
    BY <2>1, <2>2 DEF Own, One
  <2>4. ocref'[o] = (IF o = z THEN ocref[o] - 1 ELSE ocref[o]) /\ ocref[o] \in Int
    BY <1>0, <1>4 DEF TypeOK
  <2>5. ocref'[o] - ocref[o] = IF o = z THEN -1 ELSE 0
    BY <2>4
  <2> QED
    BY <2>3, <2>5
<1> QED
  BY <1>0, <1>3, <1>4, <1>5, <1>6, RefMove

\* HSH_Purge: a reference on everything it will discard, handed from step to step.
LEMMA RefPurge ==
    ASSUME CacheInv, TypeOK', NEW s \in Sess, Purge(s)
    PROVE  ObjcoreRefcnt'
<1>0. TypeOK /\ ObjcoreRefcnt /\ CallsOK /\ None \notin Obj
  BY ActorFinite DEF CacheInv
<1>1. CASE PurgeCollect(s)
  <2> DEFINE c == Purgeable(head[sobj[s]])
  <2>1. /\ purge' = [purge EXCEPT ![s] = c] /\ purge[s] = {} /\ rearm[s] = None
        /\ ocref' = [o \in Obj |-> IF o \in c THEN ocref[o] + 1 ELSE ocref[o]]
        /\ UNCHANGED <<rearm, victim, sobj, heap>> /\ pc[s] # "expref" /\ pc'[s] # "expref"
        /\ \A x \in Sess : x # s => pc'[x] = pc[x]
    BY <1>0, <1>1 DEF PurgeCollect, AtStep, Goto, evars, TypeOK
  <2> HIDE DEF c
  <2>2. purge'[s] = c /\ \A x \in Sess : x # s => purge'[x] = purge[x]
    BY <1>0, <2>1 DEF TypeOK
  <2>3. Alone(s)
    BY <2>1, <2>2 DEF Alone
  <2>4. ASSUME NEW o \in Obj PROVE ocref'[o] - ocref[o] = Share(s, o)' - Share(s, o)
    <3>1. Share(s, o)' - Share(s, o) = One(o \in c)
      BY <1>0, <2>1, <2>2 DEF Share, One
    <3>2. ocref'[o] = (IF o \in c THEN ocref[o] + 1 ELSE ocref[o]) /\ ocref[o] \in Int
      BY <1>0, <2>1 DEF TypeOK
    <3>3. ocref'[o] - ocref[o] = One(o \in c)
      BY <3>2 DEF One
    <3> QED
      BY <3>1, <3>3
  <2> QED
    BY <1>0, <2>3, <2>4, RefSess
<1>2. CASE PurgeMark(s)
  <2>1. PICK z \in purge[s] : /\ rearm' = [rearm EXCEPT ![s] = z]
                              /\ purge' = [purge EXCEPT ![s] = @ \ {z}]
    BY <1>2 DEF PurgeMark
  <2>2. UNCHANGED <<ocref, sobj, victim, heap, pc>> /\ rearm[s] = None
    BY <1>2 DEF PurgeMark, evars, svars
  <2>3. /\ rearm'[s] = z /\ purge'[s] = purge[s] \ {z}
        /\ \A x \in Sess : x # s => rearm'[x] = rearm[x] /\ purge'[x] = purge[x]
    BY <1>0, <2>1 DEF TypeOK
  <2>4. Alone(s)
    BY <2>2, <2>3 DEF Alone
  <2>5. ASSUME NEW o \in Obj PROVE ocref'[o] - ocref[o] = Share(s, o)' - Share(s, o)
    <3>1. o \in purge'[s] \/ rearm'[s] = o <=> o \in purge[s] \/ rearm[s] = o
      BY <1>0, <2>1, <2>2, <2>3
    <3>2. Share(s, o)' = Share(s, o) /\ Share(s, o) \in Int
      BY <2>2, <3>1 DEF Share, One
    <3>3. ocref'[o] = ocref[o] /\ ocref[o] \in Int
      BY <1>0, <2>2 DEF TypeOK
    <3> QED
      BY <3>2, <3>3
  <2> QED
    BY <1>0, <2>4, <2>5, RefSess
<1>3. CASE PurgeRearm(s)
  <2>1. PICK z \in Obj : z = rearm[s] /\ z \notin purge[s] /\ victim[s] = None
    BY <1>0, <1>3 DEF PurgeRearm, TypeOK, CallsOK
  <2>2. /\ victim' = [victim EXCEPT ![s] = z] /\ rearm' = [rearm EXCEPT ![s] = None]
        /\ UNCHANGED <<ocref, sobj, purge, heap, pc>>
    BY <1>3, <2>1 DEF PurgeRearm, ovars, svars
  <2>3. /\ victim'[s] = z /\ \A x \in Actor : x # s => victim'[x] = victim[x]
        /\ rearm'[s] = None /\ \A x \in Sess : x # s => rearm'[x] = rearm[x]
    BY <1>0, <2>2, ActorFinite DEF TypeOK
  <2>4. Alone(s)
    BY <2>2, <2>3 DEF Alone
  <2>5. ASSUME NEW o \in Obj PROVE ocref'[o] - ocref[o] = Share(s, o)' - Share(s, o)
    <3>2. Share(s, o)' = Share(s, o) /\ Share(s, o) \in Int
      BY <1>0, <2>1, <2>2, <2>3 DEF Share, One
    <3>3. ocref'[o] = ocref[o] /\ ocref[o] \in Int
      BY <1>0, <2>2 DEF TypeOK
    <3> QED
      BY <3>2, <3>3
  <2> QED
    BY <1>0, <2>4, <2>5, RefSess
<1> QED
  BY <1>1, <1>2, <1>3 DEF Purge

\* The references to the objcores after any step.
LEMMA RefStep ==
    ASSUME CacheInv, [Next]_vars
    PROVE  ObjcoreRefcnt'
<1>0. TypeOK /\ TypeOK' /\ ObjcoreRefcnt /\ Timer \notin Sess
  BY TypeStep, ActorAssumption DEF CacheInv
<1>t. pc \in [Sess -> SessPC]
  BY <1>0 DEF TypeOK
<1> USE DEF AtStep, Goto, svars, evars, cvars, ovars
<1>1. CASE UNCHANGED vars \/ Tick
  BY <1>0, <1>1, RefFrame DEF vars, Tick
<1>2. CASE ExpTimer
  <2>1. PICK z \in heap : heap' = heap \ {z} /\ victim' = [victim EXCEPT ![Timer] = z]
    BY <1>2 DEF ExpTimer, OffHeapAndLru
  <2>2. victim[Timer] = None /\ UNCHANGED <<ocref, sobj, purge, rearm, pc>>
    BY <1>2 DEF ExpTimer
  <2> QED
    BY <1>0, <2>1, <2>2, RefOffHeap, ActorFinite
<1>3. ASSUME NEW s \in Sess, StartRequest(s) PROVE ObjcoreRefcnt'
  BY <1>0, <1>t, <1>3, RefFrame DEF StartRequest
<1>4. ASSUME NEW s \in Sess, Lookup(s) PROVE ObjcoreRefcnt'
  <2>1. CASE EsiPoll(s) \/ LookupWait(s) \/ HitDerefHead(s)
    BY <1>0, <1>t, <2>1, RefFrame DEF EsiPoll, LookupWait, HitDerefHead
  <2> QED
    BY <1>0, <1>4, <2>1, RefLookup DEF Lookup
<1>g. ASSUME NEW s \in Sess, NEW p, AtStep(s, p), p # "expref", EndRequest(s), UNCHANGED heap
      PROVE  ObjcoreRefcnt'
  BY <1>0, <1>t, <1>g, RefGiveUp DEF EndRequest
<1>5. ASSUME NEW s \in Sess, Hit(s) PROVE ObjcoreRefcnt'
  <2>1. CASE SetObjTtl(s) \/ HitRearm(s) \/ HitDeliver(s)
    BY <1>0, <1>t, <2>1, RefFrame DEF SetObjTtl, HitRearm, HitDeliver
  <2>2. CASE HitDrop(s)
    BY <1>g, <2>2 DEF HitDrop
  <2>3. CASE Deliver(s)
    BY <1>g, <2>3 DEF Deliver
  <2> QED
    BY <1>5, <2>1, <2>2, <2>3 DEF Hit
<1>6. ASSUME NEW s \in Sess, Miss(s) PROVE ObjcoreRefcnt'
  <2>1. CASE HSH_Unbusy(s)
    <3>1. /\ OthersMove(s) /\ pc[s] \in {"unbusy", "drop"} /\ AtStep(s, pc[s])
          /\ pc'[s] # "expref"
          /\ (pc[s] = "drop" => GiveUpObj(s)) /\ (pc[s] # "drop" => UNCHANGED <<sobj, victim, treq>>)
      <4>1. CacheInv /\ HSH_Unbusy(s)
        BY <2>1
      <4> QED
        BY <4>1, UnbusyFacts
    <3>2. UNCHANGED <<ocref, heap, purge, rearm>>
      BY <2>1 DEF HSH_Unbusy
    <3>3. \A x \in Sess : x # s => (pc'[x] = "expref" <=> pc[x] = "expref")
      BY <3>1 DEF OthersMove
    <3>4. CASE pc[s] = "drop"
      BY <1>0, <3>1, <3>2, <3>3, <3>4, RefGiveUp
    <3>5. CASE pc[s] # "drop"
      BY <1>0, <3>1, <3>2, <3>3, <3>5, RefFrame
    <3> QED
      BY <3>4, <3>5
  <2>2. CASE EXP_NukeOne(s)
    <3>1. PICK z \in NukeChoice : heap' = heap \ {z} /\ victim' = [victim EXCEPT ![s] = z]
      BY <2>2 DEF EXP_NukeOne, OffHeapAndLru
    <3>2. z \in heap
      BY <3>1 DEF NukeChoice, NukeCandidates, CacheInv, LruOK, LruIffHeap, Elems
    <3>3. victim[s] = None /\ UNCHANGED <<ocref, sobj, purge, rearm, pc>>
      BY <2>2 DEF EXP_NukeOne
    <3> QED
      BY <1>0, <3>1, <3>2, <3>3, RefOffHeap, ActorFinite
  <2>3. CASE AbandonFetch(s)
    BY <1>g, <2>3 DEF AbandonFetch
  <2>4. CASE StreamFails(s)
    BY <1>g, <2>4 DEF StreamFails
  <2>5. CASE FetchedRef(s) \/ EXP_Insert(s)
    BY <1>0, <2>5, RefInsert
  <2>6. CASE Fetch(s) \/ NewObject(s) \/ NewObjectFails(s) \/ ErrorObject(s)
    BY <1>0, <1>t, <2>6, RefFrame DEF Fetch, NewObject, NewObjectFails, ErrorObject, STV_MkObject
  <2>7. CASE OutOfObjects(s) \/ ErrorDeliver(s) \/ HSH_Drop(s)
    BY <1>0, <1>t, <2>7, RefFrame DEF OutOfObjects, ErrorDeliver, HSH_Drop
  <2> QED
    BY <1>6, <2>1, <2>2, <2>3, <2>4, <2>5, <2>6, <2>7 DEF Miss
<1>7. ASSUME NEW s \in Sess, Purge(s) PROVE ObjcoreRefcnt'
  BY <1>0, <1>7, RefPurge
<1>8. ASSUME NEW a \in Actor, Release(a) PROVE ObjcoreRefcnt'
  <2>1. CASE Destroy(a)
    BY <1>0, <2>1, RefFrame DEF Destroy
  <2> QED
    BY <1>0, <1>8, <2>1, RefDeref DEF Release
<1> QED
  BY <1>1, <1>2, <1>3, <1>4, <1>5, <1>6, <1>7, <1>8 DEF Next, Worker, Actor

\* A step that changes what an objhead counts in one session and one objcore.
HeadBalanced(s, o, k) ==
    /\ \A x \in Sess : x # s => hoh'[x] = hoh[x]
    /\ \A x \in Obj : x # o => head'[x] = head[x]
    /\ ohref'[k] - ohref[k] = (One(s \in Carriers(k)') + One(o \in Hung(k)'))
                                 - (One(s \in Carriers(k)) + One(o \in Hung(k)))

\* If each objhead is balanced so, its count stays right.
LEMMA HeadBalance ==
    ASSUME TypeOK, TypeOK', ObjheadRefcnt, NEW s, NEW o, \A k \in Key : HeadBalanced(s, o, k)
    PROVE  ObjheadRefcnt'
<1> SUFFICES ASSUME NEW k \in Key
             PROVE  ohref'[k] = Cardinality(Carriers(k)') + Cardinality(Hung(k)')
  BY DEF ObjheadRefcnt
<1>0. HeadBalanced(s, o, k)
  OBVIOUS
<1>1. /\ Carriers(k) \subseteq Sess /\ Carriers(k)' \subseteq Sess
      /\ Hung(k) \subseteq Obj /\ Hung(k)' \subseteq Obj
      /\ IsFiniteSet(Sess) /\ IsFiniteSet(Obj)
  BY ActorFinite DEF Carriers, Hung
<1>2. /\ \A x \in Sess : x # s => (x \in Carriers(k) <=> x \in Carriers(k)')
      /\ \A x \in Obj : x # o => (x \in Hung(k) <=> x \in Hung(k)')
  BY <1>0 DEF HeadBalanced, Carriers, Hung
<1>3. ASSUME NEW S, IsFiniteSet(S), NEW e, NEW A \in SUBSET S, NEW B \in SUBSET S,
             \A x \in S : x # e => (x \in A <=> x \in B)
      PROVE  /\ Cardinality(A) \in Nat /\ Cardinality(B) \in Nat
             /\ Cardinality(B) = Cardinality(A) + One(e \in B) - One(e \in A)
  <2>1. CASE e \in S
    BY <1>3, <2>1, CardChange DEF One
  <2>2. CASE e \notin S
    <3>1. A = B /\ e \notin A /\ e \notin B
      BY <1>3, <2>2
    <3>2. Cardinality(A) \in Nat
      BY <1>3, FS_Subset, FS_CardinalityType
    <3> QED
      BY <3>1, <3>2 DEF One
  <2> QED
    BY <2>1, <2>2
<1>a. /\ Cardinality(Carriers(k)) \in Nat /\ Cardinality(Carriers(k)') \in Nat
      /\ Cardinality(Carriers(k)') = Cardinality(Carriers(k)) + One(s \in Carriers(k)')
                                                              - One(s \in Carriers(k))
  BY <1>1, <1>2, <1>3
<1>b. /\ Cardinality(Hung(k)) \in Nat /\ Cardinality(Hung(k)') \in Nat
      /\ Cardinality(Hung(k)') = Cardinality(Hung(k)) + One(o \in Hung(k)') - One(o \in Hung(k))
  BY <1>1, <1>2, <1>3
<1>4. PICK u \in Nat, v \in Nat :
         /\ u = Cardinality(Carriers(k)) /\ v = Cardinality(Carriers(k)')
         /\ v = u + One(s \in Carriers(k)') - One(s \in Carriers(k))
  BY <1>a
<1>5. PICK p \in Nat, q \in Nat :
         /\ p = Cardinality(Hung(k)) /\ q = Cardinality(Hung(k)')
         /\ q = p + One(o \in Hung(k)') - One(o \in Hung(k))
  BY <1>b
<1>6. ohref[k] = u + p
  BY <1>4, <1>5 DEF ObjheadRefcnt
<1>7. ASSUME NEW b PROVE One(b) \in 0 .. 1
  BY DEF One
<1>8. PICK u1 \in 0 .. 1, u2 \in 0 .. 1, p1 \in 0 .. 1, p2 \in 0 .. 1 :
         /\ u1 = One(s \in Carriers(k)) /\ u2 = One(s \in Carriers(k)')
         /\ p1 = One(o \in Hung(k)) /\ p2 = One(o \in Hung(k)')
  BY <1>7
<1>9. PICK r \in Int, t \in Int : r = ohref[k] /\ t = ohref'[k]
  BY DEF TypeOK
<1>10. t - r = (u2 + p2) - (u1 + p1)
  BY <1>0, <1>8, <1>9 DEF HeadBalanced
<1>11. v = u + u2 - u1 /\ q = p + p2 - p1 /\ r = u + p
  BY <1>4, <1>5, <1>6, <1>8, <1>9
<1>12. t = v + q
  BY <1>10, <1>11
<1> QED
  BY <1>4, <1>5, <1>9, <1>12

\* A step that leaves the objheads' references alone.
LEMMA HeadFrame ==
    ASSUME ObjheadRefcnt, UNCHANGED <<ohref, hoh, head>>
    PROVE  ObjheadRefcnt'
<1>1. \A k \in Key : Carriers(k)' = Carriers(k) /\ Hung(k)' = Hung(k)
  BY DEF Carriers, Hung
<1> QED
  BY <1>1 DEF ObjheadRefcnt

\* The references to the objheads after any step.
LEMMA HeadRefStep ==
    ASSUME CacheInv, [Next]_vars
    PROVE  ObjheadRefcnt'
<1>0. TypeOK /\ TypeOK' /\ ObjheadRefcnt /\ PlacesOK /\ DyingOK
  BY TypeStep DEF CacheInv
<1>n. None \notin Obj /\ None \notin Key /\ None \notin Sess
  BY ActorFinite
<1>t. /\ hoh \in [Sess -> Key \cup {None}] /\ head \in [Obj -> Key \cup {None}]
      /\ ohref \in [Key -> Int]
  BY <1>0 DEF TypeOK
<1> USE DEF hvars, svars, ovars
<1>1. CASE UNCHANGED vars \/ Tick \/ ExpTimer
  BY <1>0, <1>1, HeadFrame DEF vars, Tick, ExpTimer
<1>2. ASSUME NEW s \in Sess, StartRequest(s) PROVE ObjheadRefcnt'
  <2>1. PICK k \in Key : /\ ohref' = [ohref EXCEPT ![k] = @ + 1]
                         /\ hoh' = [hoh EXCEPT ![s] = k]
    BY <1>2 DEF StartRequest
  <2>2. head' = head /\ hoh[s] = None
    BY <1>0, <1>t, <1>2 DEF StartRequest, AtStep, PlacesOK, CarryPC
  <2>3. ASSUME NEW j \in Key PROVE HeadBalanced(s, None, j)
    <3>1. /\ s \in Carriers(j)' <=> j = k
          /\ s \in Carriers(j) <=> FALSE
          /\ None \in Hung(j)' <=> None \in Hung(j)
      BY <1>t, <1>n, <2>1, <2>2 DEF Carriers, Hung
    <3>2. ohref[j] \in Int /\ ohref'[j] = IF j = k THEN ohref[j] + 1 ELSE ohref[j]
      BY <1>t, <2>1
    <3>3. ohref'[j] - ohref[j] = (One(s \in Carriers(j)') + One(None \in Hung(j)'))
                                 - (One(s \in Carriers(j)) + One(None \in Hung(j)))
      BY <3>1, <3>2 DEF One
    <3> QED
      BY <1>t, <2>1, <2>2, <3>3 DEF HeadBalanced
  <2> QED
    BY <1>0, <2>3, HeadBalance
<1>3. ASSUME NEW s \in Sess, Lookup(s) PROVE ObjheadRefcnt'
  <2>1. CASE EsiPoll(s) \/ LookupHit(s) \/ LookupWait(s)
    BY <1>0, <2>1, HeadFrame DEF EsiPoll, LookupHit, LookupWait
  <2>2. CASE LookupMiss(s)
    <3>1. PICK o \in FreeObj : head' = [head EXCEPT ![o] = hoh[s]]
      BY <2>2 DEF LookupMiss
    <3>2. o \in Obj /\ head[o] = None /\ ohref' = ohref /\ hoh' = [hoh EXCEPT ![s] = None]
      BY <2>2, <3>1 DEF LookupMiss, InheritHeadRef, FreeObj
    <3>4. ASSUME NEW j \in Key PROVE HeadBalanced(s, o, j)
      <4>1. /\ s \in Carriers(j)' <=> FALSE
            /\ s \in Carriers(j) <=> hoh[s] = j
            /\ o \in Hung(j)' <=> hoh[s] = j
            /\ o \in Hung(j) <=> FALSE
        BY <1>t, <1>n, <3>1, <3>2 DEF Carriers, Hung
      <4>2. ohref[j] \in Int /\ ohref'[j] = ohref[j]
        BY <1>t, <3>2
      <4>3. ohref'[j] - ohref[j] = (One(s \in Carriers(j)') + One(o \in Hung(j)'))
                                 - (One(s \in Carriers(j)) + One(o \in Hung(j)))
        BY <4>1, <4>2 DEF One
      <4> QED
        BY <1>t, <3>1, <3>2, <4>3 DEF HeadBalanced
    <3> QED
      BY <1>0, <3>4, HeadBalance
  <2>3. CASE HitDerefHead(s)
    <3>1. PICK k \in Key : k = hoh[s]
      BY <1>0, <1>t, <2>3 DEF HitDerefHead, AtStep, PlacesOK, CarryPC
    <3>2. head' = head /\ hoh' = [hoh EXCEPT ![s] = None] /\ ohref' = [ohref EXCEPT ![k] = @ - 1]
      BY <2>3, <3>1 DEF HitDerefHead, hash_deref
    <3>4. ASSUME NEW j \in Key PROVE HeadBalanced(s, None, j)
      <4>1. /\ s \in Carriers(j)' <=> FALSE
            /\ s \in Carriers(j) <=> k = j
            /\ None \in Hung(j)' <=> None \in Hung(j)
        BY <1>t, <1>n, <3>1, <3>2 DEF Carriers, Hung
      <4>2. ohref[j] \in Int /\ ohref'[j] = IF j = k THEN ohref[j] - 1 ELSE ohref[j]
        BY <1>t, <3>2
      <4>3. ohref'[j] - ohref[j] = (One(s \in Carriers(j)') + One(None \in Hung(j)'))
                                 - (One(s \in Carriers(j)) + One(None \in Hung(j)))
        BY <4>1, <4>2 DEF One
      <4> QED
        BY <1>t, <3>1, <3>2, <4>3 DEF HeadBalanced
    <3> QED
      BY <1>0, <3>4, HeadBalance
  <2> QED
    BY <1>3, <2>1, <2>2, <2>3 DEF Lookup
<1>4. ASSUME NEW s \in Sess, Hit(s) PROVE ObjheadRefcnt'
  BY <1>0, <1>4, HeadFrame DEF Hit, SetObjTtl, HitRearm, HitDeliver, HitDrop, Deliver, EndRequest
<1>5. ASSUME NEW s \in Sess, Miss(s) PROVE ObjheadRefcnt'
  <2>1. UNCHANGED <<ohref, hoh, head>>
    BY <1>5 DEF Miss, Fetch, AbandonFetch, NewObject, STV_MkObject, EXP_NukeOne, NewObjectFails,
         ErrorObject, OutOfObjects, ErrorDeliver, HSH_Drop, StreamFails, FetchedRef, EXP_Insert,
         HSH_Unbusy, EndRequest
  <2> QED
    BY <1>0, <2>1, HeadFrame
<1>6. ASSUME NEW s \in Sess, Purge(s) PROVE ObjheadRefcnt'
  BY <1>0, <1>6, HeadFrame DEF Purge, PurgeCollect, PurgeMark, PurgeRearm
<1>7. ASSUME NEW a \in Actor, Release(a) PROVE ObjheadRefcnt'
  <2>1. CASE HSH_Deref(a)
    BY <1>0, <2>1, HeadFrame DEF HSH_Deref
  <2>2. CASE Destroy(a)
    <3>1. PICK o \in Obj : o = dying[a] /\ head[o] # None
      BY <1>0, <2>2 DEF Destroy, TypeOK, DyingOK
    <3>2. PICK k \in Key : k = head[o]
      BY <1>t, <3>1
    <3>3. hoh' = hoh /\ head' = [head EXCEPT ![o] = None] /\ ohref' = [ohref EXCEPT ![k] = @ - 1]
      BY <2>2, <3>1, <3>2 DEF Destroy, hash_deref
    <3>4. ASSUME NEW j \in Key PROVE HeadBalanced(None, o, j)
      <4>1. /\ None \in Carriers(j)' <=> None \in Carriers(j)
            /\ o \in Hung(j)' <=> FALSE
            /\ o \in Hung(j) <=> j = k
        BY <1>t, <1>n, <3>1, <3>2, <3>3 DEF Carriers, Hung
      <4>2. ohref[j] \in Int /\ ohref'[j] = IF j = k THEN ohref[j] - 1 ELSE ohref[j]
        BY <1>t, <3>3
      <4>3. ohref'[j] - ohref[j] = (One(None \in Carriers(j)') + One(o \in Hung(j)'))
                                 - (One(None \in Carriers(j)) + One(o \in Hung(j)))
        BY <4>1, <4>2 DEF One
      <4> QED
        BY <1>t, <3>1, <3>2, <3>3, <4>3 DEF HeadBalanced
    <3> QED
      BY <1>0, <3>4, HeadBalance
  <2> QED
    BY <1>7, <2>1, <2>2 DEF Release
<1> QED
  BY <1>1, <1>2, <1>3, <1>4, <1>5, <1>6, <1>7 DEF Next, Worker, Actor

----------------------------------------------------------------------------
(* The invariant holds, and what follows from it.                          *)

\* At start-up there are neither objheads nor objcores.
LEMMA CacheInit == Init => CacheInv
<1> SUFFICES ASSUME Init PROVE CacheInv
  OBVIOUS
<1>n. None \notin Obj /\ None \notin Key /\ Timer \notin Sess
  BY ActorFinite, ActorAssumption
<1>1. TypeOK /\ HasObj
  BY ParamAssumption, TimeAssumption
     DEF Init, TypeOK, HasObj, WithObjPC, SessPC, KindNames
<1>2. CallsOK /\ PlacesOK
  BY <1>n DEF Init, CallsOK, PlacesOK, QuietPC, CarryPC
<1>3. WaitingOK /\ LinkedOK /\ BusyAtTail /\ LruOK /\ WhenCoherent
  <2>1. waiting = [k \in Key |-> <<>>] /\ objcs = [k \in Key |-> <<>>] /\ lru = <<>> /\ heap = {}
    BY DEF Init
  <2>2. Once(<<>>) /\ Elems(<<>>) = {} /\ DOMAIN <<>> = {} /\ Len(<<>>) = 0
    BY DEF Once, Elems
  <2>3. WaitingOK
    BY <2>1, <2>2 DEF WaitingOK, Init
  <2>4. LinkedOK
    BY <1>n, <2>1, <2>2 DEF LinkedOK, Init
  <2>5. BusyAtTail /\ WhenCoherent
    BY <2>1, <2>2 DEF BusyAtTail, WhenCoherent
  <2>6. LruOK
    BY <2>1, <2>2, FS_EmptySet DEF LruOK, LruIffHeap
  <2> QED
    BY <2>3, <2>4, <2>5, <2>6
<1>4. DyingOK /\ FillingOK
  BY <1>n DEF Init, DyingOK, FillingOK, FillPC, Actor
<1>5. ObjcoreRefcnt
  <2>1. \A o \in Obj : Users(o) = {} /\ Purgers(o) = {} /\ Derefers(o) = {} /\ Inserters(o) = {}
    BY <1>n DEF Init, Users, Purgers, Derefers, Inserters
  <2>2. heap = {} /\ \A o \in Obj : ocref[o] = 0
    BY DEF Init
  <2> QED
    BY <2>1, <2>2, FS_EmptySet DEF ObjcoreRefcnt
<1>6. ObjheadRefcnt
  <2>1. \A k \in Key : Carriers(k) = {} /\ Hung(k) = {} /\ ohref[k] = 0
    BY <1>n DEF Init, Carriers, Hung
  <2> QED
    BY <2>1, FS_EmptySet DEF ObjheadRefcnt
<1> QED
  BY <1>1, <1>2, <1>3, <1>4, <1>5, <1>6 DEF CacheInv

\* Every step keeps the invariant.
LEMMA CacheStep == CacheInv /\ [Next]_vars => CacheInv'
<1> SUFFICES ASSUME CacheInv, [Next]_vars PROVE CacheInv'
  OBVIOUS
<1>1. TypeOK' /\ HasObj'
  BY TypeStep, HasObjStep DEF CacheInv
<1>2. CallsOK' /\ PlacesOK' /\ WaitingOK'
  BY CallsStep, PlacesStep, WaitingStep
<1>3. LinkedOK' /\ BusyAtTail' /\ DyingOK'
  BY ListsStep, DyingStep
<1>4. FillingOK' /\ LruOK' /\ WhenCoherent'
  BY FillingStep, LruStep, WhenStep
<1>5. ObjcoreRefcnt' /\ ObjheadRefcnt'
  BY RefStep, HeadRefStep
<1> QED
  BY <1>1, <1>2, <1>3, <1>4, <1>5 DEF CacheInv

\* The inductive invariant holds in every reachable state.
LEMMA CacheAlways == Spec => []CacheInv
BY CacheInit, CacheStep, PTL DEF Spec

\* Whoever refers to an objhead is counted by it.
LEMMA HeadHeld ==
    ASSUME TypeOK, ObjheadRefcnt, NEW k \in Key
    PROVE  /\ \A s \in Sess : hoh[s] = k => ohref[k] > 0
           /\ \A o \in Obj : head[o] = k => ohref[k] > 0
           /\ \A s \in Sess, o \in Obj : hoh[s] = k /\ head[o] = k => ohref[k] > 1
<1>1. IsFiniteSet(Carriers(k)) /\ IsFiniteSet(Hung(k))
  BY ActorFinite, FS_Subset DEF Carriers, Hung
<1>2. PICK c \in Nat, h \in Nat : c = Cardinality(Carriers(k)) /\ h = Cardinality(Hung(k))
  BY <1>1, FS_CardinalityType
<1>3. ASSUME NEW T, IsFiniteSet(T), NEW e \in T PROVE Cardinality(T) # 0
  BY <1>3, FS_EmptySet
<1>4. \A s \in Sess : hoh[s] = k => c # 0
  BY <1>1, <1>2, <1>3 DEF Carriers
<1>5. \A o \in Obj : head[o] = k => h # 0
  BY <1>1, <1>2, <1>3 DEF Hung
<1>6. ohref[k] = c + h
  BY <1>2 DEF ObjheadRefcnt
<1>7. (c # 0 => ohref[k] > 0) /\ (h # 0 => ohref[k] > 0) /\ (c # 0 /\ h # 0 => ohref[k] > 1)
  BY <1>6
<1> QED
  BY <1>4, <1>5, <1>7

\* What has no references cannot be reached.
LEMMA NoneFreed == CacheInv => NoneFreedInUse
<1> SUFFICES ASSUME CacheInv PROVE NoneFreedInUse
  OBVIOUS
<1>0. TypeOK /\ ObjcoreRefcnt /\ ObjheadRefcnt /\ LinkedOK /\ DyingOK /\ LruOK
      /\ PlacesOK /\ WaitingOK /\ HasObj
  BY DEF CacheInv
<1>n. None \notin Obj
  BY ActorFinite
<1>1. FreedUnreachable
  <2> SUFFICES ASSUME NEW o \in Obj, ocref[o] = 0
               PROVE  /\ \A k \in Key : o \notin Elems(objcs[k])
                      /\ o \notin heap
                      /\ o \notin Elems(lru)
                      /\ \A s \in Sess : sobj[s] # o /\ rearm[s] # o /\ o \notin purge[s]
                      /\ \A a \in Actor : victim[a] # o
                      /\ \A a, b \in Actor : dying[a] = o /\ dying[b] = o => a = b
    BY DEF FreedUnreachable
  <2>1. \A k \in Key : o \notin Elems(objcs[k])
    BY <1>0 DEF LinkedOK
  <2>2. /\ o \notin heap
        /\ \A s \in Sess : sobj[s] # o /\ rearm[s] # o /\ o \notin purge[s]
        /\ \A a \in Actor : victim[a] # o
    BY <1>0, Held
  <2>3. o \notin Elems(lru)
    BY <1>0, <2>2 DEF LruOK, LruIffHeap
  <2>4. \A a, b \in Actor : dying[a] = o /\ dying[b] = o => a = b
    BY <1>0, <1>n DEF DyingOK
  <2> QED
    BY <2>1, <2>2, <2>3, <2>4
<1>2. HeadEmptyWhenFreed
  <2> SUFFICES ASSUME NEW k \in Key, ohref[k] = 0
               PROVE  objcs[k] = <<>> /\ waiting[k] = <<>>
    BY DEF HeadEmptyWhenFreed
  <2>1. /\ \A s \in Sess : hoh[s] # k
        /\ \A o \in Obj : head[o] # k
    BY <1>0, HeadHeld
  <2>2. objcs[k] \in Seq(Obj) /\ waiting[k] \in Seq(Sess)
    BY <1>0 DEF TypeOK
  <2>a. \A o \in Obj : o \notin Elems(objcs[k])
    BY <1>0, <2>1 DEF LinkedOK
  <2>b. \A s \in Sess : s \notin Elems(waiting[k])
    BY <1>0, <2>1 DEF WaitingOK
  <2>c. ASSUME NEW S, NEW q \in Seq(S), NEW x \in Elems(q) PROVE x \in S
    BY DEF Elems
  <2>3. Elems(objcs[k]) = {} /\ Elems(waiting[k]) = {}
    BY <2>2, <2>a, <2>b, <2>c
  <2>4. ASSUME NEW S, NEW q \in Seq(S), Elems(q) = {} PROVE q = <<>>
    <3>1. Len(q) \in Nat /\ DOMAIN q = 1 .. Len(q)
      OBVIOUS
    <3>2. \A i \in DOMAIN q : q[i] \in Elems(q)
      BY DEF Elems
    <3>3. ~(1 \in DOMAIN q)
      BY <2>4, <3>2
    <3>4. Len(q) = 0
      BY <3>1, <3>3
    <3> QED
      BY <3>4
  <2>5. objcs[k] = <<>>
    BY <2>2, <2>3, <2>4
  <2>6. waiting[k] = <<>>
    BY <2>2, <2>3, <2>4
  <2> QED
    BY <2>5, <2>6
<1>3. HitKeepsHead
  <2> SUFFICES ASSUME NEW s \in Sess, pc[s] = "hitref" PROVE ohref[hoh[s]] > 1
    BY DEF HitKeepsHead
  <2>1. hoh[s] \in Key /\ sobj[s] \in Obj /\ head[sobj[s]] = hoh[s]
    BY <1>0 DEF PlacesOK, CarryPC, HasObj, WithObjPC, TypeOK
  <2> QED
    BY <1>0, <2>1, HeadHeld
<1> QED
  BY <1>1, <1>2, <1>3 DEF NoneFreedInUse

\* Whatever the interleaving of lookups, fetches, purges, nukes and the timer,
\* every refcnt of an objcore and of an objhead counts exactly its holders, and
\* an objcore without an object has at most one (HSH_Lookup, HSH_Ref, HSH_Purge,
\* HSH_Deref, EXP_Insert, EXP_NukeOne, exp_timer).
THEOREM RefcountsCorrect == Spec => []Refcounts
<1>1. CacheInv => Refcounts
  BY DEF CacheInv, Refcounts, FillingOK, BareObjcoreRefIsOne
<1> QED
  BY <1>1, CacheAlways, PTL

\* Nothing is freed while somebody can reach it: neither an objcore in HSH_Deref
\* nor an objhead in the slinger's deref, and the deref after a hit is never the
\* last one, so assert(hash->deref(oh)) holds.
THEOREM NoUseAfterFree == Spec => []NoneFreedInUse
BY NoneFreed, CacheAlways, PTL

\* The LRU and the heap have the same objcores, busy objcores are behind the
\* others on their list, and the heap key is the end of the grace period unless
\* a rearm is on its way, although three locks protect these lists.
THEOREM ListsCorrect == Spec => []ListsAgree
<1>1. CacheInv => ListsAgree
  BY DEF CacheInv, ListsAgree, LruOK
<1> QED
  BY <1>1, CacheAlways, PTL

----------------------------------------------------------------------------
(* One fetch for an objhead.                                               *)

\* A nonempty set of positions has a first one.
LEMMA FirstIndex ==
    ASSUME NEW T \in SUBSET Nat, T # {}
    PROVE  \E m \in T : \A n \in T : m <= n
<1>1. PICK m \in T : \A n \in T : ~ (<<n, m>> \in OpToRel(<, Nat))
  BY NatLessThanWellFounded, WFMin
<1>2. ASSUME NEW n \in T, n < m PROVE FALSE
  <2>1. <<n, m>> \in OpToRel(<, Nat)
    BY <1>2 DEF OpToRel
  <2> QED
    BY <1>1, <2>1
<1> QED
  BY <1>2

\* A lookup that finds nothing fresh has looked at the whole list.
LEMMA NothingFresh ==
    ASSUME TypeOK, NEW s \in Sess, hoh[s] \in Key, FreshHit(s) = {}
    PROVE  Examined(s) = DOMAIN objcs[hoh[s]]
<1> DEFINE q == objcs[hoh[s]]
           T == {i \in DOMAIN q : Fresh(s, q[i])}
<1>1. q \in Seq(Obj) /\ DOMAIN q = 1 .. Len(q) /\ Len(q) \in Nat
  BY DEF TypeOK
<1>2. T = {}
  <2> SUFFICES ASSUME T # {} PROVE FALSE
    OBVIOUS
  <2>1. T \in SUBSET Nat
    BY <1>1
  <2> HIDE DEF T
  <2>2. PICK m \in T : \A n \in T : m <= n
    BY <2>1, FirstIndex
  <2>3. m \in DOMAIN q /\ Fresh(s, q[m])
    BY <2>2 DEF T
  <2>4. \A h \in 1 .. m - 1 : h \in DOMAIN q /\ ~(m <= h)
    BY <1>1, <2>3
  <2>5. \A h \in 1 .. m - 1 : ~Fresh(s, q[h])
    BY <2>2, <2>4 DEF T
  <2>6. q[m] \in FreshHit(s)
    BY <2>3, <2>5 DEF FreshHit
  <2> QED
    BY <2>6
<1>3. \A i \in DOMAIN q : \A j \in 1 .. i : j \in DOMAIN q
  BY <1>1
<1> QED
  BY <1>2, <1>3 DEF Examined

\* A step that makes nothing busy and lists nothing new.
LEMMA OneBusyFrame ==
    ASSUME OneBusy,
           \A x \in Sess : kind'[x] \in {kind[x], "normal"},
           \A k \in Key : \A o \in Elems(objcs'[k]) : busy'[o] => o \in Elems(objcs[k]) /\ busy[o]
    PROVE  OneBusy'
BY DEF OneBusy

\* At most one objcore of a list is busy.
LEMMA OneBusyStep ==
    ASSUME CacheInv, OneBusy, OnlyNormal, [Next]_vars
    PROVE  OneBusy'
<1>0. TypeOK /\ OneBusy /\ PlacesOK /\ LinkedOK /\ DyingOK /\ None \notin Key /\ Timer \notin Sess
  BY ActorAssumption DEF CacheInv
<1>t. /\ kind \in [Sess -> KindNames] /\ busy \in [Obj -> BOOLEAN] /\ objcs \in [Key -> Seq(Obj)]
      /\ hoh \in [Sess -> Key \cup {None}]
  BY <1>0 DEF TypeOK
<1>e. \A k \in Key : \A o \in Elems(objcs[k]) : o \in Obj
  BY <1>t DEF Elems
<1> USE DEF hvars, ovars, svars
<1>1. CASE UNCHANGED vars \/ Tick \/ ExpTimer
  BY <1>0, <1>1, OneBusyFrame DEF vars, Tick, ExpTimer
<1>2. ASSUME NEW s \in Sess, StartRequest(s) PROVE OneBusy'
  BY <1>0, <1>t, <1>2 DEF StartRequest, OneBusy
<1>3. ASSUME NEW s \in Sess, Lookup(s) PROVE OneBusy'
  <2>1. CASE EsiPoll(s) \/ LookupHit(s) \/ LookupWait(s) \/ HitDerefHead(s)
    BY <1>0, <1>t, <2>1, OneBusyFrame DEF EsiPoll, LookupHit, LookupWait, HitDerefHead
  <2>2. CASE LookupMiss(s)
    <3>1. PICK z \in FreeObj : /\ busy' = [busy EXCEPT ![z] = TRUE]
                               /\ objcs' = [objcs EXCEPT ![hoh[s]] = Append(@, z)]
      BY <2>2 DEF LookupMiss
    <3>2. PICK k \in Key : k = hoh[s]
      BY <1>0, <1>t, <2>2 DEF LookupMiss, PlacesOK, CarryPC, AtStep
    <3>3. z \in Obj /\ head[z] = None
      BY <3>1 DEF FreeObj
    <3>4. kind[s] # "ignore_busy" /\ kind[s] # "always_miss"
      BY <1>0 DEF OneBusy, OnlyNormal
    <3>5. FreshHit(s) = {}
      BY <2>2, <3>4 DEF LookupMiss, NoHit, Candidate
    <3>6. \A o \in Elems(objcs[k]) : ~busy[o]
      <4>1. Examined(s) = DOMAIN objcs[k]
        BY <1>0, <3>2, <3>5, NothingFresh
      <4>2. ~SeesBusy(s)
        BY <2>2 DEF LookupMiss
      <4> QED
        BY <3>2, <3>4, <4>1, <4>2 DEF SeesBusy, Elems
    <3>7. /\ objcs'[k] = Append(objcs[k], z)
          /\ \A j \in Key : j # k => objcs'[j] = objcs[j]
      BY <1>t, <3>1, <3>2
    <3>8. \A j \in Key : z \notin Elems(objcs[j])
      BY <1>0, <3>3 DEF LinkedOK
    <3>9. \A x : x \in Elems(objcs'[k]) => x \in Elems(objcs[k]) \/ x = z
      BY <1>0, <1>t, <3>3, <3>7, <3>8, AppendOK DEF LinkedOK
    <3>10. \A x \in Obj : x # z => busy'[x] = busy[x]
      BY <1>t, <3>1
    <3>11. \A o, p \in Elems(objcs'[k]) : busy'[o] /\ busy'[p] => o = p
      BY <1>e, <3>6, <3>9, <3>10
    <3>12. ASSUME NEW j \in Key, j # k
           PROVE  \A o, p \in Elems(objcs'[j]) : busy'[o] /\ busy'[p] => o = p
      BY <1>0, <1>e, <3>7, <3>8, <3>10, <3>12 DEF OneBusy
    <3>13. \A x \in Sess : kind'[x] \in Kinds \cup {"normal"}
      BY <1>0, <1>t, <2>2 DEF LookupMiss, OneBusy
    <3> QED
      BY <3>11, <3>12, <3>13 DEF OneBusy
  <2> QED
    BY <1>3, <2>1, <2>2 DEF Lookup
<1>4. ASSUME NEW s \in Sess, Hit(s) PROVE OneBusy'
  BY <1>0, <1>4, OneBusyFrame
     DEF Hit, SetObjTtl, HitRearm, HitDeliver, HitDrop, Deliver, EndRequest
<1>5. ASSUME NEW s \in Sess, Miss(s) PROVE OneBusy'
  <2>1. CASE HSH_Unbusy(s)
    <3>1. PICK z \in Obj, k \in Key : z = sobj[s] /\ k = head[z] /\ z \in Elems(objcs[k])
      BY <2>1, UnbusyFacts
    <3>2. /\ objcs' = [objcs EXCEPT ![k] = ToFront(@, z)]
          /\ busy' = [busy EXCEPT ![z] = FALSE] /\ kind' = kind
      BY <2>1, <3>1 DEF HSH_Unbusy
    <3>3. objcs'[k] = ToFront(objcs[k], z) /\ \A j \in Key : j # k => objcs'[j] = objcs[j]
      BY <1>t, <3>2
    <3>4. \A x : x \in Elems(objcs'[k]) => x \in Elems(objcs[k])
      BY <1>0, <1>t, <3>1, <3>3, ToFrontOK DEF LinkedOK
    <3>5. \A x \in Obj : busy'[x] => busy[x]
      BY <1>t, <3>2
    <3> QED
      BY <1>0, <1>e, <3>2, <3>3, <3>4, <3>5, OneBusyFrame
  <2>2. CASE ~HSH_Unbusy(s)
    <3>1. UNCHANGED <<busy, objcs, kind>>
      BY <1>5, <2>2
         DEF Miss, Fetch, AbandonFetch, NewObject, STV_MkObject, EXP_NukeOne, NewObjectFails,
             ErrorObject, OutOfObjects, ErrorDeliver, HSH_Drop, StreamFails, FetchedRef,
             EXP_Insert, EndRequest
    <3> QED
      BY <1>0, <3>1, OneBusyFrame
  <2> QED
    BY <2>1, <2>2
<1>6. ASSUME NEW s \in Sess, Purge(s) PROVE OneBusy'
  BY <1>0, <1>6, OneBusyFrame DEF Purge, PurgeCollect, PurgeMark, PurgeRearm
<1>7. ASSUME NEW a \in Actor, Release(a) PROVE OneBusy'
  <2>1. CASE HSH_Deref(a)
    <3>1. PICK z \in Obj, k \in Key : z = victim[a] /\ k = head[z]
      BY <2>1, DerefFacts
    <3>2. busy' = busy /\ kind' = kind
      BY <2>1 DEF HSH_Deref
    <3>3. objcs' = objcs \/ objcs' = [objcs EXCEPT ![k] = Without(@, z)]
      BY <2>1, <3>1 DEF HSH_Deref, Unlink
    <3>4. \A j \in Key : objcs'[j] = objcs[j] \/ (j = k /\ objcs'[j] = Without(objcs[j], z))
      BY <1>t, <3>3
    <3>5. \A x : x \in Elems(Without(objcs[k], z)) => x \in Elems(objcs[k])
      BY <1>0, <1>t, <3>1, WithoutOK DEF LinkedOK
    <3> QED
      BY <1>0, <3>2, <3>4, <3>5, OneBusyFrame
  <2>2. CASE Destroy(a)
    <3>1. PICK z \in Obj : z = dying[a]
      BY <1>0, <2>2 DEF Destroy, TypeOK
    <3>2. objcs' = objcs /\ busy' = [busy EXCEPT ![z] = FALSE] /\ kind' = kind
      BY <2>2, <3>1 DEF Destroy
    <3>3. \A x \in Obj : busy'[x] => busy[x]
      BY <1>t, <3>2
    <3> QED
      BY <1>0, <1>e, <3>2, <3>3, OneBusyFrame
  <2> QED
    BY <1>7, <2>1, <2>2 DEF Release
<1> QED
  BY <1>1, <1>2, <1>3, <1>4, <1>5, <1>6, <1>7 DEF Next, Worker, Actor

\* If no request sets hash_ignore_busy or hash_always_miss, at most one session
\* at a time fetches for an objhead: the lookups that meet its busy objcore wait
\* or take an object in grace (HSH_Lookup).
THEOREM OneFetchCorrect == Spec => []OneFetchPerHead
<1>1. OnlyNormal /\ Init => OneBusy
  <2> SUFFICES ASSUME OnlyNormal, Init PROVE OneBusy
    OBVIOUS
  <2>1. \A k \in Key : objcs[k] = <<>>
    BY DEF Init
  <2>2. Elems(<<>>) = {}
    BY DEF Elems
  <2> QED
    BY <2>1, <2>2 DEF OneBusy, Init
<1>2. OnlyNormal /\ CacheInv /\ OneBusy /\ [Next]_vars => OneBusy'
  BY OneBusyStep
<1>3. CacheInv /\ (OnlyNormal => OneBusy) => OneFetchPerHead
  <2> SUFFICES ASSUME CacheInv, OneBusy, NEW k \in Key
               PROVE  Cardinality({o \in Elems(objcs[k]) : busy[o]}) <= 1
    BY DEF OneFetchPerHead, OnlyNormal
  <2> DEFINE B == {o \in Elems(objcs[k]) : busy[o]}
  <2>1. \A o, p \in B : o = p
    BY DEF OneBusy
  <2>2. B = {} \/ \E o : B = {o}
    BY <2>1
  <2>3. Cardinality({}) = 0 /\ \A o : Cardinality({o}) = 1
    BY FS_EmptySet, FS_Singleton
  <2>4. Cardinality(B) = 0 \/ Cardinality(B) = 1
    BY <2>2, <2>3
  <2> QED
    BY <2>4
<1>4. CASE OnlyNormal
  <2>1. Init => OneBusy
    BY <1>1, <1>4
  <2>2. CacheInv /\ OneBusy /\ [Next]_vars => OneBusy'
    BY <1>2, <1>4
  <2>3. CacheInv /\ OneBusy => OneFetchPerHead
    BY <1>3
  <2> QED
    BY <2>1, <2>2, <2>3, CacheAlways, PTL DEF Spec
<1>5. CASE ~OnlyNormal
  <2>1. CacheInv => OneFetchPerHead
    BY <1>3, <1>5
  <2> QED
    BY <2>1, CacheAlways, PTL
<1> QED
  BY <1>4, <1>5

----------------------------------------------------------------------------
(* Nobody is forgotten on a waiting list.                                  *)

\* The three parts of BusyHeld.
NoneDeleted == \A s \in Sess : pc[s] # "deleted"
SoleRef(s) == sobj[s] # None /\ busy[sobj[s]] /\ pc[s] \notin {"expref", "unbusy"} =>
                 ocref[sobj[s]] = 1
Holds(s, o) == sobj[s] = o \/ (victim[s] = o /\ ocref[o] = 1)

\* BusyHeld says that of each session and objcore.
LEMMA BusyHeldParts ==
    /\ BusyHeld <=> /\ NoneDeleted
                    /\ \A s \in Sess : SoleRef(s)
                    /\ \A o \in Obj : busy[o] /\ ocref[o] > 0 => \E s \in Sess : Holds(s, o)
    /\ BusyHeld' <=> /\ NoneDeleted'
                     /\ \A s \in Sess : SoleRef(s)'
                     /\ \A o \in Obj : busy'[o] /\ ocref'[o] > 0 => \E s \in Sess : Holds(s, o)'
BY DEF BusyHeld, NoneDeleted, SoleRef, Holds

\* If neither the queue nor the storage can fill up, no session is deleted.
LEMMA DeletedStep ==
    ASSUME CacheInv, NoneDeleted, NothingRunsOut, [Next]_vars
    PROVE  NoneDeleted'
<1>0. pc \in [Sess -> SessPC] /\ ~QueueMayFill /\ ~StorageMayFail
  BY DEF CacheInv, TypeOK, NothingRunsOut
<1> USE DEF NoneDeleted, Goto, svars
<1>1. CASE UNCHANGED vars \/ Tick \/ ExpTimer
  BY <1>1 DEF vars, Tick, ExpTimer
<1>2. ASSUME NEW s \in Sess, StartRequest(s) PROVE NoneDeleted'
  BY <1>0, <1>2 DEF StartRequest
<1>3. ASSUME NEW s \in Sess, Lookup(s) PROVE NoneDeleted'
  BY <1>0, <1>3 DEF Lookup, EsiPoll, LookupHit, LookupWait, LookupMiss, HitDerefHead
<1>4. ASSUME NEW s \in Sess, Hit(s) PROVE NoneDeleted'
  BY <1>0, <1>4 DEF Hit, SetObjTtl, HitRearm, HitDeliver, HitDrop, Deliver, EndRequest
<1>5. ASSUME NEW s \in Sess, Miss(s) PROVE NoneDeleted'
  <2>1. CASE HSH_Unbusy(s)
    BY <1>0, <2>1, UnbusyFacts
  <2>2. CASE Fetch(s) \/ AbandonFetch(s) \/ NewObject(s) \/ EXP_NukeOne(s) \/ NewObjectFails(s)
    BY <1>0, <2>2
       DEF Fetch, AbandonFetch, NewObject, STV_MkObject, EXP_NukeOne, NewObjectFails, EndRequest
  <2>3. CASE ErrorObject(s) \/ OutOfObjects(s) \/ ErrorDeliver(s) \/ HSH_Drop(s)
    BY <1>0, <2>3 DEF ErrorObject, STV_MkObject, OutOfObjects, ErrorDeliver, HSH_Drop
  <2>4. CASE StreamFails(s) \/ FetchedRef(s) \/ EXP_Insert(s)
    BY <1>0, <2>4 DEF StreamFails, FetchedRef, EXP_Insert, EndRequest
  <2> QED
    BY <1>5, <2>1, <2>2, <2>3, <2>4 DEF Miss
<1>6. ASSUME NEW s \in Sess, Purge(s) PROVE NoneDeleted'
  BY <1>0, <1>6 DEF Purge, PurgeCollect, PurgeMark, PurgeRearm
<1>7. ASSUME NEW a \in Actor, Release(a) PROVE NoneDeleted'
  <2>1. CASE HSH_Deref(a)
    BY <1>0, <2>1, DerefFacts
  <2>2. CASE Destroy(a)
    BY <2>2 DEF Destroy
  <2> QED
    BY <1>7, <2>1, <2>2 DEF Release
<1> QED
  BY <1>1, <1>2, <1>3, <1>4, <1>5, <1>6, <1>7 DEF Next, Worker, Actor

\* A step that makes nothing busy, takes no reference to a busy objcore, and
\* moves an objcore at most from sobj to victim.
LEMMA BusyHeldFrame ==
    ASSUME BusyHeld, NoneDeleted', TypeOK, None \notin Obj,
           \A o \in Obj : busy'[o] => busy[o] /\ ocref'[o] = ocref[o],
           \A s \in Sess : sobj'[s] # None => /\ sobj'[s] = sobj[s]
                                              /\ pc'[s] \notin {"expref", "unbusy"} =>
                                                    pc[s] \notin {"expref", "unbusy"},
           \A s \in Sess, o \in Obj : sobj[s] = o /\ busy'[o] => Holds(s, o)',
           \A s \in Sess : victim[s] # None => victim'[s] = victim[s]
    PROVE  BusyHeld'
<1>1. ASSUME NEW s \in Sess PROVE SoleRef(s)'
  BY BusyHeldParts DEF SoleRef, TypeOK
<1>2. ASSUME NEW o \in Obj, busy'[o], ocref'[o] > 0 PROVE \E s \in Sess : Holds(s, o)'
  <2>1. PICK s \in Sess : Holds(s, o)
    BY <1>2, BusyHeldParts
  <2>2. Holds(s, o)'
    BY <1>2, <2>1 DEF Holds
  <2> QED
    BY <2>2
<1> QED
  BY <1>1, <1>2, BusyHeldParts

\* A busy objcore is in the hands of its fetcher, or of who drops it.
LEMMA BusyHeldStep ==
    ASSUME CacheInv, BusyHeld, NothingRunsOut, [Next]_vars
    PROVE  BusyHeld'
<1>0. TypeOK /\ HasObj /\ CallsOK /\ PlacesOK /\ None \notin Obj /\ Timer \notin Sess
  BY ActorFinite, ActorAssumption DEF CacheInv
<1>a. ObjcoreRefcnt /\ LinkedOK /\ DyingOK /\ FillingOK
  BY DEF CacheInv
<1>d. NoneDeleted'
  BY DeletedStep, BusyHeldParts
<1>t. /\ pc \in [Sess -> SessPC] /\ sobj \in [Sess -> Obj \cup {None}]
      /\ victim \in [Actor -> Obj \cup {None}] /\ Sess \subseteq Actor
      /\ busy \in [Obj -> BOOLEAN] /\ ocref \in [Obj -> Int]
  BY <1>0, ActorFinite DEF TypeOK
<1> USE DEF Goto, AtStep, hvars, ovars, evars, svars, cvars
<1>f. ASSUME UNCHANGED <<busy, ocref, sobj, victim>>,
             \A x \in Sess : pc'[x] \notin {"expref", "unbusy"} => pc[x] \notin {"expref", "unbusy"}
      PROVE  BusyHeld'
  BY <1>0, <1>d, <1>t, <1>f, BusyHeldFrame DEF Holds
<1>g. ASSUME NEW s \in Sess, GiveUpObj(s), victim[s] = None, pc[s] \notin {"expref", "unbusy"},
             ocref' = ocref, \A o \in Obj : busy'[o] => busy[o],
             \A x \in Sess : x # s /\ pc'[x] \notin {"expref", "unbusy"} =>
                                pc[x] \notin {"expref", "unbusy"} \/ sobj[x] = None
      PROVE  BusyHeld'
  <2>1. /\ sobj'[s] = None /\ victim'[s] = sobj[s]
        /\ \A x \in Sess : x # s => sobj'[x] = sobj[x] /\ victim'[x] = victim[x]
    BY <1>t, <1>g DEF GiveUpObj
  <2>2. \A o \in Obj : sobj[s] = o /\ busy[o] => ocref[o] = 1
    BY <1>0, <1>g, BusyHeldParts DEF SoleRef
  <2>3. \A x \in Sess, o \in Obj : sobj[x] = o /\ busy'[o] => Holds(x, o)'
    BY <1>g, <2>1, <2>2 DEF Holds
  <2>4. \A x \in Sess : sobj'[x] # None =>
           /\ sobj'[x] = sobj[x]
           /\ pc'[x] \notin {"expref", "unbusy"} => pc[x] \notin {"expref", "unbusy"}
    BY <1>g, <2>1
  <2>5. \A x \in Sess : victim[x] # None => victim'[x] = victim[x]
    BY <1>g, <2>1
  <2> QED
    BY <1>0, <1>d, <1>g, <2>3, <2>4, <2>5, BusyHeldFrame
<1>e. ASSUME NEW s \in Sess, NEW p, AtStep(s, p), p \notin {"expref", "unbusy"}, EndRequest(s)
      PROVE  BusyHeld'
  BY <1>t, <1>e, <1>g DEF EndRequest
<1>v. ASSUME NEW a \in Actor, a \in Sess => victim[a] = None, NEW z \in Obj,
             victim' = [victim EXCEPT ![a] = z], UNCHANGED <<busy, ocref, sobj, pc>>
      PROVE  BusyHeld'
  BY <1>0, <1>d, <1>t, <1>v, BusyHeldFrame DEF Holds
<1>1. CASE UNCHANGED vars \/ Tick
  BY <1>1, <1>f DEF vars, Tick
<1>2. CASE ExpTimer
  <2>1. PICK z \in heap : victim' = [victim EXCEPT ![Timer] = z]
    BY <1>2 DEF ExpTimer
  <2>2. z \in Obj /\ Timer \in Actor
    BY <1>0, ActorFinite DEF TypeOK
  <2> QED
    BY <1>0, <1>2, <1>v, <2>1, <2>2 DEF ExpTimer
<1>3. ASSUME NEW s \in Sess, StartRequest(s) PROVE BusyHeld'
  BY <1>t, <1>3, <1>f DEF StartRequest
<1>4. ASSUME NEW s \in Sess, Lookup(s) PROVE BusyHeld'
  <2>1. CASE EsiPoll(s) \/ LookupWait(s) \/ HitDerefHead(s)
    BY <1>t, <2>1, <1>f DEF EsiPoll, LookupWait, HitDerefHead
  <2>2. CASE LookupHit(s) \/ LookupMiss(s)
    <3>1. PICK z \in Obj :
             /\ sobj' = [sobj EXCEPT ![s] = z]
             /\ (~busy'[z] \/ ocref'[z] = 1) /\ (~busy[z] \/ ocref[z] = 0)
             /\ \A o \in Obj : o # z => busy'[o] = busy[o] /\ ocref'[o] = ocref[o]
      <4>1. CASE LookupHit(s)
        <5>1. PICK h \in BOOLEAN, z \in Obj : /\ z \in Candidate(s, h) /\ HSH_Ref(z)
                                              /\ sobj' = [sobj EXCEPT ![s] = z]
          BY <4>1 DEF LookupHit
        <5>2. hoh[s] \in Key
          BY <1>0, <4>1 DEF LookupHit, PlacesOK, CarryPC, TypeOK
        <5>3. ~busy[z] /\ busy' = busy
          BY <1>0, <4>1, <5>1, <5>2, CandidateOK DEF LookupHit
        <5>4. \A o \in Obj : o # z => ocref'[o] = ocref[o]
          BY <1>t, <5>1 DEF HSH_Ref
        <5> QED
          BY <5>1, <5>3, <5>4
      <4>2. CASE LookupMiss(s)
        <5>1. PICK z \in FreeObj : /\ sobj' = [sobj EXCEPT ![s] = z]
                                   /\ ocref' = [ocref EXCEPT ![z] = 1]
                                   /\ busy' = [busy EXCEPT ![z] = TRUE]
          BY <4>2 DEF LookupMiss
        <5>2. z \in Obj /\ ocref[z] = 0
          BY <1>a, <5>1 DEF FreeObj, DyingOK
        <5> QED
          BY <1>t, <5>1, <5>2
      <4> QED
        BY <2>2, <4>1, <4>2
    <3>2. /\ sobj[s] = None /\ victim' = victim
          /\ \A x \in Sess : x # s => pc'[x] = pc[x] /\ sobj'[x] = sobj[x]
      BY <1>0, <1>t, <2>2, <3>1 DEF LookupHit, LookupMiss, PlacesOK
    <3>3. sobj'[s] = z
      BY <1>t, <3>1
    <3>4. ASSUME NEW x \in Sess, x # s, sobj[x] = z PROVE ~busy'[z]
      <4>1. ocref[z] > 0 /\ ~busy[z]
        BY <1>0, <1>a, <1>t, <3>1, <3>4, Held
      <4>2. LookupHit(s)
        <5>1. ASSUME LookupMiss(s) PROVE FALSE
          <6>1. PICK y \in FreeObj : sobj' = [sobj EXCEPT ![s] = y]
            BY <5>1 DEF LookupMiss
          <6>2. y = z /\ ocref[y] = 0
            BY <1>t, <1>a, <3>3, <6>1 DEF FreeObj, DyingOK
          <6> QED
            BY <4>1, <6>2
        <5> QED
          BY <2>2, <5>1
      <4> QED
        BY <4>1, <4>2 DEF LookupHit
    <3>5. ASSUME NEW x \in Sess PROVE SoleRef(x)'
      <4>1. CASE sobj'[x] = z
        BY <3>1, <3>2, <3>4, <4>1 DEF SoleRef
      <4>2. CASE sobj'[x] # z
        BY <1>t, <3>1, <3>2, <3>3, <4>2, BusyHeldParts DEF SoleRef
      <4> QED
        BY <4>1, <4>2
    <3>6. ASSUME NEW o \in Obj, busy'[o], ocref'[o] > 0 PROVE \E x \in Sess : Holds(x, o)'
      <4>1. CASE o = z
        BY <3>3, <4>1 DEF Holds
      <4>2. CASE o # z
        <5>1. PICK x \in Sess : Holds(x, o)
          BY <3>1, <3>6, <4>2, BusyHeldParts
        <5>2. Holds(x, o)'
          BY <1>0, <3>1, <3>2, <4>2, <5>1 DEF Holds
        <5> QED
          BY <5>2
      <4> QED
        BY <4>1, <4>2
    <3> QED
      BY <1>d, <3>5, <3>6, BusyHeldParts
  <2> QED
    BY <1>4, <2>1, <2>2 DEF Lookup
<1>5. ASSUME NEW s \in Sess, Hit(s) PROVE BusyHeld'
  <2>1. CASE SetObjTtl(s) \/ HitRearm(s) \/ HitDeliver(s)
    BY <1>t, <2>1, <1>f DEF SetObjTtl, HitRearm, HitDeliver
  <2>2. CASE HitDrop(s)
    BY <2>2, <1>e DEF HitDrop
  <2>3. CASE Deliver(s)
    BY <2>3, <1>e DEF Deliver
  <2> QED
    BY <1>5, <2>1, <2>2, <2>3 DEF Hit
<1>6. ASSUME NEW s \in Sess, Miss(s) PROVE BusyHeld'
  <2>1. CASE HSH_Unbusy(s)
    <3>1. PICK z \in Obj : z = sobj[s]
      BY <2>1, UnbusyFacts
    <3>2. /\ OthersMove(s) /\ pc[s] \in {"unbusy", "drop"} /\ AtStep(s, pc[s])
          /\ pc[s] = "drop" => GiveUpObj(s)
          /\ pc[s] # "drop" => UNCHANGED <<sobj, victim, treq>>
      <4>1. CacheInv /\ HSH_Unbusy(s)
        BY <2>1
      <4> QED
        BY <4>1, UnbusyFacts
    <3>3. ocref' = ocref /\ busy' = [busy EXCEPT ![z] = FALSE]
      BY <2>1, <3>1 DEF HSH_Unbusy
    <3>4. ~busy'[z] /\ \A o \in Obj : busy'[o] => busy[o]
      BY <1>t, <3>3
    <3>5. \A x \in Sess : x # s /\ pc'[x] \notin {"expref", "unbusy"} =>
                                pc[x] \notin {"expref", "unbusy"}
      BY <3>2 DEF OthersMove
    <3>6. CASE pc[s] = "drop"
      BY <1>g, <3>2, <3>3, <3>4, <3>5, <3>6
    <3>7. CASE pc[s] # "drop"
      <4>1. UNCHANGED <<sobj, victim>>
        BY <3>2, <3>7
      <4>2. ASSUME NEW x \in Sess PROVE SoleRef(x)'
        <5>1. CASE x = s
          BY <3>1, <3>4, <4>1, <5>1 DEF SoleRef
        <5>2. CASE x # s
          BY <1>t, <3>3, <3>4, <3>5, <4>1, <5>2, BusyHeldParts DEF SoleRef
        <5> QED
          BY <5>1, <5>2
      <4>3. ASSUME NEW o \in Obj, busy'[o], ocref'[o] > 0 PROVE \E x \in Sess : Holds(x, o)'
        <5>1. PICK x \in Sess : Holds(x, o)
          BY <3>3, <3>4, <4>3, BusyHeldParts
        <5>2. Holds(x, o)'
          BY <3>3, <4>1, <5>1 DEF Holds
        <5> QED
          BY <5>2
      <4> QED
        BY <1>d, <4>2, <4>3, BusyHeldParts
    <3> QED
      BY <3>6, <3>7
  <2>2. CASE EXP_NukeOne(s)
    <3>1. PICK z \in Obj : victim' = [victim EXCEPT ![s] = z]
      BY <2>2 DEF EXP_NukeOne
    <3>2. victim[s] = None /\ UNCHANGED <<busy, ocref, sobj, pc>> /\ s \in Actor
      BY <1>t, <2>2 DEF EXP_NukeOne
    <3> QED
      BY <1>v, <3>1, <3>2
  <2>3. CASE AbandonFetch(s)
    BY <2>3, <1>e DEF AbandonFetch
  <2>4. CASE StreamFails(s)
    BY <2>4, <1>e DEF StreamFails
  <2>5. CASE Fetch(s) \/ NewObject(s) \/ NewObjectFails(s) \/ ErrorObject(s)
    BY <1>t, <2>5, <1>f DEF Fetch, NewObject, NewObjectFails, ErrorObject, STV_MkObject
  <2>6. CASE OutOfObjects(s) \/ ErrorDeliver(s) \/ HSH_Drop(s) \/ EXP_Insert(s)
    BY <1>t, <2>6, <1>f DEF OutOfObjects, ErrorDeliver, HSH_Drop, EXP_Insert
  <2>7. CASE FetchedRef(s)
    <3>1. PICK z \in Obj : z = sobj[s] /\ busy[z]
      BY <1>0, <1>a, <1>t, <2>7 DEF FetchedRef, HasObj, WithObjPC, FillingOK, FillPC
    <3>2. /\ UNCHANGED <<sobj, victim, busy>> /\ pc'[s] = "expref"
          /\ \A x \in Sess : x # s => pc'[x] = pc[x]
          /\ \A o \in Obj : o # z => ocref'[o] = ocref[o]
      BY <1>t, <2>7, <3>1 DEF FetchedRef, HSH_Ref
    <3>3. ASSUME NEW x \in Sess PROVE SoleRef(x)'
      <4>1. CASE x = s
        BY <3>2, <4>1 DEF SoleRef
      <4>2. CASE x # s
        <5>1. sobj[x] # z
          BY <1>0, <1>a, <3>1, <4>2 DEF FillingOK
        <5> QED
          BY <1>t, <3>2, <4>2, <5>1, BusyHeldParts DEF SoleRef
      <4> QED
        BY <4>1, <4>2
    <3>4. ASSUME NEW o \in Obj, busy'[o], ocref'[o] > 0 PROVE \E x \in Sess : Holds(x, o)'
      <4>1. CASE o = z
        BY <3>1, <3>2, <4>1 DEF Holds
      <4>2. CASE o # z
        <5>1. PICK x \in Sess : Holds(x, o)
          BY <3>2, <3>4, <4>2, BusyHeldParts
        <5>2. Holds(x, o)'
          BY <3>2, <4>2, <5>1 DEF Holds
        <5> QED
          BY <5>2
      <4> QED
        BY <4>1, <4>2
    <3> QED
      BY <1>d, <3>3, <3>4, BusyHeldParts
  <2> QED
    BY <1>6, <2>1, <2>2, <2>3, <2>4, <2>5, <2>6, <2>7 DEF Miss
<1>7. ASSUME NEW s \in Sess, Purge(s) PROVE BusyHeld'
  <2>1. CASE PurgeCollect(s)
    <3>1. /\ UNCHANGED <<sobj, victim, busy>>
          /\ \A x \in Sess : pc'[x] \notin {"expref", "unbusy"} => pc[x] \notin {"expref", "unbusy"}
          /\ \A o \in Obj : busy[o] => ocref'[o] = ocref[o]
      BY <1>t, <2>1 DEF PurgeCollect, Purgeable
    <3> QED
      BY <1>0, <1>d, <3>1, BusyHeldFrame DEF Holds
  <2>2. CASE PurgeMark(s)
    BY <2>2, <1>f DEF PurgeMark
  <2>3. CASE PurgeRearm(s)
    <3>1. PICK z \in Obj : z = rearm[s] /\ victim[s] = None
      BY <1>0, <2>3 DEF PurgeRearm, TypeOK, CallsOK
    <3>2. victim' = [victim EXCEPT ![s] = z] /\ UNCHANGED <<busy, ocref, sobj, pc>> /\ s \in Actor
      BY <1>t, <2>3, <3>1 DEF PurgeRearm
    <3> QED
      BY <1>v, <3>1, <3>2
  <2> QED
    BY <1>7, <2>1, <2>2, <2>3 DEF Purge
<1>8. ASSUME NEW a \in Actor, Release(a) PROVE BusyHeld'
  <2>1. CASE HSH_Deref(a)
    <3>1. PICK z \in Obj : z = victim[a]
      BY <2>1, DerefFacts
    <3>2. OthersMove(None) /\ None \notin Sess
      BY <2>1, DerefFacts, ActorFinite
    <3>3. /\ UNCHANGED <<sobj, busy>> /\ ocref'[z] = ocref[z] - 1 /\ ocref[z] \in Int
          /\ \A o \in Obj : o # z => ocref'[o] = ocref[o]
          /\ \A x \in Sess : x # a => victim'[x] = victim[x]
      BY <1>t, <2>1, <3>1 DEF HSH_Deref
    <3>4. \A x \in Sess : pc'[x] \notin {"expref", "unbusy"} => pc[x] \notin {"expref", "unbusy"}
      BY <3>2 DEF OthersMove
    <3>5. \A x \in Sess : sobj[x] = z => ocref[z] > 1
      BY <1>0, <1>a, <3>1, Held
    <3>6. ASSUME NEW x \in Sess PROVE SoleRef(x)'
      <4>1. CASE sobj[x] = z
        <5>1. ~(ocref[z] = 1)
          BY <3>3, <3>5, <4>1
        <5> QED
          BY <3>3, <3>4, <4>1, <5>1, BusyHeldParts DEF SoleRef
      <4>2. CASE sobj[x] # z
        BY <1>t, <3>3, <3>4, <4>2, BusyHeldParts DEF SoleRef
      <4> QED
        BY <4>1, <4>2
    <3>7. ASSUME NEW o \in Obj, busy'[o], ocref'[o] > 0 PROVE \E x \in Sess : Holds(x, o)'
      <4>1. CASE o = z
        <5>1. ocref[z] > 0 /\ ~(ocref[z] = 1)
          BY <3>3, <3>7, <4>1
        <5>2. PICK x \in Sess : Holds(x, z)
          BY <3>3, <3>7, <4>1, <5>1, BusyHeldParts
        <5>3. sobj'[x] = o
          BY <3>3, <4>1, <5>1, <5>2 DEF Holds
        <5> QED
          BY <5>3 DEF Holds
      <4>2. CASE o # z
        <5>1. PICK x \in Sess : Holds(x, o)
          BY <3>3, <3>7, <4>2, BusyHeldParts
        <5>2. Holds(x, o)'
          BY <3>1, <3>3, <4>2, <5>1 DEF Holds
        <5> QED
          BY <5>2
      <4> QED
        BY <4>1, <4>2
    <3> QED
      BY <1>d, <3>6, <3>7, BusyHeldParts
  <2>2. CASE Destroy(a)
    <3>1. /\ UNCHANGED <<sobj, victim, pc, ocref>> /\ \A o \in Obj : busy'[o] => busy[o]
      BY <1>t, <2>2 DEF Destroy
    <3> QED
      BY <1>0, <1>d, <3>1, BusyHeldFrame DEF Holds
  <2> QED
    BY <1>8, <2>1, <2>2 DEF Release
<1> QED
  BY <1>1, <1>2, <1>3, <1>4, <1>5, <1>6, <1>7, <1>8 DEF Next, Worker, Actor

\* Every session on a waiting list has somebody who will rush the list.
Attended(k) == \E r \in Sess : r \in Rushers(k)
Awake == \A s \in Sess : pc[s] = "wait" => Attended(hoh[s])

\* hsh_rush wakes somebody up if anybody waits.
LEMMA RushWakes ==
    ASSUME TypeOK, WaitingOK, NEW k \in Key, NEW q \in 0 .. Len(waiting[k]), NEW d \in 0 .. 1,
           NEW a, NEW p, RushOutcome(k, q, d), hsh_rush(k, q, d, a, p), ~QueueMayFill,
           a \in Sess => pc[a] # "wait", NEW s \in Sess, pc[s] = "wait", hoh[s] = k
    PROVE  \E x \in Sess : hoh[x] = k /\ pc'[x] = "scan"
<1>1. waiting[k] \in Seq(Sess) /\ Len(waiting[k]) \in Nat /\ DOMAIN waiting[k] = 1 .. Len(waiting[k])
  BY DEF TypeOK
<1>2. s \in Elems(waiting[k])
  BY DEF WaitingOK
<1>3. PICK i \in DOMAIN waiting[k] : waiting[k][i] = s
  BY <1>2 DEF Elems
<1>4. Len(waiting[k]) >= 1 /\ 1 \in DOMAIN waiting[k]
  BY <1>1, <1>3
<1>5. d = 0 /\ q = Least(RushExponent, Len(waiting[k]))
  BY DEF RushOutcome
<1>6. q >= 1 /\ 1 \in 1 .. q
  BY <1>1, <1>4, <1>5, ParamAssumption DEF Least
<1>7. PICK x \in Sess : x = waiting[k][1]
  BY <1>1, <1>4
<1>8. x \in Elems(waiting[k]) /\ x \in Queued(k, q)
  BY <1>4, <1>6, <1>7 DEF Elems, Queued
<1>9. hoh[x] = k
  BY <1>8 DEF WaitingOK
<1>10. x \notin Lost(k, q, d)
  BY <1>5, <1>6 DEF Lost
<1>11. pc[x] = "wait" /\ x # a
  BY <1>8 DEF WaitingOK
<1>12. pc'[x] = "scan"
  BY <1>8, <1>10, <1>11 DEF hsh_rush
<1> QED
  BY <1>9, <1>12

\* HSH_Deref wakes somebody up if anybody waits on the objhead.
LEMMA DerefWakes ==
    ASSUME CacheInv, NothingRunsOut, NEW a \in Actor, HSH_Deref(a), NEW x \in Sess,
           pc[x] = "wait", hoh[x] = head[victim[a]]
    PROVE  \E y \in Sess : hoh[y] = hoh[x] /\ pc'[y] = "scan"
<1> DEFINE k == head[victim[a]]
<1>1. k \in Key /\ None \notin Sess
  BY DerefFacts, ActorFinite
<1>2. PICK q \in 0 .. Len(waiting[k]), d \in 0 .. 1 :
         RushOutcome(k, q, d) /\ hsh_rush(k, q, d, None, "idle")
  BY DEF HSH_Deref
<1>3. TypeOK /\ WaitingOK /\ ~QueueMayFill
  BY DEF CacheInv, NothingRunsOut
<1> HIDE DEF k
<1>4. hoh[x] = k
  BY DEF k
<1> QED
  BY <1>1, <1>2, <1>3, <1>4, RushWakes

\* A step with which nobody begins to wait and those who rush a list go on.
LEMMA AwakeFrame ==
    ASSUME Awake,
           \A x \in Sess : pc'[x] = "wait" => /\ pc[x] = "wait" /\ hoh'[x] = hoh[x]
                                              /\ \/ \E y \in Sess : y \in Rushers(hoh[x])'
                                                 \/ \A r \in Rushers(hoh[x]) : r \in Rushers(hoh[x])'
    PROVE  Awake'
BY DEF Awake, Attended, Rushers

\* Whoever attends a list goes on, or hands over.
LEMMA AwakeStep ==
    ASSUME CacheInv, BusyHeld, Awake, NothingRunsOut, [Next]_vars
    PROVE  Awake'
<1>0. TypeOK /\ HasObj /\ PlacesOK /\ DyingOK /\ LinkedOK /\ ObjcoreRefcnt
      /\ None \notin Obj /\ None \notin Key /\ Timer \notin Sess
  BY ActorFinite, ActorAssumption DEF CacheInv
<1>d. NoneDeleted /\ NoneDeleted'
  BY DeletedStep, BusyHeldParts
<1>t. /\ pc \in [Sess -> SessPC] /\ sobj \in [Sess -> Obj \cup {None}]
      /\ victim \in [Actor -> Obj \cup {None}] /\ Sess \subseteq Actor
      /\ hoh \in [Sess -> Key \cup {None}] /\ head \in [Obj -> Key \cup {None}]
  BY <1>0, ActorFinite DEF TypeOK
<1>p. \A x \in Sess : pc[x] = "wait" => hoh[x] \in Key
  BY <1>0, <1>t DEF PlacesOK, CarryPC
<1> USE DEF Goto, AtStep, hvars, ovars, evars, svars, cvars
<1>f. ASSUME NEW s \in Sess, pc[s] # "wait" \/ pc' = pc, UNCHANGED <<hoh, sobj, head>>,
             \A x \in Sess : x # s => pc'[x] = pc[x],
             pc'[s] # "wait" \/ pc' = pc, pc[s] \in CarryPC => pc'[s] \in {"scan", pc[s]},
             \A x \in Sess : victim[x] # None => victim'[x] = victim[x]
      PROVE  Awake'
  BY <1>d, <1>f, <1>t, AwakeFrame DEF Rushers, NoneDeleted, CarryPC
<1>e. ASSUME NEW s \in Sess, NEW p, AtStep(s, p), p \notin CarryPC, EndRequest(s)
      PROVE  Awake'
  BY <1>d, <1>e, <1>t, AwakeFrame DEF EndRequest, GiveUpObj, Rushers, NoneDeleted, CarryPC
<1>1. CASE UNCHANGED vars \/ Tick
  BY <1>1, AwakeFrame DEF vars, Tick, Rushers
<1>2. CASE ExpTimer
  <2>1. /\ UNCHANGED <<hoh, sobj, head, pc>>
        /\ \A x \in Sess : victim'[x] = victim[x]
    BY <1>0, <1>t, <1>2 DEF ExpTimer
  <2> QED
    BY <2>1, AwakeFrame DEF Rushers
<1>3. ASSUME NEW s \in Sess, StartRequest(s) PROVE Awake'
  <2>1. /\ UNCHANGED <<sobj, victim, head>> /\ pc'[s] = "scan" /\ pc[s] = "idle"
        /\ \A x \in Sess : x # s => pc'[x] = pc[x] /\ hoh'[x] = hoh[x]
    BY <1>t, <1>3 DEF StartRequest
  <2> QED
    BY <2>1, AwakeFrame DEF Rushers
<1>4. ASSUME NEW s \in Sess, Lookup(s) PROVE Awake'
  <2>1. CASE EsiPoll(s)
    BY <1>f, <1>t, <2>1 DEF EsiPoll
  <2>2. CASE HitDerefHead(s)
    <3>1. /\ UNCHANGED <<sobj, victim, head>> /\ pc'[s] = "hit" /\ pc[s] = "hitref"
          /\ \A x \in Sess : x # s => pc'[x] = pc[x] /\ hoh'[x] = hoh[x]
      BY <1>t, <2>2 DEF HitDerefHead
    <3>2. sobj[s] # None /\ head[sobj[s]] = hoh[s]
      BY <1>0, <3>1 DEF HasObj, WithObjPC, PlacesOK
    <3> QED
      BY <3>1, <3>2, AwakeFrame DEF Rushers
  <2>3. CASE LookupHit(s)
    <3>1. PICK h \in BOOLEAN, z \in Obj : z \in Candidate(s, h) /\ sobj' = [sobj EXCEPT ![s] = z]
      BY <2>3 DEF LookupHit
    <3>2. /\ UNCHANGED <<hoh, victim, head>> /\ pc'[s] = "hitref" /\ pc[s] = "scan"
          /\ sobj[s] = None
          /\ \A x \in Sess : x # s => pc'[x] = pc[x] /\ sobj'[x] = sobj[x]
      BY <1>0, <1>t, <2>3, <3>1 DEF LookupHit, PlacesOK
    <3> QED
      BY <3>2, AwakeFrame DEF Rushers
  <2>4. CASE LookupMiss(s)
    <3>1. PICK z \in FreeObj : sobj' = [sobj EXCEPT ![s] = z] /\ head' = [head EXCEPT ![z] = hoh[s]]
      BY <2>4 DEF LookupMiss
    <3>2. z \in Obj /\ head[z] = None /\ ocref[z] = 0
      BY <1>0, <3>1 DEF FreeObj, DyingOK
    <3>3. \A x \in Sess : sobj[x] # z /\ victim[x] # z
      BY <1>0, <1>t, <3>2, Held
    <3>4. /\ victim' = victim /\ pc'[s] = "miss" /\ pc[s] = "scan"
          /\ sobj[s] = None /\ victim[s] = None /\ sobj'[s] = z /\ head'[z] = hoh[s]
          /\ \A x \in Sess : x # s => pc'[x] = pc[x] /\ sobj'[x] = sobj[x] /\ hoh'[x] = hoh[x]
          /\ \A o \in Obj : o # z => head'[o] = head[o]
      BY <1>0, <1>t, <2>4, <3>1, <3>2 DEF LookupMiss, PlacesOK
    <3>5. ASSUME NEW k \in Key, NEW r \in Rushers(k) PROVE r \in Rushers(k)'
      <4>1. CASE r = s
        BY <1>0, <3>2, <3>4, <4>1 DEF Rushers
      <4>2. CASE r # s
        BY <1>t, <3>3, <3>4, <4>2 DEF Rushers
      <4> QED
        BY <4>1, <4>2
    <3> QED
      BY <1>p, <3>4, <3>5, AwakeFrame
  <2>5. CASE LookupWait(s)
    <3>1. /\ UNCHANGED <<hoh, sobj, victim, head>> /\ sobj[s] = None /\ victim[s] = None
          /\ \A x \in Sess : x # s => pc'[x] = pc[x]
      BY <1>0, <1>t, <2>5 DEF LookupWait, PlacesOK
    <3>2. hoh[s] \in Key
      BY <1>0, <1>t, <2>5 DEF LookupWait, PlacesOK, CarryPC
    <3>3. PICK i \in DOMAIN objcs[hoh[s]] : busy[objcs[hoh[s]][i]]
      BY <2>5 DEF LookupWait, SeesBusy, Examined
    <3>4. PICK z \in Obj : z = objcs[hoh[s]][i]
      BY <1>0, <3>2, <3>3 DEF TypeOK
    <3>5. busy[z] /\ head[z] = hoh[s] /\ ocref[z] > 0
      BY <1>0, <3>2, <3>3, <3>4 DEF LinkedOK, Elems
    <3>6. PICK r \in Sess : Holds(r, z)
      BY <3>5, BusyHeldParts
    <3>7. r # s
      BY <1>0, <3>1, <3>6 DEF Holds
    <3>8. r \in Rushers(hoh[s])'
      BY <1>0, <1>d, <3>1, <3>5, <3>6, <3>7 DEF Holds, Rushers, NoneDeleted
    <3>9. ASSUME NEW x \in Sess, pc'[x] = "wait" PROVE Attended(hoh[x])'
      <4>1. CASE hoh[x] = hoh[s]
        BY <3>1, <3>8, <4>1 DEF Attended
      <4>2. CASE hoh[x] # hoh[s]
        <5>1. x # s /\ pc[x] = "wait"
          BY <3>1, <3>9, <4>2
        <5>2. PICK y \in Sess : y \in Rushers(hoh[x])
          BY <5>1 DEF Awake, Attended
        <5>3. y # s
          BY <3>1, <4>2, <5>2 DEF Rushers
        <5>4. y \in Rushers(hoh[x])'
          BY <3>1, <5>2, <5>3 DEF Rushers
        <5> QED
          BY <3>1, <5>4 DEF Attended
      <4> QED
        BY <4>1, <4>2
    <3> QED
      BY <3>1, <3>9 DEF Awake, Attended
  <2> QED
    BY <1>4, <2>1, <2>2, <2>3, <2>4, <2>5 DEF Lookup
<1>5. ASSUME NEW s \in Sess, Hit(s) PROVE Awake'
  <2>1. CASE SetObjTtl(s) \/ HitRearm(s) \/ HitDeliver(s)
    BY <1>t, <2>1, <1>f DEF SetObjTtl, HitRearm, HitDeliver, CarryPC
  <2>2. CASE HitDrop(s)
    BY <2>2, <1>e DEF HitDrop, CarryPC
  <2>3. CASE Deliver(s)
    BY <2>3, <1>e DEF Deliver, CarryPC
  <2> QED
    BY <1>5, <2>1, <2>2, <2>3 DEF Hit
<1>6. ASSUME NEW s \in Sess, Miss(s) PROVE Awake'
  <2>1. CASE HSH_Unbusy(s)
    <3>1. /\ OthersMove(s) /\ pc[s] \in {"unbusy", "drop"} /\ AtStep(s, pc[s])
          /\ pc'[s] = IF pc[s] = "drop" THEN "idle" ELSE "deliver"
          /\ pc[s] = "drop" => GiveUpObj(s)
          /\ pc[s] # "drop" => UNCHANGED <<sobj, victim, treq>>
      <4>1. CacheInv /\ HSH_Unbusy(s)
        BY <2>1
      <4> QED
        BY <4>1, UnbusyFacts
    <3>2. UNCHANGED <<hoh, head>>
      BY <2>1 DEF HSH_Unbusy
    <3>3. /\ \A x \in Sess : x # s => sobj'[x] = sobj[x] /\ victim'[x] = victim[x]
          /\ \/ sobj'[s] = sobj[s] /\ victim'[s] = victim[s]
             \/ victim'[s] = sobj[s] /\ victim[s] = None
      BY <1>t, <3>1 DEF GiveUpObj
    <3>4. ASSUME NEW k \in Key, NEW r \in Rushers(k) PROVE r \in Rushers(k)'
      BY <1>d, <3>1, <3>2, <3>3 DEF Rushers, OthersMove, NoneDeleted
    <3>5. \A x \in Sess : pc'[x] = "wait" => pc[x] = "wait"
      BY <3>1 DEF OthersMove
    <3> QED
      BY <1>p, <3>2, <3>4, <3>5, AwakeFrame
  <2>2. CASE EXP_NukeOne(s)
    <3>1. /\ UNCHANGED <<hoh, sobj, head, pc>>
          /\ \A x \in Sess : victim[x] # None => victim'[x] = victim[x]
      BY <1>t, <2>2 DEF EXP_NukeOne
    <3> QED
      BY <3>1, <1>f
  <2>3. CASE AbandonFetch(s)
    BY <2>3, <1>e DEF AbandonFetch, CarryPC
  <2>4. CASE StreamFails(s)
    BY <2>4, <1>e DEF StreamFails, CarryPC
  <2>5. CASE Fetch(s) \/ NewObject(s) \/ NewObjectFails(s) \/ ErrorObject(s)
    BY <1>t, <2>5, <1>f DEF Fetch, NewObject, NewObjectFails, ErrorObject, STV_MkObject, CarryPC
  <2>6. CASE OutOfObjects(s) \/ ErrorDeliver(s) \/ HSH_Drop(s)
    BY <1>t, <2>6, <1>f DEF OutOfObjects, ErrorDeliver, HSH_Drop, CarryPC
  <2>7. CASE FetchedRef(s) \/ EXP_Insert(s)
    BY <1>t, <2>7, <1>f DEF FetchedRef, EXP_Insert, CarryPC
  <2> QED
    BY <1>6, <2>1, <2>2, <2>3, <2>4, <2>5, <2>6, <2>7 DEF Miss
<1>7. ASSUME NEW s \in Sess, Purge(s) PROVE Awake'
  <2>1. CASE PurgeCollect(s)
    BY <1>t, <2>1, <1>f DEF PurgeCollect, CarryPC
  <2>2. CASE PurgeMark(s)
    BY <2>2, <1>f DEF PurgeMark
  <2>3. CASE PurgeRearm(s)
    <3>1. victim[s] = None /\ UNCHANGED <<hoh, sobj, head, pc>>
      BY <2>3 DEF PurgeRearm, CallsOK, CacheInv
    <3>2. \A x \in Sess : victim[x] # None => victim'[x] = victim[x]
      BY <1>t, <2>3, <3>1 DEF PurgeRearm
    <3> QED
      BY <1>f, <3>1, <3>2
  <2> QED
    BY <1>7, <2>1, <2>2, <2>3 DEF Purge
<1>8. ASSUME NEW a \in Actor, Release(a) PROVE Awake'
  <2>1. CASE HSH_Deref(a)
    <3>1. PICK z \in Obj, k \in Key : z = victim[a] /\ k = head[z]
      BY <2>1, DerefFacts
    <3>2. OthersMove(None) /\ None \notin Sess
      BY <2>1, DerefFacts, ActorFinite
    <3>3. /\ UNCHANGED <<sobj, head, hoh>>
          /\ \A x \in Sess : x # a => victim'[x] = victim[x]
      BY <1>t, <2>1 DEF HSH_Deref
    <3>4. \A x \in Sess : pc'[x] = "wait" => pc[x] = "wait"
      BY <3>2 DEF OthersMove
    <3>5. ASSUME NEW x \in Sess, pc'[x] = "wait" PROVE Attended(hoh[x])'
      <4>1. CASE hoh[x] = k
        <5>1. PICK y \in Sess : hoh[y] = hoh[x] /\ pc'[y] = "scan"
          BY <2>1, <3>1, <3>4, <3>5, <4>1, DerefWakes
        <5>2. y \in Rushers(hoh[x])'
          BY <3>3, <5>1 DEF Rushers
        <5> QED
          BY <3>3, <5>2 DEF Attended
      <4>2. CASE hoh[x] # k
        <5>1. PICK y \in Sess : y \in Rushers(hoh[x])
          BY <3>4, <3>5 DEF Awake, Attended
        <5>2. y \in Rushers(hoh[x])'
          BY <1>d, <3>1, <3>2, <3>3, <4>2, <5>1 DEF Rushers, OthersMove, NoneDeleted
        <5> QED
          BY <3>3, <5>2 DEF Attended
      <4> QED
        BY <4>1, <4>2
    <3> QED
      BY <3>3, <3>5 DEF Awake, Attended
  <2>2. CASE Destroy(a)
    <3>1. PICK z \in Obj : z = dying[a] /\ ocref[z] = 0
      BY <1>0, <2>2 DEF Destroy, DyingOK, TypeOK
    <3>2. \A x \in Sess : sobj[x] # z /\ victim[x] # z
      BY <1>0, <1>t, <3>1, Held
    <3>3. UNCHANGED <<sobj, victim, hoh, pc>> /\ \A o \in Obj : o # z => head'[o] = head[o]
      BY <1>t, <2>2, <3>1 DEF Destroy
    <3>4. ASSUME NEW k \in Key, NEW r \in Rushers(k) PROVE r \in Rushers(k)'
      BY <1>t, <3>2, <3>3 DEF Rushers
    <3> QED
      BY <1>p, <3>3, <3>4, AwakeFrame
  <2> QED
    BY <1>8, <2>1, <2>2 DEF Release
<1> QED
  BY <1>1, <1>2, <1>3, <1>4, <1>5, <1>6, <1>7, <1>8 DEF Next, Worker, Actor

\* If worker queues and Transient storage do not run out, a session on a waiting
\* list is never forgotten: somebody at work will still call hsh_rush for its
\* objhead, from HSH_Unbusy or HSH_Deref.
THEOREM WakeupNotLost ==
    ASSUME NothingRunsOut
    PROVE  Spec => []NoLostWakeup
<1>1. Init => BusyHeld /\ Awake
  BY DEF Init, BusyHeld, Awake
<1>2. CacheInv /\ BusyHeld /\ Awake /\ [Next]_vars => BusyHeld' /\ Awake'
  BY BusyHeldStep, AwakeStep
<1>3. CacheInv /\ Awake => NoLostWakeup
  <2> SUFFICES ASSUME CacheInv, Awake, NEW k \in Key, waiting[k] # <<>>
               PROVE  Rushers(k) # {}
    BY DEF NoLostWakeup
  <2>1. waiting[k] \in Seq(Sess)
    BY DEF CacheInv, TypeOK
  <2>2. PICK s \in Sess : s = waiting[k][1] /\ 1 \in DOMAIN waiting[k]
    BY <2>1
  <2>3. pc[s] = "wait" /\ hoh[s] = k
    BY <2>2 DEF CacheInv, WaitingOK, Elems
  <2> QED
    BY <2>3 DEF Awake, Attended
<1> QED
  BY <1>1, <1>2, <1>3, CacheAlways, PTL DEF Spec

----------------------------------------------------------------------------
(* Purged objects.                                                         *)

\* One step gives no positive TTL back to an object that is not busy.
TtlKept == \A o \in Obj : ~busy[o] /\ ocref[o] > 0 /\ ttl[o] <= 0 => ttl'[o] <= 0

\* No step does, unless VCL sets obj.ttl.
LEMMA TtlStep ==
    ASSUME CacheInv, ~VclSetsTtl, [Next]_vars
    PROVE  TtlKept
<1>0. TypeOK /\ HasObj /\ FillingOK /\ ttl \in [Obj -> Int] /\ sobj \in [Sess -> Obj \cup {None}]
  BY DEF CacheInv, TypeOK
<1>f. ASSUME UNCHANGED ttl PROVE TtlKept
  BY <1>f DEF TtlKept
<1>n. ASSUME NEW z, ttl' = [ttl EXCEPT ![z] = -1] \/ ttl' = [ttl EXCEPT ![z] = 0] PROVE TtlKept
  <2>1. \A o \in Obj : ttl'[o] \in {ttl[o], -1, 0}
    BY <1>0, <1>n
  <2> QED
    BY <1>0, <2>1 DEF TtlKept
<1>m. ASSUME NEW s \in Sess, NEW v, pc[s] \in {"fetch", "err"}, ttl' = [ttl EXCEPT ![sobj[s]] = v]
      PROVE  TtlKept
  <2>1. sobj[s] \in Obj /\ busy[sobj[s]]
    BY <1>0, <1>m DEF HasObj, WithObjPC, FillingOK, FillPC
  <2> QED
    BY <1>0, <1>m, <2>1 DEF TtlKept
<1> USE DEF ovars, AtStep
<1>1. CASE UNCHANGED vars \/ Tick \/ ExpTimer
  BY <1>1, <1>f DEF vars, Tick, ExpTimer
<1>2. ASSUME NEW s \in Sess, StartRequest(s) PROVE TtlKept
  BY <1>2, <1>f DEF StartRequest
<1>3. ASSUME NEW s \in Sess, Lookup(s) PROVE TtlKept
  BY <1>3, <1>f DEF Lookup, EsiPoll, LookupHit, LookupWait, LookupMiss, HitDerefHead
<1>4. ASSUME NEW s \in Sess, Hit(s) PROVE TtlKept
  BY <1>4, <1>f DEF Hit, SetObjTtl, HitRearm, HitDeliver, HitDrop, Deliver, EndRequest
<1>5. ASSUME NEW s \in Sess, Miss(s) PROVE TtlKept
  <2>1. CASE NewObject(s) \/ ErrorObject(s)
    BY <1>m, <2>1 DEF NewObject, ErrorObject, STV_MkObject
  <2>2. CASE HSH_Drop(s)
    BY <1>n, <2>2 DEF HSH_Drop
  <2>3. CASE ~NewObject(s) /\ ~ErrorObject(s) /\ ~HSH_Drop(s)
    BY <1>5, <1>f, <2>3
       DEF Miss, Fetch, AbandonFetch, EXP_NukeOne, NewObjectFails, OutOfObjects, ErrorDeliver,
           StreamFails, FetchedRef, EXP_Insert, HSH_Unbusy, EndRequest
  <2> QED
    BY <2>1, <2>2, <2>3
<1>6. ASSUME NEW s \in Sess, Purge(s) PROVE TtlKept
  <2>1. CASE PurgeMark(s)
    BY <1>n, <2>1 DEF PurgeMark
  <2> QED
    BY <1>6, <1>f, <2>1 DEF Purge, PurgeCollect, PurgeRearm
<1>7. ASSUME NEW a \in Actor, Release(a) PROVE TtlKept
  <2>1. CASE Destroy(a)
    BY <1>n, <2>1 DEF Destroy
  <2> QED
    BY <1>7, <1>f, <2>1 DEF Release, HSH_Deref
<1> QED
  BY <1>1, <1>2, <1>3, <1>4, <1>5, <1>6, <1>7, ActorFinite DEF Next, Worker

\* An object that a purge has discarded is never used again, if vcl_hit does not
\* assign obj.ttl: that assignment (VRT_l_obj_ttl) is the only way back.
THEOREM PurgeIsFinal ==
    ASSUME ~VclSetsTtl
    PROVE  Spec => PurgedStaysPurged
<1>1. CacheInv /\ [Next]_vars => [TtlKept]_vars
  BY TtlStep
<1>2. Spec => [][TtlKept]_vars
  BY <1>1, CacheAlways, PTL DEF Spec
<1> QED
  BY <1>2, PTL DEF PurgedStaysPurged, TtlKept

=============================================================================
