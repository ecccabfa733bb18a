----------------------------- MODULE CacheHash -----------------------------
(***************************************************************************)
(* The life of an object in the varnishd cache: cache_hash.c (objheads,    *)
(* objcores, waiting lists), cache_expire.c (binary heap, LRU, the timer   *)
(* thread), the part of stevedore.c that turns an objcore into an object,  *)
(* and the steps of cache_center.c that drive them.                        *)
(*                                                                         *)
(* One action is one critical section (the code between Lck_Lock and       *)
(* Lck_Unlock) or one unlocked access to state another thread reads.       *)
(* HSH_Deref is therefore two actions: HSH_Deref, under oh->mtx, and       *)
(* Destroy, which frees the objcore and drops its objhead reference.       *)
(***************************************************************************)
EXTENDS Integers, FiniteSets, Sequences

CONSTANTS
    Key,            \* hash digests; an objhead is identified with its digest
    Sess,           \* client sessions
    Obj,            \* a pool of objcores
    Timer,          \* the exp_timer thread
    None,           \* the NULL pointer
    Kinds,          \* request flavours, a subset of KindNames
    TTL,            \* values VCL assigns to beresp.ttl and obj.ttl
    Grace,          \* default_grace
    MaxTime,        \* bound of the clock
    RushExponent,   \* params->rush_exponent
    NukeLimit,      \* params->nuke_limit
    QueueMayFill,   \* can WRK_QueueSession fail?
    StorageMayFail, \* can even Transient storage be exhausted?
    VclPurges,      \* does the VCL use "purge"?
    VclSetsTtl      \* does the VCL assign obj.ttl in vcl_hit?

KindNames == {"normal", "ignore_busy", "always_miss", "esi"}

ASSUME FiniteAssumption == IsFiniteSet(Sess) /\ IsFiniteSet(Obj)
ASSUME ActorAssumption == /\ Timer \notin Sess
                          /\ None \notin Key \cup Sess \cup Obj \cup {Timer}
ASSUME KindAssumption == Kinds \subseteq KindNames
ASSUME TimeAssumption == TTL \subseteq Nat /\ Grace \in Nat /\ MaxTime \in Nat
ASSUME ParamAssumption == RushExponent \in Nat \ {0} /\ NukeLimit \in Nat
ASSUME SwitchAssumption == {QueueMayFill, StorageMayFail, VclPurges, VclSetsTtl}
                             \subseteq BOOLEAN

Actor == Sess \cup {Timer}

VARIABLES
    now,        \* TIM_real()
    \* --- struct objhead
    ohref,      \* refcnt; 0 means the slinger does not hold this digest
    objcs,      \* the list of objcores
    waiting,    \* the waitinglist
    \* --- struct objcore and the object it leads to
    ocref,      \* refcnt
    head,       \* objhead; None means the objcore is not allocated
    busy,       \* OC_F_BUSY
    hasobj,     \* methods != NULL: an object is attached
    entered,    \* exp.entered
    ttl,        \* exp.ttl
    when,       \* timer_when
    heap,       \* the objcores with timer_idx != BINHEAP_NOIDX
    lru,        \* lru_head
    \* --- struct sess
    pc,         \* where the session is
    kind,       \* hash_ignore_busy, hash_always_miss, esi_level > 0
    treq,       \* t_req
    hoh,        \* the objhead reference the session carries
    sobj,       \* sp->objcore, or the objcore of sp->obj
    nuked,      \* objects nuked by the running STV_NewObject
    \* --- calls in progress
    purge,      \* HSH_Purge: the objcores collected and not yet handled
    rearm,      \* HSH_Purge: the objcore about to be rearmed
    victim,     \* the objcore an actor is about to HSH_Deref
    dying       \* the objcore an actor took to zero references

hvars == <<ohref, objcs, waiting>>
ovars == <<ocref, head, busy, hasobj, entered, ttl>>
evars == <<when, heap, lru>>
svars == <<pc, kind, treq, hoh, sobj, nuked>>
cvars == <<purge, rearm, victim, dying>>
vars  == <<now, hvars, ovars, evars, svars, cvars>>

SessPC == {"idle", "scan", "wait", "esiwait", "hitref", "hit",
           "hitrearm", "deliver", "miss", "fetch", "body", "expref",
           "unbusy", "drop", "err", "errobj", "deleted"}

Init ==
    /\ now = 0
    /\ ohref = [k \in Key |-> 0]
    /\ objcs = [k \in Key |-> <<>>]
    /\ waiting = [k \in Key |-> <<>>]
    /\ ocref = [o \in Obj |-> 0]
    /\ head = [o \in Obj |-> None]
    /\ busy = [o \in Obj |-> FALSE]
    /\ hasobj = [o \in Obj |-> FALSE]
    /\ entered = [o \in Obj |-> 0]
    /\ ttl = [o \in Obj |-> 0]
    /\ when = [o \in Obj |-> 0]
    /\ heap = {}
    /\ lru = <<>>
    /\ pc = [s \in Sess |-> "idle"]
    /\ kind = [s \in Sess |-> "normal"]
    /\ treq = [s \in Sess |-> 0]
    /\ hoh = [s \in Sess |-> None]
    /\ sobj = [s \in Sess |-> None]
    /\ nuked = [s \in Sess |-> 0]
    /\ purge = [s \in Sess |-> {}]
    /\ rearm = [s \in Sess |-> None]
    /\ victim = [a \in Actor |-> None]
    /\ dying = [a \in Actor |-> None]

----------------------------------------------------------------------------
(* Lists.                                                                  *)

\* The elements of a list.
Elems(q) == {q[i] : i \in DOMAIN q}

\* VTAILQ_REMOVE of an element that occurs at most once.
Without(q, e) ==
    IF e \in Elems(q)
    THEN LET p == CHOOSE i \in DOMAIN q : q[i] = e
         IN  [i \in 1 .. Len(q) - 1 |-> IF i < p THEN q[i] ELSE q[i + 1]]
    ELSE q

\* The list without its first n elements.
Rest(q, n) == [i \in 1 .. Len(q) - n |-> q[i + n]]

Least(a, b) == IF a < b THEN a ELSE b

\* (mutation) the element stays where it is
InPlace(q, e) == q

\* VTAILQ_REMOVE and VTAILQ_INSERT_HEAD: the element moves to the front.
ToFront(q, e) == <<e>> \o Without(q, e)

----------------------------------------------------------------------------
(* Expiry times (EXP_Ttl, EXP_Grace, update_object_when).                  *)

\* A TTL as VCL sets it: anything not positive becomes -1.
EXP_Set_ttl(v, offset) == IF v > 0 /\ v + offset > 0 THEN v + offset ELSE -1

EXP_Ttl(o) == entered[o] + ttl[o]
EXP_Grace(o) == EXP_Ttl(o) + Grace

\* A session between two statements, with no call in progress.
AtStep(s, p) == /\ pc[s] = p
                /\ purge[s] = {}
                /\ rearm[s] = None
                /\ victim[s] = None
                /\ dying[s] = None

Goto(s, p) == pc' = [pc EXCEPT ![s] = p]

----------------------------------------------------------------------------
(* References.                                                             *)

\* (mutation) no reference is taken
NoRef(o) == ocref' = ocref

\* HSH_Ref, and the increment in HSH_Lookup.
HSH_Ref(o) == ocref' = [ocref EXCEPT ![o] = @ + 1]

\* hash->deref: hcl_deref, hsl_deref or hcb_deref.
hash_deref(k) == ohref' = [ohref EXCEPT ![k] = @ - 1]

\* (mutation) the session's reference is dropped, not inherited
DerefOnInherit(k) == ohref' = [ohref EXCEPT ![k] = @ - 1]

\* A new objcore inherits the objhead reference of its session: "do not deref".
InheritHeadRef(k) == ohref' = ohref

FreeObj == {o \in Obj : head[o] = None}

----------------------------------------------------------------------------
(* Waking up sessions (hsh_rush).                                          *)

\* (mutation) nobody is woken
NoRush(k, q, d) == d = 0 /\ q = 0

\* hsh_rush takes up to RushExponent sessions off the waiting list and
\* queues them for a worker.  When WRK_QueueSession fails, the session it
\* was called for is closed and deleted, and the rest stay on the list.
\* q sessions are queued and d (0 or 1) is lost.
RushOutcome(k, q, d) ==
    LET n == Least(RushExponent, Len(waiting[k])) IN
    \/ d = 0 /\ q = n
    \/ QueueMayFill /\ d = 1 /\ q \in 0 .. n - 1

Queued(k, q) == {waiting[k][i] : i \in 1 .. q}
Lost(k, q, d) == {waiting[k][i] : i \in q + 1 .. q + d}

\* Apply one outcome, when session or timer a runs it, leaving a at p.
hsh_rush(k, q, d, a, p) ==
    /\ waiting' = [waiting EXCEPT ![k] = Rest(@, q + d)]
    /\ pc' = [s \in Sess |-> CASE s \in Queued(k, q) -> "scan"
                               [] s \in Lost(k, q, d) -> "deleted"
                               [] s = a -> p
                               [] OTHER -> pc[s]]

----------------------------------------------------------------------------
(* HSH_Lookup.                                                             *)

\* A request reaches HSH_Lookup, some time after t_req was taken, and
\* hash->lookup() finds or creates its objhead and takes a reference.  Bound:
\* the pool has an objcore for every session that may still miss.
StartRequest(s) ==
    /\ AtStep(s, "idle")
    /\ Cardinality(FreeObj)
         > Cardinality({x \in Sess : pc[x] \in {"scan", "wait", "esiwait"}})
    /\ \E k \in Key, f \in Kinds, t \in 0 .. now :
          /\ ohref' = [ohref EXCEPT ![k] = @ + 1]
          /\ hoh' = [hoh EXCEPT ![s] = k]
          /\ kind' = [kind EXCEPT ![s] = f]
          /\ treq' = [treq EXCEPT ![s] = t]
    /\ Goto(s, "scan")
    /\ UNCHANGED <<now, objcs, waiting, ovars, evars, sobj, nuked, cvars>>

\* An ESI include does not go on the waiting list, it polls.
EsiPoll(s) ==
    /\ AtStep(s, "esiwait")
    /\ Goto(s, "scan")
    /\ UNCHANGED <<now, hvars, ovars, evars, kind, treq, hoh, sobj, nuked,
                   cvars>>

\* The three classes of objcores the loop over oh->objcs tells apart.
Cached(o) == ~busy[o] /\ ttl[o] > 0
Fresh(s, o) == Cached(o) /\ EXP_Ttl(o) >= treq[s]
InGrace(s, o) == Cached(o) /\ EXP_Grace(o) >= treq[s]

\* The objcores the loop looks at before it breaks on a fresh one.
Examined(s) ==
    LET q == objcs[hoh[s]] IN
    {i \in DOMAIN q : \A j \in 1 .. i : ~Fresh(s, q[j])}

\* The fresh object the loop breaks on (a set of at most one).
FreshHit(s) ==
    LET q == objcs[hoh[s]] IN
    {q[i] : i \in {j \in DOMAIN q : Fresh(s, q[j]) /\ \A h \in 1 .. j - 1 : ~Fresh(s, q[h])}}

\* (mutation) a busy objcore is not noticed
BlindToBusy(s) == FALSE

SeesBusy(s) ==
    /\ kind[s] # "ignore_busy"
    /\ \E i \in Examined(s) : busy[objcs[hoh[s]][i]]

\* The least expired object in grace, the first of them in list order.
GraceHit(s) ==
    LET q == objcs[hoh[s]]
        c == {i \in Examined(s) : InGrace(s, q[i])}
    IN  {q[i] : i \in {j \in c : \A h \in c :
                          \/ EXP_Ttl(q[h]) < EXP_Ttl(q[j])
                          \/ EXP_Ttl(q[h]) = EXP_Ttl(q[j]) /\ j <= h}}

\* What HSH_Lookup settles on, if the director's health is healthy.
Candidate(s, healthy) ==
    IF FreshHit(s) # {} THEN FreshHit(s)
    ELSE IF SeesBusy(s) \/ ~healthy THEN GraceHit(s)
    ELSE {}

LookupHit(s) ==
    /\ AtStep(s, "scan")
    /\ kind[s] # "always_miss"
    /\ \E healthy \in BOOLEAN, o \in Obj :
          /\ o \in Candidate(s, healthy)
          /\ HSH_Ref(o)
          /\ sobj' = [sobj EXCEPT ![s] = o]
    /\ kind' = [kind EXCEPT ![s] = "normal"]
    /\ Goto(s, "hitref")
    /\ UNCHANGED <<now, hvars, head, busy, hasobj, entered, ttl, evars, treq,
                   hoh, nuked, cvars>>

NoHit(s) ==
    \/ kind[s] = "always_miss"
    \/ \E healthy \in BOOLEAN : Candidate(s, healthy) = {}

\* The objhead reference transfers to the session.
LookupWait(s) ==
    /\ AtStep(s, "scan")
    /\ NoHit(s)
    /\ SeesBusy(s)
    /\ IF kind[s] = "esi"
       THEN Goto(s, "esiwait") /\ UNCHANGED waiting
       ELSE /\ waiting' = [waiting EXCEPT ![hoh[s]] = Append(@, s)]
            /\ Goto(s, "wait")
    /\ UNCHANGED <<now, ohref, objcs, ovars, evars, kind, treq, hoh, sobj,
                   nuked, cvars>>

\* A new busy objcore goes on the tail and inherits the objhead reference.
LookupMiss(s) ==
    /\ AtStep(s, "scan")
    /\ NoHit(s)
    /\ ~SeesBusy(s)
    /\ \E o \in FreeObj :
          /\ ocref' = [ocref EXCEPT ![o] = 1]
          /\ head' = [head EXCEPT ![o] = hoh[s]]
          /\ busy' = [busy EXCEPT ![o] = TRUE]
          /\ objcs' = [objcs EXCEPT ![hoh[s]] = Append(@, o)]
          /\ sobj' = [sobj EXCEPT ![s] = o]
    /\ InheritHeadRef(hoh[s])
    /\ hoh' = [hoh EXCEPT ![s] = None]
    /\ kind' = [kind EXCEPT ![s] = "normal"]
    /\ Goto(s, "miss")
    /\ UNCHANGED <<now, waiting, hasobj, entered, ttl, evars, treq,
                   nuked, cvars>>

\* After a hit, outside oh->mtx: hash->deref(oh), which must not be the last.
HitDerefHead(s) ==
    /\ AtStep(s, "hitref")
    /\ hash_deref(hoh[s])
    /\ hoh' = [hoh EXCEPT ![s] = None]
    /\ Goto(s, "hit")
    /\ UNCHANGED <<now, objcs, waiting, ovars, evars, kind, treq, sobj, nuked,
                   cvars>>

----------------------------------------------------------------------------
(* Using an object that was hit.                                           *)

\* Start giving up the session's own reference; the call itself is HSH_Deref.
GiveUpObj(s) ==
    /\ victim' = [victim EXCEPT ![s] = sobj[s]]
    /\ sobj' = [sobj EXCEPT ![s] = None]
    /\ treq' = [treq EXCEPT ![s] = 0]

\* The session has no more business with the cache.
EndRequest(s) ==
    /\ GiveUpObj(s)
    /\ Goto(s, "idle")
    /\ UNCHANGED <<now, hvars, ovars, kind, hoh, nuked, purge, rearm, dying>>

\* vcl_hit: "set obj.ttl" stores a TTL that counts from t_req ...
SetObjTtl(s) ==
    /\ VclSetsTtl
    /\ AtStep(s, "hit")
    /\ \E v \in TTL :
          ttl' = [ttl EXCEPT ![sobj[s]] = EXP_Set_ttl(v, treq[s] - entered[sobj[s]])]
    /\ Goto(s, "hitrearm")
    /\ UNCHANGED <<now, hvars, ocref, head, busy, hasobj, entered, evars,
                   kind, treq, hoh, sobj, nuked, cvars>>

\* (mutation) the heap keeps the old time
NoRearm(o) == when' = when

\* ... EXP_Rearm: an object the timer has taken off the heap is left alone.
EXP_Rearm(o) ==
    when' = IF o \in heap THEN [when EXCEPT ![o] = EXP_Grace(o)] ELSE when

HitRearm(s) ==
    /\ AtStep(s, "hitrearm")
    /\ EXP_Rearm(sobj[s])
    /\ Goto(s, "deliver")
    /\ UNCHANGED <<now, hvars, ovars, heap, lru, kind, treq, hoh, sobj, nuked,
                   cvars>>

\* vcl_hit without "set obj.ttl" and "purge": deliver the object.
HitDeliver(s) ==
    /\ AtStep(s, "hit")
    /\ Goto(s, "deliver")
    /\ UNCHANGED <<now, hvars, ovars, evars, kind, treq, hoh, sobj, nuked,
                   cvars>>

\* vcl_hit returns pass, error or restart, or the object is a hit-for-pass.
HitDrop(s) ==
    /\ AtStep(s, "hit")
    /\ EndRequest(s)
    /\ UNCHANGED evars

\* cnt_prepresp, where EXP_Touch may move the object to the tail of the LRU,
\* and cnt_deliver (or a restart from vcl_deliver).
Deliver(s) ==
    /\ AtStep(s, "deliver")
    /\ \/ UNCHANGED lru
       \/ /\ sobj[s] \in heap
          /\ lru' = Append(Without(lru, sobj[s]), sobj[s])
    /\ EndRequest(s)
    /\ UNCHANGED <<when, heap>>

----------------------------------------------------------------------------
(* Fetching an object after a miss.                                        *)

\* vcl_miss returns fetch.
Fetch(s) ==
    /\ AtStep(s, "miss")
    /\ Goto(s, "fetch")
    /\ UNCHANGED <<now, hvars, ovars, evars, kind, treq, hoh, sobj, nuked,
                   cvars>>

\* vcl_miss returns error or pass, FetchHdr fails, or vcl_fetch returns error
\* or restart: the bare objcore is dropped.
AbandonFetch(s) ==
    /\ AtStep(s, "miss") \/ (AtStep(s, "fetch") /\ nuked[s] = 0)
    /\ EndRequest(s)
    /\ UNCHANGED evars

\* STV_MkObject: attach an object to the session's objcore.
STV_MkObject(s, p, e, t) ==
    /\ hasobj' = [hasobj EXCEPT ![sobj[s]] = TRUE]
    /\ entered' = [entered EXCEPT ![sobj[s]] = e]
    /\ ttl' = [ttl EXCEPT ![sobj[s]] = t]
    /\ nuked' = [nuked EXCEPT ![s] = 0]
    /\ Goto(s, p)
    /\ UNCHANGED <<now, hvars, ocref, head, busy, evars, kind, treq, hoh,
                   sobj, cvars>>

\* cnt_fetchbody: STV_NewObject succeeds.
NewObject(s) ==
    /\ AtStep(s, "fetch")
    /\ \E t \in TTL : STV_MkObject(s, "body", now, EXP_Set_ttl(t, 0))

\* How the timer and EXP_NukeOne take an objcore from the expiry code.
OffHeapAndLru(o) == heap' = heap \ {o} /\ lru' = Without(lru, o)

\* EXP_NukeOne's scan: the first objcore on the LRU nobody else refers to.
NukeCandidates == {i \in DOMAIN lru : ocref[lru[i]] = 1}
NukeChoice == {lru[i] : i \in {j \in NukeCandidates : \A h \in NukeCandidates : j <= h}}

\* STV_NewObject's loop, "i < params->nuke_limit".
MayNuke(s) == nuked[s] < NukeLimit

\* STV_NewObject found no space: EXP_NukeOne takes an object off the LRU and
\* the heap, and goes on to dereference it.
EXP_NukeOne(s) ==
    /\ AtStep(s, "fetch") \/ AtStep(s, "err")
    /\ MayNuke(s)
    /\ \E o \in Obj :
          /\ o \in NukeChoice
          /\ OffHeapAndLru(o)
          /\ victim' = [victim EXCEPT ![s] = o]
    /\ nuked' = [nuked EXCEPT ![s] = @ + 1]
    /\ UNCHANGED <<now, hvars, ovars, when, pc, kind, treq, hoh, sobj, purge,
                   rearm, dying>>

NoSpace(s) == nuked[s] = NukeLimit \/ NukeChoice = {}

\* cnt_fetchbody: no storage, neither here nor on Transient.  The session
\* goes to STP_ERROR with the busy objcore still in sp->objcore.
NewObjectFails(s) ==
    /\ AtStep(s, "fetch")
    /\ NoSpace(s)
    /\ nuked' = [nuked EXCEPT ![s] = 0]
    /\ Goto(s, "err")
    /\ UNCHANGED <<now, hvars, ovars, evars, kind, treq, hoh, sobj, cvars>>

\* cnt_error: the error object takes over the busy objcore.
ErrorObject(s) ==
    /\ AtStep(s, "err")
    /\ STV_MkObject(s, "errobj", treq[s], -1)

\* cnt_error: "Out of objects".  The session is closed and deleted.
OutOfObjects(s) ==
    /\ StorageMayFail
    /\ AtStep(s, "err")
    /\ NoSpace(s)
    /\ nuked' = [nuked EXCEPT ![s] = 0]
    /\ Goto(s, "deleted")
    /\ UNCHANGED <<now, hvars, ovars, evars, kind, treq, hoh, sobj, cvars>>

\* vcl_error returns deliver: the object is sent, still busy.
ErrorDeliver(s) ==
    /\ AtStep(s, "errobj")
    /\ Goto(s, "deliver")
    /\ UNCHANGED <<now, hvars, ovars, evars, kind, treq, hoh, sobj, nuked,
                   cvars>>

\* FetchBody failed, or vcl_error or vcl_deliver restarts: HSH_Drop starts by
\* making the object unusable.
HSH_Drop(s) ==
    /\ AtStep(s, "body") \/ AtStep(s, "errobj")
    /\ ttl' = [ttl EXCEPT ![sobj[s]] = -1]
    /\ Goto(s, "drop")
    /\ UNCHANGED <<now, hvars, ocref, head, busy, hasobj, entered, evars,
                   kind, treq, hoh, sobj, nuked, cvars>>

\* cnt_streambody: FetchBody failed, the busy object is dereferenced as it is.
StreamFails(s) ==
    /\ AtStep(s, "body")
    /\ EndRequest(s)
    /\ UNCHANGED evars

\* EXP_Insert, first half: HSH_Ref under oh->mtx.
FetchedRef(s) ==
    /\ AtStep(s, "body")
    /\ HSH_Ref(sobj[s])
    /\ Goto(s, "expref")
    /\ UNCHANGED <<now, hvars, head, busy, hasobj, entered, ttl, evars, kind,
                   treq, hoh, sobj, nuked, cvars>>

\* EXP_Insert, second half: onto the heap and the LRU, under their locks.
EXP_Insert(s) ==
    /\ AtStep(s, "expref")
    /\ when' = [when EXCEPT ![sobj[s]] = EXP_Grace(sobj[s])]
    /\ heap' = heap \cup {sobj[s]}
    /\ lru' = Append(lru, sobj[s])
    /\ Goto(s, "unbusy")
    /\ UNCHANGED <<now, hvars, ovars, kind, treq, hoh, sobj, nuked, cvars>>

\* HSH_Unbusy: to the front of the list, not busy any more, rush.  HSH_Drop
\* then dereferences the object.
HSH_Unbusy(s) ==
    LET o == sobj[s]
        k == head[o]
    IN
    /\ AtStep(s, "unbusy") \/ AtStep(s, "drop")
    /\ objcs' = [objcs EXCEPT ![k] = ToFront(@, o)]
    /\ busy' = [busy EXCEPT ![o] = FALSE]
    /\ \E q \in 0 .. Len(waiting[k]), d \in 0 .. 1 :
          /\ RushOutcome(k, q, d)
          /\ hsh_rush(k, q, d, s, IF pc[s] = "drop" THEN "idle" ELSE "deliver")
    /\ IF pc[s] = "drop" THEN GiveUpObj(s) ELSE UNCHANGED <<sobj, victim,
                                                            treq>>
    /\ UNCHANGED <<now, ohref, ocref, head, hasobj, entered, ttl, evars, kind,
                   hoh, nuked, purge, rearm, dying>>

----------------------------------------------------------------------------
(* HSH_Deref.                                                              *)

\* An objcore without references leaves the list of its objhead.
Unlink(o) == objcs' = [objcs EXCEPT ![head[o]] = Without(@, o)]

HSH_Deref(a) ==
    LET o == victim[a]
        k == head[o]
    IN
    /\ o # None
    /\ ocref' = [ocref EXCEPT ![o] = @ - 1]
    /\ IF ocref[o] = 1
       THEN /\ Unlink(o)
            /\ dying' = [dying EXCEPT ![a] = o]
       ELSE UNCHANGED <<objcs, dying>>
    /\ \E q \in 0 .. Len(waiting[k]), d \in 0 .. 1 :
          /\ RushOutcome(k, q, d)
          /\ hsh_rush(k, q, d, None, "idle")
    /\ victim' = [victim EXCEPT ![a] = None]
    /\ UNCHANGED <<now, ohref, head, busy, hasobj, entered, ttl, evars, kind,
                   treq, hoh, sobj, nuked, purge, rearm>>

\* The last reference is gone: free the object and the objcore, and drop the
\* reference on the objhead (hash->deref, HSH_DeleteObjHead).
Destroy(a) ==
    LET o == dying[a] IN
    /\ o # None
    /\ hash_deref(head[o])
    /\ head' = [head EXCEPT ![o] = None]
    /\ busy' = [busy EXCEPT ![o] = FALSE]
    /\ hasobj' = [hasobj EXCEPT ![o] = FALSE]
    /\ entered' = [entered EXCEPT ![o] = 0]
    /\ ttl' = [ttl EXCEPT ![o] = 0]
    /\ when' = [when EXCEPT ![o] = 0]
    /\ dying' = [dying EXCEPT ![a] = None]
    /\ UNCHANGED <<now, objcs, waiting, ocref, heap, lru, svars, purge, rearm,
                   victim>>

----------------------------------------------------------------------------
(* HSH_Purge.                                                              *)

\* "We cannot purge busy objects".
Purgeable(k) == {o \in Obj : o \in Elems(objcs[k]) /\ ~busy[o]}

\* Under oh->mtx: take a reference to every objcore that is not busy.
PurgeCollect(s) ==
    LET c == Purgeable(head[sobj[s]]) IN
    /\ VclPurges
    /\ AtStep(s, "hit") \/ AtStep(s, "miss")
    /\ ocref' = [o \in Obj |-> IF o \in c THEN ocref[o] + 1 ELSE ocref[o]]
    /\ purge' = [purge EXCEPT ![s] = c]
    /\ Goto(s, IF pc[s] = "hit" THEN "deliver" ELSE "fetch")
    /\ UNCHANGED <<now, hvars, head, busy, hasobj, entered, ttl, evars, kind,
                   treq, hoh, sobj, nuked, rearm, victim, dying>>

\* Then, without the lock, for each of them: ttl = -1 ...
PurgeMark(s) ==
    /\ rearm[s] = None /\ victim[s] = None /\ dying[s] = None
    /\ \E o \in purge[s] :
          /\ ttl' = [ttl EXCEPT ![o] = -1]
          /\ rearm' = [rearm EXCEPT ![s] = o]
          /\ purge' = [purge EXCEPT ![s] = @ \ {o}]
    /\ UNCHANGED <<now, hvars, ocref, head, busy, hasobj, entered, evars,
                   svars, victim, dying>>

\* ... EXP_Rearm, and on to HSH_Deref.
PurgeRearm(s) ==
    /\ rearm[s] # None
    /\ EXP_Rearm(rearm[s])
    /\ victim' = [victim EXCEPT ![s] = rearm[s]]
    /\ rearm' = [rearm EXCEPT ![s] = None]
    /\ UNCHANGED <<now, hvars, ovars, heap, lru, svars, purge, dying>>

----------------------------------------------------------------------------
(* The timer thread and the clock.                                         *)

\* exp_timer: take the root of the heap when its time has come.
ExpTimer ==
    /\ victim[Timer] = None /\ dying[Timer] = None
    /\ \E o \in heap :
          /\ \A x \in heap : when[o] <= when[x]
          /\ when[o] <= now
          /\ OffHeapAndLru(o)
          /\ victim' = [victim EXCEPT ![Timer] = o]
    /\ UNCHANGED <<now, hvars, ovars, when, svars, purge, rearm, dying>>

Tick ==
    /\ now < MaxTime
    /\ now' = now + 1
    /\ UNCHANGED <<hvars, ovars, evars, svars, cvars>>

----------------------------------------------------------------------------

\* The steps a worker thread takes for session s once a request is running.
Lookup(s) == EsiPoll(s) \/ LookupHit(s) \/ LookupWait(s)
                \/ LookupMiss(s) \/ HitDerefHead(s)
Hit(s) == SetObjTtl(s) \/ HitRearm(s) \/ HitDeliver(s) \/ HitDrop(s)
             \/ Deliver(s)
Miss(s) == Fetch(s) \/ AbandonFetch(s) \/ NewObject(s) \/ EXP_NukeOne(s)
              \/ NewObjectFails(s) \/ ErrorObject(s) \/ OutOfObjects(s)
              \/ ErrorDeliver(s) \/ HSH_Drop(s) \/ StreamFails(s)
              \/ FetchedRef(s) \/ EXP_Insert(s) \/ HSH_Unbusy(s)
Purge(s) == PurgeCollect(s) \/ PurgeMark(s) \/ PurgeRearm(s)
Release(a) == HSH_Deref(a) \/ Destroy(a)

Worker(s) == Lookup(s) \/ Hit(s) \/ Miss(s) \/ Purge(s) \/ Release(s)

Next ==
    \/ \E s \in Sess : StartRequest(s) \/ Worker(s)
    \/ ExpTimer
    \/ Release(Timer)
    \/ Tick

Spec == Init /\ [][Next]_vars

\* Worker threads and the timer thread keep running; nobody has to send
\* requests and the clock may stop.
Fairness == /\ \A s \in Sess : WF_vars(Worker(s))
            /\ WF_vars(Release(Timer))

FairSpec == Spec /\ Fairness

----------------------------------------------------------------------------
(* Properties.                                                             *)

TypeOK ==
    /\ now \in 0 .. MaxTime
    /\ ohref \in [Key -> Int]
    /\ objcs \in [Key -> Seq(Obj)]
    /\ waiting \in [Key -> Seq(Sess)]
    /\ ocref \in [Obj -> Int]
    /\ head \in [Obj -> Key \cup {None}]
    /\ busy \in [Obj -> BOOLEAN]
    /\ hasobj \in [Obj -> BOOLEAN]
    /\ entered \in [Obj -> Nat]
    /\ ttl \in [Obj -> Int]
    /\ when \in [Obj -> Int]
    /\ heap \subseteq Obj
    /\ lru \in Seq(Obj)
    /\ pc \in [Sess -> SessPC]
    /\ kind \in [Sess -> KindNames]
    /\ treq \in [Sess -> Nat]
    /\ hoh \in [Sess -> Key \cup {None}]
    /\ sobj \in [Sess -> Obj \cup {None}]
    /\ nuked \in [Sess -> 0 .. NukeLimit]
    /\ purge \in [Sess -> SUBSET Obj]
    /\ rearm \in [Sess -> Obj \cup {None}]
    /\ victim \in [Actor -> Obj \cup {None}]
    /\ dying \in [Actor -> Obj \cup {None}]

\* The places where a session has an objcore in hand.
WithObjPC == {"hitref", "hit", "hitrearm", "deliver", "miss", "fetch", "body",
              "expref", "unbusy", "drop", "err", "errobj"}

\* At these places sp->objcore or sp->obj is not NULL.
HasObj == \A s \in Sess : pc[s] \in WithObjPC => sobj[s] # None

\* Who holds a reference to an objcore: the sessions using or filling it, a
\* purge in progress, an HSH_Deref not yet made, EXP_Insert, and the heap.
Users(o) == {s \in Sess : sobj[s] = o}
Purgers(o) == {s \in Sess : o \in purge[s] \/ rearm[s] = o}
Derefers(o) == {a \in Actor : victim[a] = o}
Inserters(o) == {s \in Sess : pc[s] = "expref" /\ sobj[s] = o}

\* Who holds a reference to an objhead: the sessions that carry one, and the
\* objcores hung from it.
Carriers(k) == {s \in Sess : hoh[s] = k}
Hung(k) == {o \in Obj : head[o] = k}

\* Every objcore's refcnt counts its holders, whatever the interleaving of
\* lookups, fetches, purges, nukes and the timer (HSH_Lookup, HSH_Ref,
\* HSH_Purge, HSH_Deref).
ObjcoreRefcnt ==
    \A o \in Obj :
        ocref[o] = Cardinality(Users(o)) + Cardinality(Purgers(o))
                     + Cardinality(Derefers(o)) + Cardinality(Inserters(o))
                     + (IF o \in heap THEN 1 ELSE 0)

\* Every objhead's refcnt counts the sessions that carry a reference and the
\* objcores hung from it (cache_hash.c:44-50).
ObjheadRefcnt ==
    \A k \in Key : ohref[k] = Cardinality(Carriers(k)) + Cardinality(Hung(k))

\* An objcore that is being freed, or is free, is out of everyone's reach:
\* not on an objhead, on the heap or on the LRU, not held by any actor, and
\* freed by one actor only (FREE_OBJ in HSH_Deref).
FreedUnreachable ==
    \A o \in Obj : ocref[o] = 0 =>
        /\ \A k \in Key : o \notin Elems(objcs[k])
        /\ o \notin heap
        /\ o \notin Elems(lru)
        /\ \A s \in Sess : sobj[s] # o /\ rearm[s] # o /\ o \notin purge[s]
        /\ \A a \in Actor : victim[a] # o
        /\ \A a, b \in Actor : dying[a] = o /\ dying[b] = o => a = b

\* When the slinger gives up an objhead, nothing hangs from it and nobody
\* waits on it (the assertions at the end of hcb_deref).
HeadEmptyWhenFreed ==
    \A k \in Key : ohref[k] = 0 => objcs[k] = <<>> /\ waiting[k] = <<>>

\* A session that hit an object may drop its objhead reference knowing that
\* it is not the last one (assert(hash->deref(oh)) in HSH_Lookup).
HitKeepsHead == \A s \in Sess : pc[s] = "hitref" => ohref[hoh[s]] > 1

\* An objcore with no object has no reference but its fetcher's, so dropping
\* it destroys it (AZ(HSH_Deref(...)) in cnt_miss and cnt_fetch, and
\* AN(oc->methods) in HSH_Deref).
BareObjcoreRefIsOne == \A o \in Obj : head[o] # None /\ ~hasobj[o] => ocref[o] <= 1

\* Any object on the LRU is also on the binheap and vice versa
\* (cache_expire.c:34), and is there once.
LruIffHeap == /\ Elems(lru) = heap
              /\ Len(lru) = Cardinality(heap)

\* Busy objcores stay behind the others on oh->objcs, so they will not trip
\* up searches (HSH_Lookup, HSH_Unbusy).
BusyAtTail ==
    \A k \in Key : \A i, j \in DOMAIN objcs[k] :
        i < j /\ busy[objcs[k][i]] => busy[objcs[k][j]]

\* If no request sets hash_ignore_busy or hash_always_miss, one session at
\* most is fetching for an objhead: the others wait or get an object in
\* grace (HSH_Lookup).
OneFetchPerHead ==
    Kinds \subseteq {"normal", "esi"} =>
        \A k \in Key : Cardinality({o \in Elems(objcs[k]) : busy[o]}) <= 1

\* The sessions whose next steps end in a rush of objhead k: those that were
\* taken off its waiting list, and those with an objcore of it in hand.
Rushers(k) ==
    {s \in Sess : /\ pc[s] # "deleted"
                  /\ \/ pc[s] \in {"scan", "hitref"} /\ hoh[s] = k
                     \/ sobj[s] # None /\ head[sobj[s]] = k
                     \/ victim[s] # None /\ head[victim[s]] = k}

\* A session on a waiting list is never forgotten: someone who will rush the
\* list is still at work (hsh_rush, called from HSH_Unbusy and HSH_Deref).
NoLostWakeup == \A k \in Key : waiting[k] # <<>> => Rushers(k) # {}

\* A session that has been deleted carries no reference to an objhead: "we get
\* it back when the sess comes off the waiting list" (cache_hash.c:448-451).
DeletedHoldsNoHead == \A s \in Sess : pc[s] = "deleted" => hoh[s] = None

\* A session that waits for a busy object is restarted "later when the busy
\* object isn't" (cache_center.c:1097-1100).
WaitersLeave == \A s \in Sess : pc[s] = "wait" ~> pc[s] # "wait"

\* The heap key of an object is the end of its grace period, except while a
\* session that changed the TTL is on its way to EXP_Rearm
\* (update_object_when, EXP_Insert, EXP_Rearm).
WhenCoherent ==
    \A o \in heap :
        \/ when[o] = EXP_Grace(o)
        \/ \E s \in Sess : rearm[s] = o \/ (pc[s] = "hitrearm" /\ sobj[s] = o)

\* An object that a purge has discarded is never used again: no step gives a
\* positive TTL back to an object in the cache (HSH_Purge, VRT_l_obj_ttl).
PurgedStaysPurged ==
    [][\A o \in Obj : ~busy[o] /\ ocref[o] > 0 /\ ttl[o] <= 0 => ttl'[o] <= 0]_vars

\* References are counted as the code's assertions expect: on objcores, on
\* objheads, and one only on an objcore without an object (cache_hash.c).
Refcounts == TypeOK /\ ObjcoreRefcnt /\ ObjheadRefcnt /\ BareObjcoreRefIsOne

\* Neither an objcore nor an objhead is given up while something can still
\* reach it (HSH_Deref, HSH_DeleteObjHead, the deref of the slinger).
NoneFreedInUse == FreedUnreachable /\ HeadEmptyWhenFreed /\ HitKeepsHead

\* The lists an object is on agree, although each has a lock of its own:
\* oh->objcs (cache_hash.c), the LRU and the heap (cache_expire.c).
ListsAgree == LruIffHeap /\ BusyAtTail /\ WhenCoherent
=============================================================================
