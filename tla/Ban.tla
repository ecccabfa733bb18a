-------------------------------- MODULE Ban --------------------------------
(***************************************************************************)
(* The ban list of varnishd, cache_ban.c: CLI and VCL threads insert bans  *)
(* and hunt down duplicates, lookups test an object against the bans newer *)
(* than the one it points to, the ban lurker does the same from the tail   *)
(* of the list, and destroying objects retires the oldest ban.             *)
(*                                                                         *)
(* Bans enter ban_head at the front and leave it at the back only, so the  *)
(* list is an interval of serial numbers: newest is its head, oldest its   *)
(* tail, and VTAILQ_NEXT(b) is b - 1.                                      *)
(*                                                                         *)
(* The walks of ban_check_object, BAN_Insert and ccf_ban_list hold no lock *)
(* on the list, so each step of a walk is an action. What happens under    *)
(* ban_mtx is one action. A walk of ban_check_object does hold the objhead *)
(* mutex of its object; every object has an objhead of its own here.       *)
(***************************************************************************)
EXTENDS Integers, FiniteSets

CONSTANTS
    Worker,         \* worker threads that look objects up
    Lurker,         \* the ban-lurker thread
    Inserter,       \* threads that insert bans: the CLI, workers in VRT_ban
    Obj,            \* a pool of objcores
    None,           \* the NULL pointer
    ObjSpec,        \* ban specs that test obj.http only
    ReqSpec,        \* ban specs with BAN_F_REQ: they test the request too
    MaxBan,         \* bound on the bans inserted
    BanDups,        \* params->ban_dups
    LurkerOn,       \* params->ban_lurker_sleep # 0
    VclSetsTtl,     \* does vcl_hit{} assign obj.ttl?
    CliLists        \* is the ban.list command used?

Checker == Worker \cup {Lurker}
Tests == ObjSpec \cup ReqSpec

ASSUME BanActors == /\ Lurker \notin Worker
                    /\ None \notin Checker \cup Inserter \cup Obj \cup Tests
                    /\ IsFiniteSet(Obj) /\ IsFiniteSet(Inserter)
ASSUME BanSpecs == ObjSpec \cap ReqSpec = {}
ASSUME BanBound == MaxBan \in Nat
ASSUME BanSwitches == {BanDups, LurkerOn, VclSetsTtl, CliLists} \subseteq BOOLEAN

BanId == 0 .. MaxBan        \* 0 is ban_magic

VARIABLES
    newest,     \* ban_start, the head of ban_head
    oldest,     \* VTAILQ_LAST(&ban_head)
    spec,       \* the tests of a ban (kept after it is freed)
    gone,       \* the bans flagged BAN_F_GONE
    refcount,   \* struct ban.refcount
    st,         \* where an objcore is in its life, see States
    ban,        \* objcore.ban
    birth,      \* the ban BAN_NewObjCore gave the objcore
    tags,       \* the members of ObjSpec that match the object's headers
    ttl,        \* exp.ttl > 0
    ocref,      \* objcore.refcnt
    walk,       \* ban_check_object in progress, one per checker
    holds,      \* the object a checker has a reference to
    hunt,       \* BAN_Insert hunting duplicates, one per inserter
    tailref     \* the ban_list command: tail reference and position

banvars == <<newest, oldest, spec, gone, refcount>>
objvars == <<st, ban, birth, tags, ttl, ocref>>
vars == <<newest, oldest, spec, gone, refcount, st, ban, birth, tags, ttl,
          ocref, walk, holds, hunt, tailref>>

\* busy: being fetched (OC_F_BUSY); off: taken off the expiry heap, kept by
\* other references; dead: off the objhead, not yet destroyed.
States == {"none", "busy", "cached", "off", "dead"}

Walk == [oc: Obj, b0: BanId, b: BanId, skipped: BOOLEAN,
         req: SUBSET ReqSpec, banned: BOOLEAN]
Hunt == [b: BanId, bi: BanId, be: BanId]
Listing == [bl: BanId, b: BanId]

\* NULL is no ban and no walk in progress.
ASSUME BanNull == None \notin BanId \cup Walk \cup Hunt \cup Listing

\* Somebody holds the mutex of o's objhead.
Locked(o) == \E w \in Checker : walk[w] # None /\ walk[w].oc = o

\* BAN_Init: ban_magic is the only ban and is GONE from the start.
Init ==
    /\ newest = 0 /\ oldest = 0
    /\ spec = [b \in BanId |-> None]
    /\ gone = {0}
    /\ refcount = [b \in BanId |-> 0]
    /\ st = [o \in Obj |-> "none"]
    /\ ban = [o \in Obj |-> None]
    /\ birth = [o \in Obj |-> 0]
    /\ tags = [o \in Obj |-> {}]
    /\ ttl = [o \in Obj |-> FALSE]
    /\ ocref = [o \in Obj |-> 0]
    /\ walk = [w \in Checker |-> None]
    /\ holds = [w \in Checker |-> None]
    /\ hunt = [i \in Inserter |-> None]
    /\ tailref = None

-----------------------------------------------------------------------------
(* Inserting a ban, and marking older bans with the same tests GONE.       *)

\* (mutation) the tail of the list is not referenced during the hunt.
NoTailHold(be) == refcount

\* be->refcount++ : the hunt must not run off the end of the list.
TailHold(be) == [refcount EXCEPT ![be] = @ + 1]

\* The part of BAN_Insert under ban_mtx. The ban was parsed by BAN_AddTest.
BAN_Insert(i, s) ==
    /\ hunt[i] = None
    /\ newest < MaxBan
    /\ newest' = newest + 1
    /\ spec' = [spec EXCEPT ![newest + 1] = s]
    /\ IF BanDups
         THEN /\ hunt' = [hunt EXCEPT
                            ![i] = [b |-> newest + 1, bi |-> newest + 1, be |-> oldest]]
              /\ refcount' = TailHold(oldest)
         ELSE UNCHANGED <<hunt, refcount>>
    /\ UNCHANGED <<oldest, gone, objvars, walk, holds, tailref>>

\* The ban the hunt moves to, if it has the tests of the ban inserted.
Duplicate(h) == IF spec[h.b] = spec[h.bi - 1] THEN {h.bi - 1} ELSE {}

\* One turn of the loop that hunts down duplicates. No lock is held.
HuntStep(i) ==
    /\ hunt[i] # None
    /\ hunt[i].bi # hunt[i].be
    /\ hunt' = [hunt EXCEPT ![i].bi = @ - 1]
    /\ gone' = gone \cup Duplicate(hunt[i])
    /\ UNCHANGED <<newest, oldest, spec, refcount, objvars, walk, holds, tailref>>

\* The hunt reached the tail: drop the reference to it.
HuntDone(i) ==
    /\ hunt[i] # None
    /\ hunt[i].bi = hunt[i].be
    /\ refcount' = [refcount EXCEPT ![hunt[i].be] = @ - 1]
    /\ hunt' = [hunt EXCEPT ![i] = None]
    /\ UNCHANGED <<newest, oldest, spec, gone, objvars, walk, holds, tailref>>

-----------------------------------------------------------------------------
(* Objects.                                                                *)

\* STV_MkObject gives the objcore of a fetch the newest ban.
BAN_NewObjCore(o, t) ==
    /\ st[o] = "none"
    /\ ban' = [ban EXCEPT ![o] = newest]
    /\ birth' = [birth EXCEPT ![o] = newest]
    /\ refcount' = [refcount EXCEPT ![newest] = @ + 1]
    /\ st' = [st EXCEPT ![o] = "busy"]
    /\ tags' = [tags EXCEPT ![o] = t]
    /\ ttl' = [ttl EXCEPT ![o] = TRUE]
    /\ ocref' = [ocref EXCEPT ![o] = 1]
    /\ UNCHANGED <<newest, oldest, spec, gone, walk, holds, hunt, tailref>>

\* HSH_Unbusy: the object is there (live) or the fetch failed and HSH_Drop
\* took its ttl away.
HSH_Unbusy(o, live) ==
    /\ st[o] = "busy"
    /\ st' = [st EXCEPT ![o] = "cached"]
    /\ ttl' = [ttl EXCEPT ![o] = live]
    /\ UNCHANGED <<banvars, ban, birth, tags, ocref, walk, holds, hunt, tailref>>

\* An objcore loses one reference, under the mutex of its objhead.
Deref(o, off) ==
    /\ ~Locked(o)
    /\ ocref' = [ocref EXCEPT ![o] = @ - 1]
    /\ st' = [st EXCEPT ![o] = IF ocref[o] = 1 THEN "dead" ELSE off]

\* exp_timer, EXP_NukeOne, or the rest of HSH_Drop: the reference that keeps
\* the object in the cache goes.
Evict(o) ==
    /\ st[o] = "cached"
    /\ Deref(o, "off")
    /\ UNCHANGED <<banvars, ban, birth, tags, ttl, walk, holds, hunt, tailref>>

\* A session is done with the object it hit, or the lurker with its own.
HSH_Deref(w) ==
    /\ holds[w] # None
    /\ walk[w] = None
    /\ Deref(holds[w], st[holds[w]])
    /\ holds' = [holds EXCEPT ![w] = None]
    /\ UNCHANGED <<banvars, ban, birth, tags, ttl, walk, hunt, tailref>>

\* ban_CheckLast: where the tail is after an attempt to retire it, when the
\* references are rc.
ban_CheckLast(rc) == IF oldest # newest /\ rc[oldest] = 0 THEN oldest + 1 ELSE oldest

\* (mutation) the ban keeps the reference of the object that dies.
KeepBanRef(o) == refcount

DropBanRef(o) == [refcount EXCEPT ![ban[o]] = @ - 1]

\* The objcore is off its objhead: give up its ban and retire the tail.
BAN_DestroyObj(o) ==
    /\ st[o] = "dead"
    /\ IF ban[o] = None
         THEN UNCHANGED <<refcount, ban, oldest>>
         ELSE /\ refcount' = DropBanRef(o)
              /\ ban' = [ban EXCEPT ![o] = None]
              /\ oldest' = ban_CheckLast(DropBanRef(o))
    /\ st' = [st EXCEPT ![o] = "none"]
    /\ ttl' = [ttl EXCEPT ![o] = FALSE]
    /\ UNCHANGED <<newest, spec, gone, birth, tags, ocref, walk, holds, hunt, tailref>>

-----------------------------------------------------------------------------
(* Testing an object against the bans.                                     *)

\* HSH_Lookup gets to BAN_CheckObject with o.
Examinable(o) == st[o] \in {"cached", "off"} /\ ttl[o] /\ ~Locked(o)

StartWalk(w, o, r) ==
    walk' = [walk EXCEPT ![w] = [oc |-> o, b0 |-> newest, b |-> newest,
                                 skipped |-> FALSE, req |-> r, banned |-> FALSE]]

\* BAN_CheckObject for a lookup: read ban_start once, into b0. An object that
\* has seen every ban is a hit without further ado.
BAN_CheckObject(w, o, r) ==
    /\ holds[w] = None /\ walk[w] = None
    /\ Examinable(o)
    /\ ban[o] # None
    /\ IF ban[o] = newest
         THEN /\ holds' = [holds EXCEPT ![w] = o]
              /\ ocref' = [ocref EXCEPT ![o] = @ + 1]
              /\ UNCHANGED walk
         ELSE /\ StartWalk(w, o, r)
              /\ UNCHANGED <<holds, ocref>>
    /\ UNCHANGED <<banvars, st, ban, birth, tags, ttl, hunt, tailref>>

\* ban_evaluate: do the tests of b match the object and the request?
ban_evaluate(w, b) == spec[b] \in walk[w].req \cup tags[walk[w].oc]

\* (mutation) a test that cannot be made counts as made.
NeverSkips(w, b) == FALSE

\* The lurker has no request to test with.
Skips(w, b) == w = Lurker /\ spec[b] \in ReqSpec

\* b != oc->ban
Unfinished(w) == walk[w].b # ban[walk[w].oc]

\* One turn of the loop of ban_check_object. No list lock is held.
WalkStep(w) ==
    /\ walk[w] # None /\ ~walk[w].banned
    /\ Unfinished(w)
    /\ LET b == walk[w].b
           match == b \notin gone /\ ~Skips(w, b) /\ ban_evaluate(w, b)
       IN walk' = [walk EXCEPT ![w] = [walk[w] EXCEPT
                     !.b = IF match THEN b ELSE b - 1,
                     !.banned = match,
                     !.skipped = walk[w].skipped \/ (b \notin gone /\ Skips(w, b))]]
    /\ UNCHANGED <<banvars, objvars, holds, hunt, tailref>>

\* The loop reached the object's ban but some tests were skipped: give up,
\* the object keeps its place. Only the lurker skips, and it has its reference.
WalkGiveUp(w) ==
    /\ walk[w] # None
    /\ walk[w].b = ban[walk[w].oc] /\ walk[w].skipped
    /\ walk' = [walk EXCEPT ![w] = None]
    /\ UNCHANGED <<banvars, objvars, holds, hunt, tailref>>

\* (mutation) the object is moved to ban_start as it is now.
MoveToStart(w) == newest

\* The ban an object that passed the tests is moved to.
MoveTo(w) == walk[w].b0

\* All bans tested, none matches: the object moves to b0, under ban_mtx. A
\* lookup then has a hit and takes a reference; the lurker has one already.
NotBanned(w) ==
    /\ walk[w] # None
    /\ LET o == walk[w].oc IN
       /\ walk[w].b = ban[o] /\ ~walk[w].skipped
       /\ refcount' = [refcount EXCEPT ![ban[o]] = @ - 1, ![MoveTo(w)] = @ + 1]
       /\ ban' = [ban EXCEPT ![o] = MoveTo(w)]
       /\ IF w = Lurker
            THEN UNCHANGED <<holds, ocref>>
            ELSE /\ holds' = [holds EXCEPT ![w] = o]
                 /\ ocref' = [ocref EXCEPT ![o] = @ + 1]
    /\ walk' = [walk EXCEPT ![w] = None]
    /\ UNCHANGED <<newest, oldest, spec, gone, st, birth, tags, ttl, hunt, tailref>>

\* A ban matches: the object loses its ban and EXP_Clr its ttl.
Banned(w) ==
    /\ walk[w] # None /\ walk[w].banned
    /\ LET o == walk[w].oc IN
       /\ refcount' = DropBanRef(o)
       /\ ban' = [ban EXCEPT ![o] = None]
       /\ ttl' = [ttl EXCEPT ![o] = FALSE]
    /\ walk' = [walk EXCEPT ![w] = None]
    /\ UNCHANGED <<newest, oldest, spec, gone, st, birth, tags, ocref, holds, hunt, tailref>>

\* vcl_hit{} assigns obj.ttl of an object the session hit earlier.
SetObjTtl(w) ==
    /\ VclSetsTtl
    /\ w \in Worker
    /\ holds[w] # None
    /\ ttl' = [ttl EXCEPT ![holds[w]] = TRUE]
    /\ UNCHANGED <<banvars, st, ban, birth, tags, ocref, walk, holds, hunt, tailref>>

-----------------------------------------------------------------------------
(* The lurker, and the ban_list command.                                   *)

LurkerIdle == LurkerOn /\ walk[Lurker] = None /\ holds[Lurker] = None

\* ban_lurker_work retires the tail when it can.
LurkerRetire ==
    /\ LurkerIdle
    /\ ban_CheckLast(refcount) # oldest
    /\ oldest' = ban_CheckLast(refcount)
    /\ UNCHANGED <<newest, spec, gone, refcount, objvars, walk, holds, hunt, tailref>>

\* The lurker finds o on the tail ban and gets the mutex of its objhead.
LurkerFinds(o) ==
    /\ LurkerIdle
    /\ ban_CheckLast(refcount) = oldest /\ oldest # newest
    /\ ban[o] = oldest
    /\ ~Locked(o)
    /\ st[o] \in {"busy", "cached", "off"}

\* It takes a reference, gets the object (oc_getobj asserts that the objcore
\* is not busy) and tests it, without a request.
LurkerPick(o) ==
    /\ LurkerFinds(o)
    /\ st[o] # "busy"
    /\ holds' = [holds EXCEPT ![Lurker] = o]
    /\ ocref' = [ocref EXCEPT ![o] = @ + 1]
    /\ StartWalk(Lurker, o, {})
    /\ UNCHANGED <<banvars, st, ban, birth, tags, ttl, hunt, tailref>>

\* ccf_ban_list: BAN_TailRef, a walk to the tail, BAN_TailDeref.
BAN_TailRef ==
    /\ CliLists
    /\ tailref = None
    /\ refcount' = TailHold(oldest)
    /\ tailref' = [bl |-> oldest, b |-> newest]
    /\ UNCHANGED <<newest, oldest, spec, gone, objvars, walk, holds, hunt>>

ListStep ==
    /\ tailref # None
    /\ tailref.b # tailref.bl
    /\ tailref' = [tailref EXCEPT !.b = @ - 1]
    /\ UNCHANGED <<banvars, objvars, walk, holds, hunt>>

BAN_TailDeref ==
    /\ tailref # None
    /\ tailref.b = tailref.bl
    /\ refcount' = [refcount EXCEPT ![tailref.bl] = @ - 1]
    /\ tailref' = None
    /\ UNCHANGED <<newest, oldest, spec, gone, objvars, walk, holds, hunt>>

-----------------------------------------------------------------------------
HuntNext(i) == HuntStep(i) \/ HuntDone(i)
WalkNext(w) == WalkStep(w) \/ WalkGiveUp(w) \/ NotBanned(w) \/ Banned(w)
ObjNext(o) == \/ \E t \in SUBSET ObjSpec : BAN_NewObjCore(o, t)
              \/ \E live \in BOOLEAN : HSH_Unbusy(o, live)
              \/ Evict(o) \/ BAN_DestroyObj(o)
LurkerNext == LurkerRetire \/ \E o \in Obj : LurkerPick(o)
ListNext == BAN_TailRef \/ ListStep \/ BAN_TailDeref

Next == \/ \E i \in Inserter : (\E s \in Tests : BAN_Insert(i, s)) \/ HuntNext(i)
        \/ \E w \in Checker : WalkNext(w) \/ HSH_Deref(w)
        \/ \E w \in Worker, o \in Obj, r \in SUBSET ReqSpec : BAN_CheckObject(w, o, r)
        \/ \E w \in Worker : SetObjTtl(w)
        \/ \E o \in Obj : ObjNext(o)
        \/ LurkerNext
        \/ ListNext

Spec == Init /\ [][Next]_vars

\* What runs on its own: hunts and walks end, sessions deliver, fetches end
\* (between_bytes_timeout), dead objcores are destroyed, and the lurker wakes up every ban_lurker_sleep.
Fairness ==
    /\ \A i \in Inserter : WF_vars(HuntNext(i))
    /\ \A w \in Checker : WF_vars(WalkNext(w)) /\ WF_vars(HSH_Deref(w))
    /\ \A o \in Obj : WF_vars(BAN_DestroyObj(o)) /\ WF_vars(\E live \in BOOLEAN : HSH_Unbusy(o, live))
    /\ WF_vars(LurkerNext)
FairSpec == Spec /\ Fairness

-----------------------------------------------------------------------------
(* Properties.                                                             *)

TypeOK ==
    /\ newest \in BanId /\ oldest \in BanId
    /\ spec \in [BanId -> Tests \cup {None}]
    /\ gone \subseteq BanId
    /\ refcount \in [BanId -> Int]
    /\ st \in [Obj -> States]
    /\ ban \in [Obj -> BanId \cup {None}]
    /\ birth \in [Obj -> BanId]
    /\ tags \in [Obj -> SUBSET ObjSpec]
    /\ ttl \in [Obj -> BOOLEAN]
    /\ ocref \in [Obj -> Int]
    /\ walk \in [Checker -> Walk \cup {None}]
    /\ holds \in [Checker -> Obj \cup {None}]
    /\ hunt \in [Inserter -> Hunt \cup {None}]
    /\ tailref \in Listing \cup {None}

\* Every ban counts the objects on its objcore list, the hunts that end at it
\* and the ban.list command that holds it: BAN_Free asserts AZ(refcount).
BanRefcnt ==
    \A b \in BanId :
        refcount[b] = Cardinality({o \in Obj : ban[o] = b})
                    + Cardinality({i \in Inserter : hunt[i] # None /\ hunt[i].be = b})
                    + (IF tailref # None /\ tailref.bl = b THEN 1 ELSE 0)

InList(b) == b \in oldest .. newest

\* "This loop is safe without locks" (ban_check_object): whatever the other
\* threads retire, every ban an object points to or an unlocked walk will
\* still visit is on the list, and no walk has run past its end point.
NoDanglingBan ==
    /\ \A o \in Obj : ban[o] # None => InList(ban[o])
    /\ \A w \in Checker : walk[w] # None =>
           /\ ban[walk[w].oc] # None
           /\ InList(walk[w].b0) /\ InList(walk[w].b)
           /\ walk[w].b >= ban[walk[w].oc]
    /\ \A i \in Inserter : hunt[i] # None =>
           /\ InList(hunt[i].be) /\ InList(hunt[i].b)
           /\ hunt[i].bi \in hunt[i].be .. hunt[i].b
    /\ tailref # None => InList(tailref.bl) /\ tailref.b \in tailref.bl .. newest

\* A ban marked GONE as a duplicate has a newer live ban with the same tests,
\* however the hunts of concurrent BAN_Inserts overlap.
GoneSuperseded ==
    \A b \in gone \ {0} :
        \E n \in BanId : b < n /\ n <= newest /\ spec[n] = spec[b] /\ n \notin gone

\* A ban that o has been moved past, and that matches its headers.
PassedMatch(o, b) == b \in birth[o] + 1 .. ban[o] /\ spec[b] \in tags[o]

\* A ban that matches an object is never lost: if an unlocked walk skipped it
\* because a hunt had just marked it GONE, the object still has the newer ban
\* with the same tests ahead of it.
BanNotForgotten ==
    \A o \in Obj, b \in BanId :
        ban[o] # None /\ PassedMatch(o, b)
          => \E n \in BanId : ban[o] < n /\ n <= newest /\ spec[n] = spec[b]

\* No object is served (moved past a ban inserted after it was created)
\* although that ban matches it. A lookup that races BAN_Insert of a
\* duplicate breaks this.
PassedBansMiss ==
    \A o \in Obj, b \in BanId : ban[o] # None => ~PassedMatch(o, b)

\* ban_check_object asserts that the object has a ban: nothing gives a banned
\* object a ttl again.
CheckedHasBan == \A o \in Obj : Examinable(o) => ban[o] # None

\* oc_getobj asserts AZ(oc->flags & OC_F_BUSY): an object the lurker finds on
\* the tail ban is not being fetched.
LurkerFindsIdle == \A o \in Obj : LurkerFinds(o) => st[o] # "busy"

\* The lurker has no request, so it never moves an object past a live ban that
\* tests one: only a lookup may.
LurkerLeavesReqBans ==
    [][ \A o \in Obj :
          /\ walk[Lurker] # None /\ walk[Lurker].oc = o
          /\ ban[o] # None /\ ban'[o] # None
          => \A b \in ban[o] + 1 .. ban'[o] : b \in gone \/ spec[b] \notin ReqSpec
      ]_vars

\* The lurker empties the list from the tail: a ban that is no longer the
\* newest is retired in the end, unless a live ban that needs a request to be
\* tested keeps the objects in their place or ban.list holds the tail.
LurkerHeldUp ==
    \/ \E b \in BanId : InList(b) /\ b \notin gone /\ spec[b] \in ReqSpec
    \/ tailref # None
BansRetire == \A b \in BanId : InList(b) /\ b < newest ~> ~InList(b) \/ LurkerHeldUp

\* The lurker does its work and no more (ban_lurker_work): bans retire, and
\* objects are not moved past bans that only a lookup can evaluate.
LurkerWorks == LurkerLeavesReqBans /\ BansRetire
=============================================================================
