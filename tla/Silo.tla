-------------------------------- MODULE Silo --------------------------------
(***************************************************************************)
(* The persistent stevedore (storage_persistent*.c): a silo is a file,     *)
(* mapped by the manager and by every child it starts, that holds two      *)
(* copies of the list of bans, two copies of the list of segments and the  *)
(* segments.  What a child has written survives its death; the list of     *)
(* segments in memory, the open segment and the counts do not.             *)
(*                                                                         *)
(* A table is [ok, list]: ok says that the signature which follows the     *)
(* list is right (smp_chk_sign).  Every store that changes what a later    *)
(* child would find is a step of its own, so that the child can die after  *)
(* each.  Offsets and lengths are counted in units of storage; the         *)
(* signatures inside a segment are left out.                               *)
(***************************************************************************)
EXTENDS Integers, Sequences

CONSTANTS Media,        \* the space for segments
          SegLen,       \* aim_segl: the length of a new segment
          Reserve,      \* free_reserve: the space smp_open makes free
          Sizes,        \* the sizes of the objects
          NewBans,      \* the bans that are added
          MaxSegments,  \* bound: the segments on the list
          MaxDeaths,    \* bound: the children that die
          BanChildren,  \* bound: the children to which bans are given
          Ready         \* does the child wait for SMP_Ready (diag_bitmap)?

\* The ban every child adds when it starts (ban_magic).
Magic == 0

ASSUME SiloAssumption ==
    /\ Media \in Nat /\ SegLen \in 1..Media /\ Reserve \in Nat
    /\ Sizes \subseteq Nat \ {0} /\ Magic \notin NewBans
    /\ MaxSegments \in Nat /\ MaxDeaths \in Nat /\ BanChildren \in Nat /\ Ready \in BOOLEAN

VARIABLES
    seg1, seg2,     \* the tables of segments in the file
    ban1, ban2,     \* the tables of bans in the file
    up,             \* is there a child?
    serving,        \* has it gone past BAN_Compile (and SMP_Ready)?
    segments,       \* sc->segments
    cur_seg,        \* is the last segment open?
    used,           \* the space taken in the open segment
    free_offset,
    loading,        \* the segment smp_thread is loading, or 0
    loaded,         \* SMP_SC_LOADED
    op,             \* what the holder of sc->mtx does next
    object,         \* the segment of an object between the two critical
                    \* sections of smp_allocobj, or 0
    ban,            \* what SMP_NewBan does next
    acked,          \* ghost: the bans that were added completely
    saved,          \* ghost: the list of the last complete smp_save_segs
    sound,          \* ghost: both tables of segments held that list since
    banSound,       \* ghost: both tables of bans were valid since
    deaths,         \* ghost: the children that died
    brim            \* ghost: in this silo a segment was put on the oldest one

disk == <<seg1, seg2, ban1, ban2>>
space == <<segments, cur_seg, used, free_offset>>
load == <<loading, loaded>>
tally == <<acked, saved, sound, banSound, brim>>
ghosts == <<tally, deaths>>
vars == <<disk, up, serving, space, load, op, object, ban, ghosts>>

-----------------------------------------------------------------------------
(* Tables *)

Table(ok, list) == [ok |-> ok, list |-> list]

\* What of a segment is saved (struct smp_segptr): idx stands for a nonzero
\* objlist, which only a closed segment has.
Ptr(s) == [off |-> s.off, len |-> s.len, idx |-> s.idx, lobj |-> s.lobj]

Ptrs == [i \in DOMAIN segments |-> Ptr(segments[i])]

\* The list of segments the next child takes: the first table if its
\* signature is right, else the second.
SegsRead == IF seg1.ok THEN seg1.list ELSE seg2.list

BansRead == IF ban1.ok THEN ban1.list ELSE ban2.list

smp_valid_silo == (ban1.ok \/ ban2.ok) /\ (seg1.ok \/ seg2.ok)

smp_segend(s) == s.off + s.len

Apart(s, r) == smp_segend(s) <= r.off \/ smp_segend(r) <= s.off

-----------------------------------------------------------------------------
(* Opening a silo *)

\* The gaps that are measured while segments are dropped from position i on:
\* between the end of the youngest and the oldest, and from the start of the
\* silo to the oldest.
GapAtTail(t, i) == t[i].off - smp_segend(t[Len(t)])

GapAtFront(t, i) == t[i].off

\* The loop that drops segments from position i on while `within' holds and
\* the gap is not larger than the reserve: where it stops, and the last gap
\* it measured (l0 if none).
DropWhile(t, i, l0, within(_), gap(_, _)) ==
    LET Stop == {j \in i..Len(t) :
                    /\ ~within(j) \/ gap(t, j) > Reserve
                    /\ \A k \in i..j-1 : within(k) /\ gap(t, k) <= Reserve}
        j == CHOOSE k \in Stop : TRUE
    IN [at |-> j, l |-> IF within(j) THEN gap(t, j)
                        ELSE IF j > i THEN gap(t, j - 1) ELSE l0]

\* smp_open_segs: the segments that are kept, where the next one goes, and
\* whether the assertion on the reserve holds.
smp_open_segs(t) ==
    IF t = <<>> THEN [ok |-> TRUE, list |-> <<>>, free |-> 0]
    ELSE LET n == Len(t)
             end == smp_segend(t[n])
             l == Media - end
             \* space between the ends
             d1 == IF t[1].off > t[n].off
                   THEN DropWhile(t, 1, l, LAMBDA j : j < n /\ t[j].off > t[n].off,
                                  GapAtTail)
                   ELSE [at |-> 1, l |-> l]
             \* space at the front
             d2 == IF d1.l < Reserve
                   THEN DropWhile(t, d1.at, d1.l, LAMBDA j : j < n, GapAtFront)
                   ELSE d1
         IN [ok |-> d2.l >= Reserve,
             list |-> SubSeq(t, d2.at, n),
             free |-> IF d1.l < Reserve THEN 0 ELSE end]

\* The assertions on the segments that are kept: each lies apart from the
\* first and from the one before it.
OrderAsserted(list) ==
    \A i \in 2..Len(list) : Apart(list[i], list[1]) /\ Apart(list[i], list[i-1])

\* A name for a new segment: its address, which no live pointer has.
FreshId == CHOOSE i \in 1..Len(segments)+3 :
               /\ i # object /\ i # loading
               /\ \A k \in DOMAIN segments : segments[k].id # i

\* Mutant of smp_new_seg: no test against the oldest segment after the wrap.
NewSegUntested(segs, free, id) ==
    LET off == IF free + SegLen > Media THEN 0 ELSE free
    IN [dies |-> free >= Media,
        brim |-> segs # <<>> /\ segs[1].off = free,
        segments |-> Append(segs, [id |-> id, off |-> off, len |-> SegLen, idx |-> FALSE,
                                   lobj |-> 0, nobj |-> 0, nalloc |-> 0, state |-> "new"]),
        free |-> off + SegLen]

\* smp_new_seg on the list segs with the free space at free: the outcome, or
\* dies when an assertion fails, the first segment is NULL or the child exits
\* to have the next one make space.
smp_new_seg(segs, free, id) ==
    LET wrap == free + SegLen > Media
        off == IF wrap THEN 0 ELSE free
        tight == off + SegLen > segs[1].off
        dies == \/ free >= Media
                \/ wrap /\ (segs = <<>> \/ tight)
                \/ segs # <<>> /\ segs[1].off > off /\ tight
    IN [dies |-> dies,
        brim |-> segs # <<>> /\ segs[1].off = off,
        segments |-> Append(segs, [id |-> id, off |-> off, len |-> SegLen, idx |-> FALSE,
                                   lobj |-> 0, nobj |-> 0, nalloc |-> 0, state |-> "new"]),
        free |-> off + SegLen]

\* The segments of a table as smp_open puts them on the list: not loaded, and
\* with a count of one that keeps smp_save_segs from dropping them.
MustLoad(list) ==
    [i \in DOMAIN list |-> [id |-> i, off |-> list[i].off, len |-> list[i].len,
                            idx |-> list[i].idx, lobj |-> list[i].lobj,
                            nobj |-> 1, nalloc |-> 0, state |-> "must"]]

\* smp_open as a whole: what it finds and the segment it opens.
Opened ==
    LET o == smp_open_segs(SegsRead)
        segs == MustLoad(o.list)
    IN [ok |-> smp_valid_silo /\ o.ok /\ OrderAsserted(o.list)
               /\ ~smp_new_seg(segs, o.free, Len(segs) + 1).dies,
        new |-> smp_new_seg(segs, o.free, Len(segs) + 1)]

-----------------------------------------------------------------------------
(* The life of a child *)

Holder(pc, then) == [pc |-> pc, then |-> then, n |-> 0, obj |-> FALSE, tries |-> 0]

Idle == Holder("idle", "none")

NoBan == [pc |-> "idle", b |-> Magic]

\* smp_mgt_init on a new file, and the start of a child: there is none yet.
Init ==
    /\ seg1 = Table(TRUE, <<>>) /\ seg2 = Table(TRUE, <<>>)
    /\ ban1 = Table(TRUE, {}) /\ ban2 = Table(TRUE, {})
    /\ up = FALSE /\ serving = FALSE
    /\ segments = <<>> /\ cur_seg = FALSE /\ used = 0 /\ free_offset = 0
    /\ loading = 0 /\ loaded = FALSE
    /\ op = Idle /\ object = 0 /\ ban = NoBan
    /\ acked = {} /\ saved = <<>> /\ sound = TRUE /\ banSound = TRUE
    /\ brim = FALSE /\ deaths = 0

\* The child is gone, and with it all that was not in the file.
Gone ==
    /\ up' = FALSE /\ serving' = FALSE
    /\ segments' = <<>> /\ cur_seg' = FALSE /\ used' = 0 /\ free_offset' = 0
    /\ loading' = 0 /\ loaded' = FALSE
    /\ op' = Idle /\ object' = 0 /\ ban' = NoBan
    /\ deaths' = deaths + 1

\* The child dies, at any point.
Crash ==
    /\ up
    /\ Gone
    /\ UNCHANGED <<disk, tally>>

\* A child opens the silo, opens a segment, starts the thread that loads the
\* objects and goes on to BAN_Compile.
smp_open ==
    /\ ~up /\ deaths < MaxDeaths /\ Opened.ok
    /\ up' = TRUE /\ serving' = FALSE
    /\ segments' = Opened.new.segments /\ free_offset' = Opened.new.free
    /\ cur_seg' = TRUE /\ used' = 0
    /\ loading' = 0 /\ loaded' = FALSE
    /\ op' = Idle /\ object' = 0
    /\ ban' = [pc |-> "data1", b |-> Magic]
    /\ saved' = SegsRead
    /\ sound' = (seg1.ok /\ seg1 = seg2)
    /\ banSound' = (ban1.ok /\ ban2.ok)
    /\ brim' = (brim \/ Opened.new.brim)
    /\ UNCHANGED <<disk, acked, deaths>>

\* The child dies in smp_open: an assertion fails, or it exits to make space.
OpenDies ==
    /\ ~up /\ ~Opened.ok
    /\ UNCHANGED vars

\* The manager is started again and finds no valid pair of tables: it makes
\* a new silo.
smp_newsilo ==
    /\ ~up /\ ~smp_valid_silo
    /\ seg1' = Table(TRUE, <<>>) /\ seg2' = Table(TRUE, <<>>)
    /\ ban1' = Table(TRUE, {}) /\ ban2' = Table(TRUE, {})
    /\ acked' = {} /\ saved' = <<>> /\ sound' = TRUE /\ banSound' = TRUE
    /\ brim' = FALSE
    /\ UNCHANGED <<up, serving, space, load, op, object, ban, deaths>>

\* The child has added its first ban and answers the manager.
Compiled == up /\ (serving \/ ban.pc = "idle")

\* The child is told to start serving; with the diagnostic bit it has waited
\* for its silos.
Serve ==
    /\ Compiled /\ ~serving
    /\ Ready => loaded
    /\ serving' = TRUE
    /\ UNCHANGED <<disk, up, space, load, op, object, ban, ghosts>>

-----------------------------------------------------------------------------
(* Saving the list of segments, under sc->mtx *)

\* smp_save_segs begins: empty segments at the front are dropped, except the
\* open one.
Pruned(segs, open) ==
    LET Keep == {i \in DOMAIN segs : segs[i].nobj > 0 \/ (open /\ i = Len(segs))}
        first == CHOOSE i \in Keep : \A k \in Keep : i <= k
    IN IF Keep = {} THEN <<>> ELSE SubSeq(segs, first, Len(segs))

Step(pc) == op' = [op EXCEPT !.pc = pc]

\* What the holder of the mutex does once the list is saved.
Then == IF op.then = "none" THEN op' = Idle ELSE op' = [op EXCEPT !.pc = op.then]

\* smp_save_seg on one table: the reset leaves a valid empty table, the list
\* is then written over its signature, and signed.
Reset(i) ==
    IF i = 1 THEN /\ seg1' = Table(TRUE, <<>>) /\ UNCHANGED seg2
    ELSE /\ seg2' = Table(TRUE, <<>>) /\ UNCHANGED seg1

Fill(i) ==
    IF i = 1 THEN /\ seg1' = Table(Ptrs = <<>>, Ptrs) /\ UNCHANGED seg2
    ELSE /\ seg2' = Table(Ptrs = <<>>, Ptrs) /\ UNCHANGED seg1

Sign(i) ==
    IF i = 1 THEN /\ seg1' = Table(TRUE, Ptrs) /\ UNCHANGED seg2
    ELSE /\ seg2' = Table(TRUE, Ptrs) /\ UNCHANGED seg1

\* Mutant of smp_save_segs: both tables are written, then both are signed.
SaveTogether ==
    /\ \/ op.pc = "reset1" /\ Reset(1) /\ Step("fill1")
       \/ op.pc = "fill1" /\ Fill(1) /\ Step("reset2")
       \/ op.pc = "reset2" /\ Reset(2) /\ Step("fill2")
       \/ op.pc = "fill2" /\ Fill(2) /\ Step("sign1")
       \/ op.pc = "sign1" /\ Sign(1) /\ Step("sign2")
       \/ op.pc = "sign2" /\ Sign(2) /\ Then
    /\ IF op.pc = "sign2" THEN saved' = Ptrs /\ sound' = TRUE
       ELSE UNCHANGED <<saved, sound>>
    /\ UNCHANGED <<ban1, ban2, up, serving, space, load, object, ban,
                   acked, banSound, brim, deaths>>

\* Mutant of smp_save_segs: the second table is not written.
SaveFirstOnly ==
    /\ \/ op.pc = "reset1" /\ Reset(1) /\ Step("fill1")
       \/ op.pc = "fill1" /\ Fill(1) /\ Step("sign1")
       \/ op.pc = "sign1" /\ Sign(1) /\ Then
    /\ IF op.pc = "sign1" THEN saved' = Ptrs /\ sound' = TRUE
       ELSE UNCHANGED <<saved, sound>>
    /\ UNCHANGED <<ban1, ban2, up, serving, space, load, object, ban,
                   acked, banSound, brim, deaths>>

\* smp_save_segs: one table after the other.
smp_save_segs ==
    /\ \/ op.pc = "reset1" /\ Reset(1) /\ Step("fill1")
       \/ op.pc = "fill1" /\ Fill(1) /\ Step("sign1")
       \/ op.pc = "sign1" /\ Sign(1) /\ Step("reset2")
       \/ op.pc = "reset2" /\ Reset(2) /\ Step("fill2")
       \/ op.pc = "fill2" /\ Fill(2) /\ Step("sign2")
       \/ op.pc = "sign2" /\ Sign(2) /\ Then
    /\ IF op.pc = "sign2" THEN saved' = Ptrs /\ sound' = TRUE
       ELSE UNCHANGED <<saved, sound>>
    /\ UNCHANGED <<ban1, ban2, up, serving, space, load, object, ban,
                   acked, banSound, brim, deaths>>

\* smp_close_seg: a segment without allocations is removed and nothing is
\* saved.  Another is shortened to what it holds when its index fits in what is
\* left, and only then, gets its index, and the list is saved.
smp_close_seg ==
    LET n == Len(segments)
        sg == segments[n]
        closed(l) == [segments EXCEPT ![n].len = l, ![n].idx = TRUE]
    IN /\ op.pc = "close"
       /\ cur_seg' = FALSE /\ used' = 0
       /\ \/ /\ sg.nalloc = 0
             /\ segments' = SubSeq(segments, 1, n - 1)
             /\ Then
             /\ UNCHANGED free_offset
          \/ /\ sg.nalloc > 0
             /\ \E l \in {used, sg.len} :
                   /\ segments' = Pruned(closed(l), FALSE)
                   /\ free_offset' = sg.off + l
             /\ Step("reset1")
       /\ UNCHANGED <<disk, up, serving, load, object, ban, ghosts>>

\* smp_new_seg after a segment was closed.
NewSeg ==
    LET new == smp_new_seg(segments, free_offset, FreshId)
    IN /\ op.pc = "new"
       /\ \/ /\ new.dies
             /\ Gone
             /\ UNCHANGED tally
          \/ /\ ~new.dies /\ Len(segments) < MaxSegments
             /\ segments' = new.segments /\ free_offset' = new.free
             /\ cur_seg' = TRUE /\ used' = 0
             /\ op' = IF op.n = 0 THEN Idle
                      ELSE [op EXCEPT !.pc = "try", !.tries = op.tries + 1]
             /\ brim' = (brim \/ new.brim)
             /\ UNCHANGED <<up, serving, load, object, ban,
                            acked, saved, sound, banSound, deaths>>
       /\ UNCHANGED disk

-----------------------------------------------------------------------------
(* The operations of the stevedore *)

\* smp_allocobj takes the mutex to find room for an object of n, and smp_alloc
\* to find room for storage, of which it takes what is convenient.
Allocate(n, obj) ==
    /\ serving /\ op.pc = "idle"
    /\ op' = [pc |-> "try", then |-> "new", n |-> n, obj |-> obj, tries |-> 0]
    /\ UNCHANGED <<disk, up, serving, space, load, object, ban, ghosts>>

smp_allocobj(n) == object = 0 /\ Allocate(n, TRUE)

smp_alloc == Allocate(1, FALSE)

\* smp_allocx: at most three times the open segment is closed and a new one
\* opened, until there is room, for an object also in the index.
smp_allocx ==
    LET n == Len(segments)
    IN /\ op.pc = "try"
       /\ \/ /\ op.tries < 3 /\ used + op.n <= SegLen
             /\ used' = used + op.n
             /\ segments' = [segments EXCEPT ![n].nalloc = 1,
                                             ![n].lobj = IF op.obj THEN @ + 1 ELSE @]
             /\ object' = IF op.obj THEN segments[n].id ELSE object
             /\ op' = Idle
          \/ /\ op.tries < 3 /\ used + op.n > SegLen
             /\ Step("close")
             /\ UNCHANGED <<used, segments, object>>
          \/ /\ op.tries = 3
             /\ op' = Idle
             /\ UNCHANGED <<used, segments, object>>
       /\ UNCHANGED <<disk, up, serving, cur_seg, free_offset, load, ban, ghosts>>

\* The second critical section of smp_allocobj counts the object in its
\* segment.  If that was closed and dropped in the meantime, freed memory is
\* counted up.
Commit ==
    /\ object # 0 /\ op.pc = "idle"
    /\ segments' = [i \in DOMAIN segments |->
                       IF segments[i].id = object
                       THEN [segments[i] EXCEPT !.nobj = @ + 1] ELSE segments[i]]
    /\ object' = 0
    /\ UNCHANGED <<disk, up, serving, cur_seg, used, free_offset, load, op, ban, ghosts>>

\* smp_oc_freeobj.
smp_oc_freeobj ==
    /\ serving /\ op.pc = "idle"
    /\ \E i \in DOMAIN segments :
          /\ segments[i].state \in {"new", "live"} /\ segments[i].nobj > 0
          /\ segments' = [segments EXCEPT ![i].nobj = @ - 1]
    /\ UNCHANGED <<disk, up, serving, cur_seg, used, free_offset, load, op, object, ban, ghosts>>

\* The command debug.persistent sync closes the open segment and opens a new
\* one, from the start of the child on.
debug_persistent ==
    /\ Compiled /\ op.pc = "idle"
    /\ op' = Holder("close", "new")
    /\ UNCHANGED <<disk, up, serving, space, load, object, ban, ghosts>>

\* The child stops: STV_close closes the open segment, and the child exits.
smp_close ==
    /\ Compiled /\ op.pc = "idle"
    /\ op' = Holder("close", "exit")
    /\ UNCHANGED <<disk, up, serving, space, load, object, ban, ghosts>>

Exit ==
    /\ op.pc = "exit"
    /\ Gone
    /\ UNCHANGED <<disk, tally>>

-----------------------------------------------------------------------------
(* smp_thread *)

\* The next segment that must be loaded.  One without an index keeps the
\* count it was given; the count of another starts from nothing.
LoadBegin ==
    /\ up /\ ~loaded /\ loading = 0
    /\ \E i \in DOMAIN segments :
          /\ segments[i].state = "must"
          /\ \A k \in 1..i-1 : segments[k].state # "must"
          /\ IF segments[i].idx
             THEN /\ segments' = [segments EXCEPT ![i].nobj = 0, ![i].state = "live"]
                  /\ loading' = segments[i].id
             ELSE /\ segments' = [segments EXCEPT ![i].state = "held"]
                  /\ UNCHANGED loading
    /\ UNCHANGED <<disk, up, serving, cur_seg, used, free_offset, loaded, op, object, ban, ghosts>>

\* Those of its objects that have not expired are counted.
LoadEnd ==
    /\ loading # 0
    /\ \E k \in 0..SegLen :
          /\ \A i \in DOMAIN segments : segments[i].id = loading => k <= segments[i].lobj
          /\ segments' = [i \in DOMAIN segments |->
                             IF segments[i].id = loading
                             THEN [segments[i] EXCEPT !.nobj = @ + k] ELSE segments[i]]
    /\ loading' = 0
    /\ UNCHANGED <<disk, up, serving, cur_seg, used, free_offset, loaded, op, object, ban, ghosts>>

Loaded ==
    /\ up /\ ~loaded /\ loading = 0
    /\ \A i \in DOMAIN segments : segments[i].state # "must"
    /\ loaded' = TRUE
    /\ UNCHANGED <<disk, up, serving, space, loading, op, object, ban, ghosts>>

\* Once a second the thread looks for an empty segment at the front.
smp_thread ==
    /\ loaded /\ op.pc = "idle" /\ cur_seg
    /\ segments # <<>> /\ segments[1].nobj = 0
    /\ segments' = Pruned(segments, TRUE)
    /\ op' = Holder("reset1", "none")
    /\ UNCHANGED <<disk, up, serving, cur_seg, used, free_offset, load, object, ban, ghosts>>

-----------------------------------------------------------------------------
(* Bans *)

\* BAN_Insert, under ban_mtx.
BAN_Insert(b) ==
    /\ serving /\ ban.pc = "idle" /\ b \notin acked /\ deaths < BanChildren
    /\ ban' = [pc |-> "data1", b |-> b]
    /\ UNCHANGED <<disk, up, serving, space, load, op, object, ghosts>>

\* smp_appendban: the ban is written over the signature, and before the table
\* is signed the length grows.  A child that dies in between leaves a table
\* without a valid signature, to which the next child appends after the ban or
\* in its place.
AppendData(t) == {Table(FALSE, t.list), Table(FALSE, t.list \cup {ban.b})}

AppendSign(t) == Table(TRUE, t.list \cup {ban.b})

BanStep(pc) == ban' = [ban EXCEPT !.pc = pc]

\* Mutant of SMP_NewBan: the ban is appended to the first table only.
NewBanFirstOnly ==
    /\ \/ ban.pc = "data1" /\ ban1' \in AppendData(ban1) /\ BanStep("sign1")
       \/ ban.pc = "sign1" /\ ban1' = AppendSign(ban1) /\ BanStep("idle")
    /\ IF ban.pc = "sign1" THEN acked' = acked \cup {ban.b} /\ banSound' = TRUE
       ELSE UNCHANGED <<acked, banSound>>
    /\ UNCHANGED <<seg1, seg2, ban2, up, serving, space, load, op, object,
                   saved, sound, brim, deaths>>

\* SMP_NewBan: one table after the other.
SMP_NewBan ==
    /\ \/ ban.pc = "data1" /\ ban1' \in AppendData(ban1) /\ UNCHANGED ban2 /\ BanStep("sign1")
       \/ ban.pc = "sign1" /\ ban1' = AppendSign(ban1) /\ UNCHANGED ban2 /\ BanStep("data2")
       \/ ban.pc = "data2" /\ ban2' \in AppendData(ban2) /\ UNCHANGED ban1 /\ BanStep("sign2")
       \/ ban.pc = "sign2" /\ ban2' = AppendSign(ban2) /\ UNCHANGED ban1 /\ BanStep("idle")
    /\ IF ban.pc = "sign2" THEN acked' = acked \cup {ban.b} /\ banSound' = TRUE
       ELSE UNCHANGED <<acked, banSound>>
    /\ UNCHANGED <<seg1, seg2, up, serving, space, load, op, object, saved, sound, brim, deaths>>

-----------------------------------------------------------------------------

\* As many children died as the bound allows.
Ended ==
    /\ ~up /\ deaths = MaxDeaths
    /\ UNCHANGED vars

Next ==
    \/ Crash \/ smp_open \/ OpenDies \/ smp_newsilo \/ Serve
    \/ smp_save_segs \/ smp_close_seg \/ NewSeg
    \/ smp_alloc \/ (\E n \in Sizes : smp_allocobj(n)) \/ smp_allocx \/ Commit
    \/ smp_oc_freeobj \/ debug_persistent \/ smp_close \/ Exit
    \/ LoadBegin \/ LoadEnd \/ Loaded \/ smp_thread
    \/ (\E b \in NewBans : BAN_Insert(b)) \/ SMP_NewBan
    \/ Ended

Spec == Init /\ [][Next]_vars

-----------------------------------------------------------------------------
(* Properties *)

Segment == [id : Nat \ {0}, off : 0..Media, len : 0..SegLen, idx : BOOLEAN,
            lobj : 0..SegLen, nobj : Nat, nalloc : {0, 1},
            state : {"new", "must", "held", "live"}]

TypeOK ==
    /\ \A t \in {seg1, seg2} : t.ok \in BOOLEAN /\ \A i \in DOMAIN t.list : t.list[i].len > 0
    /\ \A t \in {ban1, ban2} : t.ok \in BOOLEAN /\ t.list \subseteq NewBans \cup {Magic}
    /\ \A i \in DOMAIN segments : segments[i] \in Segment
    /\ used \in 0..SegLen /\ free_offset \in 0..Media
    /\ cur_seg => segments # <<>>

\* Whenever the child dies, the next one finds a valid table of segments and
\* a valid table of bans, if both tables of each kind were good when this
\* child began to write: smp_save_segs and SMP_NewBan never spoil the second
\* copy before the first is signed.
TablesUsable ==
    /\ TypeOK
    /\ up /\ sound => seg1.ok \/ seg2.ok
    /\ up /\ banSound => ban1.ok \/ ban2.ok

\* A ban whose insertion was completed is among the bans the next child
\* reloads, after any number of deaths at any point (SMP_NewBan,
\* smp_open_bans).
BansSurvive == ban1.ok \/ ban2.ok => acked \subseteq BansRead

\* The list of segments the next child takes is the one saved last, or the
\* one smp_save_segs is about to save; and only between the reset of the
\* first table and its contents is it the empty one.
ListSurvives ==
    up /\ sound =>
        \/ SegsRead = saved
        \/ /\ op.pc \in {"sign1", "reset2", "fill2", "sign2"}
           /\ SegsRead = Ptrs
        \/ /\ op.pc = "fill1" /\ SegsRead = <<>>

\* Space is not used again while the next child would still load objects from
\* it: no segment lies across another one, nor across one with an index that
\* smp_open would keep.  This is so until the free space ends exactly where the
\* oldest segment begins: then smp_new_seg finds nothing wrong, puts the new
\* segment on the oldest, and NeverOverlaid fails.
SpaceKept ==
    up /\ sound /\ ~brim =>
        /\ \A i, k \in DOMAIN segments : i < k => Apart(segments[i], segments[k])
        /\ LET kept == smp_open_segs(SegsRead).list
           IN \A j \in DOMAIN kept, i \in DOMAIN segments :
                 kept[j].idx => \/ Apart(kept[j], segments[i])
                                \/ kept[j].off = segments[i].off /\ segments[i].idx

-----------------------------------------------------------------------------
(* Statements of the code that do not hold; the README tells how each fails. *)

\* The segments of a saved list lie apart: assert(sg1->p.offset !=
\* sg->p.offset) and the assertions after it (storage_persistent.c:239-250),
\* which the next child evaluates on what it keeps of the list.
NeverOverlaid == ~up => OrderAsserted(smp_open_segs(SegsRead).list)

\* A child can open every silo whose tables are valid (the assertion on the
\* free reserve in smp_open_segs).
OpensAgain == smp_valid_silo /\ ~up => Opened.ok

\* A silo never becomes invalid, however often the child dies (the two copies
\* of each table).
StaysValid == ~up => smp_valid_silo

\* A segment stays on the list until it is loaded (the comment on the count
\* that smp_open_segs gives it).
LoadingStays == loading # 0 => \E i \in DOMAIN segments : segments[i].id = loading

\* smp_allocobj counts an object in a segment that is still there.
CommitFindsSegment == object # 0 => \E i \in DOMAIN segments : segments[i].id = object

=============================================================================
