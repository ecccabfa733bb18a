---------------------------- MODULE Silo_proofs ----------------------------
(***************************************************************************)
(* What survives the death of a child: proofs about the two copies of the  *)
(* tables in a silo, for any size of the silo and of its segments, any set *)
(* of objects and bans, and any number of children.                        *)
(***************************************************************************)
EXTENDS Silo, TLAPS, SequenceTheorems, FiniteSetTheorems, WellFoundedInduction

\* What a table of segments holds of one of them.
Pointer == [off : 0..Media, len : 1..SegLen, idx : BOOLEAN, lobj : 0..SegLen]

\* A segment, or a pointer to one, began as long as any: there was room for it.
Inside(s) == s.off + SegLen <= Media

SegTable(t) ==
    /\ t \in [ok : BOOLEAN, list : Seq(Pointer)]
    /\ \A i \in 1..Len(t.list) : Inside(t.list[i])

BanTable(t) == t \in [ok : BOOLEAN, list : SUBSET (NewBans \cup {Magic})]

\* The list in memory: every segment has room, and the open one is the last.
Listed(segs) ==
    /\ segs \in Seq(Segment)
    /\ \A i \in 1..Len(segs) : segs[i].len > 0 /\ Inside(segs[i])

OpenSegment ==
    cur_seg => /\ segments # <<>>
               /\ segments[Len(segments)].len = SegLen
               /\ segments[Len(segments)].lobj <= used
               /\ segments[Len(segments)].nalloc # 0 => used > 0

Saving == {"fill1", "sign1", "reset2", "fill2", "sign2"}

HolderType == [pc : {"idle", "try", "close", "reset1", "new", "exit"} \cup Saving,
               then : {"none", "new", "exit"},
               n : Nat, obj : BOOLEAN, tries : Nat]

\* Where the open segment is while the mutex is handed from step to step.
HolderOK ==
    /\ op \in HolderType
    /\ up /\ op.pc \in {"idle", "try", "close"} => cur_seg
    /\ op.pc \in {"reset1"} \cup Saving /\ op.then = "none" => cur_seg
    /\ op.pc \in {"try", "close", "new"} => op.then # "none"
    /\ op.pc = "try" => op.n > 0
    /\ ~up => op = Idle
    /\ serving => up
    /\ cur_seg => up

Stored == Table(TRUE, saved)

\* How far smp_save_segs is with the two tables.
SegProtocol ==
    up => /\ op.pc \notin Saving /\ sound => seg1 = Stored /\ seg2 = Stored
          /\ op.pc \in {"fill1", "sign1", "reset2"} /\ sound => seg2 = Stored
          /\ op.pc = "fill1" => seg1 = Table(TRUE, <<>>)
          /\ op.pc = "sign1" => seg1 = Table(Ptrs = <<>>, Ptrs)
          /\ op.pc \in {"reset2", "fill2", "sign2"} => seg1 = Table(TRUE, Ptrs)

\* How far SMP_NewBan is with the two tables: a completed ban is in both, signed
\* or not, and the second is not touched before the first is signed.
BanProtocol ==
    /\ ban \in [pc : {"idle", "data1", "sign1", "data2", "sign2"},
                b : NewBans \cup {Magic}]
    /\ acked \subseteq ban1.list /\ acked \subseteq ban2.list
    /\ ban.pc \in {"data2", "sign2"} => ban1.ok /\ ban.b \in ban1.list
    /\ up /\ banSound /\ ban.pc \in {"idle", "data1"} => ban1.ok /\ ban2.ok
    /\ up /\ banSound /\ ban.pc = "sign1" => ban2.ok
    /\ ~up => ban.pc = "idle"

SegFlags == up \in BOOLEAN /\ serving \in BOOLEAN /\ cur_seg \in BOOLEAN /\ sound \in BOOLEAN

SegNumbers == used \in 0..SegLen /\ free_offset \in 0..Media

\* Segments, from the oldest to the youngest, go round the silo once: those before
\* the end of the silo, then those from its start up to the oldest.
Wrapped(q, i) == q[i].off < q[1].off

Ring(q) ==
    \A i, k \in 1..Len(q) : i < k =>
        /\ Wrapped(q, i) => Wrapped(q, k)
        /\ Wrapped(q, k) /\ ~Wrapped(q, i) => smp_segend(q[k]) <= q[1].off
        /\ Wrapped(q, k) = Wrapped(q, i) => smp_segend(q[i]) <= q[k].off

\* The next segment goes after the youngest, or already before the oldest.
FreeAt(q, free) ==
    q # <<>> =>
        \/ /\ smp_segend(q[Len(q)]) <= free
           /\ Wrapped(q, Len(q)) => free <= q[1].off
        \/ ~Wrapped(q, Len(q)) /\ free <= q[1].off

\* What the next child would keep of the list saved last, with an index.
Indexed == LET kept == smp_open_segs(saved).list
           IN {kept[j] : j \in {j \in 1..Len(kept) : kept[j].idx}}

SameSpace(e, s) == e.off = s.off /\ e.len = s.len /\ s.idx

\* Those of E are on the list q, and what is on the list lies apart from them.
AllOn(E, q) == \A e \in E : \E i \in 1..Len(q) : SameSpace(e, q[i])

ClearOf(E, q) == \A e \in E : \A i \in 1..Len(q) : Apart(e, q[i]) \/ SameSpace(e, q[i])

\* Nothing is put on the segments the next child would keep: outside
\* smp_save_segs they are all on the list.
SpaceInv ==
    /\ Ring(seg1.list) /\ Ring(seg2.list) /\ Ring(segments)
    /\ FreeAt(segments, free_offset)
    /\ cur_seg => ~segments[Len(segments)].idx
    /\ up /\ sound => ClearOf(Indexed, segments)
    /\ up /\ sound /\ op.pc \notin {"reset1"} \cup Saving => AllOn(Indexed, segments)

SegType == SegTable(seg1) /\ SegTable(seg2) /\ Listed(segments) /\ SegFlags /\ SegNumbers

SegsOK == SegType /\ OpenSegment /\ HolderOK /\ SegProtocol

BansOK == BanTable(ban1) /\ BanTable(ban2) /\ BanProtocol /\ banSound \in BOOLEAN /\ up \in BOOLEAN

\* The inductive invariant.
SiloInv == SegsOK /\ BansOK

USE SiloAssumption

----------------------------------------------------------------------------
(* What the model's operators return.                                      *)

\* A nonempty set of positions has a first one.
LEMMA FirstIndex ==
    ASSUME NEW T \in SUBSET Nat, T # {}
    PROVE  \E m \in T : \A n \in T : m <= n
<1>1. PICK m \in T : \A n \in T : ~ (<<n, m>> \in OpToRel(<, Nat))
  BY NatLessThanWellFounded, WFMin
<1>2. ASSUME NEW n \in T, n < m PROVE FALSE
  <2>1. <<n, m>> \in OpToRel(<, Nat)
    BY <1>2 DEF OpToRel
  <2> QED
    BY <1>1, <1>2, <2>1
<1> QED
  BY <1>2

\* Part of a sequence, to its end.
LEMMA Suffix ==
    ASSUME NEW S, NEW q \in Seq(S), NEW i \in 1..Len(q)
    PROVE  /\ SubSeq(q, i, Len(q)) \in Seq(S)
           /\ Len(SubSeq(q, i, Len(q))) = Len(q) - i + 1
           /\ \A j \in 1..Len(q) - i + 1 : SubSeq(q, i, Len(q))[j] = q[j + i - 1]
<1>1. Len(q) \in Nat
  BY LenProperties
<1>2. \A j \in i..Len(q) : q[j] \in S
  BY ElementOfSeq, <1>1
<1> QED
  BY <1>1, <1>2, SubSeqProperties

\* p is a part of q, up to its end.
PartOf(p, q) ==
    p = <<>> \/ \E a \in 1..Len(q) : /\ Len(p) = Len(q) - a + 1
                                     /\ \A j \in 1..Len(p) : p[j] = q[j + a - 1]

\* Pruned keeps a part of the list up to its end, with the open segment.
LEMMA PrunedKeeps ==
    ASSUME NEW segs, Listed(segs), NEW open \in BOOLEAN
    PROVE  /\ Listed(Pruned(segs, open)) /\ PartOf(Pruned(segs, open), segs)
           /\ open /\ segs # <<>> => 
                 /\ Pruned(segs, open) # <<>>
                 /\ Pruned(segs, open)[Len(Pruned(segs, open))] = segs[Len(segs)]
<1> DEFINE Keep == {i \in DOMAIN segs : segs[i].nobj > 0 \/ (open /\ i = Len(segs))}
           first == CHOOSE i \in Keep : \A k \in Keep : i <= k
           p == SubSeq(segs, first, Len(segs))
<1>1. segs \in Seq(Segment) /\ Len(segs) \in Nat /\ DOMAIN segs = 1..Len(segs)
  BY LenProperties DEF Listed
<1>2. Pruned(segs, open) = IF Keep = {} THEN <<>> ELSE p
  BY DEF Pruned
<1>3. CASE Keep = {}
  <2>1. Pruned(segs, open) = <<>>
    BY <1>2, <1>3
  <2>2. open => segs = <<>>
    <3>1. ASSUME open, segs # <<>> PROVE FALSE
      <4>1. Len(segs) \in DOMAIN segs
        BY <1>1, <3>1, EmptySeq
      <4> QED
        BY <4>1, <3>1, <1>3
    <3> QED
      BY <3>1
  <2>3. Listed(<<>>)
    BY EmptySeq DEF Listed
  <2> QED
    BY <2>1, <2>2, <2>3 DEF PartOf
<1>4. CASE Keep # {}
  <2>1. Keep \in SUBSET Nat
    BY <1>1
  <2>2. \E i \in Keep : \A k \in Keep : i <= k
    BY <2>1, <1>4, FirstIndex
  <2>3. first \in Keep
    BY <2>2
  <2>4. first \in 1..Len(segs)
    BY <2>3, <1>1
  <2> HIDE DEF first
  <2>5. /\ p \in Seq(Segment) /\ Len(p) = Len(segs) - first + 1
        /\ \A j \in 1..Len(segs) - first + 1 : p[j] = segs[j + first - 1]
    BY <1>1, <2>4, Suffix
  <2>6. Pruned(segs, open) = p
    BY <1>2, <1>4
  <2>7. \A i \in 1..Len(segs) : segs[i].len > 0 /\ Inside(segs[i])
    BY DEF Listed
  <2> HIDE DEF p, Keep
  <2>8. \A j \in 1..Len(p) : p[j].len > 0 /\ Inside(p[j])
    BY <2>4, <2>5, <2>7, <1>1
  <2>9. p[Len(p)] = segs[Len(segs)] /\ Len(p) > 0
    <3>1. Len(p) > 0 /\ Len(p) \in 1..Len(segs) - first + 1 /\ Len(p) + first - 1 = Len(segs)
      BY <2>4, <2>5, <1>1
    <3> QED
      BY <3>1, <2>5
  <2>10. p # <<>>
    BY <2>9, <2>5, EmptySeq
  <2>11. PartOf(p, segs)
    BY <2>4, <2>5 DEF PartOf
  <2> QED
    BY <2>5, <2>6, <2>8, <2>9, <2>10, <2>11 DEF Listed
<1> QED
  BY <1>3, <1>4

\* What smp_save_segs writes is a table of segments.
LEMMA PtrsTyped ==
    ASSUME Listed(segments), NEW ok \in BOOLEAN
    PROVE  SegTable(Table(ok, Ptrs))
<1>1. segments \in Seq(Segment) /\ Len(segments) \in Nat /\ DOMAIN segments = 1..Len(segments)
  BY LenProperties DEF Listed
<1>2. ASSUME NEW i \in 1..Len(segments)
      PROVE  Ptr(segments[i]) \in Pointer /\ Inside(Ptr(segments[i]))
  <2>1. segments[i] \in Segment
    BY <1>1, ElementOfSeq
  <2>2. segments[i].len > 0 /\ Inside(segments[i])
    BY DEF Listed
  <2> QED
    BY <2>1, <2>2 DEF Ptr, Pointer, Inside, smp_segend, Segment
<1>3. Ptrs = [i \in 1..Len(segments) |-> Ptr(segments[i])]
  BY <1>1 DEF Ptrs
<1>4. Ptrs \in Seq(Pointer) /\ Len(Ptrs) = Len(segments)
  <2>1. Ptrs \in [1..Len(segments) -> Pointer]
    BY <1>2, <1>3
  <2> QED
    BY <2>1, <1>1
<1>5. \A i \in 1..Len(Ptrs) : Inside(Ptrs[i])
  BY <1>2, <1>3, <1>4
<1> QED
  BY <1>4, <1>5 DEF Table, SegTable

\* There is a name for a new segment: each segment on the list, and the two
\* pointers besides, spoil one of the Len(segments) + 3 names.
LEMMA FreshIdTyped ==
    ASSUME Listed(segments)
    PROVE  FreshId \in Nat \ {0}
<1> DEFINE n == Len(segments)
           R == [i \in 1..n+2 |-> IF i = n + 1 THEN object
                                  ELSE IF i = n + 2 THEN loading ELSE segments[i].id]
           Taken == {R[i] : i \in 1..n+2}
<1>1. n \in Nat /\ DOMAIN segments = 1..n
  BY LenProperties DEF Listed
<1>2. Cardinality(Taken) <= n + 2 /\ IsFiniteSet(Taken)
  <2>1. R \in Surjection(1..n+2, Taken)
    BY DEF Surjection
  <2>2. IsFiniteSet(1..n+2) /\ Cardinality(1..n+2) = n + 2
    BY FS_Interval, <1>1
  <2> HIDE DEF R, Taken
  <2> QED
    BY <2>1, <2>2, FS_Surjection
<1>3. \E i \in 1..n+3 : i \notin Taken
  <2>1. SUFFICES ASSUME 1..n+3 \subseteq Taken PROVE FALSE
    OBVIOUS
  <2>2. IsFiniteSet(1..n+3) /\ Cardinality(1..n+3) = n + 3
    BY FS_Interval, <1>1
  <2>3. Cardinality(1..n+3) <= Cardinality(Taken)
    BY <1>2, <2>1, FS_Subset
  <2>4. Cardinality(Taken) \in Nat
    BY <1>2, FS_CardinalityType
  <2> QED
    BY <1>1, <1>2, <2>2, <2>3, <2>4
<1>4. object \in Taken /\ loading \in Taken /\ \A k \in 1..n : segments[k].id \in Taken
  <2>1. R[n+1] = object /\ R[n+2] = loading /\ \A k \in 1..n : R[k] = segments[k].id
    BY <1>1
  <2>2. n+1 \in 1..n+2 /\ n+2 \in 1..n+2 /\ 1..n \subseteq 1..n+2
    BY <1>1
  <2> HIDE DEF R
  <2> QED
    BY <2>1, <2>2
<1> HIDE DEF Taken
<1>5. \E i \in 1..n+3 : /\ i # object /\ i # loading
                        /\ \A k \in DOMAIN segments : segments[k].id # i
  BY <1>1, <1>3, <1>4
<1>6. FreshId \in 1..n+3
  BY <1>5 DEF FreshId
<1> QED
  BY <1>1, <1>6

\* smp_new_seg adds one segment, which is within the silo and has nothing in it.
LEMMA NewSegTyped ==
    ASSUME NEW segs, Listed(segs), NEW free \in 0..Media, NEW id \in Nat \ {0},
           ~smp_new_seg(segs, free, id).dies
    PROVE  LET new == smp_new_seg(segs, free, id)
           IN /\ Listed(new.segments)
              /\ new.free \in 0..Media
              /\ new.segments # <<>>
              /\ new.segments[Len(new.segments)].len = SegLen
              /\ new.segments[Len(new.segments)].lobj = 0
              /\ new.segments[Len(new.segments)].nalloc = 0
<1> DEFINE off == IF free + SegLen > Media THEN 0 ELSE free
           sg == [id |-> id, off |-> off, len |-> SegLen, idx |-> FALSE,
                  lobj |-> 0, nobj |-> 0, nalloc |-> 0, state |-> "new"]
           new == smp_new_seg(segs, free, id)
           q == Append(segs, sg)
<1>1. new.segments = q /\ new.free = off + SegLen
  BY DEF smp_new_seg
<1>2. off \in 0..Media /\ off + SegLen \in 0..Media
  OBVIOUS
<1> HIDE DEF off
<1>3. sg \in Segment /\ sg.len > 0 /\ Inside(sg)
  BY <1>2 DEF Segment, Inside, smp_segend
<1>4. sg.len = SegLen /\ sg.lobj = 0 /\ sg.nalloc = 0
  OBVIOUS
<1> HIDE DEF sg
<1>5. segs \in Seq(Segment) /\ Len(segs) \in Nat
  BY LenProperties DEF Listed
<1>6. /\ q \in Seq(Segment) /\ Len(q) = Len(segs) + 1
      /\ \A i \in 1..Len(segs) : q[i] = segs[i]
      /\ q[Len(segs) + 1] = sg
  BY <1>3, <1>5, AppendProperties
<1>7. \A i \in 1..Len(segs) : segs[i].len > 0 /\ Inside(segs[i])
  BY DEF Listed
<1>8. q # <<>> /\ q[Len(q)] = sg
  BY <1>5, <1>6, EmptySeq
<1> HIDE DEF q
<1>9. \A i \in 1..Len(q) : q[i].len > 0 /\ Inside(q[i])
  <2>1. SUFFICES ASSUME NEW i \in 1..Len(q) PROVE q[i].len > 0 /\ Inside(q[i])
    OBVIOUS
  <2>2. CASE i = Len(segs) + 1
    BY <1>3, <1>6, <2>2
  <2>3. CASE i \in 1..Len(segs)
    BY <1>6, <1>7, <2>3
  <2> QED
    BY <2>2, <2>3, <1>5, <1>6
<1>10. Listed(q)
  BY <1>6, <1>9 DEF Listed
<1> QED
  BY <1>1, <1>2, <1>4, <1>8, <1>10

\* Where the two loops of smp_open_segs stop: the segments from i2 on are kept,
\* and l1 and l2 are the gaps they measured last.
OpensAt(t, i1, i2, l1, l2) ==
    LET n == Len(t)
    IN /\ smp_open_segs(t) = [ok |-> l2 >= Reserve, list |-> SubSeq(t, i2, n),
                              free |-> IF l1 < Reserve THEN 0 ELSE smp_segend(t[n])]
       /\ t[1].off <= t[n].off => i1 = 1
       /\ t[1].off > t[n].off => \/ t[i1].off <= t[n].off
                                 \/ l1 = t[i1].off - smp_segend(t[n]) /\ l1 > Reserve
       /\ l1 >= Reserve => i2 = i1
       /\ l1 < Reserve => t[i2].off > Reserve \/ (i2 = n /\ i2 > i1) \/ l2 = l1

\* smp_open_segs does stop there, whatever the table.
LEMMA OpenSegsAt ==
    ASSUME NEW t \in Seq(Pointer), \A i \in 1..Len(t) : Inside(t[i]), t # <<>>
    PROVE  \E i1 \in 1..Len(t), i2 \in 1..Len(t), l1 \in Int, l2 \in Int :
              i1 <= i2 /\ OpensAt(t, i1, i2, l1, l2)
<1> DEFINE n == Len(t)
           W(j) == j < n /\ t[j].off > t[n].off
           S1 == {j \in 1..n : ~W(j) \/ GapAtTail(t, j) > Reserve}
           Stop1 == {j \in 1..n : /\ ~W(j) \/ GapAtTail(t, j) > Reserve
                                  /\ \A k \in 1..j-1 : W(k) /\ GapAtTail(t, k) <= Reserve}
           j1 == CHOOSE k \in Stop1 : TRUE
           end == smp_segend(t[n])
           l == Media - end
           d1 == IF t[1].off > t[n].off
                 THEN [at |-> j1, l |-> IF W(j1) THEN GapAtTail(t, j1)
                                        ELSE IF j1 > 1 THEN GapAtTail(t, j1 - 1) ELSE l]
                 ELSE [at |-> 1, l |-> l]
           i2 == d1.at
           S2 == {j \in i2..n : ~(j < n) \/ GapAtFront(t, j) > Reserve}
           Stop2 == {j \in i2..n : /\ ~(j < n) \/ GapAtFront(t, j) > Reserve
                                   /\ \A k \in i2..j-1 : k < n /\ GapAtFront(t, k) <= Reserve}
           j2 == CHOOSE k \in Stop2 : TRUE
           d2 == IF d1.l < Reserve
                 THEN [at |-> j2, l |-> IF j2 < n THEN GapAtFront(t, j2)
                                        ELSE IF j2 > i2 THEN GapAtFront(t, j2 - 1) ELSE d1.l]
                 ELSE d1
<1>1. smp_open_segs(t) = [ok |-> d2.l >= Reserve, list |-> SubSeq(t, d2.at, n),
                          free |-> IF d1.l < Reserve THEN 0 ELSE end]
  BY DEF smp_open_segs, DropWhile
<1>2. n \in Nat \ {0}
  BY EmptySeq, LenProperties
<1>3. \A i \in 1..n : t[i] \in Pointer
  BY ElementOfSeq
<1>4. \A i \in 1..n : t[i].off \in Nat /\ smp_segend(t[i]) \in 0..Media
  BY <1>3 DEF Pointer, Inside, smp_segend
<1>5. \A i \in 1..n : GapAtTail(t, i) \in Int /\ GapAtFront(t, i) \in Int
  BY <1>2, <1>4 DEF GapAtTail, GapAtFront
<1>6. j1 \in 1..n /\ (~W(j1) \/ GapAtTail(t, j1) > Reserve)
  <2>1. S1 \in SUBSET (1..n) /\ n \in S1
    BY <1>2
  <2> HIDE DEF S1
  <2>2. PICK j \in S1 : \A k \in S1 : j <= k
    <3>1. S1 \in SUBSET Nat /\ S1 # {}
      BY <2>1
    <3> QED
      BY <3>1, FirstIndex
  <2> USE DEF S1
  <2>3. j \in 1..n
    BY <2>1
  <2>4. ASSUME NEW k \in 1..j-1 PROVE W(k) /\ GapAtTail(t, k) <= Reserve
    <3>1. k \in 1..n /\ k \notin S1
      BY <2>2, <2>3, <1>2
    <3> QED
      BY <3>1, <1>5
  <2>5. j \in Stop1
    BY <2>2, <2>3, <2>4
  <2>6. j1 \in Stop1
    BY <2>5
  <2> HIDE DEF j1
  <2> QED
    BY <2>6
<1> HIDE DEF j1
<1>7. i2 \in 1..n
  BY <1>2, <1>6
<1>a. d1.l \in Int
  <2>1. l \in Int
    BY <1>2, <1>4
  <2>2. j1 > 1 => j1 - 1 \in 1..n
    BY <1>2, <1>6
  <2> HIDE DEF l
  <2> QED
    BY <1>5, <1>6, <2>1, <2>2
<1>b. /\ t[1].off <= t[n].off => i2 = 1
      /\ t[1].off > t[n].off => \/ t[i2].off <= t[n].off
                                \/ d1.l = t[i2].off - end /\ d1.l > Reserve
  <2>1. t[1].off \in Nat /\ t[n].off \in Nat /\ t[j1].off \in Nat
    BY <1>2, <1>4, <1>6
  <2>2. CASE t[1].off > t[n].off
    <3>1. i2 = j1 /\ (W(j1) => d1.l = GapAtTail(t, j1))
      BY <2>2
    <3>2. CASE W(j1)
      BY <1>6, <2>1, <2>2, <3>1, <3>2 DEF GapAtTail
    <3>3. CASE ~W(j1)
      <4>1. j1 = n \/ ~(t[j1].off > t[n].off)
        BY <1>2, <1>6, <3>3
      <4>2. t[j1].off <= t[n].off
        BY <2>1, <4>1
      <4> HIDE DEF W, d1, end
      <4> QED
        BY <2>1, <2>2, <3>1, <4>2
    <3> QED
      BY <3>2, <3>3
  <2>3. CASE ~(t[1].off > t[n].off)
    BY <2>1, <2>3
  <2> QED
    BY <2>2, <2>3
<1> HIDE DEF d1
<1>8. j2 \in 1..n /\ i2 <= j2 /\ (~(j2 < n) \/ GapAtFront(t, j2) > Reserve)
  <2>1. S2 \in SUBSET (i2..n) /\ n \in S2
    BY <1>2, <1>7
  <2> HIDE DEF S2, i2
  <2>2. PICK j \in S2 : \A k \in S2 : j <= k
    <3>1. S2 \in SUBSET Nat /\ S2 # {}
      BY <2>1, <1>7
    <3> QED
      BY <3>1, FirstIndex
  <2> USE DEF S2
  <2>3. j \in i2..n
    BY <2>1
  <2>4. ASSUME NEW k \in i2..j-1 PROVE k < n /\ GapAtFront(t, k) <= Reserve
    <3>1. k \in i2..n /\ k \in 1..n /\ k \notin S2
      BY <2>2, <2>3, <1>2, <1>7
    <3> QED
      BY <3>1, <1>5
  <2>5. j \in Stop2
    BY <2>2, <2>3, <2>4
  <2>6. j2 \in Stop2
    BY <2>5
  <2> HIDE DEF j2
  <2> QED
    BY <2>6, <1>7, <1>2
<1> HIDE DEF j2
<1>9. /\ d2.at \in 1..n /\ d2.l \in Int /\ i2 <= d2.at
      /\ d1.l >= Reserve => d2.at = i2
      /\ d1.l < Reserve => t[d2.at].off > Reserve \/ (d2.at = n /\ d2.at > i2) \/ d2.l = d1.l
  <2>1. CASE d1.l < Reserve
    <3>1. /\ d2.at = j2
          /\ d2.l = IF j2 < n THEN GapAtFront(t, j2)
                    ELSE IF j2 > i2 THEN GapAtFront(t, j2 - 1) ELSE d1.l
      BY <2>1
    <3>2. j2 > i2 => j2 - 1 \in 1..n
      BY <1>2, <1>7, <1>8
    <3> HIDE DEF d2, i2
    <3>3. d2.l \in Int
      BY <1>5, <1>8, <1>a, <3>1, <3>2
    <3>4. CASE j2 < n
      BY <1>8, <1>a, <2>1, <3>1, <3>3, <3>4 DEF GapAtFront
    <3>5. CASE ~(j2 < n)
      <4>1. j2 = n
        BY <1>2, <1>8, <3>5
      <4>2. j2 > i2 \/ d2.l = d1.l
        BY <3>1, <4>1, <1>2
      <4> QED
        BY <1>8, <1>a, <2>1, <3>1, <3>3, <4>1, <4>2
    <3> QED
      BY <3>4, <3>5
  <2>2. CASE ~(d1.l < Reserve)
    <3>1. d2 = d1
      BY <2>2
    <3> HIDE DEF d2
    <3> QED
      BY <1>7, <1>a, <2>2, <3>1
  <2> QED
    BY <2>1, <2>2
<1> HIDE DEF d2, i2
<1>10. OpensAt(t, i2, d2.at, d1.l, d2.l)
  BY <1>1, <1>9, <1>b DEF OpensAt
<1> QED
  BY <1>7, <1>9, <1>10, <1>a

\* smp_open_segs keeps a part of the table up to its end, and the next segment
\* goes where there is room for its first byte or to the start of the silo.
LEMMA OpenSegsTyped ==
    ASSUME NEW t \in Seq(Pointer), \A i \in 1..Len(t) : Inside(t[i])
    PROVE  LET o == smp_open_segs(t)
           IN /\ o.list \in Seq(Pointer)
              /\ \A i \in 1..Len(o.list) : Inside(o.list[i])
              /\ o.free \in 0..Media
<1>1. CASE t = <<>>
  BY <1>1, EmptySeq DEF smp_open_segs
<1>2. CASE t # <<>>
  <2> DEFINE n == Len(t)
  <2>1. PICK i1 \in 1..n, k \in 1..n, l1 \in Int, l2 \in Int : OpensAt(t, i1, k, l1, l2)
    BY <1>2, OpenSegsAt
  <2> DEFINE q == SubSeq(t, k, n)
  <2>2. /\ smp_open_segs(t).list = q
        /\ smp_open_segs(t).free = IF l1 < Reserve THEN 0 ELSE smp_segend(t[n])
    BY <2>1 DEF OpensAt
  <2>3. /\ q \in Seq(Pointer) /\ Len(q) = n - k + 1
        /\ \A j \in 1..n - k + 1 : q[j] = t[j + k - 1]
    BY Suffix
  <2>4. n \in Nat \ {0}
    BY <1>2, EmptySeq, LenProperties
  <2>5. \A i \in 1..Len(q) : Inside(q[i])
    <3> SUFFICES ASSUME NEW i \in 1..Len(q) PROVE Inside(q[i])
      OBVIOUS
    <3>1. i \in 1..n - k + 1 /\ i + k - 1 \in 1..n
      <4>1. Len(q) = n - k + 1
        BY <2>3
      <4> HIDE DEF q, n
      <4> QED
        BY <2>4, <4>1
    <3> QED
      BY <3>1, <2>3
  <2>6. t[n] \in Pointer /\ Inside(t[n])
    BY <2>4, ElementOfSeq
  <2>7. smp_segend(t[n]) \in 0..Media
    <3>1. t[n].off \in Nat /\ t[n].len \in 1..SegLen
      BY <2>6, SMTT(30) DEF Pointer
    <3>2. t[n].off + SegLen <= Media
      BY <2>6 DEF Inside
    <3> QED
      BY <3>1, <3>2 DEF smp_segend
  <2> QED
    BY <2>2, <2>3, <2>5, <2>7
<1> QED
  BY <1>1, <1>2

\* What smp_open puts on the list from a table is a list of segments.
LEMMA MustLoadListed ==
    ASSUME NEW t \in Seq(Pointer), \A i \in 1..Len(t) : Inside(t[i])
    PROVE  Listed(MustLoad(t)) /\ Len(MustLoad(t)) = Len(t)
<1> DEFINE m == MustLoad(t)
<1>1. Len(t) \in Nat /\ DOMAIN t = 1..Len(t)
  BY LenProperties
<1>2. ASSUME NEW i \in 1..Len(t)
      PROVE  m[i] \in Segment /\ m[i].len > 0 /\ Inside(m[i])
  <2>1. t[i] \in Pointer /\ Inside(t[i])
    BY ElementOfSeq
  <2> QED
    BY <1>1, <2>1 DEF MustLoad, Pointer, Segment, Inside, smp_segend
<1>3. m \in [1..Len(t) -> Segment]
  BY <1>1, <1>2 DEF MustLoad
<1>4. m \in Seq(Segment) /\ Len(m) = Len(t)
  BY <1>1, <1>3
<1> QED
  BY <1>2, <1>4 DEF Listed

----------------------------------------------------------------------------
(* The bans.                                                               *)

\* SMP_NewBan keeps the bans, wherever it is.
LEMMA NewBanKeeps ==
    ASSUME BansOK, SMP_NewBan
    PROVE  BansOK'
<1> USE DEF BansOK, BanTable, BanProtocol, Table, BanStep
<1>0. UNCHANGED up /\ ban.b \in NewBans \cup {Magic}
  BY DEF SMP_NewBan
<1>1. CASE ban.pc = "data1"
  <2>1. /\ ban1' \in AppendData(ban1) /\ ban2' = ban2 /\ acked' = acked
        /\ banSound' = banSound /\ ban' = [ban EXCEPT !.pc = "sign1"]
    BY <1>1 DEF SMP_NewBan
  <2>2. ban1' = [ok |-> FALSE, list |-> ban1.list] \/ ban1' = [ok |-> FALSE, list |-> ban1.list \cup {ban.b}]
    BY <2>1 DEF AppendData
  <2>3. CASE ban1' = [ok |-> FALSE, list |-> ban1.list]
    BY <1>0, <1>1, <2>1, <2>3
  <2>4. CASE ban1' = [ok |-> FALSE, list |-> ban1.list \cup {ban.b}]
    BY <1>0, <1>1, <2>1, <2>4
  <2> QED
    BY <2>2, <2>3, <2>4
<1>2. CASE ban.pc = "sign1"
  <2>1. /\ ban1' = AppendSign(ban1) /\ ban2' = ban2 /\ acked' = acked
        /\ banSound' = banSound /\ ban' = [ban EXCEPT !.pc = "data2"]
    BY <1>2 DEF SMP_NewBan
  <2> QED
    BY <1>0, <1>2, <2>1 DEF AppendSign
<1>3. CASE ban.pc = "data2"
  <2>1. /\ ban2' \in AppendData(ban2) /\ ban1' = ban1 /\ acked' = acked
        /\ banSound' = banSound /\ ban' = [ban EXCEPT !.pc = "sign2"]
    BY <1>3 DEF SMP_NewBan
  <2>2. ban2' = [ok |-> FALSE, list |-> ban2.list] \/ ban2' = [ok |-> FALSE, list |-> ban2.list \cup {ban.b}]
    BY <2>1 DEF AppendData
  <2>3. CASE ban2' = [ok |-> FALSE, list |-> ban2.list]
    BY <1>0, <1>3, <2>1, <2>3
  <2>4. CASE ban2' = [ok |-> FALSE, list |-> ban2.list \cup {ban.b}]
    BY <1>0, <1>3, <2>1, <2>4
  <2> QED
    BY <2>2, <2>3, <2>4
<1>4. CASE ban.pc = "sign2"
  <2>1. /\ ban2' = AppendSign(ban2) /\ ban1' = ban1 /\ acked' = acked \cup {ban.b}
        /\ banSound' = TRUE /\ ban' = [ban EXCEPT !.pc = "idle"]
    BY <1>4 DEF SMP_NewBan
  <2> QED
    BY <1>0, <1>4, <2>1 DEF AppendSign
<1> QED
  BY <1>1, <1>2, <1>3, <1>4 DEF SMP_NewBan

\* When the child is gone, nothing is left of the insertion but the tables.
LEMMA GoneKeepsBans ==
    ASSUME BansOK, Gone, UNCHANGED <<ban1, ban2, acked, banSound>>
    PROVE  BansOK'
  BY DEF BansOK, BanTable, BanProtocol, Gone, NoBan

\* Every step keeps the bans.
LEMMA BansStep ==
    ASSUME BansOK, serving => up, [Next]_vars
    PROVE  BansOK'
<1>1. CASE UNCHANGED <<ban1, ban2, ban, acked, banSound, up>>
  BY <1>1 DEF BansOK, BanTable, BanProtocol
<1>2. CASE Gone /\ UNCHANGED <<ban1, ban2, acked, banSound>>
  BY <1>2, GoneKeepsBans
<1>3. CASE smp_open
  <2>1. /\ UNCHANGED <<ban1, ban2, acked>> /\ ban' = [pc |-> "data1", b |-> Magic]
        /\ up' = TRUE /\ banSound' = (ban1.ok /\ ban2.ok)
    BY <1>3 DEF smp_open, disk
  <2>2. ban1.ok \in BOOLEAN /\ ban2.ok \in BOOLEAN
    BY DEF BansOK, BanTable
  <2>3. banSound' \in BOOLEAN /\ (banSound' => ban1.ok /\ ban2.ok)
    BY <2>1, <2>2
  <2>4. up' \in BOOLEAN
    BY <2>1
  <2>5. BanTable(ban1)' /\ BanTable(ban2)'
    BY <2>1 DEF BansOK, BanTable
  <2>6. BanProtocol'
    BY <2>1, <2>3 DEF BansOK, BanProtocol
  <2> QED
    BY <2>3, <2>4, <2>5, <2>6 DEF BansOK
<1>4. CASE smp_newsilo
  <2>1. /\ ban1' = [ok |-> TRUE, list |-> {}] /\ ban2' = [ok |-> TRUE, list |-> {}] /\ acked' = {}
        /\ banSound' = TRUE /\ UNCHANGED <<ban, up>> /\ ~up
    BY <1>4 DEF smp_newsilo, Table
  <2>2. BanTable(ban1)' /\ BanTable(ban2)'
    BY <2>1 DEF BanTable
  <2>3. BanProtocol'
    BY <2>1, <2>2 DEF BansOK, BanProtocol
  <2> QED
    BY <2>1, <2>2, <2>3 DEF BansOK
<1>5. ASSUME NEW b \in NewBans, BAN_Insert(b) PROVE BansOK'
  BY <1>5 DEF BAN_Insert, BansOK, BanTable, BanProtocol, disk, ghosts, tally
<1>6. CASE SMP_NewBan
  BY <1>6, NewBanKeeps
<1>7. CASE UNCHANGED vars
  BY <1>1, <1>7 DEF vars, disk, ghosts, tally
<1>8. CASE Crash \/ Exit
  BY <1>2, <1>8 DEF Crash, Exit, disk, tally
<1>9. CASE NewSeg
  BY <1>1, <1>2, <1>9 DEF NewSeg, disk, ghosts, tally
<1>10. CASE OpenDies \/ Ended
  BY <1>7, <1>10 DEF OpenDies, Ended
<1>11. CASE Serve \/ smp_save_segs \/ smp_close_seg
  BY <1>1, <1>11 DEF Serve, smp_save_segs, smp_close_seg, disk, ghosts, tally
<1>12. CASE smp_alloc \/ (\E n \in Sizes : smp_allocobj(n)) \/ smp_allocx \/ Commit \/ smp_oc_freeobj
  BY <1>1, <1>12 DEF smp_alloc, smp_allocobj, Allocate, smp_allocx, Commit, smp_oc_freeobj, disk, ghosts, tally
<1>13. CASE debug_persistent \/ smp_close \/ LoadBegin \/ LoadEnd \/ Loaded \/ smp_thread
  BY <1>1, <1>13 DEF debug_persistent, smp_close, LoadBegin, LoadEnd, Loaded, smp_thread, disk, ghosts, tally
<1> QED
  BY <1>3, <1>4, <1>5, <1>6, <1>7, <1>8, <1>9, <1>10, <1>11, <1>12, <1>13 DEF Next

----------------------------------------------------------------------------
(* The segments.                                                           *)

\* Where the segments on the list lie, what is in them and which is open; their
\* counts and states may change.
Recount(q) ==
    /\ q \in Seq(Segment) /\ Len(q) = Len(segments)
    /\ \A i \in 1..Len(segments) : /\ Ptr(q[i]) = Ptr(segments[i])
                                   /\ q[i].nalloc = segments[i].nalloc

\* A step that changes only counts and states of segments.
LEMMA RecountKeeps ==
    ASSUME SegsOK, Recount(segments'),
           UNCHANGED <<seg1, seg2, up, serving, cur_seg, used, free_offset, op, saved, sound>>
    PROVE  SegsOK'
<1> DEFINE n == Len(segments)
<1>1. /\ segments \in Seq(Segment) /\ n \in Nat /\ DOMAIN segments = 1..n
      /\ segments' \in Seq(Segment) /\ Len(segments') = n /\ DOMAIN segments' = 1..n
  <2>1. segments \in Seq(Segment) /\ segments' \in Seq(Segment) /\ Len(segments') = n
    BY DEF SegsOK, SegType, Listed, Recount
  <2> QED
    BY <2>1, LenProperties
<1>2. ASSUME NEW i \in 1..n
      PROVE  /\ segments'[i].off = segments[i].off /\ segments'[i].len = segments[i].len
             /\ segments'[i].lobj = segments[i].lobj /\ segments'[i].nalloc = segments[i].nalloc
  <2>1. Ptr(segments'[i]) = Ptr(segments[i]) /\ segments'[i].nalloc = segments[i].nalloc
    BY DEF Recount
  <2> QED
    BY <2>1 DEF Ptr
<1>3. Listed(segments)'
  <2>1. ASSUME NEW i \in 1..n PROVE segments'[i].len > 0 /\ Inside(segments'[i])
    <3>1. segments[i].len > 0 /\ Inside(segments[i])
      BY DEF SegsOK, SegType, Listed
    <3> QED
      BY <1>2, <3>1 DEF Inside, smp_segend
  <2> QED
    BY <1>1, <2>1 DEF Listed
<1>4. Ptrs' = Ptrs
  <2>1. Ptrs' = [i \in 1..n |-> Ptr(segments'[i])]
    BY <1>1 DEF Ptrs
  <2>2. Ptrs = [i \in 1..n |-> Ptr(segments[i])]
    BY <1>1 DEF Ptrs
  <2>3. \A i \in 1..n : Ptr(segments'[i]) = Ptr(segments[i])
    BY DEF Recount
  <2> QED
    BY <2>1, <2>2, <2>3
<1>5. SegType'
  BY <1>3 DEF SegsOK, SegType, SegFlags, SegNumbers
<1>6. OpenSegment'
  <2>1. SUFFICES ASSUME cur_seg PROVE OpenSegment'
    BY DEF OpenSegment
  <2>2. n \in 1..n
    BY <1>1, <2>1, EmptySeq DEF SegsOK, OpenSegment
  <2>3. segments' # <<>>
    BY <1>1, <2>2, EmptySeq
  <2> QED
    BY <1>1, <1>2, <2>1, <2>2, <2>3 DEF SegsOK, OpenSegment
<1>7. HolderOK'
  BY DEF SegsOK, HolderOK
<1>8. SegProtocol'
  BY <1>4 DEF SegsOK, SegProtocol, Stored
<1> QED
  BY <1>5, <1>6, <1>7, <1>8 DEF SegsOK

\* When the child is gone, what remains is the tables.
LEMMA GoneKeepsSegs ==
    ASSUME SegsOK, Gone, UNCHANGED <<seg1, seg2, sound>>
    PROVE  SegsOK'
<1>1. Listed(<<>>)
  BY EmptySeq DEF Listed
<1>2. SegType'
  <2>1. SegFlags'
    BY DEF SegsOK, SegType, SegFlags, Gone
  <2>2. SegNumbers'
    BY DEF SegNumbers, Gone
  <2> QED
    BY <2>1, <2>2, <1>1 DEF Gone, SegsOK, SegType
<1>3. OpenSegment' /\ SegProtocol'
  BY DEF Gone, OpenSegment, SegProtocol
<1>4. Idle \in HolderType
  BY DEF Idle, Holder, HolderType
<1>5. HolderOK'
  BY <1>4 DEF Gone, HolderOK, Idle, Holder, Saving
<1> QED
  BY <1>2, <1>3, <1>5 DEF SegsOK

\* smp_save_segs, wherever it is.
LEMMA SaveKeeps ==
    ASSUME SegsOK, smp_save_segs
    PROVE  SegsOK'
<1>0. /\ UNCHANGED <<up, serving, segments, cur_seg, used, free_offset>>
      /\ op \in HolderType
  BY DEF smp_save_segs, space, SegsOK, HolderOK
<1>a. UNCHANGED Ptrs
  BY <1>0 DEF Ptrs
<1>b. \A ok \in BOOLEAN : SegTable(Table(ok, Ptrs))
  BY PtrsTyped DEF SegsOK, SegType
<1>c. SegTable(Table(TRUE, <<>>))
  BY EmptySeq DEF SegTable, Table
<1>d. OpenSegment'
  BY <1>0 DEF SegsOK, OpenSegment
<1>e. up
  BY DEF SegsOK, HolderOK, smp_save_segs, Idle, Holder
<1>f. (Ptrs = <<>>) \in BOOLEAN
  OBVIOUS
<1> USE DEF Step
<1>1. CASE op.pc = "reset1"
  <2>1. /\ seg1' = Table(TRUE, <<>>) /\ seg2' = seg2 /\ op' = [op EXCEPT !.pc = "fill1"]
        /\ UNCHANGED <<saved, sound>>
    BY <1>1 DEF smp_save_segs, Reset
  <2>2. SegType'
    BY <1>0, <1>c, <2>1 DEF SegsOK, SegType, SegFlags, SegNumbers
  <2>3. HolderOK'
    BY <1>0, <1>1, <1>e, <2>1 DEF SegsOK, HolderOK, HolderType, Saving
  <2>4. SegProtocol'
    BY <1>0, <1>1, <1>e, <2>1 DEF SegsOK, SegProtocol, HolderType, Saving, Stored
  <2> QED
    BY <1>d, <2>2, <2>3, <2>4 DEF SegsOK
<1>2. CASE op.pc = "fill1"
  <2>1. /\ seg1' = Table(Ptrs = <<>>, Ptrs) /\ seg2' = seg2 /\ op' = [op EXCEPT !.pc = "sign1"]
        /\ UNCHANGED <<saved, sound>>
    BY <1>2 DEF smp_save_segs, Fill
  <2>2. SegType'
    BY <1>0, <1>b, <1>f, <2>1 DEF SegsOK, SegType, SegFlags, SegNumbers
  <2>3. HolderOK'
    BY <1>0, <1>2, <1>e, <2>1 DEF SegsOK, HolderOK, HolderType, Saving
  <2>4. SegProtocol'
    BY <1>0, <1>2, <1>a, <1>e, <2>1 DEF SegsOK, SegProtocol, HolderType, Saving, Stored
  <2> QED
    BY <1>d, <2>2, <2>3, <2>4 DEF SegsOK
<1>3. CASE op.pc = "sign1"
  <2>1. /\ seg1' = Table(TRUE, Ptrs) /\ seg2' = seg2 /\ op' = [op EXCEPT !.pc = "reset2"]
        /\ UNCHANGED <<saved, sound>>
    BY <1>3 DEF smp_save_segs, Sign
  <2>2. SegType'
    BY <1>0, <1>b, <2>1 DEF SegsOK, SegType, SegFlags, SegNumbers
  <2>3. HolderOK'
    BY <1>0, <1>3, <1>e, <2>1 DEF SegsOK, HolderOK, HolderType, Saving
  <2>4. SegProtocol'
    BY <1>0, <1>3, <1>a, <1>e, <2>1 DEF SegsOK, SegProtocol, HolderType, Saving, Stored
  <2> QED
    BY <1>d, <2>2, <2>3, <2>4 DEF SegsOK
<1>4. CASE op.pc = "reset2"
  <2>1. /\ seg2' = Table(TRUE, <<>>) /\ seg1' = seg1 /\ op' = [op EXCEPT !.pc = "fill2"]
        /\ UNCHANGED <<saved, sound>>
    BY <1>4 DEF smp_save_segs, Reset
  <2>2. SegType'
    BY <1>0, <1>c, <2>1 DEF SegsOK, SegType, SegFlags, SegNumbers
  <2>3. HolderOK'
    BY <1>0, <1>4, <1>e, <2>1 DEF SegsOK, HolderOK, HolderType, Saving
  <2>4. SegProtocol'
    BY <1>0, <1>4, <1>a, <1>e, <2>1 DEF SegsOK, SegProtocol, HolderType, Saving, Stored
  <2> QED
    BY <1>d, <2>2, <2>3, <2>4 DEF SegsOK
<1>5. CASE op.pc = "fill2"
  <2>1. /\ seg2' = Table(Ptrs = <<>>, Ptrs) /\ seg1' = seg1 /\ op' = [op EXCEPT !.pc = "sign2"]
        /\ UNCHANGED <<saved, sound>>
    BY <1>5 DEF smp_save_segs, Fill
  <2>2. SegType'
    BY <1>0, <1>b, <1>f, <2>1 DEF SegsOK, SegType, SegFlags, SegNumbers
  <2>3. HolderOK'
    BY <1>0, <1>5, <1>e, <2>1 DEF SegsOK, HolderOK, HolderType, Saving
  <2>4. SegProtocol'
    BY <1>0, <1>5, <1>a, <1>e, <2>1 DEF SegsOK, SegProtocol, HolderType, Saving, Stored
  <2> QED
    BY <1>d, <2>2, <2>3, <2>4 DEF SegsOK
<1>6. CASE op.pc = "sign2"
  <2>1. /\ seg2' = Table(TRUE, Ptrs) /\ seg1' = seg1
        /\ saved' = Ptrs /\ sound' = TRUE
        /\ op' = IF op.then = "none" THEN Idle ELSE [op EXCEPT !.pc = op.then]
    BY <1>6 DEF smp_save_segs, Sign, Then
  <2>2. SegType'
    BY <1>0, <1>b, <2>1 DEF SegsOK, SegType, SegFlags, SegNumbers
  <2>3. HolderOK'
    BY <1>0, <1>6, <1>e, <2>1 DEF SegsOK, HolderOK, HolderType, Saving, Idle, Holder
  <2>4. op'.pc \in {"idle", "new", "exit"}
    BY <1>0, <2>1 DEF HolderType, Idle, Holder
  <2>5. seg1' = Table(TRUE, Ptrs)
    BY <1>6, <1>e, <2>1 DEF SegsOK, SegProtocol
  <2>6. SegProtocol'
    BY <2>1, <2>4, <2>5 DEF SegProtocol, Saving, Stored
  <2> QED
    BY <1>d, <2>2, <2>3, <2>6 DEF SegsOK
<1> QED
  BY <1>1, <1>2, <1>3, <1>4, <1>5, <1>6 DEF smp_save_segs

\* smp_open starts from the table it read.
LEMMA OpenKeeps ==
    ASSUME SegsOK, smp_open
    PROVE  SegsOK'
<1> DEFINE o == smp_open_segs(SegsRead)
           segs == MustLoad(o.list)
           new == smp_new_seg(segs, o.free, Len(segs) + 1)
<1>1. SegsRead \in Seq(Pointer) /\ \A i \in 1..Len(SegsRead) : Inside(SegsRead[i])
  BY DEF SegsRead, SegsOK, SegType, SegTable
<1>2. /\ o.list \in Seq(Pointer) /\ \A i \in 1..Len(o.list) : Inside(o.list[i])
      /\ o.free \in 0..Media
  BY <1>1, OpenSegsTyped
<1> HIDE DEF o
<1>3. Listed(segs) /\ Len(segs) \in Nat
  BY <1>2, MustLoadListed, LenProperties
<1> HIDE DEF segs
<1>4. Opened.new = new /\ (Opened.ok => ~new.dies)
  BY DEF Opened, segs, o
<1>5. Len(segs) + 1 \in Nat \ {0}
  BY <1>3
<1>6. ~new.dies
  BY <1>4 DEF smp_open
<1>7. /\ Listed(new.segments) /\ new.free \in 0..Media /\ new.segments # <<>>
      /\ new.segments[Len(new.segments)].len = SegLen
      /\ new.segments[Len(new.segments)].lobj = 0
      /\ new.segments[Len(new.segments)].nalloc = 0
  BY <1>2, <1>3, <1>5, <1>6, NewSegTyped
<1> HIDE DEF new
<1>8. /\ up' = TRUE /\ serving' = FALSE /\ segments' = new.segments /\ free_offset' = new.free
      /\ cur_seg' = TRUE /\ used' = 0 /\ op' = Idle /\ saved' = SegsRead
      /\ sound' = (seg1.ok /\ seg1 = seg2) /\ UNCHANGED <<seg1, seg2>>
  BY <1>4 DEF smp_open, disk
<1>9. seg1.ok \in BOOLEAN /\ seg1 = [ok |-> seg1.ok, list |-> seg1.list]
  BY DEF SegsOK, SegType, SegTable
<1>10. sound' \in BOOLEAN /\ (sound' => seg1.ok /\ seg1 = seg2)
  BY <1>8, <1>9
<1>11. SegType'
  <2>1. SegFlags'
    BY <1>8, <1>10 DEF SegFlags
  <2>2. SegNumbers'
    BY <1>7, <1>8 DEF SegNumbers
  <2> QED
    BY <2>1, <2>2, <1>7, <1>8 DEF SegsOK, SegType
<1>12. OpenSegment'
  BY <1>7, <1>8 DEF OpenSegment
<1>13. HolderOK'
  <2>1. Idle \in HolderType
    BY DEF Idle, Holder, HolderType
  <2> QED
    BY <1>8, <2>1 DEF HolderOK, Idle, Holder, Saving
<1>14. SegProtocol'
  <2>1. op'.pc = "idle"
    BY <1>8 DEF Idle, Holder
  <2>2. ASSUME sound' PROVE seg1' = Stored' /\ seg2' = Stored'
    <3>1. seg1.ok /\ seg1 = seg2
      BY <1>10, <2>2
    <3>2. seg1.ok = TRUE
      BY <3>1, <1>9
    <3> QED
      BY <1>8, <1>9, <3>1, <3>2 DEF Stored, Table, SegsRead
  <2> QED
    BY <2>1, <2>2 DEF SegProtocol, Saving
<1> QED
  BY <1>11, <1>12, <1>13, <1>14 DEF SegsOK

\* smp_close_seg drops an empty segment, and shortens another.
LEMMA CloseKeeps ==
    ASSUME SegsOK, smp_close_seg
    PROVE  SegsOK'
<1> DEFINE n == Len(segments)
           sg == segments[n]
<1>0. /\ op.pc = "close" /\ op \in HolderType /\ op.then \in {"new", "exit"} /\ up /\ cur_seg
      /\ segments \in Seq(Segment) /\ segments # <<>>
      /\ UNCHANGED <<seg1, seg2, up, serving, saved, sound>> /\ cur_seg' = FALSE /\ used' = 0
  BY DEF smp_close_seg, SegsOK, SegType, Listed, OpenSegment, HolderOK, HolderType, Idle, Holder, disk, ghosts, tally
<1>1. n \in Nat \ {0} /\ DOMAIN segments = 1..n /\ sg \in Segment
  <2>1. n \in Nat \ {0} /\ DOMAIN segments = 1..n
    BY <1>0, EmptySeq, LenProperties
  <2> QED
    BY <1>0, <2>1, ElementOfSeq
<1>2. \A i \in 1..n : segments[i].len > 0 /\ Inside(segments[i])
  BY DEF SegsOK, SegType, Listed
<1>3. OpenSegment'
  BY <1>0 DEF OpenSegment
<1>4. sound => seg1 = Stored /\ seg2 = Stored
  BY <1>0 DEF SegsOK, SegProtocol, Saving
<1>5. CASE sg.nalloc = 0
  <2>1. segments' = SubSeq(segments, 1, n - 1) /\ op' = [op EXCEPT !.pc = op.then]
        /\ UNCHANGED free_offset
    BY <1>0, <1>5 DEF smp_close_seg, Then, Step
  <2>2. Listed(segments')
    <3> DEFINE q == SubSeq(segments, 1, n - 1)
    <3>0. \A i \in 1..n-1 : segments[i] \in Segment
      BY <1>0, <1>1, ElementOfSeq
    <3>1. q \in Seq(Segment) /\ Len(q) = n - 1 /\ \A i \in 1..n-1 : q[i] = segments[i]
      BY <1>0, <1>1, <3>0, SubSeqProperties
    <3>2. \A i \in 1..n-1 : q[i].len > 0 /\ Inside(q[i])
      BY <1>1, <1>2, <3>1
    <3> QED
      BY <2>1, <3>1, <3>2 DEF Listed
  <2>3. SegType'
    <3>1. SegFlags'
      BY <1>0 DEF SegsOK, SegType, SegFlags
    <3>2. SegNumbers'
      BY <1>0, <2>1 DEF SegNumbers, SegsOK, SegType
    <3> QED
      BY <3>1, <3>2, <1>0, <2>2 DEF SegsOK, SegType
  <2>4. HolderOK'
    BY <1>0, <2>1 DEF SegsOK, HolderOK, HolderType, Saving
  <2>5. op'.pc \in {"new", "exit"}
    BY <1>0, <2>1 DEF HolderType
  <2>6. SegProtocol'
    BY <1>0, <1>4, <2>5 DEF SegProtocol, Saving, Stored
  <2> QED
    BY <1>3, <2>3, <2>4, <2>6 DEF SegsOK
<1>6. CASE sg.nalloc > 0
  <2>0. PICK l \in {used, sg.len} :
          /\ segments' = Pruned([segments EXCEPT ![n].len = l, ![n].idx = TRUE], FALSE)
          /\ free_offset' = sg.off + l /\ op' = [op EXCEPT !.pc = "reset1"]
    <3>1. sg.nalloc # 0
      BY <1>1, <1>6 DEF Segment
    <3> QED
      BY <3>1 DEF smp_close_seg, Step
  <2> DEFINE closed == [segments EXCEPT ![n].len = l, ![n].idx = TRUE]
  <2>1. /\ segments' = Pruned(closed, FALSE) /\ free_offset' = sg.off + l
        /\ op' = [op EXCEPT !.pc = "reset1"]
    BY <2>0
  <2>a. used \in 1..SegLen /\ sg.len = SegLen
    BY <1>0, <1>1, <1>6 DEF SegsOK, SegType, SegNumbers, OpenSegment, Segment
  <2>2. l \in 1..SegLen /\ sg.len = SegLen
    BY <2>0, <2>a
  <2>3. sg.off + l \in 0..Media
    <3>1. sg.off + SegLen <= Media /\ sg.off \in Nat
      BY <1>1, <1>2, <2>2 DEF Inside, smp_segend, Segment
    <3> QED
      BY <2>2, <3>1
  <2>4. Listed(closed)
    <3>1. closed = [i \in 1..n |-> IF i = n THEN [sg EXCEPT !.len = l, !.idx = TRUE]
                                   ELSE segments[i]]
      BY <1>0, <1>1
    <3>2. ASSUME NEW i \in 1..n
          PROVE  closed[i] \in Segment /\ closed[i].len > 0 /\ Inside(closed[i])
      <4>1. CASE i = n
        BY <1>1, <1>2, <2>2, <3>1, <4>1, SMTT(30) DEF Segment, Inside
      <4>2. CASE i # n
        BY <1>0, <1>1, <1>2, <3>1, <4>2, ElementOfSeq
      <4> QED
        BY <4>1, <4>2
    <3> HIDE DEF closed
    <3>3. closed \in Seq(Segment) /\ Len(closed) = n
      <4>1. closed \in [1..n -> Segment]
        BY <3>1, <3>2
      <4> QED
        BY <4>1, <1>1
    <3> QED
      BY <3>2, <3>3 DEF Listed
  <2>5. Listed(segments')
    BY <2>1, <2>4, PrunedKeeps
  <2>6. SegType'
    <3>1. SegFlags'
      BY <1>0 DEF SegsOK, SegType, SegFlags
    <3>2. SegNumbers'
      BY <1>0, <2>1, <2>3 DEF SegNumbers
    <3> QED
      BY <3>1, <3>2, <1>0, <2>5 DEF SegsOK, SegType
  <2>7. HolderOK'
    BY <1>0, <2>1 DEF SegsOK, HolderOK, HolderType, Saving
  <2>8. SegProtocol'
    <3>1. op'.pc = "reset1"
      BY <1>0, <2>1 DEF HolderType
    <3> QED
      BY <1>0, <1>4, <3>1 DEF SegProtocol, Saving, Stored
  <2> QED
    BY <1>3, <2>6, <2>7, <2>8 DEF SegsOK
<1> QED
  BY <1>1, <1>5, <1>6 DEF Segment

\* smp_new_seg after a segment was closed.
LEMMA NewSegKeeps ==
    ASSUME SegsOK, NewSeg
    PROVE  SegsOK'
<1> DEFINE new == smp_new_seg(segments, free_offset, FreshId)
<1>1. CASE Gone
  <2>1. UNCHANGED <<seg1, seg2, sound>>
    BY DEF NewSeg, disk, ghosts, tally
  <2> QED
    BY <1>1, <2>1, GoneKeepsSegs
<1>2. CASE ~Gone
  <2>1. /\ op.pc = "new" /\ ~new.dies /\ segments' = new.segments /\ free_offset' = new.free
        /\ cur_seg' = TRUE /\ used' = 0
        /\ op' = IF op.n = 0 THEN Idle ELSE [op EXCEPT !.pc = "try", !.tries = op.tries + 1]
        /\ UNCHANGED <<seg1, seg2, up, serving, saved, sound>>
    BY <1>2 DEF NewSeg, disk, ghosts, tally
  <2>2. Listed(segments) /\ FreshId \in Nat \ {0} /\ free_offset \in 0..Media
    BY FreshIdTyped DEF SegsOK, SegType, SegNumbers
  <2>3. /\ Listed(new.segments) /\ new.free \in 0..Media /\ new.segments # <<>>
        /\ new.segments[Len(new.segments)].len = SegLen
        /\ new.segments[Len(new.segments)].lobj = 0
        /\ new.segments[Len(new.segments)].nalloc = 0
    BY <2>1, <2>2, NewSegTyped
  <2> HIDE DEF new
  <2>4. SegFlags'
    BY <2>1 DEF SegsOK, SegType, SegFlags
  <2>5. SegNumbers'
    BY <2>1, <2>3 DEF SegNumbers
  <2>6. SegType'
    BY <2>1, <2>3, <2>4, <2>5 DEF SegsOK, SegType
  <2>7. OpenSegment'
    BY <2>1, <2>3 DEF OpenSegment
  <2>8. up
    BY <2>1 DEF SegsOK, HolderOK, Idle, Holder
  <2>9. HolderOK'
    <3>1. op \in HolderType
      BY DEF SegsOK, HolderOK
    <3>2. CASE op.n = 0
      <4>1. Idle \in HolderType
        BY DEF Idle, Holder, HolderType
      <4>2. op' = Idle
        BY <2>1, <3>2
      <4>3. op' \in HolderType
        BY <4>1, <4>2
      <4>4. op'.pc = "idle"
        BY <4>2 DEF Idle, Holder
      <4>5. up' = TRUE /\ cur_seg' = TRUE
        BY <2>1, <2>8 DEF SegsOK, SegType, SegFlags
      <4> QED
        BY <4>3, <4>4, <4>5 DEF HolderOK, Saving
    <3>3. CASE op.n # 0
      <4>0. op' = [op EXCEPT !.pc = "try", !.tries = op.tries + 1]
        BY <2>1, <3>3
      <4>1. /\ op' \in HolderType /\ op'.pc = "try" /\ op'.n = op.n /\ op.n > 0
            /\ op'.then = op.then
        <5>1. op.n > 0 /\ op.tries + 1 \in Nat
          BY <3>1, <3>3 DEF HolderType
        <5>2. op' = [pc |-> "try", then |-> op.then, n |-> op.n, obj |-> op.obj, tries |-> op.tries + 1]
          BY <3>1, <4>0 DEF HolderType
        <5> QED
          BY <3>1, <5>1, <5>2 DEF HolderType
      <4>2. op.then # "none"
        BY <2>1 DEF SegsOK, HolderOK
      <4>3. up' = TRUE /\ cur_seg' = TRUE
        BY <2>1, <2>8 DEF SegsOK, SegType, SegFlags
      <4> QED
        BY <4>1, <4>2, <4>3 DEF HolderOK, Saving
    <3> QED
      BY <3>2, <3>3
  <2>10. SegProtocol'
    <3>1. op'.pc \in {"idle", "try"}
      BY <2>1 DEF Idle, Holder, SegsOK, HolderOK, HolderType
    <3>2. sound => seg1 = Stored /\ seg2 = Stored
      BY <2>1, <2>8 DEF SegsOK, SegProtocol, Saving
    <3> QED
      BY <2>1, <3>1, <3>2 DEF SegProtocol, Saving, Stored
  <2> QED
    BY <2>6, <2>7, <2>9, <2>10 DEF SegsOK
<1> QED
  BY <1>1, <1>2

\* The holder of the mutex goes on and the tables and the list stay as they are.
LEMMA HolderMoves ==
    ASSUME SegsOK, HolderOK', op.pc \notin Saving, op'.pc \notin Saving,
           UNCHANGED <<seg1, seg2, up, segments, cur_seg, used, free_offset, saved, sound>>,
           serving' \in BOOLEAN
    PROVE  SegsOK'
<1>1. SegFlags'
  BY DEF SegsOK, SegType, SegFlags
<1>2. SegType'
  BY <1>1 DEF SegsOK, SegType, SegNumbers
<1>3. OpenSegment'
  BY DEF SegsOK, OpenSegment
<1>4. SegProtocol'
  BY DEF SegsOK, SegProtocol, Saving, Stored
<1> QED
  BY <1>2, <1>3, <1>4 DEF SegsOK

\* smp_alloc and smp_allocobj take the mutex.
LEMMA AllocateKeeps ==
    ASSUME SegsOK, NEW n \in Nat \ {0}, NEW obj \in BOOLEAN, Allocate(n, obj)
    PROVE  SegsOK'
<1>1. /\ op.pc = "idle" /\ serving /\ up /\ cur_seg
      /\ op' = [pc |-> "try", then |-> "new", n |-> n, obj |-> obj, tries |-> 0]
      /\ UNCHANGED <<seg1, seg2, up, serving, segments, cur_seg, used, free_offset, saved, sound>>
  BY DEF Allocate, SegsOK, HolderOK, disk, space, ghosts, tally
<1>2. op' \in HolderType
  BY <1>1 DEF HolderType
<1>3. HolderOK'
  BY <1>1, <1>2 DEF HolderOK, Saving
<1>4. serving' \in BOOLEAN
  BY <1>1 DEF SegsOK, SegType, SegFlags
<1> QED
  BY <1>1, <1>3, <1>4, HolderMoves DEF Saving

\* debug.persistent and smp_close take the mutex to close the open segment.
LEMMA CloserKeeps ==
    ASSUME SegsOK, debug_persistent \/ smp_close
    PROVE  SegsOK'
<1>1. /\ op.pc = "idle" /\ up /\ cur_seg
      /\ (op' = Holder("close", "new") \/ op' = Holder("close", "exit"))
      /\ UNCHANGED <<seg1, seg2, up, serving, segments, cur_seg, used, free_offset, saved, sound>>
  BY DEF debug_persistent, smp_close, Compiled, SegsOK, HolderOK, disk, space, ghosts, tally
<1>2. op' \in HolderType /\ op'.pc = "close" /\ op'.then # "none"
  <2>1. CASE op' = Holder("close", "new")
    BY <2>1 DEF HolderType, Holder
  <2>2. CASE op' = Holder("close", "exit")
    BY <2>2 DEF HolderType, Holder
  <2> QED
    BY <1>1, <2>1, <2>2
<1>3. HolderOK'
  BY <1>1, <1>2 DEF HolderOK, Saving
<1>4. serving' \in BOOLEAN
  BY <1>1 DEF SegsOK, SegType, SegFlags
<1> QED
  BY <1>1, <1>2, <1>3, <1>4, HolderMoves DEF Saving

\* smp_allocx takes room in the open segment.
LEMMA AllocxKeeps ==
    ASSUME SegsOK, smp_allocx
    PROVE  SegsOK'
<1> DEFINE n == Len(segments)
           sg == segments[n]
<1>0. /\ op.pc = "try" /\ op \in HolderType /\ op.n > 0 /\ up /\ cur_seg /\ segments # <<>>
      /\ segments \in Seq(Segment)
      /\ UNCHANGED <<seg1, seg2, up, serving, cur_seg, free_offset, saved, sound>>
  BY DEF smp_allocx, SegsOK, SegType, Listed, OpenSegment, HolderOK, Idle, Holder, disk, ghosts, tally
<1>1. serving' \in BOOLEAN
  BY <1>0 DEF SegsOK, SegType, SegFlags
<1>a. Idle \in HolderType /\ Idle.pc = "idle"
  BY DEF Idle, Holder, HolderType
<1>b. op' = Idle => HolderOK'
  <2>1. SUFFICES ASSUME op' = Idle PROVE HolderOK'
    OBVIOUS
  <2>2. op' \in HolderType /\ op'.pc = "idle"
    BY <1>a, <2>1
  <2>3. up' /\ cur_seg'
    BY <1>0
  <2> QED
    BY <2>2, <2>3 DEF HolderOK, Saving
<1>2. CASE op.tries < 3 /\ used + op.n <= SegLen
  <2>1. /\ used' = used + op.n /\ op' = Idle
        /\ segments' = [segments EXCEPT ![n].nalloc = 1, ![n].lobj = IF op.obj THEN @ + 1 ELSE @]
    <3>1. used \in Nat /\ op.n \in Nat /\ op.tries \in Nat
      BY <1>0 DEF SegsOK, SegType, SegNumbers, HolderType
    <3>2. ~(used + op.n > SegLen) /\ op.tries # 3
      BY <1>2, <3>1
    <3> QED
      BY <3>2 DEF smp_allocx
  <2>2. used \in 0..SegLen /\ op.n \in Nat /\ used' \in 1..SegLen /\ used' >= used + 1
    BY <1>0, <1>2, <2>1 DEF SegsOK, SegType, SegNumbers, HolderType
  <2>3. n \in Nat \ {0} /\ DOMAIN segments = 1..n /\ sg \in Segment
    <3>1. n \in Nat \ {0} /\ DOMAIN segments = 1..n
      BY <1>0, EmptySeq, LenProperties
    <3> QED
      BY <1>0, <3>1, ElementOfSeq
  <2>4. sg.len = SegLen /\ sg.lobj <= used /\ sg.lobj \in Nat
    BY <1>0, <2>3 DEF SegsOK, OpenSegment, Segment
  <2> DEFINE l == IF op.obj THEN sg.lobj + 1 ELSE sg.lobj
             r == [sg EXCEPT !.nalloc = 1, !.lobj = l]
  <2>5. l \in 0..SegLen /\ l <= used'
    BY <2>2, <2>4
  <2>6. segments' = [segments EXCEPT ![n] = r]
    BY <1>0, <2>1, <2>3
  <2> HIDE DEF l
  <2>7. /\ r \in Segment /\ r.len = sg.len /\ r.off = sg.off /\ r.lobj = l /\ r.nalloc = 1
    BY <2>3, <2>5 DEF Segment
  <2> HIDE DEF r
  <2>8. /\ segments' \in Seq(Segment) /\ Len(segments') = n
        /\ \A i \in 1..n : segments'[i] = IF i = n THEN r ELSE segments[i]
    BY <1>0, <2>3, <2>6, <2>7, ExceptSeq
  <2>9. Listed(segments')
    <3>1. ASSUME NEW i \in 1..n PROVE segments'[i].len > 0 /\ Inside(segments'[i])
      <4>1. segments[i].len > 0 /\ Inside(segments[i])
        BY DEF SegsOK, SegType, Listed
      <4>2. CASE i = n
        BY <2>7, <2>8, <4>1, <4>2 DEF Inside, smp_segend
      <4>3. CASE i # n
        BY <2>8, <4>1, <4>3
      <4> QED
        BY <4>2, <4>3
    <3> QED
      BY <2>8, <3>1 DEF Listed
  <2>10. SegFlags'
    BY <1>0 DEF SegsOK, SegType, SegFlags
  <2>11. SegNumbers'
    BY <1>0, <2>2 DEF SegNumbers, SegsOK, SegType
  <2>12. SegType'
    BY <1>0, <2>9, <2>10, <2>11 DEF SegsOK, SegType
  <2>13. OpenSegment'
    <3>1. segments'[Len(segments')] = r
      <4>1. n \in 1..n
        BY <2>3
      <4>2. segments'[n] = r
        BY <2>8, <4>1
      <4> QED
        BY <2>8, <4>2
    <3>a. segments' # <<>>
      BY <2>3, <2>8, EmptySeq
    <3> QED
      BY <2>2, <2>4, <2>5, <2>7, <3>1, <3>a DEF OpenSegment
  <2>14. SegProtocol'
    <3>1. op'.pc = "idle"
      BY <2>1, <1>a
    <3>2. sound => seg1 = Stored /\ seg2 = Stored
      BY <1>0 DEF SegsOK, SegProtocol, Saving
    <3> QED
      BY <1>0, <3>1, <3>2 DEF SegProtocol, Saving, Stored
  <2> QED
    BY <1>b, <2>1, <2>12, <2>13, <2>14 DEF SegsOK
<1>3. CASE Step("close") /\ UNCHANGED <<used, segments>>
  <2>0. op' = [op EXCEPT !.pc = "close"]
    BY <1>3 DEF Step
  <2>1. op' \in HolderType /\ op'.pc = "close" /\ op'.then = op.then
    BY <1>0, <2>0 DEF HolderType
  <2>2. HolderOK'
    <3>1. op.then # "none"
      BY <1>0 DEF SegsOK, HolderOK
    <3> QED
      BY <1>0, <2>1, <3>1 DEF HolderOK, Saving
  <2> QED
    BY <1>0, <1>1, <1>3, <2>1, <2>2, HolderMoves DEF Saving
<1>4. CASE op' = Idle /\ UNCHANGED <<used, segments>>
  BY <1>0, <1>1, <1>4, <1>a, <1>b, HolderMoves DEF Saving
<1> QED
  BY <1>2, <1>3, <1>4 DEF smp_allocx

\* Commit, smp_oc_freeobj and the two halves of smp_load_seg change no more than
\* counts and states.
LEMMA RecountSteps ==
    ASSUME SegsOK, Commit \/ smp_oc_freeobj \/ LoadBegin \/ LoadEnd
    PROVE  /\ Recount(segments')
           /\ UNCHANGED <<seg1, seg2, up, serving, cur_seg, used, free_offset, op, saved, sound>>
<1> DEFINE n == Len(segments)
<1>0. UNCHANGED <<seg1, seg2, up, serving, cur_seg, used, free_offset, op, saved, sound>>
  BY DEF Commit, smp_oc_freeobj, LoadBegin, LoadEnd, disk, ghosts, tally
<1>1. segments \in Seq(Segment) /\ n \in Nat /\ DOMAIN segments = 1..n
  BY LenProperties DEF SegsOK, SegType, Listed
<1>2. \A i \in 1..n : segments[i] \in Segment
  BY <1>1, ElementOfSeq
\* One segment gets another count and state.
<1>3. ASSUME NEW i \in 1..n, NEW k \in Nat, NEW st \in {"new", "must", "held", "live"},
             segments' = [segments EXCEPT ![i] = [segments[i] EXCEPT !.nobj = k, !.state = st]]
      PROVE  Recount(segments')
  <2> DEFINE r == [segments[i] EXCEPT !.nobj = k, !.state = st]
  <2>1. r \in Segment /\ Ptr(r) = Ptr(segments[i]) /\ r.nalloc = segments[i].nalloc
    BY <1>2 DEF Segment, Ptr
  <2> HIDE DEF r
  <2>2. /\ segments' \in Seq(Segment) /\ Len(segments') = n
        /\ \A j \in 1..n : segments'[j] = IF j = i THEN r ELSE segments[j]
    BY <1>1, <1>3, <2>1, ExceptSeq DEF r
  <2> QED
    BY <1>1, <2>1, <2>2 DEF Recount
\* The segments with one name are counted up.
<1>4. ASSUME NEW id, NEW k \in Nat,
             segments' = [i \in DOMAIN segments |->
                            IF segments[i].id = id
                            THEN [segments[i] EXCEPT !.nobj = @ + k] ELSE segments[i]]
      PROVE  Recount(segments')
  <2>1. ASSUME NEW i \in 1..n
        PROVE  /\ segments'[i] \in Segment /\ Ptr(segments'[i]) = Ptr(segments[i])
               /\ segments'[i].nalloc = segments[i].nalloc
    <3>1. segments[i] \in Segment
      BY <1>2
    <3>2. CASE segments[i].id = id
      <4>1. segments'[i] = [segments[i] EXCEPT !.nobj = segments[i].nobj + k]
        BY <1>1, <1>4, <3>2
      <4>2. segments[i].nobj + k \in Nat
        BY <3>1 DEF Segment
      <4> QED
        BY <3>1, <4>1, <4>2 DEF Segment, Ptr
    <3>3. CASE segments[i].id # id
      BY <1>1, <1>4, <3>1, <3>3
    <3> QED
      BY <3>2, <3>3
  <2>2. segments' \in [1..n -> Segment]
    BY <1>1, <1>4, <2>1
  <2>3. segments' \in Seq(Segment) /\ Len(segments') = n
    BY <1>1, <2>2
  <2> QED
    BY <1>1, <2>1, <2>3 DEF Recount
<1>5. CASE Commit
  BY <1>0, <1>4, <1>5 DEF Commit
<1>6. CASE smp_oc_freeobj
  <2>1. PICK i \in 1..n : segments[i].nobj > 0 /\ segments' = [segments EXCEPT ![i].nobj = @ - 1]
    BY <1>1, <1>6 DEF smp_oc_freeobj
  <2>2. segments[i].nobj - 1 \in Nat /\ segments[i].state \in {"new", "must", "held", "live"}
    BY <1>2, <2>1 DEF Segment
  <2>3. segments' = [segments EXCEPT ![i] = [segments[i] EXCEPT !.nobj = segments[i].nobj - 1,
                                                                !.state = segments[i].state]]
    BY <1>1, <1>2, <2>1 DEF Segment
  <2> QED
    BY <1>0, <1>3, <2>2, <2>3
<1>7. CASE LoadBegin
  <2>1. PICK i \in 1..n :
           \/ segments' = [segments EXCEPT ![i].nobj = 0, ![i].state = "live"]
           \/ segments' = [segments EXCEPT ![i].state = "held"]
    BY <1>1, <1>7 DEF LoadBegin
  <2>2. segments[i].nobj \in Nat
    BY <1>2 DEF Segment
  <2>3. CASE segments' = [segments EXCEPT ![i].nobj = 0, ![i].state = "live"]
    <3>1. segments' = [segments EXCEPT ![i] = [segments[i] EXCEPT !.nobj = 0, !.state = "live"]]
      BY <1>1, <2>3
    <3> QED
      BY <1>0, <1>3, <3>1
  <2>4. CASE segments' = [segments EXCEPT ![i].state = "held"]
    <3>1. segments' = [segments EXCEPT ![i] = [segments[i] EXCEPT !.nobj = segments[i].nobj,
                                                                  !.state = "held"]]
      BY <1>1, <1>2, <2>4 DEF Segment
    <3> QED
      BY <1>0, <1>3, <2>2, <3>1
  <2> QED
    BY <2>1, <2>3, <2>4
<1>8. CASE LoadEnd
  <2>1. PICK k \in 0..SegLen :
           segments' = [i \in DOMAIN segments |->
                             IF segments[i].id = loading
                             THEN [segments[i] EXCEPT !.nobj = @ + k] ELSE segments[i]]
    BY <1>8 DEF LoadEnd
  <2>2. k \in Nat
    OBVIOUS
  <2> QED
    BY <1>0, <1>4, <2>1, <2>2
<1> QED
  BY <1>5, <1>6, <1>7, <1>8

\* smp_thread drops empty segments from the front, never the open one.
LEMMA ThreadKeeps ==
    ASSUME SegsOK, smp_thread
    PROVE  SegsOK'
<1>1. /\ op.pc = "idle" /\ cur_seg /\ segments # <<>> /\ Listed(segments)
      /\ segments' = Pruned(segments, TRUE) /\ op' = Holder("reset1", "none")
      /\ UNCHANGED <<seg1, seg2, up, serving, cur_seg, used, free_offset, saved, sound>>
  BY DEF smp_thread, SegsOK, SegType, disk, ghosts, tally
<1>2. /\ Listed(segments') /\ segments' # <<>>
      /\ segments'[Len(segments')] = segments[Len(segments)]
  BY <1>1, PrunedKeeps
<1>3. SegFlags'
  BY <1>1 DEF SegsOK, SegType, SegFlags
<1>4. SegType'
  BY <1>1, <1>2, <1>3 DEF SegsOK, SegType, SegNumbers
<1>5. OpenSegment'
  BY <1>1, <1>2 DEF SegsOK, OpenSegment
<1>6. op' \in HolderType /\ op'.pc = "reset1"
  BY <1>1 DEF HolderType, Holder
<1>7. up
  BY <1>1 DEF SegsOK, HolderOK
<1>8. HolderOK'
  BY <1>1, <1>6, <1>7 DEF HolderOK, Saving
<1>9. SegProtocol'
  <2>1. sound => seg1 = Stored /\ seg2 = Stored
    BY <1>1, <1>7 DEF SegsOK, SegProtocol, Saving
  <2> QED
    BY <1>1, <1>6, <2>1 DEF SegProtocol, Saving, Stored
<1> QED
  BY <1>4, <1>5, <1>8, <1>9 DEF SegsOK

\* Every step keeps what is said of the segments.
LEMMA SegsStep ==
    ASSUME SegsOK, [Next]_vars
    PROVE  SegsOK'
<1>1. CASE UNCHANGED <<seg1, seg2, up, serving, segments, cur_seg, used, free_offset, op, saved, sound>>
  <2>1. SegFlags' /\ SegNumbers'
    BY <1>1 DEF SegsOK, SegType, SegFlags, SegNumbers
  <2>2. SegType' /\ OpenSegment' /\ HolderOK'
    BY <1>1, <2>1 DEF SegsOK, SegType, OpenSegment, HolderOK
  <2>3. Ptrs' = Ptrs
    BY <1>1 DEF Ptrs
  <2>4. SegProtocol'
    BY <1>1, <2>3 DEF SegsOK, SegProtocol, Stored
  <2> QED
    BY <2>2, <2>4 DEF SegsOK
<1>2. CASE UNCHANGED vars
  BY <1>1, <1>2 DEF vars, disk, space, ghosts, tally
<1>3. CASE OpenDies \/ Ended
  BY <1>2, <1>3 DEF OpenDies, Ended
<1>4. CASE Crash \/ Exit
  <2>1. Gone /\ UNCHANGED <<seg1, seg2, sound>>
    BY <1>4 DEF Crash, Exit, disk, tally
  <2> QED
    BY <2>1, GoneKeepsSegs
<1>5. CASE smp_newsilo
  <2>1. /\ ~up /\ seg1' = Table(TRUE, <<>>) /\ seg2' = Table(TRUE, <<>>) /\ sound' = TRUE
        /\ UNCHANGED <<up, serving, segments, cur_seg, used, free_offset, op>>
    BY <1>5 DEF smp_newsilo, space
  <2>2. SegTable(Table(TRUE, <<>>))
    BY EmptySeq DEF SegTable, Table
  <2>3. SegFlags'
    BY <2>1 DEF SegsOK, SegType, SegFlags
  <2>4. SegType'
    BY <2>1, <2>2, <2>3 DEF SegsOK, SegType, SegNumbers
  <2>5. OpenSegment' /\ HolderOK'
    BY <2>1 DEF SegsOK, OpenSegment, HolderOK
  <2>6. SegProtocol'
    BY <2>1 DEF SegProtocol
  <2> QED
    BY <2>4, <2>5, <2>6 DEF SegsOK
<1>6. CASE Serve
  <2>1. /\ up /\ serving' = TRUE
        /\ UNCHANGED <<seg1, seg2, up, segments, cur_seg, used, free_offset, op, saved, sound>>
    BY <1>6 DEF Serve, Compiled, disk, space, ghosts, tally
  <2>2. Recount(segments')
    <3>1. segments \in Seq(Segment) /\ Len(segments) \in Nat
      BY LenProperties DEF SegsOK, SegType, Listed
    <3> QED
      BY <2>1, <3>1 DEF Recount
  <2>3. SegFlags'
    BY <2>1 DEF SegsOK, SegType, SegFlags
  <2>4. SegType'
    BY <2>1, <2>3 DEF SegsOK, SegType, SegNumbers
  <2>5. OpenSegment' /\ HolderOK'
    BY <2>1 DEF SegsOK, OpenSegment, HolderOK
  <2>6. Ptrs' = Ptrs
    BY <2>1 DEF Ptrs
  <2>7. SegProtocol'
    BY <2>1, <2>6 DEF SegsOK, SegProtocol, Stored
  <2> QED
    BY <2>4, <2>5, <2>7 DEF SegsOK
<1>7. CASE smp_open
  BY <1>7, OpenKeeps
<1>8. CASE smp_save_segs
  BY <1>8, SaveKeeps
<1>9. CASE smp_close_seg
  BY <1>9, CloseKeeps
<1>10. CASE NewSeg
  BY <1>10, NewSegKeeps
<1>11. CASE smp_alloc
  <2>1. 1 \in Nat \ {0} /\ FALSE \in BOOLEAN
    OBVIOUS
  <2> QED
    BY <1>11, <2>1, AllocateKeeps DEF smp_alloc
<1>12. ASSUME NEW n \in Sizes, smp_allocobj(n) PROVE SegsOK'
  <2>1. n \in Nat \ {0} /\ TRUE \in BOOLEAN
    OBVIOUS
  <2> QED
    BY <1>12, <2>1, AllocateKeeps DEF smp_allocobj
<1>13. CASE smp_allocx
  BY <1>13, AllocxKeeps
<1>14. CASE Commit \/ smp_oc_freeobj \/ LoadBegin \/ LoadEnd
  BY <1>14, RecountSteps, RecountKeeps
<1>15. CASE debug_persistent \/ smp_close
  BY <1>15, CloserKeeps
<1>16. CASE smp_thread
  BY <1>16, ThreadKeeps
<1>17. CASE Loaded \/ SMP_NewBan \/ (\E b \in NewBans : BAN_Insert(b))
  BY <1>1, <1>17 DEF Loaded, SMP_NewBan, BAN_Insert, disk, space, ghosts, tally
<1> QED
  BY <1>2, <1>3, <1>4, <1>5, <1>6, <1>7, <1>8, <1>9, <1>10, <1>11, <1>12, <1>13, <1>14, <1>15,
     <1>16, <1>17 DEF Next

----------------------------------------------------------------------------
(* The results.                                                            *)

\* A new silo satisfies the invariant.
LEMMA SiloInit ==
    ASSUME Init
    PROVE  SiloInv
<1>1. SegTable(Table(TRUE, <<>>)) /\ Listed(<<>>)
  BY EmptySeq DEF SegTable, Table, Listed
<1>2. Idle \in HolderType
  BY DEF Idle, Holder, HolderType
<1>3. SegType
  <2>1. SegFlags
    BY DEF Init, SegFlags
  <2>2. SegNumbers
    BY DEF Init, SegNumbers
  <2> QED
    BY <1>1, <2>1, <2>2 DEF Init, SegType
<1>4. OpenSegment /\ SegProtocol
  BY DEF Init, OpenSegment, SegProtocol
<1>5. HolderOK
  <2>1. op = Idle /\ op \in HolderType /\ ~up /\ ~serving /\ ~cur_seg
    BY <1>2 DEF Init
  <2>2. op.pc = "idle"
    BY <2>1 DEF Idle, Holder
  <2> QED
    BY <2>1, <2>2 DEF HolderOK, Saving
<1>6. BansOK
  <2>1. /\ ban1 = [ok |-> TRUE, list |-> {}] /\ ban2 = [ok |-> TRUE, list |-> {}] /\ acked = {}
        /\ ban = [pc |-> "idle", b |-> Magic] /\ up = FALSE /\ banSound = TRUE
    BY DEF Init, Table, NoBan
  <2>2. BanTable(ban1) /\ BanTable(ban2)
    BY <2>1 DEF BanTable
  <2>3. BanProtocol
    BY <2>1 DEF BanProtocol
  <2> QED
    BY <2>1, <2>2, <2>3 DEF BansOK
<1> QED
  BY <1>3, <1>4, <1>5, <1>6 DEF SiloInv, SegsOK

\* The invariant holds throughout.
LEMMA SiloAlways == Spec => []SiloInv
<1>1. Init => SiloInv
  BY SiloInit
<1>2. SiloInv /\ [Next]_vars => SiloInv'
  BY BansStep, SegsStep DEF SiloInv, SegsOK, HolderOK
<1> QED
  BY <1>1, <1>2, PTL DEF Spec

\* Whenever a child dies, between any two stores of smp_save_segs and
\* SMP_NewBan, one table of segments and one of bans is valid, if both were
\* good when the child began to write; and all state is well typed.
THEOREM TablesCorrect == Spec => []TablesUsable
<1>1. SiloInv => TablesUsable
  <2>1. SUFFICES ASSUME SiloInv PROVE TablesUsable
    OBVIOUS
  <2>2. up /\ sound => seg1.ok \/ seg2.ok
    <3>1. SUFFICES ASSUME up, sound PROVE seg1.ok \/ seg2.ok
      OBVIOUS
    <3>2. op.pc \in {"reset2", "fill2", "sign2"} \/ op.pc \notin {"reset2", "fill2", "sign2"}
      OBVIOUS
    <3>3. seg1 = Table(TRUE, Ptrs) \/ seg2 = Table(TRUE, saved)
      BY <2>1, <3>1 DEF SiloInv, SegsOK, SegProtocol, Saving, Stored
    <3> QED
      BY <3>3 DEF Table
  <2>3. up /\ banSound => ban1.ok \/ ban2.ok
    BY <2>1 DEF SiloInv, BansOK, BanProtocol
  <2>4. \A t \in {seg1, seg2} : t.ok \in BOOLEAN /\ \A i \in DOMAIN t.list : t.list[i].len > 0
    <3>1. ASSUME NEW t, SegTable(t)
          PROVE  t.ok \in BOOLEAN /\ \A i \in DOMAIN t.list : t.list[i].len > 0
      <4>1. t.ok \in BOOLEAN /\ t.list \in Seq(Pointer)
        BY <3>1 DEF SegTable
      <4>2. \A i \in DOMAIN t.list : t.list[i] \in Pointer
        BY <4>1
      <4> QED
        BY <4>1, <4>2 DEF Pointer
    <3> QED
      BY <2>1, <3>1 DEF SiloInv, SegsOK, SegType
  <2>5. \A t \in {ban1, ban2} : t.ok \in BOOLEAN /\ t.list \subseteq NewBans \cup {Magic}
    BY <2>1 DEF SiloInv, BansOK, BanTable
  <2>6. \A i \in DOMAIN segments : segments[i] \in Segment
    BY <2>1 DEF SiloInv, SegsOK, SegType, Listed
  <2>7. used \in 0..SegLen /\ free_offset \in 0..Media /\ (cur_seg => segments # <<>>)
    BY <2>1 DEF SiloInv, SegsOK, SegType, SegNumbers, OpenSegment
  <2> QED
    BY <2>2, <2>3, <2>4, <2>5, <2>6, <2>7 DEF TablesUsable, TypeOK
<1> QED
  BY <1>1, SiloAlways, PTL

\* A ban whose insertion was completed is among those the next child reloads,
\* whichever of the two tables it reads.
THEOREM BansCorrect == Spec => []BansSurvive
<1>1. SiloInv => BansSurvive
  BY DEF SiloInv, BansOK, BanProtocol, BansSurvive, BansRead
<1> QED
  BY <1>1, SiloAlways, PTL

\* How far smp_save_segs is decides which list the next child takes.
LEMMA ListInv ==
    ASSUME SiloInv
    PROVE  ListSurvives
<1>1. SUFFICES ASSUME up, sound PROVE ListSurvives
  BY DEF ListSurvives
<1>2. SegProtocol
  BY DEF SiloInv, SegsOK
<1>3. CASE op.pc \notin Saving
  <2>1. SegsRead = saved
    BY <1>1, <1>2, <1>3 DEF SegProtocol, Stored, SegsRead, Table
  <2> QED
    BY <2>1 DEF ListSurvives
<1>4. CASE op.pc = "fill1"
  <2>1. SegsRead = <<>>
    BY <1>1, <1>2, <1>4 DEF SegProtocol, SegsRead, Table
  <2> QED
    BY <1>4, <2>1 DEF ListSurvives
<1>5. CASE op.pc = "sign1"
  <2>1. SegsRead = Ptrs \/ SegsRead = saved
    BY <1>1, <1>2, <1>5 DEF SegProtocol, SegsRead, Table, Stored
  <2> QED
    BY <1>5, <2>1 DEF ListSurvives
<1>6. CASE op.pc \in {"reset2", "fill2", "sign2"}
  <2>1. SegsRead = Ptrs
    BY <1>1, <1>2, <1>6 DEF SegProtocol, SegsRead, Table
  <2> QED
    BY <1>6, <2>1 DEF ListSurvives
<1> QED
  BY <1>3, <1>4, <1>5, <1>6 DEF Saving

\* The next child takes the list that was saved last or the one that is being
\* saved; only between the reset of the first table and its contents is it empty.
THEOREM ListCorrect == Spec => []ListSurvives
<1>1. SiloInv => ListSurvives
  BY ListInv
<1> QED
  BY <1>1, SiloAlways, PTL

----------------------------------------------------------------------------
(* The space.                                                              *)

Solid(q) == Len(q) \in Nat /\ \A i \in 1..Len(q) : q[i].off \in Nat /\ q[i].len \in Nat \ {0}

\* p lies within the segments of q from position a on.
Slice(p, q, a) ==
    /\ Len(p) <= Len(q) - a + 1
    /\ \A j \in 1..Len(p) : p[j].off = q[j + a - 1].off /\ p[j].len <= q[j + a - 1].len

\* The order of a segment at x and a younger one at y when the oldest is at o.
RingOrder(o, x, lx, y, ly) ==
    /\ x < o => y < o
    /\ y < o /\ x >= o => y + ly <= o
    /\ y < o /\ x < o => x + lx <= y
    /\ y >= o /\ x >= o => x + lx <= y

\* What Ring says of two segments.
LEMMA RingPair ==
    ASSUME NEW q, Solid(q), Ring(q), NEW i \in 1..Len(q), NEW k \in 1..Len(q), i < k
    PROVE  /\ q[i].off < q[1].off => q[k].off < q[1].off
           /\ q[k].off < q[1].off /\ q[i].off >= q[1].off => q[k].off + q[k].len <= q[1].off
           /\ q[k].off < q[1].off /\ q[i].off < q[1].off => q[i].off + q[i].len <= q[k].off
           /\ q[k].off >= q[1].off /\ q[i].off >= q[1].off => q[i].off + q[i].len <= q[k].off
<1>1. /\ Wrapped(q, i) => Wrapped(q, k)
      /\ Wrapped(q, k) /\ ~Wrapped(q, i) => smp_segend(q[k]) <= q[1].off
      /\ Wrapped(q, k) = Wrapped(q, i) => smp_segend(q[i]) <= q[k].off
  BY DEF Ring
<1>2. q[1].off \in Nat /\ q[i].off \in Nat /\ q[k].off \in Nat
  BY DEF Solid
<1> QED
  BY <1>1, <1>2 DEF Wrapped, smp_segend

\* Two segments of a ring lie apart.
LEMMA RingApart ==
    ASSUME NEW q, Solid(q), Ring(q), NEW i \in 1..Len(q), NEW k \in 1..Len(q), i # k
    PROVE  Apart(q[i], q[k])
<1>1. Len(q) \in Nat /\ 1 \in 1..Len(q)
  BY DEF Solid
<1>2. \A m \in {1, i, k} : q[m].off \in Nat /\ q[m].len \in Nat
  BY <1>1 DEF Solid
<1>3. CASE i < k
  <2>1. q[i].off >= q[1].off \/ q[i].off < q[1].off
    BY <1>2
  <2>2. q[k].off >= q[1].off \/ q[k].off < q[1].off
    BY <1>2
  <2> QED
    BY <1>2, <1>3, <2>1, <2>2, RingPair DEF Apart, smp_segend
<1>4. CASE k < i
  <2>1. q[i].off >= q[1].off \/ q[i].off < q[1].off
    BY <1>2
  <2>2. q[k].off >= q[1].off \/ q[k].off < q[1].off
    BY <1>2
  <2> QED
    BY <1>2, <1>4, <2>1, <2>2, RingPair DEF Apart, smp_segend
<1> QED
  BY <1>1, <1>3, <1>4

\* A slice of a ring is a ring.
LEMMA RingSlice ==
    ASSUME NEW q, Solid(q), Ring(q), NEW p, Solid(p), NEW a \in 1..Len(q), Slice(p, q, a)
    PROVE  Ring(p)
<1>0. Len(q) \in Nat /\ Len(p) \in Nat /\ Len(p) <= Len(q) - a + 1
  BY DEF Solid, Slice
<1>1. SUFFICES ASSUME NEW i \in 1..Len(p), NEW k \in 1..Len(p), i < k
      PROVE  /\ Wrapped(p, i) => Wrapped(p, k)
             /\ Wrapped(p, k) /\ ~Wrapped(p, i) => smp_segend(p[k]) <= p[1].off
             /\ Wrapped(p, k) = Wrapped(p, i) => smp_segend(p[i]) <= p[k].off
  BY DEF Ring
<1> DEFINE x == i + a - 1
           y == k + a - 1
<1>2. x \in 1..Len(q) /\ y \in 1..Len(q) /\ x < y /\ a <= x /\ 1 \in 1..Len(p) /\ 1 \in 1..Len(q)
  BY <1>0, <1>1
<1>3. /\ p[1].off = q[a].off /\ p[i].off = q[x].off /\ p[k].off = q[y].off
      /\ p[i].len <= q[x].len /\ p[k].len <= q[y].len
  <2>1. 1 + a - 1 = a
    OBVIOUS
  <2> QED
    BY <1>2, <2>1 DEF Slice
<1> HIDE DEF x, y
<1>4. /\ \A m \in {1, a, x, y} : q[m].off \in Nat /\ q[m].len \in Nat \ {0}
      /\ \A m \in {1, i, k} : p[m].off \in Nat /\ p[m].len \in Nat \ {0}
  BY <1>2 DEF Solid
<1>5. /\ q[x].off < q[1].off => q[y].off < q[1].off
      /\ q[y].off < q[1].off /\ q[x].off >= q[1].off => q[y].off + q[y].len <= q[1].off
      /\ q[y].off < q[1].off /\ q[x].off < q[1].off => q[x].off + q[x].len <= q[y].off
      /\ q[y].off >= q[1].off /\ q[x].off >= q[1].off => q[x].off + q[x].len <= q[y].off
  BY <1>2, RingPair
<1>6. a < x => /\ q[a].off < q[1].off => q[x].off < q[1].off
               /\ q[x].off < q[1].off /\ q[a].off >= q[1].off => q[x].off + q[x].len <= q[1].off
               /\ q[x].off < q[1].off /\ q[a].off < q[1].off => q[a].off + q[a].len <= q[x].off
               /\ q[x].off >= q[1].off /\ q[a].off >= q[1].off => q[a].off + q[a].len <= q[x].off
  BY <1>2, RingPair
<1>7. /\ q[a].off < q[1].off => q[y].off < q[1].off
      /\ q[y].off < q[1].off /\ q[a].off >= q[1].off => q[y].off + q[y].len <= q[1].off
      /\ q[y].off < q[1].off /\ q[a].off < q[1].off => q[a].off + q[a].len <= q[y].off
      /\ q[y].off >= q[1].off /\ q[a].off >= q[1].off => q[a].off + q[a].len <= q[y].off
  BY <1>2, RingPair
<1>8. a = x \/ a < x
  BY <1>2
<1>9. /\ p[i].off < p[1].off => p[k].off < p[1].off
      /\ p[k].off < p[1].off /\ p[i].off >= p[1].off => p[k].off + p[k].len <= p[1].off
      /\ p[k].off < p[1].off /\ p[i].off < p[1].off => p[i].off + p[i].len <= p[k].off
      /\ p[k].off >= p[1].off /\ p[i].off >= p[1].off => p[i].off + p[i].len <= p[k].off
  <2>1. PICK A \in Nat, X \in Nat, Y \in Nat, O \in Nat, LA \in Nat, LX \in Nat, LY \in Nat,
             MX \in Nat, MY \in Nat :
           /\ A = q[a].off /\ X = q[x].off /\ Y = q[y].off /\ O = q[1].off
           /\ LA = q[a].len /\ LX = q[x].len /\ LY = q[y].len /\ MX = p[i].len /\ MY = p[k].len
    BY <1>4
  <2>2. A = X \/ RingOrder(O, A, LA, X, LX)
    BY <1>6, <1>8, <2>1 DEF RingOrder
  <2>3. RingOrder(O, X, LX, Y, LY) /\ RingOrder(O, A, LA, Y, LY)
    BY <1>5, <1>7, <2>1 DEF RingOrder
  <2>4. MX <= LX /\ MY <= LY
    BY <1>3, <2>1
  <2>5. RingOrder(A, X, MX, Y, MY)
    <3>1. CASE A >= O /\ X >= O /\ Y >= O
      BY <2>2, <2>3, <2>4, <3>1 DEF RingOrder
    <3>2. CASE A >= O /\ X >= O /\ Y < O
      BY <2>2, <2>3, <2>4, <3>2 DEF RingOrder
    <3>3. CASE A >= O /\ X < O
      BY <2>2, <2>3, <2>4, <3>3 DEF RingOrder
    <3>4. CASE A < O
      BY <2>2, <2>3, <2>4, <3>4 DEF RingOrder
    <3> QED
      BY <3>1, <3>2, <3>3, <3>4
  <2> QED
    BY <1>3, <2>1, <2>5 DEF RingOrder
<1>10. p[1].off \in Nat /\ p[i].off \in Nat /\ p[k].off \in Nat
  BY <1>4
<1> QED
  BY <1>9, <1>10 DEF Wrapped, smp_segend

\* The list in memory, and a table, is made of segments of some length.
LEMMA ListedSolid ==
    ASSUME NEW q, Listed(q)
    PROVE  Solid(q) /\ q \in Seq(Segment) /\ DOMAIN q = 1..Len(q)
                    /\ \A i \in 1..Len(q) : q[i] \in Segment /\ q[i].off + SegLen <= Media
<1>1. q \in Seq(Segment) /\ Len(q) \in Nat /\ DOMAIN q = 1..Len(q)
  BY LenProperties DEF Listed
<1>2. \A i \in 1..Len(q) : q[i] \in Segment
  BY <1>1, ElementOfSeq
<1>3. \A i \in 1..Len(q) : q[i].off \in Nat /\ q[i].len \in Nat \ {0} /\ q[i].off + SegLen <= Media
  BY <1>2, SMTT(30) DEF Listed, Segment, Inside
<1> QED
  BY <1>1, <1>2, <1>3 DEF Solid

\* So is a table.
LEMMA TableSolid ==
    ASSUME NEW q \in Seq(Pointer)
    PROVE  Solid(q)
<1>1. Len(q) \in Nat
  BY LenProperties
<1>2. \A i \in 1..Len(q) : q[i] \in Pointer
  BY ElementOfSeq
<1>3. \A i \in 1..Len(q) : q[i].off \in Nat /\ q[i].len \in Nat \ {0}
  BY <1>2 DEF Pointer
<1> QED
  BY <1>1, <1>3 DEF Solid

\* The space after the youngest segment stays free when others are dropped from
\* the front and when the youngest is shortened.
LEMMA FreeSlice ==
    ASSUME NEW q, Solid(q), Ring(q), NEW free \in Nat, FreeAt(q, free), q # <<>>,
           NEW p, Solid(p), NEW a \in 1..Len(q), Slice(p, q, a), Len(p) = Len(q) - a + 1
    PROVE  FreeAt(p, free)
<1> DEFINE n == Len(q)
<1>1. n \in Nat /\ n \in 1..n /\ 1 \in 1..n /\ Len(p) \in 1..Len(p) /\ 1 \in 1..Len(p)
      /\ Len(p) + a - 1 = n /\ 1 + a - 1 = a
  BY DEF Solid
<1>2. p[1].off = q[a].off /\ p[Len(p)].off = q[n].off /\ p[Len(p)].len <= q[n].len
  BY <1>1 DEF Slice
<1>3. PICK A \in Nat, LA \in Nat, N \in Nat, LN \in Nat, MN \in Nat, O \in Nat :
         /\ A = q[a].off /\ N = q[n].off /\ LN = q[n].len /\ MN = p[Len(p)].len /\ O = q[1].off
         /\ LA = q[a].len
  BY <1>1 DEF Solid
<1>4. a < n => RingOrder(O, A, LA, N, LN)
  BY <1>1, <1>3, RingPair DEF RingOrder
<1>5. a = n => A = N
  BY <1>3
<1>6. /\ p[1].off = A /\ p[Len(p)].off = N /\ p[Len(p)].len = MN /\ MN <= LN
  BY <1>2, <1>3
<1>7. \/ N + LN <= free /\ (N < O => free <= O)
      \/ ~(N < O) /\ free <= O
  BY <1>3 DEF FreeAt, Wrapped, smp_segend
<1>8. \/ N + MN <= free /\ (N < A => free <= A)
      \/ ~(N < A) /\ free <= A
  <2>1. CASE a = n
    BY <1>5, <1>6, <1>7, <2>1
  <2>2. CASE a < n /\ A >= O
    BY <1>4, <1>6, <1>7, <2>2 DEF RingOrder
  <2>3. CASE a < n /\ A < O
    BY <1>4, <1>6, <1>7, <2>3 DEF RingOrder
  <2>4. a = n \/ a < n
    <3>1. n \in Nat /\ a \in 1..n
      BY <1>1
    <3> HIDE DEF n
    <3> QED
      BY <3>1
  <2>5. A >= O \/ A < O
    OBVIOUS
  <2> QED
    BY <2>1, <2>2, <2>3, <2>4, <2>5
<1> QED
  BY <1>6, <1>8 DEF FreeAt, Wrapped, smp_segend

\* And when the youngest segment is dropped.
LEMMA FreeWithout ==
    ASSUME NEW q, Solid(q), Ring(q), NEW free \in Nat, FreeAt(q, free), q # <<>>,
           NEW p, Len(p) = Len(q) - 1, \A i \in 1..Len(p) : p[i] = q[i],
           p = <<>> \/ Len(p) > 0
    PROVE  FreeAt(p, free)
<1> DEFINE n == Len(q)
           m == Len(p)
<1>1. CASE p = <<>>
  BY <1>1 DEF FreeAt
<1>2. CASE Len(p) > 0
  <2>1. n \in Nat /\ m \in 1..n /\ n \in 1..n /\ 1 \in 1..n /\ m < n /\ p[1] = q[1] /\ p[m] = q[m]
    BY <1>2 DEF Solid
  <2>2. PICK O \in Nat, M \in Nat, LM \in Nat, N \in Nat, LN \in Nat :
           /\ M = q[m].off /\ LM = q[m].len /\ N = q[n].off /\ LN = q[n].len /\ O = q[1].off
    BY <2>1 DEF Solid
  <2>3. RingOrder(O, M, LM, N, LN)
    BY <2>1, <2>2, RingPair DEF RingOrder
  <2>4. \/ N + LN <= free /\ (N < O => free <= O)
        \/ ~(N < O) /\ free <= O
    BY <2>2 DEF FreeAt, Wrapped, smp_segend
  <2>5. \/ M + LM <= free /\ (M < O => free <= O)
        \/ ~(M < O) /\ free <= O
    BY <2>3, <2>4 DEF RingOrder
  <2> QED
    BY <2>1, <2>2, <2>5 DEF FreeAt, Wrapped, smp_segend
<1> QED
  BY <1>1, <1>2

\* smp_new_seg puts the segment on the ring.
LEMMA NewSegRing ==
    ASSUME NEW segs, Listed(segs), Ring(segs), NEW free \in 0..Media, FreeAt(segs, free),
           NEW id \in Nat \ {0},
           ~smp_new_seg(segs, free, id).dies, ~smp_new_seg(segs, free, id).brim
    PROVE  LET new == smp_new_seg(segs, free, id)
           IN /\ Ring(new.segments) /\ FreeAt(new.segments, new.free)
              /\ Len(new.segments) = Len(segs) + 1
              /\ \A i \in 1..Len(segs) : new.segments[i] = segs[i]
              /\ ~new.segments[Len(segs) + 1].idx
<1> DEFINE n == Len(segs)
           off == IF free + SegLen > Media THEN 0 ELSE free
           sg == [id |-> id, off |-> off, len |-> SegLen, idx |-> FALSE,
                  lobj |-> 0, nobj |-> 0, nalloc |-> 0, state |-> "new"]
           new == smp_new_seg(segs, free, id)
           q == Append(segs, sg)
<1>1. new.segments = q /\ new.free = off + SegLen
  BY DEF smp_new_seg
<1>2. /\ free < Media
      /\ segs = <<>> => ~(free + SegLen > Media)
      /\ segs # <<>> => /\ (free + SegLen > Media => ~(off + SegLen > segs[1].off))
                        /\ (segs[1].off > off => ~(off + SegLen > segs[1].off))
                        /\ segs[1].off # off
  <2>1. /\ ~(free >= Media)
        /\ ~(free + SegLen > Media /\ (segs = <<>> \/ off + SegLen > segs[1].off))
        /\ ~(segs # <<>> /\ segs[1].off > off /\ off + SegLen > segs[1].off)
        /\ ~(segs # <<>> /\ segs[1].off = off)
    BY DEF smp_new_seg
  <2>2. free < Media
    BY <2>1
  <2> QED
    BY <2>1, <2>2
<1>3. /\ Solid(segs) /\ segs \in Seq(Segment) /\ n \in Nat
      /\ \A i \in 1..n : segs[i] \in Segment /\ segs[i].off + SegLen <= Media
  BY ListedSolid DEF Solid
<1>4. sg.off = off /\ sg.len = SegLen /\ sg.idx = FALSE /\ off \in 0..Media
  OBVIOUS
<1>5. sg \in Segment
  BY <1>4 DEF Segment
<1>a. off = 0 \/ (off = free /\ ~(free + SegLen > Media))
  OBVIOUS
<1>b. free + SegLen > Media => off = 0
  OBVIOUS
<1> HIDE DEF off, sg
<1>6. /\ Len(q) = n + 1 /\ q[n + 1] = sg /\ \A i \in 1..n : q[i] = segs[i]
  BY <1>3, <1>5, AppendProperties
<1> HIDE DEF q, new
<1>7. q # <<>>
  BY <1>3, <1>6, EmptySeq
<1>8. CASE segs = <<>>
  <2>1. n = 0
    BY <1>8, EmptySeq
  <2>2. Ring(q)
    BY <1>6, <2>1 DEF Ring
  <2>3. FreeAt(q, off + SegLen)
    BY <1>4, <1>6, <2>1 DEF FreeAt, Wrapped, smp_segend
  <2> QED
    BY <1>1, <1>4, <1>6, <2>2, <2>3 DEF new
<1>9. CASE segs # <<>>
  <2>1. n \in 1..n /\ 1 \in 1..n /\ 1 \in 1..n+1
    BY <1>3, <1>9, EmptySeq
  <2>2. PICK O \in Nat, N \in Nat, LN \in Nat, F \in Nat, D \in Nat :
           /\ O = segs[1].off /\ N = segs[n].off /\ LN = segs[n].len /\ F = free /\ D = off
    BY <1>3, <1>4, <2>1, SMTT(30) DEF Solid
  <2>3. \/ N + LN <= F /\ (N < O => F <= O)
        \/ ~(N < O) /\ F <= O
    BY <1>9, <2>2 DEF FreeAt, Wrapped, smp_segend
  <2>4. O + SegLen <= Media /\ O # D /\ (O > D => D + SegLen <= O)
    BY <1>2, <1>3, <1>9, <2>1, <2>2
  <2>5. (F + SegLen > Media /\ D = 0 /\ SegLen <= O) \/ (F + SegLen <= Media /\ D = F)
    <3>1. CASE F + SegLen > Media
      BY <1>2, <1>9, <1>b, <2>2, <2>4, <3>1
    <3>2. CASE ~(F + SegLen > Media)
      <4>1. off = free
        BY <2>2, <3>2 DEF off
      <4> QED
        BY <2>2, <3>2, <4>1
    <3> QED
      BY <3>1, <3>2
  \* A new segment before the oldest comes after all that are there already.
  <2>6. D < O => /\ D + SegLen <= O
                 /\ N < O => N + LN <= D
    BY <2>3, <2>4, <2>5
  <2>7. D >= O => N >= O /\ N + LN <= D
    BY <2>3, <2>4, <2>5
  <2>8. ASSUME NEW i \in 1..n
        PROVE  RingOrder(O, segs[i].off, segs[i].len, D, SegLen)
    <3>1. PICK X \in Nat, LX \in Nat : X = segs[i].off /\ LX = segs[i].len
      BY <1>3 DEF Solid
    <3>2. i < n => RingOrder(O, X, LX, N, LN)
      BY <1>3, <2>1, <2>2, <3>1, RingPair DEF RingOrder
    <3>3. i = n => X = N /\ LX = LN
      BY <2>2, <3>1
    <3>4. i = n \/ i < n
      BY <1>3
    <3>5. RingOrder(O, X, LX, D, SegLen)
      <4>1. CASE D < O /\ i = n
        BY <2>6, <3>3, <4>1 DEF RingOrder
      <4>2. CASE D < O /\ i < n
        BY <2>6, <3>2, <4>2 DEF RingOrder
      <4>3. CASE D >= O /\ i = n
        BY <2>7, <3>3, <4>3 DEF RingOrder
      <4>4. CASE D >= O /\ i < n
        BY <2>7, <3>2, <4>4 DEF RingOrder
      <4>5. D < O \/ D >= O
        OBVIOUS
      <4> QED
        BY <3>4, <4>1, <4>2, <4>3, <4>4, <4>5
    <3> QED
      BY <3>1, <3>5
  <2>9. Ring(q)
    <3>1. SUFFICES ASSUME NEW i \in 1..n+1, NEW k \in 1..n+1, i < k
          PROVE  /\ Wrapped(q, i) => Wrapped(q, k)
                 /\ Wrapped(q, k) /\ ~Wrapped(q, i) => smp_segend(q[k]) <= q[1].off
                 /\ Wrapped(q, k) = Wrapped(q, i) => smp_segend(q[i]) <= q[k].off
      BY <1>6 DEF Ring
    <3>2. i \in 1..n
      BY <1>3, <3>1
    <3>3. RingOrder(q[1].off, q[i].off, q[i].len, q[k].off, q[k].len)
      <4>1. CASE k = n + 1
        BY <1>4, <1>6, <2>1, <2>2, <2>8, <3>2, <4>1
      <4>2. CASE k \in 1..n
        BY <1>3, <1>6, <2>1, <3>1, <3>2, <4>2, RingPair DEF RingOrder
      <4> QED
        BY <1>3, <4>1, <4>2
    <3>4. q[1].off \in Nat /\ q[i].off \in Nat /\ q[k].off \in Nat
      <4>1. CASE k = n + 1
        BY <1>3, <1>4, <1>6, <2>1, <3>2, <4>1 DEF Solid
      <4>2. CASE k \in 1..n
        BY <1>3, <1>6, <2>1, <3>2, <4>2 DEF Solid
      <4> QED
        BY <1>3, <4>1, <4>2
    <3> QED
      BY <3>3, <3>4 DEF RingOrder, Wrapped, smp_segend
  <2>10. FreeAt(q, off + SegLen)
    BY <1>4, <1>6, <2>1, <2>2, <2>6 DEF FreeAt, Wrapped, smp_segend
  <2> QED
    BY <1>1, <1>4, <1>6, <2>9, <2>10 DEF new
<1> QED
  BY <1>8, <1>9

\* What smp_open_segs keeps of a ring is a ring, made of entries of the table, and
\* the next segment goes to a place where no segment begins.
OpenRing(q, free) ==
    /\ Ring(q) /\ FreeAt(q, free)
    /\ q # <<>> => \/ /\ smp_segend(q[Len(q)]) = free
                      /\ Wrapped(q, Len(q)) => free < q[1].off
                   \/ free = 0 /\ q[1].off > 0

Entries(q, t) == \A i \in 1..Len(q) : \E k \in 1..Len(t) : q[i] = t[k]

\* smp_open_segs does so.
LEMMA OpenSegsRing ==
    ASSUME NEW t \in Seq(Pointer), \A i \in 1..Len(t) : Inside(t[i]), Ring(t)
    PROVE  LET o == smp_open_segs(t)
           IN Entries(o.list, t) /\ (o.ok => OpenRing(o.list, o.free))
<1>1. CASE t = <<>>
  <2>1. smp_open_segs(t).list = <<>> /\ Len(<<>>) = 0
    BY <1>1, EmptySeq DEF smp_open_segs
  <2> QED
    BY <2>1 DEF Entries, OpenRing, Ring, FreeAt
<1>2. CASE t # <<>>
  <2> DEFINE n == Len(t)
             o == smp_open_segs(t)
  <2>1. PICK i1 \in 1..n, k \in 1..n, l1 \in Int, l2 \in Int : i1 <= k /\ OpensAt(t, i1, k, l1, l2)
    BY <1>2, OpenSegsAt
  <2> DEFINE q == SubSeq(t, k, n)
             m == Len(q)
  <2>2. /\ o.list = q /\ o.free = (IF l1 < Reserve THEN 0 ELSE smp_segend(t[n]))
        /\ o.ok = (l2 >= Reserve)
    BY <2>1 DEF OpensAt
  <2>3. /\ q \in Seq(Pointer) /\ m = n - k + 1
        /\ \A j \in 1..n - k + 1 : q[j] = t[j + k - 1]
    BY Suffix
  <2>4. n \in Nat \ {0} /\ 1 \in 1..n /\ n \in 1..n
    BY <1>2, EmptySeq, LenProperties
  <2>5. Solid(t) /\ Solid(q)
    BY <2>3, TableSolid
  <2> HIDE DEF q, o
  <2>6. \A j \in 1..m : j + k - 1 \in 1..n
    <3>1. m = n - k + 1
      BY <2>3
    <3> HIDE DEF m, n
    <3> QED
      BY <2>4, <3>1
  <2>7. Entries(q, t)
    BY <2>3, <2>6 DEF Entries
  <2>8. Slice(q, t, k)
    BY <2>3, <2>5, <2>6 DEF Slice, Solid
  <2>9. Ring(q)
    BY <2>5, <2>8, RingSlice
  <2>10. q[1] = t[k] /\ q[m] = t[n] /\ q # <<>>
    <3>1. m = n - k + 1
      BY <2>3
    <3>2. 1 \in 1..m /\ m \in 1..m /\ 1 + k - 1 = k /\ m + k - 1 = n
      <4> HIDE DEF m, n
      <4> QED
        BY <2>4, <3>1
    <3>3. m # 0
      BY <3>2
    <3> QED
      BY <2>3, <3>2, <3>3, EmptySeq
  <2>11. PICK O \in Nat, LO \in Nat, I \in Nat, LI \in Nat, K \in Nat, LK \in Nat, N \in Nat, LN \in Nat :
            /\ O = t[1].off /\ LO = t[1].len /\ I = t[i1].off /\ LI = t[i1].len
            /\ K = t[k].off /\ LK = t[k].len /\ N = t[n].off /\ LN = t[n].len
            /\ LI > 0
    <3>1. /\ t[1].off \in Nat /\ t[1].len \in Nat /\ t[i1].off \in Nat /\ t[i1].len \in Nat
          /\ t[k].off \in Nat /\ t[k].len \in Nat /\ t[n].off \in Nat /\ t[n].len \in Nat
          /\ t[i1].len > 0
      BY <2>4, <2>5 DEF Solid
    <3> QED
      BY <3>1, Zenon
  <2>12. /\ O <= N => i1 = 1
         /\ O > N => I <= N \/ (l1 = I - (N + LN) /\ l1 > Reserve)
         /\ l1 >= Reserve => k = i1
         /\ l1 < Reserve => K > Reserve \/ (k = n /\ k > i1) \/ l2 = l1
    BY <2>1, <2>11 DEF OpensAt, smp_segend
  <2>13. /\ i1 < n => RingOrder(O, I, LI, N, LN)
         /\ k < n => RingOrder(O, K, LK, N, LN)
         /\ i1 < k => RingOrder(O, I, LI, K, LK)
    <3>1. i1 < n => RingOrder(O, I, LI, N, LN)
      BY <2>4, <2>5, <2>11, RingPair DEF RingOrder
    <3>2. k < n => RingOrder(O, K, LK, N, LN)
      BY <2>4, <2>5, <2>11, RingPair DEF RingOrder
    <3>3. i1 < k => RingOrder(O, I, LI, K, LK)
      BY <2>4, <2>5, <2>11, RingPair DEF RingOrder
    <3> QED
      BY <3>1, <3>2, <3>3
  <2>14. /\ i1 = 1 => I = O
         /\ i1 = k => I = K
         /\ k = n => K = N /\ LK = LN
         /\ i1 = n => I = N
    BY <2>11
  <2>15. i1 <= k /\ k <= n /\ (k = n \/ k < n) /\ (i1 = k \/ i1 < k)
    BY <2>1, <2>4
  <2>16. o.free \in Nat /\ o.free = IF l1 < Reserve THEN 0 ELSE N + LN
    BY <2>2, <2>11 DEF smp_segend
  <2>17. ASSUME l1 >= Reserve
         PROVE  o.free = N + LN /\ (N < K => o.free < K)
    <3>1. k = i1 /\ I = K /\ o.free = N + LN
      BY <2>12, <2>14, <2>16, <2>17
    <3> QED
      BY <2>12, <2>14, <3>1
  <2>18. ASSUME l1 < Reserve, l2 >= Reserve
         PROVE  o.free = 0 /\ K > 0 /\ K <= N
    <3>1. o.free = 0
      BY <2>16, <2>18
    <3>2. K > Reserve \/ (k = n /\ k > i1)
      BY <2>12, <2>18
    <3>3. K <= N
      <4>1. CASE k = n
        BY <2>14, <4>1
      <4>2. CASE k < n /\ O <= N
        BY <2>13, <4>2 DEF RingOrder
      <4>3. CASE k < n /\ O > N
        <5>1. I <= N
          BY <2>12, <2>18, <4>3
        <5>2. I < O
          BY <5>1, <4>3
        <5>3. K < O
          BY <2>13, <2>14, <2>15, <5>2 DEF RingOrder
        <5> QED
          BY <2>13, <4>3, <5>3 DEF RingOrder
      <4> QED
        BY <2>15, <4>1, <4>2, <4>3
    <3>4. CASE k = n /\ k > i1
      <4>1. i1 < k /\ K = N
        BY <2>14, <3>4
      <4>2. I + LI <= K
        <5>1. CASE O <= N
          BY <2>12, <2>13, <2>14, <4>1, <5>1 DEF RingOrder
        <5>2. CASE O > N
          <6>1. I <= N
            BY <2>12, <2>18, <5>2
          <6> QED
            BY <2>13, <4>1, <5>2, <6>1 DEF RingOrder
        <5> QED
          BY <5>1, <5>2
      <4> QED
        BY <2>11, <3>1, <3>3, <4>2
    <3> QED
      BY <3>1, <3>2, <3>3, <3>4
  <2>19. ASSUME o.ok PROVE OpenRing(q, o.free)
    <3>1. l2 >= Reserve
      BY <2>2, <2>19
    <3>2. q[1].off = K /\ q[m].off = N /\ q[m].len = LN
      BY <2>10, <2>11
    <3>3. CASE l1 >= Reserve
      BY <2>9, <2>10, <2>17, <3>2, <3>3 DEF OpenRing, FreeAt, Wrapped, smp_segend
    <3>4. CASE l1 < Reserve
      BY <2>9, <2>10, <2>18, <3>1, <3>2, <3>4 DEF OpenRing, FreeAt, Wrapped, smp_segend
    <3> QED
      BY <3>3, <3>4
  <2>20. Entries(o.list, t) /\ (o.ok => OpenRing(o.list, o.free))
    BY <2>2, <2>7, <2>19
  <2> QED
    BY <2>20 DEF o
<1> QED
  BY <1>1, <1>2

\* A part of the list is a ring with the same free space.
LEMMA PartKeeps ==
    ASSUME NEW q, Listed(q), Ring(q), NEW free \in Nat, FreeAt(q, free),
           NEW p, Listed(p), PartOf(p, q)
    PROVE  Ring(p) /\ FreeAt(p, free) /\ Entries(p, q)
<1>1. CASE p = <<>>
  <2>1. Len(<<>>) = 0
    BY EmptySeq
  <2> QED
    BY <1>1, <2>1 DEF Ring, FreeAt, Entries
<1>2. CASE p # <<>>
  <2>1. PICK a \in 1..Len(q) : /\ Len(p) = Len(q) - a + 1
                               /\ \A j \in 1..Len(p) : p[j] = q[j + a - 1]
    BY <1>2 DEF PartOf
  <2>2. Solid(q) /\ Solid(p)
    BY ListedSolid
  <2>3. Len(q) \in Nat /\ Len(p) \in Nat
    BY <2>2 DEF Solid
  <2>4. \A j \in 1..Len(p) : j + a - 1 \in 1..Len(q)
    BY <2>1, <2>3
  <2>5. Slice(p, q, a)
    BY <2>1, <2>2, <2>3, <2>4, SMTT(30) DEF Slice, Solid
  <2>6. q # <<>>
    <3>1. Len(q) # 0
      BY <2>3
    <3> QED
      BY <3>1, EmptySeq
  <2>7. Ring(p)
    BY <2>2, <2>5, RingSlice
  <2>8. FreeAt(p, free)
    BY <2>1, <2>2, <2>5, <2>6, FreeSlice
  <2> QED
    BY <2>1, <2>4, <2>7, <2>8 DEF Entries
<1> QED
  BY <1>1, <1>2

\* p has the places of q.
Shape(p, q) ==
    /\ Len(p) = Len(q)
    /\ \A i \in 1..Len(q) : p[i].off = q[i].off /\ p[i].len = q[i].len

\* Then p is a ring if q is, and the same space is free.
LEMMA ShapeRing ==
    ASSUME NEW q, Solid(q), Ring(q), NEW p, Solid(p), Shape(p, q)
    PROVE  /\ Ring(p)
           /\ \A free \in Nat : FreeAt(q, free) /\ (Len(q) = 0 => p = <<>>) => FreeAt(p, free)
<1>0. Len(q) \in Nat /\ Len(p) = Len(q)
  BY DEF Solid, Shape
<1>1. CASE Len(q) = 0
  BY <1>0, <1>1 DEF Ring, FreeAt
<1>2. CASE Len(q) # 0
  <2>1. 1 \in 1..Len(q) /\ Len(p) = Len(q) - 1 + 1 /\ \A j \in 1..Len(q) : j + 1 - 1 = j
    BY <1>0, <1>2
  <2>2. Slice(p, q, 1)
    BY <1>0, <2>1 DEF Slice, Shape, Solid
  <2>3. Ring(p)
    BY <2>1, <2>2, RingSlice
  <2>4. Len(q) \in 1..Len(q)
    BY <1>0, <1>2
  <2>5. ASSUME NEW free \in Nat, FreeAt(q, free) PROVE FreeAt(p, free)
    <3>1. q = <<>> => Len(q) = 0
      BY EmptySeq
    <3>2. /\ p[1].off = q[1].off /\ p[Len(p)].off = q[Len(q)].off /\ p[Len(p)].len = q[Len(q)].len
      BY <1>0, <2>1, <2>4 DEF Shape
    <3> QED
      BY <1>2, <2>5, <3>1, <3>2 DEF FreeAt, Wrapped, smp_segend
  <2> QED
    BY <2>3, <2>5
<1> QED
  BY <1>1, <1>2

\* What is on the list is apart from the rest of it.
LEMMA PresentCovers ==
    ASSUME NEW E, NEW q, Listed(q), Ring(q), AllOn(E, q)
    PROVE  ClearOf(E, q)
<1>1. SUFFICES ASSUME NEW e \in E, NEW i \in 1..Len(q)
      PROVE  Apart(e, q[i]) \/ SameSpace(e, q[i])
  BY DEF ClearOf
<1>2. PICK k \in 1..Len(q) : SameSpace(e, q[k])
  BY DEF AllOn
<1>3. CASE k = i
  BY <1>2, <1>3
<1>4. CASE k # i
  <2>1. Apart(q[k], q[i])
    BY <1>4, ListedSolid, RingApart
  <2> QED
    BY <1>2, <2>1 DEF Apart, SameSpace, smp_segend
<1> QED
  BY <1>3, <1>4

\* A step after which the segments are where they were.
LEMMA ShapeKeeps ==
    ASSUME SegsOK, SpaceInv, Listed(segments'), Shape(segments', segments),
           \A i \in 1..Len(segments) : segments'[i].idx = segments[i].idx,
           UNCHANGED <<seg1, seg2, free_offset, cur_seg, saved, sound, up>>,
           op.pc \in {"reset1"} \cup Saving => op'.pc \in {"reset1"} \cup Saving
    PROVE  SpaceInv'
<1>1. /\ Solid(segments) /\ Solid(segments') /\ Len(segments) \in Nat
      /\ Len(segments') = Len(segments) /\ free_offset \in Nat
  <2>1. Solid(segments) /\ Solid(segments')
    BY ListedSolid DEF SegsOK, SegType
  <2>2. free_offset \in Nat
    BY DEF SegsOK, SegType, SegNumbers
  <2> QED
    BY <2>1, <2>2 DEF Solid, Shape
<1>2. Len(segments) = 0 => segments' = <<>>
  <2>1. segments' \in Seq(Segment)
    BY DEF Listed
  <2> QED
    BY <1>1, <2>1, EmptySeq
<1>3. Ring(segments') /\ FreeAt(segments', free_offset)
  BY <1>1, <1>2, ShapeRing DEF SpaceInv
<1>4. cur_seg => ~segments'[Len(segments')].idx
  <2>1. SUFFICES ASSUME cur_seg PROVE ~segments'[Len(segments')].idx
    OBVIOUS
  <2>2. Len(segments) \in 1..Len(segments)
    BY <1>1, <2>1, EmptySeq DEF SegsOK, OpenSegment, SegType, Listed
  <2> QED
    BY <1>1, <2>1, <2>2 DEF SpaceInv
<1>5. Indexed' = Indexed
  BY DEF Indexed
<1>6. \A e \in Indexed, i \in 1..Len(segments) :
         /\ SameSpace(e, segments[i]) => SameSpace(e, segments'[i])
         /\ Apart(e, segments[i]) => Apart(e, segments'[i])
  BY DEF Shape, SameSpace, Apart, smp_segend
<1>7. /\ AllOn(Indexed, segments) => AllOn(Indexed', segments')
      /\ ClearOf(Indexed, segments) => ClearOf(Indexed', segments')
  BY <1>1, <1>5, <1>6 DEF AllOn, ClearOf
<1> QED
  BY <1>3, <1>4, <1>7 DEF SpaceInv

\* When the child is gone there is no list.
LEMMA GoneKeepsSpace ==
    ASSUME SpaceInv, Gone, UNCHANGED <<seg1, seg2>>
    PROVE  SpaceInv'
<1>1. Len(<<>>) = 0
  BY EmptySeq
<1>2. Ring(segments') /\ FreeAt(segments', free_offset')
  BY <1>1 DEF Gone, Ring, FreeAt
<1>3. Ring(seg1.list)' /\ Ring(seg2.list)'
  BY DEF SpaceInv
<1> QED
  BY <1>2, <1>3 DEF SpaceInv, Gone

\* A step that moves nothing.
LEMMA StillKeepsSpace ==
    ASSUME SegsOK, SpaceInv,
           UNCHANGED <<seg1, seg2, segments, free_offset, cur_seg, saved, sound, up>>,
           op.pc \in {"reset1"} \cup Saving => op'.pc \in {"reset1"} \cup Saving
    PROVE  SpaceInv'
<1>1. Listed(segments') /\ Shape(segments', segments)
  BY DEF SegsOK, SegType, Shape
<1>2. \A i \in 1..Len(segments) : segments'[i].idx = segments[i].idx
  OBVIOUS
<1> QED
  BY <1>1, <1>2, ShapeKeeps

\* A step that changes counts and states of segments.
LEMMA RecountKeepsSpace ==
    ASSUME SegsOK, SpaceInv, Listed(segments'), Recount(segments'),
           UNCHANGED <<seg1, seg2, free_offset, cur_seg, saved, sound, up, op>>
    PROVE  SpaceInv'
<1>1. \A i \in 1..Len(segments) : Ptr(segments'[i]) = Ptr(segments[i])
  BY DEF Recount
<1>2. \A i \in 1..Len(segments) : /\ segments'[i].off = segments[i].off
                                  /\ segments'[i].len = segments[i].len
                                  /\ segments'[i].idx = segments[i].idx
  BY <1>1 DEF Ptr
<1>3. Shape(segments', segments)
  BY <1>2 DEF Shape, Recount
<1> QED
  BY <1>2, <1>3, ShapeKeeps

\* smp_allocx leaves the open segment where it is.
LEMMA AllocxKeepsSpace ==
    ASSUME SegsOK, SegsOK', SpaceInv, smp_allocx
    PROVE  SpaceInv'
<1> DEFINE n == Len(segments)
<1>0. /\ op.pc = "try" /\ op \in HolderType /\ cur_seg /\ segments # <<>>
      /\ Listed(segments) /\ Listed(segments')
      /\ UNCHANGED <<seg1, seg2, up, cur_seg, free_offset, saved, sound>>
  BY DEF smp_allocx, SegsOK, SegType, OpenSegment, HolderOK, disk, ghosts, tally, Idle, Holder
<1>1. op.pc \notin {"reset1"} \cup Saving
  BY <1>0 DEF Saving
<1>2. CASE UNCHANGED segments
  BY <1>0, <1>1, <1>2, StillKeepsSpace
<1>3. CASE segments' = [segments EXCEPT ![n].nalloc = 1, ![n].lobj = IF op.obj THEN @ + 1 ELSE @]
  <2>1. /\ n \in Nat \ {0} /\ DOMAIN segments = 1..n /\ \A i \in 1..n : segments[i] \in Segment
    <3>1. segments \in Seq(Segment)
      BY <1>0 DEF Listed
    <3> QED
      BY <1>0, <3>1, EmptySeq, LenProperties, ElementOfSeq
  <2> DEFINE l == IF op.obj THEN segments[n].lobj + 1 ELSE segments[n].lobj
             r == [segments[n] EXCEPT !.nalloc = 1, !.lobj = l]
  <2>2. segments' = [segments EXCEPT ![n] = r]
    BY <1>3, <2>1
  <2>3. r.off = segments[n].off /\ r.len = segments[n].len /\ r.idx = segments[n].idx
    <3>1. segments[n] \in Segment
      BY <2>1
    <3> HIDE DEF l
    <3> QED
      BY <3>1 DEF Segment
  <2> HIDE DEF r
  <2>4. Len(segments') = n /\ \A i \in 1..n : segments'[i] = IF i = n THEN r ELSE segments[i]
    BY <2>1, <2>2
  <2>5. Shape(segments', segments) /\ \A i \in 1..n : segments'[i].idx = segments[i].idx
    BY <2>3, <2>4 DEF Shape
  <2> QED
    BY <1>0, <1>1, <2>5, ShapeKeeps
<1> QED
  BY <1>2, <1>3 DEF smp_allocx

\* The list as smp_save_segs writes it.
LEMMA PtrsRing ==
    ASSUME Listed(segments), Ring(segments)
    PROVE  /\ Ptrs \in Seq(Pointer) /\ Ring(Ptrs) /\ Len(Ptrs) = Len(segments)
           /\ \A i \in 1..Len(Ptrs) : Inside(Ptrs[i]) /\ Ptrs[i] = Ptr(segments[i])
<1>1. SegTable(Table(TRUE, Ptrs))
  BY PtrsTyped
<1>2. Ptrs \in Seq(Pointer) /\ \A i \in 1..Len(Ptrs) : Inside(Ptrs[i])
  BY <1>1 DEF SegTable, Table
<1>3. Solid(segments) /\ DOMAIN segments = 1..Len(segments) /\ Len(segments) \in Nat
  BY ListedSolid DEF Solid
<1>4. Ptrs = [i \in 1..Len(segments) |-> Ptr(segments[i])]
  BY <1>3 DEF Ptrs
<1>5. Len(Ptrs) = Len(segments)
  BY <1>3, <1>4
<1>6. \A i \in 1..Len(Ptrs) : Ptrs[i] = Ptr(segments[i])
  BY <1>4, <1>5
<1>7. Shape(Ptrs, segments)
  <2>1. ASSUME NEW i \in 1..Len(segments)
        PROVE  Ptrs[i].off = segments[i].off /\ Ptrs[i].len = segments[i].len
    <3>1. Ptrs[i] = Ptr(segments[i])
      BY <1>5, <1>6
    <3> QED
      BY <3>1 DEF Ptr
  <2> QED
    BY <1>5, <2>1 DEF Shape
<1>8. Ring(Ptrs)
  BY <1>2, <1>3, <1>7, TableSolid, ShapeRing
<1> QED
  BY <1>2, <1>5, <1>6, <1>8

\* What the next child keeps of it is on the list.
LEMMA PtrsKept ==
    ASSUME Listed(segments), Ring(segments)
    PROVE  LET kept == smp_open_segs(Ptrs).list
           IN AllOn({kept[j] : j \in {j \in 1..Len(kept) : kept[j].idx}}, segments)
<1> DEFINE kept == smp_open_segs(Ptrs).list
<1>1. Entries(kept, Ptrs)
  BY PtrsRing, OpenSegsRing
<1> HIDE DEF kept
<1>2. SUFFICES ASSUME NEW j \in 1..Len(kept), kept[j].idx
      PROVE  \E i \in 1..Len(segments) : SameSpace(kept[j], segments[i])
  BY DEF AllOn, kept
<1>3. PICK k \in 1..Len(Ptrs) : kept[j] = Ptrs[k]
  BY <1>1 DEF Entries
<1>4. k \in 1..Len(segments) /\ kept[j] = Ptr(segments[k])
  BY <1>3, PtrsRing
<1> QED
  BY <1>2, <1>4 DEF SameSpace, Ptr

\* smp_save_segs writes a ring, and what the next child would keep of it is on
\* the list.
LEMMA SaveKeepsSpace ==
    ASSUME SegsOK, SpaceInv, smp_save_segs
    PROVE  SpaceInv'
<1>0. /\ UNCHANGED <<up, segments, cur_seg, free_offset>> /\ op \in HolderType
      /\ op.pc \in {"reset1"} \cup Saving
  BY DEF smp_save_segs, space, SegsOK, HolderOK, Saving
<1>1. Listed(segments) /\ Ring(segments) /\ Ring(seg1.list) /\ Ring(seg2.list)
  BY DEF SegsOK, SegType, SpaceInv
<1>2. Ring(Ptrs)
  BY <1>1, PtrsRing
<1>3. Ring(<<>>)
  BY EmptySeq DEF Ring
<1>4. Ring(seg1.list)' /\ Ring(seg2.list)'
  <2>1. seg1' \in {seg1, Table(TRUE, <<>>), Table(Ptrs = <<>>, Ptrs), Table(TRUE, Ptrs)}
    BY DEF smp_save_segs, Reset, Fill, Sign
  <2>2. seg2' \in {seg2, Table(TRUE, <<>>), Table(Ptrs = <<>>, Ptrs), Table(TRUE, Ptrs)}
    BY DEF smp_save_segs, Reset, Fill, Sign
  <2> QED
    BY <1>1, <1>2, <1>3, <2>1, <2>2 DEF Table
<1>5. FreeAt(segments, free_offset)' /\ (cur_seg => ~segments[Len(segments)].idx)' /\ Ring(segments)'
  BY <1>0 DEF SpaceInv
<1>6. CASE op.pc = "sign2"
  <2>1. saved' = Ptrs
    BY <1>6 DEF smp_save_segs
  <2>2. AllOn(Indexed', segments')
    BY <1>0, <1>1, <2>1, PtrsKept DEF Indexed
  <2>3. ClearOf(Indexed', segments')
    BY <1>0, <1>1, <2>2, PresentCovers
  <2> QED
    BY <1>4, <1>5, <2>2, <2>3 DEF SpaceInv
<1>7. CASE op.pc # "sign2"
  <2>1. UNCHANGED <<saved, sound>>
    BY <1>7 DEF smp_save_segs
  <2>2. op'.pc \in Saving
    BY <1>0, <1>7 DEF smp_save_segs, Step, HolderType, Saving
  <2>3. up' /\ sound' => ClearOf(Indexed', segments')
    BY <1>0, <2>1 DEF SpaceInv, Indexed
  <2> QED
    BY <1>4, <1>5, <2>2, <2>3 DEF SpaceInv
<1> QED
  BY <1>6, <1>7

\* smp_new_seg after a segment was closed puts the new one where nothing is.
LEMMA NewSegKeepsSpace ==
    ASSUME SegsOK, SegsOK', SpaceInv, NewSeg, ~brim'
    PROVE  SpaceInv'
<1> DEFINE new == smp_new_seg(segments, free_offset, FreshId)
           n == Len(segments)
<1>1. CASE Gone
  BY <1>1, GoneKeepsSpace DEF NewSeg, disk
<1>2. CASE ~Gone
  <2>1. /\ op.pc = "new" /\ ~new.dies /\ ~new.brim
        /\ segments' = new.segments /\ free_offset' = new.free /\ cur_seg' = TRUE
        /\ UNCHANGED <<seg1, seg2, up, saved, sound>>
    BY <1>2 DEF NewSeg, disk, ghosts, tally
  <2>2. /\ Listed(segments) /\ FreshId \in Nat \ {0} /\ free_offset \in 0..Media
        /\ Ring(segments) /\ FreeAt(segments, free_offset) /\ Listed(segments')
    BY FreshIdTyped DEF SegsOK, SegType, SegNumbers, SpaceInv
  <2>3. /\ Ring(new.segments) /\ FreeAt(new.segments, new.free)
        /\ Len(new.segments) = n + 1
        /\ \A i \in 1..n : new.segments[i] = segments[i]
        /\ ~new.segments[n + 1].idx
    BY <2>1, <2>2, NewSegRing
  <2> HIDE DEF new
  <2>4. n \in Nat
    BY <2>2, ListedSolid DEF Solid
  <2>5. ASSUME up, sound PROVE AllOn(Indexed', segments')
    <3>1. AllOn(Indexed, segments) /\ Indexed' = Indexed
      BY <2>1, <2>5 DEF SpaceInv, Saving, Indexed
    <3>2. ASSUME NEW e \in Indexed PROVE \E i \in 1..Len(segments') : SameSpace(e, segments'[i])
      <4>1. PICK i \in 1..n : SameSpace(e, segments[i])
        BY <3>1 DEF AllOn
      <4>2. i \in 1..Len(segments') /\ segments'[i] = segments[i]
        BY <2>1, <2>3, <2>4
      <4> QED
        BY <4>1, <4>2
    <3> QED
      BY <3>1, <3>2 DEF AllOn
  <2>6. Ring(segments') /\ FreeAt(segments', free_offset') /\ ~segments'[Len(segments')].idx
    BY <2>1, <2>3
  <2>7. up /\ sound => ClearOf(Indexed', segments')
    BY <2>2, <2>5, <2>6, PresentCovers
  <2> QED
    BY <2>1, <2>5, <2>6, <2>7 DEF SpaceInv
<1> QED
  BY <1>1, <1>2

\* smp_thread drops segments from the front, and saves the list.
LEMMA ThreadKeepsSpace ==
    ASSUME SegsOK, SegsOK', SpaceInv, smp_thread
    PROVE  SpaceInv'
<1>1. /\ op.pc = "idle" /\ cur_seg /\ segments # <<>> /\ Listed(segments)
      /\ segments' = Pruned(segments, TRUE) /\ op' = Holder("reset1", "none")
      /\ UNCHANGED <<seg1, seg2, up, cur_seg, free_offset, saved, sound>>
  BY DEF smp_thread, SegsOK, SegType, disk, ghosts, tally
<1>2. /\ Listed(segments') /\ segments' # <<>> /\ PartOf(segments', segments)
      /\ segments'[Len(segments')] = segments[Len(segments)]
  BY <1>1, PrunedKeeps
<1>3. free_offset \in Nat /\ Ring(segments) /\ FreeAt(segments, free_offset)
  BY DEF SegsOK, SegType, SegNumbers, SpaceInv
<1>4. Ring(segments') /\ FreeAt(segments', free_offset) /\ Entries(segments', segments)
  BY <1>1, <1>2, <1>3, PartKeeps
<1>5. op'.pc = "reset1"
  BY <1>1 DEF Holder
<1>6. ASSUME up, sound PROVE ClearOf(Indexed', segments')
  <2>1. ClearOf(Indexed, segments) /\ Indexed' = Indexed
    BY <1>1, <1>6 DEF SpaceInv, Indexed
  <2>2. ASSUME NEW e \in Indexed, NEW i \in 1..Len(segments')
        PROVE  Apart(e, segments'[i]) \/ SameSpace(e, segments'[i])
    BY <1>4, <2>1 DEF Entries, ClearOf
  <2> QED
    BY <2>1, <2>2 DEF ClearOf
<1> QED
  BY <1>1, <1>2, <1>4, <1>5, <1>6 DEF SpaceInv

\* smp_close_seg gives back the end of the open segment, or all of it: nothing
\* that the next child would keep was in it.
LEMMA CloseKeepsSpace ==
    ASSUME SegsOK, SegsOK', SpaceInv, smp_close_seg
    PROVE  SpaceInv'
<1> DEFINE n == Len(segments)
           sg == segments[n]
<1>0. /\ op.pc = "close" /\ up /\ cur_seg /\ segments # <<>> /\ op \in HolderType
      /\ Listed(segments) /\ Listed(segments') /\ used \in Nat
      /\ UNCHANGED <<seg1, seg2, up, saved, sound>> /\ cur_seg' = FALSE
  BY DEF smp_close_seg, SegsOK, SegType, SegNumbers, OpenSegment, HolderOK, Idle, Holder,
         disk, ghosts, tally
<1>1. /\ segments \in Seq(Segment) /\ n \in Nat \ {0} /\ n \in 1..n /\ 1 \in 1..n
      /\ DOMAIN segments = 1..n /\ Solid(segments)
      /\ \A i \in 1..n : segments[i] \in Segment /\ segments[i].off + SegLen <= Media
  BY <1>0, ListedSolid, EmptySeq DEF Solid
<1>a. sg \in Segment
  BY <1>1
<1>2. /\ Ring(segments) /\ FreeAt(segments, free_offset) /\ free_offset \in Nat /\ ~sg.idx
      /\ sg.len = SegLen
      /\ Ring(seg1.list)' /\ Ring(seg2.list)'
  BY <1>0 DEF SpaceInv, SegsOK, SegType, SegNumbers, OpenSegment
<1>3. ASSUME up, sound PROVE AllOn(Indexed, segments)
  BY <1>0, <1>3 DEF SpaceInv, Saving
<1>4. Indexed' = Indexed
  BY <1>0 DEF Indexed
\* What the next child would keep is not the open segment.
<1>5. ASSUME up, sound, NEW e \in Indexed
      PROVE  \E k \in 1..n : k # n /\ SameSpace(e, segments[k])
  BY <1>2, <1>3, <1>5 DEF AllOn, SameSpace
<1>6. CASE sg.nalloc = 0
  <2>1. segments' = SubSeq(segments, 1, n - 1) /\ UNCHANGED free_offset
    BY <1>0, <1>6 DEF smp_close_seg
  <2>2. Len(segments') = n - 1 /\ \A i \in 1..n-1 : segments'[i] = segments[i]
    BY <1>1, <2>1, SubSeqProperties
  <2>3. Solid(segments') /\ segments' \in Seq(Segment)
    BY <1>0, ListedSolid
  <2>4. \A i \in 1..n-1 : i \in 1..n /\ i + 1 - 1 = i
    BY <1>1
  <2>5. Slice(segments', segments, 1)
    BY <1>1, <2>2, <2>4 DEF Slice, Solid
  <2>6. Ring(segments')
    BY <1>1, <1>2, <2>3, <2>5, RingSlice
  <2>7. segments' = <<>> \/ Len(segments') > 0
    BY <1>1, <2>2, <2>3, EmptySeq
  <2>8. FreeAt(segments', free_offset')
    BY <1>0, <1>1, <1>2, <2>1, <2>2, <2>7, FreeWithout
  <2>9. up /\ sound => AllOn(Indexed', segments')
    <3>1. ASSUME up, sound, NEW e \in Indexed
          PROVE  \E i \in 1..Len(segments') : SameSpace(e, segments'[i])
      <4>1. PICK k \in 1..n : k # n /\ SameSpace(e, segments[k])
        BY <1>5, <3>1
      <4>a. k \in 1..n-1
        <5>1. n \in Nat /\ k # n
          BY <1>1, <4>1
        <5> HIDE DEF n
        <5> QED
          BY <5>1
      <4>2. k \in 1..Len(segments') /\ segments'[k] = segments[k]
        BY <2>2, <4>a
      <4> QED
        BY <4>1, <4>2
    <3> QED
      BY <1>4, <3>1 DEF AllOn
  <2>10. up /\ sound => ClearOf(Indexed', segments')
    BY <1>0, <2>6, <2>9, PresentCovers
  <2> QED
    BY <1>0, <1>2, <2>6, <2>8, <2>9, <2>10 DEF SpaceInv
<1>7. CASE sg.nalloc > 0
  <2>0. PICK l \in {used, sg.len} :
          /\ segments' = Pruned([segments EXCEPT ![n].len = l, ![n].idx = TRUE], FALSE)
          /\ free_offset' = sg.off + l /\ op' = [op EXCEPT !.pc = "reset1"]
    <3>1. sg.nalloc # 0
      BY <1>7
    <3> QED
      BY <3>1 DEF smp_close_seg, Step
  <2> DEFINE closed == [segments EXCEPT ![n].len = l, ![n].idx = TRUE]
  <2>1. /\ segments' = Pruned(closed, FALSE) /\ free_offset' = sg.off + l
        /\ op' = [op EXCEPT !.pc = "reset1"]
    BY <2>0
  <2>2. l \in 1..SegLen /\ sg.off \in Nat
    <3>1. sg.off \in Nat /\ used \in 0..SegLen
      BY <1>a DEF Segment, SegsOK, SegType, SegNumbers
    <3>2. sg.nalloc # 0
      BY <1>7
    <3>3. used > 0
      BY <1>0, <3>2 DEF SegsOK, OpenSegment
    <3> QED
      BY <1>2, <2>0, <3>1, <3>3
  <2> DEFINE r1 == [sg EXCEPT !.len = l]
             r == [r1 EXCEPT !.idx = TRUE]
  <2>3. r \in Segment /\ r.len = l /\ r.off = sg.off /\ r.len > 0
    <3>1. l \in 0..SegLen /\ l > 0
      BY <2>2
    <3> HIDE DEF sg
    <3>2. r1 \in Segment /\ r1.len = l /\ r1.off = sg.off
      BY <1>a, <3>1 DEF Segment
    <3> HIDE DEF r1
    <3>3. r \in Segment /\ r.len = r1.len /\ r.off = r1.off
      BY <3>2 DEF Segment
    <3> HIDE DEF r
    <3> QED
      BY <3>1, <3>2, <3>3
  <2>4. closed = [segments EXCEPT ![n] = r]
    BY <1>1
  <2> HIDE DEF r
  <2>5. /\ closed \in Seq(Segment) /\ Len(closed) = n
        /\ \A i \in 1..n : closed[i] = IF i = n THEN r ELSE segments[i]
    BY <1>1, <2>3, <2>4, ExceptSeq
  <2> HIDE DEF closed
  <2>6. Listed(closed)
    <3>1. ASSUME NEW i \in 1..n PROVE closed[i].len > 0 /\ Inside(closed[i])
      <4>1. segments[i].len > 0 /\ Inside(segments[i])
        BY <1>0 DEF Listed
      <4>2. CASE i = n
        <5>1. closed[i] = r /\ r.off = segments[i].off
          BY <2>3, <2>5, <4>2
        <5> QED
          BY <2>3, <4>1, <5>1 DEF Inside
      <4>3. CASE i # n
        BY <2>5, <4>1, <4>3
      <4> QED
        BY <4>2, <4>3
    <3> QED
      BY <2>5, <3>1 DEF Listed
  <2>7. Solid(closed)
    BY <2>6, ListedSolid
  \* Each segment is where it was, and the last one is shorter.
  <2>8. \A i \in 1..n : closed[i].off = segments[i].off /\ closed[i].len <= segments[i].len
    <3>1. \A i \in 1..n : segments[i].len \in Nat
      BY <1>1 DEF Solid
    <3>2. r.len <= sg.len
      BY <1>2, <2>2, <2>3
    <3> QED
      BY <2>3, <2>5, <3>1, <3>2
  <2>9. Ring(closed)
    <3>1. n <= n - 1 + 1 /\ \A i \in 1..n : i + 1 - 1 = i
      BY <1>1
    <3>2. Slice(closed, segments, 1)
      BY <1>1, <2>5, <2>8, <3>1 DEF Slice
    <3> QED
      BY <1>1, <1>2, <2>7, <3>2, RingSlice
  <2>10. FreeAt(closed, sg.off + l)
    <3>1. PICK O \in Nat, LO \in Nat : O = segments[1].off /\ LO = segments[1].len
      BY <1>1 DEF Solid
    <3>2. n # 1 => RingOrder(O, O, LO, sg.off, sg.len)
      <4>1. n # 1 => 1 < n
        BY <1>1
      <4> QED
        BY <1>1, <1>2, <3>1, <4>1, RingPair DEF RingOrder
    <3>3. n = 1 => O = sg.off
      BY <3>1
    <3>4. sg.off < O => sg.off + l <= O
      BY <1>2, <2>2, <3>2, <3>3 DEF RingOrder
    <3>5. closed[1].off = O /\ closed[n].off = sg.off /\ closed[n].len = l
      BY <1>1, <2>3, <2>5, <2>8, <3>1
    <3> QED
      BY <2>2, <2>5, <3>4, <3>5 DEF FreeAt, Wrapped, smp_segend
  <2>11. PartOf(segments', closed)
    BY <2>1, <2>6, PrunedKeeps
  <2>12. sg.off + l \in Nat
    BY <2>2
  <2>13. Ring(segments') /\ FreeAt(segments', free_offset') /\ Entries(segments', closed)
    BY <1>0, <2>1, <2>6, <2>9, <2>10, <2>11, <2>12, PartKeeps
  <2>14. op'.pc = "reset1"
    BY <1>0, <2>1 DEF HolderType
  <2>15. ASSUME up, sound PROVE ClearOf(Indexed', segments')
    <3>1. ASSUME NEW e \in Indexed, NEW i \in 1..n
          PROVE  Apart(e, closed[i]) \/ SameSpace(e, closed[i])
      <4>1. PICK k \in 1..n : k # n /\ SameSpace(e, segments[k])
        BY <1>5, <2>15
      <4>2. closed[k] = segments[k]
        BY <2>5, <4>1
      <4>3. CASE i = k
        BY <4>1, <4>2, <4>3
      <4>4. CASE i # k
        <5>1. Apart(closed[k], closed[i])
          BY <2>5, <2>7, <2>9, <4>4, RingApart
        <5> QED
          BY <4>1, <4>2, <5>1 DEF Apart, SameSpace, smp_segend
      <4> QED
        BY <4>3, <4>4
    <3>2. ASSUME NEW e \in Indexed, NEW i \in 1..Len(segments')
          PROVE  Apart(e, segments'[i]) \/ SameSpace(e, segments'[i])
      BY <2>5, <2>13, <3>1 DEF Entries
    <3> QED
      BY <1>4, <3>2 DEF ClearOf
  <2> QED
    BY <1>0, <1>2, <2>13, <2>14, <2>15 DEF SpaceInv
<1> QED
  <2>1. sg.nalloc = 0 \/ sg.nalloc > 0
    BY <1>a DEF Segment
  <2> QED
    BY <1>6, <1>7, <2>1

\* The segment smp_open opens does not begin where the oldest one does.
LEMMA OpenNotOnOldest ==
    ASSUME NEW q \in Seq(Pointer), NEW free \in 0..Media, OpenRing(q, free),
           NEW segs, Shape(segs, q), Len(q) = 0 => segs = <<>>,
           NEW id, ~smp_new_seg(segs, free, id).dies
    PROVE  ~smp_new_seg(segs, free, id).brim
<1> DEFINE off == IF free + SegLen > Media THEN 0 ELSE free
<1>1. SUFFICES ASSUME segs # <<>>, segs[1].off = off PROVE FALSE
  BY DEF smp_new_seg
<1>2. Len(q) \in Nat /\ 1 \in 1..Len(q) /\ Len(q) \in 1..Len(q) /\ q # <<>>
  BY <1>1, LenProperties, EmptySeq
<1>3. q[1] \in Pointer /\ q[Len(q)] \in Pointer
  BY <1>2, ElementOfSeq
<1>4. PICK O \in Nat, N \in Nat, L \in Nat :
         O = q[1].off /\ N = q[Len(q)].off /\ L = q[Len(q)].len /\ L > 0
  BY <1>3 DEF Pointer
<1>5. O = off
  BY <1>1, <1>2, <1>4 DEF Shape
<1>6. free + SegLen > Media => ~(0 + SegLen > O)
  <2>1. ASSUME free + SegLen > Media, 0 + SegLen > O PROVE FALSE
    <3>1. off = 0 /\ off + SegLen > segs[1].off
      BY <1>1, <1>5, <2>1
    <3> QED
      BY <2>1, <3>1 DEF smp_new_seg
  <2> QED
    BY <2>1
<1>7. \/ N + L = free /\ (N < O => free < O)
      \/ free = 0 /\ O > 0
  BY <1>2, <1>4 DEF OpenRing, Wrapped, smp_segend
<1> QED
  BY <1>4, <1>5, <1>6, <1>7

\* smp_open puts what it kept of the table on the list, and a new segment where
\* there is room.
LEMMA OpenKeepsSpace ==
    ASSUME SegsOK, SegsOK', SpaceInv, smp_open
    PROVE  SpaceInv'
<1> DEFINE o == smp_open_segs(SegsRead)
           kept == o.list
           segs == MustLoad(kept)
           n == Len(segs)
           new == smp_new_seg(segs, o.free, Len(segs) + 1)
<1>1. /\ SegsRead \in Seq(Pointer) /\ \A i \in 1..Len(SegsRead) : Inside(SegsRead[i])
      /\ Ring(SegsRead)
  BY DEF SegsRead, SegsOK, SegType, SegTable, SpaceInv
<1>2. /\ kept \in Seq(Pointer) /\ \A i \in 1..Len(kept) : Inside(kept[i])
      /\ o.free \in 0..Media
  BY <1>1, OpenSegsTyped
<1>3. o.ok => OpenRing(kept, o.free)
  BY <1>1, OpenSegsRing
<1>4. Opened.new = new /\ (Opened.ok => ~new.dies /\ o.ok)
  BY DEF Opened
<1>5. ~new.dies /\ OpenRing(kept, o.free)
  BY <1>3, <1>4 DEF smp_open
<1>6. Indexed' = {kept[j] : j \in {j \in 1..Len(kept) : kept[j].idx}}
  BY DEF smp_open, Indexed
<1> HIDE DEF o
<1>7. Listed(segs) /\ n = Len(kept) /\ n \in Nat /\ DOMAIN kept = 1..n
  BY <1>2, MustLoadListed, LenProperties
<1>8. \A i \in 1..n : /\ segs[i].off = kept[i].off /\ segs[i].len = kept[i].len
                      /\ segs[i].idx = kept[i].idx
  BY <1>7 DEF MustLoad
<1> HIDE DEF segs, kept
<1>9. Shape(segs, kept) /\ Solid(segs) /\ Solid(kept) /\ (Len(kept) = 0 => segs = <<>>)
  <2>1. segs \in Seq(Segment) /\ Solid(segs)
    BY <1>7, ListedSolid
  <2> QED
    BY <1>2, <1>7, <1>8, <2>1, TableSolid, EmptySeq DEF Shape
<1>10. Ring(segs) /\ FreeAt(segs, o.free)
  <2>1. o.free \in Nat
    BY <1>2
  <2> QED
    BY <1>5, <1>9, <2>1, ShapeRing DEF OpenRing
<1>11. ~new.brim
  BY <1>2, <1>5, <1>9, OpenNotOnOldest
<1>12. n + 1 \in Nat \ {0}
  BY <1>7
<1>13. /\ Ring(new.segments) /\ FreeAt(new.segments, new.free)
       /\ Len(new.segments) = n + 1
       /\ \A i \in 1..n : new.segments[i] = segs[i]
       /\ ~new.segments[n + 1].idx
  BY <1>2, <1>5, <1>7, <1>10, <1>11, <1>12, NewSegRing
<1>14. /\ segments' = new.segments /\ free_offset' = new.free /\ UNCHANGED <<seg1, seg2>>
       /\ Listed(segments')
  BY <1>4 DEF smp_open, disk, SegsOK, SegType
<1> HIDE DEF new
<1>15. AllOn(Indexed', segments')
  <2>1. ASSUME NEW j \in 1..Len(kept), kept[j].idx
        PROVE  \E i \in 1..Len(segments') : SameSpace(kept[j], segments'[i])
    <3>1. j \in 1..n /\ j \in 1..Len(segments')
      <4>1. j \in 1..n
        BY <1>7
      <4>2. Len(segments') = n + 1 /\ n \in Nat
        BY <1>7, <1>13, <1>14
      <4> HIDE DEF n
      <4> QED
        BY <4>1, <4>2
    <3>2. segments'[j] = segs[j]
      BY <1>13, <1>14, <3>1
    <3> QED
      BY <1>8, <2>1, <3>1, <3>2 DEF SameSpace
  <2> QED
    BY <1>6, <2>1 DEF AllOn
<1>16. Ring(segments') /\ FreeAt(segments', free_offset') /\ ~segments'[Len(segments')].idx
  BY <1>13, <1>14
<1>17. ClearOf(Indexed', segments')
  BY <1>14, <1>15, <1>16, PresentCovers
<1> QED
  BY <1>14, <1>15, <1>16, <1>17 DEF SpaceInv

\* The list in memory goes with the child.
NoList == ~up => segments = <<>>

LEMMA NoListStep ==
    ASSUME SegsOK, NoList, [Next]_vars
    PROVE  NoList'
<1>0. /\ op.pc # "idle" \/ serving => up
  BY DEF SegsOK, HolderOK, Idle, Holder
<1>1. CASE up'
  BY <1>1 DEF NoList
<1>2. CASE Gone
  BY <1>2 DEF Gone, NoList
<1>3. CASE UNCHANGED <<up, segments>>
  BY <1>3 DEF NoList
<1>4. CASE up /\ UNCHANGED up
  BY <1>1, <1>4
<1>5. CASE \/ UNCHANGED vars \/ OpenDies \/ Ended \/ smp_newsilo \/ smp_save_segs \/ Serve
           \/ Loaded \/ SMP_NewBan \/ (\E b \in NewBans : BAN_Insert(b))
           \/ smp_alloc \/ (\E n \in Sizes : smp_allocobj(n)) \/ debug_persistent \/ smp_close
  BY <1>3, <1>5 DEF vars, space, OpenDies, Ended, smp_newsilo, smp_save_segs, Serve, Loaded,
                    SMP_NewBan, BAN_Insert, smp_alloc, smp_allocobj, Allocate,
                    debug_persistent, smp_close
<1>6. CASE Crash \/ Exit
  BY <1>2, <1>6 DEF Crash, Exit
<1>7. CASE smp_open
  BY <1>1, <1>7 DEF smp_open
<1>8. CASE NewSeg
  BY <1>0, <1>2, <1>4, <1>8 DEF NewSeg
<1>9. CASE smp_close_seg \/ smp_allocx \/ smp_oc_freeobj
  BY <1>0, <1>4, <1>9 DEF smp_close_seg, smp_allocx, smp_oc_freeobj
<1>10. CASE LoadBegin
  BY <1>4, <1>10 DEF LoadBegin
<1>11. CASE smp_thread
  BY <1>3, <1>4, <1>11 DEF smp_thread, NoList
<1>12. CASE Commit \/ LoadEnd
  <2>1. UNCHANGED up /\ Len(segments') = Len(segments)
    BY <1>12, RecountSteps DEF Recount, Commit, LoadEnd
  <2>2. segments \in Seq(Segment) /\ segments' \in Seq(Segment)
    BY <1>12, RecountSteps DEF Recount, SegsOK, SegType, Listed
  <2> QED
    BY <2>1, <2>2, EmptySeq DEF NoList
<1> QED
  BY <1>5, <1>6, <1>7, <1>8, <1>9, <1>10, <1>11, <1>12 DEF Next

\* Only a new silo undoes that a segment was put on the oldest one.
LEMMA BrimStays ==
    ASSUME brim, [Next]_vars
    PROVE  brim' \/ smp_newsilo
<1>1. CASE smp_open \/ NewSeg
  BY <1>1 DEF smp_open, NewSeg, tally
<1>2. CASE \/ UNCHANGED vars \/ Crash \/ OpenDies \/ Serve \/ smp_save_segs \/ smp_close_seg
           \/ smp_alloc \/ (\E n \in Sizes : smp_allocobj(n)) \/ smp_allocx \/ Commit
           \/ smp_oc_freeobj \/ debug_persistent \/ smp_close \/ Exit
           \/ LoadBegin \/ LoadEnd \/ Loaded \/ smp_thread
           \/ (\E b \in NewBans : BAN_Insert(b)) \/ SMP_NewBan \/ Ended
  BY <1>2 DEF vars, Crash, OpenDies, Serve, smp_save_segs, smp_close_seg, smp_alloc, smp_allocobj,
              Allocate, smp_allocx, Commit, smp_oc_freeobj, debug_persistent, smp_close, Exit,
              LoadBegin, LoadEnd, Loaded, smp_thread, BAN_Insert, SMP_NewBan, Ended, ghosts, tally
<1> QED
  BY <1>1, <1>2 DEF Next

\* A new silo has no segments.
LEMMA NewSiloKeepsSpace ==
    ASSUME SegsOK, NoList, smp_newsilo
    PROVE  SpaceInv'
<1>1. /\ ~up /\ seg1' = Table(TRUE, <<>>) /\ seg2' = Table(TRUE, <<>>)
      /\ segments = <<>> /\ UNCHANGED <<up, segments, cur_seg, free_offset>>
  BY DEF smp_newsilo, space, NoList
<1>2. Ring(<<>>) /\ ~cur_seg
  BY <1>1, EmptySeq DEF Ring, SegsOK, HolderOK
<1>3. Ring(seg1.list)' /\ Ring(seg2.list)' /\ Ring(segments)'
  BY <1>1, <1>2 DEF Table
<1> QED
  BY <1>1, <1>2, <1>3 DEF SpaceInv, FreeAt

\* Every step keeps the space, except one that puts a segment on the oldest.
LEMMA SpaceStep ==
    ASSUME SegsOK, SegsOK', SpaceInv, NoList, [Next]_vars, ~brim'
    PROVE  SpaceInv'
<1>0. Listed(segments')
  BY DEF SegsOK, SegType
<1>1. CASE UNCHANGED <<seg1, seg2, up, segments, cur_seg, free_offset, op, saved, sound>>
  BY <1>1, StillKeepsSpace
<1>2. CASE UNCHANGED vars
  BY <1>1, <1>2 DEF vars, disk, space, ghosts, tally
<1>3. CASE OpenDies \/ Ended
  BY <1>2, <1>3 DEF OpenDies, Ended
<1>4. CASE Crash \/ Exit
  BY <1>4, GoneKeepsSpace DEF Crash, Exit, disk
<1>5. CASE smp_newsilo
  BY <1>5, NewSiloKeepsSpace
<1>6. CASE \/ Serve \/ smp_alloc \/ (\E n \in Sizes : smp_allocobj(n)) \/ debug_persistent
           \/ smp_close
  <2>1. UNCHANGED <<seg1, seg2, segments, free_offset, cur_seg, saved, sound, up>>
    BY <1>6 DEF Serve, smp_alloc, smp_allocobj, Allocate, debug_persistent, smp_close,
                disk, space, ghosts, tally
  <2>2. op' = op \/ op.pc = "idle"
    BY <1>6 DEF Serve, smp_alloc, smp_allocobj, Allocate, debug_persistent, smp_close
  <2> QED
    BY <2>1, <2>2, StillKeepsSpace DEF Saving
<1>7. CASE smp_open
  BY <1>7, OpenKeepsSpace
<1>8. CASE smp_save_segs
  BY <1>8, SaveKeepsSpace
<1>9. CASE smp_close_seg
  BY <1>9, CloseKeepsSpace
<1>10. CASE NewSeg
  BY <1>10, NewSegKeepsSpace
<1>11. CASE smp_allocx
  BY <1>11, AllocxKeepsSpace
<1>12. CASE Commit \/ smp_oc_freeobj \/ LoadBegin \/ LoadEnd
  BY <1>0, <1>12, RecountSteps, RecountKeepsSpace
<1>13. CASE smp_thread
  BY <1>13, ThreadKeepsSpace
<1>14. CASE Loaded \/ SMP_NewBan \/ (\E b \in NewBans : BAN_Insert(b))
  BY <1>1, <1>14 DEF Loaded, SMP_NewBan, BAN_Insert, disk, space, ghosts, tally
<1> QED
  BY <1>2, <1>3, <1>4, <1>5, <1>6, <1>7, <1>8, <1>9, <1>10, <1>11, <1>12, <1>13, <1>14 DEF Next

\* The places of the segments are kept until a segment is put on the oldest one.
SpaceOK == NoList /\ (~brim => SpaceInv)

LEMMA SpaceAlways == Spec => [](SiloInv /\ SpaceOK)
<1>1. Init => SiloInv /\ SpaceOK
  <2>1. SUFFICES ASSUME Init PROVE SpaceOK
    BY SiloInit
  <2>2. Ring(<<>>) /\ FreeAt(<<>>, 0)
    BY EmptySeq DEF Ring, FreeAt
  <2>3. SpaceInv
    BY <2>1, <2>2 DEF Init, Table, SpaceInv
  <2> QED
    BY <2>1, <2>3 DEF Init, SpaceOK, NoList
<1>2. (SiloInv /\ SpaceOK) /\ [Next]_vars => (SiloInv /\ SpaceOK)'
  <2>1. SUFFICES ASSUME SiloInv, SpaceOK, [Next]_vars PROVE SiloInv' /\ SpaceOK'
    OBVIOUS
  <2>2. SegsOK /\ SegsOK' /\ SiloInv'
    BY <2>1, BansStep, SegsStep DEF SiloInv, SegsOK, HolderOK
  <2>3. NoList'
    BY <2>1, <2>2, NoListStep DEF SpaceOK
  <2>4. ASSUME ~brim' PROVE SpaceInv'
    <3>1. CASE brim
      BY <2>1, <2>2, <2>4, <3>1, BrimStays, NewSiloKeepsSpace DEF SpaceOK
    <3>2. CASE ~brim
      BY <2>1, <2>2, <2>4, <3>2, SpaceStep DEF SpaceOK
    <3> QED
      BY <3>1, <3>2
  <2> QED
    BY <2>2, <2>3, <2>4 DEF SpaceOK
<1> QED
  BY <1>1, <1>2, PTL DEF Spec

\* No segment lies across another one, and none across one with an index that
\* the next child would keep, whenever this one dies: smp_new_seg, smp_close_seg,
\* smp_save_segs and smp_open give space to a new segment only after the list
\* without the old one is saved.  It ends where smp_new_seg meets a silo that is
\* exactly full and goes on (brim).
THEOREM SpaceCorrect == Spec => []SpaceKept
<1>1. SiloInv /\ SpaceOK => SpaceKept
  <2>1. SUFFICES ASSUME SiloInv, SpaceInv, up, sound PROVE SpaceKept
    BY DEF SpaceKept, SpaceOK
  <2>2. /\ Listed(segments) /\ Ring(segments) /\ ClearOf(Indexed, segments)
    BY <2>1 DEF SiloInv, SegsOK, SegType, SpaceInv
  <2>3. Solid(segments) /\ DOMAIN segments = 1..Len(segments)
    BY <2>2, ListedSolid
  <2>4. \A i, k \in DOMAIN segments : i < k => Apart(segments[i], segments[k])
    <3>1. ASSUME NEW i \in 1..Len(segments), NEW k \in 1..Len(segments), i < k
          PROVE  Apart(segments[i], segments[k])
      <4>1. i # k
        BY <3>1
      <4> QED
        BY <2>2, <2>3, <4>1, RingApart
    <3> QED
      BY <2>3, <3>1
  <2> DEFINE kept == smp_open_segs(SegsRead).list
             E == {kept[j] : j \in {j \in 1..Len(kept) : kept[j].idx}}
  <2>5. ListSurvives
    BY <2>1, ListInv
  <2>6. ClearOf(E, segments)
    <3>1. CASE SegsRead = saved
      BY <2>2, <3>1 DEF Indexed
    <3>2. CASE SegsRead = Ptrs
      BY <2>2, <3>2, PtrsKept, PresentCovers
    <3>3. CASE SegsRead = <<>>
      <4>1. kept = <<>> /\ Len(<<>>) = 0
        BY <3>3, EmptySeq DEF smp_open_segs
      <4> QED
        BY <4>1 DEF ClearOf
    <3> QED
      BY <2>1, <2>5, <3>1, <3>2, <3>3 DEF ListSurvives
  <2>7. DOMAIN kept = 1..Len(kept)
    <3>1. SegsRead \in Seq(Pointer) /\ \A i \in 1..Len(SegsRead) : Inside(SegsRead[i])
      BY <2>1 DEF SegsRead, SiloInv, SegsOK, SegType, SegTable
    <3> QED
      BY <3>1, OpenSegsTyped, LenProperties
  <2> HIDE DEF kept
  <2>8. ASSUME NEW j \in 1..Len(kept), NEW i \in 1..Len(segments), kept[j].idx
        PROVE  \/ Apart(kept[j], segments[i])
               \/ kept[j].off = segments[i].off /\ segments[i].idx
    <3>1. kept[j] \in E
      BY <2>8
    <3>2. Apart(kept[j], segments[i]) \/ SameSpace(kept[j], segments[i])
      BY <2>6, <3>1 DEF ClearOf
    <3> QED
      BY <3>2 DEF SameSpace
  <2> QED
    BY <2>3, <2>4, <2>7, <2>8 DEF SpaceKept, kept
<1> QED
  BY <1>1, SpaceAlways, PTL

=============================================================================
