---------------------------- MODULE Shmlog_proofs ----------------------------
(***************************************************************************)
(* That the shared memory log can be followed without a lock: for any      *)
(* number of threads, any size of the log and any lengths of records, over *)
(* wraps, laps and deaths of the child.                                    *)
(***************************************************************************)
EXTENDS Shmlog, FiniteSets, SequenceTheorems, FiniteSetTheorems, WellFoundedInduction, TLAPS

\* A set of numbers has a least one.
LEMMA FirstIndex ==
  ASSUME NEW T \in SUBSET Nat, T # {}
  PROVE  \E m \in T : \A n \in T : m <= n
<1>1. PICK m \in T : \A n \in T : ~ (<<n, m>> \in OpToRel(<, Nat))
  BY NatLessThanWellFounded, WFMin
<1>2. ASSUME NEW n \in T, n < m PROVE FALSE
  <2>1. <<n, m>> \in OpToRel(<, Nat)
    BY <1>2 DEF OpToRel
  <2> QED
    BY <1>1, <2>1
<1> QED
  BY <1>2

\* A record of the log, and the word after it.
Record == [pos : Addr, len : Lens]

Stop(r) == r.pos + 2 + r.len

\* The records of q follow one another from word p on, and end before word e.
Chain(q, p, e) ==
  /\ q \in Seq(Record) /\ p \in Addr /\ e \in Addr
  /\ q = <<>> => p = e
  /\ q # <<>> => q[1].pos = p /\ Stop(q[Len(q)]) = e
  /\ \A i \in 1..(Len(q) - 1) : q[i + 1].pos = Stop(q[i])
  /\ \A i, j \in 1..Len(q) : i < j => Stop(q[i]) <= q[j].pos
  /\ \A i \in 1..Len(q) : p <= q[i].pos /\ Stop(q[i]) <= e

\* The threads that write without the mutex, and the room and the records that
\* they have reserved.
Live == {w \in Writer : pc[w] \in {"body", "header"}}

Claims == {<<at[w], job[w]>> : w \in Live}

Area(p, recs) == p..(p + Room(recs) - 1)

RecordsAt(p, recs) == {Places(p, recs)[i] : i \in DOMAIN recs}

\* The word a is nobody's to write.
Unclaimed(C, a) == \A c \in C : a \notin Area(c[1], c[2])

\* Whole, of the memory m.
WholeIn(m, r) ==
  /\ m[r.pos] = r.len
  /\ \A a \in Span(r) \ {r.pos} : m[a] = BODY

\* A record is complete, or it is behind one that never will be, or behind the
\* first one of the thread that still writes it.
Hidden(m, C, q, i) ==
  \/ \E j \in 1..i : m[q[j].pos] = ENDMARKER /\ Unclaimed(C, q[j].pos)
  \/ \E j \in 1..i : \E c \in C : q[j].pos = c[1] /\ q[i] \in RecordsAt(c[1], c[2])

Sound(m, C, q) ==
  \A i \in 1..Len(q) :
    /\ WholeIn(m, q[i]) \/ Hidden(m, C, q, i)
    /\ \A c \in C : q[i] \in RecordsAt(c[1], c[2]) \/ Span(q[i]) \cap Area(c[1], c[2]) = {}

\* The mutex, and the room that was asked for under it.
LockOK ==
  /\ vsl_mtx # NoWriter => vsl_mtx \in Writer
  /\ \A w \in Writer : pc[w] \in {"front", "serial", "mark", "take"} <=> vsl_mtx = w
  /\ alive # "yes" => vsl_mtx = NoWriter /\ \A w \in Writer : pc[w] = "idle"
  /\ alive = "serial" => vsl_ptr = 1
  /\ \A w \in Writer :
       /\ pc[w] # "idle" => job[w] # <<>> /\ Room(job[w]) < WlbWords
       /\ Room(wlb[w]) < WlbWords
       /\ pc[w] \in {"front", "serial", "mark"} => vsl_ptr # 1
       /\ pc[w] = "take" => vsl_ptr + Room(job[w]) <= LogWords
       /\ pc[w] \in {"body", "header"} => at[w] + Room(job[w]) <= LogWords

\* A wrap has begun and not ended.
Wrapping == \E w \in Writer : pc[w] = "mark"

\* Where the records of this turn end.
CycleEnd == IF cycle = <<>> THEN 1 ELSE vsl_ptr

CycleOK ==
  /\ Chain(cycle, 1, CycleEnd)
  /\ cycle = <<>> => vsl_ptr = 1 \/ Wrapping \/ alive = "dead"
  /\ Wrapping \/ alive = "serial" => cycle = <<>>

\* What the threads that write leave alone, and what they have written.
WritersOK ==
  ~spoilt =>
    /\ mem[vsl_ptr] = ENDMARKER /\ Unclaimed(Claims, vsl_ptr)
    /\ cycle = <<>> \/ (\E w \in Writer : pc[w] = "serial") =>
         mem[1] = ENDMARKER /\ Unclaimed(Claims, 1)
    /\ \A v, w \in Live : v # w => Area(at[v], job[v]) \cap Area(at[w], job[w]) = {}
    /\ \A w \in Live : mem[at[w]] = ENDMARKER
    /\ \A w \in Writer : pc[w] = "header" =>
         \A r \in RecordsAt(at[w], job[w]) :
           /\ \A a \in Span(r) \ {r.pos} : mem[a] = BODY
           /\ r.pos # at[w] => mem[r.pos] = r.len
    /\ Sound(mem, Claims, cycle)

\* The reader is among the records of this turn; or it stands at the front
\* since before the log began there anew; or it is among the old records, which
\* end at e.
Fresh == ~rold /\ Chain(todo, rd.ptr, CycleEnd) /\ Sound(mem, Claims, todo)

Stale ==
  /\ ~rold /\ rd.ptr = 1 /\ cycle = <<>>
  /\ todo \in Seq(Record) /\ todo # <<>> /\ todo[1].pos = 1

OldEnd(e) ==
  /\ mem[e] \in {ENDMARKER, WRAPMARKER} /\ Unclaimed(Claims, e)
  /\ vsl_ptr < rd.ptr \/ (vsl_ptr = e /\ cycle = <<>> /\ (Wrapping \/ alive = "dead"))

Old ==
  /\ rold /\ rd.ptr > 1 /\ \A w \in Writer : pc[w] # "serial"
  /\ \E old \in Seq(Record), e \in Addr :
       Chain(old, rd.ptr, e) /\ Sound(mem, Claims, old) /\ todo = old \o cycle /\ OldEnd(e)

\* What the reader has in its hand.
HandOK ==
  /\ rd.st = "eval" /\ IsHeader(rd.t) =>
       /\ todo # <<>> /\ todo[1].pos = rd.ptr /\ todo[1].len = rd.t /\ WholeIn(mem, todo[1])
  /\ IsHeader(rd.t) => rd.st = "eval"
  /\ rd.st = "eval" /\ rd.t = WRAPMARKER => rold
  /\ rd.d => rd.st # "open"
  /\ rd.d /\ ~rold /\ rd.ptr # 1 => rd.last = seq

RdType ==
  rd \in [st : {"closed", "open", "run", "eval", "wild"}, ptr : Addr, last : 0..MaxSeq,
          t : {ENDMARKER, WRAPMARKER, BODY, JUNK} \cup Lens, d : BOOLEAN]

ReaderOK ==
  IF Following THEN ~spoilt /\ (Fresh \/ Stale \/ Old) /\ HandOK
  ELSE rd.ptr = 1 /\ ~IsHeader(rd.t) /\ ~rold /\ (spoilt => rd.st = "closed")

ShmlogInv ==
  TypeOK /\ RdType /\ LockOK /\ CycleOK /\ WritersOK /\ ReaderOK /\ mem[1] # WRAPMARKER

\* The first i elements of a sequence.
LEMMA Prefix ==
  ASSUME NEW S, NEW q \in Seq(S), NEW n \in 0..Len(q)
  PROVE  /\ SubSeq(q, 1, n) \in Seq(S) /\ Len(SubSeq(q, 1, n)) = n
         /\ \A i \in 1..n : SubSeq(q, 1, n)[i] = q[i]
<1> DEFINE p == SubSeq(q, 1, n)
<1>1. Len(q) \in Nat /\ n \in Int /\ n \in Nat /\ 1 \in Int
  OBVIOUS
<1>2. \A i \in 1..n : q[i] \in S
  BY <1>1
<1>3. p \in Seq(S)
  BY <1>1, <1>2, SubSeqProperties
<1>4. Len(p) = n
  <2>1. Len(p) = IF 1 <= n THEN n - 1 + 1 ELSE 0
    BY <1>1, <1>2, SubSeqProperties
  <2> HIDE DEF p
  <2> QED
    BY <1>1, <2>1
<1>5. \A i \in 1..n : p[i] = q[i]
  <2>1. \A i \in 1..(n - 1 + 1) : p[i] = q[1 + i - 1]
    BY <1>1, <1>2, SubSeqProperties
  <2>2. \A i \in 1..n : i \in 1..(n - 1 + 1) /\ 1 + i - 1 = i
    BY <1>1
  <2> HIDE DEF p
  <2> QED
    BY <2>1, <2>2
<1> QED
  BY <1>3, <1>4, <1>5

\* The function that Room adds up with.
Sums(recs, f) ==
  f = [i \in 0..Len(recs) |-> IF i = 0 THEN 0 ELSE f[i - 1] + 2 + recs[i]]

\* The same, up to the n-th record only.
SumsTo(recs, n, g) ==
  \A i \in 0..n : g[i] = IF i = 0 THEN 0 ELSE g[i - 1] + 2 + recs[i]

\* It exists: take the shortest list without one.
LEMMA SumsExist == ASSUME NEW recs \in Seq(Nat) PROVE \E f : Sums(recs, f)
<1> DEFINE Upto(n, f) == f = [i \in 0..n |-> IF i = 0 THEN 0 ELSE f[i - 1] + 2 + recs[i]]
           T == {n \in 0..Len(recs) : ~ \E f : Upto(n, f)}
<1>1. SUFFICES ASSUME T # {} PROVE FALSE
  BY DEF Sums
<1>2. PICK m \in T : \A n \in T : m <= n
  <2>1. T \in SUBSET Nat
    OBVIOUS
  <2> HIDE DEF T
  <2> QED
    BY <1>1, <2>1, FirstIndex
<1>3. m # 0
  <2> DEFINE f == [i \in 0..0 |-> 0]
  <2>1. Upto(0, f)
    OBVIOUS
  <2> QED
    BY <2>1
<1>4. m - 1 \in 0..Len(recs) /\ m - 1 \notin T
  <2>1. m \in 0..Len(recs) /\ Len(recs) \in Nat
    OBVIOUS
  <2>2. m - 1 \in 0..Len(recs) /\ ~(m <= m - 1)
    BY <1>3, <2>1
  <2> HIDE DEF T
  <2> QED
    BY <1>2, <2>2
<1>5. PICK f : Upto(m - 1, f)
  BY <1>4
<1> DEFINE g == [i \in 0..m |-> IF i = m THEN f[m - 1] + 2 + recs[m] ELSE f[i]]
<1>6. \A i \in 0..m : g[i] = IF i = 0 THEN 0 ELSE g[i - 1] + 2 + recs[i]
  <2>1. \A i \in 0..(m - 1) : f[i] = IF i = 0 THEN 0 ELSE f[i - 1] + 2 + recs[i]
    BY <1>5
  <2>2. \A i \in 0..m : i # 0 => g[i - 1] = f[i - 1]
    BY <1>3
  <2>3. \A i \in 0..m : i = m \/ i \in 0..(m - 1)
    OBVIOUS
  <2> QED
    BY <1>3, <2>1, <2>2, <2>3
<1>7. Upto(m, g)
  <2>1. g = [i \in 0..m |-> g[i]]
    OBVIOUS
  <2> HIDE DEF g
  <2> QED
    BY <1>6, <2>1
<1> QED
  BY <1>7

\* There is but one, and its values are numbers that grow.
LEMMA SumsUnique ==
  ASSUME NEW recs \in Seq(Nat), NEW f, NEW g, Sums(recs, f),
         NEW n \in 0..Len(recs), SumsTo(recs, n, g)
  PROVE  f[n] = g[n]
<1> DEFINE T == {i \in 0..n : f[i] # g[i]}
<1>0. \A i \in 0..n : g[i] = IF i = 0 THEN 0 ELSE g[i - 1] + 2 + recs[i]
  BY DEF SumsTo
<1>1. SUFFICES ASSUME T # {} PROVE FALSE
  OBVIOUS
<1>2. PICK m \in T : \A i \in T : m <= i
  <2>1. T \in SUBSET Nat
    OBVIOUS
  <2> HIDE DEF T
  <2> QED
    BY <1>1, <2>1, FirstIndex
<1>3. \A i \in 0..Len(recs) : f[i] = IF i = 0 THEN 0 ELSE f[i - 1] + 2 + recs[i]
  BY DEF Sums
<1>4. m # 0
  BY <1>0, <1>2, <1>3
<1>5. m - 1 \in 0..n /\ m - 1 \notin T /\ m \in 0..Len(recs)
  BY <1>2, <1>4
<1> QED
  BY <1>0, <1>2, <1>3, <1>4, <1>5

LEMMA RoomIs ==
  ASSUME NEW recs \in Seq(Nat)
  PROVE  \E f : Sums(recs, f) /\ Room(recs) = f[Len(recs)]
<1> DEFINE g == CHOOSE f : Sums(recs, f)
<1>1. Sums(recs, g)
  BY SumsExist
<1>2. Room(recs) = g[Len(recs)]
  BY DEF Room, Sums
<1> QED
  BY <1>1, <1>2

\* The sums grow.
LEMMA SumsGrow ==
  ASSUME NEW recs \in Seq(Nat), NEW f, Sums(recs, f)
  PROVE  /\ \A i \in 0..Len(recs) : f[i] \in Nat
         /\ f[0] = 0 /\ \A i \in 1..Len(recs) : f[i] = f[i - 1] + 2 + recs[i]
         /\ \A i, j \in 0..Len(recs) : i < j => f[i] + 2 + recs[i + 1] <= f[j]
<1>1. \A i \in 0..Len(recs) : f[i] = IF i = 0 THEN 0 ELSE f[i - 1] + 2 + recs[i]
  BY DEF Sums
<1>2. \A i \in 1..Len(recs) : recs[i] \in Nat
  OBVIOUS
<1>3. \A i \in 0..Len(recs) : f[i] \in Nat
  <2> DEFINE T == {i \in 0..Len(recs) : f[i] \notin Nat}
  <2>1. SUFFICES ASSUME T # {} PROVE FALSE
    OBVIOUS
  <2>2. PICK m \in T : \A i \in T : m <= i
    <3>1. T \in SUBSET Nat
      OBVIOUS
    <3> HIDE DEF T
    <3> QED
      BY <2>1, <3>1, FirstIndex
  <2>3. m # 0
    BY <1>1, <2>2
  <2>4. m - 1 \in 0..Len(recs) /\ m - 1 \notin T /\ m \in 1..Len(recs)
    BY <2>2, <2>3
  <2>5. f[m - 1] \in Nat /\ f[m] \notin Nat /\ recs[m] \in Nat
    BY <1>2, <2>2, <2>4
  <2>6. f[m] = f[m - 1] + 2 + recs[m]
    BY <1>1, <2>3
  <2> HIDE DEF T
  <2>7. \A a, b \in Nat : a + 2 + b \in Nat
    OBVIOUS
  <2> QED
    BY <2>5, <2>6, <2>7
<1>4. ASSUME NEW i \in 0..Len(recs)
      PROVE  \A j \in 0..Len(recs) : i < j => f[i] + 2 + recs[i + 1] <= f[j]
  <2> DEFINE T == {j \in 0..Len(recs) : i < j /\ ~(f[i] + 2 + recs[i + 1] <= f[j])}
  <2>1. SUFFICES ASSUME T # {} PROVE FALSE
    OBVIOUS
  <2>2. PICK m \in T : \A k \in T : m <= k
    <3>1. T \in SUBSET Nat
      OBVIOUS
    <3> HIDE DEF T
    <3> QED
      BY <2>1, <3>1, FirstIndex
  <2>3. m \in 1..Len(recs) /\ i < m /\ ~(f[i] + 2 + recs[i + 1] <= f[m])
    OBVIOUS
  <2>4. f[m] = f[m - 1] + 2 + recs[m] /\ f[m - 1] \in Nat /\ recs[m] \in Nat /\ f[m] \in Nat
    BY <1>1, <1>2, <1>3, <2>3
  <2>5. m # i + 1
    BY <1>3, <2>3, <2>4
  <2>6. m - 1 \in 0..Len(recs) /\ i < m - 1 /\ ~(m <= m - 1)
    BY <2>3, <2>5
  <2>7. f[i] + 2 + recs[i + 1] <= f[m - 1]
    BY <2>2, <2>6
  <2>8. f[i] \in Nat /\ recs[i + 1] \in Nat
    <3>1. i + 1 \in 1..Len(recs)
      BY <2>3
    <3> QED
      BY <1>2, <1>3, <3>1
  <2> HIDE DEF T
  <2>9. \A a, b, c, d \in Nat : a + 2 + b <= c => a + 2 + b <= c + 2 + d
    OBVIOUS
  <2>10. f[i] + 2 + recs[i + 1] <= f[m]
    BY <2>4, <2>7, <2>8, <2>9
  <2> QED
    BY <2>3, <2>10
<1>5. f[0] = 0 /\ \A i \in 1..Len(recs) : f[i] = f[i - 1] + 2 + recs[i]
  <2>1. 0 \in 0..Len(recs) /\ \A i \in 1..Len(recs) : i \in 0..Len(recs) /\ i # 0
    OBVIOUS
  <2> QED
    BY <1>1, <2>1
<1> QED
  BY <1>3, <1>4, <1>5

\* The room of a list, and of the first i records of it.
LEMMA PrefixRoom ==
  ASSUME NEW recs \in Seq(Nat), NEW f, Sums(recs, f), NEW i \in 0..Len(recs)
  PROVE  Room(SubSeq(recs, 1, i)) = f[i]
<1> DEFINE q == SubSeq(recs, 1, i)
<1>1. q \in Seq(Nat) /\ Len(q) = i /\ \A k \in 1..i : q[k] = recs[k]
  BY Prefix
<1> HIDE DEF q
<1>2. PICK g : Sums(q, g) /\ Room(q) = g[i]
  BY <1>1, RoomIs
<1>3. \A k \in 0..i : f[k] = IF k = 0 THEN 0 ELSE f[k - 1] + 2 + q[k]
  <2>1. f[0] = 0 /\ \A k \in 1..Len(recs) : f[k] = f[k - 1] + 2 + recs[k]
    BY SumsGrow
  <2>2. \A k \in 0..i : k # 0 => k \in 1..Len(recs) /\ k \in 1..i
    OBVIOUS
  <2> QED
    BY <1>1, <2>1, <2>2
<1>4. SumsTo(q, i, f)
  BY <1>3 DEF SumsTo
<1>5. g[i] = f[i]
  BY <1>1, <1>2, <1>4, SumsUnique
<1> QED
  BY <1>2, <1>5 DEF q

LEMMA RoomOf ==
  ASSUME NEW recs \in Seq(Nat)
  PROVE  /\ Room(recs) \in Nat
         /\ recs # <<>> => Room(recs) > 1
         /\ recs = <<>> => Room(recs) = 0
         /\ \A x \in Nat : Room(Append(recs, x)) = Room(recs) + 2 + x
<1>1. PICK f : Sums(recs, f) /\ Room(recs) = f[Len(recs)]
  BY RoomIs
<1>2. /\ \A i \in 0..Len(recs) : f[i] \in Nat
      /\ f[0] = 0 /\ \A i \in 1..Len(recs) : f[i] = f[i - 1] + 2 + recs[i]
  BY <1>1, SumsGrow
<1>3. Len(recs) \in Nat /\ (recs = <<>> => Len(recs) = 0) /\ (recs # <<>> => Len(recs) > 0)
  BY EmptySeq
<1>4. Room(recs) \in Nat /\ (recs = <<>> => Room(recs) = 0)
  BY <1>1, <1>2, <1>3
<1>5. recs # <<>> => Room(recs) > 1
  <2>1. SUFFICES ASSUME Len(recs) > 0 PROVE f[Len(recs)] > 1
    BY <1>1, <1>3
  <2> DEFINE n == Len(recs)
  <2>2. n \in 1..n /\ n - 1 \in 0..n /\ recs[n] \in Nat
    BY <1>3, <2>1
  <2>3. f[n] = f[n - 1] + 2 + recs[n] /\ f[n - 1] \in Nat
    BY <1>2, <2>2
  <2> QED
    BY <2>2, <2>3
<1>6. ASSUME NEW x \in Nat PROVE Room(Append(recs, x)) = Room(recs) + 2 + x
  <2> DEFINE q == Append(recs, x)
             n == Len(recs)
  <2>1. /\ q \in Seq(Nat) /\ Len(q) = n + 1 /\ q[n + 1] = x
        /\ \A i \in 1..n : q[i] = recs[i]
    BY AppendProperties
  <2> HIDE DEF q
  <2>2. PICK g : Sums(q, g) /\ Room(q) = g[n + 1]
    BY <2>1, RoomIs
  <2>3. /\ \A i \in 0..(n + 1) : g[i] \in Nat
        /\ g[0] = 0 /\ \A i \in 1..(n + 1) : g[i] = g[i - 1] + 2 + q[i]
    <3>1. /\ \A i \in 0..Len(q) : g[i] \in Nat
          /\ g[0] = 0 /\ \A i \in 1..Len(q) : g[i] = g[i - 1] + 2 + q[i]
      BY <2>1, <2>2, SumsGrow
    <3> QED
      BY <2>1, <3>1
  <2>4. \A i \in 0..n : g[i] = IF i = 0 THEN 0 ELSE g[i - 1] + 2 + recs[i]
    BY <1>3, <2>1, <2>3
  <2>5. g[n] = f[n]
    <3>1. SumsTo(recs, n, g) /\ n \in 0..Len(recs)
      BY <1>3, <2>4 DEF SumsTo
    <3> QED
      BY <1>1, <3>1, SumsUnique
  <2>6. g[n + 1] = g[n] + 2 + x
    <3>1. n + 1 \in 1..(n + 1) /\ n + 1 - 1 = n
      BY <1>3
    <3> QED
      BY <2>1, <2>3, <3>1
  <2> QED
    BY <1>1, <2>2, <2>5, <2>6 DEF q
<1> QED
  BY <1>4, <1>5, <1>6

\* Lengths are numbers.
LEMMA Lengths ==
  /\ Lens \subseteq Nat /\ LogWords \in Nat /\ LogWords > 0 /\ WlbWords \in Nat
         /\ WlbWords <= LogWords /\ Seq(Lens) \subseteq Seq(Nat) /\ 1 \in Addr
         /\ Addr \subseteq Nat
         /\ \A a : a \in Addr <=> a \in Nat /\ 1 <= a /\ a <= LogWords
<1>1. /\ Lens \subseteq Nat /\ LogWords \in Nat /\ LogWords > 0 /\ WlbWords \in Nat
      /\ WlbWords <= LogWords
  BY LogAssumption
<1>2. /\ 1 \in Addr /\ Addr \subseteq Nat
      /\ \A a : a \in Addr <=> a \in Nat /\ 1 <= a /\ a <= LogWords
  BY <1>1 DEF Addr
<1>3. ASSUME NEW q \in Seq(Lens) PROVE q \in Seq(Nat)
  BY <1>1, SeqMonotonic
<1> QED
  BY <1>1, <1>2, <1>3

\* The words between two words of the log.
LEMMA Between ==
  ASSUME NEW b \in Addr, NEW e \in Addr PROVE b..(e - 1) \subseteq Addr
<1>1. b \in Nat /\ e \in Nat /\ 1 <= b /\ e <= LogWords /\ LogWords \in Nat
  BY Lengths
<1>2. \A a \in b..(e - 1) : a \in Nat /\ 1 <= a /\ a <= LogWords
  BY <1>1
<1> QED
  BY <1>2, Lengths

\* A record's fields.
LEMMA RecordIs ==
  ASSUME NEW r \in Record
  PROVE  /\ r.pos \in Addr /\ r.pos \in Nat /\ r.len \in Lens /\ r.len \in Nat
         /\ Stop(r) \in Nat /\ Stop(r) = r.pos + 2 + r.len
         /\ r.pos < Stop(r) /\ Span(r) = r.pos..(Stop(r) - 1) /\ r.pos \in Span(r)
<1>1. r.pos \in Addr /\ r.pos \in Nat /\ r.len \in Lens /\ r.len \in Nat
  BY Lengths DEF Record
<1>2. Stop(r) \in Nat /\ Stop(r) = r.pos + 2 + r.len /\ r.pos < Stop(r)
  BY <1>1 DEF Stop
<1>3. Span(r) = r.pos..(Stop(r) - 1)
  BY <1>1, <1>2 DEF Span
<1> QED
  BY <1>1, <1>2, <1>3

\* A chain without its first record.
LEMMA ChainTail ==
  ASSUME NEW q, NEW p, NEW e, Chain(q, p, e), q # <<>>
  PROVE  Chain(Tail(q), Stop(q[1]), e) /\ Stop(q[1]) > p
<1> DEFINE t == Tail(q)
<1>1. q \in Seq(Record) /\ Len(q) \in Nat /\ Len(q) > 0
  BY EmptySeq DEF Chain
<1>2. /\ t \in Seq(Record) /\ Len(t) = Len(q) - 1
      /\ \A i \in 1..Len(t) : t[i] = q[i + 1]
  BY <1>1
<1>3. \A i \in 1..Len(t) : i + 1 \in 1..Len(q) /\ 1 < i + 1
  BY <1>1, <1>2
<1>4. /\ p \in Nat /\ e \in Addr /\ q[1] \in Record /\ q[1].pos = p
      /\ Stop(q[1]) <= e /\ p <= q[1].pos
  BY <1>1, Lengths DEF Chain
<1>5. Stop(q[1]) \in Addr /\ Stop(q[1]) > p
  BY <1>4, RecordIs, Lengths
<1>6. t = <<>> => Stop(q[1]) = e
  <2> HIDE DEF t
  <2>1. t = <<>> => Len(t) = 0
    OBVIOUS
  <2>2. t = <<>> => Len(q) = 1
    BY <1>1, <1>2, <2>1
  <2> QED
    BY <2>2 DEF Chain
<1>7. t # <<>> => t[1].pos = Stop(q[1]) /\ Stop(t[Len(t)]) = e
  <2> HAVE t # <<>>
  <2>1. Len(t) > 0
    BY <1>2, EmptySeq
  <2>2. t[1] = q[2] /\ t[Len(t)] = q[Len(q)] /\ 1 \in 1..(Len(q) - 1)
    BY <1>1, <1>2, <2>1
  <2> HIDE DEF t
  <2>3. q[1 + 1].pos = Stop(q[1]) /\ Stop(q[Len(q)]) = e
    BY <2>2 DEF Chain
  <2> QED
    BY <2>2, <2>3
<1> HIDE DEF t
<1>8. \A i \in 1..(Len(t) - 1) : t[i + 1].pos = Stop(t[i])
  <2>1. \A i \in 1..(Len(t) - 1) : /\ i \in 1..Len(t) /\ i + 1 \in 1..Len(t)
                                  /\ i + 1 \in 1..(Len(q) - 1)
    BY <1>1, <1>2
  <2> QED
    BY <1>2, <2>1 DEF Chain
<1>9. \A i, j \in 1..Len(t) : i < j => Stop(t[i]) <= t[j].pos
  BY <1>2, <1>3 DEF Chain
<1>10. \A i \in 1..Len(t) : Stop(q[1]) <= t[i].pos /\ Stop(t[i]) <= e
  <2>1. 1 \in 1..Len(q)
    BY <1>1
  <2> QED
    BY <1>2, <1>3, <2>1 DEF Chain
<1> QED
  BY <1>2, <1>4, <1>5, <1>6, <1>7, <1>8, <1>9, <1>10 DEF Chain, t

\* Two chains, one after the other.
LEMMA ChainJoin ==
  ASSUME NEW q, NEW n, NEW p, NEW m, NEW e, Chain(q, p, m), Chain(n, m, e)
  PROVE  Chain(q \o n, p, e)
<1> DEFINE c == q \o n
<1>1. /\ q \in Seq(Record) /\ n \in Seq(Record) /\ Len(q) \in Nat /\ Len(n) \in Nat
      /\ p \in Addr /\ m \in Addr /\ e \in Addr /\ p \in Nat /\ m \in Nat /\ e \in Nat
  BY Lengths DEF Chain
<1>2. /\ c \in Seq(Record) /\ Len(c) = Len(q) + Len(n)
      /\ \A i \in 1..Len(c) : c[i] = IF i <= Len(q) THEN q[i] ELSE n[i - Len(q)]
  BY <1>1, ConcatProperties
<1>3. \A i \in 1..Len(c) : \/ i <= Len(q) /\ i \in 1..Len(q) /\ c[i] = q[i]
                           \/ i > Len(q) /\ i - Len(q) \in 1..Len(n) /\ c[i] = n[i - Len(q)]
  <2> HIDE DEF c
  <2>1. \A i \in 1..Len(c) : \/ i <= Len(q) /\ i \in 1..Len(q)
                             \/ i > Len(q) /\ i - Len(q) \in 1..Len(n) /\ ~(i <= Len(q))
    BY <1>1, <1>2
  <2> QED
    BY <1>2, <2>1
<1> HIDE DEF c
<1>4. /\ \A i \in 1..Len(q) : /\ q[i].pos \in Nat /\ Stop(q[i]) \in Nat /\ p <= q[i].pos
                              /\ Stop(q[i]) <= m /\ q[i].pos < Stop(q[i])
      /\ \A i \in 1..Len(n) : /\ n[i].pos \in Nat /\ Stop(n[i]) \in Nat /\ m <= n[i].pos
                              /\ Stop(n[i]) <= e /\ n[i].pos < Stop(n[i])
  <2>1. /\ \A i \in 1..Len(q) : q[i] \in Record /\ p <= q[i].pos /\ Stop(q[i]) <= m
        /\ \A i \in 1..Len(n) : n[i] \in Record /\ m <= n[i].pos /\ Stop(n[i]) <= e
    BY <1>1 DEF Chain
  <2> QED
    BY <2>1, RecordIs
<1>5. p <= m /\ m <= e
  <2>1. p <= m
    <3>1. CASE q = <<>>
      BY <1>1, <3>1 DEF Chain
    <3>2. CASE q # <<>>
      <4>1. 1 \in 1..Len(q)
        BY <1>1, <3>2, EmptySeq
      <4> QED
        BY <1>1, <1>4, <4>1
    <3> QED
      BY <3>1, <3>2
  <2>2. m <= e
    <3>1. CASE n = <<>>
      BY <1>1, <3>1 DEF Chain
    <3>2. CASE n # <<>>
      <4>1. 1 \in 1..Len(n)
        BY <1>1, <3>2, EmptySeq
      <4> QED
        BY <1>1, <1>4, <4>1
    <3> QED
      BY <3>1, <3>2
  <2> QED
    BY <2>1, <2>2
<1>6. ASSUME NEW i \in 1..Len(c) PROVE p <= c[i].pos /\ Stop(c[i]) <= e
  <2>1. CASE i \in 1..Len(q) /\ c[i] = q[i]
    BY <1>1, <1>4, <1>5, <2>1
  <2>2. CASE i - Len(q) \in 1..Len(n) /\ c[i] = n[i - Len(q)]
    BY <1>1, <1>4, <1>5, <2>2
  <2> QED
    BY <1>3, <2>1, <2>2
<1>7. ASSUME NEW i \in 1..Len(c), NEW j \in 1..Len(c), i < j PROVE Stop(c[i]) <= c[j].pos
  <2>1. CASE j <= Len(q)
    <3>1. i <= Len(q) /\ i \in 1..Len(q) /\ j \in 1..Len(q) /\ c[i] = q[i] /\ c[j] = q[j]
      BY <1>1, <1>2, <1>3, <1>7, <2>1
    <3> QED
      BY <1>7, <3>1 DEF Chain
  <2>2. CASE j > Len(q) /\ i <= Len(q)
    <3>1. i \in 1..Len(q) /\ j - Len(q) \in 1..Len(n) /\ c[i] = q[i] /\ c[j] = n[j - Len(q)]
      BY <1>1, <1>2, <1>3, <2>2
    <3> QED
      BY <1>1, <1>4, <3>1, SMTT(30)
  <2>3. CASE j > Len(q) /\ i > Len(q)
    <3>1. /\ i - Len(q) \in 1..Len(n) /\ j - Len(q) \in 1..Len(n) /\ i - Len(q) < j - Len(q)
          /\ c[i] = n[i - Len(q)] /\ c[j] = n[j - Len(q)]
      BY <1>1, <1>2, <1>3, <1>7, <2>3
    <3> QED
      BY <3>1 DEF Chain
  <2> QED
    BY <1>1, <1>2, <2>1, <2>2, <2>3
<1>8. ASSUME NEW i \in 1..(Len(c) - 1) PROVE c[i + 1].pos = Stop(c[i])
  <2>0. i \in 1..Len(c) /\ i + 1 \in 1..Len(c) /\ i \in Nat
    BY <1>1, <1>2
  <2>1. CASE i + 1 <= Len(q)
    <3>1. i \in 1..(Len(q) - 1) /\ c[i] = q[i] /\ c[i + 1] = q[i + 1]
      BY <1>1, <1>2, <1>3, <2>0, <2>1
    <3> QED
      BY <3>1 DEF Chain
  <2>2. CASE i > Len(q)
    <3>1. /\ i - Len(q) \in 1..(Len(n) - 1) /\ c[i] = n[i - Len(q)]
          /\ c[i + 1] = n[i - Len(q) + 1]
      <4>1. i + 1 > Len(q) /\ i + 1 - Len(q) = i - Len(q) + 1 /\ i - Len(q) \in 1..(Len(n) - 1)
        BY <1>1, <1>2, <2>0, <2>2
      <4>2. c[i] = n[i - Len(q)] /\ c[i + 1] = n[i + 1 - Len(q)]
        BY <1>1, <1>3, <2>0, <2>2, <4>1
      <4> QED
        BY <4>1, <4>2
    <3> QED
      BY <3>1 DEF Chain
  <2>3. CASE i = Len(q)
    <3>1. Len(q) > 0 /\ Len(n) > 0 /\ q # <<>> /\ n # <<>>
      BY <1>1, <1>2, <2>0, <2>3
    <3>2. c[i] = q[Len(q)]
      BY <1>1, <1>3, <2>0, <2>3
    <3>3. c[i + 1] = n[1]
      <4>1. i + 1 > Len(q) /\ i + 1 - Len(q) = 1
        BY <1>1, <2>3
      <4> QED
        BY <1>1, <1>3, <2>0, <4>1
    <3> QED
      BY <3>1, <3>2, <3>3 DEF Chain
  <2> QED
    BY <1>1, <2>0, <2>1, <2>2, <2>3
<1>9. c = <<>> => p = e
  <2> HAVE c = <<>>
  <2>1. Len(q) = 0 /\ Len(n) = 0
    BY <1>1, <1>2
  <2>2. q = <<>> /\ n = <<>>
    BY <1>1, <2>1, EmptySeq
  <2> QED
    BY <2>2 DEF Chain
<1>10. c # <<>> => c[1].pos = p /\ Stop(c[Len(c)]) = e
  <2> HAVE c # <<>>
  <2>1. Len(c) > 0 /\ 1 \in 1..Len(c) /\ Len(c) \in 1..Len(c)
    BY <1>1, <1>2, EmptySeq
  <2>2. c[1].pos = p
    <3>1. CASE q = <<>>
      <4>1. Len(q) = 0 /\ n # <<>> /\ c[1] = n[1]
        <5>1. Len(q) = 0
          BY <3>1
        <5>2. Len(n) > 0
          BY <1>1, <1>2, <2>1, <5>1
        <5>3. c[1] = n[1 - Len(q)]
          BY <1>3, <2>1, <5>1
        <5> QED
          BY <1>1, <5>1, <5>2, <5>3
      <4> QED
        BY <3>1, <4>1 DEF Chain
    <3>2. CASE q # <<>>
      <4>1. Len(q) > 0
        BY <1>1, <3>2, EmptySeq
      <4>2. c[1] = q[1]
        BY <1>1, <1>3, <2>1, <4>1
      <4> QED
        BY <3>2, <4>2 DEF Chain
    <3> QED
      BY <3>1, <3>2
  <2>3. Stop(c[Len(c)]) = e
    <3>1. CASE n = <<>>
      <4>1. Len(n) = 0 /\ Len(c) = Len(q)
        BY <1>1, <1>2, <3>1
      <4>2. q # <<>> /\ c[Len(c)] = q[Len(q)]
        BY <1>1, <1>3, <2>1, <4>1
      <4> QED
        BY <3>1, <4>2 DEF Chain
    <3>2. CASE n # <<>>
      <4>1. Len(n) > 0 /\ Len(c) > Len(q) /\ Len(c) - Len(q) = Len(n)
        BY <1>1, <1>2, <3>2, EmptySeq
      <4>2. c[Len(c)] = n[Len(n)]
        BY <1>1, <1>3, <2>1, <4>1
      <4> QED
        BY <3>2, <4>2 DEF Chain
    <3> QED
      BY <3>1, <3>2
  <2> QED
    BY <2>2, <2>3
<1> QED
  BY <1>1, <1>2, <1>6, <1>7, <1>8, <1>9, <1>10 DEF Chain, c

\* The records of a job are a chain that fills the room of the job.
LEMMA PlacesChain ==
  ASSUME NEW recs \in Seq(Lens), recs # <<>>, NEW p \in Addr,
         p + Room(recs) <= LogWords
  PROVE  /\ Chain(Places(p, recs), p, p + Room(recs))
         /\ Len(Places(p, recs)) = Len(recs) /\ Places(p, recs) # <<>>
         /\ \A i \in 1..Len(recs) : Places(p, recs)[i].len = recs[i]
         /\ p + Room(recs) \in Addr
<1> DEFINE c == Places(p, recs)
           n == Len(recs)
<1>1. recs \in Seq(Nat) /\ n \in Nat /\ n > 0 /\ p \in Nat /\ p >= 1
  BY Lengths, EmptySeq
<1>2. PICK f : Sums(recs, f) /\ Room(recs) = f[n]
  BY <1>1, RoomIs
<1>3. /\ \A i \in 0..n : f[i] \in Nat
      /\ f[0] = 0 /\ \A i \in 1..n : f[i] = f[i - 1] + 2 + recs[i]
      /\ \A i, j \in 0..n : i < j => f[i] + 2 + recs[i + 1] <= f[j]
  BY <1>1, <1>2, SumsGrow
<1>4. \A i \in 1..n : i - 1 \in 0..n /\ i \in 0..n /\ recs[i] \in Lens /\ recs[i] \in Nat
  BY <1>1, Lengths
<1>5. \A i \in 1..n : f[i] <= f[n]
  <2> TAKE i \in 1..n
  <2>1. CASE i = n
    BY <1>1, <1>3, <2>1
  <2>2. CASE i < n
    <3>1. i \in 0..n /\ n \in 0..n /\ i + 1 \in 1..n
      BY <1>1, <2>2
    <3>2. f[i] + 2 + recs[i + 1] <= f[n] /\ f[i] \in Nat /\ recs[i + 1] \in Nat /\ f[n] \in Nat
      BY <1>3, <1>4, <2>2, <3>1
    <3>3. \A a, b, d \in Nat : a + 2 + b <= d => a <= d
      OBVIOUS
    <3> QED
      BY <3>2, <3>3
  <2> QED
    BY <1>1, <2>1, <2>2
<1>6. ASSUME NEW i \in 1..n
      PROVE  /\ c[i] \in Record /\ c[i].pos = p + f[i - 1] /\ c[i].len = recs[i]
             /\ Stop(c[i]) = p + f[i] /\ Stop(c[i]) <= p + f[n] /\ p <= c[i].pos
  <2>1. c[i] = [pos |-> p + Room(SubSeq(recs, 1, i - 1)), len |-> recs[i]]
    BY DEF Places
  <2>2. Room(SubSeq(recs, 1, i - 1)) = f[i - 1]
    BY <1>1, <1>2, <1>4, PrefixRoom
  <2>3. c[i].pos = p + f[i - 1] /\ c[i].len = recs[i] /\ c[i] = [pos |-> p + f[i - 1], len |-> recs[i]]
    BY <2>1, <2>2
  <2>4. /\ f[i - 1] \in Nat /\ f[i] \in Nat /\ f[i] = f[i - 1] + 2 + recs[i] /\ f[i] <= f[n]
        /\ recs[i] \in Nat /\ f[n] \in Nat
    BY <1>1, <1>3, <1>4, <1>5
  <2> HIDE DEF c
  <2>16. p + f[n] <= LogWords
    BY <1>2
  <2>17. /\ p + f[i - 1] + 2 + recs[i] = p + f[i] /\ p <= p + f[i - 1] /\ p + f[i] <= p + f[n]
        /\ p + f[i - 1] \in Nat /\ 1 <= p + f[i - 1] /\ p + f[i - 1] <= LogWords
    <3> DEFINE a == f[i - 1]
               b == f[i]
               m == f[n]
               d == recs[i]
    <3>1. a \in Nat /\ b \in Nat /\ m \in Nat /\ d \in Nat /\ b = a + 2 + d /\ b <= m /\ p + m <= LogWords
      BY <2>4, <2>16
    <3> HIDE DEF a, b, m, d
    <3>2. /\ p + a + 2 + d = p + b /\ p <= p + a /\ p + b <= p + m
          /\ p + a \in Nat /\ 1 <= p + a /\ p + a <= LogWords
      BY <1>1, <3>1, Lengths
    <3> QED
      BY <3>2 DEF a, b, m, d
  <2>5. Stop(c[i]) = p + f[i] /\ p <= c[i].pos /\ Stop(c[i]) <= p + f[n]
    BY <2>3, <2>17 DEF Stop
  <2>6. p + f[i - 1] \in Nat /\ 1 <= p + f[i - 1] /\ p + f[i - 1] <= LogWords
    BY <2>17
  <2>7. c[i] \in Record
    BY <1>4, <2>3, <2>6, Lengths DEF Record
  <2> QED
    BY <2>3, <2>5, <2>7
<1>7. c \in Seq(Record) /\ Len(c) = n
  <2>1. c = [i \in 1..n |-> c[i]]
    BY DEF Places
  <2>2. c \in [1..n -> Record]
    <3> HIDE DEF c
    <3> QED
      BY <1>6, <2>1
  <2> HIDE DEF c
  <2> QED
    BY <1>1, <2>2, SeqDef
<1> HIDE DEF c
<1>8. p + f[n] \in Addr
  <2>1. f[n] \in Nat /\ p + f[n] <= LogWords
    BY <1>1, <1>2, <1>3
  <2>2. \A x, m \in Nat : 1 <= x => x + m \in Nat /\ 1 <= x + m
    OBVIOUS
  <2> QED
    BY <1>1, <2>1, <2>2, Lengths
<1>9. c # <<>> /\ c[1].pos = p /\ Stop(c[n]) = p + f[n]
  <2>1. 1 \in 1..n /\ n \in 1..n
    BY <1>1
  <2>2. c[1].pos = p + f[0] /\ Stop(c[n]) = p + f[n]
    BY <1>6, <2>1
  <2> QED
    BY <1>1, <1>3, <1>7, <2>2
<1>10. \A i \in 1..(n - 1) : c[i + 1].pos = Stop(c[i])
  <2> TAKE i \in 1..(n - 1)
  <2>1. i \in 1..n /\ i + 1 \in 1..n /\ i + 1 - 1 = i
    BY <1>1
  <2> QED
    BY <1>6, <2>1
<1>11. ASSUME NEW i \in 1..n, NEW j \in 1..n, i < j PROVE Stop(c[i]) <= c[j].pos
  <2>1. Stop(c[i]) = p + f[i] /\ c[j].pos = p + f[j - 1]
    BY <1>6
  <2>2. i = j - 1 \/ i < j - 1
    BY <1>1, <1>11
  <2>3. CASE i < j - 1
    <3>1. i \in 0..n /\ j - 1 \in 0..n /\ i + 1 \in 1..n
      BY <1>1, <1>11
    <3>2. /\ f[i] + 2 + recs[i + 1] <= f[j - 1] /\ f[i] \in Nat /\ recs[i + 1] \in Nat
          /\ f[j - 1] \in Nat
      BY <1>3, <1>4, <2>3, <3>1
    <3>3. \A a, b, d, x \in Nat : a + 2 + b <= d => x + a <= x + d
      OBVIOUS
    <3> QED
      BY <1>1, <2>1, <3>2, <3>3
  <2>4. CASE i = j - 1
    <3>1. f[i] \in Nat
      BY <1>1, <1>3
    <3> QED
      BY <1>1, <2>1, <2>4, <3>1
  <2> QED
    BY <2>2, <2>3, <2>4
<1>12. Chain(c, p, p + f[n])
  <2>1. \A i \in 1..n : p <= c[i].pos /\ Stop(c[i]) <= p + f[n]
    BY <1>6
  <2> QED
    BY <1>7, <1>8, <1>9, <1>10, <1>11, <2>1 DEF Chain
<1> QED
  BY <1>2, <1>6, <1>7, <1>8, <1>9, <1>12 DEF c

\* The records of a chain lie one after the other between its ends.
LEMMA ChainIs ==
  ASSUME NEW q, NEW p, NEW e, Chain(q, p, e)
  PROVE  /\ q \in Seq(Record) /\ Len(q) \in Nat /\ p \in Addr /\ e \in Addr /\ p <= e
         /\ \A i \in 1..Len(q) :
              /\ q[i] \in Record /\ p <= q[i].pos /\ Stop(q[i]) <= e
              /\ Span(q[i]) \subseteq p..(e - 1)
         /\ \A i, j \in 1..Len(q) : i # j => Span(q[i]) \cap Span(q[j]) = {}
         /\ q # <<>> => 1 \in 1..Len(q) /\ q[1].pos = p /\ p < e
<1>1. q \in Seq(Record) /\ Len(q) \in Nat /\ p \in Addr /\ e \in Addr /\ p \in Nat /\ e \in Nat
  BY Lengths DEF Chain
<1>2. \A i \in 1..Len(q) : q[i] \in Record /\ p <= q[i].pos /\ Stop(q[i]) <= e
  BY <1>1 DEF Chain
<1>3. ASSUME NEW i \in 1..Len(q)
      PROVE  /\ q[i].pos \in Nat /\ Stop(q[i]) \in Nat /\ q[i].pos < Stop(q[i])
             /\ Span(q[i]) = q[i].pos..(Stop(q[i]) - 1)
  BY <1>2, RecordIs
<1>4. \A i \in 1..Len(q) : Span(q[i]) \subseteq p..(e - 1)
  BY <1>1, <1>2, <1>3
<1>5. ASSUME NEW i \in 1..Len(q), NEW j \in 1..Len(q), i < j
      PROVE  Span(q[i]) \cap Span(q[j]) = {}
  <2>1. Stop(q[i]) <= q[j].pos
    BY <1>5 DEF Chain
  <2>2. /\ q[i].pos \in Nat /\ Stop(q[i]) \in Nat /\ q[j].pos \in Nat /\ Stop(q[j]) \in Nat
        /\ Span(q[i]) = q[i].pos..(Stop(q[i]) - 1) /\ Span(q[j]) = q[j].pos..(Stop(q[j]) - 1)
    BY <1>3
  <2> DEFINE a == q[i].pos
             b == Stop(q[i])
             x == q[j].pos
             y == Stop(q[j])
  <2> HIDE DEF a, b, x, y
  <2>3. a \in Nat /\ b \in Nat /\ x \in Nat /\ y \in Nat /\ b <= x
    BY <2>1, <2>2 DEF a, b, x, y
  <2>4. (a..(b - 1)) \cap (x..(y - 1)) = {}
    BY <2>3
  <2> QED
    BY <2>2, <2>4 DEF a, b, x, y
<1>6. q # <<>> => 1 \in 1..Len(q) /\ q[1].pos = p
  BY <1>1, EmptySeq DEF Chain
<1>7. q # <<>> => p < e
  BY <1>1, <1>2, <1>3, <1>6
<1>8. p <= e
  BY <1>1, <1>7 DEF Chain
<1>9. \A i, j \in 1..Len(q) : i # j => i < j \/ j < i
  BY <1>1
<1> QED
  BY <1>1, <1>2, <1>4, <1>5, <1>6, <1>7, <1>8, <1>9

\* What a thread may reserve.
Claim(p, recs) ==
  recs \in Seq(Lens) /\ recs # <<>> /\ p \in Addr /\ p + Room(recs) <= LogWords

LEMMA ClaimIs ==
  ASSUME NEW p, NEW recs, Claim(p, recs)
  PROVE  /\ Room(recs) \in Nat /\ Room(recs) > 1 /\ p \in Nat /\ p >= 1
         /\ Area(p, recs) \subseteq Addr /\ p \in Area(p, recs)
         /\ p + Room(recs) \in Addr
         /\ \A a : a \in Area(p, recs) <=> a \in Nat /\ p <= a /\ a < p + Room(recs)
         /\ recs[1] \in Lens
<1>1. recs \in Seq(Lens) /\ recs # <<>> /\ p \in Addr /\ p + Room(recs) <= LogWords
  BY DEF Claim
<1>2. recs \in Seq(Nat) /\ p \in Nat /\ p >= 1 /\ LogWords \in Nat
  BY <1>1, Lengths
<1>3. Room(recs) \in Nat /\ Room(recs) > 1
  BY <1>1, <1>2, RoomOf
<1>4. \A a : a \in Area(p, recs) <=> a \in Nat /\ p <= a /\ a < p + Room(recs)
  BY <1>2, <1>3 DEF Area
<1>5. \A a : a \in Nat /\ p <= a /\ a <= p + Room(recs) => a \in Addr
  BY <1>1, <1>2, <1>3, Lengths, SMTT(30)
<1>6. recs[1] \in Lens
  BY <1>1
<1> QED
  BY <1>2, <1>3, <1>4, <1>5, <1>6

LEMMA RecordsOfClaim ==
  ASSUME NEW p, NEW recs, Claim(p, recs)
  PROVE  /\ \A r \in RecordsAt(p, recs) :
              /\ r \in Record /\ Span(r) \subseteq Area(p, recs)
              /\ r.pos = p => r.len = recs[1]
         /\ \A r, s \in RecordsAt(p, recs) : r # s => Span(r) \cap Span(s) = {}
         /\ \A i \in DOMAIN recs : Places(p, recs)[i] \in RecordsAt(p, recs)
         /\ DOMAIN recs = 1..Len(recs) /\ DOMAIN Places(p, recs) = 1..Len(recs)
<1> DEFINE c == Places(p, recs)
<1>1. /\ Chain(c, p, p + Room(recs))
      /\ Len(c) = Len(recs) /\ c # <<>>
      /\ \A i \in 1..Len(recs) : c[i].len = recs[i]
  BY PlacesChain DEF Claim
<1>2. DOMAIN recs = 1..Len(recs)
  BY DEF Claim
<1>3. \A r \in RecordsAt(p, recs) : \E i \in 1..Len(c) : r = c[i]
  BY <1>1, <1>2 DEF RecordsAt
<1>4. \A i \in DOMAIN recs : c[i] \in RecordsAt(p, recs)
  BY DEF RecordsAt
<1>5. DOMAIN c = DOMAIN recs
  BY DEF Places
<1> HIDE DEF c
<1>6. /\ \A i \in 1..Len(c) : c[i] \in Record /\ Span(c[i]) \subseteq Area(p, recs)
      /\ \A i, j \in 1..Len(c) : i # j => Span(c[i]) \cap Span(c[j]) = {}
      /\ 1 \in 1..Len(c) /\ c[1].pos = p
  <2> DEFINE e == p + Room(recs)
  <2> HIDE DEF e
  <2>1. Chain(c, p, e)
    BY <1>1 DEF e
  <2>2. /\ \A i \in 1..Len(c) : c[i] \in Record /\ Span(c[i]) \subseteq p..(e - 1)
        /\ \A i, j \in 1..Len(c) : i # j => Span(c[i]) \cap Span(c[j]) = {}
        /\ c # <<>> => 1 \in 1..Len(c) /\ c[1].pos = p
    BY <2>1, ChainIs
  <2>3. p..(e - 1) = Area(p, recs)
    <3>1. p \in Nat /\ Room(recs) \in Nat
      BY ClaimIs
    <3> QED
      BY <3>1 DEF e, Area
  <2> QED
    BY <1>1, <2>2, <2>3
<1>7. \A i \in 1..Len(c) : c[i].pos = p => c[i].len = recs[1]
  <2> TAKE i \in 1..Len(c)
  <2>1. c[i].pos \in Span(c[i]) /\ c[1].pos \in Span(c[1])
    BY <1>6, RecordIs
  <2> QED
    BY <1>1, <1>6, <2>1
<1>8. \A r \in RecordsAt(p, recs) :
              /\ r \in Record /\ Span(r) \subseteq Area(p, recs)
              /\ r.pos = p => r.len = recs[1]
  BY <1>3, <1>6, <1>7
<1>9. \A r, s \in RecordsAt(p, recs) : r # s => Span(r) \cap Span(s) = {}
  BY <1>3, <1>6
<1> QED
  BY <1>2, <1>4, <1>5, <1>8, <1>9 DEF c

\* A memory that agrees with m on a record.
LEMMA WholeKept ==
  ASSUME NEW m, NEW n, NEW r \in Record, \A a \in Span(r) : n[a] = m[a],
         WholeIn(m, r)
  PROVE  WholeIn(n, r)
<1>1. r.pos \in Span(r)
  BY RecordIs
<1> QED
  BY <1>1 DEF WholeIn

\* A complete record has a header.
LEMMA WholeHeader ==
  ASSUME NEW m, NEW r \in Record, WholeIn(m, r)
  PROVE  m[r.pos] = r.len /\ r.len \in Nat /\ m[r.pos] # ENDMARKER /\ m[r.pos] # WRAPMARKER
<1>1. r.len \in Nat
  BY RecordIs
<1> QED
  BY <1>1 DEF WholeIn, ENDMARKER, WRAPMARKER

\* Room elsewhere is reserved or written.
LEMMA SoundElsewhere ==
  ASSUME NEW m, NEW n, NEW C, NEW D, NEW q \in Seq(Record), Sound(m, C, q),
         \A i \in 1..Len(q) : \A a \in Span(q[i]) : n[a] = m[a],
         C \subseteq D,
         \A d \in D \ C : \A i \in 1..Len(q) : Span(q[i]) \cap Area(d[1], d[2]) = {}
  PROVE  Sound(n, D, q)
<1> SUFFICES ASSUME NEW i \in 1..Len(q)
             PROVE  /\ WholeIn(n, q[i]) \/ Hidden(n, D, q, i)
                    /\ \A c \in D : q[i] \in RecordsAt(c[1], c[2])
                                      \/ Span(q[i]) \cap Area(c[1], c[2]) = {}
  BY DEF Sound
<1>1. \A j \in 1..Len(q) : q[j] \in Record /\ q[j].pos \in Span(q[j])
  BY RecordIs
<1>2. \A j \in 1..i : j \in 1..Len(q)
  OBVIOUS
<1>3. CASE WholeIn(m, q[i])
  BY <1>1, <1>3, WholeKept DEF Sound
<1>4. CASE Hidden(m, C, q, i)
  <2>1. CASE \E j \in 1..i : m[q[j].pos] = ENDMARKER /\ Unclaimed(C, q[j].pos)
    <3>1. PICK j \in 1..i : m[q[j].pos] = ENDMARKER /\ Unclaimed(C, q[j].pos)
      BY <2>1
    <3>2. n[q[j].pos] = ENDMARKER
      BY <1>1, <1>2, <3>1
    <3>3. Unclaimed(D, q[j].pos)
      BY <1>1, <1>2, <3>1 DEF Unclaimed
    <3> QED
      BY <3>2, <3>3 DEF Sound, Hidden
  <2>2. CASE \E j \in 1..i : \E c \in C : q[j].pos = c[1] /\ q[i] \in RecordsAt(c[1], c[2])
    BY <2>2 DEF Sound, Hidden
  <2> QED
    BY <1>4, <2>1, <2>2 DEF Hidden
<1> QED
  BY <1>3, <1>4 DEF Sound

\* The records that a thread has just reserved.
LEMMA SoundNew ==
  ASSUME NEW m, NEW C, NEW p, NEW recs, Claim(p, recs), <<p, recs>> \in C,
         \A c \in C : c # <<p, recs>> => Area(c[1], c[2]) \cap Area(p, recs) = {}
  PROVE  Sound(m, C, Places(p, recs))
<1> DEFINE q == Places(p, recs)
<1>1. /\ Chain(q, p, p + Room(recs)) /\ Len(q) = Len(recs) /\ q # <<>>
  BY PlacesChain DEF Claim
<1>2. /\ \A r \in RecordsAt(p, recs) : Span(r) \subseteq Area(p, recs)
      /\ \A i \in 1..Len(q) : q[i] \in RecordsAt(p, recs)
  BY <1>1, RecordsOfClaim
<1> HIDE DEF q
<1>3. q[1].pos = p /\ Len(q) \in Nat
  BY <1>1, EmptySeq DEF Chain
<1>4. ASSUME NEW i \in 1..Len(q) PROVE Hidden(m, C, q, i)
  <2>1. 1 \in 1..i
    BY <1>3
  <2>2. <<p, recs>>[1] = p /\ <<p, recs>>[2] = recs
    OBVIOUS
  <2> QED
    BY <1>2, <1>3, <2>1, <2>2 DEF Hidden
<1>5. ASSUME NEW i \in 1..Len(q), NEW c \in C
      PROVE  q[i] \in RecordsAt(c[1], c[2]) \/ Span(q[i]) \cap Area(c[1], c[2]) = {}
  <2>1. CASE c = <<p, recs>>
    BY <1>2, <2>1
  <2>2. CASE c # <<p, recs>>
    BY <1>2, <2>2
  <2> QED
    BY <2>1, <2>2
<1> QED
  BY <1>4, <1>5 DEF Sound, q

LEMMA SoundJoin ==
  ASSUME NEW m, NEW C, NEW q \in Seq(Record), NEW s \in Seq(Record), Sound(m, C, q), Sound(m, C, s)
  PROVE  Sound(m, C, q \o s)
<1> DEFINE c == q \o s
<1>1. /\ c \in Seq(Record) /\ Len(c) = Len(q) + Len(s) /\ Len(q) \in Nat /\ Len(s) \in Nat
      /\ \A i \in 1..Len(c) : c[i] = IF i <= Len(q) THEN q[i] ELSE s[i - Len(q)]
  BY ConcatProperties
<1> HIDE DEF c
<1>2. ASSUME NEW i \in 1..Len(q) PROVE i \in 1..Len(c) /\ c[i] = q[i]
  BY <1>1
<1>3. ASSUME NEW i \in 1..Len(s) PROVE i + Len(q) \in 1..Len(c) /\ c[i + Len(q)] = s[i]
  <2>1. i + Len(q) \in 1..Len(c) /\ ~(i + Len(q) <= Len(q)) /\ i + Len(q) - Len(q) = i
    BY <1>1
  <2> QED
    BY <1>1, <2>1
<1>4. ASSUME NEW i \in 1..Len(q), Hidden(m, C, q, i) PROVE Hidden(m, C, c, i)
  <2>1. \A j \in 1..i : c[j] = q[j]
    BY <1>1, <1>2
  <2> QED
    BY <1>2, <1>4, <2>1 DEF Hidden
<1>5. ASSUME NEW i \in 1..Len(s), Hidden(m, C, s, i) PROVE Hidden(m, C, c, i + Len(q))
  <2>1. \A j \in 1..i : j + Len(q) \in 1..(i + Len(q)) /\ c[j + Len(q)] = s[j]
    BY <1>1, <1>3
  <2> QED
    BY <1>3, <1>5, <2>1 DEF Hidden
<1>6. ASSUME NEW i \in 1..Len(q)
      PROVE  /\ WholeIn(m, c[i]) \/ Hidden(m, C, c, i)
             /\ \A d \in C : c[i] \in RecordsAt(d[1], d[2])
                               \/ Span(c[i]) \cap Area(d[1], d[2]) = {}
  BY <1>2, <1>4 DEF Sound
<1>7. ASSUME NEW i \in 1..Len(s)
      PROVE  /\ WholeIn(m, c[i + Len(q)]) \/ Hidden(m, C, c, i + Len(q))
             /\ \A d \in C : c[i + Len(q)] \in RecordsAt(d[1], d[2])
                               \/ Span(c[i + Len(q)]) \cap Area(d[1], d[2]) = {}
  BY <1>3, <1>5 DEF Sound
<1>8. \A i \in 1..Len(c) : i \in 1..Len(q) \/ \E k \in 1..Len(s) : i = k + Len(q)
  <2> TAKE i \in 1..Len(c)
  <2>1. i \in 1..Len(q) \/ (i - Len(q) \in 1..Len(s) /\ i = (i - Len(q)) + Len(q))
    BY <1>1
  <2> QED
    BY <2>1
<1>9. Sound(m, C, c)
  BY <1>6, <1>7, <1>8 DEF Sound
<1> QED
  BY <1>9 DEF c

LEMMA SoundEmpty == ASSUME NEW m, NEW C PROVE Sound(m, C, <<>>)
  BY DEF Sound

\* The room of every thread begins with a marker.
Marked(m, C) == \A c \in C : m[c[1]] = ENDMARKER

\* What a reader finds when it looks at the first record ahead of it.
LEMMA SoundFirst ==
  ASSUME NEW m, NEW C, NEW q \in Seq(Record), q # <<>>, Sound(m, C, q),
         Marked(m, C), m[q[1].pos] # ENDMARKER
  PROVE  WholeIn(m, q[1])
<1>1. 1 \in 1..Len(q) /\ \A j \in 1..1 : j = 1
  BY EmptySeq
<1>2. ~Hidden(m, C, q, 1)
  BY <1>1 DEF Hidden, Marked
<1> QED
  BY <1>1, <1>2 DEF Sound

\* When it has passed that record, the others are as they were.
LEMMA SoundTail ==
  ASSUME NEW m, NEW C, NEW q \in Seq(Record), q # <<>>, Sound(m, C, q),
         Marked(m, C), m[q[1].pos] # ENDMARKER
  PROVE  Sound(m, C, Tail(q))
<1> DEFINE t == Tail(q)
<1>1. /\ t \in Seq(Record) /\ Len(t) = Len(q) - 1 /\ Len(q) \in Nat /\ Len(q) > 0
      /\ \A i \in 1..Len(t) : t[i] = q[i + 1]
  BY EmptySeq
<1> HIDE DEF t
<1>2. \A i \in 1..Len(t) : i + 1 \in 1..Len(q)
  BY <1>1
<1>3. ASSUME NEW i \in 1..Len(t), Hidden(m, C, q, i + 1) PROVE Hidden(m, C, t, i)
  <2>1. \A j \in 1..(i + 1) : j = 1 \/ \E k \in 1..i : j = k + 1 /\ t[k] = q[j]
    <3> TAKE j \in 1..(i + 1)
    <3>1. j = 1 \/ (j - 1 \in 1..i /\ j = (j - 1) + 1 /\ j - 1 \in 1..Len(t))
      BY <1>1
    <3> QED
      BY <1>1, <3>1
  <2>2. CASE \E j \in 1..(i + 1) : m[q[j].pos] = ENDMARKER /\ Unclaimed(C, q[j].pos)
    <3>1. PICK j \in 1..(i + 1) : m[q[j].pos] = ENDMARKER /\ Unclaimed(C, q[j].pos)
      BY <2>2
    <3>2. PICK k \in 1..i : j = k + 1 /\ t[k] = q[j]
      BY <2>1, <3>1
    <3> QED
      BY <3>1, <3>2 DEF Hidden
  <2>3. CASE \E j \in 1..(i + 1) : \E c \in C :
               q[j].pos = c[1] /\ q[i + 1] \in RecordsAt(c[1], c[2])
    <3>1. PICK j \in 1..(i + 1), c \in C : q[j].pos = c[1] /\ q[i + 1] \in RecordsAt(c[1], c[2])
      BY <2>3
    <3>2. PICK k \in 1..i : j = k + 1 /\ t[k] = q[j]
      BY <2>1, <3>1 DEF Marked
    <3> QED
      BY <1>1, <3>1, <3>2 DEF Hidden
  <2> QED
    BY <1>3, <2>2, <2>3 DEF Hidden
<1> SUFFICES ASSUME NEW i \in 1..Len(t)
             PROVE  /\ WholeIn(m, t[i]) \/ Hidden(m, C, t, i)
                    /\ \A c \in C : t[i] \in RecordsAt(c[1], c[2])
                                      \/ Span(t[i]) \cap Area(c[1], c[2]) = {}
  BY DEF Sound, t
<1> QED
  BY <1>1, <1>2, <1>3 DEF Sound

\* The child dies: what hid behind a thread's marker does so for ever.
LEMMA SoundCrash ==
  ASSUME NEW m, NEW C, NEW q, Sound(m, C, q), Marked(m, C)
  PROVE  Sound(m, {}, q)
<1> SUFFICES ASSUME NEW i \in 1..Len(q) PROVE WholeIn(m, q[i]) \/ Hidden(m, {}, q, i)
  BY DEF Sound
<1>1. \A a : Unclaimed({}, a)
  BY DEF Unclaimed
<1>2. Hidden(m, C, q, i) => Hidden(m, {}, q, i)
  BY <1>1 DEF Hidden, Marked
<1> QED
  BY <1>2 DEF Sound

\* A marker at the front hides all records behind it.
LEMMA SoundFront ==
  ASSUME NEW m, NEW n, NEW C, NEW q \in Seq(Record), Sound(m, C, q),
         q[1].pos = 1, n[1] = ENDMARKER, Unclaimed(C, 1)
  PROVE  Sound(n, C, q)
<1> SUFFICES ASSUME NEW i \in 1..Len(q) PROVE Hidden(n, C, q, i)
  BY DEF Sound
<1>1. 1 \in 1..i
  OBVIOUS
<1> QED
  BY <1>1 DEF Hidden

\* A thread has written all but its first header.
Written(m, p, recs) ==
  \A r \in RecordsAt(p, recs) :
    /\ \A a \in Span(r) \ {r.pos} : m[a] = BODY
    /\ r.pos # p => m[r.pos] = r.len

LEMMA WholeBody ==
  ASSUME NEW m, NEW n, NEW p, NEW recs, Claim(p, recs), m[p] = ENDMARKER,
         \A a \in Addr : a \notin Area(p, recs) => n[a] = m[a],
         Written(n, p, recs), NEW r \in Record, WholeIn(m, r), Span(r) \subseteq Addr,
         r \in RecordsAt(p, recs) \/ Span(r) \cap Area(p, recs) = {}
  PROVE  WholeIn(n, r)
<1>1. CASE r \in RecordsAt(p, recs)
  <2>1. r.pos # p
    BY WholeHeader
  <2> QED
    BY <1>1, <2>1 DEF Written, WholeIn
<1>2. CASE Span(r) \cap Area(p, recs) = {}
  BY <1>2, WholeKept
<1> QED
  BY <1>1, <1>2

\* A thread writes all but its first header.
LEMMA SoundBody ==
  ASSUME NEW m, NEW n, NEW C, NEW p, NEW recs, Claim(p, recs), <<p, recs>> \in C,
         Marked(m, C), \A a \in Addr : a \notin Area(p, recs) => n[a] = m[a],
         Written(n, p, recs), NEW q, NEW b, NEW e, Chain(q, b, e), Sound(m, C, q)
  PROVE  Sound(n, C, q)
<1>1. m[p] = ENDMARKER
  BY DEF Marked
<1>2. /\ q \in Seq(Record) /\ \A i \in 1..Len(q) : q[i] \in Record /\ Span(q[i]) \subseteq b..(e - 1)
      /\ b \in Addr /\ e \in Addr
  BY ChainIs
<1>3. b..(e - 1) \subseteq Addr
  BY <1>2, Between
<1>4. \A i \in 1..Len(q) : q[i].pos \in Addr /\ Span(q[i]) \subseteq Addr
  BY <1>2, <1>3, RecordIs
<1>5. \A i \in 1..Len(q) : q[i] \in RecordsAt(p, recs) \/ Span(q[i]) \cap Area(p, recs) = {}
  BY DEF Sound
<1> SUFFICES ASSUME NEW i \in 1..Len(q) PROVE WholeIn(n, q[i]) \/ Hidden(n, C, q, i)
  BY DEF Sound
<1>6. CASE WholeIn(m, q[i])
  BY <1>1, <1>2, <1>4, <1>5, <1>6, WholeBody
<1>7. CASE Hidden(m, C, q, i)
  <2>1. CASE \E j \in 1..i : m[q[j].pos] = ENDMARKER /\ Unclaimed(C, q[j].pos)
    <3>1. PICK j \in 1..i : m[q[j].pos] = ENDMARKER /\ Unclaimed(C, q[j].pos)
      BY <2>1
    <3>2. j \in 1..Len(q)
      OBVIOUS
    <3>3. q[j].pos \notin Area(p, recs)
      BY <3>1 DEF Unclaimed
    <3> QED
      BY <1>4, <3>1, <3>2, <3>3 DEF Hidden
  <2>2. CASE \E j \in 1..i : \E c \in C : q[j].pos = c[1] /\ q[i] \in RecordsAt(c[1], c[2])
    BY <2>2 DEF Hidden
  <2> QED
    BY <1>7, <2>1, <2>2 DEF Hidden
<1> QED
  BY <1>6, <1>7 DEF Sound

\* It writes its first header, and its records are complete.
LEMMA WholeHdr ==
  ASSUME NEW m, NEW n, NEW p, NEW recs, Claim(p, recs), Written(m, p, recs),
         n[p] = recs[1], \A a \in Addr : a # p => n[a] = m[a], NEW r \in RecordsAt(p, recs)
  PROVE  WholeIn(n, r)
<1>1. r \in Record /\ Span(r) \subseteq Area(p, recs) /\ (r.pos = p => r.len = recs[1])
  BY RecordsOfClaim
<1>2. Area(p, recs) \subseteq Addr /\ r.pos \in Addr
  BY <1>1, ClaimIs, RecordIs
<1>3. \A a \in Span(r) \ {r.pos} : a # p
  <2>1. Span(r) = r.pos..(Stop(r) - 1) /\ r.pos \in Nat /\ Stop(r) \in Nat /\ r.pos \in Span(r)
    BY <1>1, RecordIs
  <2>2. \A a \in Area(p, recs) : p <= a /\ a \in Nat /\ p \in Nat
    BY ClaimIs
  <2> QED
    BY <1>1, <2>1, <2>2
<1> QED
  BY <1>1, <1>2, <1>3 DEF Written, WholeIn

LEMMA SoundHdr ==
  ASSUME NEW m, NEW n, NEW C, NEW p, NEW recs, Claim(p, recs), <<p, recs>> \in C,
         Written(m, p, recs), n[p] = recs[1], \A a \in Addr : a # p => n[a] = m[a],
         NEW q, NEW b, NEW e, Chain(q, b, e), Sound(m, C, q)
  PROVE  Sound(n, C \ {<<p, recs>>}, q)
<1> DEFINE D == C \ {<<p, recs>>}
<1>1. p \in Area(p, recs)
  BY ClaimIs
<1>2. /\ q \in Seq(Record) /\ \A i \in 1..Len(q) : q[i] \in Record /\ Span(q[i]) \subseteq b..(e - 1)
      /\ b \in Addr /\ e \in Addr
  BY ChainIs
<1>3. b..(e - 1) \subseteq Addr
  BY <1>2, Between
<1>4. \A i \in 1..Len(q) : q[i].pos \in Addr /\ Span(q[i]) \subseteq Addr
  BY <1>2, <1>3, RecordIs
<1>5. \A i \in 1..Len(q) : q[i] \in RecordsAt(p, recs) \/ Span(q[i]) \cap Area(p, recs) = {}
  BY DEF Sound
<1> SUFFICES ASSUME NEW i \in 1..Len(q) PROVE WholeIn(n, q[i]) \/ Hidden(n, D, q, i)
  BY DEF Sound
<1>6. CASE q[i] \in RecordsAt(p, recs)
  BY <1>6, WholeHdr
<1>7. CASE q[i] \notin RecordsAt(p, recs) /\ WholeIn(m, q[i])
  <2>1. \A a \in Span(q[i]) : n[a] = m[a]
    BY <1>1, <1>4, <1>5, <1>7
  <2> QED
    BY <1>2, <1>7, <2>1, WholeKept
<1>8. CASE q[i] \notin RecordsAt(p, recs) /\ Hidden(m, C, q, i)
  <2>1. CASE \E j \in 1..i : m[q[j].pos] = ENDMARKER /\ Unclaimed(C, q[j].pos)
    <3>1. PICK j \in 1..i : m[q[j].pos] = ENDMARKER /\ Unclaimed(C, q[j].pos)
      BY <2>1
    <3>2. j \in 1..Len(q)
      OBVIOUS
    <3>3. q[j].pos \notin Area(p, recs) /\ Unclaimed(D, q[j].pos)
      BY <3>1 DEF Unclaimed
    <3> QED
      BY <1>1, <1>4, <3>1, <3>2, <3>3 DEF Hidden
  <2>2. CASE \E j \in 1..i : \E c \in C : q[j].pos = c[1] /\ q[i] \in RecordsAt(c[1], c[2])
    <3>1. PICK j \in 1..i, c \in C : q[j].pos = c[1] /\ q[i] \in RecordsAt(c[1], c[2])
      BY <2>2
    <3>2. c # <<p, recs>>
      BY <1>8, <3>1
    <3> QED
      BY <3>1, <3>2 DEF Hidden
  <2> QED
    BY <1>8, <2>1, <2>2 DEF Hidden
<1> QED
  BY <1>6, <1>7, <1>8 DEF Sound

-----------------------------------------------------------------------------
(* The log: facts about a state                                            *)

\* What the threads that write have reserved.
LEMMA ClaimsAre ==
  ASSUME TypeOK, LockOK
  PROVE  /\ \A w \in Live : Claim(at[w], job[w]) /\ <<at[w], job[w]>> \in Claims
         /\ \A c \in Claims : \E w \in Live : c = <<at[w], job[w]>>
         /\ Live \subseteq Writer
<1>1. \A w \in Live : w \in Writer /\ pc[w] \in {"body", "header"} /\ pc[w] # "idle"
  BY DEF Live
<1>2. \A w \in Live : job[w] # <<>> /\ at[w] + Room(job[w]) <= LogWords
  BY <1>1 DEF LockOK
<1>3. \A w \in Live : job[w] \in Seq(Lens) /\ at[w] \in Addr
  BY <1>1 DEF TypeOK
<1> QED
  BY <1>1, <1>2, <1>3 DEF Claim, Claims

LEMMA ClaimsMarked ==
  ASSUME TypeOK, LockOK, WritersOK, ~spoilt
  PROVE  Marked(mem, Claims)
<1>1. \A c \in Claims : \E w \in Live : c = <<at[w], job[w]>>
  BY ClaimsAre
<1>2. \A w \in Live : mem[at[w]] = ENDMARKER
  BY DEF WritersOK
<1> QED
  BY <1>1, <1>2 DEF Marked

LEMMA ShmlogParts ==
  ASSUME ShmlogInv
  PROVE  /\ TypeOK /\ RdType /\ LockOK /\ CycleOK /\ WritersOK /\ ReaderOK
         /\ mem[1] # WRAPMARKER
  BY DEF ShmlogInv

LEMMA RdIs ==
  ASSUME RdType
  PROVE  /\ rd.st \in {"closed", "open", "run", "eval", "wild"} /\ rd.ptr \in Addr
         /\ rd.ptr \in Nat /\ rd.ptr >= 1 /\ rd.d \in BOOLEAN /\ rd.last \in 0..MaxSeq
<1>1. rd.st \in {"closed", "open", "run", "eval", "wild"} /\ rd.ptr \in Addr /\ rd.d \in BOOLEAN
      /\ rd.last \in 0..MaxSeq
  BY DEF RdType
<1> QED
  BY <1>1, Lengths

\* A chain that ends at the front is empty.
LEMMA ChainAtFront ==
  ASSUME NEW q, NEW p, Chain(q, p, 1)
  PROVE  q = <<>> /\ p = 1
<1>1. p \in Addr /\ p \in Nat /\ p >= 1 /\ p <= 1 /\ (q # <<>> => p < 1)
  BY ChainIs, Lengths
<1> QED
  BY <1>1

\* Where the records of this turn end there is a marker, in nobody's room.
LEMMA EndMarked ==
  ASSUME ShmlogInv, ~spoilt
  PROVE  mem[CycleEnd] = ENDMARKER /\ Unclaimed(Claims, CycleEnd) /\ CycleEnd \in Addr
<1>1. WritersOK /\ TypeOK
  BY ShmlogParts
<1>2. CASE cycle = <<>>
  BY <1>1, <1>2, Lengths DEF WritersOK, CycleEnd
<1>3. CASE cycle # <<>>
  BY <1>1, <1>3 DEF WritersOK, CycleEnd, TypeOK
<1> QED
  BY <1>2, <1>3

\* The front has a marker while the reader waits there for a new turn.
LEMMA StaleMarked ==
  ASSUME ShmlogInv, ~spoilt, Stale
  PROVE  mem[1] = ENDMARKER /\ mem[rd.ptr] = ENDMARKER
<1>1. WritersOK
  BY ShmlogParts
<1> QED
  BY <1>1 DEF WritersOK, Stale

\* The first record of a list that is not empty comes first in a longer one.
LEMMA FirstOfJoin ==
  ASSUME NEW S, NEW q \in Seq(S), NEW s \in Seq(S), q # <<>>
  PROVE  q \o s # <<>> /\ (q \o s)[1] = q[1] /\ Tail(q \o s) = Tail(q) \o s
<1>1. Len(q) \in Nat /\ Len(q) > 0
  BY EmptySeq
<1>2. /\ q \o s \in Seq(S) /\ Len(q \o s) = Len(q) + Len(s) /\ Len(s) \in Nat
      /\ \A i \in 1..(Len(q) + Len(s)) : (q \o s)[i] = IF i <= Len(q) THEN q[i] ELSE s[i - Len(q)]
  BY ConcatProperties
<1>3. q \o s # <<>> /\ (q \o s)[1] = q[1]
  BY <1>1, <1>2, EmptySeq
<1> DEFINE a == Tail(q \o s)
           t == Tail(q)
           b == t \o s
<1>4. a \in Seq(S) /\ Len(a) = Len(q) + Len(s) - 1 /\ \A i \in 1..Len(a) : a[i] = (q \o s)[i + 1]
  BY <1>1, <1>2, <1>3
<1>5. t \in Seq(S) /\ Len(t) = Len(q) - 1 /\ \A i \in 1..Len(t) : t[i] = q[i + 1]
  BY <1>1
<1>6. /\ b \in Seq(S) /\ Len(b) = Len(t) + Len(s)
      /\ \A i \in 1..Len(b) : b[i] = IF i <= Len(t) THEN t[i] ELSE s[i - Len(t)]
  BY <1>5, ConcatProperties
<1> HIDE DEF a, b, t
<1>7. Len(a) = Len(b)
  BY <1>1, <1>2, <1>4, <1>5, <1>6
<1>8. ASSUME NEW i \in 1..Len(a) PROVE a[i] = b[i]
  <2>1. i + 1 \in 1..(Len(q) + Len(s)) /\ a[i] = (q \o s)[i + 1] /\ i \in 1..Len(b)
    BY <1>1, <1>2, <1>4, <1>7
  <2>2. CASE i <= Len(t)
    <3>1. i + 1 <= Len(q) /\ i \in 1..Len(t)
      BY <1>1, <1>5, <2>2
    <3> QED
      BY <1>2, <1>5, <1>6, <2>1, <2>2, <3>1
  <2>3. CASE ~(i <= Len(t))
    <3>1. ~(i + 1 <= Len(q)) /\ i + 1 - Len(q) = i - Len(t)
      BY <1>1, <1>5, <2>3
    <3> QED
      BY <1>2, <1>6, <2>1, <2>3, <3>1
  <2> QED
    BY <2>2, <2>3
<1>9. a = b
  BY <1>4, <1>6, <1>7, <1>8, SeqEqual
<1> QED
  BY <1>3, <1>9 DEF a, b, t

\* What a reader finds where it stands: a marker, or the header of the next
\* record, which is complete.
LEMMA Seen ==
  ASSUME ShmlogInv, Following, mem[rd.ptr] # ENDMARKER
  PROVE  \/ mem[rd.ptr] = WRAPMARKER /\ rold
         \/ todo # <<>> /\ todo[1].pos = rd.ptr /\ WholeIn(mem, todo[1]) /\ todo[1] \in Record
<1>1. ~spoilt /\ (Fresh \/ Stale \/ Old) /\ Marked(mem, Claims)
  <2>1. ReaderOK /\ TypeOK /\ LockOK /\ WritersOK
    BY ShmlogParts
  <2>2. ~spoilt /\ (Fresh \/ Stale \/ Old)
    BY <2>1 DEF ReaderOK
  <2> QED
    BY <2>1, <2>2, ClaimsMarked
<1>2. CASE Fresh
  <2>1. Chain(todo, rd.ptr, CycleEnd) /\ Sound(mem, Claims, todo)
    BY <1>2 DEF Fresh
  <2>2. todo # <<>>
    <3> SUFFICES ASSUME todo = <<>> PROVE FALSE
      OBVIOUS
    <3>1. rd.ptr = CycleEnd
      BY <2>1 DEF Chain
    <3> QED
      BY <1>1, <3>1, EndMarked
  <2>3. todo \in Seq(Record) /\ todo[1].pos = rd.ptr /\ todo[1] \in Record
    BY <2>1, <2>2, ChainIs
  <2>4. WholeIn(mem, todo[1])
    BY <1>1, <2>1, <2>2, <2>3, SoundFirst
  <2> QED
    BY <2>2, <2>3, <2>4
<1>3. CASE Stale
  BY <1>1, <1>3, StaleMarked
<1>4. CASE Old
  <2>1. PICK old \in Seq(Record), e \in Addr :
          Chain(old, rd.ptr, e) /\ Sound(mem, Claims, old) /\ todo = old \o cycle /\ OldEnd(e)
    BY <1>4 DEF Old
  <2>2. CASE old = <<>>
    <3>1. rd.ptr = e
      BY <2>1, <2>2 DEF Chain
    <3> QED
      BY <1>4, <2>1, <3>1 DEF OldEnd, Old
  <2>3. CASE old # <<>>
    <3>1. old[1].pos = rd.ptr /\ old[1] \in Record
      BY <2>1, <2>3, ChainIs
    <3>2. WholeIn(mem, old[1])
      BY <1>1, <2>1, <2>3, <3>1, SoundFirst
    <3>3. cycle \in Seq(Record)
      BY ShmlogParts DEF CycleOK, Chain
    <3>4. todo # <<>> /\ todo[1] = old[1]
      BY <2>1, <2>3, <3>3, FirstOfJoin
    <3> QED
      BY <3>1, <3>2, <3>4
  <2> QED
    BY <2>2, <2>3
<1> QED
  BY <1>1, <1>2, <1>3, <1>4

-----------------------------------------------------------------------------
(* The log: steps of the reader                                            *)

\* The part of the invariant that is not about the reader.
LogInv ==
  /\ TypeOK /\ LockOK /\ CycleOK /\ WritersOK /\ mem[1] # WRAPMARKER

LEMMA SameLog ==
  ASSUME LogInv, UNCHANGED <<mem, seq, vsl_ptr, vsl_mtx, pc, job, at, wlb, alive, crashes, cycle, spoilt>>,
         rd'.st \in {"closed", "open", "run", "eval", "wild"}, rd'.ptr \in Addr,
         rd'.last \in 0..MaxSeq, rold' \in BOOLEAN
  PROVE  LogInv' /\ Claims' = Claims /\ CycleEnd' = CycleEnd /\ Wrapping' = Wrapping
<1>1. Live' = Live
  BY DEF Live
<1>2. Claims' = Claims
  BY <1>1 DEF Claims
<1>3. Wrapping' = Wrapping /\ CycleEnd' = CycleEnd
  BY DEF Wrapping, CycleEnd
<1>4. TypeOK'
  BY DEF LogInv, TypeOK
<1>5. LockOK'
  BY DEF LogInv, LockOK
<1>6. CycleOK'
  BY <1>3 DEF LogInv, CycleOK
<1>7. WritersOK'
  BY <1>1, <1>2 DEF LogInv, WritersOK
<1> QED
  BY <1>2, <1>3, <1>4, <1>5, <1>6, <1>7 DEF LogInv

\* There is no reader, or it is lost.
LEMMA NoReader ==
  ASSUME rd' = [Closed EXCEPT !.st = rd'.st], rd'.st \in {"closed", "wild"},
         ~rold', spoilt' => rd'.st = "closed"
  PROVE  RdType' /\ ReaderOK' /\ rd'.ptr \in Addr /\ rd'.last \in 0..MaxSeq
<1>1. /\ rd' = [st |-> rd'.st, ptr |-> 1, last |-> 0, t |-> JUNK, d |-> FALSE]
      /\ rd'.ptr = 1 /\ rd'.last = 0 /\ rd'.t = JUNK /\ rd'.d = FALSE
  BY DEF Closed
<1>2. MaxSeq \in Nat /\ 1 \in Addr
  BY Lengths, LogAssumption
<1>3. RdType' /\ rd'.ptr \in Addr /\ rd'.last \in 0..MaxSeq
  <2>1. rd'.ptr \in Addr /\ rd'.last \in 0..MaxSeq
    BY <1>1, <1>2
  <2>2. PICK st \in {"closed", "wild"} :
          rd' = [st |-> st, ptr |-> 1, last |-> 0, t |-> JUNK, d |-> FALSE]
    BY <1>1
  <2>3. RdType'
    BY <1>2, <2>2 DEF RdType
  <2> QED
    BY <2>1, <2>3
<1>4. ~Following'
  BY DEF Following
<1>5. ~IsHeader(rd'.t)
  BY <1>1 DEF IsHeader, JUNK
<1>6. ReaderOK'
  BY <1>1, <1>4, <1>5 DEF ReaderOK
<1> QED
  BY <1>3, <1>6

LEMMA CloseStep == ASSUME ShmlogInv, VSL_Close PROVE ShmlogInv'
<1>1. LogInv
  BY DEF ShmlogInv, LogInv
<1>2. /\ rd' = Closed /\ rold' = FALSE
      /\ UNCHANGED <<mem, seq, vsl_ptr, vsl_mtx, pc, job, at, wlb, alive, crashes, cycle, spoilt>>
  BY DEF VSL_Close, logVars, writerVars, childVars
<1>3. rd' = [Closed EXCEPT !.st = rd'.st] /\ rd'.st = "closed"
  BY <1>2 DEF Closed
<1>4. RdType' /\ ReaderOK' /\ rd'.ptr \in Addr /\ rd'.last \in 0..MaxSeq
  BY <1>2, <1>3, NoReader
<1>5. LogInv'
  BY <1>1, <1>2, <1>3, <1>4, SameLog
<1> QED
  BY <1>4, <1>5 DEF ShmlogInv, LogInv

\* The reader begins at the front of this turn.
LEMMA AtFront ==
  ASSUME LogInv, ~spoilt, Claims' = Claims, CycleEnd' = CycleEnd, mem' = mem,
         spoilt' = spoilt, rd'.ptr = 1, todo' = cycle, ~rold'
  PROVE  Fresh'
<1>1. Chain(cycle, 1, CycleEnd) /\ Sound(mem, Claims, cycle)
  BY DEF LogInv, CycleOK, WritersOK
<1> QED
  BY <1>1 DEF Fresh

LEMMA OpenStep == ASSUME ShmlogInv, VSL_Open PROVE ShmlogInv'
<1>1. LogInv /\ RdType /\ ReaderOK
  BY DEF ShmlogInv, LogInv
<1>2. /\ rd.st = "closed" /\ ~spoilt /\ rold' = FALSE /\ todo' = cycle
      /\ UNCHANGED <<mem, seq, vsl_ptr, vsl_mtx, pc, job, at, wlb, alive, crashes, cycle, spoilt>>
      /\ \E d_opt \in BOOLEAN :
           rd' = [rd EXCEPT !.st = IF d_opt THEN "run" ELSE "open",
                            !.ptr = 1, !.last = seq, !.d = d_opt]
  BY DEF VSL_Open, logVars, writerVars, childVars
<1>3. PICK d_opt \in BOOLEAN :
           rd' = [rd EXCEPT !.st = IF d_opt THEN "run" ELSE "open",
                            !.ptr = 1, !.last = seq, !.d = d_opt]
  BY <1>2
<1>4. /\ rd' = [st |-> IF d_opt THEN "run" ELSE "open", ptr |-> 1, last |-> seq, t |-> rd.t, d |-> d_opt]
  BY <1>1, <1>3 DEF RdType
<1>5. /\ rd'.st = (IF d_opt THEN "run" ELSE "open") /\ rd'.ptr = 1 /\ rd'.last = seq /\ rd'.t = rd.t
      /\ rd'.d = d_opt
  BY <1>4
<1>6. ~IsHeader(rd.t)
  BY <1>1, <1>2 DEF ReaderOK, Following
<1>7. seq \in 0..MaxSeq /\ 1 \in Addr
  BY <1>1, Lengths, LogAssumption DEF LogInv, TypeOK
<1>8. RdType'
  BY <1>1, <1>4, <1>7 DEF RdType
<1>9. LogInv' /\ Claims' = Claims /\ CycleEnd' = CycleEnd
  BY <1>1, <1>2, <1>5, <1>7, SameLog
<1>10. Fresh'
  BY <1>1, <1>2, <1>5, <1>9, AtFront
<1>11. HandOK'
  BY <1>2, <1>5, <1>6 DEF HandOK
<1>12. ReaderOK'
  BY <1>2, <1>5, <1>10, <1>11 DEF ReaderOK, Following
<1> QED
  BY <1>8, <1>9, <1>12 DEF ShmlogInv, LogInv

LEMMA LoadStep == ASSUME ShmlogInv, Load PROVE ShmlogInv'
<1>1. LogInv /\ RdType /\ ReaderOK
  BY DEF ShmlogInv, LogInv
<1>2. /\ rd.st = "run" /\ rd' = [rd EXCEPT !.st = "eval", !.t = mem[rd.ptr]]
      /\ UNCHANGED <<mem, seq, vsl_ptr, vsl_mtx, pc, job, at, wlb, alive, crashes, cycle, spoilt>>
      /\ UNCHANGED <<todo, rold>>
  BY DEF Load, logVars, writerVars, childVars, ghostVars
<1>3. /\ rd' = [st |-> "eval", ptr |-> rd.ptr, last |-> rd.last, t |-> mem[rd.ptr], d |-> rd.d]
      /\ rd'.st = "eval" /\ rd'.ptr = rd.ptr /\ rd'.last = rd.last /\ rd'.t = mem[rd.ptr]
      /\ rd'.d = rd.d
  BY <1>1, <1>2 DEF RdType
<1>4. rd.ptr \in Addr /\ rd.last \in 0..MaxSeq /\ rold \in BOOLEAN
      /\ mem[rd.ptr] \in {ENDMARKER, WRAPMARKER, BODY, JUNK} \cup Lens
  BY <1>1, RdIs DEF LogInv, TypeOK
<1>5. RdType'
  BY <1>1, <1>3, <1>4 DEF RdType
<1>6. LogInv' /\ Claims' = Claims /\ CycleEnd' = CycleEnd /\ Wrapping' = Wrapping
  BY <1>1, <1>2, <1>3, <1>4, SameLog
<1>7. Following /\ ~spoilt /\ (Fresh \/ Stale \/ Old) /\ HandOK
  BY <1>1, <1>2 DEF ReaderOK, Following
<1>8. Fresh' \/ Stale' \/ Old'
  BY <1>2, <1>3, <1>6, <1>7 DEF Fresh, Stale, Old, OldEnd
<1>9. HandOK'
  <2>1. IsHeader(rd'.t) =>
          /\ todo' # <<>> /\ todo'[1].pos = rd'.ptr /\ todo'[1].len = rd'.t /\ WholeIn(mem', todo'[1])
    <3> SUFFICES ASSUME IsHeader(mem[rd.ptr])
                 PROVE  /\ todo # <<>> /\ todo[1].pos = rd.ptr /\ todo[1].len = mem[rd.ptr]
                        /\ WholeIn(mem, todo[1])
      BY <1>2, <1>3
    <3>1. mem[rd.ptr] # ENDMARKER /\ mem[rd.ptr] # WRAPMARKER
      BY DEF IsHeader, ENDMARKER, WRAPMARKER
    <3>2. todo # <<>> /\ todo[1].pos = rd.ptr /\ WholeIn(mem, todo[1]) /\ todo[1] \in Record
      BY <1>7, <3>1, Seen
    <3> QED
      BY <3>2, WholeHeader
  <2>2. rd'.t = WRAPMARKER => rold'
    <3> SUFFICES ASSUME mem[rd.ptr] = WRAPMARKER PROVE rold
      BY <1>2, <1>3
    <3>1. mem[rd.ptr] # ENDMARKER
      BY DEF ENDMARKER, WRAPMARKER
    <3> QED
      BY <1>7, <3>1, Seen, WholeHeader
  <2> QED
    BY <1>2, <1>3, <1>7, <2>1, <2>2 DEF HandOK
<1>10. ReaderOK'
  BY <1>2, <1>3, <1>7, <1>8, <1>9 DEF ReaderOK, Following
<1> QED
  BY <1>5, <1>6, <1>10 DEF ShmlogInv, LogInv

LEMMA SleepStep == ASSUME ShmlogInv, Sleep PROVE ShmlogInv'
<1>1. LogInv /\ RdType /\ ReaderOK
  BY DEF ShmlogInv, LogInv
<1>2. /\ rd.st = "eval" /\ rd' = [rd EXCEPT !.st = "run", !.t = JUNK]
      /\ UNCHANGED <<mem, seq, vsl_ptr, vsl_mtx, pc, job, at, wlb, alive, crashes, cycle, spoilt>>
      /\ UNCHANGED <<todo, rold>>
  BY DEF Sleep, logVars, writerVars, childVars, ghostVars
<1>3. /\ rd' = [st |-> "run", ptr |-> rd.ptr, last |-> rd.last, t |-> JUNK, d |-> rd.d]
      /\ rd'.st = "run" /\ rd'.ptr = rd.ptr /\ rd'.last = rd.last /\ rd'.t = JUNK
      /\ rd'.d = rd.d
  BY <1>1, <1>2 DEF RdType
<1>4. rd.ptr \in Addr /\ rd.last \in 0..MaxSeq /\ rold \in BOOLEAN
  BY <1>1, RdIs DEF LogInv, TypeOK
<1>5. RdType'
  BY <1>1, <1>3, <1>4 DEF RdType
<1>6. LogInv' /\ Claims' = Claims /\ CycleEnd' = CycleEnd /\ Wrapping' = Wrapping
  BY <1>1, <1>2, <1>3, <1>4, SameLog
<1>7. Following /\ ~spoilt /\ (Fresh \/ Stale \/ Old) /\ HandOK
  BY <1>1, <1>2 DEF ReaderOK, Following
<1>8. Fresh' \/ Stale' \/ Old'
  BY <1>2, <1>3, <1>6, <1>7 DEF Fresh, Stale, Old, OldEnd
<1>9. HandOK'
  BY <1>2, <1>3, <1>7 DEF HandOK, IsHeader, JUNK, WRAPMARKER
<1>10. ReaderOK'
  BY <1>2, <1>3, <1>7, <1>8, <1>9 DEF ReaderOK, Following
<1> QED
  BY <1>5, <1>6, <1>10 DEF ShmlogInv, LogInv

LEMMA FrontStep == ASSUME ShmlogInv, rd.st = "eval", ToFront PROVE ShmlogInv'
<1>1. LogInv /\ RdType /\ ReaderOK
  BY DEF ShmlogInv, LogInv
<1>2. /\ rd' = [rd EXCEPT !.st = "run", !.ptr = 1, !.t = JUNK]
      /\ UNCHANGED <<mem, seq, vsl_ptr, vsl_mtx, pc, job, at, wlb, alive, crashes, cycle, spoilt>>
      /\ todo' = cycle /\ rold' = FALSE
  BY DEF ToFront, logVars, writerVars, childVars
<1>3. /\ rd' = [st |-> "run", ptr |-> 1, last |-> rd.last, t |-> JUNK, d |-> rd.d]
      /\ rd'.st = "run" /\ rd'.ptr = 1 /\ rd'.last = rd.last /\ rd'.t = JUNK
      /\ rd'.d = rd.d
  BY <1>1, <1>2 DEF RdType
<1>4. 1 \in Addr /\ rd.last \in 0..MaxSeq
  BY <1>1, RdIs, Lengths
<1>5. RdType'
  BY <1>1, <1>3, <1>4 DEF RdType
<1>6. LogInv' /\ Claims' = Claims /\ CycleEnd' = CycleEnd
  BY <1>1, <1>2, <1>3, <1>4, SameLog
<1>7. ~spoilt
  BY <1>1 DEF ReaderOK, Following
<1>8. Fresh'
  BY <1>1, <1>2, <1>3, <1>6, <1>7, AtFront
<1>9. HandOK'
  BY <1>2, <1>3 DEF HandOK, IsHeader, JUNK, WRAPMARKER
<1>10. ReaderOK'
  BY <1>2, <1>3, <1>7, <1>8, <1>9 DEF ReaderOK, Following
<1> QED
  BY <1>5, <1>6, <1>10 DEF ShmlogInv, LogInv

\* The reader goes past a complete record.
LEMMA Advance ==
  ASSUME ShmlogInv, Following, todo # <<>>, todo[1].pos = rd.ptr,
         WholeIn(mem, todo[1]), mem[rd.ptr] # ENDMARKER, rd'.ptr = VSL_NEXT(rd.ptr), todo' = Tail(todo), rold' = rold,
         UNCHANGED <<mem, vsl_ptr, pc, alive, cycle>>, Claims' = Claims, CycleEnd' = CycleEnd,
         Wrapping' = Wrapping
  PROVE  (Fresh' \/ Old') /\ rd'.ptr \in Addr
<1>1. ~spoilt /\ (Fresh \/ Stale \/ Old) /\ Marked(mem, Claims)
  <2>1. ReaderOK /\ TypeOK /\ LockOK /\ WritersOK
    BY ShmlogParts
  <2>2. ~spoilt /\ (Fresh \/ Stale \/ Old)
    BY <2>1 DEF ReaderOK
  <2> QED
    BY <2>1, <2>2, ClaimsMarked
<1>2. cycle \in Seq(Record)
  BY ShmlogParts DEF CycleOK, Chain
<1>3. ASSUME todo[1] \in Record
      PROVE  /\ rd'.ptr = Stop(todo[1])
             /\ mem[todo[1].pos] # ENDMARKER
  BY <1>3, WholeHeader DEF VSL_NEXT, Stop
<1>4. CASE Fresh
  <2>1. Chain(todo, rd.ptr, CycleEnd) /\ Sound(mem, Claims, todo) /\ ~rold
    BY <1>4 DEF Fresh
  <2>2. todo \in Seq(Record) /\ todo[1] \in Record
    BY <2>1, ChainIs
  <2>3. Chain(Tail(todo), rd'.ptr, CycleEnd)
    BY <1>3, <2>1, <2>2, ChainTail
  <2>4. Sound(mem, Claims, Tail(todo))
    BY <1>1, <1>3, <2>1, <2>2, SoundTail
  <2>5. rd'.ptr \in Addr
    BY <2>3 DEF Chain
  <2> QED
    BY <2>1, <2>3, <2>4, <2>5 DEF Fresh
<1>5. CASE Stale
  BY <1>1, <1>5, StaleMarked
<1>6. CASE Old
  <2>1. PICK old \in Seq(Record), e \in Addr :
          Chain(old, rd.ptr, e) /\ Sound(mem, Claims, old) /\ todo = old \o cycle /\ OldEnd(e)
    BY <1>6 DEF Old
  <2>2. rd.ptr > 1 /\ rold /\ \A w \in Writer : pc[w] # "serial"
    BY <1>6 DEF Old
  <2>3. old # <<>>
    <3> SUFFICES ASSUME old = <<>> PROVE FALSE
      OBVIOUS
    <3>1. todo = cycle
      BY <1>2, <2>1, ConcatEmptySeq
    <3>2. cycle[1].pos = 1
      BY <3>1, ShmlogParts DEF CycleOK, Chain
    <3> QED
      BY <2>2, <3>1, <3>2
  <2>4. todo[1] = old[1] /\ Tail(todo) = Tail(old) \o cycle
    BY <1>2, <2>1, <2>3, FirstOfJoin
  <2>5. todo[1] \in Record
    BY <2>1, <2>3, <2>4, ChainIs
  <2>6. Chain(Tail(old), rd'.ptr, e) /\ rd'.ptr > rd.ptr
    BY <1>3, <2>1, <2>3, <2>4, <2>5, ChainTail
  <2>7. Sound(mem, Claims, Tail(old))
    BY <1>1, <1>3, <2>1, <2>3, <2>4, <2>5, SoundTail
  <2>8. rd'.ptr \in Addr /\ Tail(old) \in Seq(Record)
    BY <2>6 DEF Chain
  <2>9. rd.ptr \in Nat /\ rd'.ptr \in Nat /\ vsl_ptr \in Nat
    BY <2>8, RdIs, ShmlogParts, Lengths DEF TypeOK
  <2>10. rd'.ptr > 1 /\ (vsl_ptr < rd.ptr => vsl_ptr < rd'.ptr)
    BY <2>2, <2>6, <2>9
  <2>11. OldEnd(e)'
    BY <2>1, <2>10 DEF OldEnd
  <2>12. Old'
    BY <2>1, <2>2, <2>4, <2>6, <2>7, <2>8, <2>10, <2>11 DEF Old, OldEnd
  <2> QED
    BY <2>8, <2>12
<1> QED
  BY <1>1, <1>4, <1>5, <1>6

LEMMA ReadStep == ASSUME ShmlogInv, Read PROVE ShmlogInv'
<1>1. LogInv /\ RdType /\ ReaderOK
  BY DEF ShmlogInv, LogInv
<1>2. /\ rd.st = "eval" /\ IsHeader(rd.t)
      /\ rd' = [rd EXCEPT !.st = "run", !.t = JUNK, !.last = IF rd.ptr = 1 THEN seq ELSE @,
                          !.ptr = VSL_NEXT(@)]
      /\ todo' = Tail(todo)
      /\ UNCHANGED <<mem, seq, vsl_ptr, vsl_mtx, pc, job, at, wlb, alive, crashes, cycle, spoilt>>
      /\ rold' = rold
  BY DEF Read, logVars, writerVars, childVars
<1>3. rd' = [st |-> "run", ptr |-> VSL_NEXT(rd.ptr), last |-> IF rd.ptr = 1 THEN seq ELSE rd.last,
             t |-> JUNK, d |-> rd.d]
  BY <1>1, <1>2 DEF RdType
<1>4. /\ rd'.st = "run" /\ rd'.ptr = VSL_NEXT(rd.ptr) /\ rd'.t = JUNK /\ rd'.d = rd.d
      /\ rd'.last = IF rd.ptr = 1 THEN seq ELSE rd.last
  BY <1>3
<1>5. Following /\ ~spoilt /\ HandOK
  BY <1>1, <1>2 DEF ReaderOK, Following
<1>6. todo # <<>> /\ todo[1].pos = rd.ptr /\ WholeIn(mem, todo[1]) /\ mem[rd.ptr] # ENDMARKER
  BY <1>2, <1>5 DEF HandOK, WholeIn, IsHeader, ENDMARKER
<1>7. Claims' = Claims /\ CycleEnd' = CycleEnd /\ Wrapping' = Wrapping
  BY <1>2 DEF Claims, Live, CycleEnd, Wrapping
<1>8. (Fresh' \/ Old') /\ rd'.ptr \in Addr
  BY <1>2, <1>4, <1>5, <1>6, <1>7, Advance
<1>9. rd'.last \in 0..MaxSeq /\ rold \in BOOLEAN
  BY <1>1, <1>4, RdIs, LogAssumption DEF LogInv, TypeOK
<1>10. RdType'
  BY <1>1, <1>3, <1>4, <1>8, <1>9 DEF RdType
<1>11. LogInv'
  BY <1>1, <1>2, <1>4, <1>8, <1>9, SameLog
<1>12. HandOK'
  BY <1>2, <1>4, <1>5 DEF HandOK, IsHeader, JUNK, WRAPMARKER
<1>13. ReaderOK'
  BY <1>2, <1>4, <1>5, <1>8, <1>12 DEF ReaderOK, Following
<1> QED
  BY <1>10, <1>11, <1>13 DEF ShmlogInv, LogInv

LEMMA SkipStep == ASSUME ShmlogInv, OpenSkip PROVE ShmlogInv'
<1>1. LogInv /\ RdType /\ ReaderOK
  BY DEF ShmlogInv, LogInv
<1>2. /\ rd.st = "open" /\ rold' = (rold /\ rd'.st # "wild")
      /\ UNCHANGED <<mem, seq, vsl_ptr, vsl_mtx, pc, job, at, wlb, alive, crashes, cycle, spoilt>>
  BY DEF OpenSkip, logVars, writerVars, childVars
<1>3. Following /\ ~spoilt /\ (Fresh \/ Stale \/ Old) /\ HandOK /\ rold \in BOOLEAN
  BY <1>1, <1>2 DEF ReaderOK, Following, LogInv, TypeOK
<1>4. Claims' = Claims /\ CycleEnd' = CycleEnd /\ Wrapping' = Wrapping
  BY <1>2 DEF Claims, Live, CycleEnd, Wrapping
<1>5. WRAPMARKER # ENDMARKER
  BY DEF WRAPMARKER, ENDMARKER
<1>6. ~rd.d /\ ~IsHeader(rd.t)
  BY <1>2, <1>3 DEF HandOK
<1>7. CASE mem[rd.ptr] = ENDMARKER
  <2>1. rd' = [rd EXCEPT !.st = "run"] /\ todo' = todo
    BY <1>5, <1>7 DEF OpenSkip
  <2>2. rd' = [st |-> "run", ptr |-> rd.ptr, last |-> rd.last, t |-> rd.t, d |-> rd.d]
    BY <1>1, <2>1 DEF RdType
  <2>3. /\ rd'.st = "run" /\ rd'.ptr = rd.ptr /\ rd'.last = rd.last /\ rd'.t = rd.t /\ rd'.d = rd.d
    BY <2>2
  <2>4. rd.ptr \in Addr /\ rd.last \in 0..MaxSeq /\ rold' = rold
    BY <1>1, <1>2, <1>3, <2>3, RdIs
  <2>5. RdType'
    BY <1>1, <2>2 DEF RdType
  <2>6. LogInv'
    BY <1>1, <1>2, <1>3, <2>3, <2>4, SameLog
  <2>7. Fresh' \/ Stale' \/ Old'
    BY <1>2, <1>3, <1>4, <2>1, <2>3, <2>4 DEF Fresh, Stale, Old, OldEnd
  <2>8. HandOK'
    BY <1>3, <1>6, <2>3 DEF HandOK
  <2>9. ReaderOK'
    BY <1>2, <1>3, <2>3, <2>7, <2>8 DEF ReaderOK, Following
  <2> QED
    BY <2>5, <2>6, <2>9 DEF ShmlogInv, LogInv
<1>8. CASE mem[rd.ptr] = WRAPMARKER
  <2>1. rd' = [Closed EXCEPT !.st = "wild"]
    BY <1>5, <1>8 DEF OpenSkip
  <2>2. rd'.st = "wild" /\ rd' = [Closed EXCEPT !.st = rd'.st] /\ rold' = FALSE
    BY <1>2, <2>1 DEF Closed
  <2>3. RdType' /\ ReaderOK' /\ rd'.ptr \in Addr /\ rd'.last \in 0..MaxSeq
    BY <1>2, <1>3, <2>2, NoReader
  <2>4. LogInv'
    BY <1>1, <1>2, <2>2, <2>3, SameLog
  <2> QED
    BY <2>3, <2>4 DEF ShmlogInv, LogInv
<1>9. CASE mem[rd.ptr] # ENDMARKER /\ mem[rd.ptr] # WRAPMARKER
  <2>1. rd' = [rd EXCEPT !.ptr = VSL_NEXT(rd.ptr)] /\ todo' = Tail(todo)
    BY <1>9 DEF OpenSkip
  <2>2. rd' = [st |-> "open", ptr |-> VSL_NEXT(rd.ptr), last |-> rd.last, t |-> rd.t, d |-> rd.d]
    BY <1>1, <1>2, <2>1 DEF RdType
  <2>3. /\ rd'.st = "open" /\ rd'.ptr = VSL_NEXT(rd.ptr) /\ rd'.last = rd.last /\ rd'.t = rd.t
        /\ rd'.d = rd.d
    BY <2>2
  <2>4. rd.last \in 0..MaxSeq /\ rold' = rold
    BY <1>1, <1>2, <1>3, <2>3, RdIs
  <2>5. todo # <<>> /\ todo[1].pos = rd.ptr /\ WholeIn(mem, todo[1])
    BY <1>3, <1>9, Seen
  <2>6. (Fresh' \/ Old') /\ rd'.ptr \in Addr
    BY <1>2, <1>3, <1>4, <1>9, <2>1, <2>3, <2>4, <2>5, Advance
  <2>7. RdType'
    BY <1>1, <2>2, <2>3, <2>6 DEF RdType
  <2>8. LogInv'
    BY <1>1, <1>2, <1>3, <2>3, <2>4, <2>6, SameLog
  <2>9. HandOK'
    BY <1>3, <1>6, <2>3 DEF HandOK
  <2>10. ReaderOK'
    BY <1>2, <1>3, <2>3, <2>6, <2>9 DEF ReaderOK, Following
  <2> QED
    BY <2>7, <2>8, <2>10 DEF ShmlogInv, LogInv
<1> QED
  BY <1>7, <1>8, <1>9

-----------------------------------------------------------------------------
(* The log: steps of the writers and of the child                          *)

\* The reader when neither the words nor the rooms change.
LEMMA SameReader ==
  ASSUME RdType, ReaderOK, UNCHANGED <<mem, seq, vsl_ptr, alive, rd, cycle, todo, rold, spoilt>>,
         Claims' = Claims, Wrapping' = Wrapping,
         \A w \in Writer : pc'[w] = "serial" => pc[w] = "serial"
  PROVE  RdType' /\ ReaderOK'
<1>1. RdType'
  BY DEF RdType
<1>2. CycleEnd' = CycleEnd
  BY DEF CycleEnd
<1>3. Following' = Following
  BY DEF Following
<1>4. Fresh \/ Stale \/ Old => Fresh' \/ Stale' \/ Old'
  BY <1>2 DEF Fresh, Stale, Old, OldEnd
<1>5. HandOK => HandOK'
  BY DEF HandOK
<1> QED
  BY <1>1, <1>3, <1>4, <1>5 DEF ReaderOK

\* vsl_get begins: the mutex is taken for the records recs.
LEMMA GetStep ==
  ASSUME ShmlogInv, NEW w \in Writer, Calls(w), NEW recs \in Seq(Lens),
         recs # <<>>, Room(recs) < WlbWords, vsl_get(w, recs),
         wlb' \in [Writer -> Seq(Lens)], \A v \in Writer : Room(wlb'[v]) < WlbWords,
         UNCHANGED <<mem, seq, vsl_ptr, at, alive, crashes, rd, cycle, todo, rold, spoilt>>
  PROVE  ShmlogInv'
<1> DEFINE next == IF vsl_ptr + Room(recs) > LogWords THEN "front" ELSE "take"
<1>1. LogInv /\ RdType /\ ReaderOK /\ TypeOK /\ LockOK /\ CycleOK /\ WritersOK
  BY DEF ShmlogInv, LogInv
<1>2. /\ alive = "yes" /\ pc[w] = "idle" /\ vsl_mtx = NoWriter /\ vsl_mtx' = w
      /\ job' = [job EXCEPT ![w] = recs] /\ pc' = [pc EXCEPT ![w] = next]
  BY DEF Calls, vsl_get
<1>3. NoWriter \notin Writer
  BY LogAssumption DEF NoWriter
<1>4. \A v \in Writer : pc[v] \notin {"front", "serial", "mark", "take"}
  BY <1>1, <1>2, <1>3 DEF LockOK
<1>5. /\ \A v \in Writer : /\ pc'[v] = IF v = w THEN next ELSE pc[v]
                           /\ job'[v] = IF v = w THEN recs ELSE job[v]
      /\ next \in {"front", "take"}
  BY <1>1, <1>2 DEF TypeOK
<1>6. Room(recs) \in Nat /\ vsl_ptr \in Nat /\ LogWords \in Nat /\ WlbWords \in Nat
      /\ WlbWords <= LogWords
  BY <1>1, Lengths, RoomOf DEF TypeOK
<1>7. /\ next = "front" => vsl_ptr # 1
      /\ next = "take" => vsl_ptr + Room(recs) <= LogWords
  BY <1>6
<1> HIDE DEF next
<1>8. Live' = Live
  BY <1>2, <1>5 DEF Live
<1>9. Claims' = Claims
  <2>1. \A v \in Live : at'[v] = at[v] /\ job'[v] = job[v]
    BY <1>2, <1>5 DEF Live
  <2> QED
    BY <1>8, <2>1 DEF Claims
<1>10. Wrapping' = Wrapping
  BY <1>4, <1>5 DEF Wrapping
<1>11. TypeOK'
  BY <1>1, <1>2, <1>5 DEF TypeOK
<1>12. LockOK'
  <2>1. /\ vsl_mtx' # NoWriter => vsl_mtx' \in Writer
        /\ \A v \in Writer : pc'[v] \in {"front", "serial", "mark", "take"} <=> vsl_mtx' = v
    BY <1>2, <1>4, <1>5
  <2>2. ASSUME NEW v \in Writer
        PROVE  /\ pc'[v] # "idle" => job'[v] # <<>> /\ Room(job'[v]) < WlbWords
               /\ pc'[v] \in {"front", "serial", "mark"} => vsl_ptr' # 1
               /\ pc'[v] = "take" => vsl_ptr' + Room(job'[v]) <= LogWords
               /\ pc'[v] \in {"body", "header"} => at'[v] + Room(job'[v]) <= LogWords
    <3>1. CASE v = w
      BY <1>5, <1>7, <3>1
    <3>2. CASE v # w
      BY <1>1, <1>5, <3>2 DEF LockOK
    <3> QED
      BY <3>1, <3>2
  <2> QED
    BY <1>2, <2>1, <2>2 DEF LockOK
<1>13. CycleOK'
  BY <1>1, <1>10 DEF CycleOK, CycleEnd
<1>14. WritersOK'
  <2> SUFFICES ASSUME ~spoilt PROVE WritersOK'
    BY DEF WritersOK
  <2>1. \A v \in Live : Area(at'[v], job'[v]) = Area(at[v], job[v])
    BY <1>2, <1>5 DEF Live
  <2>2. \A v \in Writer : pc'[v] # "serial"
    BY <1>4, <1>5
  <2>3. \A v \in Writer : pc'[v] = "header" => pc[v] = "header" /\ job'[v] = job[v]
    BY <1>5
  <2> QED
    BY <1>1, <1>8, <1>9, <2>1, <2>2, <2>3 DEF WritersOK
<1>15. RdType' /\ ReaderOK'
  BY <1>1, <1>4, <1>5, <1>9, <1>10, SameReader
<1> QED
  BY <1>1, <1>11, <1>12, <1>13, <1>14, <1>15 DEF ShmlogInv, LogInv

\* The room of one record.
LEMMA OneRecord ==
  ASSUME NEW l \in Lens
  PROVE  /\ <<l>> \in Seq(Lens) /\ <<l>> # <<>> /\ Room(<<l>>) = 2 + l /\ Room(<<l>>) < WlbWords
         /\ <<>> \in Seq(Lens) /\ Room(<<>>) = 0 /\ 0 < WlbWords
<1>1. l \in Nat /\ <<>> \in Seq(Nat) /\ 2 + l < WlbWords /\ WlbWords \in Nat
  BY Lengths, LogAssumption
<1>2. Room(<<>>) = 0 /\ Room(Append(<<>>, l)) = Room(<<>>) + 2 + l
  BY <1>1, RoomOf
<1>3. Append(<<>>, l) = <<l>>
  OBVIOUS
<1>4. Room(<<l>>) = 2 + l
  BY <1>1, <1>2, <1>3
<1> QED
  BY <1>1, <1>2, <1>4

LEMMA VslrStep ==
  ASSUME ShmlogInv, NEW w \in Writer, VSLR(w) PROVE ShmlogInv'
<1>1. PICK l \in Lens : vsl_get(w, <<l>>)
  BY DEF VSLR
<1>2. /\ Calls(w)
      /\ UNCHANGED <<mem, seq, vsl_ptr, at, alive, crashes, rd, cycle, todo, rold, spoilt>>
      /\ wlb' = wlb
  BY DEF VSLR, logVars, childVars, ghostVars
<1>3. wlb \in [Writer -> Seq(Lens)] /\ \A v \in Writer : Room(wlb[v]) < WlbWords
  BY ShmlogParts DEF TypeOK, LockOK
<1>4. <<l>> \in Seq(Lens) /\ <<l>> # <<>> /\ Room(<<l>>) < WlbWords
  BY OneRecord
<1> QED
  BY <1>1, <1>2, <1>3, <1>4, GetStep

LEMMA FlushStep ==
  ASSUME ShmlogInv, NEW w \in Writer, WSL_Flush(w) PROVE ShmlogInv'
<1>1. /\ Calls(w) /\ wlb[w] # <<>> /\ vsl_get(w, wlb[w])
      /\ UNCHANGED <<mem, seq, vsl_ptr, at, alive, crashes, rd, cycle, todo, rold, spoilt>>
      /\ wlb' = [wlb EXCEPT ![w] = <<>>]
  BY DEF WSL_Flush, logVars, childVars, ghostVars
<1>2. wlb \in [Writer -> Seq(Lens)] /\ \A v \in Writer : Room(wlb[v]) < WlbWords
  BY ShmlogParts DEF TypeOK, LockOK
<1>3. <<>> \in Seq(Lens) /\ Room(<<>>) < WlbWords
  <2>1. <<>> \in Seq(Nat) /\ <<>> \in Seq(Lens)
    OBVIOUS
  <2>2. Room(<<>>) = 0 /\ Room(wlb[w]) \in Nat /\ WlbWords \in Nat
    BY <1>2, <2>1, RoomOf, Lengths
  <2> QED
    BY <1>2, <2>1, <2>2
<1>4. wlb' \in [Writer -> Seq(Lens)] /\ \A v \in Writer : Room(wlb'[v]) < WlbWords
  BY <1>1, <1>2, <1>3
<1> QED
  BY <1>1, <1>2, <1>4, GetStep

LEMMA WslrStep ==
  ASSUME ShmlogInv, NEW w \in Writer, WSLR(w) PROVE ShmlogInv'
<1>1. PICK l \in Lens, need \in Lens :
        /\ need = l \/ \A k \in Lens : k <= need
        /\ IF Room(wlb[w]) + 2 + need >= WlbWords
           THEN vsl_get(w, wlb[w]) /\ wlb' = [wlb EXCEPT ![w] = <<l>>]
           ELSE wlb' = [wlb EXCEPT ![w] = Append(@, l)] /\ UNCHANGED <<vsl_mtx, job, pc>>
  BY DEF WSLR
<1>2. /\ Calls(w)
      /\ UNCHANGED <<mem, seq, vsl_ptr, at, alive, crashes, rd, cycle, todo, rold, spoilt>>
  BY DEF WSLR, logVars, childVars, ghostVars
<1>3. wlb \in [Writer -> Seq(Lens)] /\ \A v \in Writer : Room(wlb[v]) < WlbWords
  BY ShmlogParts DEF TypeOK, LockOK
<1>4. /\ l \in Nat /\ need \in Nat /\ l <= need /\ WlbWords \in Nat /\ wlb[w] \in Seq(Nat)
      /\ 2 + need < WlbWords
  BY <1>1, <1>3, Lengths, LogAssumption
<1>5. /\ Room(wlb[w]) \in Nat /\ Room(Append(wlb[w], l)) = Room(wlb[w]) + 2 + l
      /\ wlb[w] = <<>> => Room(wlb[w]) = 0
  BY <1>4, RoomOf
<1>6. CASE Room(wlb[w]) + 2 + need >= WlbWords
  <2>1. wlb[w] # <<>>
    BY <1>4, <1>5, <1>6
  <2>2. <<l>> \in Seq(Lens) /\ Room(<<l>>) < WlbWords
    BY OneRecord
  <2>3. wlb' \in [Writer -> Seq(Lens)] /\ \A v \in Writer : Room(wlb'[v]) < WlbWords
    BY <1>1, <1>3, <1>6, <2>2
  <2> QED
    BY <1>1, <1>2, <1>3, <1>6, <2>1, <2>3, GetStep
<1>7. CASE ~(Room(wlb[w]) + 2 + need >= WlbWords)
  <2>1. Room(Append(wlb[w], l)) < WlbWords /\ Append(wlb[w], l) \in Seq(Lens)
    BY <1>3, <1>4, <1>5, <1>7
  <2>2. wlb' \in [Writer -> Seq(Lens)] /\ \A v \in Writer : Room(wlb'[v]) < WlbWords
    BY <1>1, <1>3, <1>7, <2>1
  <2>3. UNCHANGED <<vsl_mtx, job, pc>>
    BY <1>1, <1>7
  <2>4. LogInv /\ RdType /\ ReaderOK
    BY DEF ShmlogInv, LogInv
  <2>5. Live' = Live /\ Claims' = Claims /\ Wrapping' = Wrapping /\ CycleEnd' = CycleEnd
    BY <1>2, <2>3 DEF Claims, Live, Wrapping, CycleEnd
  <2>6. TypeOK'
    BY <1>2, <2>2, <2>3, <2>4 DEF LogInv, TypeOK
  <2>7. LockOK'
    BY <1>2, <2>2, <2>3, <2>4 DEF LogInv, LockOK
  <2>8. CycleOK' /\ WritersOK'
    BY <1>2, <2>3, <2>4, <2>5 DEF LogInv, CycleOK, WritersOK
  <2>9. RdType' /\ ReaderOK'
    BY <1>2, <2>3, <2>4, <2>5, SameReader
  <2> QED
    BY <1>2, <2>4, <2>6, <2>7, <2>8, <2>9 DEF ShmlogInv, LogInv
<1> QED
  BY <1>6, <1>7

\* The thread in vsl_get is alone there, and no other step of the child is
\* under way.
LEMMA Holder ==
  ASSUME ShmlogInv, NEW w \in Writer, pc[w] \in {"front", "serial", "mark", "take"}
  PROVE  /\ alive = "yes" /\ vsl_mtx = w /\ w \notin Live
         /\ \A v \in Writer : v # w => pc[v] \notin {"front", "serial", "mark", "take"}
         /\ job[w] # <<>> /\ Room(job[w]) < WlbWords /\ job[w] \in Seq(Lens)
         /\ Room(job[w]) \in Nat /\ vsl_ptr \in Addr /\ vsl_ptr \in Nat /\ vsl_ptr >= 1
<1>1. LockOK /\ TypeOK
  BY ShmlogParts
<1>2. vsl_mtx = w /\ w # NoWriter
  BY <1>1, LogAssumption DEF LockOK, NoWriter
<1>3. alive = "yes"
  BY <1>1, <1>2 DEF LockOK
<1>4. \A v \in Writer : v # w => pc[v] \notin {"front", "serial", "mark", "take"}
  BY <1>1, <1>2 DEF LockOK
<1>5. job[w] # <<>> /\ Room(job[w]) < WlbWords
  BY <1>1 DEF LockOK
<1>6. job[w] \in Seq(Lens) /\ vsl_ptr \in Addr
  BY <1>1 DEF TypeOK
<1>7. Room(job[w]) \in Nat /\ vsl_ptr \in Nat /\ vsl_ptr >= 1
  BY <1>6, Lengths, RoomOf
<1> QED
  BY <1>2, <1>3, <1>4, <1>5, <1>6, <1>7 DEF Live

\* After words were overwritten: there is no reader, or it goes on.
LEMMA OverwriteCases ==
  ASSUME ShmlogInv, NEW w, NEW S, NEW new, Overwrite(w, S, new)
  PROVE  /\ rd'.ptr \in Addr /\ rd'.last \in 0..MaxSeq /\ rold' \in BOOLEAN /\ spoilt' \in BOOLEAN
         /\ rd'.st \in {"closed", "open", "run", "eval", "wild"}
         /\ ~spoilt' => ~spoilt /\ ~LapsWriter(w, S)
         /\ \/ RdType' /\ ReaderOK'
            \/ /\ Following /\ ~LapsReader(S) /\ ~LapsWriter(w, S)
               /\ rd' = rd /\ todo' = todo \o new /\ rold' = rold /\ spoilt' = spoilt /\ ~spoilt
<1>1. RdType /\ ReaderOK /\ TypeOK
  BY ShmlogParts
<1>2. /\ spoilt' = (spoilt \/ LapsWriter(w, S))
      /\ rold' = (rold /\ ~(LapsReader(S) \/ LapsWriter(w, S)))
  BY DEF Overwrite
<1>3. rold' \in BOOLEAN /\ spoilt' \in BOOLEAN /\ (~spoilt' => ~spoilt /\ ~LapsWriter(w, S))
      /\ rold \in BOOLEAN /\ spoilt \in BOOLEAN
  BY <1>1, <1>2 DEF TypeOK
<1>4. CASE LapsReader(S) \/ LapsWriter(w, S)
  <2>1. rd' = Closed /\ ~rold'
    BY <1>2, <1>4 DEF Overwrite
  <2>2. rd' = [Closed EXCEPT !.st = rd'.st] /\ rd'.st = "closed"
    BY <2>1 DEF Closed
  <2>3. RdType' /\ ReaderOK' /\ rd'.ptr \in Addr /\ rd'.last \in 0..MaxSeq
    BY <2>1, <2>2, NoReader
  <2> QED
    BY <1>3, <2>2, <2>3
<1>5. CASE ~LapsReader(S) /\ ~LapsWriter(w, S)
  <2>1. /\ rd' = rd /\ rold' = rold /\ spoilt' = spoilt
        /\ todo' = IF ~Following THEN <<>> ELSE todo \o new
    BY <1>2, <1>3, <1>5 DEF Overwrite
  <2>2. rd.ptr \in Addr /\ rd.last \in 0..MaxSeq /\ rd.st \in {"closed", "open", "run", "eval", "wild"}
    BY <1>1, RdIs
  <2>3. CASE ~Following
    <3>1. RdType'
      BY <1>1, <2>1 DEF RdType
    <3>2. ReaderOK'
      BY <1>1, <2>1, <2>3 DEF ReaderOK, Following
    <3> QED
      BY <1>3, <2>1, <2>2, <3>1, <3>2
  <2>4. CASE Following
    <3>1. ~spoilt
      BY <1>1, <2>4 DEF ReaderOK
    <3> QED
      BY <1>3, <1>5, <2>1, <2>2, <2>4, <3>1
  <2> QED
    BY <2>3, <2>4
<1> QED
  BY <1>4, <1>5

\* No other thread's room has a word of S.
LEMMA NotLapped ==
  ASSUME ShmlogInv, NEW w, NEW S, ~LapsWriter(w, S)
  PROVE  \A v \in Live : v # w => Area(at[v], job[v]) \cap S = {}
  BY DEF LapsWriter, Live, Area

\* The thread wraps: there are records of this turn.
LEMMA WrapsRecords ==
  ASSUME ShmlogInv, NEW w \in Writer, pc[w] \in {"front", "serial"}
  PROVE  /\ cycle # <<>> /\ CycleEnd = vsl_ptr /\ Chain(cycle, 1, vsl_ptr) /\ cycle \in Seq(Record)
         /\ cycle[1].pos = 1 /\ vsl_ptr # 1
<1>1. LockOK /\ CycleOK
  BY ShmlogParts
<1>2. alive = "yes" /\ \A v \in Writer : v # w => pc[v] # "mark"
  BY Holder
<1>3. vsl_ptr # 1 /\ ~Wrapping
  BY <1>1, <1>2 DEF LockOK, Wrapping
<1>4. cycle # <<>>
  BY <1>1, <1>2, <1>3 DEF CycleOK
<1>5. Chain(cycle, 1, vsl_ptr) /\ CycleEnd = vsl_ptr
  BY <1>1, <1>4 DEF CycleOK, CycleEnd
<1> QED
  BY <1>3, <1>4, <1>5 DEF Chain

\* A step of vsl_get that changes what the thread does and nothing of the rooms.
LEMMA HolderMoves ==
  ASSUME ShmlogInv, NEW w \in Writer, pc[w] \in {"front", "serial", "mark"},
         NEW to \in {"serial", "mark", "take"}, pc' = [pc EXCEPT ![w] = to],
         UNCHANGED <<vsl_mtx, job, at, wlb, alive, crashes>>,
         (vsl_ptr' = 1 /\ to = "take") \/ (vsl_ptr' = vsl_ptr /\ to # "take")
  PROVE  /\ Live' = Live /\ Claims' = Claims /\ LockOK'
         /\ pc' \in [Writer -> {"idle", "front", "serial", "mark", "take", "body", "header"}]
         /\ \A v \in Writer : pc'[v] = IF v = w THEN to ELSE pc[v]
         /\ \A v \in Writer : pc'[v] = "serial" <=> v = w /\ to = "serial"
         /\ Wrapping' <=> to = "mark"
<1>1. LockOK /\ TypeOK
  BY ShmlogParts
<1>2. /\ alive = "yes" /\ vsl_mtx = w /\ w \notin Live
      /\ \A v \in Writer : v # w => pc[v] \notin {"front", "serial", "mark", "take"}
      /\ job[w] # <<>> /\ Room(job[w]) < WlbWords /\ Room(job[w]) \in Nat
  BY Holder
<1>3. /\ pc' \in [Writer -> {"idle", "front", "serial", "mark", "take", "body", "header"}]
      /\ \A v \in Writer : pc'[v] = IF v = w THEN to ELSE pc[v]
  BY <1>1 DEF TypeOK
<1>4. Live' = Live /\ Claims' = Claims
  <2>1. Live' = Live
    BY <1>2, <1>3 DEF Live
  <2> QED
    BY <2>1 DEF Claims
<1>5. \A v \in Writer : pc'[v] = "serial" <=> v = w /\ to = "serial"
  BY <1>2, <1>3
<1>6. Wrapping' <=> to = "mark"
  BY <1>2, <1>3 DEF Wrapping
<1>7. 1 + Room(job[w]) <= LogWords
  BY <1>2, Lengths
<1>8. LockOK'
  <2>1. /\ vsl_mtx' # NoWriter => vsl_mtx' \in Writer
        /\ \A v \in Writer : pc'[v] \in {"front", "serial", "mark", "take"} <=> vsl_mtx' = v
        /\ alive' = "yes"
    BY <1>2, <1>3
  <2>2. ASSUME NEW v \in Writer
        PROVE  /\ pc'[v] # "idle" => job'[v] # <<>> /\ Room(job'[v]) < WlbWords
               /\ Room(wlb'[v]) < WlbWords
               /\ pc'[v] \in {"front", "serial", "mark"} => vsl_ptr' # 1
               /\ pc'[v] = "take" => vsl_ptr' + Room(job'[v]) <= LogWords
               /\ pc'[v] \in {"body", "header"} => at'[v] + Room(job'[v]) <= LogWords
    <3>1. CASE v = w
      BY <1>1, <1>2, <1>3, <1>7, <3>1 DEF LockOK
    <3>2. CASE v # w
      BY <1>1, <1>2, <1>3, <3>2 DEF LockOK
    <3> QED
      BY <3>1, <3>2
  <2> QED
    BY <2>1, <2>2 DEF LockOK
<1> QED
  BY <1>3, <1>4, <1>5, <1>6, <1>8

LEMMA WrapFrontStep ==
  ASSUME ShmlogInv, NEW w \in Writer, WrapFront(w) PROVE ShmlogInv'
<1>1. LogInv /\ RdType /\ ReaderOK /\ TypeOK /\ LockOK /\ CycleOK /\ WritersOK
  BY DEF ShmlogInv, LogInv
<1>2. /\ pc[w] = "front" /\ mem' = [mem EXCEPT ![1] = ENDMARKER]
      /\ pc' = [pc EXCEPT ![w] = "serial"] /\ Overwrite(w, {1}, <<>>)
      /\ UNCHANGED <<seq, vsl_ptr, vsl_mtx, job, at, wlb, alive, crashes, cycle>>
  BY DEF WrapFront, childVars
<1>3. /\ Live' = Live /\ Claims' = Claims /\ LockOK'
      /\ pc' \in [Writer -> {"idle", "front", "serial", "mark", "take", "body", "header"}]
      /\ \A v \in Writer : pc'[v] = IF v = w THEN "serial" ELSE pc[v]
      /\ ~Wrapping'
  BY <1>2, HolderMoves
<1>4. /\ cycle # <<>> /\ CycleEnd = vsl_ptr /\ Chain(cycle, 1, vsl_ptr) /\ cycle \in Seq(Record)
      /\ cycle[1].pos = 1 /\ vsl_ptr # 1
  BY <1>2, WrapsRecords
<1>5. CycleEnd' = CycleEnd
  BY <1>2 DEF CycleEnd
<1>6. 1 \in Addr /\ mem'[1] = ENDMARKER /\ \A a \in Addr : a # 1 => mem'[a] = mem[a]
  BY <1>1, <1>2, Lengths DEF TypeOK
<1>7. /\ rd'.ptr \in Addr /\ rd'.last \in 0..MaxSeq /\ rold' \in BOOLEAN /\ spoilt' \in BOOLEAN
      /\ rd'.st \in {"closed", "open", "run", "eval", "wild"}
      /\ ~spoilt' => ~spoilt /\ ~LapsWriter(w, {1})
  BY <1>2, OverwriteCases
<1>8. TypeOK'
  BY <1>1, <1>2, <1>3, <1>7 DEF TypeOK
<1>9. CycleOK'
  BY <1>1, <1>2, <1>3, <1>4, <1>5 DEF CycleOK
<1>10. /\ w \notin Live /\ alive = "yes"
       /\ \A v \in Writer : v # w => pc[v] \notin {"front", "serial", "mark", "take"}
  BY <1>2, Holder
<1>11. ~LapsWriter(w, {1}) => Unclaimed(Claims, 1)
  <2> SUFFICES ASSUME ~LapsWriter(w, {1}), NEW c \in Claims PROVE 1 \notin Area(c[1], c[2])
    BY DEF Unclaimed
  <2>1. PICK v \in Live : c = <<at[v], job[v]>>
    BY <1>1, ClaimsAre
  <2>2. Area(at[v], job[v]) \cap {1} = {}
    BY <1>10, NotLapped
  <2> QED
    BY <2>1, <2>2
<1>12. WritersOK'
  <2> SUFFICES ASSUME ~spoilt' PROVE WritersOK'
    BY DEF WritersOK
  <2>1. ~spoilt /\ Unclaimed(Claims, 1)
    BY <1>7, <1>11
  <2>2. mem'[vsl_ptr'] = ENDMARKER /\ Unclaimed(Claims', vsl_ptr')
    BY <1>1, <1>2, <1>3, <1>4, <1>6, <2>1 DEF WritersOK, TypeOK
  <2>3. \A v, u \in Live' : v # u => Area(at'[v], job'[v]) \cap Area(at'[u], job'[u]) = {}
    BY <1>1, <1>2, <1>3, <2>1 DEF WritersOK
  <2>4. \A v \in Live : at[v] \in Addr /\ at[v] \in Area(at[v], job[v]) /\ Claim(at[v], job[v])
                        /\ 1 \notin Area(at[v], job[v])
    <3>1. \A v \in Live : Claim(at[v], job[v]) /\ <<at[v], job[v]>> \in Claims
      BY <1>1, ClaimsAre
    <3>2. \A v \in Live : at[v] \in Area(at[v], job[v]) /\ at[v] \in Addr
      BY <3>1, ClaimIs DEF Claim
    <3> QED
      BY <2>1, <3>1, <3>2 DEF Unclaimed
  <2>5. \A v \in Live' : mem'[at'[v]] = ENDMARKER
    BY <1>1, <1>2, <1>3, <1>6, <2>1, <2>4 DEF WritersOK
  <2>6. ASSUME NEW v \in Writer, pc'[v] = "header", NEW r \in RecordsAt(at'[v], job'[v])
        PROVE  /\ \A a \in Span(r) \ {r.pos} : mem'[a] = BODY
               /\ r.pos # at'[v] => mem'[r.pos] = r.len
    <3>1. pc[v] = "header" /\ v \in Live /\ r \in RecordsAt(at[v], job[v])
      BY <1>2, <1>3, <2>6 DEF Live
    <3>2. Span(r) \subseteq Area(at[v], job[v]) /\ r.pos \in Span(r)
      BY <2>4, <3>1, RecordsOfClaim, RecordIs
    <3>3. Area(at[v], job[v]) \subseteq Addr
      BY <2>4, <3>1, ClaimIs
    <3>4. \A a \in Span(r) : mem'[a] = mem[a]
      BY <1>6, <2>4, <3>1, <3>2, <3>3
    <3> QED
      BY <1>1, <1>2, <2>1, <3>1, <3>2, <3>4 DEF WritersOK
  <2>7. Sound(mem', Claims', cycle')
    <3>1. Sound(mem, Claims, cycle)
      BY <1>1, <2>1 DEF WritersOK
    <3> QED
      BY <1>2, <1>3, <1>4, <1>6, <2>1, <3>1, SoundFront
  <2> QED
    BY <1>3, <1>6, <2>1, <2>2, <2>3, <2>5, <2>6, <2>7 DEF WritersOK
<1>13. RdType' /\ ReaderOK'
  <2> SUFFICES ASSUME /\ Following /\ ~LapsReader({1}) /\ ~LapsWriter(w, {1})
                      /\ rd' = rd /\ todo' = todo \o <<>> /\ rold' = rold /\ spoilt' = spoilt
                      /\ ~spoilt
               PROVE  RdType' /\ ReaderOK'
    BY <1>2, OverwriteCases
  <2>1. (Fresh \/ Stale \/ Old) /\ HandOK
    BY <1>1 DEF ReaderOK
  <2>2. RdType' /\ Following'
    BY <1>1 DEF RdType, Following
  <2>3. \A i \in DOMAIN todo : Span(todo[i]) \cap {1} = {}
    BY DEF LapsReader, Overlaps
  <2>4. ~Stale
    BY <1>4 DEF Stale
  <2>5. ~Old
    <3> SUFFICES ASSUME Old PROVE FALSE
      OBVIOUS
    <3>1. PICK old \in Seq(Record) : todo = old \o cycle
      BY DEF Old
    <3> DEFINE k == Len(old) + 1
    <3>2. /\ Len(old) \in Nat /\ Len(cycle) \in Nat /\ Len(cycle) > 0
          /\ todo \in Seq(Record) /\ Len(todo) = Len(old) + Len(cycle)
          /\ \A i \in 1..(Len(old) + Len(cycle)) :
               todo[i] = IF i <= Len(old) THEN old[i] ELSE cycle[i - Len(old)]
      BY <1>4, <3>1, ConcatProperties, EmptySeq
    <3>3. k \in 1..Len(todo) /\ ~(k <= Len(old)) /\ k - Len(old) = 1
      BY <3>2
    <3>4. k \in DOMAIN todo /\ todo[k] = cycle[1]
      BY <3>2, <3>3
    <3>5. 1 \in Span(cycle[1])
      <4>1. 1 \in 1..Len(cycle) /\ cycle[1] \in Record
        BY <1>4, <3>2
      <4> QED
        BY <1>4, <4>1, RecordIs
    <3> QED
      BY <2>3, <3>4, <3>5
  <2>6. /\ ~rold /\ Chain(todo, rd.ptr, CycleEnd) /\ Sound(mem, Claims, todo)
    BY <2>1, <2>4, <2>5 DEF Fresh
  <2>7. todo \in Seq(Record) /\ todo' = todo /\ DOMAIN todo = 1..Len(todo)
        /\ \A i \in 1..Len(todo) : todo[i] \in Record /\ Span(todo[i]) \subseteq Addr
    <3>1. /\ todo \in Seq(Record) /\ CycleEnd \in Addr /\ rd.ptr \in Addr
          /\ \A i \in 1..Len(todo) : todo[i] \in Record /\ Span(todo[i]) \subseteq rd.ptr..(CycleEnd - 1)
      BY <2>6, ChainIs
    <3>2. rd.ptr..(CycleEnd - 1) \subseteq Addr
      BY <3>1, Lengths
    <3>3. todo \o <<>> = todo
      BY <3>1, ConcatEmptySeq
    <3> QED
      BY <3>1, <3>2, <3>3
  <2>8. \A i \in 1..Len(todo) : \A a \in Span(todo[i]) : mem'[a] = mem[a]
    BY <1>6, <2>3, <2>7
  <2>9. Sound(mem', Claims', todo')
    BY <1>3, <2>6, <2>7, <2>8, SoundElsewhere
  <2>10. Fresh'
    BY <1>5, <2>6, <2>7, <2>9 DEF Fresh
  <2>11. HandOK'
    <3>1. ASSUME todo # <<>>, WholeIn(mem, todo[1]) PROVE WholeIn(mem', todo[1])
      <4>1. 1 \in 1..Len(todo)
        BY <2>7, <3>1, EmptySeq
      <4> QED
        BY <2>7, <2>8, <3>1, <4>1, WholeKept
    <3> QED
      BY <1>2, <2>1, <2>7, <3>1 DEF HandOK
  <2> QED
    BY <2>2, <2>10, <2>11 DEF ReaderOK
<1> QED
  BY <1>3, <1>6, <1>8, <1>9, <1>12, <1>13 DEF ShmlogInv, LogInv, ENDMARKER, WRAPMARKER

LEMMA NextSeqIn ==
  ASSUME NEW s \in 1..MaxSeq PROVE NextSeq(s) \in 1..MaxSeq
<1>1. MaxSeq \in Nat /\ MaxSeq > 0 /\ s \in Nat
  BY LogAssumption
<1>2. s % MaxSeq \in 0..(MaxSeq - 1)
  BY <1>1
<1> QED
  BY <1>1, <1>2 DEF NextSeq

LEMMA WrapSerialStep ==
  ASSUME ShmlogInv, NEW w \in Writer, WrapSerial(w) PROVE ShmlogInv'
<1>1. LogInv /\ RdType /\ ReaderOK /\ TypeOK /\ LockOK /\ CycleOK /\ WritersOK
      /\ mem[1] # WRAPMARKER
  BY DEF ShmlogInv, LogInv
<1>2. /\ pc[w] = "serial" /\ seq' = NextSeq(seq) /\ pc' = [pc EXCEPT ![w] = "mark"]
      /\ rold' = (Following /\ rd.ptr # 1) /\ cycle' = <<>>
      /\ UNCHANGED <<mem, vsl_ptr, vsl_mtx, job, at, wlb, alive, crashes, rd, todo, spoilt>>
  BY DEF WrapSerial, childVars
<1>3. /\ Live' = Live /\ Claims' = Claims /\ LockOK'
      /\ pc' \in [Writer -> {"idle", "front", "serial", "mark", "take", "body", "header"}]
      /\ \A v \in Writer : pc'[v] = IF v = w THEN "mark" ELSE pc[v]
      /\ \A v \in Writer : pc'[v] # "serial"
      /\ Wrapping'
  BY <1>2, HolderMoves
<1>4. /\ cycle # <<>> /\ CycleEnd = vsl_ptr /\ vsl_ptr # 1
  BY <1>2, WrapsRecords
<1>5. rold' \in BOOLEAN /\ seq' \in 1..MaxSeq
  BY <1>1, <1>2, NextSeqIn DEF TypeOK
<1>6. TypeOK'
  BY <1>1, <1>2, <1>3, <1>5 DEF TypeOK
<1>7. CycleEnd' = 1 /\ 1 \in Addr
  BY <1>2, Lengths DEF CycleEnd
<1>8. CycleOK'
  <2>1. Chain(<<>>, 1, 1)
    BY <1>7 DEF Chain
  <2> QED
    BY <1>2, <1>3, <1>7, <2>1 DEF CycleOK
<1>9. WritersOK'
  <2> SUFFICES ASSUME ~spoilt PROVE WritersOK'
    BY <1>2 DEF WritersOK
  <2>1. Sound(mem', Claims', cycle')
    BY <1>2, SoundEmpty
  <2>2. mem[1] = ENDMARKER /\ Unclaimed(Claims, 1)
    BY <1>1, <1>2 DEF WritersOK
  <2>3. \A v \in Writer : pc'[v] = "header" => pc[v] = "header"
    BY <1>3
  <2> QED
    BY <1>1, <1>2, <1>3, <2>1, <2>2, <2>3 DEF WritersOK
<1>10. RdType'
  BY <1>1, <1>2 DEF RdType
<1>11. ReaderOK'
  <2>1. CASE ~Following
    BY <1>1, <1>2, <2>1 DEF ReaderOK, Following
  <2>2. CASE Following
    <3>1. ~spoilt /\ (Fresh \/ Stale \/ Old) /\ HandOK
      BY <1>1, <2>2 DEF ReaderOK
    <3>2. ~Stale /\ ~Old
      BY <1>2, <1>4 DEF Stale, Old
    <3>3. ~rold /\ Chain(todo, rd.ptr, vsl_ptr) /\ Sound(mem, Claims, todo)
      BY <1>4, <3>1, <3>2 DEF Fresh
    <3>4. todo \in Seq(Record) /\ vsl_ptr \in Addr
      BY <3>3 DEF Chain
    <3>5. Following' /\ ~spoilt'
      BY <1>2, <2>2, <3>1 DEF Following
    <3>6. CASE rd.ptr = 1
      <4>1. todo # <<>>
        BY <1>4, <3>3, <3>6 DEF Chain
      <4>2. todo[1].pos = 1
        BY <3>3, <3>6, <4>1 DEF Chain
      <4>3. Stale'
        BY <1>2, <3>4, <3>6, <4>1, <4>2 DEF Stale
      <4>4. HandOK'
        BY <1>2, <3>1, <3>3, <3>6 DEF HandOK
      <4> QED
        BY <3>5, <4>3, <4>4 DEF ReaderOK
    <3>7. CASE rd.ptr # 1
      <4>1. rold' /\ rd.ptr > 1
        <5>1. rd.ptr \in Nat /\ rd.ptr >= 1
          BY <1>1, RdIs
        <5>2. rd.ptr > 1
          BY <3>7, <5>1
        <5> QED
          BY <1>2, <2>2, <3>7, <5>2, Zenon
      <4>2. todo = todo \o <<>>
        BY <3>4, ConcatEmptySeq
      <4>3. mem[vsl_ptr] = ENDMARKER /\ Unclaimed(Claims, vsl_ptr)
        BY <1>1, <3>1 DEF WritersOK
      <4>4. Old'
        BY <1>2, <1>3, <3>3, <3>4, <4>1, <4>2, <4>3 DEF Old, OldEnd
      <4>5. HandOK'
        BY <1>2, <3>1, <4>1 DEF HandOK
      <4> QED
        BY <3>5, <4>4, <4>5 DEF ReaderOK
    <3> QED
      BY <3>6, <3>7
  <2> QED
    BY <2>1, <2>2
<1> QED
  BY <1>1, <1>2, <1>3, <1>6, <1>8, <1>9, <1>10, <1>11 DEF ShmlogInv, LogInv

LEMMA WrapMarkStep ==
  ASSUME ShmlogInv, NEW w \in Writer, WrapMark(w) PROVE ShmlogInv'
<1>1. LogInv /\ RdType /\ ReaderOK /\ TypeOK /\ LockOK /\ CycleOK /\ WritersOK
      /\ mem[1] # WRAPMARKER
  BY DEF ShmlogInv, LogInv
<1>2. /\ pc[w] = "mark" /\ pc' = [pc EXCEPT ![w] = "take"]
      /\ UNCHANGED <<seq, vsl_mtx, job, at, wlb, alive, crashes, rd, cycle, todo, rold, spoilt>>
  BY DEF WrapMark, childVars, ghostVars
<1>3. vsl_ptr # 1
  BY <1>1, <1>2 DEF LockOK
<1>4. mem' = [mem EXCEPT ![vsl_ptr] = WRAPMARKER] /\ vsl_ptr' = 1
  BY <1>3 DEF WrapMark
<1>5. /\ Live' = Live /\ Claims' = Claims /\ LockOK'
      /\ pc' \in [Writer -> {"idle", "front", "serial", "mark", "take", "body", "header"}]
      /\ \A v \in Writer : pc'[v] = IF v = w THEN "take" ELSE pc[v]
      /\ \A v \in Writer : pc'[v] # "serial"
      /\ ~Wrapping'
  <2>1. pc[w] \in {"front", "serial", "mark"} /\ "take" \in {"serial", "mark", "take"}
    BY <1>2
  <2>2. /\ Live' = Live /\ Claims' = Claims /\ LockOK'
        /\ pc' \in [Writer -> {"idle", "front", "serial", "mark", "take", "body", "header"}]
        /\ \A v \in Writer : pc'[v] = IF v = w THEN "take" ELSE pc[v]
        /\ \A v \in Writer : pc'[v] = "serial" <=> v = w /\ "take" = "serial"
        /\ Wrapping' <=> "take" = "mark"
    <3>1. UNCHANGED <<vsl_mtx, job, at, wlb, alive, crashes>>
      BY <1>2
    <3>2. (vsl_ptr' = 1 /\ "take" = "take") \/ (vsl_ptr' = vsl_ptr /\ "take" # "take")
      BY <1>4
    <3>3. pc' = [pc EXCEPT ![w] = "take"]
      BY <1>2
    <3> QED
      BY <2>1, <3>1, <3>2, <3>3, HolderMoves
  <2> QED
    BY <2>2
<1>6. Wrapping /\ cycle = <<>> /\ alive = "yes"
  <2>1. Wrapping
    BY <1>2 DEF Wrapping
  <2> QED
    BY <1>1, <1>2, <2>1, Holder DEF CycleOK
<1>7. /\ vsl_ptr \in Addr /\ 1 \in Addr /\ mem'[vsl_ptr] = WRAPMARKER
      /\ \A a \in Addr : a # vsl_ptr => mem'[a] = mem[a]
      /\ mem'[1] = mem[1]
  BY <1>1, <1>3, <1>4, Lengths DEF TypeOK
<1>8. TypeOK'
  BY <1>1, <1>2, <1>4, <1>5, <1>7 DEF TypeOK
<1>9. CycleEnd = 1 /\ CycleEnd' = 1
  BY <1>2, <1>6 DEF CycleEnd
<1>10. CycleOK'
  BY <1>1, <1>2, <1>4, <1>5, <1>6, <1>9 DEF CycleOK
<1>11. WritersOK'
  <2> SUFFICES ASSUME ~spoilt PROVE WritersOK'
    BY <1>2 DEF WritersOK
  <2>1. Sound(mem', Claims', cycle')
    BY <1>2, <1>6, SoundEmpty
  <2>2. mem[1] = ENDMARKER /\ Unclaimed(Claims, 1) /\ Unclaimed(Claims, vsl_ptr)
    BY <1>1, <1>6 DEF WritersOK
  <2>3. \A v \in Live : at[v] \in Addr /\ at[v] \in Area(at[v], job[v]) /\ Claim(at[v], job[v])
                        /\ vsl_ptr \notin Area(at[v], job[v])
    <3>1. \A v \in Live : Claim(at[v], job[v]) /\ <<at[v], job[v]>> \in Claims
      BY <1>1, ClaimsAre
    <3>2. \A v \in Live : at[v] \in Area(at[v], job[v]) /\ at[v] \in Addr
      BY <3>1, ClaimIs DEF Claim
    <3> QED
      BY <2>2, <3>1, <3>2 DEF Unclaimed
  <2>4. \A v \in Live' : mem'[at'[v]] = ENDMARKER
    BY <1>1, <1>2, <1>5, <1>7, <2>3 DEF WritersOK
  <2>5. ASSUME NEW v \in Writer, pc'[v] = "header", NEW r \in RecordsAt(at'[v], job'[v])
        PROVE  /\ \A a \in Span(r) \ {r.pos} : mem'[a] = BODY
               /\ r.pos # at'[v] => mem'[r.pos] = r.len
    <3>1. pc[v] = "header" /\ v \in Live /\ r \in RecordsAt(at[v], job[v])
      BY <1>2, <1>5, <2>5 DEF Live
    <3>2. Span(r) \subseteq Area(at[v], job[v]) /\ r.pos \in Span(r)
      BY <2>3, <3>1, RecordsOfClaim, RecordIs
    <3>3. Area(at[v], job[v]) \subseteq Addr
      BY <2>3, <3>1, ClaimIs
    <3>4. \A a \in Span(r) : mem'[a] = mem[a]
      BY <1>7, <2>3, <3>1, <3>2, <3>3
    <3> QED
      BY <1>1, <1>2, <3>1, <3>2, <3>4 DEF WritersOK
  <2>6. \A v, u \in Live' : v # u => Area(at'[v], job'[v]) \cap Area(at'[u], job'[u]) = {}
    BY <1>1, <1>2, <1>5 DEF WritersOK
  <2> QED
    BY <1>4, <1>5, <1>7, <2>1, <2>2, <2>4, <2>5, <2>6 DEF WritersOK
<1>12. RdType'
  BY <1>1, <1>2 DEF RdType
<1>13. ReaderOK'
  <2>1. CASE ~Following
    BY <1>1, <1>2, <2>1 DEF ReaderOK, Following
  <2>2. CASE Following
    <3>1. ~spoilt /\ (Fresh \/ Stale \/ Old) /\ HandOK /\ Following' /\ ~spoilt'
      BY <1>1, <1>2, <2>2 DEF ReaderOK, Following
    <3>2. mem[1] = ENDMARKER
      BY <1>1, <1>6, <3>1 DEF WritersOK
    <3>3. CASE Fresh
      <4>1. todo = <<>> /\ rd.ptr = 1 /\ Chain(todo, rd.ptr, 1) /\ ~rold
        BY <1>9, <3>3, ChainAtFront DEF Fresh
      <4>2. Fresh'
        BY <1>2, <1>9, <4>1, SoundEmpty DEF Fresh
      <4>3. HandOK'
        BY <1>2, <3>1, <4>1 DEF HandOK
      <4> QED
        BY <3>1, <4>2, <4>3 DEF ReaderOK
    <3>4. CASE Stale
      <4>1. Stale'
        BY <1>2, <3>4 DEF Stale
      <4>2. HandOK'
        <5>1. ~(rd.st = "eval" /\ IsHeader(rd.t))
          BY <3>1, <3>2, <3>4 DEF HandOK, Stale, WholeIn, IsHeader, ENDMARKER
        <5> QED
          BY <1>2, <3>1, <3>4, <5>1 DEF HandOK, Stale
      <4> QED
        BY <3>1, <4>1, <4>2 DEF ReaderOK
    <3>5. CASE Old
      <4>1. PICK old \in Seq(Record), e \in Addr :
              Chain(old, rd.ptr, e) /\ Sound(mem, Claims, old) /\ todo = old \o cycle /\ OldEnd(e)
        BY <3>5 DEF Old
      <4>2. rold /\ rd.ptr > 1
        BY <3>5 DEF Old
      <4>3. vsl_ptr < rd.ptr \/ vsl_ptr = e
        BY <4>1 DEF OldEnd
      <4>4. /\ \A i \in 1..Len(old) : old[i] \in Record /\ Span(old[i]) \subseteq rd.ptr..(e - 1)
            /\ rd.ptr \in Addr /\ rd.ptr <= e
        BY <4>1, ChainIs
      <4>5. vsl_ptr \notin rd.ptr..(e - 1) /\ rd.ptr..(e - 1) \subseteq Addr
        <5>1. /\ vsl_ptr \in Nat /\ e \in Nat /\ rd.ptr \in Nat /\ 1 <= rd.ptr /\ e <= LogWords
              /\ LogWords \in Nat
          BY <1>7, <4>4, Lengths
        <5>2. vsl_ptr \notin rd.ptr..(e - 1)
          BY <4>3, <5>1
        <5>3. \A a \in rd.ptr..(e - 1) : a \in Nat /\ 1 <= a /\ a <= LogWords
          BY <5>1
        <5> QED
          BY <5>2, <5>3, Lengths
      <4>6. \A i \in 1..Len(old) : \A a \in Span(old[i]) : mem'[a] = mem[a]
        BY <1>7, <4>4, <4>5
      <4>7. Sound(mem', Claims', old)
        BY <1>5, <4>1, <4>6, SoundElsewhere
      <4>8. mem'[e] \in {ENDMARKER, WRAPMARKER} /\ Unclaimed(Claims', e) /\ vsl_ptr' < rd'.ptr
        BY <1>2, <1>4, <1>5, <1>7, <4>1, <4>2 DEF OldEnd
      <4>9. Old'
        BY <1>2, <1>5, <4>1, <4>2, <4>7, <4>8 DEF Old, OldEnd
      <4>10. todo = old
        BY <1>6, <4>1, ConcatEmptySeq
      <4>11. HandOK'
        <5>1. ASSUME todo # <<>>, WholeIn(mem, todo[1]) PROVE WholeIn(mem', todo[1])
          <6>1. 1 \in 1..Len(old)
            BY <4>1, <4>10, <5>1, EmptySeq
          <6> QED
            BY <4>4, <4>6, <4>10, <5>1, <6>1, WholeKept
        <5> QED
          BY <1>2, <3>1, <5>1 DEF HandOK
      <4> QED
        BY <3>1, <4>9, <4>11 DEF ReaderOK
    <3> QED
      BY <3>1, <3>3, <3>4, <3>5
  <2> QED
    BY <2>1, <2>2
<1> QED
  BY <1>1, <1>5, <1>7, <1>8, <1>10, <1>11, <1>12, <1>13 DEF ShmlogInv, LogInv

\* The new room, and the words of it that are written at once.
LEMMA TakeIs ==
  ASSUME ShmlogInv, NEW w \in Writer, Take(w)
  PROVE  LET next == vsl_ptr + Room(job[w])
             new == Places(vsl_ptr, job[w])
         IN /\ Claim(vsl_ptr, job[w]) /\ next \in Addr /\ vsl_ptr \in Nat /\ vsl_ptr < next
            /\ at' = [at EXCEPT ![w] = vsl_ptr] /\ vsl_ptr' = next /\ vsl_mtx' = NoWriter
            /\ pc' = [pc EXCEPT ![w] = "body"] /\ cycle' = cycle \o new
            /\ Overwrite(w, vsl_ptr..next, new)
            /\ UNCHANGED <<seq, job, wlb, alive, crashes>>
            /\ mem' \in [Addr -> {ENDMARKER, WRAPMARKER, BODY, JUNK} \cup Lens]
            /\ mem'[next] = ENDMARKER /\ mem'[vsl_ptr] = mem[vsl_ptr]
            /\ \A a \in Addr : a \notin vsl_ptr..next => mem'[a] = mem[a]
            /\ \A a \in Addr : mem'[a] = mem[a] \/ mem'[a] \in {ENDMARKER, JUNK}
<1> DEFINE next == vsl_ptr + Room(job[w])
           new == Places(vsl_ptr, job[w])
           S == vsl_ptr..next
<1>1. /\ pc[w] = "take" /\ at' = [at EXCEPT ![w] = vsl_ptr] /\ vsl_ptr' = next
      /\ mem' = [a \in Addr |-> IF a = next THEN ENDMARKER
                                  ELSE IF a \in S \ {at'[w]} THEN JUNK ELSE mem[a]]
      /\ vsl_mtx' = NoWriter /\ pc' = [pc EXCEPT ![w] = "body"] /\ cycle' = cycle \o new
      /\ Overwrite(w, S, new)
      /\ UNCHANGED <<seq, job, wlb, alive, crashes>>
  BY DEF Take, childVars
<1>2. TypeOK /\ LockOK
  BY ShmlogParts
<1>3. Claim(vsl_ptr, job[w])
  BY <1>1, <1>2, Holder DEF LockOK, Claim
<1>4. next \in Addr /\ vsl_ptr \in Nat /\ Room(job[w]) \in Nat /\ Room(job[w]) > 1
  BY <1>3, ClaimIs
<1>5. vsl_ptr < next /\ vsl_ptr \in Addr /\ vsl_ptr # next
  BY <1>2, <1>4 DEF TypeOK
<1>6. at'[w] = vsl_ptr
  BY <1>1, <1>2 DEF TypeOK
<1>7. \A a \in Addr : mem[a] \in {ENDMARKER, WRAPMARKER, BODY, JUNK} \cup Lens
  BY <1>2 DEF TypeOK
<1> HIDE DEF next, new, S
<1>8. mem' \in [Addr -> {ENDMARKER, WRAPMARKER, BODY, JUNK} \cup Lens]
  BY <1>1, <1>7
<1>9. mem'[next] = ENDMARKER
  BY <1>1, <1>4
<1>10. mem'[vsl_ptr] = mem[vsl_ptr]
  BY <1>1, <1>5, <1>6
<1>11. \A a \in Addr : a \notin S => mem'[a] = mem[a]
  <2>1. next \in S
    BY <1>4, <1>5, Lengths DEF S
  <2> QED
    BY <1>1, <2>1
<1>12. \A a \in Addr : mem'[a] = mem[a] \/ mem'[a] \in {ENDMARKER, JUNK}
  BY <1>1
<1> QED
  BY <1>1, <1>3, <1>4, <1>5, <1>8, <1>9, <1>10, <1>11, <1>12 DEF next, new, S

\* The rooms after the step.
LEMMA TakeClaims ==
  ASSUME ShmlogInv, NEW w \in Writer, Take(w)
  PROVE  /\ Live' = Live \cup {w} /\ w \notin Live
         /\ Claims' = Claims \cup {<<vsl_ptr, job[w]>>}
         /\ at' \in [Writer -> Addr]
         /\ pc' \in [Writer -> {"idle", "front", "serial", "mark", "take", "body", "header"}]
         /\ \A v \in Writer : /\ pc'[v] = IF v = w THEN "body" ELSE pc[v]
                              /\ at'[v] = IF v = w THEN vsl_ptr ELSE at[v]
                              /\ pc'[v] \notin {"front", "serial", "mark", "take"}
         /\ ~Wrapping'
<1>1. /\ at' = [at EXCEPT ![w] = vsl_ptr] /\ pc' = [pc EXCEPT ![w] = "body"] /\ job' = job
      /\ vsl_ptr \in Addr
  BY TakeIs DEF Claim
<1>2. pc[w] = "take"
  BY DEF Take
<1>3. /\ w \notin Live /\ \A v \in Writer : v # w => pc[v] \notin {"front", "serial", "mark", "take"}
  BY <1>2, Holder
<1>4. /\ at' \in [Writer -> Addr]
      /\ pc' \in [Writer -> {"idle", "front", "serial", "mark", "take", "body", "header"}]
      /\ \A v \in Writer : /\ pc'[v] = IF v = w THEN "body" ELSE pc[v]
                           /\ at'[v] = IF v = w THEN vsl_ptr ELSE at[v]
  BY <1>1, ShmlogParts DEF TypeOK
<1>5. \A v \in Writer : pc'[v] \notin {"front", "serial", "mark", "take"}
  BY <1>3, <1>4
<1>6. Live' = Live \cup {w}
  BY <1>4 DEF Live
<1>7. Claims' = Claims \cup {<<vsl_ptr, job[w]>>}
  <2>1. \A v \in Live : v # w /\ v \in Writer /\ at'[v] = at[v] /\ job'[v] = job[v]
    BY <1>1, <1>3, <1>4 DEF Live
  <2>2. at'[w] = vsl_ptr /\ job'[w] = job[w]
    BY <1>1, <1>4
  <2> QED
    BY <1>6, <2>1, <2>2 DEF Claims
<1>8. ~Wrapping'
  BY <1>5 DEF Wrapping
<1> QED
  BY <1>3, <1>4, <1>5, <1>6, <1>7, <1>8

\* Records elsewhere stay as they are.
LEMMA TakeElsewhere ==
  ASSUME ShmlogInv, NEW w \in Writer, Take(w), NEW q \in Seq(Record),
         Sound(mem, Claims, q), \A i \in 1..Len(q) : Span(q[i]) \subseteq Addr,
         \A i \in 1..Len(q) :
           Span(q[i]) \cap (vsl_ptr..(vsl_ptr + Room(job[w]))) = {}
  PROVE  /\ Sound(mem', Claims', q)
         /\ \A i \in 1..Len(q) : \A a \in Span(q[i]) : mem'[a] = mem[a]
<1> DEFINE next == vsl_ptr + Room(job[w])
           c == <<vsl_ptr, job[w]>>
<1>1. \A a \in Addr : a \notin vsl_ptr..next => mem'[a] = mem[a]
  BY TakeIs
<1>2. \A i \in 1..Len(q) : \A a \in Span(q[i]) : mem'[a] = mem[a]
  BY <1>1
<1>3. Claims' = Claims \cup {c}
  BY TakeClaims
<1>4. Area(c[1], c[2]) \subseteq vsl_ptr..next
  <2>1. Claim(vsl_ptr, job[w]) /\ vsl_ptr \in Nat
    BY TakeIs
  <2>2. Room(job[w]) \in Nat
    BY <2>1, ClaimIs
  <2> QED
    BY <2>1, <2>2 DEF Area
<1>5. \A d \in Claims' \ Claims : \A i \in 1..Len(q) : Span(q[i]) \cap Area(d[1], d[2]) = {}
  <2> SUFFICES ASSUME NEW d \in Claims' \ Claims, NEW i \in 1..Len(q)
               PROVE  Span(q[i]) \cap Area(d[1], d[2]) = {}
    OBVIOUS
  <2>1. d = c
    BY <1>3
  <2> HIDE DEF c
  <2> QED
    BY <1>4, <2>1
<1>6. Claims \subseteq Claims'
  BY <1>3
<1>7. Sound(mem', Claims', q)
  BY <1>2, <1>5, <1>6, SoundElsewhere
<1> QED
  BY <1>2, <1>7

LEMMA TakeNew ==
  ASSUME ShmlogInv, NEW w \in Writer, Take(w),
         ~LapsWriter(w, vsl_ptr..(vsl_ptr + Room(job[w])))
  PROVE  /\ Sound(mem', Claims', Places(vsl_ptr, job[w]))
         /\ \A v \in Live : Area(at[v], job[v]) \cap (vsl_ptr..(vsl_ptr + Room(job[w]))) = {}
         /\ Area(vsl_ptr, job[w]) \subseteq vsl_ptr..(vsl_ptr + Room(job[w]))
         /\ vsl_ptr + Room(job[w]) \notin Area(vsl_ptr, job[w])
         /\ vsl_ptr + Room(job[w]) \in vsl_ptr..(vsl_ptr + Room(job[w]))
<1> DEFINE S == vsl_ptr..(vsl_ptr + Room(job[w]))
<1>1. Claim(vsl_ptr, job[w]) /\ vsl_ptr \in Nat
  BY TakeIs
<1>2. Room(job[w]) \in Nat
  BY <1>1, ClaimIs
<1>3. /\ Area(vsl_ptr, job[w]) \subseteq S /\ vsl_ptr + Room(job[w]) \notin Area(vsl_ptr, job[w])
      /\ vsl_ptr + Room(job[w]) \in S
  BY <1>1, <1>2 DEF Area
<1>4. w \notin Live /\ Claims' = Claims \cup {<<vsl_ptr, job[w]>>}
  BY TakeClaims
<1> HIDE DEF S
<1>5. \A v \in Live : Area(at[v], job[v]) \cap S = {}
  <2>1. ~LapsWriter(w, S)
    BY DEF S
  <2> QED
    BY <1>4, <2>1, NotLapped
<1>6. \A c \in Claims : Area(c[1], c[2]) \cap Area(vsl_ptr, job[w]) = {}
  <2> TAKE c \in Claims
  <2>1. PICK v \in Live : c = <<at[v], job[v]>>
    BY ShmlogParts, ClaimsAre
  <2>2. c[1] = at[v] /\ c[2] = job[v]
    BY <2>1
  <2> QED
    BY <1>3, <1>5, <2>2
<1>7. \A c \in Claims' : c # <<vsl_ptr, job[w]>> => Area(c[1], c[2]) \cap Area(vsl_ptr, job[w]) = {}
  BY <1>4, <1>6
<1>8. Sound(mem', Claims', Places(vsl_ptr, job[w]))
  <2>1. <<vsl_ptr, job[w]>> \in Claims'
    BY <1>4
  <2> QED
    BY <1>1, <1>7, <2>1, SoundNew
<1> QED
  BY <1>3, <1>5, <1>8 DEF S

LEMMA TakeStep ==
  ASSUME ShmlogInv, NEW w \in Writer, Take(w) PROVE ShmlogInv'
<1> DEFINE next == vsl_ptr + Room(job[w])
           new == Places(vsl_ptr, job[w])
           S == vsl_ptr..next
<1>1. LogInv /\ RdType /\ ReaderOK /\ TypeOK /\ LockOK /\ CycleOK /\ WritersOK
      /\ mem[1] # WRAPMARKER
  BY DEF ShmlogInv, LogInv
<1>2. /\ Claim(vsl_ptr, job[w]) /\ next \in Addr /\ vsl_ptr \in Nat /\ vsl_ptr < next
      /\ vsl_ptr' = next /\ vsl_mtx' = NoWriter /\ cycle' = cycle \o new
      /\ Overwrite(w, S, new) /\ UNCHANGED <<seq, job, wlb, alive, crashes>>
      /\ mem' \in [Addr -> {ENDMARKER, WRAPMARKER, BODY, JUNK} \cup Lens]
      /\ mem'[next] = ENDMARKER /\ mem'[vsl_ptr] = mem[vsl_ptr]
      /\ \A a \in Addr : a \notin S => mem'[a] = mem[a]
      /\ \A a \in Addr : mem'[a] = mem[a] \/ mem'[a] \in {ENDMARKER, JUNK}
  BY TakeIs
<1>3. /\ Live' = Live \cup {w} /\ w \notin Live
      /\ Claims' = Claims \cup {<<vsl_ptr, job[w]>>}
      /\ at' \in [Writer -> Addr]
      /\ pc' \in [Writer -> {"idle", "front", "serial", "mark", "take", "body", "header"}]
      /\ \A v \in Writer : /\ pc'[v] = IF v = w THEN "body" ELSE pc[v]
                           /\ at'[v] = IF v = w THEN vsl_ptr ELSE at[v]
                           /\ pc'[v] \notin {"front", "serial", "mark", "take"}
      /\ ~Wrapping'
  BY TakeClaims
<1>4. /\ alive = "yes" /\ job[w] # <<>> /\ Room(job[w]) < WlbWords /\ ~Wrapping
  <2>1. pc[w] = "take"
    BY DEF Take
  <2> QED
    BY <2>1, Holder DEF Wrapping
<1>5. CycleEnd = vsl_ptr /\ Chain(cycle, 1, vsl_ptr) /\ (cycle = <<>> => vsl_ptr = 1)
  BY <1>1, <1>4 DEF CycleOK, CycleEnd
<1>6. Chain(new, vsl_ptr, next) /\ new # <<>> /\ new \in Seq(Record)
  <2>1. Chain(new, vsl_ptr, next) /\ new # <<>>
    BY <1>2, PlacesChain DEF Claim
  <2> QED
    BY <2>1, ChainIs
<1> HIDE DEF new
<1>7. Chain(cycle', 1, next) /\ cycle' # <<>> /\ cycle \in Seq(Record) /\ CycleEnd' = next
  <2>1. Chain(cycle \o new, 1, next) /\ cycle \in Seq(Record)
    BY <1>5, <1>6, ChainJoin, ChainIs
  <2>2. cycle \o new # <<>>
    BY <1>6, <2>1, ConcatEmptySeq, ConcatProperties, EmptySeq
  <2> QED
    BY <1>2, <2>1, <2>2 DEF CycleEnd
<1> HIDE DEF next, S
<1>8. /\ rd'.ptr \in Addr /\ rd'.last \in 0..MaxSeq /\ rold' \in BOOLEAN /\ spoilt' \in BOOLEAN
      /\ rd'.st \in {"closed", "open", "run", "eval", "wild"}
      /\ ~spoilt' => ~spoilt /\ ~LapsWriter(w, S)
  BY <1>2, OverwriteCases
<1>9. TypeOK'
  BY <1>1, <1>2, <1>3, <1>8 DEF TypeOK
<1>10. LockOK'
  <2>1. NoWriter \notin Writer
    BY LogAssumption DEF NoWriter
  <2>2. /\ vsl_mtx' # NoWriter => vsl_mtx' \in Writer
        /\ \A v \in Writer : pc'[v] \in {"front", "serial", "mark", "take"} <=> vsl_mtx' = v
        /\ alive' = "yes"
    BY <1>2, <1>3, <1>4, <2>1
  <2>3. vsl_ptr + Room(job[w]) <= LogWords
    BY <1>2 DEF Claim
  <2>4. ASSUME NEW v \in Writer
        PROVE  /\ pc'[v] # "idle" => job'[v] # <<>> /\ Room(job'[v]) < WlbWords
               /\ Room(wlb'[v]) < WlbWords
               /\ pc'[v] \in {"front", "serial", "mark"} => vsl_ptr' # 1
               /\ pc'[v] = "take" => vsl_ptr' + Room(job'[v]) <= LogWords
               /\ pc'[v] \in {"body", "header"} => at'[v] + Room(job'[v]) <= LogWords
    <3>1. CASE v = w
      BY <1>1, <1>2, <1>3, <1>4, <2>3, <3>1 DEF LockOK
    <3>2. CASE v # w
      BY <1>1, <1>2, <1>3, <3>2 DEF LockOK
    <3> QED
      BY <3>1, <3>2
  <2> QED
    BY <2>2, <2>4 DEF LockOK
<1>11. CycleOK'
  BY <1>2, <1>3, <1>4, <1>7 DEF CycleOK
<1>12. mem'[1] # WRAPMARKER
  BY <1>1, <1>2, Lengths DEF WRAPMARKER, ENDMARKER, JUNK
<1>13. ASSUME ~LapsWriter(w, S)
       PROVE  /\ Sound(mem', Claims', new)
              /\ \A v \in Live : Area(at[v], job[v]) \cap S = {}
              /\ Area(vsl_ptr, job[w]) \subseteq S /\ next \notin Area(vsl_ptr, job[w]) /\ next \in S
  BY <1>13, TakeNew DEF S, next, new
<1>14. \A q \in Seq(Record) : Sound(mem, Claims, q)
            /\ (\A i \in 1..Len(q) : Span(q[i]) \subseteq Addr /\ Span(q[i]) \cap S = {})
         => /\ Sound(mem', Claims', q)
            /\ \A i \in 1..Len(q) : \A a \in Span(q[i]) : mem'[a] = mem[a]
  BY TakeElsewhere DEF S, next
<1>15. WritersOK'
  <2> SUFFICES ASSUME ~spoilt' PROVE WritersOK'
    BY DEF WritersOK
  <2>1. /\ ~spoilt /\ Sound(mem', Claims', new)
        /\ \A v \in Live : Area(at[v], job[v]) \cap S = {}
        /\ Area(vsl_ptr, job[w]) \subseteq S /\ next \notin Area(vsl_ptr, job[w]) /\ next \in S
    BY <1>8, <1>13
  <2>2. /\ \A v \in Live : v \in Writer /\ v # w /\ at'[v] = at[v] /\ job'[v] = job[v]
        /\ at'[w] = vsl_ptr /\ job'[w] = job[w]
    BY <1>2, <1>3 DEF Live
  <2>3. Unclaimed(Claims', next)
    <3> SUFFICES ASSUME NEW c \in Claims' PROVE next \notin Area(c[1], c[2])
      BY DEF Unclaimed
    <3>1. CASE c \in Claims
      <4>1. PICK v \in Live : c = <<at[v], job[v]>>
        BY <1>1, <3>1, ClaimsAre
      <4>2. c[1] = at[v] /\ c[2] = job[v]
        BY <4>1
      <4> QED
        BY <2>1, <4>2
    <3>2. CASE c = <<vsl_ptr, job[w]>>
      BY <2>1, <3>2
    <3> QED
      BY <1>3, <3>1, <3>2
  <2>4. \A v, u \in Live' : v # u => Area(at'[v], job'[v]) \cap Area(at'[u], job'[u]) = {}
    <3>1. \A v, u \in Live : v # u => Area(at[v], job[v]) \cap Area(at[u], job[u]) = {}
      BY <1>1, <2>1 DEF WritersOK
    <3>2. \A v \in Live : Area(at[v], job[v]) \cap Area(vsl_ptr, job[w]) = {}
      BY <2>1
    <3> QED
      BY <1>3, <2>2, <3>1, <3>2
  <2>5. \A v \in Live : Claim(at[v], job[v]) /\ at[v] \in Addr /\ at[v] \notin S
    <3>1. \A v \in Live : Claim(at[v], job[v])
      BY <1>1, ClaimsAre
    <3>2. \A v \in Live : at[v] \in Area(at[v], job[v]) /\ at[v] \in Addr
      BY <3>1, ClaimIs DEF Claim
    <3> QED
      BY <2>1, <3>1, <3>2
  <2>6. \A v \in Live' : mem'[at'[v]] = ENDMARKER
    <3>1. mem[vsl_ptr] = ENDMARKER /\ \A v \in Live : mem[at[v]] = ENDMARKER
      BY <1>1, <2>1 DEF WritersOK
    <3> QED
      BY <1>2, <1>3, <2>2, <2>5, <3>1
  <2>7. ASSUME NEW v \in Writer, pc'[v] = "header", NEW r \in RecordsAt(at'[v], job'[v])
        PROVE  /\ \A a \in Span(r) \ {r.pos} : mem'[a] = BODY
               /\ r.pos # at'[v] => mem'[r.pos] = r.len
    <3>1. pc[v] = "header" /\ v \in Live /\ r \in RecordsAt(at[v], job[v]) /\ at'[v] = at[v]
      BY <1>2, <1>3, <2>7 DEF Live
    <3>2. Span(r) \subseteq Area(at[v], job[v]) /\ r.pos \in Span(r)
      BY <2>5, <3>1, RecordsOfClaim, RecordIs
    <3>3. Area(at[v], job[v]) \subseteq Addr
      BY <2>5, <3>1, ClaimIs
    <3>4. \A a \in Span(r) : mem'[a] = mem[a]
      BY <1>2, <2>1, <3>1, <3>2, <3>3
    <3> QED
      BY <1>1, <2>1, <3>1, <3>2, <3>4 DEF WritersOK
  <2>8. Sound(mem', Claims', cycle')
    <3>1. Sound(mem, Claims, cycle)
      BY <1>1, <2>1 DEF WritersOK
    <3>2. \A i \in 1..Len(cycle) : Span(cycle[i]) \subseteq 1..(vsl_ptr - 1)
      BY <1>5, ChainIs
    <3>3. 1..(vsl_ptr - 1) \subseteq Addr /\ (1..(vsl_ptr - 1)) \cap S = {}
      <4>1. vsl_ptr \in Nat /\ next \in Nat /\ vsl_ptr <= LogWords /\ LogWords \in Nat
        BY <1>1, <1>2, Lengths DEF TypeOK
      <4>2. \A a \in 1..(vsl_ptr - 1) : a \in Nat /\ 1 <= a /\ a <= LogWords /\ a \notin S
        BY <4>1 DEF S
      <4> QED
        BY <4>2, Lengths
    <3>4. Sound(mem', Claims', cycle)
      BY <1>7, <1>14, <3>1, <3>2, <3>3
    <3> QED
      BY <1>2, <1>6, <1>7, <2>1, <3>4, SoundJoin
  <2>9. ~(cycle' = <<>> \/ \E v \in Writer : pc'[v] = "serial")
    BY <1>3, <1>7
  <2>10. mem'[vsl_ptr'] = ENDMARKER /\ Unclaimed(Claims', vsl_ptr')
    BY <1>2, <2>3
  <2> QED
    BY <2>4, <2>6, <2>7, <2>8, <2>9, <2>10 DEF WritersOK
<1>16. RdType' /\ ReaderOK'
  <2> SUFFICES ASSUME /\ Following /\ ~LapsReader(S) /\ ~LapsWriter(w, S)
                      /\ rd' = rd /\ todo' = todo \o new /\ rold' = rold /\ spoilt' = spoilt
                      /\ ~spoilt
               PROVE  RdType' /\ ReaderOK'
    BY <1>2, OverwriteCases
  <2>1. (Fresh \/ Stale \/ Old) /\ HandOK
    BY <1>1 DEF ReaderOK
  <2>2. RdType' /\ Following'
    BY <1>1 DEF RdType, Following
  <2>3. (\A i \in DOMAIN todo : Span(todo[i]) \cap S = {}) /\ (rold => rd.ptr \notin S)
    BY DEF LapsReader, Overlaps
  <2>4. Sound(mem', Claims', new)
    BY <1>13
  <2>5. CASE Stale
    <3>1. todo \in Seq(Record) /\ todo # <<>> /\ todo[1].pos = 1 /\ cycle = <<>>
      BY <2>5 DEF Stale
    <3>2. 1 \in DOMAIN todo /\ todo[1] \in Record
      BY <3>1, EmptySeq
    <3>3. 1 \in Span(todo[1])
      BY <3>1, <3>2, RecordIs
    <3>4. 1 \in S
      BY <1>2, <1>5, <3>1, Lengths DEF S
    <3> QED
      BY <2>3, <3>2, <3>3, <3>4
  <2>6. CASE Fresh
    <3>1. ~rold /\ Chain(todo, rd.ptr, vsl_ptr) /\ Sound(mem, Claims, todo)
      BY <1>5, <2>6 DEF Fresh
    <3>2. todo \in Seq(Record) /\ DOMAIN todo = 1..Len(todo)
          /\ \A i \in 1..Len(todo) : todo[i] \in Record /\ Span(todo[i]) \subseteq Addr
      <4>1. /\ todo \in Seq(Record) /\ vsl_ptr \in Addr /\ rd.ptr \in Addr
            /\ \A i \in 1..Len(todo) : todo[i] \in Record /\ Span(todo[i]) \subseteq rd.ptr..(vsl_ptr - 1)
        BY <3>1, ChainIs
      <4>2. rd.ptr..(vsl_ptr - 1) \subseteq Addr
        <5>1. /\ rd.ptr \in Nat /\ 1 <= rd.ptr /\ vsl_ptr \in Nat /\ vsl_ptr <= LogWords
              /\ LogWords \in Nat
          BY <4>1, Lengths
        <5>2. \A a \in rd.ptr..(vsl_ptr - 1) : a \in Nat /\ 1 <= a /\ a <= LogWords
          BY <5>1
        <5> QED
          BY <5>2, Lengths
      <4> QED
        BY <4>1, <4>2
    <3>3. /\ Sound(mem', Claims', todo)
          /\ \A i \in 1..Len(todo) : \A a \in Span(todo[i]) : mem'[a] = mem[a]
      BY <1>14, <2>3, <3>1, <3>2
    <3>4. Sound(mem', Claims', todo \o new)
      BY <1>6, <2>4, <3>2, <3>3, SoundJoin
    <3>5. Chain(todo \o new, rd.ptr, next)
      BY <1>6, <3>1, ChainJoin
    <3>6. Fresh'
      BY <1>7, <3>1, <3>4, <3>5 DEF Fresh
    <3>7. HandOK'
      <4>1. ASSUME todo # <<>>
            PROVE  todo' # <<>> /\ todo'[1] = todo[1] /\ (WholeIn(mem, todo[1]) => WholeIn(mem', todo[1]))
        <5>1. 1 \in 1..Len(todo)
          BY <3>2, <4>1, EmptySeq
        <5>2. todo' # <<>> /\ todo'[1] = todo[1]
          BY <1>6, <3>2, <4>1, FirstOfJoin
        <5> QED
          BY <3>2, <3>3, <5>1, <5>2, WholeKept
      <4> QED
        BY <1>2, <2>1, <4>1 DEF HandOK
    <3> QED
      BY <2>2, <3>6, <3>7 DEF ReaderOK
  <2>7. CASE Old
    <3>1. PICK old \in Seq(Record), e \in Addr :
            Chain(old, rd.ptr, e) /\ Sound(mem, Claims, old) /\ todo = old \o cycle /\ OldEnd(e)
      BY <2>7 DEF Old
    <3>2. rold /\ rd.ptr > 1 /\ rd.ptr \notin S /\ vsl_ptr < rd.ptr
      BY <1>4, <2>3, <2>7, <3>1 DEF Old, OldEnd
    <3>3. /\ rd.ptr \in Nat /\ rd.ptr \in Addr /\ e \in Nat /\ rd.ptr <= e /\ e <= LogWords
          /\ LogWords \in Nat /\ next \in Nat
      BY <1>2, <3>1, ChainIs, Lengths
    <3>4. next < rd.ptr
      BY <1>2, <3>2, <3>3 DEF S
    <3>5. e \notin S /\ e # next
      BY <1>2, <3>3, <3>4 DEF S
    <3>6. /\ \A i \in 1..Len(old) : old[i] \in Record /\ Span(old[i]) \subseteq rd.ptr..(e - 1)
      BY <3>1, ChainIs
    <3>7. rd.ptr..(e - 1) \subseteq Addr /\ (rd.ptr..(e - 1)) \cap S = {}
      <4>1. \A a \in rd.ptr..(e - 1) : a \in Nat /\ 1 <= a /\ a <= LogWords /\ a \notin S
        BY <1>2, <3>2, <3>3, <3>4 DEF S
      <4> QED
        BY <4>1, Lengths
    <3>8. /\ Sound(mem', Claims', old)
          /\ \A i \in 1..Len(old) : \A a \in Span(old[i]) : mem'[a] = mem[a]
      BY <1>14, <3>1, <3>6, <3>7
    <3>9. todo' = old \o cycle'
      BY <1>2, <1>6, <1>7, <3>1, ConcatAssociative
    <3>10. Unclaimed(Claims', e) /\ mem'[e] = mem[e]
      <4>1. e \notin Area(vsl_ptr, job[w])
        BY <1>13, <3>5
      <4>2. Unclaimed(Claims, e)
        BY <3>1 DEF OldEnd
      <4> QED
        BY <1>2, <1>3, <3>5, <4>1, <4>2 DEF Unclaimed
    <3>11. OldEnd(e)'
      BY <1>2, <3>1, <3>4, <3>10 DEF OldEnd
    <3>12. Old'
      BY <1>3, <3>1, <3>2, <3>8, <3>9, <3>11 DEF Old, OldEnd
    <3>13. HandOK'
      <4>1. ASSUME todo # <<>>, todo[1].pos = rd.ptr
            PROVE  todo' # <<>> /\ todo'[1] = todo[1] /\ (WholeIn(mem, todo[1]) => WholeIn(mem', todo[1]))
        <5>1. old # <<>>
          <6> SUFFICES ASSUME old = <<>> PROVE FALSE
            OBVIOUS
          <6>1. todo = cycle
            BY <1>7, <3>1, ConcatEmptySeq
          <6>2. cycle[1].pos = 1
            BY <1>5, <4>1, <6>1 DEF Chain
          <6> QED
            BY <3>2, <4>1, <6>1, <6>2
        <5>2. todo[1] = old[1] /\ 1 \in 1..Len(old) /\ todo \in Seq(Record)
          BY <1>7, <3>1, <5>1, FirstOfJoin, EmptySeq, ConcatProperties
        <5>3. todo' # <<>> /\ todo'[1] = todo[1]
          BY <1>6, <4>1, <5>2, FirstOfJoin
        <5> QED
          BY <3>6, <3>8, <5>2, <5>3, WholeKept
      <4> QED
        BY <1>2, <2>1, <4>1 DEF HandOK
    <3> QED
      BY <2>2, <3>12, <3>13 DEF ReaderOK
  <2> QED
    BY <2>1, <2>5, <2>6, <2>7
<1> QED
  BY <1>9, <1>10, <1>11, <1>12, <1>15, <1>16 DEF ShmlogInv, LogInv

\* A step of a thread in its own room: every list of records stays sound, its
\* complete records stay complete, and the words of nobody's room are kept.
KeepsSound ==
  \A q, b, e : Chain(q, b, e) /\ Sound(mem, Claims, q) =>
    /\ Sound(mem', Claims', q)
    /\ \A i \in 1..Len(q) : WholeIn(mem, q[i]) => WholeIn(mem', q[i])

KeepsFree ==
  \A a \in Addr : Unclaimed(Claims, a) => mem'[a] = mem[a] /\ Unclaimed(Claims', a)

LEMMA WriteReader ==
  ASSUME ShmlogInv,
         UNCHANGED <<seq, vsl_ptr, rd, cycle, todo, rold, spoilt>>,
         alive' = alive \/ alive' = "dead", Wrapping' = Wrapping \/ alive' = "dead",
         \A v \in Writer : pc'[v] = "serial" => pc[v] = "serial",
         ~spoilt => KeepsSound /\ KeepsFree
  PROVE  RdType' /\ ReaderOK'
<1>1. RdType /\ ReaderOK /\ CycleOK
  BY ShmlogParts
<1>2. RdType' /\ Following' = Following /\ CycleEnd' = CycleEnd
  BY <1>1 DEF RdType, Following, CycleEnd
<1>3. CASE ~Following
  BY <1>1, <1>2, <1>3 DEF ReaderOK
<1>4. CASE Following
  <2>1. ~spoilt /\ (Fresh \/ Stale \/ Old) /\ HandOK
    BY <1>1, <1>4 DEF ReaderOK
  <2>2. KeepsSound /\ KeepsFree
    BY <2>1
  <2>3. CASE Fresh
    <3>1. ~rold /\ Chain(todo, rd.ptr, CycleEnd) /\ Sound(mem, Claims, todo)
      BY <2>3 DEF Fresh
    <3>2. Sound(mem', Claims', todo) /\ \A i \in 1..Len(todo) : WholeIn(mem, todo[i]) => WholeIn(mem', todo[i])
      BY <2>2, <3>1 DEF KeepsSound
    <3>3. Fresh'
      BY <1>2, <3>1, <3>2 DEF Fresh
    <3>4. todo # <<>> => 1 \in 1..Len(todo)
      BY <3>1, ChainIs
    <3>5. HandOK'
      BY <2>1, <3>2, <3>4 DEF HandOK
    <3> QED
      BY <1>2, <1>4, <2>1, <3>3, <3>5 DEF ReaderOK
  <2>4. CASE Stale
    <3>1. Stale'
      BY <2>4 DEF Stale
    <3>2. mem[1] = ENDMARKER
      BY <2>1, <2>4, StaleMarked
    <3>3. ~(rd.st = "eval" /\ IsHeader(rd.t))
      BY <2>1, <2>4, <3>2 DEF HandOK, Stale, WholeIn, IsHeader, ENDMARKER
    <3>4. HandOK'
      BY <2>1, <3>3 DEF HandOK
    <3> QED
      BY <1>2, <1>4, <2>1, <3>1, <3>4 DEF ReaderOK
  <2>5. CASE Old
    <3>1. PICK old \in Seq(Record), e \in Addr :
            Chain(old, rd.ptr, e) /\ Sound(mem, Claims, old) /\ todo = old \o cycle /\ OldEnd(e)
      BY <2>5 DEF Old
    <3>2. rold /\ rd.ptr > 1 /\ cycle \in Seq(Record) /\ \A v \in Writer : pc[v] # "serial"
      BY <1>1, <2>5 DEF Old, CycleOK, Chain
    <3>3. Sound(mem', Claims', old) /\ \A i \in 1..Len(old) : WholeIn(mem, old[i]) => WholeIn(mem', old[i])
      BY <2>2, <3>1 DEF KeepsSound
    <3>4. mem'[e] = mem[e] /\ Unclaimed(Claims', e)
      BY <2>2, <3>1 DEF KeepsFree, OldEnd
    <3>5. OldEnd(e)'
      BY <3>1, <3>4 DEF OldEnd
    <3>6. Old'
      BY <3>1, <3>2, <3>3, <3>5 DEF Old, OldEnd
    <3>7. ASSUME todo # <<>>, todo[1].pos = rd.ptr, WholeIn(mem, todo[1]) PROVE WholeIn(mem', todo[1])
      <4>1. old # <<>>
        <5> SUFFICES ASSUME old = <<>> PROVE FALSE
          OBVIOUS
        <5>1. todo = cycle
          BY <3>1, <3>2, ConcatEmptySeq
        <5>2. cycle[1].pos = 1
          BY <1>1, <3>7, <5>1 DEF CycleOK, Chain
        <5> QED
          BY <3>2, <3>7, <5>1, <5>2
      <4>2. todo[1] = old[1] /\ 1 \in 1..Len(old)
        BY <3>1, <3>2, <4>1, FirstOfJoin, EmptySeq
      <4> QED
        BY <3>3, <3>7, <4>2
    <3>8. HandOK'
      BY <2>1, <3>7 DEF HandOK
    <3> QED
      BY <1>2, <1>4, <2>1, <3>6, <3>8 DEF ReaderOK
  <2> QED
    BY <2>1, <2>3, <2>4, <2>5
<1> QED
  BY <1>2, <1>3, <1>4

\* memcpy of a thread writes its room, except the first word, with its records.
LEMMA BodyIs ==
  ASSUME ShmlogInv, NEW w \in Writer, Body(w)
  PROVE  /\ w \in Live /\ Claim(at[w], job[w])
         /\ mem' \in [Addr -> {ENDMARKER, WRAPMARKER, BODY, JUNK} \cup Lens]
         /\ \A a \in Addr : a \notin Area(at[w], job[w]) => mem'[a] = mem[a]
         /\ \A a \in Addr : mem'[a] = mem[a] \/ mem'[a] = BODY \/ mem'[a] \in Lens
         /\ mem'[at[w]] = mem[at[w]]
         /\ Written(mem', at[w], job[w])
<1> DEFINE p == at[w]
           recs == Places(p, job[w])
           HeaderAt(a) == {i \in DOMAIN recs : recs[i].pos = a}
           rest == (p + 1)..(p + Room(job[w]) - 1)
<1>1. /\ pc[w] = "body"
      /\ mem' = [a \in Addr |->
                   IF a \notin rest THEN mem[a]
                   ELSE IF HeaderAt(a) = {} THEN BODY
                   ELSE recs[CHOOSE i \in HeaderAt(a) : TRUE].len]
  BY DEF Body
<1>2. TypeOK /\ LockOK
  BY ShmlogParts
<1>3. w \in Live
  BY <1>1 DEF Live
<1>4. Claim(p, job[w])
  BY <1>2, <1>3, ClaimsAre
<1>5. /\ Room(job[w]) \in Nat /\ Room(job[w]) > 1 /\ p \in Nat
      /\ Area(p, job[w]) \subseteq Addr /\ p \in Area(p, job[w]) /\ p \in Addr
  BY <1>4, ClaimIs
<1>6. rest = Area(p, job[w]) \ {p}
  BY <1>5 DEF Area
<1>7. /\ \A r \in RecordsAt(p, job[w]) : r \in Record /\ Span(r) \subseteq Area(p, job[w])
      /\ \A r, s \in RecordsAt(p, job[w]) : r # s => Span(r) \cap Span(s) = {}
      /\ \A i \in DOMAIN recs : recs[i] \in RecordsAt(p, job[w])
  BY <1>4, RecordsOfClaim
<1>8. \A r \in RecordsAt(p, job[w]) : \E i \in DOMAIN recs : r = recs[i]
  BY DEF RecordsAt, Places
<1> HIDE DEF recs, rest, p
<1>9. \A r \in RecordsAt(p, job[w]) : r.pos \in Span(r) /\ r.len \in Lens
  BY <1>7, RecordIs
<1>10. \A r, s \in RecordsAt(p, job[w]) : r.pos \in Span(s) => r = s
  BY <1>7, <1>9
<1>11. ASSUME NEW a \in Addr, HeaderAt(a) # {}
       PROVE  \E r \in RecordsAt(p, job[w]) : r.pos = a /\ recs[CHOOSE i \in HeaderAt(a) : TRUE] = r
  <2>1. (CHOOSE i \in HeaderAt(a) : TRUE) \in HeaderAt(a)
    BY <1>11
  <2> QED
    BY <1>7, <2>1
<1>12. \A a \in Addr : mem'[a] = mem[a] \/ mem'[a] = BODY \/ mem'[a] \in Lens
  BY <1>1, <1>9, <1>11
<1>13. mem' \in [Addr -> {ENDMARKER, WRAPMARKER, BODY, JUNK} \cup Lens]
  <2>1. \A a \in Addr : mem[a] \in {ENDMARKER, WRAPMARKER, BODY, JUNK} \cup Lens
    BY <1>2 DEF TypeOK
  <2>2. mem' = [a \in Addr |-> mem'[a]]
    BY <1>1
  <2>3. \A a \in Addr : mem'[a] \in {ENDMARKER, WRAPMARKER, BODY, JUNK} \cup Lens
    BY <1>12, <2>1
  <2> QED
    BY <2>2, <2>3
<1>14. \A a \in Addr : a \notin Area(p, job[w]) => mem'[a] = mem[a]
  BY <1>1, <1>6
<1>15. mem'[p] = mem[p]
  BY <1>1, <1>5, <1>6
<1>16. ASSUME NEW r \in RecordsAt(p, job[w]), NEW a \in Span(r) \ {r.pos} PROVE mem'[a] = BODY
  <2>1. a \in Area(p, job[w]) /\ a \in Addr
    BY <1>5, <1>7
  <2>2. a # p
    <3>1. Span(r) = r.pos..(Stop(r) - 1) /\ r.pos \in Nat /\ Stop(r) \in Nat
      BY <1>7, RecordIs
    <3>2. r.pos \in Area(p, job[w])
      BY <1>7, <1>9
    <3>3. p <= r.pos
      BY <1>4, <3>2, ClaimIs
    <3>4. a > r.pos /\ a \in Nat
      BY <3>1
    <3> QED
      BY <1>5, <3>1, <3>3, <3>4
  <2>3. HeaderAt(a) = {}
    <3> SUFFICES ASSUME NEW i \in DOMAIN recs, recs[i].pos = a PROVE FALSE
      OBVIOUS
    <3>1. recs[i] \in RecordsAt(p, job[w])
      BY <1>7
    <3>2. recs[i] = r
      BY <1>10, <3>1
    <3> QED
      BY <3>2
  <2> QED
    BY <1>1, <1>6, <2>1, <2>2, <2>3
<1>17. ASSUME NEW r \in RecordsAt(p, job[w]), r.pos # p PROVE mem'[r.pos] = r.len
  <2>1. r.pos \in Area(p, job[w]) /\ r.pos \in Addr
    BY <1>5, <1>7, <1>9
  <2>2. PICK i \in DOMAIN recs : r = recs[i]
    BY <1>8
  <2>3. HeaderAt(r.pos) # {}
    BY <2>2
  <2>4. PICK s \in RecordsAt(p, job[w]) :
          s.pos = r.pos /\ recs[CHOOSE k \in HeaderAt(r.pos) : TRUE] = s
    BY <1>11, <2>1, <2>3
  <2>5. s = r
    BY <1>9, <1>10, <2>4
  <2> QED
    BY <1>1, <1>6, <1>17, <2>1, <2>3, <2>4, <2>5
<1>18. Written(mem', p, job[w])
  BY <1>16, <1>17 DEF Written
<1> QED
  BY <1>3, <1>4, <1>12, <1>13, <1>14, <1>15, <1>18 DEF p

LEMMA BodyStep ==
  ASSUME ShmlogInv, NEW w \in Writer, Body(w) PROVE ShmlogInv'
<1>1. LogInv /\ RdType /\ ReaderOK /\ TypeOK /\ LockOK /\ CycleOK /\ WritersOK
      /\ mem[1] # WRAPMARKER
  BY DEF ShmlogInv, LogInv
<1>2. /\ pc[w] = "body" /\ pc' = [pc EXCEPT ![w] = "header"]
      /\ UNCHANGED <<seq, vsl_ptr, vsl_mtx, job, at, wlb, alive, crashes, rd, cycle, todo, rold, spoilt>>
  BY DEF Body, childVars, ghostVars
<1>3. /\ w \in Live /\ Claim(at[w], job[w])
      /\ mem' \in [Addr -> {ENDMARKER, WRAPMARKER, BODY, JUNK} \cup Lens]
      /\ \A a \in Addr : a \notin Area(at[w], job[w]) => mem'[a] = mem[a]
      /\ \A a \in Addr : mem'[a] = mem[a] \/ mem'[a] = BODY \/ mem'[a] \in Lens
      /\ mem'[at[w]] = mem[at[w]]
      /\ Written(mem', at[w], job[w])
  BY BodyIs
<1>4. /\ pc' \in [Writer -> {"idle", "front", "serial", "mark", "take", "body", "header"}]
      /\ \A v \in Writer : pc'[v] = IF v = w THEN "header" ELSE pc[v]
  BY <1>1, <1>2 DEF TypeOK
<1>5. Live' = Live /\ Claims' = Claims
  <2>1. Live' = Live
    BY <1>2, <1>4 DEF Live
  <2> QED
    BY <1>2, <2>1 DEF Claims
<1>6. Wrapping' = Wrapping
  BY <1>2, <1>4 DEF Wrapping
<1>7. TypeOK'
  BY <1>1, <1>2, <1>3, <1>4 DEF TypeOK
<1>8. LockOK'
  BY <1>1, <1>2, <1>4 DEF LockOK
<1>9. CycleOK'
  BY <1>1, <1>2, <1>6 DEF CycleOK, CycleEnd
<1>10. mem'[1] # WRAPMARKER
  BY <1>1, <1>3, Lengths DEF WRAPMARKER, BODY
<1>11. \A v \in Live : Claim(at[v], job[v]) /\ <<at[v], job[v]>> \in Claims
  BY <1>1, ClaimsAre
<1>12. ASSUME ~spoilt PROVE KeepsSound
  <2> SUFFICES ASSUME NEW q, NEW b, NEW e, Chain(q, b, e), Sound(mem, Claims, q)
               PROVE  /\ Sound(mem', Claims', q)
                      /\ \A i \in 1..Len(q) : WholeIn(mem, q[i]) => WholeIn(mem', q[i])
    BY DEF KeepsSound
  <2>1. Marked(mem, Claims)
    BY <1>1, <1>12, ClaimsMarked
  <2>2. <<at[w], job[w]>> \in Claims
    BY <1>3, <1>11
  <2>3. Sound(mem', Claims, q)
    BY <1>3, <2>1, <2>2, SoundBody
  <2>4. /\ \A i \in 1..Len(q) : q[i] \in Record /\ Span(q[i]) \subseteq b..(e - 1)
        /\ b \in Addr /\ e \in Addr
    BY ChainIs
  <2>5. b..(e - 1) \subseteq Addr
    BY <2>4, Between
  <2>6. ASSUME NEW i \in 1..Len(q), WholeIn(mem, q[i]) PROVE WholeIn(mem', q[i])
    <3>1. q[i] \in RecordsAt(at[w], job[w]) \/ Span(q[i]) \cap Area(at[w], job[w]) = {}
      BY <2>2 DEF Sound
    <3>2. mem[at[w]] = ENDMARKER
      BY <2>1, <2>2 DEF Marked
    <3>3. q[i] \in Record /\ Span(q[i]) \subseteq Addr
      BY <2>4, <2>5
    <3> QED
      BY <1>3, <2>6, <3>1, <3>2, <3>3, WholeBody
  <2> QED
    BY <1>5, <2>3, <2>6
<1>13. KeepsFree
  <2>1. <<at[w], job[w]>> \in Claims
    BY <1>3, <1>11
  <2>2. \A a : Unclaimed(Claims, a) => a \notin Area(at[w], job[w])
    BY <2>1 DEF Unclaimed
  <2> QED
    BY <1>3, <1>5, <2>2 DEF KeepsFree
<1>14. WritersOK'
  <2> SUFFICES ASSUME ~spoilt PROVE WritersOK'
    BY <1>2 DEF WritersOK
  <2>1. mem'[vsl_ptr'] = ENDMARKER /\ Unclaimed(Claims', vsl_ptr')
    BY <1>1, <1>2, <1>13 DEF WritersOK, KeepsFree, TypeOK
  <2>2. cycle' = <<>> \/ (\E v \in Writer : pc'[v] = "serial") =>
           mem'[1] = ENDMARKER /\ Unclaimed(Claims', 1)
    <3>1. cycle' = <<>> \/ (\E v \in Writer : pc'[v] = "serial") =>
            mem[1] = ENDMARKER /\ Unclaimed(Claims, 1)
      BY <1>1, <1>2, <1>4 DEF WritersOK
    <3> QED
      BY <1>13, <3>1, Lengths DEF KeepsFree
  <2>3. \A v, u \in Live' : v # u => Area(at'[v], job'[v]) \cap Area(at'[u], job'[u]) = {}
    BY <1>1, <1>2, <1>5 DEF WritersOK
  <2>4. \A v \in Live : v # w => Area(at[v], job[v]) \cap Area(at[w], job[w]) = {}
    BY <1>1, <1>3 DEF WritersOK
  <2>5. \A v \in Live : at[v] \in Area(at[v], job[v]) /\ at[v] \in Addr
                        /\ Area(at[v], job[v]) \subseteq Addr
    BY <1>11, ClaimIs
  <2>6. \A v \in Live' : mem'[at'[v]] = ENDMARKER
    <3>1. \A v \in Live : mem[at[v]] = ENDMARKER
      BY <1>1 DEF WritersOK
    <3>2. \A v \in Live : mem'[at[v]] = mem[at[v]]
      BY <1>3, <2>4, <2>5
    <3> QED
      BY <1>2, <1>5, <3>1, <3>2
  <2>7. ASSUME NEW v \in Writer, pc'[v] = "header", NEW r \in RecordsAt(at'[v], job'[v])
        PROVE  /\ \A a \in Span(r) \ {r.pos} : mem'[a] = BODY
               /\ r.pos # at'[v] => mem'[r.pos] = r.len
    <3>1. CASE v = w
      BY <1>2, <1>3, <2>7, <3>1 DEF Written
    <3>2. CASE v # w
      <4>1. pc[v] = "header" /\ v \in Live /\ r \in RecordsAt(at[v], job[v])
        BY <1>2, <1>4, <2>7, <3>2 DEF Live
      <4>2. Span(r) \subseteq Area(at[v], job[v]) /\ r.pos \in Span(r)
        BY <1>11, <4>1, RecordsOfClaim, RecordIs
      <4>3. \A a \in Span(r) : mem'[a] = mem[a]
        BY <1>3, <2>4, <2>5, <3>2, <4>1, <4>2
      <4> QED
        BY <1>1, <1>2, <4>1, <4>2, <4>3 DEF WritersOK
    <3> QED
      BY <3>1, <3>2
  <2>8. Sound(mem', Claims', cycle')
    BY <1>1, <1>2, <1>12 DEF WritersOK, KeepsSound, CycleOK
  <2> QED
    BY <2>1, <2>2, <2>3, <2>6, <2>7, <2>8 DEF WritersOK
<1>15. RdType' /\ ReaderOK'
  BY <1>2, <1>4, <1>6, <1>12, <1>13, WriteReader
<1> QED
  BY <1>7, <1>8, <1>9, <1>10, <1>14, <1>15 DEF ShmlogInv, LogInv

LEMMA HdrStep ==
  ASSUME ShmlogInv, NEW w \in Writer, vsl_hdr(w) PROVE ShmlogInv'
<1>1. LogInv /\ RdType /\ ReaderOK /\ TypeOK /\ LockOK /\ CycleOK /\ WritersOK
      /\ mem[1] # WRAPMARKER
  BY DEF ShmlogInv, LogInv
<1>2. /\ pc[w] = "header" /\ mem' = [mem EXCEPT ![at[w]] = job[w][1]]
      /\ pc' = [pc EXCEPT ![w] = "idle"] /\ job' = [job EXCEPT ![w] = <<>>]
      /\ at' = [at EXCEPT ![w] = 1]
      /\ UNCHANGED <<seq, vsl_ptr, vsl_mtx, wlb, alive, crashes, rd, cycle, todo, rold, spoilt>>
  BY DEF vsl_hdr, childVars, ghostVars
<1>3. w \in Live /\ w \in Writer
  BY <1>2 DEF Live
<1>4. \A v \in Live : Claim(at[v], job[v]) /\ <<at[v], job[v]>> \in Claims
  BY <1>1, ClaimsAre
<1>5. /\ at[w] \in Addr /\ job[w][1] \in Lens /\ job[w][1] \in Nat
      /\ at[w] \in Area(at[w], job[w])
  BY <1>3, <1>4, ClaimIs, Lengths
<1>6. /\ pc' \in [Writer -> {"idle", "front", "serial", "mark", "take", "body", "header"}]
      /\ at' \in [Writer -> Addr] /\ job' \in [Writer -> Seq(Lens)]
      /\ \A v \in Writer : /\ pc'[v] = IF v = w THEN "idle" ELSE pc[v]
                           /\ job'[v] = IF v = w THEN <<>> ELSE job[v]
                           /\ at'[v] = IF v = w THEN 1 ELSE at[v]
      /\ mem' \in [Addr -> {ENDMARKER, WRAPMARKER, BODY, JUNK} \cup Lens]
      /\ mem'[at[w]] = job[w][1] /\ \A a \in Addr : a # at[w] => mem'[a] = mem[a]
  <2>1. 1 \in Addr /\ <<>> \in Seq(Lens)
    BY Lengths
  <2>2. pc \in [Writer -> {"idle", "front", "serial", "mark", "take", "body", "header"}]
        /\ at \in [Writer -> Addr] /\ job \in [Writer -> Seq(Lens)]
        /\ mem \in [Addr -> {ENDMARKER, WRAPMARKER, BODY, JUNK} \cup Lens]
    BY <1>1 DEF TypeOK
  <2>3. mem' \in [Addr -> {ENDMARKER, WRAPMARKER, BODY, JUNK} \cup Lens]
        /\ mem'[at[w]] = job[w][1] /\ \A a \in Addr : a # at[w] => mem'[a] = mem[a]
    BY <1>2, <1>5, <2>2
  <2> QED
    BY <1>2, <2>1, <2>2, <2>3
<1>7. Live' = Live \ {w}
  BY <1>6 DEF Live
<1>8. \A v \in Live : v # w => v \in Writer /\ at'[v] = at[v] /\ job'[v] = job[v]
  BY <1>6 DEF Live
<1>9. Wrapping' = Wrapping
  BY <1>2, <1>6 DEF Wrapping
<1>10. TypeOK'
  BY <1>1, <1>2, <1>6 DEF TypeOK
<1>11. LockOK'
  BY <1>1, <1>2, <1>6 DEF LockOK
<1>12. CycleOK'
  BY <1>1, <1>2, <1>9 DEF CycleOK, CycleEnd
<1>13. mem'[1] # WRAPMARKER
  BY <1>1, <1>5, <1>6, Lengths DEF WRAPMARKER
<1>14. ASSUME ~spoilt PROVE Claims' = Claims \ {<<at[w], job[w]>>}
  <2>1. \A v \in Live : v # w => <<at[v], job[v]>> # <<at[w], job[w]>>
    <3> SUFFICES ASSUME NEW v \in Live, v # w, <<at[v], job[v]>> = <<at[w], job[w]>> PROVE FALSE
      OBVIOUS
    <3>1. at[v] = at[w] /\ job[v] = job[w]
      OBVIOUS
    <3>2. Area(at[v], job[v]) \cap Area(at[w], job[w]) = {}
      BY <1>1, <1>3, <1>14 DEF WritersOK
    <3> QED
      BY <1>5, <3>1, <3>2
  <2>2. Claims = {<<at[v], job[v]>> : v \in Live \ {w}} \cup {<<at[w], job[w]>>}
    BY <1>3 DEF Claims
  <2>3. Claims' = {<<at[v], job[v]>> : v \in Live \ {w}}
    BY <1>7, <1>8 DEF Claims
  <2> QED
    BY <2>1, <2>2, <2>3
<1>15. ASSUME ~spoilt PROVE Written(mem, at[w], job[w])
  BY <1>1, <1>2, <1>15 DEF WritersOK, Written
<1>16. ASSUME ~spoilt PROVE KeepsSound
  <2> SUFFICES ASSUME NEW q, NEW b, NEW e, Chain(q, b, e), Sound(mem, Claims, q)
               PROVE  /\ Sound(mem', Claims', q)
                      /\ \A i \in 1..Len(q) : WholeIn(mem, q[i]) => WholeIn(mem', q[i])
    BY DEF KeepsSound
  <2>1. <<at[w], job[w]>> \in Claims /\ Claim(at[w], job[w])
    BY <1>3, <1>4
  <2>6. Written(mem, at[w], job[w]) /\ Claims' = Claims \ {<<at[w], job[w]>>}
    BY <1>14, <1>15, <1>16
  <2>7. mem'[at[w]] = job[w][1] /\ \A a \in Addr : a # at[w] => mem'[a] = mem[a]
    BY <1>6
  <2>8. Sound(mem', Claims \ {<<at[w], job[w]>>}, q)
    BY <2>1, <2>6, <2>7, SoundHdr
  <2>2. Sound(mem', Claims', q)
    BY <2>6, <2>8
  <2>3. /\ \A i \in 1..Len(q) : q[i] \in Record /\ Span(q[i]) \subseteq b..(e - 1)
        /\ b \in Addr /\ e \in Addr
    BY ChainIs
  <2>4. b..(e - 1) \subseteq Addr
    BY <2>3, Between
  <2>5. ASSUME NEW i \in 1..Len(q), WholeIn(mem, q[i]) PROVE WholeIn(mem', q[i])
    <3>1. CASE q[i] \in RecordsAt(at[w], job[w])
      BY <2>1, <2>6, <2>7, <3>1, WholeHdr
    <3>2. CASE Span(q[i]) \cap Area(at[w], job[w]) = {}
      <4>1. \A a \in Span(q[i]) : mem'[a] = mem[a]
        BY <1>5, <1>6, <2>3, <2>4, <3>2
      <4> QED
        BY <2>3, <2>5, <4>1, WholeKept
    <3> QED
      BY <2>1, <3>1, <3>2 DEF Sound
  <2> QED
    BY <2>2, <2>5
<1>17. ASSUME ~spoilt PROVE KeepsFree
  <2>1. <<at[w], job[w]>> \in Claims
    BY <1>3, <1>4
  <2>2. \A a : Unclaimed(Claims, a) => a # at[w] /\ Unclaimed(Claims', a)
    BY <1>5, <1>14, <1>17, <2>1 DEF Unclaimed
  <2> QED
    BY <1>6, <2>2 DEF KeepsFree
<1>18. WritersOK'
  <2> SUFFICES ASSUME ~spoilt PROVE WritersOK'
    BY <1>2 DEF WritersOK
  <2>1. mem'[vsl_ptr'] = ENDMARKER /\ Unclaimed(Claims', vsl_ptr')
    BY <1>1, <1>2, <1>17 DEF WritersOK, KeepsFree, TypeOK
  <2>2. cycle' = <<>> \/ (\E v \in Writer : pc'[v] = "serial") =>
           mem'[1] = ENDMARKER /\ Unclaimed(Claims', 1)
    <3>1. cycle' = <<>> \/ (\E v \in Writer : pc'[v] = "serial") =>
            mem[1] = ENDMARKER /\ Unclaimed(Claims, 1)
      BY <1>1, <1>2, <1>6 DEF WritersOK
    <3> QED
      BY <1>17, <3>1, Lengths DEF KeepsFree
  <2>3. \A v, u \in Live' : v # u => Area(at'[v], job'[v]) \cap Area(at'[u], job'[u]) = {}
    BY <1>1, <1>7, <1>8 DEF WritersOK
  <2>4. \A v \in Live : v # w => Area(at[v], job[v]) \cap Area(at[w], job[w]) = {}
    BY <1>1, <1>3 DEF WritersOK
  <2>5. \A v \in Live : at[v] \in Area(at[v], job[v]) /\ at[v] \in Addr
                        /\ Area(at[v], job[v]) \subseteq Addr
    BY <1>4, ClaimIs
  <2>6. \A v \in Live' : mem'[at'[v]] = ENDMARKER
    <3>1. \A v \in Live : mem[at[v]] = ENDMARKER
      BY <1>1 DEF WritersOK
    <3>2. \A v \in Live : v # w => mem'[at[v]] = mem[at[v]]
      BY <1>5, <1>6, <2>4, <2>5
    <3> QED
      BY <1>7, <1>8, <3>1, <3>2
  <2>7. ASSUME NEW v \in Writer, pc'[v] = "header", NEW r \in RecordsAt(at'[v], job'[v])
        PROVE  /\ \A a \in Span(r) \ {r.pos} : mem'[a] = BODY
               /\ r.pos # at'[v] => mem'[r.pos] = r.len
    <3>1. v # w
      BY <1>6, <2>7
    <3>2. pc[v] = "header" /\ v \in Live /\ r \in RecordsAt(at[v], job[v]) /\ at'[v] = at[v]
      BY <1>6, <2>7, <3>1 DEF Live
    <3>3. Span(r) \subseteq Area(at[v], job[v]) /\ r.pos \in Span(r)
      BY <1>4, <3>2, RecordsOfClaim, RecordIs
    <3>4. \A a \in Span(r) : mem'[a] = mem[a]
      BY <1>5, <1>6, <2>4, <2>5, <3>1, <3>2, <3>3
    <3> QED
      BY <1>1, <3>2, <3>3, <3>4 DEF WritersOK
  <2>8. Sound(mem', Claims', cycle')
    BY <1>1, <1>2, <1>16 DEF WritersOK, KeepsSound, CycleOK
  <2> QED
    BY <2>1, <2>2, <2>3, <2>6, <2>7, <2>8 DEF WritersOK
<1>19. RdType' /\ ReaderOK'
  BY <1>2, <1>6, <1>9, <1>16, <1>17, WriteReader
<1> QED
  BY <1>10, <1>11, <1>12, <1>13, <1>18, <1>19 DEF ShmlogInv, LogInv

LEMMA CrashStep == ASSUME ShmlogInv, Crash PROVE ShmlogInv'
<1>1. LogInv /\ RdType /\ ReaderOK /\ TypeOK /\ LockOK /\ CycleOK /\ WritersOK
      /\ mem[1] # WRAPMARKER
  BY DEF ShmlogInv, LogInv
<1>2. /\ alive # "dead" /\ crashes < MaxCrashes /\ crashes' = crashes + 1 /\ alive' = "dead"
      /\ vsl_mtx' = NoWriter /\ pc' = [v \in Writer |-> "idle"] /\ job' = [v \in Writer |-> <<>>]
      /\ wlb' = [v \in Writer |-> <<>>] /\ at' = [v \in Writer |-> 1]
      /\ UNCHANGED <<mem, seq, vsl_ptr, rd, cycle, todo, rold, spoilt>>
  BY DEF Crash, logVars, ghostVars
<1>3. 1 \in Addr /\ <<>> \in Seq(Lens) /\ <<>> \in Seq(Nat) /\ NoWriter \notin Writer
  BY Lengths, LogAssumption DEF NoWriter
<1>4. crashes' \in 0..MaxCrashes
  BY <1>1, <1>2, LogAssumption DEF TypeOK
<1>5. TypeOK'
  BY <1>1, <1>2, <1>3, <1>4 DEF TypeOK
<1>6. LockOK'
  <2>1. \A v \in Writer : Room(wlb'[v]) < WlbWords
    <3>1. Room(<<>>) = 0
      BY <1>3, RoomOf
    <3>2. 0 < WlbWords
      BY LogAssumption
    <3> QED
      BY <1>2, <3>1, <3>2
  <2> QED
    BY <1>2, <1>3, <2>1 DEF LockOK
<1>7. Live' = {} /\ Claims' = {} /\ ~Wrapping'
  <2>1. Live' = {} /\ ~Wrapping'
    BY <1>2 DEF Live, Wrapping
  <2> QED
    BY <2>1 DEF Claims
<1>8. CycleOK'
  BY <1>1, <1>2, <1>7 DEF CycleOK, CycleEnd
<1>9. \A a : Unclaimed(Claims', a)
  BY <1>7 DEF Unclaimed
<1>10. ASSUME ~spoilt PROVE KeepsSound
  <2>1. Marked(mem, Claims)
    BY <1>1, <1>10, ClaimsMarked
  <2> QED
    BY <1>2, <1>7, <2>1, SoundCrash DEF KeepsSound
<1>11. KeepsFree
  BY <1>2, <1>9 DEF KeepsFree
<1>12. WritersOK'
  <2> SUFFICES ASSUME ~spoilt PROVE WritersOK'
    BY <1>2 DEF WritersOK
  <2>1. Sound(mem', Claims', cycle')
    BY <1>1, <1>2, <1>10 DEF WritersOK, KeepsSound, CycleOK
  <2>2. \A v \in Writer : pc'[v] = "idle"
    BY <1>2
  <2>3. mem[vsl_ptr] = ENDMARKER /\ (cycle = <<>> => mem[1] = ENDMARKER)
    BY <1>1 DEF WritersOK
  <2> QED
    BY <1>2, <1>7, <1>9, <2>1, <2>2, <2>3 DEF WritersOK
<1>13. RdType' /\ ReaderOK'
  <2>1. \A v \in Writer : pc'[v] = "serial" => pc[v] = "serial"
    BY <1>2
  <2> QED
    BY <1>2, <1>10, <1>11, <2>1, WriteReader
<1> QED
  BY <1>1, <1>2, <1>5, <1>6, <1>8, <1>12, <1>13 DEF ShmlogInv, LogInv

LEMMA DropCycle ==
  ASSUME NEW S, NEW q \in Seq(S), NEW s \in Seq(S)
  PROVE  SubSeq(q \o s, 1, Len(q \o s) - Len(s)) = q
<1> DEFINE c == q \o s
           p == SubSeq(c, 1, Len(q))
<1>1. /\ c \in Seq(S) /\ Len(c) = Len(q) + Len(s) /\ Len(s) \in Nat /\ Len(q) \in Nat
      /\ \A i \in 1..(Len(q) + Len(s)) : c[i] = IF i <= Len(q) THEN q[i] ELSE s[i - Len(q)]
  BY ConcatProperties
<1> HIDE DEF c
<1>2. Len(c) - Len(s) = Len(q) /\ Len(q) \in 0..Len(c)
  BY <1>1
<1>3. p \in Seq(S) /\ Len(p) = Len(q) /\ \A i \in 1..Len(q) : p[i] = c[i]
  BY <1>1, <1>2, Prefix
<1>4. \A i \in 1..Len(q) : c[i] = q[i]
  BY <1>1
<1> HIDE DEF p
<1>5. p = q
  BY <1>3, <1>4, SeqEqual
<1> QED
  BY <1>2, <1>5 DEF p, c

\* The log begins anew under a reader that stands behind the front: the
\* records ahead of it are still what they were.
LEMMA OldAfterInit ==
  ASSUME NEW q, NEW e, NEW n, Chain(q, rd.ptr, e), Sound(mem, {}, q),
         rd.ptr > 1, mem[e] \in {ENDMARKER, WRAPMARKER},
         \A a \in Addr : a # 1 => n[a] = mem[a]
  PROVE  /\ Sound(n, {}, q) /\ n[e] \in {ENDMARKER, WRAPMARKER} /\ e \in Addr
         /\ q \in Seq(Record)
         /\ \A i \in 1..Len(q) : WholeIn(mem, q[i]) => WholeIn(n, q[i])
<1>1. /\ q \in Seq(Record) /\ rd.ptr \in Addr /\ e \in Addr /\ rd.ptr <= e
      /\ \A i \in 1..Len(q) : q[i] \in Record /\ Span(q[i]) \subseteq rd.ptr..(e - 1)
  BY ChainIs
<1>2. rd.ptr \in Nat /\ e \in Nat /\ LogWords \in Nat /\ e <= LogWords
  BY <1>1, Lengths
<1>3. \A a \in rd.ptr..(e - 1) : a \in Addr /\ a # 1
  <2>1. \A a \in rd.ptr..(e - 1) : a # 1
    BY <1>2
  <2> QED
    BY <1>1, <2>1, Between
<1>4. e # 1
  BY <1>1, <1>2
<1>5. \A i \in 1..Len(q) : \A a \in Span(q[i]) : n[a] = mem[a]
  BY <1>1, <1>3
<1>6. Sound(n, {}, q)
  BY <1>1, <1>5, SoundElsewhere
<1>7. \A i \in 1..Len(q) : WholeIn(mem, q[i]) => WholeIn(n, q[i])
  BY <1>1, <1>5, WholeKept
<1> QED
  BY <1>1, <1>4, <1>6, <1>7

LEMMA InitStep == ASSUME ShmlogInv, VSL_Init PROVE ShmlogInv'
<1>1. LogInv /\ RdType /\ ReaderOK /\ TypeOK /\ LockOK /\ CycleOK /\ WritersOK
      /\ mem[1] # WRAPMARKER
  BY DEF ShmlogInv, LogInv
<1> DEFINE lost == rd.ptr = 1 /\ IsHeader(rd.t)
<1>2. /\ alive = "dead" /\ alive' = "serial" /\ vsl_ptr' = 1
      /\ mem' = [mem EXCEPT ![1] = ENDMARKER] /\ cycle' = <<>>
      /\ rd' = (IF lost THEN Closed ELSE rd)
      /\ todo' = (IF rd.ptr = 1 THEN <<>>
                  ELSE IF rold THEN SubSeq(todo, 1, Len(todo) - Len(cycle)) ELSE todo)
      /\ rold' = (Following /\ rd.ptr # 1) /\ spoilt' = FALSE
      /\ UNCHANGED <<seq, vsl_mtx, pc, job, at, wlb, crashes>>
  BY DEF VSL_Init, writerVars
<1>3. 1 \in Addr /\ \A w \in Writer : pc[w] = "idle"
  BY <1>1, <1>2, Lengths DEF LockOK
<1>4. /\ mem' \in [Addr -> {ENDMARKER, WRAPMARKER, BODY, JUNK} \cup Lens]
      /\ mem'[1] = ENDMARKER /\ \A a \in Addr : a # 1 => mem'[a] = mem[a]
  BY <1>1, <1>2, <1>3 DEF TypeOK
<1>5. Live = {} /\ Live' = {} /\ Claims = {} /\ Claims' = {} /\ ~Wrapping /\ ~Wrapping'
  <2>1. Live = {} /\ Live' = {} /\ ~Wrapping /\ ~Wrapping'
    BY <1>2, <1>3 DEF Live, Wrapping
  <2> QED
    BY <2>1 DEF Claims
<1>6. \A a : Unclaimed(Claims', a)
  BY <1>5 DEF Unclaimed
<1>7. CycleEnd' = 1 /\ Chain(<<>>, 1, 1)
  BY <1>2, <1>3 DEF CycleEnd, Chain
<1>8. CycleOK'
  BY <1>2, <1>7 DEF CycleOK
<1>9. LockOK'
  BY <1>1, <1>2, <1>3 DEF LockOK
<1>10. WritersOK'
  <2>1. Sound(mem', Claims', cycle')
    BY <1>2, SoundEmpty
  <2>2. \A w \in Writer : pc'[w] # "header"
    BY <1>2, <1>3
  <2> QED
    BY <1>2, <1>4, <1>5, <1>6, <2>1, <2>2 DEF WritersOK
<1>11. mem'[1] # WRAPMARKER
  BY <1>4 DEF ENDMARKER, WRAPMARKER
<1>12. rold' \in BOOLEAN /\ rd.ptr \in Addr /\ rd.ptr \in Nat /\ rd.ptr >= 1 /\ rd.last \in 0..MaxSeq
       /\ rd.st \in {"closed", "open", "run", "eval", "wild"}
  BY <1>1, <1>2, RdIs
<1>13. ASSUME RdType', ReaderOK' PROVE ShmlogInv'
  <2>1. rd'.ptr \in Addr /\ rd'.last \in 0..MaxSeq
        /\ rd'.st \in {"closed", "open", "run", "eval", "wild"}
    BY <1>13 DEF RdType
  <2>2. TypeOK'
    BY <1>1, <1>2, <1>3, <1>4, <1>12, <2>1 DEF TypeOK
  <2> QED
    BY <1>8, <1>9, <1>10, <1>11, <1>13, <2>2 DEF ShmlogInv
<1>14. CASE lost
  <2>1. rd' = Closed /\ ~rold' /\ ~spoilt'
    BY <1>2, <1>14
  <2>2. rd' = [Closed EXCEPT !.st = rd'.st] /\ rd'.st = "closed"
    BY <2>1 DEF Closed
  <2> QED
    BY <1>13, <2>1, <2>2, NoReader
<1>15. CASE ~lost
  <2>1. rd' = rd /\ RdType'
    BY <1>1, <1>2, <1>15 DEF RdType
  <2>2. CASE ~Following
    <3>1. rd.ptr = 1 /\ ~IsHeader(rd.t) /\ ~rold' /\ ~spoilt'
      BY <1>1, <1>2, <2>2 DEF ReaderOK
    <3>2. ReaderOK'
      BY <2>1, <2>2, <3>1 DEF ReaderOK, Following
    <3> QED
      BY <1>13, <2>1, <3>2
  <2>3. CASE Following /\ rd.ptr = 1
    <3>1. ~spoilt /\ (Fresh \/ Stale \/ Old) /\ HandOK
      BY <1>1, <2>3 DEF ReaderOK
    <3>2. ~rold
      BY <2>3, <3>1 DEF Fresh, Stale, Old
    <3>3. ~IsHeader(rd.t) /\ ~rold' /\ ~spoilt' /\ todo' = <<>>
      BY <1>2, <1>15, <2>3
    <3>4. Fresh'
      BY <1>7, <2>1, <2>3, <3>3, SoundEmpty DEF Fresh
    <3>5. HandOK'
      BY <2>1, <2>3, <3>1, <3>2, <3>3 DEF HandOK
    <3>6. ReaderOK'
      BY <2>1, <2>3, <3>3, <3>4, <3>5 DEF ReaderOK, Following
    <3> QED
      BY <1>13, <2>1, <3>6
  <2>4. CASE Following /\ rd.ptr # 1
    <3>1. ~spoilt /\ (Fresh \/ Old) /\ HandOK
      BY <1>1, <2>4 DEF ReaderOK, Stale
    <3>2. rd.ptr > 1 /\ rold' /\ ~spoilt'
      <4>1. rold' /\ ~spoilt'
        BY <1>2, <2>4
      <4>2. rd.ptr > 1
        BY <1>12, <2>4
      <4> QED
        BY <4>1, <4>2
    <3>3. PICK q, e : /\ Chain(q, rd.ptr, e) /\ Sound(mem, {}, q) /\ todo' = q
                      /\ mem[e] \in {ENDMARKER, WRAPMARKER}
                      /\ todo # <<>> /\ todo[1].pos = rd.ptr => q # <<>> /\ q[1] = todo[1]
      <4>1. CASE Fresh
        <5>1. ~rold /\ Chain(todo, rd.ptr, CycleEnd) /\ Sound(mem, {}, todo)
          BY <1>5, <4>1 DEF Fresh
        <5>2. mem[CycleEnd] = ENDMARKER
          BY <3>1, EndMarked
        <5>3. todo' = todo
          BY <1>2, <2>4, <5>1
        <5> QED
          BY <5>1, <5>2, <5>3
      <4>2. CASE Old
        <5>1. PICK old \in Seq(Record), e \in Addr :
                Chain(old, rd.ptr, e) /\ Sound(mem, Claims, old) /\ todo = old \o cycle /\ OldEnd(e)
          BY <4>2 DEF Old
        <5>2. rold
          BY <4>2 DEF Old
        <5>3. cycle \in Seq(Record) /\ (cycle # <<>> => cycle[1].pos = 1)
          BY <1>1 DEF CycleOK, Chain
        <5>4. todo' = old
          <6>1. todo' = SubSeq(todo, 1, Len(todo) - Len(cycle))
            BY <1>2, <2>4, <5>2
          <6> QED
            BY <5>1, <5>3, <6>1, DropCycle
        <5>5. mem[e] \in {ENDMARKER, WRAPMARKER}
          BY <5>1 DEF OldEnd
        <5>6. ASSUME todo # <<>>, todo[1].pos = rd.ptr PROVE old # <<>> /\ old[1] = todo[1]
          <6>1. old # <<>>
            <7> SUFFICES ASSUME old = <<>> PROVE FALSE
              OBVIOUS
            <7>1. todo = cycle
              BY <5>1, <5>3, ConcatEmptySeq
            <7> QED
              BY <2>4, <5>3, <5>6, <7>1
          <6> QED
            BY <5>1, <5>3, <6>1, FirstOfJoin
        <5> QED
          BY <1>5, <5>1, <5>4, <5>5, <5>6
      <4> QED
        BY <3>1, <4>1, <4>2
    <3>4. /\ Sound(mem', {}, q) /\ mem'[e] \in {ENDMARKER, WRAPMARKER} /\ e \in Addr
          /\ q \in Seq(Record) /\ \A i \in 1..Len(q) : WholeIn(mem, q[i]) => WholeIn(mem', q[i])
      BY <1>4, <3>2, <3>3, OldAfterInit
    <3>5. OldEnd(e)'
      BY <1>2, <1>6, <2>1, <3>2, <3>4 DEF OldEnd
    <3>6. Chain(q, rd'.ptr, e) /\ Sound(mem', Claims', q) /\ todo' = q \o cycle'
      BY <1>2, <1>5, <2>1, <3>3, <3>4, ConcatEmptySeq
    <3>7. \A w \in Writer : pc'[w] # "serial"
      BY <1>2, <1>3
    <3>8. Old'
      BY <2>1, <3>2, <3>4, <3>5, <3>6, <3>7 DEF Old
    <3>9. HandOK'
      <4>1. ASSUME rd.st = "eval", IsHeader(rd.t)
            PROVE  q # <<>> /\ q[1].pos = rd.ptr /\ q[1].len = rd.t /\ WholeIn(mem', q[1])
        <5>1. todo # <<>> /\ todo[1].pos = rd.ptr /\ todo[1].len = rd.t /\ WholeIn(mem, todo[1])
          BY <3>1, <4>1 DEF HandOK
        <5>2. q # <<>> /\ q[1] = todo[1]
          BY <3>3, <5>1
        <5>3. 1 \in 1..Len(q)
          BY <3>3, <5>2, ChainIs
        <5> QED
          BY <3>4, <5>1, <5>2, <5>3
      <4> QED
        BY <2>1, <3>1, <3>2, <3>3, <4>1 DEF HandOK
    <3>10. ReaderOK'
      BY <2>1, <2>4, <3>2, <3>8, <3>9 DEF ReaderOK, Following
    <3> QED
      BY <1>13, <2>1, <3>10
  <2> QED
    BY <2>2, <2>3, <2>4
<1> QED
  BY <1>14, <1>15

LEMMA SerialStep == ASSUME ShmlogInv, VSL_InitSerial PROVE ShmlogInv'
<1>1. TypeOK /\ RdType /\ ReaderOK /\ LockOK /\ CycleOK /\ WritersOK /\ mem[1] # WRAPMARKER
  BY DEF ShmlogInv
<1>2. /\ alive = "serial" /\ alive' = "yes" /\ seq' = NextSeq(seq)
      /\ UNCHANGED <<mem, vsl_ptr, vsl_mtx, pc, job, at, wlb, crashes, rd, cycle, todo, rold, spoilt>>
  BY DEF VSL_InitSerial, writerVars, ghostVars
<1>3. vsl_ptr = 1 /\ cycle = <<>> /\ CycleEnd = 1
  BY <1>1, <1>2 DEF LockOK, CycleOK, CycleEnd
<1>4. Live' = Live /\ Wrapping' = Wrapping /\ CycleEnd' = CycleEnd
  BY <1>2 DEF Live, Wrapping, CycleEnd
<1>5. Claims' = Claims
  BY <1>2, <1>4 DEF Claims
<1>6. TypeOK'
  BY <1>1, <1>2, NextSeqIn DEF TypeOK
<1>7. LockOK'
  BY <1>1, <1>2 DEF LockOK
<1>8. CycleOK'
  BY <1>1, <1>2, <1>3, <1>4 DEF CycleOK
<1>9. WritersOK'
  BY <1>1, <1>2, <1>4, <1>5 DEF WritersOK
<1>10. RdType'
  BY <1>1, <1>2 DEF RdType
<1>11. ReaderOK'
  <2>1. CASE ~Following
    BY <1>1, <1>2, <2>1 DEF ReaderOK, Following
  <2>2. CASE Following
    <3>1. ~spoilt /\ (Fresh \/ Stale \/ Old) /\ HandOK
      BY <1>1, <2>2 DEF ReaderOK
    <3>2. ~rold => rd.ptr = 1
      BY <1>3, <3>1, ChainAtFront DEF Fresh, Stale, Old
    <3>3. HandOK'
      BY <1>2, <3>1, <3>2 DEF HandOK
    <3>4. ~Wrapping /\ alive # "dead"
      <4>1. \A w \in Writer : pc[w] = "idle"
        BY <1>1, <1>2 DEF LockOK
      <4> QED
        BY <1>2, <4>1 DEF Wrapping
    <3>5. Fresh' \/ Stale' \/ Old'
      BY <1>2, <1>4, <1>5, <3>1, <3>4 DEF Fresh, Stale, Old, OldEnd
    <3> QED
      BY <1>2, <2>2, <3>1, <3>3, <3>5 DEF ReaderOK, Following
  <2> QED
    BY <2>1, <2>2
<1> QED
  BY <1>1, <1>2, <1>6, <1>7, <1>8, <1>9, <1>10, <1>11 DEF ShmlogInv

LEMMA StartStep == ASSUME Init PROVE ShmlogInv
<1>1. /\ mem = [a \in Addr |-> IF a = 1 THEN ENDMARKER ELSE JUNK]
      /\ seq = 1 /\ vsl_ptr = 1 /\ vsl_mtx = NoWriter /\ pc = [w \in Writer |-> "idle"]
      /\ job = [w \in Writer |-> <<>>] /\ at = [w \in Writer |-> 1]
      /\ wlb = [w \in Writer |-> <<>>] /\ alive = "yes" /\ crashes = 0 /\ rd = Closed
      /\ cycle = <<>> /\ todo = <<>> /\ rold = FALSE /\ spoilt = FALSE
  BY DEF Init
<1>2. /\ 1 \in Addr /\ <<>> \in Seq(Lens) /\ <<>> \in Seq(Nat) /\ NoWriter \notin Writer
      /\ 1 \in 1..MaxSeq /\ 0 \in 0..MaxSeq /\ 0 \in 0..MaxCrashes
  BY Lengths, LogAssumption DEF NoWriter
<1>3. rd = [st |-> "closed", ptr |-> 1, last |-> 0, t |-> JUNK, d |-> FALSE]
  BY <1>1 DEF Closed
<1>4. rd.st = "closed" /\ rd.ptr = 1 /\ rd.last = 0 /\ rd.t = JUNK /\ rd.d = FALSE
  BY <1>3
<1>5. TypeOK
  BY <1>1, <1>2, <1>4 DEF TypeOK
<1>6. RdType
  BY <1>2, <1>3 DEF RdType
<1>7. LockOK
  <2>1. \A w \in Writer : Room(wlb[w]) < WlbWords
    <3>1. Room(<<>>) = 0
      BY <1>2, RoomOf
    <3>2. WlbWords > 0
      BY LogAssumption
    <3> QED
      BY <1>1, <3>1, <3>2
  <2> QED
    BY <1>1, <1>2, <2>1 DEF LockOK
<1>8. Live = {} /\ Claims = {}
  <2>1. Live = {}
    BY <1>1 DEF Live
  <2> QED
    BY <2>1 DEF Claims
<1>9. CycleOK
  BY <1>1, <1>2 DEF CycleOK, CycleEnd, Chain, Wrapping
<1>10. mem[1] = ENDMARKER /\ mem[1] # WRAPMARKER
  BY <1>1, <1>2 DEF ENDMARKER, WRAPMARKER
<1>11. WritersOK
  <2>1. Sound(mem, Claims, cycle)
    BY <1>1, SoundEmpty
  <2>2. \A a : Unclaimed(Claims, a)
    BY <1>8 DEF Unclaimed
  <2>3. \A w \in Writer : pc[w] = "idle"
    BY <1>1
  <2> QED
    BY <1>1, <1>8, <1>10, <2>1, <2>2, <2>3 DEF WritersOK
<1>12. ReaderOK
  BY <1>1, <1>4 DEF ReaderOK, Following, IsHeader, JUNK
<1> QED
  BY <1>5, <1>6, <1>7, <1>9, <1>10, <1>11, <1>12 DEF ShmlogInv

LEMMA ShmlogNext == ASSUME ShmlogInv, [Next]_(vars) PROVE ShmlogInv'
<1>1. CASE UNCHANGED vars
  <2>1. UNCHANGED <<mem, seq, vsl_ptr, vsl_mtx, pc, job, at, wlb, alive, crashes, rd, cycle, todo,
                    rold, spoilt>>
    BY <1>1 DEF vars, logVars, writerVars, childVars, ghostVars
  <2>2. TypeOK /\ RdType /\ ReaderOK /\ LockOK /\ CycleOK /\ WritersOK /\ mem[1] # WRAPMARKER
    BY DEF ShmlogInv
  <2>3. Live' = Live /\ Wrapping' = Wrapping /\ CycleEnd' = CycleEnd /\ Following' = Following
    BY <2>1 DEF Live, Wrapping, CycleEnd, Following
  <2>4. Claims' = Claims
    BY <2>1, <2>3 DEF Claims
  <2>5. TypeOK' /\ RdType' /\ LockOK' /\ CycleOK' /\ WritersOK'
    <3>1. TypeOK' /\ RdType'
      BY <2>1, <2>2 DEF TypeOK, RdType
    <3>2. LockOK'
      BY <2>1, <2>2 DEF LockOK
    <3>3. CycleOK'
      BY <2>1, <2>2, <2>3 DEF CycleOK
    <3>4. WritersOK'
      BY <2>1, <2>2, <2>3, <2>4 DEF WritersOK
    <3> QED
      BY <3>1, <3>2, <3>3, <3>4
  <2>6. (Fresh \/ Stale \/ Old => Fresh' \/ Stale' \/ Old') /\ (HandOK => HandOK')
    BY <2>1, <2>3, <2>4 DEF Fresh, Stale, Old, OldEnd, HandOK
  <2>7. ReaderOK'
    BY <2>1, <2>2, <2>3, <2>6 DEF ReaderOK
  <2> QED
    BY <2>1, <2>2, <2>5, <2>7 DEF ShmlogInv
<1>2. ASSUME NEW w \in Writer, VSLR(w) \/ WSLR(w) \/ WSL_Flush(w) \/ Finish(w)
      PROVE  ShmlogInv'
  BY <1>2, VslrStep, WslrStep, FlushStep, WrapFrontStep, WrapSerialStep, WrapMarkStep, TakeStep,
     BodyStep, HdrStep DEF Finish
<1>3. CASE vsl_nextlog
  <2>1. SeeWrap \/ SeeSerial => rd.st = "eval" /\ ToFront
    BY DEF SeeWrap, SeeSerial
  <2> QED
    BY <1>3, <2>1, LoadStep, FrontStep, SleepStep, ReadStep DEF vsl_nextlog
<1> QED
  BY <1>1, <1>2, <1>3, CrashStep, InitStep, SerialStep, OpenStep, CloseStep, SkipStep DEF Next

\* ShmlogInv holds for any number of writers, size of the log and lengths of
\* records, over any number of wraps, deaths of the child and laps.
THEOREM ShmlogInvariant == Spec => []ShmlogInv
<1>1. Init => ShmlogInv
  BY StartStep
<1>2. ShmlogInv /\ [Next]_(vars) => ShmlogInv'
  BY ShmlogNext
<1> QED
  BY <1>1, <1>2, PTL DEF Spec

\* The markers a reader relies on are there (MarkersInPlace): the log ends
\* with one, the room of a record begins with one until its header is written,
\* and the front never holds the marker of a wrap, which vsl_nextlog asserts.
THEOREM MarkersCorrect == Spec => []MarkersInPlace
<1>1. ShmlogInv => MarkersInPlace
  <2> SUFFICES ASSUME ShmlogInv PROVE MarkersInPlace
    OBVIOUS
  <2>1. TypeOK /\ WritersOK /\ mem[1] # WRAPMARKER
    BY DEF ShmlogInv
  <2>2. ~spoilt => /\ mem[vsl_ptr] = ENDMARKER
                   /\ \A w \in Writer : pc[w] \in {"body", "header"} => mem[at[w]] = ENDMARKER
    BY <2>1 DEF WritersOK, Live
  <2> QED
    BY <2>1, <2>2 DEF MarkersInPlace
<1> QED
  BY <1>1, ShmlogInvariant, PTL

\* vsl_nextlog returns, and VSL_Open skips, only complete records, in the
\* order in which their room was reserved (ReaderSeesWhole), although the
\* reader takes no lock and the child may die at any store.
THEOREM ReaderCorrect == Spec => ReaderSeesWhole
<1> DEFINE Good == /\ todo # <<>> /\ Head(todo).pos = rd.ptr /\ Whole(Head(todo))
           Reads == Read \/ (OpenSkip /\ rd'.st = "open")
<1>1. ShmlogInv /\ [Next]_(vars) => [Reads => Good]_(vars)
  <2> SUFFICES ASSUME ShmlogInv, Reads PROVE Good
    OBVIOUS
  <2>1. RdType /\ ReaderOK
    BY DEF ShmlogInv
  <2>2. todo # <<>> /\ todo[1].pos = rd.ptr /\ WholeIn(mem, todo[1])
    <3>1. CASE Read
      <4>1. rd.st = "eval" /\ IsHeader(rd.t)
        BY <3>1 DEF Read
      <4> QED
        BY <2>1, <4>1 DEF ReaderOK, HandOK, Following
    <3>2. CASE OpenSkip /\ rd'.st = "open"
      <4>1. rd.st = "open" /\ Following
        BY <3>2 DEF OpenSkip, Following
      <4>2. mem[rd.ptr] # ENDMARKER
        <5> SUFFICES ASSUME mem[rd.ptr] = ENDMARKER PROVE FALSE
          OBVIOUS
        <5>1. rd' = [rd EXCEPT !.st = "run"]
          BY <3>2 DEF OpenSkip, ENDMARKER, WRAPMARKER
        <5> QED
          BY <2>1, <3>2, <5>1 DEF RdType
      <4>3. mem[rd.ptr] # WRAPMARKER
        <5> SUFFICES ASSUME mem[rd.ptr] = WRAPMARKER PROVE FALSE
          OBVIOUS
        <5>1. rd' = [Closed EXCEPT !.st = "wild"]
          BY <3>2 DEF OpenSkip, ENDMARKER, WRAPMARKER
        <5> QED
          BY <3>2, <5>1 DEF Closed
      <4> QED
        BY <4>1, <4>2, <4>3, Seen
    <3> QED
      BY <3>1, <3>2
  <2>3. Head(todo) = todo[1]
    <3>1. Fresh \/ Stale \/ Old
      BY <2>1 DEF Read, OpenSkip, ReaderOK, Following
    <3>2. cycle \in Seq(Record)
      BY DEF ShmlogInv, CycleOK, Chain
    <3>3. todo \in Seq(Record)
      <4>1. CASE Fresh
        BY <4>1 DEF Fresh, Chain
      <4>2. CASE Stale
        BY <4>2 DEF Stale
      <4>3. CASE Old
        <5>1. PICK old \in Seq(Record) : todo = old \o cycle
          BY <4>3 DEF Old
        <5> QED
          BY <3>2, <5>1
      <4> QED
        BY <3>1, <4>1, <4>2, <4>3
    <3> QED
      BY <2>2, <3>3
  <2> QED
    BY <2>2, <2>3 DEF WholeIn, Whole
<1> QED
  BY <1>1, ShmlogInvariant, PTL DEF Spec, ReaderSeesWhole

\* A reader that was opened with -d goes back to the front only after the
\* writers did, so that no record is returned twice (NoRecordTwice).
THEOREM ReadOnceCorrect == Spec => NoRecordTwice
<1>1. ShmlogInv /\ [Next]_(vars) => [(rd.d /\ (SeeWrap \/ SeeSerial)) => rold]_(vars)
  <2> SUFFICES ASSUME ShmlogInv, rd.d, SeeWrap \/ SeeSerial PROVE rold
    OBVIOUS
  <2>1. rd.st = "eval" /\ ReaderOK /\ (rd.t = WRAPMARKER \/ (rd.ptr # 1 /\ rd.last # seq))
    BY DEF SeeWrap, SeeSerial, ShmlogInv
  <2>2. HandOK
    BY <2>1 DEF ReaderOK, Following
  <2> QED
    BY <2>1, <2>2 DEF HandOK
<1> QED
  BY <1>1, ShmlogInvariant, PTL DEF Spec, NoRecordTwice
=============================================================================
