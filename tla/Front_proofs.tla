---------------------------- MODULE Front_proofs ----------------------------
(***************************************************************************)
(* Theorems about what is between a client and the cache: the acceptor and *)
(* its waiters (module Acceptor), session memory (module SessMem) and the  *)
(* session state engine (module Center).  The three specifications are     *)
(* independent of each other; their names are distinct, so that one module *)
(* can hold the proofs.                                                    *)
(***************************************************************************)
EXTENDS Center, Acceptor, SessMem, SequenceTheorems, FiniteSetTheorems,
        WellFoundedInduction, TLAPS

-----------------------------------------------------------------------------
(* The acceptor and the waiters                                            *)

\* The lists are lists of sessions, each of them once.
ListsOK ==
  \A q \in {pipe, sesshead, scan} : q \in Seq(Sessions) /\ IsInjective(q)

\* The places a session can be in are disjoint.
Apart ==
  /\ free \cap (queue \cup work \cup Range(pipe) \cup Range(sesshead)) = {}
  /\ queue \cap (work \cup Range(pipe) \cup Range(sesshead)) = {}
  /\ work \cap (Range(pipe) \cup Range(sesshead)) = {}
  /\ Range(pipe) \cap Range(sesshead) = {}

\* Exactly the sessions somebody has or waits for own a descriptor, each its own.
FdsOK ==
  /\ \A s \in Sessions :
       fd[s] # NoFd <=> s \in queue \cup work \cup Range(pipe) \cup Range(sesshead)
  /\ \A s, t \in Sessions : s # t /\ fd[s] # NoFd => fd[s] # fd[t]

\* The kernel's set has open descriptors only, and sp->ev tells which ones; only
\* epoll has such a set.
KnownOK ==
  /\ \A f \in known : \E s \in Sessions : fd[s] = f
  /\ \A s \in Sessions : fd[s] # NoFd => (evptr[s] <=> fd[s] \in known)
  /\ \A s \in free : ~evptr[s]
  /\ vca_act # "epoll" => known = {}

\* Events are one-shot: while one of a session is being handled, no other is to
\* come, except with poll, which walks over the list.  Changes are kept back by
\* kqueue only, and not while descriptors are closed.
RoundOK ==
  /\ round # "events" => evs = {}
  /\ "pipe" \in evs => pipe # <<>>
  /\ round = "timer" \/ vca_act # "kqueue" => ki = {}
  /\ IF vca_act = "poll"
     THEN /\ round # "timer"
          /\ evs \ {"pipe"} \subseteq Range(scan)
          /\ Range(scan) \subseteq Range(sesshead)
     ELSE /\ scan = <<>>
          /\ \A f \in Fds : armed[f] \notin evs
          /\ \A c \in ki : c[2] \notin evs

AcceptorInv ==
  /\ AcceptorTypeOK /\ ListsOK /\ Apart /\ FdsOK /\ KnownOK /\ RoundOK
  /\ EventsReachIdle /\ NoPanic
-----------------------------------------------------------------------------
(* Lists.                                                                  *)

\* The elements of a sequence by their positions.
LEMMA InRange ==
  ASSUME NEW S, NEW q \in Seq(S)
  PROVE  /\ DOMAIN q = 1..Len(q) /\ Len(q) \in Nat
         /\ Range(q) \subseteq S
         /\ \A x : x \in Range(q) <=> \E i \in 1..Len(q) : q[i] = x
         /\ (q = <<>> <=> Range(q) = {})
<1>1. DOMAIN q = 1..Len(q) /\ Len(q) \in Nat /\ \A i \in 1..Len(q) : q[i] \in S
  OBVIOUS
<1>2. \A x : x \in Range(q) <=> \E i \in 1..Len(q) : q[i] = x
  BY <1>1 DEF Range
<1>3. q = <<>> <=> Len(q) = 0
  BY EmptySeq
<1>4. ASSUME Range(q) = {} PROVE Len(q) = 0
  <2>1. \A i \in 1..Len(q) : q[i] \in Range(q)
    BY <1>2
  <2>2. ~(1 \in 1..Len(q))
    BY <2>1, <1>4
  <2> QED
    BY <2>2, <1>1
<1>5. ASSUME Len(q) = 0 PROVE Range(q) = {}
  BY <1>2, <1>5
<1> QED
  BY <1>1, <1>2, <1>3, <1>4, <1>5

\* VTAILQ_INSERT_TAIL of one and of several.
LEMMA AppendOK ==
  ASSUME NEW S, NEW q \in Seq(S), NEW e \in S
  PROVE  /\ Append(q, e) \in Seq(S)
         /\ Range(Append(q, e)) = Range(q) \cup {e}
         /\ IsInjective(q) /\ e \notin Range(q) => IsInjective(Append(q, e))
<1> DEFINE z == Append(q, e)
<1>1. /\ z \in Seq(S) /\ Len(z) = Len(q) + 1 /\ z[Len(q) + 1] = e
      /\ \A i \in 1..Len(q) : z[i] = q[i]
  OBVIOUS
<1> HIDE DEF z
<1>2. \A x : x \in Range(z) <=> \E i \in 1..Len(q) + 1 : z[i] = x
  BY <1>1, InRange
<1>3. \A x : x \in Range(q) <=> \E i \in 1..Len(q) : q[i] = x
  BY InRange
<1>4. Len(q) \in Nat /\ DOMAIN q = 1..Len(q) /\ DOMAIN z = 1..Len(q) + 1
  BY <1>1, InRange
<1>5. Range(z) = Range(q) \cup {e}
  <2>1. ASSUME NEW x \in Range(z) PROVE x \in Range(q) \cup {e}
    BY <1>1, <1>2, <1>3, <1>4, <2>1
  <2>2. ASSUME NEW x \in Range(q) PROVE x \in Range(z)
    BY <1>1, <1>2, <1>3, <1>4, <2>2
  <2>3. e \in Range(z)
    <3>1. Len(q) + 1 \in 1..Len(q) + 1
      BY <1>4
    <3> QED
      BY <1>1, <1>2, <3>1
  <2> QED
    BY <2>1, <2>2, <2>3
<1>6. ASSUME IsInjective(q), e \notin Range(q) PROVE IsInjective(z)
  <2>1. \A i \in 1..Len(q) : q[i] # e
    BY <1>3, <1>6
  <2> QED
    BY <1>1, <1>4, <1>6, <2>1 DEF IsInjective
<1> QED
  BY <1>1, <1>5, <1>6 DEF z

\* VTAILQ_CONCAT.
LEMMA ConcatOK ==
  ASSUME NEW S, NEW q \in Seq(S), NEW r \in Seq(S)
  PROVE  /\ q \o r \in Seq(S)
         /\ Range(q \o r) = Range(q) \cup Range(r)
         /\ IsInjective(q) /\ IsInjective(r) /\ Range(q) \cap Range(r) = {}
              => IsInjective(q \o r)
<1> DEFINE z == q \o r
<1>1. /\ z \in Seq(S) /\ Len(z) = Len(q) + Len(r)
      /\ \A i \in 1..Len(q) + Len(r) : z[i] = IF i <= Len(q) THEN q[i] ELSE r[i - Len(q)]
  BY ConcatProperties
<1> HIDE DEF z
<1>2. /\ \A x : x \in Range(z) <=> \E i \in 1..Len(q) + Len(r) : z[i] = x
      /\ DOMAIN z = 1..Len(q) + Len(r)
  BY <1>1, InRange
<1>3. /\ \A x : x \in Range(q) <=> \E i \in 1..Len(q) : q[i] = x
      /\ Len(q) \in Nat /\ DOMAIN q = 1..Len(q)
  BY InRange
<1>4. /\ \A x : x \in Range(r) <=> \E i \in 1..Len(r) : r[i] = x
      /\ Len(r) \in Nat /\ DOMAIN r = 1..Len(r)
  BY InRange
<1>5. /\ \A i \in 1..Len(q) : i \in 1..Len(q) + Len(r) /\ z[i] = q[i]
      /\ \A i \in 1..Len(r) : i + Len(q) \in 1..Len(q) + Len(r) /\ z[i + Len(q)] = r[i]
      /\ \A i \in 1..Len(q) + Len(r) :
           \/ i \in 1..Len(q) /\ z[i] = q[i]
           \/ i - Len(q) \in 1..Len(r) /\ z[i] = r[i - Len(q)]
  <2>1. ASSUME NEW i \in 1..Len(q) PROVE i \in 1..Len(q) + Len(r) /\ z[i] = q[i]
    BY <1>1, <1>3, <1>4
  <2>2. ASSUME NEW i \in 1..Len(r)
        PROVE  i + Len(q) \in 1..Len(q) + Len(r) /\ z[i + Len(q)] = r[i]
    <3>1. /\ i + Len(q) \in 1..Len(q) + Len(r) /\ ~(i + Len(q) <= Len(q))
          /\ (i + Len(q)) - Len(q) = i
      BY <1>3, <1>4
    <3> QED
      BY <3>1, <1>1
  <2>3. ASSUME NEW i \in 1..Len(q) + Len(r)
        PROVE  \/ i \in 1..Len(q) /\ z[i] = q[i]
               \/ i - Len(q) \in 1..Len(r) /\ z[i] = r[i - Len(q)]
    <3>1. CASE i <= Len(q)
      BY <3>1, <1>1, <1>3
    <3>2. CASE ~(i <= Len(q))
      <4>1. i - Len(q) \in 1..Len(r)
        BY <3>2, <1>3, <1>4
      <4> QED
        BY <4>1, <3>2, <1>1
    <3> QED
      BY <3>1, <3>2
  <2> QED
    BY <2>1, <2>2, <2>3
<1>6. Range(z) = Range(q) \cup Range(r)
  <2>1. ASSUME NEW x \in Range(z) PROVE x \in Range(q) \cup Range(r)
    <3>1. PICK i \in 1..Len(q) + Len(r) : z[i] = x
      BY <1>2, <2>1
    <3> QED
      BY <3>1, <1>3, <1>4, <1>5
  <2>2. ASSUME NEW x \in Range(q) \cup Range(r) PROVE x \in Range(z)
    BY <1>2, <1>3, <1>4, <1>5, <2>2
  <2> QED
    BY <2>1, <2>2
<1>7. ASSUME IsInjective(q), IsInjective(r), Range(q) \cap Range(r) = {}
      PROVE  IsInjective(z)
  <2>1. \A i \in 1..Len(q), j \in 1..Len(r) : q[i] # r[j]
    BY <1>3, <1>4, <1>7
  <2>2. \A i, j \in 1..Len(q) : q[i] = q[j] => i = j
    BY <1>3, <1>7 DEF IsInjective
  <2>3. \A i, j \in 1..Len(r) : r[i] = r[j] => i = j
    BY <1>4, <1>7 DEF IsInjective
  <2>4. ASSUME NEW i \in DOMAIN z, NEW j \in DOMAIN z, z[i] = z[j] PROVE i = j
    <3>1. i \in Int /\ j \in Int
      BY <1>2, <1>3, <1>4
    <3> QED
      BY <1>2, <1>3, <1>5, <2>1, <2>2, <2>3, <2>4, <3>1, SMTT(30)
  <2> QED
    BY <2>4 DEF IsInjective
<1> QED
  BY <1>1, <1>6, <1>7 DEF z

\* The first one, and the others.
LEMMA TailOK ==
  ASSUME NEW S, NEW q \in Seq(S), q # <<>>, IsInjective(q)
  PROVE  /\ Head(q) \in Range(q)
         /\ Tail(q) \in Seq(S) /\ IsInjective(Tail(q))
         /\ Range(Tail(q)) = Range(q) \ {Head(q)}
<1> DEFINE z == Tail(q)
<1>1. /\ z \in Seq(S) /\ Len(z) = Len(q) - 1 /\ Head(q) = q[1] /\ Len(q) > 0
      /\ \A i \in 1..Len(q) - 1 : z[i] = q[i + 1]
  BY HeadTailProperties, EmptySeq, InRange
<1> HIDE DEF z
<1>2. /\ \A x : x \in Range(z) <=> \E i \in 1..Len(q) - 1 : z[i] = x
      /\ DOMAIN z = 1..Len(q) - 1
  BY <1>1, InRange
<1>3. /\ \A x : x \in Range(q) <=> \E i \in 1..Len(q) : q[i] = x
      /\ Len(q) \in Nat /\ DOMAIN q = 1..Len(q)
  BY InRange
<1>4. 1 \in 1..Len(q)
  BY <1>1, <1>3
<1>5. IsInjective(z)
  BY <1>1, <1>2, <1>3, SMTT(30) DEF IsInjective
<1>6. ASSUME NEW x \in Range(z) PROVE x \in Range(q) /\ x # Head(q)
  <2>1. PICK i \in 1..Len(q) - 1 : z[i] = x
    BY <1>2, <1>6
  <2>2. i + 1 \in 1..Len(q) /\ i + 1 # 1 /\ q[i + 1] = x
    BY <2>1, <1>1, <1>3
  <2> QED
    BY <2>2, <1>1, <1>3, <1>4 DEF IsInjective
<1>7. ASSUME NEW x \in Range(q), x # Head(q) PROVE x \in Range(z)
  <2>1. PICK i \in 1..Len(q) : q[i] = x
    BY <1>3, <1>7
  <2>2. i - 1 \in 1..Len(q) - 1 /\ z[i - 1] = x
    <3>1. i # 1
      BY <2>1, <1>1, <1>7
    <3>2. i - 1 \in 1..Len(q) - 1 /\ (i - 1) + 1 = i
      BY <3>1, <1>3
    <3> QED
      BY <3>2, <2>1, <1>1
  <2> QED
    BY <2>2, <1>2
<1> QED
  BY <1>1, <1>3, <1>4, <1>5, <1>6, <1>7 DEF z

\* VTAILQ_REMOVE.
LEMMA WithoutOK ==
  ASSUME NEW S, NEW q \in Seq(S), NEW e \in S, IsInjective(q)
  PROVE  /\ Without(q, e) \in Seq(S) /\ IsInjective(Without(q, e))
         /\ Range(Without(q, e)) = Range(q) \ {e}
<1>0. /\ \A x : x \in Range(q) <=> \E i \in 1..Len(q) : q[i] = x
      /\ Len(q) \in Nat /\ DOMAIN q = 1..Len(q)
  BY InRange
<1>1. CASE e \in Range(q)
  <2> DEFINE p == CHOOSE i \in DOMAIN q : q[i] = e
             Pos(i) == IF i < p THEN i ELSE i + 1
             z == Without(q, e)
  <2>1. p \in 1..Len(q) /\ q[p] = e
    BY <1>0, <1>1
  <2>2. z = [i \in 1..Len(q) - 1 |-> IF i < p THEN q[i] ELSE q[i + 1]]
    BY <1>1 DEF Without
  <2> HIDE DEF p, z
  <2>3. z \in Seq(S) /\ Len(z) = Len(q) - 1 /\ DOMAIN z = 1..Len(q) - 1
    <3>1. Len(q) - 1 \in Nat
      BY <1>0, <2>1
    <3>2. \A i \in 1..Len(q) - 1 : (IF i < p THEN q[i] ELSE q[i + 1]) \in S
      BY <1>0, <2>1
    <3> QED
      BY <2>2, <3>1, <3>2
  <2>4. \A i \in 1..Len(q) - 1 : Pos(i) \in 1..Len(q) /\ Pos(i) # p /\ z[i] = q[Pos(i)]
    BY <1>0, <2>1, <2>2
  <2>5. \A i, j \in 1..Len(q) - 1 : Pos(i) = Pos(j) => i = j
    BY <1>0, <2>1
  <2>6. \A j \in 1..Len(q) : j # p => \E i \in 1..Len(q) - 1 : Pos(i) = j
    <3> SUFFICES ASSUME NEW j \in 1..Len(q), j # p
                 PROVE  \E i \in 1..Len(q) - 1 : Pos(i) = j
      OBVIOUS
    <3>1. CASE j < p
      <4>1. j \in 1..Len(q) - 1 /\ Pos(j) = j
        BY <1>0, <2>1, <3>1
      <4> QED
        BY <4>1
    <3>2. CASE j > p
      <4>1. j - 1 \in 1..Len(q) - 1 /\ Pos(j - 1) = j
        BY <1>0, <2>1, <3>2
      <4> QED
        BY <4>1
    <3> QED
      BY <1>0, <2>1, <3>1, <3>2
  <2> HIDE DEF Pos
  <2>7. IsInjective(z)
    BY <1>0, <2>3, <2>4, <2>5 DEF IsInjective
  <2>8. \A x : x \in Range(z) <=> \E i \in 1..Len(q) - 1 : z[i] = x
    BY <2>3, InRange
  <2>9. ASSUME NEW x \in Range(z) PROVE x \in Range(q) /\ x # e
    BY <2>9, <2>8, <1>0, <2>1, <2>4 DEF IsInjective
  <2>10. ASSUME NEW x \in Range(q), x # e PROVE x \in Range(z)
    <3>1. PICK j \in 1..Len(q) : q[j] = x
      BY <1>0, <2>10
    <3>2. PICK i \in 1..Len(q) - 1 : Pos(i) = j
      BY <2>1, <2>6, <2>10, <3>1
    <3> QED
      BY <2>4, <2>8, <3>1, <3>2
  <2> QED
    BY <2>3, <2>7, <2>9, <2>10 DEF z
<1>2. CASE e \notin Range(q)
  <2>1. Without(q, e) = q
    BY <1>2 DEF Without
  <2> QED
    BY <1>2, <2>1
<1> QED
  BY <1>1, <1>2

\* Moving one to the front.
LEMMA FrontOK ==
  ASSUME NEW S, NEW q \in Seq(S), NEW e \in S, IsInjective(q), e \in Range(q)
  PROVE  /\ <<e>> \o Without(q, e) \in Seq(S)
         /\ IsInjective(<<e>> \o Without(q, e))
         /\ Range(<<e>> \o Without(q, e)) = Range(q)
<1>1. <<e>> \in Seq(S) /\ Range(<<e>>) = {e} /\ IsInjective(<<e>>)
  BY DEF Range, IsInjective
<1> DEFINE z == Without(q, e)
           u == <<e>>
<1>2. z \in Seq(S) /\ IsInjective(z) /\ Range(z) = Range(q) \ {e}
  BY WithoutOK
<1>3. u \in Seq(S) /\ Range(u) = {e} /\ IsInjective(u)
  BY <1>1
<1> HIDE DEF z, u
<1>4. u \o z \in Seq(S) /\ Range(u \o z) = {e} \cup Range(z) /\ IsInjective(u \o z)
  BY <1>2, <1>3, ConcatOK
<1> QED
  BY <1>2, <1>4 DEF z, u

\* A nonempty set of numbers has a smallest one.
LEMMA FirstIndex ==
  ASSUME NEW T \in SUBSET Nat, T # {}
  PROVE  \E m \in T : \A n \in T : m <= n
<1>1. PICK m \in T : \A n \in T : ~ (<<n, m>> \in OpToRel(<, Nat))
  BY NatLessThanWellFounded, WFMin
<1>2. ASSUME NEW n \in T, n < m PROVE FALSE
  <2>1. <<n, m>> \in OpToRel(<, Nat)
    BY <1>2 DEF OpToRel
  <2> QED
    BY <1>1, <2>1
<1> QED
  BY <1>2

-----------------------------------------------------------------------------
(* The acceptor, the workers and the waiters.                              *)

\* The constants: descriptors are numbers, and no session is one of the marks.
LEMMA Marks ==
  /\ NoFd \notin Fds
  /\ \A s \in Sessions : s # Nobody /\ s # "pipe"
  /\ Nobody # "pipe"
BY AcceptorAssumption DEF NoFd, Nobody

\* accept(2) returns a descriptor that is not open.
LEMMA LowestFree ==
  ASSUME Fds \ Range(fd) # {}
  PROVE  Min(Fds \ Range(fd)) \in Fds \ Range(fd)
<1> DEFINE T == Fds \ Range(fd)
<1>1. T \in SUBSET Nat /\ T # {}
  BY AcceptorAssumption
<1>2. \E m \in T : \A n \in T : m <= n
  BY <1>1, FirstIndex
<1> QED
  BY <1>2 DEF Min

\* In the beginning all sessions are free.
LEMMA AcceptorInvInit == ASSUME AcceptorInit PROVE AcceptorInv
<1> USE DEF AcceptorInit
<1>1. /\ <<>> \in Seq(Sessions) /\ IsInjective(<<>>) /\ Range(<<>>) = {}
  BY DEF IsInjective, Range
<1>2. AcceptorTypeOK
  BY <1>1 DEF AcceptorTypeOK
<1>3. ListsOK /\ Apart
  BY <1>1 DEF ListsOK, Apart
<1>4. FdsOK /\ KnownOK
  BY <1>1 DEF FdsOK, KnownOK
<1>5. RoundOK /\ EventsReachIdle /\ NoPanic
  BY <1>1, Marks DEF RoundOK, EventsReachIdle, NoPanic
<1> QED
  BY <1>2, <1>3, <1>4, <1>5 DEF AcceptorInv

\* vca_acct
LEMMA AcctKeeps ==
  ASSUME AcceptorInv, vca_acct PROVE AcceptorInv'
<1> USE Marks DEF AcceptorInv
<1>0. PICK s \in free : /\ free' = free \ {s}
                        /\ fd' = [fd EXCEPT ![s] = Min(Fds \ Range(fd))]
                        /\ queue' = queue \cup {s}
  BY DEF vca_acct
<1> DEFINE f == Min(Fds \ Range(fd))
<1>1. f \in Fds /\ f \notin Range(fd)
  BY LowestFree DEF vca_acct
<1>2. fd \in [Sessions -> Fds \cup {NoFd}] /\ s \in Sessions
  BY <1>0 DEF AcceptorTypeOK
<1>3. \A t \in Sessions : fd[t] # f
  BY <1>1, <1>2 DEF Range
<1> HIDE DEF f
<1>4. fd' = [fd EXCEPT ![s] = f] /\ fd[s] = NoFd
  BY <1>0, <1>2 DEF f, FdsOK, Apart
<1>5. UNCHANGED <<vca_act, expired, evptr, work, pipe, sesshead, vca_panic, known, armed, ki,
                  round, evs, scan, dotimer, ticked>>
  BY DEF vca_acct, kernel, loopvars
<1>6. AcceptorTypeOK'
  BY <1>0, <1>1, <1>2, <1>4, <1>5 DEF AcceptorTypeOK
<1>7. ListsOK' /\ Apart'
  BY <1>0, <1>5 DEF ListsOK, Apart
<1>8. FdsOK'
  BY <1>0, <1>1, <1>2, <1>3, <1>4, <1>5, ZenonT(40) DEF FdsOK, Apart
<1>9. KnownOK'
  <2>1. f \notin known /\ known \subseteq Fds
    BY <1>3 DEF KnownOK, AcceptorTypeOK
  <2> QED
    BY <1>0, <1>1, <1>2, <1>4, <1>5, <2>1, ZenonT(40) DEF KnownOK
<1>10. RoundOK' /\ NoPanic'
  BY <1>5 DEF RoundOK, NoPanic
<1>11. EventsReachIdle'
  BY <1>0, <1>2, <1>4, <1>5 DEF EventsReachIdle, Apart, AcceptorTypeOK
<1> QED
  BY <1>6, <1>7, <1>8, <1>9, <1>10, <1>11

\* The session of a worker is not the waiter's.
LEMMA WorkersOwn ==
  ASSUME AcceptorInv, NEW s \in work
  PROVE  /\ s \in Sessions /\ fd[s] \in Fds /\ fd[s] # NoFd
         /\ \A f \in Fds : armed[f] # s
         /\ armed[fd[s]] = Nobody
         /\ \A c \in ki : c[1] # fd[s] /\ c[2] # s
         /\ s \notin evs
<1> USE Marks DEF AcceptorInv
<1>1. s \in Sessions /\ fd[s] # NoFd /\ fd[s] \in Fds /\ s \notin Range(sesshead)
  BY DEF FdsOK, AcceptorTypeOK, Apart
<1>2. \A f \in Fds : armed[f] # s
  BY <1>1 DEF EventsReachIdle
<1>3. armed[fd[s]] = Nobody
  <2>1. SUFFICES ASSUME armed[fd[s]] # Nobody PROVE FALSE
    OBVIOUS
  <2>2. armed[fd[s]] \in Sessions /\ fd[armed[fd[s]]] = fd[s]
    BY <1>1, <2>1 DEF EventsReachIdle, AcceptorTypeOK
  <2> QED
    BY <1>1, <1>2, <2>2 DEF FdsOK
<1>4. ASSUME NEW c \in ki PROVE c[1] # fd[s] /\ c[2] # s
  <2>1. c[2] \in Sessions /\ fd[c[2]] = c[1] /\ c[2] \in Range(sesshead)
    BY <1>4 DEF EventsReachIdle, AcceptorTypeOK
  <2> QED
    BY <1>1, <2>1 DEF FdsOK
<1>5. s \notin evs
  BY <1>1 DEF EventsReachIdle
<1> QED
  BY <1>1, <1>2, <1>3, <1>4, <1>5

\* wrk_do_cnt_sess
LEMMA TakeKeeps ==
  ASSUME AcceptorInv, NEW s \in Sessions, WorkerTakes(s)
  PROVE  AcceptorInv'
<1> USE Marks DEF AcceptorInv
<1>1. /\ s \in queue /\ queue' = queue \ {s} /\ work' = work \cup {s}
      /\ UNCHANGED <<vca_act, free, pipe, sesshead, vca_panic, fd, expired, evptr, known,
                     armed, ki, round, evs, scan, dotimer, ticked>>
  BY DEF WorkerTakes, sessvars, kernel, loopvars
<1>2. AcceptorTypeOK' /\ ListsOK' /\ Apart'
  BY <1>1 DEF AcceptorTypeOK, ListsOK, Apart
<1>3. FdsOK' /\ KnownOK' /\ RoundOK' /\ NoPanic' /\ EventsReachIdle'
  BY <1>1 DEF FdsOK, KnownOK, RoundOK, NoPanic, EventsReachIdle
<1> QED
  BY <1>2, <1>3

\* What closing the descriptor of a worker's session leaves.
LEMMA ConnectionClosed ==
  ASSUME AcceptorInv, NEW s \in work,
         work' = work \ {s}, Closed(fd[s]), fd' = [fd EXCEPT ![s] = NoFd],
         \/ free' = free \cup {s} /\ evptr' = [evptr EXCEPT ![s] = FALSE]
         \/ UNCHANGED <<free, evptr>>,
         UNCHANGED <<vca_act, expired, queue, pipe, sesshead, ki, vca_panic,
                     round, evs, scan, dotimer, ticked>>
  PROVE  AcceptorInv'
<1> USE Marks DEF AcceptorInv
<1>1. /\ s \in Sessions /\ fd[s] \in Fds /\ fd[s] # NoFd
      /\ \A f \in Fds : armed[f] # s
      /\ armed[fd[s]] = Nobody
      /\ \A c \in ki : c[1] # fd[s] /\ c[2] # s
  BY WorkersOwn
<1>2. fd \in [Sessions -> Fds \cup {NoFd}] /\ armed \in [Fds -> Sessions \cup {Nobody}]
  BY DEF AcceptorTypeOK
<1>3. known' = known \ {fd[s]} /\ armed' = armed
  BY <1>1, <1>2 DEF Closed
<1>4. AcceptorTypeOK'
  BY <1>1, <1>3 DEF AcceptorTypeOK
<1>5. ListsOK' /\ Apart'
  BY DEF ListsOK, Apart
<1>6. FdsOK'
  BY <1>1, <1>2 DEF FdsOK, Apart
<1>7. KnownOK'
  <2>1. vca_act # "epoll" => known' = {}
    BY <1>3 DEF KnownOK
  <2>2. known' = known \ {fd[s]} /\ evptr \in [Sessions -> BOOLEAN]
    BY <1>3 DEF AcceptorTypeOK
  <2>3. \A f \in known' : \E t \in Sessions : fd'[t] = f
    BY <1>1, <1>2, <2>2 DEF KnownOK
  <2>4. \A t \in Sessions : fd'[t] # NoFd => (evptr'[t] <=> fd'[t] \in known')
    BY <1>1, <1>2, <2>2 DEF KnownOK, FdsOK
  <2>5. \A t \in free' : ~evptr'[t]
    BY <1>1, <1>2, <2>2 DEF KnownOK, AcceptorTypeOK
  <2> QED
    BY <2>1, <2>3, <2>4, <2>5 DEF KnownOK
<1>8. RoundOK' /\ NoPanic'
  BY <1>3 DEF RoundOK, NoPanic
<1>9. EventsReachIdle'
  BY <1>1, <1>2, <1>3 DEF EventsReachIdle, AcceptorTypeOK
<1> QED
  BY <1>4, <1>5, <1>6, <1>7, <1>8, <1>9

\* cnt_done
LEMMA DoneKeeps ==
  ASSUME AcceptorInv, NEW s \in Sessions, WorkerCloses(s)
  PROVE  AcceptorInv'
BY ConnectionClosed DEF WorkerCloses, vca_close_session, SessionFreed, loopvars

\* vca_return_session
LEMMA ReturnKeeps ==
  ASSUME AcceptorInv, NEW s \in Sessions, vca_return_session(s)
  PROVE  AcceptorInv'
<1>1. CASE Closed(fd[s]) /\ fd' = [fd EXCEPT ![s] = NoFd] /\ UNCHANGED pipe
  BY <1>1, ConnectionClosed DEF vca_return_session, loopvars
<1>2. CASE pipe' = Append(pipe, s) /\ UNCHANGED <<fd, known, armed>>
  <2> USE Marks DEF AcceptorInv
  <2>1. /\ s \in work /\ work' = work \ {s}
        /\ UNCHANGED <<vca_act, free, expired, evptr, queue, sesshead, ki, vca_panic,
                       fd, known, armed, round, evs, scan, dotimer, ticked>>
    BY <1>2 DEF vca_return_session, loopvars
  <2>2. /\ pipe' \in Seq(Sessions) /\ IsInjective(pipe')
        /\ Range(pipe') = Range(pipe) \cup {s}
    <3>1. s \notin Range(pipe) /\ pipe \in Seq(Sessions) /\ IsInjective(pipe)
      BY <2>1 DEF Apart, ListsOK
    <3> QED
      BY <3>1, <1>2, AppendOK
  <2>3. pipe' # <<>>
    BY <2>2, InRange
  <2>4. AcceptorTypeOK' /\ ListsOK' /\ Apart'
    BY <2>1, <2>2 DEF AcceptorTypeOK, ListsOK, Apart
  <2>5. FdsOK' /\ KnownOK' /\ NoPanic' /\ EventsReachIdle'
    BY <2>1, <2>2 DEF FdsOK, KnownOK, NoPanic, EventsReachIdle
  <2>6. RoundOK'
    BY <2>1, <2>3 DEF RoundOK
  <2> QED
    BY <2>4, <2>5, <2>6
<1> QED
  BY <1>1, <1>2 DEF vca_return_session

\* What the waiter has armed when the changes put aside are counted in.
LEMMA AppliedOK ==
  ASSUME AcceptorInv
  PROVE  /\ Applied \in [Fds -> Sessions \cup {Nobody}]
         /\ \A f \in Fds : Applied[f] # Nobody =>
              /\ Applied[f] \in Sessions /\ fd[Applied[f]] = f
              /\ Applied[f] \in Range(sesshead)
         /\ \A f \in Fds : \/ Applied[f] = armed[f]
                           \/ <<f, Applied[f]>> \in ki
<1> USE Marks DEF AcceptorInv
<1> DEFINE app == Applied
<1>1. ASSUME NEW f \in Fds
      PROVE  /\ app[f] \in Sessions \cup {Nobody}
             /\ app[f] = armed[f] \/ (app[f] \in Sessions /\ <<f, app[f]>> \in ki)
  <2>1. CASE \E s \in Sessions : <<f, s>> \in ki
    <3>1. app[f] = CHOOSE s \in Sessions : <<f, s>> \in ki
      BY <2>1 DEF Applied
    <3> QED
      BY <2>1, <3>1
  <2>2. CASE ~\E s \in Sessions : <<f, s>> \in ki
    <3>1. app[f] = armed[f]
      BY <2>2 DEF Applied
    <3> QED
      BY <3>1 DEF AcceptorTypeOK
  <2> QED
    BY <2>1, <2>2
<1>2. app \in [Fds -> Sessions \cup {Nobody}]
  <2>1. DOMAIN app = Fds /\ app = [f \in Fds |-> app[f]]
    BY DEF Applied
  <2> QED
    BY <1>1, <2>1
<1> HIDE DEF app
<1>3. ASSUME NEW f \in Fds, app[f] # Nobody
      PROVE  app[f] \in Sessions /\ fd[app[f]] = f /\ app[f] \in Range(sesshead)
  <2>1. CASE app[f] = armed[f]
    BY <1>1, <1>3, <2>1 DEF EventsReachIdle
  <2>2. CASE app[f] \in Sessions /\ <<f, app[f]>> \in ki
    <3>1. <<f, app[f]>>[1] = f /\ <<f, app[f]>>[2] = app[f]
      OBVIOUS
    <3> QED
      BY <2>2, <3>1 DEF EventsReachIdle
  <2> QED
    BY <1>1, <2>1, <2>2
<1> QED
  BY <1>1, <1>2, <1>3 DEF app

\* What is armed when the sessions ss are.
LEMMA ArmOK ==
  ASSUME AcceptorInv, NEW ss \in SUBSET Sessions, Arm(ss)
  PROVE  /\ armed' \in [Fds -> Sessions \cup {Nobody}]
         /\ \A f \in Fds : \/ armed'[f] = armed[f]
                           \/ armed'[f] \in ss /\ fd[armed'[f]] = f
<1>1. ASSUME NEW f \in Fds
      PROVE  armed'[f] = armed[f] \/ (armed'[f] \in ss /\ fd[armed'[f]] = f)
  <2>1. CASE \E s \in ss : fd[s] = f
    <3>1. armed'[f] = CHOOSE s \in ss : fd[s] = f
      BY <2>1 DEF Arm
    <3> QED
      BY <2>1, <3>1
  <2>2. CASE ~\E s \in ss : fd[s] = f
    BY <2>2 DEF Arm
  <2> QED
    BY <2>1, <2>2
<1>2. armed \in [Fds -> Sessions \cup {Nobody}]
  BY DEF AcceptorInv, AcceptorTypeOK
<1>3. armed' = [f \in Fds |-> armed'[f]]
  BY DEF Arm
<1> QED
  BY <1>1, <1>2, <1>3

\* vca_main, until there are events
LEMMA MainWaitKeeps ==
  ASSUME AcceptorInv, vca_main_wait PROVE AcceptorInv'
<1> USE Marks DEF AcceptorInv
<1> DEFINE app == Applied
<1>1. /\ app \in [Fds -> Sessions \cup {Nobody}]
      /\ \A f \in Fds : app[f] # Nobody =>
           app[f] \in Sessions /\ fd[app[f]] = f /\ app[f] \in Range(sesshead)
  BY AppliedOK
<1>2. PICK ready \in SUBSET (Range(app) \ {Nobody}) :
        /\ evs' = ready \cup PipeEvent
        /\ armed' = [f \in Fds |-> IF app[f] \in ready THEN Nobody ELSE app[f]]
  BY DEF vca_main_wait
<1> HIDE DEF app
<1>3. /\ vca_act \in {"epoll", "kqueue"} /\ ki' = {} /\ round' = "events"
      /\ dotimer' = ticked /\ ticked' = FALSE
      /\ UNCHANGED <<vca_act, free, queue, work, pipe, sesshead, scan, known, vca_panic,
                     fd, expired, evptr>>
  BY DEF vca_main_wait, Waiting, sessvars
<1>4. ready \subseteq Sessions /\ ready \subseteq Range(sesshead)
  <2>1. Range(app) = {app[f] : f \in Fds}
    BY <1>1 DEF Range
  <2> QED
    BY <1>1, <1>2, <2>1
<1>5. /\ PipeEvent \subseteq {"pipe"}
      /\ "pipe" \in PipeEvent => pipe # <<>>
  BY DEF PipeEvent
<1>6. AcceptorTypeOK'
  <2>1. armed' \in [Fds -> Sessions \cup {Nobody}] /\ evs' \subseteq Sessions \cup {"pipe"}
    BY <1>1, <1>2, <1>4, <1>5
  <2> QED
    BY <1>3, <2>1 DEF AcceptorTypeOK
<1>7. ListsOK' /\ Apart' /\ FdsOK' /\ KnownOK' /\ NoPanic'
  BY <1>3 DEF ListsOK, Apart, FdsOK, KnownOK, NoPanic
<1>8. RoundOK'
  <2>1. \A f \in Fds : armed'[f] \notin evs'
    <3> TAKE f \in Fds
    <3>2. CASE app[f] \in ready
      <4>1. armed'[f] = Nobody
        BY <1>2, <3>2
      <4> QED
        BY <1>2, <1>4, <1>5, <4>1, Zenon
    <3>3. CASE app[f] \notin ready
      <4>1. armed'[f] = app[f] /\ app[f] \in Sessions \cup {Nobody}
        BY <1>1, <1>2, <3>3
      <4> QED
        BY <1>2, <1>5, <3>3, <4>1, Zenon
    <3> QED
      BY <3>2, <3>3
  <2>2. "pipe" \in evs' => pipe # <<>>
    BY <1>2, <1>4, <1>5
  <2> QED
    BY <1>3, <2>1, <2>2 DEF RoundOK
<1>9. EventsReachIdle'
  <2>1. \A f \in Fds : armed'[f] # Nobody => fd[armed'[f]] = f /\ armed'[f] \in Range(sesshead)
    BY <1>1, <1>2
  <2>2. evs' \ {"pipe"} \subseteq Range(sesshead)
    BY <1>2, <1>4, <1>5
  <2> QED
    BY <1>3, <2>1, <2>2 DEF EventsReachIdle
<1> QED
  BY <1>6, <1>7, <1>8, <1>9

\* The sessions of the pipe get on the list.
LEMMA PipeListed ==
  ASSUME AcceptorInv
  PROVE  /\ sesshead \o pipe \in Seq(Sessions) /\ IsInjective(sesshead \o pipe)
         /\ Range(sesshead \o pipe) = Range(sesshead) \cup Range(pipe)
         /\ Range(pipe) \subseteq Sessions
         /\ \A s \in Range(pipe) : /\ fd[s] \in Fds /\ s \notin evs
                                   /\ s \notin Range(sesshead)
                                   /\ armed[fd[s]] = Nobody
         /\ <<>> \in Seq(Sessions) /\ IsInjective(<<>>) /\ Range(<<>>) = {}
<1> USE Marks DEF AcceptorInv
<1>1. /\ pipe \in Seq(Sessions) /\ IsInjective(pipe)
      /\ sesshead \in Seq(Sessions) /\ IsInjective(sesshead)
  BY DEF ListsOK
<1>2. Range(sesshead) \cap Range(pipe) = {}
  BY DEF Apart
<1>3. Range(pipe) \subseteq Sessions
  BY <1>1, InRange
<1>4. ASSUME NEW s \in Range(pipe)
      PROVE  fd[s] \in Fds /\ s \notin evs /\ s \notin Range(sesshead) /\ armed[fd[s]] = Nobody
  <2>1. s \in Sessions /\ fd[s] # NoFd /\ fd[s] \in Fds /\ s \notin Range(sesshead)
    BY <1>2, <1>3 DEF FdsOK, AcceptorTypeOK
  <2>2. s \notin evs
    BY <2>1 DEF EventsReachIdle
  <2>3. ASSUME armed[fd[s]] # Nobody PROVE FALSE
    <3>1. /\ armed[fd[s]] \in Sessions /\ fd[armed[fd[s]]] = fd[s]
          /\ armed[fd[s]] \in Range(sesshead)
      BY <2>1, <2>3 DEF EventsReachIdle, AcceptorTypeOK
    <3> QED
      BY <2>1, <3>1 DEF FdsOK
  <2> QED
    BY <2>1, <2>2, <2>3
<1>5. <<>> \in Seq(Sessions) /\ IsInjective(<<>>) /\ Range(<<>>) = {}
  BY DEF IsInjective, Range
<1> QED
  BY <1>1, <1>2, <1>3, <1>4, <1>5, ConcatOK

\* The pipe of the epoll waiter: EPOLL_CTL_ADD and EPOLL_CTL_MOD both fit.
LEMMA EevPipeKeeps ==
  ASSUME AcceptorInv, vca_eev_pipe PROVE AcceptorInv'
<1> USE Marks DEF AcceptorInv
<1> DEFINE ss == Range(pipe)
<1>1. /\ sesshead \o pipe \in Seq(Sessions) /\ IsInjective(sesshead \o pipe)
      /\ Range(sesshead \o pipe) = Range(sesshead) \cup ss
      /\ ss \subseteq Sessions
      /\ \A s \in ss : fd[s] \in Fds /\ s \notin evs /\ s \notin Range(sesshead)
      /\ <<>> \in Seq(Sessions) /\ IsInjective(<<>>) /\ Range(<<>>) = {}
  BY PipeListed
<1>2. /\ vca_act = "epoll" /\ round = "events" /\ Arm(ss)
      /\ vca_panic' = \E s \in ss : evptr[s] # (fd[s] \in known)
      /\ known' = known \cup {fd[s] : s \in ss}
      /\ evptr' = [s \in Sessions |-> evptr[s] \/ s \in ss]
      /\ sesshead' = sesshead \o pipe /\ pipe' = <<>> /\ evs' = evs \ {"pipe"}
      /\ UNCHANGED <<vca_act, free, fd, expired, queue, work, round, scan, dotimer,
                     ticked, ki>>
  BY DEF vca_eev_pipe, Waiting
<1>3. /\ armed' \in [Fds -> Sessions \cup {Nobody}]
      /\ \A f \in Fds : \/ armed'[f] = armed[f]
                        \/ armed'[f] \in ss /\ fd[armed'[f]] = f
  BY <1>1, <1>2, ArmOK
<1>4. /\ Range(sesshead') = Range(sesshead) \cup ss /\ Range(pipe') = {}
  BY <1>1, <1>2
<1>5. ~vca_panic'
  <2>1. \A s \in ss : evptr[s] \in BOOLEAN /\ (evptr[s] <=> fd[s] \in known)
    BY <1>1 DEF KnownOK, AcceptorTypeOK
  <2> QED
    BY <1>2, <2>1
<1>6. ListsOK'
  BY <1>1, <1>2 DEF ListsOK
<1>7. ss \cap free = {} /\ \A s \in ss : fd[s] # NoFd
  BY <1>1 DEF Apart
<1> HIDE DEF ss
<1>8. AcceptorTypeOK'
  <2>1. /\ Range(sesshead') \subseteq Sessions /\ Range(pipe') \subseteq Sessions
    BY <1>1, <1>4 DEF AcceptorTypeOK
  <2>2. known' \subseteq Fds
    <3>1. known' = known \cup {fd[s] : s \in ss} /\ known \subseteq Fds
      BY <1>2 DEF AcceptorTypeOK
    <3>2. \A s \in ss : fd[s] \in Fds
      BY <1>1
    <3> QED
      BY <3>1, <3>2
  <2>3. evptr' \in [Sessions -> BOOLEAN]
    <3>1. \A s \in Sessions : (evptr[s] \/ s \in ss) \in BOOLEAN
      BY Zenon
    <3> QED
      BY <1>2, <3>1, Zenon
  <2> QED
    BY <1>2, <1>3, <1>5, <2>1, <2>2, <2>3 DEF AcceptorTypeOK
<1>9. Apart' /\ FdsOK'
  BY <1>2, <1>4, <1>7 DEF Apart, FdsOK, ss
<1>10. KnownOK'
  <2>1. \A f \in known' : \E s \in Sessions : fd[s] = f
    BY <1>1, <1>2 DEF KnownOK
  <2>2. ASSUME NEW s \in Sessions, fd[s] # NoFd PROVE evptr'[s] <=> fd[s] \in known'
    <3>1. \A t \in ss : fd[t] = fd[s] => t = s
      BY <1>1, <2>2 DEF FdsOK
    <3>2. evptr[s] <=> fd[s] \in known
      BY <2>2 DEF KnownOK
    <3> QED
      BY <1>2, <3>1, <3>2
  <2>3. \A s \in free : ~evptr'[s]
    BY <1>2, <1>7 DEF KnownOK, AcceptorTypeOK
  <2> QED
    BY <1>2, <2>1, <2>2, <2>3 DEF KnownOK
<1>11. RoundOK'
  BY <1>1, <1>2, <1>3 DEF RoundOK
<1>12. EventsReachIdle'
  BY <1>2, <1>3, <1>4 DEF EventsReachIdle
<1> QED
  BY <1>5, <1>6, <1>8, <1>9, <1>10, <1>11, <1>12 DEF NoPanic

\* The pipe of the kqueue waiter.
LEMMA KevPipeKeeps ==
  ASSUME AcceptorInv, vca_kev_pipe PROVE AcceptorInv'
<1> USE Marks DEF AcceptorInv
<1> DEFINE ss == Range(pipe)
<1>1. /\ sesshead \o pipe \in Seq(Sessions) /\ IsInjective(sesshead \o pipe)
      /\ Range(sesshead \o pipe) = Range(sesshead) \cup ss
      /\ ss \subseteq Sessions
      /\ \A s \in ss : fd[s] \in Fds /\ s \notin evs /\ s \notin Range(sesshead)
      /\ <<>> \in Seq(Sessions) /\ IsInjective(<<>>) /\ Range(<<>>) = {}
  BY PipeListed
<1>2. /\ vca_act = "kqueue" /\ round = "events"
      /\ ki' = ki \cup {<<fd[s], s>> : s \in ss}
      /\ sesshead' = sesshead \o pipe /\ pipe' = <<>> /\ evs' = evs \ {"pipe"}
      /\ UNCHANGED <<vca_act, free, queue, work, round, scan, dotimer, ticked, known,
                     armed, vca_panic, fd, expired, evptr>>
  BY DEF vca_kev_pipe, Waiting, sessvars
<1>3. Range(sesshead') = Range(sesshead) \cup ss /\ Range(pipe') = {}
  BY <1>1, <1>2
<1>4. ListsOK'
  BY <1>1, <1>2 DEF ListsOK
<1>5. \A c \in ki' : \/ c \in ki
                     \/ \E s \in ss : c = <<fd[s], s>> /\ c[1] = fd[s] /\ c[2] = s
  BY <1>2
<1>6. AcceptorTypeOK'
  <2>1. /\ Range(sesshead') \subseteq Sessions /\ Range(pipe') \subseteq Sessions
    BY <1>1, <1>3 DEF AcceptorTypeOK
  <2>2. ki' \subseteq Fds \X Sessions
    BY <1>1, <1>2 DEF AcceptorTypeOK
  <2> QED
    BY <1>2, <2>1, <2>2 DEF AcceptorTypeOK
<1>7. Apart' /\ FdsOK' /\ KnownOK' /\ NoPanic'
  BY <1>2, <1>3 DEF Apart, FdsOK, KnownOK, NoPanic
<1>8. RoundOK'
  BY <1>1, <1>2, <1>5 DEF RoundOK
<1>9. EventsReachIdle'
  BY <1>2, <1>3, <1>5 DEF EventsReachIdle
<1> QED
  BY <1>4, <1>6, <1>7, <1>8, <1>9

\* A session with an event is on the list, and no other event of it is to come.
LEMMA EventOwns ==
  ASSUME AcceptorInv, NEW s \in Sessions, s \in Range(sesshead)
  PROVE  /\ fd[s] \in Fds /\ fd[s] # NoFd /\ s \notin free \cup queue \cup work
         /\ s \notin Range(pipe)
         /\ \A t \in Sessions : fd[t] = fd[s] => t = s
         /\ \A f \in Fds : armed[f] = s => f = fd[s]
         /\ \A f \in Fds : f = fd[s] => armed[f] \in {s, Nobody}
         /\ \A c \in ki : (c[2] = s <=> c[1] = fd[s])
         /\ Without(sesshead, s) \in Seq(Sessions)
         /\ IsInjective(Without(sesshead, s))
         /\ Range(Without(sesshead, s)) = Range(sesshead) \ {s}
<1> USE Marks DEF AcceptorInv
<1>1. fd[s] \in Fds /\ fd[s] # NoFd
  BY DEF FdsOK, AcceptorTypeOK
<1>2. s \notin free \cup queue \cup work /\ s \notin Range(pipe)
  BY DEF Apart
<1>3. \A t \in Sessions : fd[t] = fd[s] => t = s
  BY <1>1 DEF FdsOK
<1>4. /\ \A f \in Fds : armed[f] = s => f = fd[s]
      /\ \A f \in Fds : f = fd[s] => armed[f] \in {s, Nobody}
  BY <1>3 DEF EventsReachIdle, AcceptorTypeOK
<1>5. ASSUME NEW c \in ki PROVE c[2] = s <=> c[1] = fd[s]
  <2>1. c[2] \in Sessions /\ fd[c[2]] = c[1]
    BY <1>5 DEF EventsReachIdle, AcceptorTypeOK
  <2> QED
    BY <1>3, <2>1
<1>6. sesshead \in Seq(Sessions) /\ IsInjective(sesshead)
  BY DEF ListsOK
<1> QED
  BY <1>1, <1>2, <1>3, <1>4, <1>5, <1>6, WithoutOK

\* A session that no event is to come for leaves the list, to the pools' queue
\* or for good.
LEMMA LeavesList ==
  ASSUME AcceptorInv, vca_act # "poll",
         NEW s \in Sessions, s \in Range(sesshead),
         \/ /\ queue' = queue \cup {s} /\ UNCHANGED <<fd, known, armed, free, evptr>>
            /\ \A f \in Fds : armed[f] # s
         \/ vca_close_session(s) /\ UNCHANGED queue,
         sesshead' \in Seq(Sessions), IsInjective(sesshead'),
         Range(sesshead') = Range(sesshead) \ {s},
         expired' = [expired EXCEPT ![s] = FALSE],
         \A c \in ki : c[2] # s,
         evs' \subseteq evs \ {s}, "pipe" \in evs' => "pipe" \in evs,
         round' \in {"events", "timer"},
         round' = "timer" => ki = {} /\ evs' = {},
         dotimer' = dotimer,
         UNCHANGED <<vca_act, work, pipe, scan, ticked, ki, vca_panic>>
  PROVE  AcceptorInv'
<1> USE Marks DEF AcceptorInv
<1>1. /\ fd[s] \in Fds /\ fd[s] # NoFd /\ s \notin free \cup queue \cup work
      /\ s \notin Range(pipe)
      /\ \A t \in Sessions : fd[t] = fd[s] => t = s
      /\ \A f \in Fds : armed[f] = s => f = fd[s]
      /\ \A f \in Fds : f = fd[s] => armed[f] \in {s, Nobody}
      /\ \A c \in ki : (c[2] = s <=> c[1] = fd[s])
  BY EventOwns
<1>2. fd \in [Sessions -> Fds \cup {NoFd}] /\ armed \in [Fds -> Sessions \cup {Nobody}]
  BY DEF AcceptorTypeOK
<1>3. scan = <<>> /\ scan' = <<>> /\ ListsOK'
  BY DEF RoundOK, ListsOK
<1>4. AcceptorTypeOK' /\ NoPanic'
  <2>1. Range(sesshead') \subseteq Sessions /\ Range(pipe') \subseteq Sessions
        /\ Range(scan') \subseteq Sessions
    BY DEF AcceptorTypeOK
  <2>2. /\ armed' \in [Fds -> Sessions \cup {Nobody}] /\ known' \subseteq Fds
        /\ fd' \in [Sessions -> Fds \cup {NoFd}]
        /\ free' \subseteq Sessions /\ queue' \subseteq Sessions
    <3>1. known \subseteq Fds /\ free \subseteq Sessions /\ queue \subseteq Sessions
      BY DEF AcceptorTypeOK
    <3>2. CASE vca_close_session(s) /\ UNCHANGED queue
      BY <1>1, <1>2, <3>1, <3>2 DEF vca_close_session, Closed, SessionFreed
    <3>3. CASE queue' = queue \cup {s} /\ UNCHANGED <<fd, known, armed, free, evptr>>
      BY <1>2, <3>1, <3>3
    <3> QED
      BY <3>2, <3>3
  <2>3. evptr' \in [Sessions -> BOOLEAN]
    BY DEF vca_close_session, SessionFreed, AcceptorTypeOK
  <2>4. expired' \in [Sessions -> BOOLEAN]
    BY DEF AcceptorTypeOK
  <2> QED
    BY <2>1, <2>2, <2>3, <2>4 DEF AcceptorTypeOK, NoPanic
<1>5. CASE queue' = queue \cup {s} /\ UNCHANGED <<fd, known, armed, free, evptr>>
           /\ \A f \in Fds : armed[f] # s
  <2>1. Apart' /\ FdsOK' /\ KnownOK'
    BY <1>1, <1>5 DEF Apart, FdsOK, KnownOK
  <2>2. RoundOK'
    BY <1>3, <1>5 DEF RoundOK
  <2>3. EventsReachIdle'
    BY <1>2, <1>5 DEF EventsReachIdle
  <2> QED
    BY <1>3, <1>4, <2>1, <2>2, <2>3
<1>6. CASE vca_close_session(s) /\ UNCHANGED queue
  <2>1. /\ free' = free \cup {s} /\ evptr' = [evptr EXCEPT ![s] = FALSE]
        /\ fd' = [fd EXCEPT ![s] = NoFd] /\ known' = known \ {fd[s]}
        /\ armed' = [armed EXCEPT ![fd[s]] = Nobody]
    BY <1>6 DEF vca_close_session, Closed, SessionFreed
  <2>2. /\ \A f \in Fds : armed'[f] # Nobody => armed'[f] = armed[f] /\ armed[f] # s
        /\ \A f \in Fds : armed'[f] = Nobody \/ armed'[f] = armed[f]
    BY <1>1, <1>2, <2>1
  <2>3. Apart'
    BY <1>1, <2>1, <1>6 DEF Apart
  <2>4. FdsOK'
    BY <1>1, <1>2, <2>1, <1>6 DEF FdsOK
  <2>5. KnownOK'
    <3>1. vca_act' # "epoll" => known' = {}
      BY <2>1 DEF KnownOK
    <3>2. evptr \in [Sessions -> BOOLEAN] /\ free \subseteq Sessions
      BY DEF AcceptorTypeOK
    <3>3. \A f \in known' : \E t \in Sessions : fd'[t] = f
      BY <1>1, <1>2, <2>1 DEF KnownOK
    <3>4. \A t \in Sessions : fd'[t] # NoFd => (evptr'[t] <=> fd'[t] \in known')
      BY <1>1, <1>2, <2>1, <3>2 DEF KnownOK
    <3>5. \A t \in free' : ~evptr'[t]
      BY <1>1, <2>1, <3>2 DEF KnownOK
    <3> QED
      BY <3>1, <3>3, <3>4, <3>5 DEF KnownOK
  <2>6. RoundOK'
    <3>1. Nobody \notin evs'
      BY DEF AcceptorTypeOK
    <3> QED
      BY <1>3, <2>2, <3>1, <1>6 DEF RoundOK
  <2>7. EventsReachIdle'
    <3>1. \A f \in Fds : armed'[f] # Nobody => fd'[armed'[f]] = f /\ armed'[f] \in Range(sesshead')
      BY <1>2, <2>1, <2>2 DEF EventsReachIdle
    <3>2. \A c \in ki : fd'[c[2]] = c[1] /\ c[2] \in Range(sesshead')
      BY <1>2, <2>1 DEF EventsReachIdle, AcceptorTypeOK
    <3> QED
      BY <3>1, <3>2 DEF EventsReachIdle
  <2> QED
    BY <1>3, <1>4, <2>3, <2>4, <2>5, <2>6, <2>7
<1> QED
  BY <1>5, <1>6

\* vca_handover of a session with an event
LEMMA HandoverKeeps ==
  ASSUME AcceptorInv, vca_act # "poll",
         NEW s \in Sessions, s \in evs, vca_handover(s),
         evs' \subseteq evs \ {s},
         round' \in {"events", "timer"},
         round' = "timer" => ki = {} /\ evs' = {},
         dotimer' = dotimer,
         UNCHANGED <<vca_act, work, pipe, scan, ticked, ki, vca_panic>>
  PROVE  AcceptorInv'
<1>1. s \in Range(sesshead) /\ s # "pipe"
  BY Marks DEF AcceptorInv, EventsReachIdle
<1>2. /\ sesshead' \in Seq(Sessions) /\ IsInjective(sesshead')
      /\ Range(sesshead') = Range(sesshead) \ {s}
  BY <1>1, EventOwns DEF vca_handover
<1>3. (\A f \in Fds : armed[f] # s) /\ \A c \in ki : c[2] # s
  BY DEF AcceptorInv, RoundOK
<1>4. \/ /\ queue' = queue \cup {s} /\ UNCHANGED <<fd, known, armed, free, evptr>>
         /\ \A f \in Fds : armed[f] # s
      \/ vca_close_session(s) /\ UNCHANGED queue
  BY <1>3 DEF vca_handover, WRK_QueueSession
<1>5. expired' = [expired EXCEPT ![s] = FALSE]
  BY DEF vca_handover
<1> QED
  BY <1>1, <1>2, <1>3, <1>4, <1>5, LeavesList

\* A session that had an event is armed again, or may be later.
LEMMA RearmKeeps ==
  ASSUME AcceptorInv, vca_act # "poll", round = "events",
         NEW s \in Sessions, s \in evs, evs' \subseteq evs \ {s},
         armed' \in [Fds -> Sessions \cup {Nobody}],
         \A f \in Fds : armed'[f] = armed[f] \/ (armed'[f] = s /\ f = fd[s]),
         ki' \subseteq ki \cup {<<fd[s], s>>}, vca_act # "kqueue" => ki' = ki,
         round' \in {"events", "timer"},
         round' = "timer" => ki' = {} /\ evs' = {},
         UNCHANGED <<vca_act, free, fd, expired, evptr, queue, known, sesshead,
                     work, pipe, scan, dotimer, ticked, vca_panic>>
  PROVE  AcceptorInv'
<1> USE Marks DEF AcceptorInv
<1>1. s \in Range(sesshead) /\ s # "pipe"
  BY DEF EventsReachIdle
<1>2. fd[s] \in Fds
  BY <1>1, EventOwns
<1>3. ListsOK' /\ Apart' /\ FdsOK' /\ KnownOK' /\ NoPanic'
  BY DEF ListsOK, Apart, FdsOK, KnownOK, NoPanic
<1>4. AcceptorTypeOK'
  <2>1. ki' \subseteq Fds \X Sessions
    BY <1>2 DEF AcceptorTypeOK
  <2> QED
    BY <2>1 DEF AcceptorTypeOK
<1>5. \A c \in ki' : c \in ki \/ (c[1] = fd[s] /\ c[2] = s)
  OBVIOUS
<1>6. RoundOK'
  BY <1>5 DEF RoundOK
<1>7. EventsReachIdle'
  BY <1>1, <1>5 DEF EventsReachIdle
<1> QED
  BY <1>3, <1>4, <1>6, <1>7

\* vca_eev
LEMMA EevKeeps ==
  ASSUME AcceptorInv, NEW s \in Sessions, vca_eev(s)
  PROVE  AcceptorInv'
<1>1. /\ vca_act = "epoll" /\ round = "events" /\ s \in evs /\ evs' = evs \ {s}
      /\ UNCHANGED <<vca_act, work, pipe, round, scan, dotimer, ticked, ki, vca_panic>>
  BY DEF vca_eev, Waiting
<1>2. CASE vca_handover(s)
  BY <1>1, <1>2, HandoverKeeps
<1>3. CASE /\ armed' = [armed EXCEPT ![fd[s]] = s]
           /\ UNCHANGED <<free, fd, expired, evptr, queue, known, sesshead>>
  <2>1. armed \in [Fds -> Sessions \cup {Nobody}]
    BY DEF AcceptorInv, AcceptorTypeOK
  <2>2. /\ armed' \in [Fds -> Sessions \cup {Nobody}]
        /\ \A f \in Fds : armed'[f] = armed[f] \/ (armed'[f] = s /\ f = fd[s])
    BY <1>3, <2>1
  <2> QED
    BY <1>1, <1>3, <2>2, RearmKeeps
<1> QED
  BY <1>2, <1>3 DEF vca_eev

\* vca_kev
LEMMA KevKeeps ==
  ASSUME AcceptorInv, NEW s \in Sessions, vca_kev(s)
  PROVE  AcceptorInv'
<1>1. /\ vca_act = "kqueue" /\ round = "events" /\ s \in evs /\ evs' = evs \ {s}
      /\ UNCHANGED <<vca_act, work, pipe, round, scan, dotimer, ticked, vca_panic>>
  BY DEF vca_kev, Waiting
<1>2. CASE vca_handover(s) /\ UNCHANGED ki
  BY <1>1, <1>2, HandoverKeeps
<1>3. CASE /\ ki' \in {ki, ki \cup {<<fd[s], s>>}}
           /\ UNCHANGED <<free, fd, expired, evptr, queue, known, armed, sesshead>>
  <2>1. armed \in [Fds -> Sessions \cup {Nobody}]
    BY DEF AcceptorInv, AcceptorTypeOK
  <2>2. ki' \subseteq ki \cup {<<fd[s], s>>}
    BY <1>3
  <2> QED
    BY <1>1, <1>3, <2>1, <2>2, RearmKeeps
<1> QED
  BY <1>2, <1>3 DEF vca_kev

\* vca_main and vca_kq_flush, when all events are handled
LEMMA EventsDoneKeeps ==
  ASSUME AcceptorInv, vca_events_done PROVE AcceptorInv'
<1> USE Marks DEF AcceptorInv
<1>1. /\ vca_act \in {"epoll", "kqueue"} /\ evs = {}
      /\ round' = IF dotimer THEN "timer" ELSE "wait"
      /\ IF dotimer THEN armed' = Applied /\ ki' = {} ELSE UNCHANGED <<armed, ki>>
      /\ UNCHANGED <<vca_act, free, queue, work, pipe, sesshead, evs, scan, dotimer,
                     ticked, known, vca_panic, fd, expired, evptr>>
  BY DEF vca_events_done, Waiting, sessvars
<1>2. /\ Applied \in [Fds -> Sessions \cup {Nobody}]
      /\ \A f \in Fds : Applied[f] # Nobody =>
           /\ Applied[f] \in Sessions /\ fd[Applied[f]] = f
           /\ Applied[f] \in Range(sesshead)
  BY AppliedOK
<1>3. ListsOK' /\ Apart' /\ FdsOK' /\ KnownOK' /\ NoPanic'
  BY <1>1 DEF ListsOK, Apart, FdsOK, KnownOK, NoPanic
<1>4. AcceptorTypeOK'
  BY <1>1, <1>2 DEF AcceptorTypeOK
<1>5. RoundOK'
  BY <1>1 DEF RoundOK
<1>6. EventsReachIdle'
  BY <1>1, <1>2 DEF EventsReachIdle
<1> QED
  BY <1>3, <1>4, <1>5, <1>6

\* The timeouts
LEMMA TimeoutKeeps ==
  ASSUME AcceptorInv, vca_timeout PROVE AcceptorInv'
<1>1. /\ vca_act # "poll" /\ round = "timer"
      /\ UNCHANGED <<vca_act, queue, work, pipe, evs, scan, ticked, ki, vca_panic>>
  BY DEF vca_timeout, Waiting
<1>2. evs = {} /\ ki = {}
  BY <1>1 DEF AcceptorInv, RoundOK
<1>3. CASE sesshead # <<>> /\ expired[Head(sesshead)]
  <2> DEFINE s == Head(sesshead)
  <2>1. /\ vca_close_session(s) /\ sesshead' = Tail(sesshead)
        /\ expired' = [expired EXCEPT ![s] = FALSE]
        /\ UNCHANGED <<round, dotimer>>
    BY <1>3 DEF vca_timeout
  <2>2. /\ s \in Range(sesshead) /\ sesshead' \in Seq(Sessions)
        /\ IsInjective(sesshead') /\ Range(sesshead') = Range(sesshead) \ {s}
    BY <1>3, <2>1, TailOK DEF AcceptorInv, ListsOK
  <2>3. s \in Sessions
    BY <2>2 DEF AcceptorInv, AcceptorTypeOK
  <2> HIDE DEF s
  <2> QED
    BY <1>1, <1>2, <2>1, <2>2, <2>3, LeavesList
<1>4. CASE ~(sesshead # <<>> /\ expired[Head(sesshead)])
  <2>1. /\ round' = "wait" /\ dotimer' = FALSE
        /\ UNCHANGED <<free, fd, expired, evptr, sesshead, known, armed>>
    BY <1>4 DEF vca_timeout
  <2>2. AcceptorTypeOK'
    BY <1>1, <2>1 DEF AcceptorInv, AcceptorTypeOK
  <2>3. ListsOK' /\ Apart' /\ FdsOK' /\ KnownOK' /\ NoPanic' /\ EventsReachIdle'
    BY <1>1, <2>1 DEF AcceptorInv, ListsOK, Apart, FdsOK, KnownOK, NoPanic, EventsReachIdle
  <2>4. RoundOK'
    BY <1>1, <1>2, <2>1 DEF AcceptorInv, RoundOK
  <2> QED
    BY <2>2, <2>3, <2>4 DEF AcceptorInv
<1> QED
  BY <1>3, <1>4

\* port_getn
LEMMA PortsWaitKeeps ==
  ASSUME AcceptorInv, vca_ports_wait PROVE AcceptorInv'
<1> USE Marks DEF AcceptorInv
<1>1. /\ vca_act = "ports" /\ round = "wait" /\ round' = "events"
      /\ UNCHANGED <<vca_act, free, queue, work, pipe, sesshead, scan, dotimer, ticked,
                     known, ki, vca_panic, fd, expired, evptr>>
  BY DEF vca_ports_wait, Waiting, sessvars
<1>2. armed \in [Fds -> Sessions \cup {Nobody}] /\ evs = {} /\ ki = {}
  BY <1>1 DEF AcceptorTypeOK, RoundOK
<1>3. /\ PipeEvent \subseteq {"pipe"}
      /\ "pipe" \in PipeEvent => pipe # <<>>
  BY DEF PipeEvent
<1>4. /\ armed' \in [Fds -> Sessions \cup {Nobody}]
      /\ \A f \in Fds : armed'[f] = armed[f] \/ armed'[f] = Nobody
      /\ \/ evs' \subseteq PipeEvent /\ armed' = armed
         \/ \E f \in Fds : /\ armed[f] # Nobody /\ evs' = {armed[f]}
                           /\ armed'[f] = Nobody
  BY <1>2 DEF vca_ports_wait
<1>5. /\ evs' \subseteq Sessions \cup {"pipe"} /\ evs' \ {"pipe"} \subseteq Range(sesshead)
      /\ "pipe" \in evs' => pipe # <<>>
  <2>1. CASE evs' \subseteq PipeEvent
    BY <1>3, <2>1
  <2>2. CASE \E f \in Fds : armed[f] # Nobody /\ evs' = {armed[f]}
    <3>1. PICK f \in Fds : armed[f] # Nobody /\ evs' = {armed[f]}
      BY <2>2
    <3>2. armed[f] \in Sessions /\ armed[f] \in Range(sesshead)
      BY <1>2, <3>1 DEF EventsReachIdle
    <3> QED
      BY <3>1, <3>2
  <2> QED
    BY <1>4, <2>1, <2>2
<1>6. \A f \in Fds : armed'[f] \notin evs'
  <2>1. CASE evs' \subseteq PipeEvent
    BY <1>2, <1>3, <1>4, <2>1
  <2>2. CASE \E f \in Fds : /\ armed[f] # Nobody /\ evs' = {armed[f]}
                            /\ armed'[f] = Nobody
    <3>1. PICK f \in Fds : armed[f] # Nobody /\ evs' = {armed[f]} /\ armed'[f] = Nobody
      BY <2>2
    <3>2. \A g \in Fds : armed[g] = armed[f] => g = f
      BY <3>1, SMTT(30) DEF EventsReachIdle
    <3> QED
      BY <1>4, <3>1, <3>2
  <2> QED
    BY <1>4, <2>1, <2>2, SMTT(30)
<1>7. ListsOK' /\ Apart' /\ FdsOK' /\ KnownOK' /\ NoPanic'
  BY <1>1 DEF ListsOK, Apart, FdsOK, KnownOK, NoPanic
<1>8. AcceptorTypeOK'
  BY <1>1, <1>4, <1>5 DEF AcceptorTypeOK
<1>9. RoundOK'
  BY <1>1, <1>2, <1>5, <1>6 DEF RoundOK
<1>10. EventsReachIdle'
  BY <1>1, <1>4, <1>5 DEF EventsReachIdle
<1> QED
  BY <1>7, <1>8, <1>9, <1>10

\* vca_port_ev
LEMMA PortEvKeeps ==
  ASSUME AcceptorInv, vca_port_ev PROVE AcceptorInv'
<1> USE Marks
<1>1. /\ vca_act = "ports" /\ round = "events" /\ round' = "timer" /\ evs' = {}
      /\ UNCHANGED <<vca_act, work, scan, dotimer, ticked, ki, vca_panic>>
  BY DEF vca_port_ev, Waiting
<1>2. ki = {}
  BY <1>1 DEF AcceptorInv, RoundOK
<1>3. CASE /\ "pipe" \in evs
           /\ sesshead' = Append(sesshead, Head(pipe))
           /\ pipe' = Tail(pipe)
           /\ Arm({Head(pipe)})
           /\ UNCHANGED <<free, fd, expired, evptr, queue, known>>
  <2> USE DEF AcceptorInv
  <2> DEFINE s == Head(pipe)
  <2>1. pipe # <<>> /\ pipe \in Seq(Sessions) /\ IsInjective(pipe)
    BY <1>3 DEF RoundOK, ListsOK
  <2>2. /\ s \in Range(pipe) /\ pipe' \in Seq(Sessions)
        /\ IsInjective(pipe') /\ Range(pipe') = Range(pipe) \ {s}
    BY <1>3, <2>1, TailOK
  <2>3. s \in Sessions /\ s \notin Range(sesshead)
    BY <2>1, <2>2, InRange DEF Apart
  <2>4. /\ armed' \in [Fds -> Sessions \cup {Nobody}]
        /\ \A f \in Fds : armed'[f] = armed[f] \/ (armed'[f] = s /\ fd[armed'[f]] = f)
    BY <1>3, <2>3, ArmOK
  <2> HIDE DEF s
  <2>5. sesshead' = Append(sesshead, s)
    BY <1>3 DEF s
  <2>6. /\ sesshead' \in Seq(Sessions) /\ IsInjective(sesshead')
        /\ Range(sesshead') = Range(sesshead) \cup {s}
    BY <2>3, <2>5, AppendOK DEF ListsOK
  <2>7. AcceptorTypeOK'
    <3>1. Range(pipe') \subseteq Sessions /\ Range(sesshead') \subseteq Sessions
      BY <2>2, <2>3, <2>6 DEF AcceptorTypeOK
    <3> QED
      BY <1>1, <1>3, <2>4, <3>1 DEF AcceptorTypeOK
  <2>8. ListsOK' /\ NoPanic'
    BY <1>1, <2>2, <2>6 DEF ListsOK, NoPanic
  <2>9. Apart' /\ FdsOK' /\ KnownOK'
    BY <1>1, <1>3, <2>2, <2>6 DEF Apart, FdsOK, KnownOK
  <2>10. RoundOK'
    BY <1>1, <1>2 DEF RoundOK
  <2>11. EventsReachIdle'
    BY <1>1, <1>2, <1>3, <2>4, <2>6 DEF EventsReachIdle
  <2> QED
    BY <2>7, <2>8, <2>9, <2>10, <2>11
<1>4. CASE \E s \in evs \ {"pipe"} :
             /\ \/ /\ Arm({s})
                   /\ UNCHANGED <<free, fd, expired, evptr, queue, known, sesshead>>
                \/ vca_handover(s)
             /\ UNCHANGED pipe
  <2>1. PICK s \in evs \ {"pipe"} :
             /\ \/ /\ Arm({s})
                   /\ UNCHANGED <<free, fd, expired, evptr, queue, known, sesshead>>
                \/ vca_handover(s)
             /\ UNCHANGED pipe
    BY <1>4
  <2>2. s \in Sessions
    BY DEF AcceptorInv, AcceptorTypeOK
  <2>3. CASE vca_handover(s)
    BY <1>1, <1>2, <2>1, <2>2, <2>3, HandoverKeeps
  <2>4. CASE Arm({s}) /\ UNCHANGED <<free, fd, expired, evptr, queue, known, sesshead>>
    <3>1. /\ armed' \in [Fds -> Sessions \cup {Nobody}]
          /\ \A f \in Fds : armed'[f] = armed[f] \/ (armed'[f] \in {s} /\ fd[armed'[f]] = f)
      BY <2>2, <2>4, ArmOK
    <3>2. \A f \in Fds : armed'[f] = armed[f] \/ (armed'[f] = s /\ f = fd[s])
      BY <3>1
    <3> QED
      BY <1>1, <1>2, <2>1, <2>2, <2>4, <3>1, <3>2, RearmKeeps
  <2> QED
    BY <2>1, <2>3, <2>4
<1>5. CASE /\ evs = {}
           /\ UNCHANGED <<free, fd, expired, evptr, queue, known, armed, sesshead, pipe>>
  <2> USE DEF AcceptorInv
  <2>1. AcceptorTypeOK' /\ ListsOK' /\ Apart' /\ FdsOK' /\ KnownOK' /\ NoPanic'
    BY <1>1, <1>5 DEF AcceptorTypeOK, ListsOK, Apart, FdsOK, KnownOK, NoPanic
  <2>2. RoundOK' /\ EventsReachIdle'
    BY <1>1, <1>2, <1>5 DEF RoundOK, EventsReachIdle
  <2> QED
    BY <2>1, <2>2
<1> QED
  BY <1>3, <1>4, <1>5 DEF vca_port_ev

\* poll(2)
LEMMA PollWaitKeeps ==
  ASSUME AcceptorInv, vca_poll_wait PROVE AcceptorInv'
<1> USE Marks DEF AcceptorInv
<1>1. /\ vca_act = "poll" /\ round = "wait" /\ round' = "events" /\ scan' = sesshead
      /\ UNCHANGED <<vca_act, free, queue, work, pipe, sesshead, dotimer, ticked, vca_panic,
                     fd, expired, evptr, known, armed, ki>>
  BY DEF vca_poll_wait, Waiting, sessvars, kernel
<1>2. PICK ready \in SUBSET (Range(armed) \ {Nobody}) : evs' = ready \cup PipeEvent
  BY DEF vca_poll_wait
<1>3. /\ PipeEvent \subseteq {"pipe"}
      /\ "pipe" \in PipeEvent => pipe # <<>>
  BY DEF PipeEvent
<1>4. ready \subseteq Sessions /\ ready \subseteq Range(sesshead)
  <2>1. armed \in [Fds -> Sessions \cup {Nobody}]
    BY DEF AcceptorTypeOK
  <2>2. Range(armed) = {armed[f] : f \in Fds}
    BY <2>1 DEF Range
  <2> QED
    BY <1>2, <2>1, <2>2 DEF EventsReachIdle
<1>5. /\ evs' \subseteq Sessions \cup {"pipe"} /\ evs' \ {"pipe"} \subseteq Range(sesshead)
      /\ "pipe" \in evs' => pipe # <<>>
  BY <1>2, <1>3, <1>4
<1>6. ListsOK' /\ Apart' /\ FdsOK' /\ KnownOK' /\ NoPanic'
  BY <1>1 DEF ListsOK, Apart, FdsOK, KnownOK, NoPanic
<1>7. AcceptorTypeOK'
  BY <1>1, <1>5 DEF AcceptorTypeOK
<1>8. RoundOK' /\ EventsReachIdle'
  BY <1>1, <1>5 DEF RoundOK, EventsReachIdle
<1> QED
  BY <1>6, <1>7, <1>8

\* One session of the walk of the poll waiter
LEMMA PollScanKeeps ==
  ASSUME AcceptorInv, vca_poll_scan PROVE AcceptorInv'
<1> USE Marks DEF AcceptorInv
<1> DEFINE s == Head(scan)
<1>1. /\ vca_act = "poll" /\ round = "events" /\ scan # <<>> /\ scan' = Tail(scan)
      /\ evs' = evs \ {s}
      /\ UNCHANGED <<vca_act, work, pipe, round, dotimer, ticked, known, ki, vca_panic>>
  BY DEF vca_poll_scan, Waiting
<1>2. /\ s \in Range(scan) /\ scan' \in Seq(Sessions)
      /\ IsInjective(scan') /\ Range(scan') = Range(scan) \ {s}
  BY <1>1, TailOK DEF ListsOK
<1>3. s \in Range(sesshead) /\ s \in Sessions /\ s # "pipe" /\ ki = {}
  BY <1>1, <1>2 DEF RoundOK, AcceptorTypeOK
<1>4. \/ /\ sesshead' = <<s>> \o Without(sesshead, s)
         /\ UNCHANGED <<free, fd, expired, evptr, queue, armed>>
      \/ Unpolled(s) /\ queue' = queue \cup {s} /\ UNCHANGED <<free, fd, evptr>>
      \/ Unpolled(s) /\ PollClose(s)
      \/ UNCHANGED <<free, fd, expired, evptr, queue, armed, sesshead>>
  BY DEF vca_poll_scan
<1> HIDE DEF s
<1>5. /\ fd[s] \in Fds /\ fd[s] # NoFd /\ s \notin free \cup queue \cup work
      /\ s \notin Range(pipe)
      /\ \A t \in Sessions : fd[t] = fd[s] => t = s
      /\ \A f \in Fds : armed[f] = s => f = fd[s]
      /\ Without(sesshead, s) \in Seq(Sessions)
      /\ IsInjective(Without(sesshead, s))
      /\ Range(Without(sesshead, s)) = Range(sesshead) \ {s}
  BY <1>3, EventOwns
<1>6. /\ fd \in [Sessions -> Fds \cup {NoFd}] /\ armed \in [Fds -> Sessions \cup {Nobody}]
      /\ sesshead \in Seq(Sessions) /\ IsInjective(sesshead)
      /\ evptr \in [Sessions -> BOOLEAN] /\ expired \in [Sessions -> BOOLEAN]
  BY DEF AcceptorTypeOK, ListsOK
<1>7. /\ sesshead' \in Seq(Sessions) /\ IsInjective(sesshead')
      /\ \/ Range(sesshead') = Range(sesshead) /\ UNCHANGED armed
         \/ /\ Range(sesshead') = Range(sesshead) \ {s}
            /\ armed' = [armed EXCEPT ![fd[s]] = Nobody]
      /\ expired' \in [Sessions -> BOOLEAN]
  <2>1. CASE /\ sesshead' = <<s>> \o Without(sesshead, s)
             /\ UNCHANGED <<free, fd, expired, evptr, queue, armed>>
    <3>1. /\ sesshead' \in Seq(Sessions) /\ IsInjective(sesshead')
          /\ Range(sesshead') = Range(sesshead)
      BY <1>3, <1>6, <2>1, FrontOK
    <3> QED
      BY <1>6, <2>1, <3>1
  <2>2. CASE Unpolled(s)
    BY <1>3, <1>5, <1>6, <2>2 DEF Unpolled
  <2>3. CASE UNCHANGED <<free, fd, expired, evptr, queue, armed, sesshead>>
    BY <1>6, <2>3
  <2> QED
    BY <1>4, <2>1, <2>2, <2>3
<1>8. ListsOK'
  BY <1>1, <1>2, <1>7 DEF ListsOK
<1>9. RoundOK'
  BY <1>1, <1>2, <1>3, <1>7 DEF RoundOK
<1>10. \A f \in Fds : armed'[f] # Nobody =>
         /\ armed'[f] = armed[f]
         /\ armed'[f] = s => s \in Range(sesshead')
  BY <1>3, <1>5, <1>6, <1>7
<1>11. CASE UNCHANGED <<free, fd, evptr, queue>> /\ Range(sesshead') = Range(sesshead)
  <2>1. AcceptorTypeOK'
    BY <1>1, <1>2, <1>6, <1>7, <1>11 DEF AcceptorTypeOK
  <2>2. Apart' /\ FdsOK' /\ KnownOK' /\ NoPanic'
    BY <1>1, <1>11 DEF Apart, FdsOK, KnownOK, NoPanic
  <2>3. EventsReachIdle'
    BY <1>1, <1>10, <1>11 DEF EventsReachIdle
  <2> QED
    BY <1>8, <1>9, <2>1, <2>2, <2>3
<1>12. CASE Unpolled(s) /\ queue' = queue \cup {s} /\ UNCHANGED <<free, fd, evptr>>
  <2>0. Range(sesshead') = Range(sesshead) \ {s}
    BY <1>5, <1>12 DEF Unpolled
  <2>1. AcceptorTypeOK'
    BY <1>1, <1>2, <1>3, <1>6, <1>7, <1>12 DEF AcceptorTypeOK
  <2>2. Apart' /\ FdsOK' /\ KnownOK' /\ NoPanic'
    BY <1>1, <1>3, <1>5, <1>12, <2>0 DEF Apart, FdsOK, KnownOK, NoPanic
  <2>3. EventsReachIdle'
    BY <1>1, <1>3, <1>10, <1>12, <2>0 DEF EventsReachIdle
  <2> QED
    BY <1>8, <1>9, <2>1, <2>2, <2>3
<1>13. CASE Unpolled(s) /\ PollClose(s)
  <2>0. /\ Range(sesshead') = Range(sesshead) \ {s}
        /\ free' = free \cup {s} /\ evptr' = [evptr EXCEPT ![s] = FALSE]
        /\ fd' = [fd EXCEPT ![s] = NoFd] /\ queue' = queue
    BY <1>5, <1>13 DEF Unpolled, PollClose, SessionFreed
  <2>1. AcceptorTypeOK'
    BY <1>1, <1>2, <1>3, <1>6, <1>7, <2>0 DEF AcceptorTypeOK
  <2>2. Apart' /\ FdsOK' /\ NoPanic'
    BY <1>1, <1>3, <1>5, <1>6, <2>0 DEF Apart, FdsOK, NoPanic
  <2>3. KnownOK'
    BY <1>1, <1>3, <1>5, <1>6, <2>0 DEF KnownOK, AcceptorTypeOK
  <2>4. EventsReachIdle'
    BY <1>1, <1>3, <1>6, <1>10, <2>0 DEF EventsReachIdle
  <2> QED
    BY <1>8, <1>9, <2>1, <2>2, <2>3, <2>4
<1>14. CASE /\ sesshead' = <<s>> \o Without(sesshead, s)
            /\ UNCHANGED <<free, fd, expired, evptr, queue, armed>>
  <2>1. Range(sesshead') = Range(sesshead)
    BY <1>3, <1>6, <1>14, FrontOK
  <2> QED
    BY <1>11, <1>14, <2>1
<1>15. CASE UNCHANGED <<free, fd, expired, evptr, queue, armed, sesshead>>
  BY <1>11, <1>15
<1> QED
  BY <1>4, <1>12, <1>13, <1>14, <1>15

\* The end of the walk: every event was found, and the slots are free.
LEMMA PollEndKeeps ==
  ASSUME AcceptorInv, vca_poll_end PROVE AcceptorInv'
<1> USE Marks DEF AcceptorInv
<1> DEFINE ss == IF "pipe" \in evs THEN Range(pipe) ELSE {}
<1>1. /\ vca_act = "poll" /\ round = "events" /\ (scan = <<>> \/ evs = {})
      /\ vca_panic' = \/ evs \ {"pipe"} # {}
                      \/ \E s \in ss : armed[fd[s]] # Nobody
      /\ Arm(ss)
      /\ sesshead' = sesshead \o (IF ss = {} THEN <<>> ELSE pipe)
      /\ pipe' = IF ss = {} THEN pipe ELSE <<>>
      /\ round' = "wait" /\ evs' = {} /\ scan' = <<>>
      /\ UNCHANGED <<vca_act, free, queue, work, dotimer, ticked, known, ki,
                     fd, expired, evptr>>
  BY DEF vca_poll_end, Waiting, sessvars
<1>2. /\ sesshead \o pipe \in Seq(Sessions) /\ IsInjective(sesshead \o pipe)
      /\ Range(sesshead \o pipe) = Range(sesshead) \cup Range(pipe)
      /\ Range(pipe) \subseteq Sessions
      /\ \A s \in Range(pipe) : s \notin Range(sesshead) /\ armed[fd[s]] = Nobody
      /\ <<>> \in Seq(Sessions) /\ IsInjective(<<>>) /\ Range(<<>>) = {}
  BY PipeListed
<1>3. ss \subseteq Range(pipe) /\ ss \subseteq Sessions
  BY <1>2
<1>4. ~vca_panic'
  <2>1. evs \ {"pipe"} = {}
    BY <1>1, <1>2 DEF RoundOK
  <2> QED
    BY <1>1, <1>2, <1>3, <2>1
<1>5. /\ armed' \in [Fds -> Sessions \cup {Nobody}]
      /\ \A f \in Fds : \/ armed'[f] = armed[f]
                        \/ armed'[f] \in ss /\ fd[armed'[f]] = f
  BY <1>1, <1>3, ArmOK
<1>6. /\ sesshead' \in Seq(Sessions) /\ IsInjective(sesshead')
      /\ pipe' \in Seq(Sessions) /\ IsInjective(pipe')
      /\ Range(sesshead') = Range(sesshead) \cup ss
      /\ Range(pipe') = Range(pipe) \ ss
      /\ sesshead \in Seq(Sessions)
  <2>1. /\ sesshead \in Seq(Sessions) /\ IsInjective(sesshead)
        /\ pipe \in Seq(Sessions) /\ IsInjective(pipe)
    BY DEF ListsOK
  <2>2. CASE ss = {}
    <3>1. sesshead' = sesshead /\ pipe' = pipe
      BY <1>1, <2>1, <2>2
    <3> QED
      BY <2>1, <2>2, <3>1
  <2>3. CASE ss # {}
    <3>1. sesshead' = sesshead \o pipe /\ pipe' = <<>> /\ ss = Range(pipe)
      BY <1>1, <2>3
    <3> QED
      BY <1>2, <2>1, <3>1
  <2> QED
    BY <2>2, <2>3
<1> HIDE DEF ss
<1>7. ListsOK'
  BY <1>1, <1>2, <1>6 DEF ListsOK
<1>8. AcceptorTypeOK'
  <2>1. /\ Range(sesshead') \subseteq Sessions /\ Range(pipe') \subseteq Sessions
        /\ Range(scan') = {}
    BY <1>1, <1>2, <1>3, <1>6 DEF AcceptorTypeOK
  <2> QED
    BY <1>1, <1>4, <1>5, <2>1 DEF AcceptorTypeOK
<1>9. Apart' /\ FdsOK' /\ KnownOK' /\ NoPanic'
  BY <1>1, <1>3, <1>4, <1>6 DEF Apart, FdsOK, KnownOK, NoPanic
<1>10. RoundOK'
  <2>1. Range(scan') = {}
    BY <1>1, <1>2
  <2> QED
    BY <1>1, <2>1 DEF RoundOK
<1>11. EventsReachIdle'
  BY <1>1, <1>5, <1>6 DEF EventsReachIdle
<1> QED
  BY <1>7, <1>8, <1>9, <1>10, <1>11

\* The ticker and the clock
LEMMA TickerKeeps ==
  ASSUME AcceptorInv, vca_sess_timeout_ticker PROVE AcceptorInv'
<1> USE DEF AcceptorInv
<1>1. /\ ticked' = TRUE
      /\ UNCHANGED <<vca_act, free, queue, work, pipe, sesshead, round, evs, scan,
                     dotimer, vca_panic, fd, expired, evptr, known, armed, ki>>
  BY DEF vca_sess_timeout_ticker, sessvars, kernel
<1>2. AcceptorTypeOK' /\ ListsOK' /\ Apart' /\ FdsOK' /\ KnownOK' /\ NoPanic'
  BY <1>1 DEF AcceptorTypeOK, ListsOK, Apart, FdsOK, KnownOK, NoPanic
<1>3. RoundOK' /\ EventsReachIdle'
  BY <1>1 DEF RoundOK, EventsReachIdle
<1> QED
  BY <1>2, <1>3

\* The deadline of a session passes
LEMMA ExpireKeeps ==
  ASSUME AcceptorInv, NEW s \in Sessions, Expire(s)
  PROVE  AcceptorInv'
<1> USE DEF AcceptorInv
<1>1. /\ expired' = [expired EXCEPT ![s] = TRUE]
      /\ UNCHANGED <<vca_act, free, fd, evptr, queue, work, pipe, sesshead, vca_panic,
                     known, armed, ki, round, evs, scan, dotimer, ticked>>
  BY DEF Expire, kernel, loopvars
<1>2. AcceptorTypeOK'
  BY <1>1 DEF AcceptorTypeOK
<1>3. ListsOK' /\ Apart' /\ FdsOK' /\ KnownOK' /\ NoPanic'
  BY <1>1 DEF ListsOK, Apart, FdsOK, KnownOK, NoPanic
<1>4. RoundOK' /\ EventsReachIdle'
  BY <1>1 DEF RoundOK, EventsReachIdle
<1> QED
  BY <1>2, <1>3, <1>4

\* Every step keeps the invariant.
LEMMA AcceptorStep ==
  ASSUME AcceptorInv, [AcceptorNext]_acceptorvars PROVE AcceptorInv'
<1>1. CASE vca_acct
  BY <1>1, AcctKeeps
<1>2. ASSUME NEW s \in Sessions, Work(s) \/ Expire(s) PROVE AcceptorInv'
  BY <1>2, TakeKeeps, DoneKeeps, ReturnKeeps, ExpireKeeps DEF Work
<1>3. CASE Wait
  <2>1. ASSUME NEW s \in Sessions, vca_eev(s) \/ vca_kev(s) PROVE AcceptorInv'
    BY <2>1, EevKeeps, KevKeeps
  <2> QED
    BY <1>3, <2>1, MainWaitKeeps, EevPipeKeeps, KevPipeKeeps, EventsDoneKeeps,
       TimeoutKeeps, PortsWaitKeeps, PortEvKeeps, PollWaitKeeps, PollScanKeeps,
       PollEndKeeps DEF Wait
<1>4. CASE vca_sess_timeout_ticker
  BY <1>4, TickerKeeps
<1>5. CASE UNCHANGED acceptorvars
  <2>1. UNCHANGED <<vca_act, free, fd, expired, evptr, queue, work, pipe, sesshead, round,
                    evs, scan, dotimer, ticked, known, armed, ki, vca_panic>>
    BY <1>5 DEF acceptorvars
  <2>2. AcceptorTypeOK' /\ ListsOK' /\ Apart' /\ FdsOK' /\ KnownOK' /\ NoPanic'
    BY <2>1 DEF AcceptorInv, AcceptorTypeOK, ListsOK, Apart, FdsOK, KnownOK, NoPanic
  <2>3. RoundOK' /\ EventsReachIdle'
    BY <2>1 DEF AcceptorInv, RoundOK, EventsReachIdle
  <2> QED
    BY <2>2, <2>3 DEF AcceptorInv
<1> QED
  BY <1>1, <1>2, <1>3, <1>4, <1>5 DEF AcceptorNext

\* How often something is in a list that holds nothing twice.
LEMMA Places ==
  ASSUME NEW S, NEW q \in Seq(S), IsInjective(q), NEW x
  PROVE  LET P == {i \in 1..Len(q) : q[i] = x}
         IN Cardinality(P) = IF x \in Range(q) THEN 1 ELSE 0
<1> DEFINE P == {i \in 1..Len(q) : q[i] = x}
<1>0. /\ \A y : y \in Range(q) <=> \E i \in 1..Len(q) : q[i] = y
      /\ DOMAIN q = 1..Len(q)
  BY InRange
<1>1. CASE x \in Range(q)
  <2>1. PICK i \in 1..Len(q) : q[i] = x
    BY <1>0, <1>1
  <2>2. P = {i}
    BY <1>0, <2>1 DEF IsInjective
  <2> QED
    BY <1>1, <2>2, FS_Singleton
<1>2. CASE x \notin Range(q)
  <2>1. P = {}
    BY <1>0, <1>2
  <2> QED
    BY <1>2, <2>1, FS_EmptySet
<1> QED
  BY <1>1, <1>2

\* Cardinality as the module of the acceptor has it.
LEMMA SameCount == ASSUME NEW S PROVE Cardinality(S) = Cardinality(S)
BY DEF Cardinality, Cardinality

\* The places are disjoint, so that every session is in one of them at most.
LEMMA OwnersCounted ==
  ASSUME AcceptorInv PROVE OwnedOnce
<1> USE DEF AcceptorInv
<1>1. ASSUME NEW s \in Sessions
      PROVE  Cardinality({i \in 1..3 : s \in <<free, queue, work>>[i]})
               + Cardinality({i \in 1..Len(pipe) : pipe[i] = s})
               + Cardinality({i \in 1..Len(sesshead) : sesshead[i] = s}) <= 1
  <2> DEFINE O == {i \in 1..3 : s \in <<free, queue, work>>[i]}
             B == s \in free \cup queue \cup work
  <2>1. Cardinality(O) = IF B THEN 1 ELSE 0
    <3>0. /\ <<free, queue, work>>[1] = free /\ <<free, queue, work>>[2] = queue
          /\ <<free, queue, work>>[3] = work
          /\ \A i \in 1..3 : i \in {1, 2, 3}
      OBVIOUS
    <3>1. CASE s \in free
      <4>1. s \notin queue /\ s \notin work
        BY <3>1 DEF Apart
      <4>2. O = {1}
        BY <3>0, <3>1, <4>1
      <4> QED
        BY <3>1, <4>2, FS_Singleton
    <3>2. CASE s \in queue
      <4>1. s \notin free /\ s \notin work
        BY <3>2 DEF Apart
      <4>2. O = {2}
        BY <3>0, <3>2, <4>1
      <4> QED
        BY <3>2, <4>2, FS_Singleton
    <3>3. CASE s \in work
      <4>1. s \notin free /\ s \notin queue
        BY <3>3 DEF Apart
      <4>2. O = {3}
        BY <3>0, <3>3, <4>1
      <4> QED
        BY <3>3, <4>2, FS_Singleton
    <3>4. CASE ~B
      <4>1. O = {}
        BY <3>0, <3>4
      <4> QED
        BY <3>4, <4>1, FS_EmptySet
    <3> QED
      BY <3>1, <3>2, <3>3, <3>4
  <2>2. Cardinality({i \in 1..Len(pipe) : pipe[i] = s}) = IF s \in Range(pipe) THEN 1 ELSE 0
    BY Places DEF ListsOK
  <2>3. Cardinality({i \in 1..Len(sesshead) : sesshead[i] = s})
          = IF s \in Range(sesshead) THEN 1 ELSE 0
    BY Places DEF ListsOK
  <2>4. /\ ~(B /\ s \in Range(pipe)) /\ ~(B /\ s \in Range(sesshead))
        /\ ~(s \in Range(pipe) /\ s \in Range(sesshead))
    BY DEF Apart
  <2> HIDE DEF B, O
  <2>5. Cardinality(O) + Cardinality({i \in 1..Len(pipe) : pipe[i] = s})
          + Cardinality({i \in 1..Len(sesshead) : sesshead[i] = s}) <= 1
    BY <2>1, <2>2, <2>3, <2>4
  <2> QED
    BY <2>5 DEF O
<1>2. \A s \in free : fd[s] = NoFd
  BY DEF FdsOK, Apart, AcceptorTypeOK
<1>3. \A s, t \in Sessions : s # t /\ fd[s] # NoFd => fd[s] # fd[t]
  BY DEF FdsOK
<1> QED
  BY <1>1, <1>2, <1>3, SameCount DEF OwnedOnce

\* The invariant holds in all reachable states, for every waiter.
LEMMA AcceptorInvariant ==
  AcceptorSpec => []AcceptorInv
<1>1. AcceptorInit => AcceptorInv
  BY AcceptorInvInit
<1>2. AcceptorInv /\ [AcceptorNext]_acceptorvars => AcceptorInv'
  BY AcceptorStep
<1> QED
  BY <1>1, <1>2, PTL DEF AcceptorSpec

\* Whatever the number of clients, of descriptors and of pieces of session
\* memory, and whichever of the four waiters runs: a session has one owner, no
\* two share a descriptor, and no assertion of a waiter fails, neither over
\* EPOLL_CTL_ADD and MOD nor over the slots and the count of the poll array
\* (cache_waiter_*.c).
THEOREM WaiterCorrect ==
  AcceptorSpec => []WaiterSound
<1>1. AcceptorInv => WaiterSound
  BY OwnersCounted DEF WaiterSound, AcceptorInv
<1> QED
  BY <1>1, AcceptorInvariant, PTL

\* The kernel never delivers an event for a session that has left the waiter's
\* list, although its descriptor and its memory may be used again at once: what
\* is armed, what kqueue has put aside and what is still to be handled in this
\* round is of sessions on the list that own the descriptor.
THEOREM EventsCorrect ==
  AcceptorSpec => []EventsReachIdle
<1>1. AcceptorInv => EventsReachIdle
  BY DEF AcceptorInv
<1> QED
  BY <1>1, AcceptorInvariant, PTL

-----------------------------------------------------------------------------
(* Session memory                                                          *)

HandPc == {"accepted", "delete", "insert", "link", "insert2", "link2"}

\* A thread has a session in its hands exactly in the steps that use one, and
\* the acceptor's is on the acceptor's list until it takes it off there.
HandsOK == \A t \in Threads :
  /\ thr[t].pc \in HandPc <=> thr[t].s # Nil /\ thr[t].pc # "take"
  /\ thr[t].pc = "take" => t = "acceptor" /\ thr[t].s \in ses_free_mem[ses_qp]
  /\ thr[t].pc \in {"look", "flip", "new", "alloc", "accepted"} => t = "acceptor"

\* Whoever links a session has the mutex.
LockOK == \A t \in Threads : thr[t].pc \in {"link", "link2"} <=> mtx = t

\* No two of the lists lists, the clients and the threads share a session.
MemApart ==
  /\ ses_free_mem[0] \cap ses_free_mem[1] = {}
  /\ inuse \cap (ses_free_mem[0] \cup ses_free_mem[1]) = {}
  /\ \A t \in Threads : thr[t].pc \in HandPc =>
       /\ thr[t].s \notin ses_free_mem[0] \cup ses_free_mem[1] \cup inuse
       /\ \A u \in Threads : thr[u].pc \in HandPc /\ thr[u].s = thr[t].s => u = t

\* What anybody has is allocated.
Live ==
  /\ \A s \in ses_free_mem[0] \cup ses_free_mem[1] \cup inuse : mem[s] # 0
  /\ \A t \in Threads : thr[t].pc \in HandPc => mem[thr[t].s] # 0

MemInv == SessMemTypeOK /\ HandsOK /\ LockOK /\ ListsApart /\ MemApart /\ Live /\ SessMemBound

-----------------------------------------------------------------------------
\* M counts as this module does.
LEMMA MemCount ==
  ASSUME NEW T
  PROVE  Cardinality(T) = Cardinality(T) /\ (IsFiniteSet(T) <=> IsFiniteSet(T))
<1>1. Cardinality(T) = Cardinality(T)
  BY DEF Cardinality, Cardinality
<1>2. IsFiniteSet(T) <=> IsFiniteSet(T)
  BY DEF IsFiniteSet, IsFiniteSet
<1> QED
  BY <1>1, <1>2

\* What is known of the constants.
LEMMA SessMemConstants ==
  /\ MaxSess \in Nat \ {0}
  /\ IsFiniteSet(Mem) /\ IsFiniteSet(Deleters)
  /\ "null" \notin Mem /\ {"null", "acceptor"} \cap Deleters = {}
  /\ Cardinality(Mem) > MaxSess + Cardinality(Deleters)
  BY MemCount, SessMemAssumption

\* The threads can be counted.
LEMMA ThreadsFinite ==
  /\ IsFiniteSet(Threads)
  /\ Cardinality(Threads) = Cardinality(Deleters) + 1
  /\ Cardinality(Deleters) \in Nat
  /\ Nil \notin Threads /\ Nil \notin Mem
  BY SessMemConstants, FS_AddElement, FS_CardinalityType DEF Threads, Nil

\* Two sets that differ at most in x.
LEMMA CardChange ==
  ASSUME NEW T, IsFiniteSet(T), NEW P \in SUBSET T, NEW Q \in SUBSET T,
         NEW x \in T, \A y \in T : y # x => (y \in P <=> y \in Q)
  PROVE  /\ Cardinality(P) \in Nat /\ Cardinality(Q) \in Nat
         /\ Cardinality(Q) = Cardinality(P) + (IF x \in Q THEN 1 ELSE 0)
                                           - (IF x \in P THEN 1 ELSE 0)
<1>1. IsFiniteSet(P) /\ IsFiniteSet(Q) /\ Cardinality(P) \in Nat /\ Cardinality(Q) \in Nat
  BY FS_Subset, FS_CardinalityType
<1>2. CASE x \in P /\ x \notin Q
  <2>1. Q = P \ {x}
    BY <1>2
  <2> QED
    BY <2>1, <1>1, <1>2, FS_RemoveElement
<1>3. CASE x \notin P /\ x \in Q
  <2>1. Q = P \cup {x}
    BY <1>3
  <2> QED
    BY <2>1, <1>1, <1>3, FS_AddElement
<1>4. CASE x \in P <=> x \in Q
  <2>1. P = Q
    BY <1>4
  <2> QED
    BY <2>1, <1>1, <1>4
<1> QED
  BY <1>2, <1>3, <1>4

Busy == {t \in Threads : thr[t].pc \in {"alloc", "prealloc"}}

\* A step of one thread changes the number of busy threads by what it does itself.
LEMMA BusyMoves ==
  ASSUME SessMemTypeOK, NEW t \in Threads, \A u \in Threads : u # t => thr'[u] = thr[u]
  PROVE  /\ Cardinality(Busy) \in Nat /\ Cardinality(Busy') \in Nat
         /\ Cardinality(Busy') <= Cardinality(Threads)
         /\ Cardinality(Busy') = Cardinality(Busy)
              + (IF thr'[t].pc \in {"alloc", "prealloc"} THEN 1 ELSE 0)
              - (IF thr[t].pc \in {"alloc", "prealloc"} THEN 1 ELSE 0)
<1>1. Busy \in SUBSET Threads /\ Busy' \in SUBSET Threads
  BY DEF Busy
<1>2. \A u \in Threads : u # t => (u \in Busy <=> u \in Busy')
  BY DEF Busy
<1>3. /\ t \in Busy' <=> thr'[t].pc \in {"alloc", "prealloc"}
      /\ t \in Busy <=> thr[t].pc \in {"alloc", "prealloc"}
  BY DEF Busy
<1>4. Cardinality(Busy') <= Cardinality(Threads)
  BY <1>1, ThreadsFinite, FS_Subset
<1> HIDE DEF Busy
<1> QED
  BY <1>1, <1>2, <1>3, <1>4, ThreadsFinite, CardChange

\* A step on one session memory changes the number allocated by what it does to it.
LEMMA AllocMoves ==
  ASSUME SessMemTypeOK, NEW s \in Mem, \A u \in Mem : u # s => mem'[u] = mem[u]
  PROVE  /\ Cardinality(Allocated) \in Nat /\ Cardinality(Allocated') \in Nat
         /\ Cardinality(Allocated') = Cardinality(Allocated)
              + (IF mem'[s] # 0 THEN 1 ELSE 0) - (IF mem[s] # 0 THEN 1 ELSE 0)
<1>1. Allocated \in SUBSET Mem /\ Allocated' \in SUBSET Mem
  BY DEF Allocated
<1>2. \A u \in Mem : u # s => (u \in Allocated <=> u \in Allocated')
  BY DEF Allocated
<1>3. (s \in Allocated' <=> mem'[s] # 0) /\ (s \in Allocated <=> mem[s] # 0)
  BY DEF Allocated
<1> HIDE DEF Allocated
<1> QED
  BY <1>1, <1>2, <1>3, SessMemConstants, CardChange

\* What Go does to the thread's record.
LEMMA Goes ==
  ASSUME SessMemTypeOK, NEW t \in Threads, NEW s \in Mem \cup {Nil},
         NEW pc \in {"idle", "look", "take", "flip", "new", "alloc", "accepted", "delete",
                    "insert", "link", "pre", "prealloc", "insert2", "link2"},
         Go(t, pc, s)
  PROVE  /\ thr' \in [Threads -> Local]
         /\ \A u \in Threads : u # t => thr'[u] = thr[u]
         /\ thr'[t].pc = pc /\ thr'[t].s = s
  BY DEF Go, SessMemTypeOK, Local

-----------------------------------------------------------------------------
\* The invariant holds at the start.
LEMMA MemInit == ASSUME SessMemInit PROVE MemInv
<1> USE SessMemConstants, ThreadsFinite DEF SessMemInit
<1>1. SessMemTypeOK
  BY DEF SessMemTypeOK, Local
<1>2. HandsOK /\ LockOK /\ ListsApart /\ MemApart /\ Live
  BY DEF HandsOK, LockOK, ListsApart, MemApart, Live, HandPc
<1>3. SessMemBound
  <2>1. Allocated = {} /\ Busy = {}
    BY DEF Allocated, Busy
  <2>2. Cardinality({}) = 0
    BY FS_EmptySet
  <2>3. Cardinality(Allocated) + Cardinality(Busy) <= MaxSess + Cardinality(Threads) - 1
    BY <2>1, <2>2
  <2> QED
    BY <2>3, MemCount DEF SessMemBound, Busy
<1> QED
  BY <1>1, <1>2, <1>3 DEF MemInv

\* What every step of a thread has to preserve apart from the bound.
Owners == HandsOK /\ LockOK /\ ListsApart /\ MemApart /\ Live

\* The bound is touched only by a thread that starts or ends an allocation, or
\* frees memory.
LEMMA BoundKept ==
  ASSUME MemInv, NEW t \in Threads, \A u \in Threads : u # t => thr'[u] = thr[u],
         thr'[t].pc \in {"alloc", "prealloc"} => thr[t].pc \in {"alloc", "prealloc"},
         mem' = mem
  PROVE  SessMemBound'
<1>1. Allocated' = Allocated /\ Cardinality(Allocated) \in Nat
  BY SessMemConstants, FS_Subset, FS_CardinalityType DEF Allocated
<1>2. /\ Cardinality(Busy) \in Nat /\ Cardinality(Busy') \in Nat
      /\ Cardinality(Busy') <= Cardinality(Busy)
  BY BusyMoves DEF MemInv
<1>3. Cardinality(Allocated) + Cardinality(Busy) <= MaxSess + Cardinality(Threads) - 1
  BY MemCount DEF MemInv, SessMemBound, Busy
<1>4. Cardinality(Allocated') + Cardinality(Busy') <= MaxSess + Cardinality(Threads) - 1
  BY <1>1, <1>2, <1>3, ThreadsFinite, SessMemConstants
<1> QED
  BY <1>4, MemCount DEF SessMemBound, Busy

\* The acceptor looks at its own list.
LEMMA StepNew ==
  ASSUME MemInv, SES_New
  PROVE  MemInv'
<1> USE ThreadsFinite, SessMemConstants DEF SES_New, Go, GoOn, At, memvars
<1>1. SessMemTypeOK'
  BY DEF MemInv, SessMemTypeOK, Local
<1>2. Owners'
  BY DEF MemInv, SessMemTypeOK, Local, Owners, HandsOK, LockOK, ListsApart, MemApart, Live, HandPc
<1>3. SessMemBound'
  <2>1. /\ \A u \in Threads : u # "acceptor" => thr'[u] = thr[u]
        /\ thr'["acceptor"].pc \notin {"alloc", "prealloc"}
        /\ "acceptor" \in Threads /\ mem' = mem
    BY DEF MemInv, SessMemTypeOK, Threads
  <2> QED
    BY <2>1, BoundKept
<1> QED
  BY <1>1, <1>2, <1>3 DEF MemInv, Owners

\* The acceptor takes over the other list.
LEMMA StepFlip ==
  ASSUME MemInv, ses_flip
  PROVE  MemInv'
<1> USE ThreadsFinite, SessMemConstants DEF ses_flip, Go, GoOn, At, memvars
<1>1. SessMemTypeOK'
  BY DEF MemInv, SessMemTypeOK, Local
<1>2. Owners'
  BY DEF MemInv, SessMemTypeOK, Local, Owners, HandsOK, LockOK, ListsApart, MemApart, Live, HandPc
<1>3. SessMemBound'
  <2>1. /\ \A u \in Threads : u # "acceptor" => thr'[u] = thr[u]
        /\ thr'["acceptor"].pc \notin {"alloc", "prealloc"}
        /\ "acceptor" \in Threads /\ mem' = mem
    BY DEF MemInv, SessMemTypeOK, Threads
  <2> QED
    BY <2>1, BoundKept
<1> QED
  BY <1>1, <1>2, <1>3 DEF MemInv, Owners

\* It takes the session it saw from its list.
LEMMA StepTake ==
  ASSUME MemInv, ses_take
  PROVE  MemInv'
<1> USE ThreadsFinite, SessMemConstants DEF ses_take, Go, GoOn, At, memvars
<1>1. SessMemTypeOK'
  <2>1. "acceptor" \in Threads
    BY DEF Threads
  <2> QED
    BY <2>1 DEF MemInv, SessMemTypeOK, Local
<1>2. Owners'
  BY DEF MemInv, SessMemTypeOK, Local, Owners, HandsOK, LockOK, ListsApart, MemApart, Live, HandPc
<1>3. SessMemBound'
  <2>1. /\ \A u \in Threads : u # "acceptor" => thr'[u] = thr[u]
        /\ thr'["acceptor"].pc \notin {"alloc", "prealloc"}
        /\ "acceptor" \in Threads /\ mem' = mem
    BY DEF MemInv, SessMemTypeOK, Threads
  <2> QED
    BY <2>1, BoundKept
<1> QED
  BY <1>1, <1>2, <1>3 DEF MemInv, Owners

\* SES_Delete puts a session on the list that is not the acceptor's, under the lock.
LEMMA StepInsert ==
  ASSUME MemInv, NEW t \in Threads, ses_insert(t)
  PROVE  MemInv'
<1> USE ThreadsFinite, SessMemConstants DEF ses_insert, Go, GoOn, At, memvars
<1>1. SessMemTypeOK'
  <2>1. CASE thr[t].pc \in {"insert", "insert2"}
    BY <2>1 DEF MemInv, SessMemTypeOK, Local
  <2>2. CASE thr[t].pc \in {"link", "link2"}
    <3>1. thr[t].s \in Mem /\ thr[t].list \in 0..1
      BY <2>2 DEF MemInv, SessMemTypeOK, Local, HandsOK, HandPc
    <3>2. ses_free_mem' \in [0..1 -> SUBSET Mem] /\ mtx' = Nil
      BY <2>2, <3>1 DEF MemInv, SessMemTypeOK
    <3>3. thr' \in [Threads -> Local]
      BY <2>2 DEF MemInv, SessMemTypeOK, Local
    <3> QED
      BY <3>2, <3>3 DEF MemInv, SessMemTypeOK
  <2> QED
    BY <2>1, <2>2
<1>2. Owners'
  BY DEF MemInv, SessMemTypeOK, Local, Owners, HandsOK, LockOK, ListsApart, MemApart, Live, HandPc
<1>3. SessMemBound'
  <2>1. /\ \A u \in Threads : u # t => thr'[u] = thr[u]
        /\ thr'[t].pc \notin {"alloc", "prealloc"}
        /\ t \in Threads /\ mem' = mem
    BY DEF MemInv, SessMemTypeOK, Threads
  <2> QED
    BY <2>1, BoundKept
<1> QED
  BY <1>1, <1>2, <1>3 DEF MemInv, Owners

\* vca_acct asks for a session, and gives it away.
LEMMA StepAcct ==
  ASSUME MemInv, AcceptClient
  PROVE  MemInv'
<1> USE ThreadsFinite, SessMemConstants DEF AcceptClient, Go, GoOn, At, memvars
<1>1. SessMemTypeOK'
  <2>1. CASE thr["acceptor"].pc = "idle"
    BY <2>1 DEF MemInv, SessMemTypeOK, Local
  <2>2. CASE thr["acceptor"].pc = "accepted"
    <3>1. "acceptor" \in Threads /\ thr["acceptor"].s \in Mem
      BY <2>2 DEF MemInv, SessMemTypeOK, Local, HandsOK, HandPc, Threads
    <3> QED
      BY <2>2, <3>1 DEF MemInv, SessMemTypeOK, Local
  <2> QED
    BY <2>1, <2>2
<1>2. Owners'
  <2> USE DEF MemInv, SessMemTypeOK, Local, Owners, HandsOK, LockOK, ListsApart, MemApart, Live, HandPc
  <2>1. "acceptor" \in Threads
    BY DEF Threads
  <2>2. CASE thr["acceptor"].pc = "idle"
    BY <2>1, <2>2
  <2>3. CASE thr["acceptor"].pc = "accepted" /\ inuse' = inuse
    BY <2>1, <2>3
  <2>4. CASE thr["acceptor"].pc = "accepted" /\ inuse' = inuse \cup {thr["acceptor"].s}
    BY <2>1, <2>4
  <2> QED
    BY <2>2, <2>3, <2>4
<1>3. SessMemBound'
  <2>1. /\ \A u \in Threads : u # "acceptor" => thr'[u] = thr[u]
        /\ thr'["acceptor"].pc \notin {"alloc", "prealloc"}
        /\ "acceptor" \in Threads /\ mem' = mem
    BY DEF MemInv, SessMemTypeOK, Threads
  <2> QED
    BY <2>1, BoundKept
<1> QED
  BY <1>1, <1>2, <1>3 DEF MemInv, Owners

\* A worker or the waiter is done with a session.
LEMMA StepFinish ==
  ASSUME MemInv, NEW t \in Threads, Finish(t)
  PROVE  MemInv'
<1> USE ThreadsFinite, SessMemConstants DEF Finish, Go, GoOn, At, memvars
<1>1. SessMemTypeOK'
  <2>1. PICK s \in inuse : inuse' = inuse \ {s} /\ Go(t, "delete", s)
    OBVIOUS
  <2> QED
    <3>1. s \in Mem
      BY DEF MemInv, SessMemTypeOK, Local
    <3>2. thr' \in [Threads -> Local]
      BY <2>1, <3>1, Goes DEF MemInv
    <3> QED
      BY <2>1, <3>1, <3>2 DEF MemInv, SessMemTypeOK
<1>2. Owners'
  BY DEF MemInv, SessMemTypeOK, Local, Owners, HandsOK, LockOK, ListsApart, MemApart, Live, HandPc
<1>3. SessMemBound'
  <2>1. /\ \A u \in Threads : u # t => thr'[u] = thr[u]
        /\ thr'[t].pc \notin {"alloc", "prealloc"}
        /\ t \in Threads /\ mem' = mem
    BY DEF MemInv, SessMemTypeOK, Threads
  <2> QED
    BY <2>1, BoundKept
<1> QED
  BY <1>1, <1>2, <1>3 DEF MemInv, Owners

\* SES_Delete frees memory of another size, and keeps the rest.
LEMMA StepDelete ==
  ASSUME MemInv, NEW t \in Threads, SES_Delete(t)
  PROVE  MemInv'
<1> USE ThreadsFinite, SessMemConstants DEF SES_Delete, Go, GoOn, At, memvars
<1>0. thr[t].s \in Mem /\ mem[thr[t].s] # 0
  BY DEF MemInv, SessMemTypeOK, Local, HandsOK, HandPc, Live
<1>1. SessMemTypeOK'
  BY <1>0 DEF MemInv, SessMemTypeOK, Local
<1>2. Owners'
  BY <1>0 DEF MemInv, SessMemTypeOK, Local, Owners, HandsOK, LockOK, ListsApart, MemApart, Live, HandPc
<1>3. SessMemBound'
  <2>1. /\ \A u \in Threads : u # t => thr'[u] = thr[u]
        /\ thr'[t].pc \notin {"alloc", "prealloc"}
    BY DEF MemInv, SessMemTypeOK, Local
  <2>2. CASE mem' = mem
    BY <2>1, <2>2, BoundKept
  <2>3. CASE mem' = [mem EXCEPT ![thr[t].s] = 0]
    <3>1. /\ Cardinality(Allocated) \in Nat /\ Cardinality(Allocated') \in Nat
          /\ Cardinality(Allocated') <= Cardinality(Allocated)
      <4>1. mem'[thr[t].s] = 0 /\ \A u \in Mem : u # thr[t].s => mem'[u] = mem[u]
        BY <1>0, <2>3 DEF MemInv, SessMemTypeOK
      <4> QED
        BY <1>0, <4>1, AllocMoves DEF MemInv
    <3>2. /\ Cardinality(Busy) \in Nat /\ Cardinality(Busy') \in Nat
          /\ Cardinality(Busy') <= Cardinality(Busy)
      BY <2>1, BusyMoves DEF MemInv
    <3>3. Cardinality(Allocated) + Cardinality(Busy) <= MaxSess + Cardinality(Threads) - 1
      BY MemCount DEF MemInv, SessMemBound, Busy
    <3>4. Cardinality(Allocated') + Cardinality(Busy') <= MaxSess + Cardinality(Threads) - 1
      BY <3>1, <3>2, <3>3
    <3> QED
      BY <3>4, MemCount DEF SessMemBound, Busy
  <2> QED
    BY <2>2, <2>3
<1> QED
  BY <1>1, <1>2, <1>3 DEF MemInv, Owners

\* ses_sm_alloc adds at most one to max_sess - 1 pieces of memory and to the
\* allocations under way, which are at most one for each thread.
LEMMA StepAlloc ==
  ASSUME MemInv, NEW t \in Threads, NEW next \in {"alloc", "prealloc"},
         \/ t = "acceptor" /\ thr[t].pc = "new" /\ next = "alloc"
         \/ thr[t].pc = "pre" /\ next = "prealloc",
         ses_sm_alloc(t, next), UNCHANGED <<workspace, inuse>>
  PROVE  MemInv'
<1> USE ThreadsFinite, SessMemConstants DEF ses_sm_alloc, Go, memvars
<1>1. SessMemTypeOK'
  <2>1. thr' \in [Threads -> Local]
    BY Goes DEF MemInv, Nil
  <2> QED
    BY <2>1 DEF MemInv, SessMemTypeOK
<1>2. Owners'
  BY DEF MemInv, SessMemTypeOK, Local, Owners, HandsOK, LockOK, ListsApart, MemApart, Live, HandPc
<1>3. SessMemBound'
  <2>1. \A u \in Threads : u # t => thr'[u] = thr[u]
    BY DEF MemInv, SessMemTypeOK, Local
  <2>2. Allocated' = Allocated /\ Cardinality(Allocated) \in Nat /\ mem' = mem
    BY FS_Subset, FS_CardinalityType DEF Allocated
  <2>3. CASE Cardinality(Allocated) >= MaxSess
    <3>1. thr'[t].pc \notin {"alloc", "prealloc"}
      BY <2>3, MemCount DEF MemInv, SessMemTypeOK, Local
    <3> QED
      BY <2>1, <2>2, <3>1, BoundKept
  <2>4. CASE Cardinality(Allocated) < MaxSess
    <3>1. Cardinality(Busy') \in Nat /\ Cardinality(Busy') <= Cardinality(Threads)
      BY <2>1, BusyMoves DEF MemInv
    <3>2. Cardinality(Allocated') + Cardinality(Busy') <= MaxSess + Cardinality(Threads) - 1
      BY <2>2, <2>4, <3>1
    <3> QED
      BY <3>2, MemCount DEF SessMemBound, Busy
  <2> QED
    BY <2>2, <2>3, <2>4
<1> QED
  BY <1>1, <1>2, <1>3 DEF MemInv, Owners

\* The bound is below the memory there is, so an allocation that passed the
\* test finds a piece that nobody has.
LEMMA StepAllocEnd ==
  ASSUME MemInv, NEW t \in Threads, NEW next \in {"accepted", "insert2"},
         \/ t = "acceptor" /\ thr[t].pc = "alloc" /\ next = "accepted"
         \/ thr[t].pc = "prealloc" /\ next = "insert2",
         ses_sm_alloc_end(t, next), UNCHANGED <<workspace, inuse>>
  PROVE  MemInv'
<1> USE ThreadsFinite, SessMemConstants DEF Go
<1> DEFINE s == CHOOSE x \in Mem \ Allocated : TRUE
<1>1. /\ mem' = [mem EXCEPT ![s] = workspace]
      /\ thr' = [thr EXCEPT ![t] = [pc |-> next, s |-> s, list |-> 0]]
      /\ UNCHANGED <<ses_free_mem, ses_qp, mtx>>
  BY DEF ses_sm_alloc_end
<1>2. /\ Cardinality(Allocated) \in Nat /\ Cardinality(Busy) \in Nat
      /\ Cardinality(Allocated) + Cardinality(Busy) <= MaxSess + Cardinality(Threads) - 1
  <2>1. Allocated \subseteq Mem /\ Busy \subseteq Threads
    BY DEF Allocated, Busy
  <2>2. Cardinality(Allocated) \in Nat /\ Cardinality(Busy) \in Nat
    BY <2>1, FS_Subset, FS_CardinalityType
  <2> QED
    BY <2>2, MemCount DEF MemInv, SessMemBound, Busy
<1>3. s \in Mem \ Allocated
  <2>1. Cardinality(Busy) >= 1
    <3>1. t \in Busy /\ IsFiniteSet(Busy)
      BY FS_Subset DEF Busy
    <3> QED
      BY <3>1, <1>2, FS_EmptySet
  <2>2. Cardinality(Allocated) < Cardinality(Mem)
    BY <1>2, <2>1, FS_CardinalityType
  <2>3. Allocated \subseteq Mem /\ Allocated # Mem
    <3>1. Allocated \subseteq Mem
      BY DEF Allocated
    <3> QED
      BY <2>2, <1>2, <3>1
  <2> QED
    BY <2>3
<1>4. s \in Mem /\ mem[s] = 0
  BY <1>3 DEF Allocated
<1> HIDE DEF s
<1>5. SessMemTypeOK'
  <2>1. thr' \in [Threads -> Local]
    BY <1>1, <1>4, Goes DEF MemInv
  <2> QED
    BY <1>1, <1>4, <2>1 DEF MemInv, SessMemTypeOK
<1>6. Owners'
  BY <1>1, <1>4 DEF MemInv, SessMemTypeOK, Local, Owners, HandsOK, LockOK, ListsApart, MemApart, Live, HandPc
<1>7. SessMemBound'
  <2>1. \A u \in Threads : u # t => thr'[u] = thr[u]
    BY <1>1 DEF MemInv, SessMemTypeOK, Local
  <2>2. thr'[t].pc \notin {"alloc", "prealloc"}
    BY <1>1 DEF MemInv, SessMemTypeOK, Local
  <2>3. Cardinality(Busy') = Cardinality(Busy) - 1
    BY <2>1, <2>2, BusyMoves DEF MemInv
  <2>4. Cardinality(Allocated') = Cardinality(Allocated) + 1
    <3>1. workspace \in 1..2
      BY DEF MemInv, SessMemTypeOK, Local
    <3> QED
      <4>1. mem'[s] # 0 /\ \A u \in Mem : u # s => mem'[u] = mem[u]
        BY <1>1, <1>4, <3>1 DEF MemInv, SessMemTypeOK
      <4> QED
        BY <1>2, <1>4, <4>1, AllocMoves DEF MemInv
  <2>5. Cardinality(Allocated') + Cardinality(Busy') <= MaxSess + Cardinality(Threads) - 1
    BY <1>2, <2>3, <2>4
  <2> QED
    BY <2>5, MemCount DEF SessMemBound, Busy
<1> QED
  BY <1>5, <1>6, <1>7 DEF MemInv, Owners

\* Every step keeps the invariant.
LEMMA MemStep == ASSUME MemInv, [SessMemNext]_sessmemvars PROVE MemInv'
<1>1. CASE SES_New \/ ses_flip \/ ses_take \/ AcceptClient
  BY <1>1, StepNew, StepFlip, StepTake, StepAcct
<1>2. CASE ses_new
  <2>1. "acceptor" \in Threads
    BY DEF Threads
  <2> QED
    BY <1>2, <2>1, StepAlloc, StepAllocEnd DEF ses_new, At
<1>3. ASSUME NEW t \in Threads, Memory(t) \/ Finish(t) PROVE MemInv'
  <2>1. CASE ses_precreate(t)
    BY <2>1, StepAlloc, StepAllocEnd DEF ses_precreate, At
  <2> QED
    BY <1>3, <2>1, StepDelete, StepInsert, StepFinish DEF Memory
<1>4. CASE mcf_param_set
  <2>1. SessMemTypeOK'
    BY <1>4 DEF mcf_param_set, memvars, MemInv, SessMemTypeOK, Local
  <2> QED
    BY <1>4, <2>1 DEF mcf_param_set, memvars, MemInv, HandsOK, LockOK, ListsApart, MemApart,
                      Live, SessMemBound, Allocated
<1>5. CASE UNCHANGED sessmemvars
  BY <1>5 DEF sessmemvars, MemInv, SessMemTypeOK, HandsOK, LockOK, ListsApart, MemApart, Live,
              SessMemBound, Allocated
<1> QED
  BY <1>1, <1>2, <1>3, <1>4, <1>5 DEF SessMemNext, Accept

\* Disjointness, counted: a session is in at most one place.
LEMMA MemoryCounted == ASSUME MemInv PROVE MemOwnedOnce
<1> SUFFICES ASSUME NEW s \in Mem,
                    NEW at, at = {i \in 1..3 : s \in <<ses_free_mem[0], ses_free_mem[1], inuse>>[i]},
                    NEW hands, hands = {t \in Threads : thr[t].s = s /\ thr[t].pc # "take"}
             PROVE  /\ Cardinality(at) + Cardinality(hands) <= 1
                    /\ mem[s] = 0 => at = {} /\ hands = {}
  BY MemCount DEF MemOwnedOnce
<1>1. \A i \in 1..3 : i \in at <=> \/ i = 1 /\ s \in ses_free_mem[0]
                                   \/ i = 2 /\ s \in ses_free_mem[1]
                                   \/ i = 3 /\ s \in inuse
  OBVIOUS
<1>2. \A t \in Threads : t \in hands <=> thr[t].s = s /\ thr[t].pc \in HandPc
  BY ThreadsFinite DEF MemInv, HandsOK
<1>3. \A i, k \in at : i = k
  BY <1>1 DEF MemInv, MemApart
<1>4. \A t, u \in hands : t = u
  BY <1>2 DEF MemInv, MemApart
<1>5. at = {} \/ hands = {}
  BY <1>1, <1>2 DEF MemInv, MemApart
<1>6. (at = {} \/ \E i : at = {i}) /\ (hands = {} \/ \E t : hands = {t})
  <2>1. ASSUME at # {} PROVE \E i : at = {i}
    <3>1. PICK i : i \in at
      BY <2>1
    <3>2. at = {i}
      BY <1>3, <3>1, Zenon
    <3> QED
      BY <3>2
  <2>2. hands # {} => \E t : hands = {t}
    BY <1>4
  <2> QED
    BY <2>1, <2>2
<1>7. mem[s] = 0 => at = {} /\ hands = {}
  BY <1>1, <1>2 DEF MemInv, Live
<1> QED
  <2>1. /\ at = {} => Cardinality(at) = 0
        /\ hands = {} => Cardinality(hands) = 0
    BY FS_EmptySet
  <2>2. /\ (\E i : at = {i}) => Cardinality(at) = 1
        /\ (\E t : hands = {t}) => Cardinality(hands) = 1
    BY FS_Singleton
  <2>3. Cardinality(at) + Cardinality(hands) <= 1
    <3>1. Cardinality(at) \in {0, 1} /\ Cardinality(hands) \in {0, 1}
      BY <1>6, <2>1, <2>2
    <3>2. Cardinality(at) = 0 \/ Cardinality(hands) = 0
      BY <1>5, <2>1
    <3> QED
      BY <3>1, <3>2
  <2> QED
    BY <1>7, <2>3

\* Session memory has one owner, the acceptor's unlocked list is its own, and
\* max_sess is exceeded by at most one session for every other thread, for any
\* number of threads (SES_New, SES_Delete, ses_sm_alloc).
THEOREM SessMemCorrect == SessMemSpec => []SessMemSound
<1>1. MemInv => SessMemSound
  BY MemoryCounted DEF MemInv, SessMemSound
<1> QED
  BY MemInit, MemStep, <1>1, PTL DEF SessMemSpec

-----------------------------------------------------------------------------
(* The session state engine                                                *)

\* What the fields hold.
SessType ==
  [at : {"gone", "worker", "parked", "waiter", "lost"}, step : Steps,
   fd : BOOLEAN, vcl : BOOLEAN, xid : BOOLEAN, objcore : {Null, "busy"},
   obj : Objects \cup {NoObj}, vbc : BOOLEAN, director : BOOLEAN,
   restarts : 0..MaxRestarts, doclose : BOOLEAN, wantbody : BOOLEAN,
   todo : 0..MaxIncludes, rx : 0..MaxBytes]

Modes == {"LEN", "ESI", "ESI_CHILD", "GUNZIP", "CHUNKED", "EOF"}

WorkerType ==
  [run : BOOLEAN, vcl : BOOLEAN, hcl : BOOLEAN, do_close : BOOLEAN, hint : BOOLEAN,
   vfp : {Null, "nop", "esi", "gunzip", "gzip", "testgzip"}, do_stream : BOOLEAN,
   do_esi : BOOLEAN, do_gzip : BOOLEAN, do_gunzip : BOOLEAN, bereq : BOOLEAN,
   beresp : BOOLEAN, resp : BOOLEAN, res_mode : SUBSET Modes]

FrameType == [obj : Objects, todo : 0..MaxIncludes, res_mode : SUBSET Modes]

HistType == [spoiled : BOOLEAN, outofobjects : BOOLEAN,
             sent : {"no", "whole", "cut", "nopipe"},
             announced : {"no", "object", "backend"}]

Fields ==
  /\ sp \in SessType /\ w \in WorkerType /\ hist \in HistType
  /\ frames \in Seq(FrameType) /\ Len(frames) <= MaxEsiDepth
  /\ panic \in {"no", "assert", "incompl", "vfp"}

\* There is no request yet.
Before == {"FIRST", "WAIT", "START"}

\* VCL has chosen what to do, and counted the restarts.
Chosen == {"LOOKUP", "MISS", "HIT", "PASS", "PIPE", "FETCH"}

\* The session has an object.
Having == {"HIT", "FETCHBODY2", "STREAMBODY", "STREAMING", "PREPRESP", "DELIVER",
           "WRITING"}

\* A response is there whose body is not, or not all of it.
Fetching(s, x) ==
  \/ s.step \in {"FETCHBODY", "FETCHBODY2", "STREAMBODY", "STREAMING"}
  \/ s.step = "PREPRESP" /\ x.do_stream

Streaming(s, x) ==
  s.step \in {"STREAMBODY", "STREAMING"} \/ (s.step = "PREPRESP" /\ x.do_stream)

\* A session without a request has nothing of an earlier one.
FreshOK(s, fr, h) ==
  /\ s.at \in {"gone", "lost", "waiter"} => s.step \in {"FIRST", "WAIT", "DONE"}
  /\ s.at = "parked" => s.step = "LOOKUP" /\ fr = <<>>
  /\ s.step \in Before \/ s.at \in {"gone", "lost", "waiter"} =>
       /\ ~s.vcl /\ ~s.xid /\ s.objcore = Null /\ ~s.director /\ s.restarts = 0
       /\ fr = <<>> /\ ~h.outofobjects
  /\ s.at = "waiter" \/ (s.at = "worker" /\ s.step \in {"FIRST", "WAIT"}) => s.fd
  /\ s.at = "worker" /\ s.step = "WAIT" => s.rx < MaxBytes - 1

\* What the steps of a request find in the session.
RequestOK(s, x, fr) ==
  /\ s.step \notin Before /\ (s.step = "DONE" => fr # <<>>) => s.vcl
  /\ s.obj # NoObj <=> s.step \in Having
  /\ s.vbc <=> Fetching(s, x)
  /\ s.step = "RECV" => ~s.director
  /\ s.step \in Chosen \/ Fetching(s, x) => s.director
  /\ s.step \in Chosen \cup {"FETCHBODY"} => s.restarts < MaxRestarts
  /\ s.step = "PIPE" \/ Streaming(s, x) => fr = <<>>
  /\ Streaming(s, x) => s.wantbody
  /\ s.step \in {"STREAMBODY", "STREAMING"} => x.do_stream
  /\ s.step \in {"FETCHBODY2", "DELIVER", "WRITING"} => ~x.do_stream
  /\ s.step \in Chosen => FlagsClear(x)

\* What they find in the worker, unless an earlier step has spoiled it.
WorkerOK(s, x, fr, h) ==
  ~h.spoiled =>
    /\ ~x.hint
    /\ Fetching(s, x) \/ (x.vfp = Null /\ ~x.hcl /\ ~x.do_close /\ ~x.beresp)
    /\ Fetching(s, x) \/ s.step \in {"PASS", "FETCH"} \/ ~x.bereq
    /\ s.step = "FETCHBODY" => x.vfp = Null
    /\ fr = <<>> /\ s.step \notin {"DELIVER", "WRITING", "STREAMBODY", "STREAMING"} => ~x.resp
    /\ s.at # "worker" \/ s.step \in Before => FlagsClear(x)

\* Who has an objcore, and whose object is busy.
BusyOK(s, x, fr, h) ==
  /\ s.step = "MISS" => s.objcore = "busy"
  /\ s.objcore # Null =>
       \/ s.step \in {"MISS", "FETCH", "FETCHBODY"}
       \/ s.step = "ERROR" /\ h.spoiled
       \/ h.outofobjects
  /\ h.outofobjects =>
       h.spoiled /\ s.doclose /\ (fr # <<>> \/ s.step \in {"WRITING", "DONE"})
  /\ s.obj.oc = "busy" => Fetching(s, x) \/ h.spoiled
  /\ Fetching(s, x) => s.obj.oc # "live"
  /\ \A i \in 1..Len(fr) : fr[i].obj.oc = "busy" => h.spoiled

\* The end of the body can be told.
Told(rm, o, close) ==
  /\ \E m \in {"LEN", "CHUNKED", "EOF"} : rm \cap {"LEN", "CHUNKED", "EOF"} = {m}
  /\ "EOF" \in rm => close
  /\ "LEN" \in rm => o.empty \/ rm = {"LEN"}
  /\ "ESI_CHILD" \notin rm

\* Of a stored object the length is announced in RES_LEN and only there.
Sent(rm, o, h) ==
  /\ h.announced # "backend"
  /\ h.announced = "object" => "LEN" \in rm
  /\ "LEN" \in rm => h.announced = "object" \/ o.empty

\* It can be told in the steps that send the response, and after the includes.
FramedOK(s, x, fr, h) ==
  /\ fr # <<>> => Told(fr[1].res_mode, fr[1].obj, s.doclose)
                  /\ Sent(fr[1].res_mode, fr[1].obj, h)
  /\ /\ fr = <<>> /\ s.step \in {"DELIVER", "WRITING", "STREAMBODY", "STREAMING"}
     /\ s.wantbody \/ (s.step = "WRITING" /\ s.todo > 0)
     => /\ Told(x.res_mode, s.obj, s.doclose)
        /\ s.step = "WRITING" => Sent(x.res_mode, s.obj, h)
  /\ s.step \in {"STREAMBODY", "STREAMING"} /\ "LEN" \in x.res_mode =>
       x.hcl /\ ~x.do_gzip /\ ~x.do_gunzip /\ x.res_mode = {"LEN"}
  /\ s.step \in {"STREAMBODY", "STREAMING"} => "ESI_CHILD" \notin x.res_mode
  /\ s.step = "STREAMING" => /\ h.announced # "object"
                             /\ "CHUNKED" \in x.res_mode => h.announced = "no"
                             /\ "LEN" \in x.res_mode => h.announced = "backend"
  /\ fr = <<>> /\ (s.at # "worker" \/ s.step \notin {"WRITING", "STREAMING", "DONE"}) =>
       h.announced = "no"

\* The connection is kept only after a whole response.
KeptOK(s, fr, h) ==
  s.at = "worker" /\ s.step = "DONE" /\ fr = <<>> /\ s.fd /\ ~s.doclose =>
    h.sent \in {"whole", "nopipe"}

SessInv(s, x, fr, h) ==
  /\ FreshOK(s, fr, h) /\ RequestOK(s, x, fr) /\ WorkerOK(s, x, fr, h)
  /\ BusyOK(s, x, fr, h) /\ FramedOK(s, x, fr, h) /\ KeptOK(s, fr, h)

CenterInv ==
  Fields /\ SessInv(sp, w, frames, hist) /\ (panic = "assert" => hist.spoiled)

\* The names of the steps and the numbers the fields begin with.
LEMMA Names ==
  /\ \A t \in {"FIRST", "WAIT", "START", "RECV", "LOOKUP", "MISS", "HIT", "PASS",
               "PIPE", "FETCH", "FETCHBODY", "FETCHBODY2", "STREAMBODY",
               "STREAMING", "PREPRESP", "DELIVER", "WRITING", "ERROR", "DONE"} : t \in Steps
  /\ 0 \in 0..MaxRestarts /\ 0 \in 0..MaxIncludes /\ 0 \in 0..MaxBytes
  /\ MaxRestarts \in Nat /\ MaxIncludes \in Nat /\ MaxBytes \in Nat /\ MaxBytes > 1
  /\ NoObj.oc = "none" /\ NoObj \notin Objects
BY CenterAssumption DEF Steps, NoObj, Objects, Null

\* What the invariant says of the fields.
LEMMA Given ==
  ASSUME CenterInv
  PROVE  /\ sp \in SessType /\ w \in WorkerType /\ hist \in HistType
         /\ frames \in Seq(FrameType) /\ Len(frames) <= MaxEsiDepth
         /\ SessInv(sp, w, frames, hist)
BY DEF CenterInv, Fields

\* What is to be shown when nothing fails.
LEMMA Assembled ==
  ASSUME CenterInv, sp' \in SessType, w' \in WorkerType, hist' \in HistType,
         frames' \in Seq(FrameType), Len(frames') <= MaxEsiDepth,
         SessInv(sp', w', frames', hist'), UNCHANGED panic,
         hist.spoiled => hist'.spoiled
  PROVE  CenterInv'
BY DEF CenterInv, Fields

\* A panic leaves everything as it is.
LEMMA Dead ==
  ASSUME CenterInv, UNCHANGED <<sp, w, frames, hist>>,
         panic' \in {"no", "assert", "incompl", "vfp"}, panic' = "assert" => hist.spoiled
  PROVE  CenterInv'
BY DEF CenterInv, Fields

\* What was announced stays so while the rest of the history goes on.
LEMMA SentStill ==
  ASSUME NEW rm, NEW o, NEW h, NEW g, h.announced = g.announced, Sent(rm, o, h)
  PROVE  Sent(rm, o, g)
BY DEF Sent

\* In the beginning there is neither a session nor anything of one.
LEMMA NewChild ==
  /\ NewSess \in SessType /\ NewWorker \in WorkerType /\ NoHist \in HistType
  /\ <<>> \in Seq(FrameType) /\ Len(<<>>) <= MaxEsiDepth
  /\ SessInv(NewSess, NewWorker, <<>>, NoHist)
<1>1. /\ NewSess \in SessType /\ NewWorker \in WorkerType /\ NoHist \in HistType
  BY Names DEF SessType, WorkerType, HistType, NewSess, NewWorker, NoHist
<1>2. <<>> \in Seq(FrameType) /\ Len(<<>>) = 0
  OBVIOUS
<1>3. SessInv(NewSess, NewWorker, <<>>, NoHist)
  BY <1>2, Names DEF SessInv, FreshOK, RequestOK, WorkerOK, BusyOK, FramedOK, KeptOK,
     Before, Chosen, Having, Fetching, Streaming, NewSess, NewWorker, NoHist,
     FlagsClear
<1> QED
  BY <1>1, <1>2, <1>3, CenterAssumption

\* A session that is given up: nothing is left of it.
LEMMA Dropped ==
  ASSUME CenterInv, sp' = NewSess, w' \in WorkerType,
         frames' = <<>>, UNCHANGED panic, hist' \in HistType,
         ~hist'.outofobjects, hist'.announced = "no", hist.spoiled => hist'.spoiled,
         ~hist'.spoiled => /\ ~w'.hint /\ w'.vfp = Null /\ ~w'.hcl
                           /\ ~w'.do_close /\ ~w'.beresp /\ ~w'.bereq
                           /\ ~w'.resp /\ FlagsClear(w')
  PROVE  CenterInv'
<1>1. sp' \in SessType
  BY Names DEF SessType, NewSess
<1>2. frames' \in Seq(FrameType) /\ Len(frames') = 0
  OBVIOUS
<1>3. SessInv(sp', w', frames', hist')
  BY <1>2, Names DEF SessInv, FreshOK, RequestOK, WorkerOK, BusyOK, FramedOK, KeptOK,
     Before, Chosen, Having, Fetching, Streaming, NewSess
<1>4. Len(frames') <= MaxEsiDepth
  BY <1>2, CenterAssumption
<1> QED
  BY <1>1, <1>2, <1>3, <1>4, Assembled

\* cnt_first
LEMMA FirstKeeps == ASSUME CenterInv, cnt_first PROVE CenterInv'
<1> USE Names, Given
<1>1. /\ sp.step = "FIRST" /\ sp.at = "worker"
      /\ sp' = [sp EXCEPT !.rx = 0, !.step = "WAIT"]
      /\ UNCHANGED <<w, frames, panic, hist>>
  BY DEF cnt_first, Step
<1>2. sp' \in SessType
  BY <1>1 DEF SessType
<1>3. FreshOK(sp', frames', hist') /\ KeptOK(sp', frames', hist')
  BY <1>1 DEF SessInv, FreshOK, KeptOK, Before, SessType, HistType
<1>4. RequestOK(sp', w', frames')
  BY <1>1 DEF SessInv, FreshOK, RequestOK, Before, Chosen, Having, Fetching,
     Streaming, SessType, WorkerType, FlagsClear
<1>5. WorkerOK(sp', w', frames', hist')
  BY <1>1 DEF SessInv, WorkerOK, Before, Chosen, Fetching, RequestOK,
     SessType, WorkerType, HistType, FlagsClear
<1>6. BusyOK(sp', w', frames', hist')
  BY <1>1 DEF SessInv, FreshOK, BusyOK, RequestOK, Before, Chosen, Having, Fetching,
     SessType, WorkerType, HistType, FlagsClear
<1>7. FramedOK(sp', w', frames', hist')
  BY <1>1 DEF SessInv, FreshOK, FramedOK, Before, SessType, WorkerType, HistType
<1>8. SessInv(sp', w', frames', hist')
  BY <1>3, <1>4, <1>5, <1>6, <1>7 DEF SessInv
<1> QED
  BY <1>1, <1>2, <1>8, Assembled

\* What HTC_Rx and HTC_Reinit return.
LEMMA Received ==
  ASSUME NEW n \in 0..MaxBytes, NEW o \in HTC_Rx(n)
  PROVE  /\ o.i \in {-2, -1, 0, 1} /\ o.rx \in 0..MaxBytes
         /\ n < MaxBytes - 1 => o.i # -2
<1> DEFINE room == MaxBytes - n - 1
<1>1. room \in Int /\ MaxBytes \in Nat
  BY CenterAssumption
<1>2. CASE room <= 0
  <2>1. o = [i |-> -2, rx |-> n]
    BY <1>2 DEF HTC_Rx
  <2> QED
    BY <1>1, <1>2, <2>1
<1>3. CASE ~(room <= 0)
  <2>1. o = [i |-> -1, rx |-> n] \/ \E k \in 1..room : o \in HTC_Complete(n + k)
    BY <1>3 DEF HTC_Rx
  <2>2. ASSUME NEW k \in 1..room, o \in HTC_Complete(n + k)
        PROVE  o.i \in {0, 1} /\ o.rx \in 0..MaxBytes
    <3>1. n + k \in 0..MaxBytes /\ 0 \in 0..MaxBytes
      BY <1>1
    <3>2. o \in {[i |-> 0, rx |-> 0], [i |-> 0, rx |-> n + k], [i |-> 1, rx |-> 0]}
      BY <2>2 DEF HTC_Complete
    <3> QED
      BY <3>1, <3>2
  <2> QED
    BY <2>1, <2>2
<1> QED
  BY <1>2, <1>3

LEMMA Pipelined ==
  ASSUME NEW o \in HTC_Reinit
  PROVE  o.i \in {0, 1} /\ o.rx \in 0..MaxBytes /\ o.rx < MaxBytes - 1
<1>1. PICK n \in 0..(MaxBytes - 2) : o \in HTC_Complete(n)
  BY DEF HTC_Reinit
<1>2. o \in {[i |-> 0, rx |-> 0], [i |-> 0, rx |-> n], [i |-> 1, rx |-> 0]}
  BY <1>1 DEF HTC_Complete
<1>3. /\ n \in 0..MaxBytes /\ n < MaxBytes - 1 /\ 0 \in 0..MaxBytes /\ 0 < MaxBytes - 1
  BY CenterAssumption
<1> QED
  BY <1>2, <1>3

\* vca_return_session finds what it asserts.
LEMMA Returned ==
  ASSUME NEW s, s.fd, ~s.vcl, s.obj = NoObj, ToWaiter(s)
  PROVE  /\ \/ sp' = [s EXCEPT !.at = "waiter"]
            \/ sp' = [s EXCEPT !.at = "lost", !.fd = FALSE]
         /\ UNCHANGED panic
BY DEF ToWaiter

\* cnt_wait
LEMMA WaitKeeps == ASSUME CenterInv, cnt_wait PROVE CenterInv'
<1> USE Names, Given
<1>1. /\ sp.step = "WAIT" /\ sp.at = "worker" /\ UNCHANGED <<w, frames, hist>>
  BY DEF cnt_wait, Step
<1>2. PICK o \in {[i |-> 0, rx |-> sp.rx]} \cup HTC_Rx(sp.rx) :
        LET s == [sp EXCEPT !.rx = o.rx]
        IN IF o.i = 0
           THEN ToWaiter(s)
           ELSE /\ sp' = CASE o.i = 1 -> [s EXCEPT !.step = "START"]
                           [] o.i = -2 -> [s EXCEPT !.fd = FALSE]
                           [] OTHER -> [s EXCEPT !.fd = FALSE, !.step = "DONE"]
                /\ UNCHANGED panic
  BY DEF cnt_wait
<1>3. /\ sp.rx \in 0..MaxBytes /\ sp.rx < MaxBytes - 1
      /\ sp.fd /\ ~sp.vcl /\ sp.obj = NoObj
  BY <1>1 DEF SessType, SessInv, FreshOK, RequestOK, Having, Before
<1>4. o.i \in {-1, 0, 1} /\ o.rx \in 0..MaxBytes
  BY <1>3, Received
<1> DEFINE s == [sp EXCEPT !.rx = o.rx]
<1>5. s \in SessType /\ s.fd /\ ~s.vcl /\ s.obj = NoObj
  BY <1>3, <1>4 DEF SessType
<1>6. /\ \/ sp' = [s EXCEPT !.step = "START"]
         \/ sp' = [s EXCEPT !.fd = FALSE, !.step = "DONE"]
         \/ sp' = [s EXCEPT !.at = "waiter"]
         \/ sp' = [s EXCEPT !.at = "lost", !.fd = FALSE]
      /\ UNCHANGED panic
  <2>1. CASE o.i = 0
    <3>1. ToWaiter(s)
      BY <1>2, <2>1
    <3> QED
      BY <1>5, <3>1, Returned
  <2>2. CASE o.i = 1
    BY <1>2, <2>2
  <2>3. CASE o.i = -1
    BY <1>2, <2>3
  <2> QED
    BY <1>4, <2>1, <2>2, <2>3
<1>7. PICK a \in {"worker", "waiter", "lost"}, f \in BOOLEAN, t \in {"START", "DONE", "WAIT"} :
        /\ sp' = [sp EXCEPT !.rx = o.rx, !.at = a, !.fd = f, !.step = t]
        /\ \/ a = "worker" /\ t = "START"
           \/ a = "worker" /\ t = "DONE" /\ ~f
           \/ a = "waiter" /\ t = "WAIT" /\ f
           \/ a = "lost" /\ t = "WAIT"
  <2>1. CASE sp' = [s EXCEPT !.step = "START"]
    <3>1. sp' = [sp EXCEPT !.rx = o.rx, !.at = "worker", !.fd = TRUE, !.step = "START"]
      BY <1>1, <1>3, <2>1 DEF SessType
    <3> QED
      BY <3>1
  <2>2. CASE sp' = [s EXCEPT !.fd = FALSE, !.step = "DONE"]
    <3>1. sp' = [sp EXCEPT !.rx = o.rx, !.at = "worker", !.fd = FALSE, !.step = "DONE"]
      BY <1>1, <2>2 DEF SessType
    <3> QED
      BY <3>1
  <2>3. CASE sp' = [s EXCEPT !.at = "waiter"]
    <3>1. sp' = [sp EXCEPT !.rx = o.rx, !.at = "waiter", !.fd = TRUE, !.step = "WAIT"]
      BY <1>1, <1>3, <2>3 DEF SessType
    <3> QED
      BY <3>1
  <2>4. CASE sp' = [s EXCEPT !.at = "lost", !.fd = FALSE]
    <3>1. sp' = [sp EXCEPT !.rx = o.rx, !.at = "lost", !.fd = FALSE, !.step = "WAIT"]
      BY <1>1, <2>4 DEF SessType
    <3> QED
      BY <3>1
  <2> QED
    BY <1>6, <2>1, <2>2, <2>3, <2>4
<1>8. sp' \in SessType
  BY <1>4, <1>7 DEF SessType
<1>9. FreshOK(sp', frames', hist') /\ KeptOK(sp', frames', hist')
  BY <1>1, <1>7 DEF SessInv, FreshOK, KeptOK, Before, SessType, HistType
<1>10. RequestOK(sp', w', frames')
  BY <1>1, <1>7 DEF SessInv, FreshOK, RequestOK, Before, Chosen, Having, Fetching,
     Streaming, SessType, WorkerType, FlagsClear
<1>11. WorkerOK(sp', w', frames', hist')
  BY <1>1, <1>7 DEF SessInv, WorkerOK, Before, Chosen, Fetching, RequestOK,
     SessType, WorkerType, HistType, FlagsClear
<1>12. BusyOK(sp', w', frames', hist')
  BY <1>1, <1>7 DEF SessInv, FreshOK, BusyOK, RequestOK, Before, Chosen, Having, Fetching,
     SessType, WorkerType, HistType, FlagsClear
<1>13. FramedOK(sp', w', frames', hist')
  BY <1>1, <1>7 DEF SessInv, FreshOK, FramedOK, Before, SessType, WorkerType, HistType
<1>14. SessInv(sp', w', frames', hist')
  BY <1>9, <1>10, <1>11, <1>12, <1>13 DEF SessInv
<1> QED
  BY <1>1, <1>6, <1>8, <1>14, Assembled

\* cnt_start
LEMMA StartKeeps == ASSUME CenterInv, cnt_start PROVE CenterInv'
<1> USE Names, Given
<1>1. /\ sp.step = "START" /\ sp.at = "worker" /\ UNCHANGED <<frames, panic, hist>>
      /\ w' = [w EXCEPT !.vcl = FALSE]
  BY DEF cnt_start, Step
<1>2. PICK r \in {"junk", "wrong", "ok"}, close \in BOOLEAN :
       sp' = [sp EXCEPT !.xid = TRUE, !.vcl = TRUE, !.wantbody = FALSE,
                        !.doclose = r = "ok" /\ close,
                        !.fd = @ /\ r # "junk",
                        !.step = CASE r = "junk" -> "DONE"
                                   [] r = "wrong" -> "ERROR"
                                   [] OTHER -> "RECV"]
  BY DEF cnt_start
<1>3. PICK f \in BOOLEAN, c \in BOOLEAN, t \in {"DONE", "ERROR", "RECV"} :
        /\ sp' = [sp EXCEPT !.xid = TRUE, !.vcl = TRUE, !.wantbody = FALSE,
                            !.doclose = c, !.fd = f, !.step = t]
        /\ t = "DONE" => ~f
  <2> DEFINE f == sp.fd /\ r # "junk"
             c == r = "ok" /\ close
             t == CASE r = "junk" -> "DONE" [] r = "wrong" -> "ERROR" [] OTHER -> "RECV"
  <2>1. f \in BOOLEAN /\ c \in BOOLEAN /\ t \in {"DONE", "ERROR", "RECV"} /\ (t = "DONE" => ~f)
    BY <1>2
  <2>2. sp' = [sp EXCEPT !.xid = TRUE, !.vcl = TRUE, !.wantbody = FALSE,
                         !.doclose = c, !.fd = f, !.step = t]
    BY <1>2, Zenon
  <2> QED
    BY <2>1, <2>2
<1>4. sp' \in SessType /\ w' \in WorkerType
  BY <1>1, <1>3, ZenonT(40) DEF SessType, WorkerType
<1>5. FreshOK(sp', frames', hist') /\ KeptOK(sp', frames', hist')
  BY <1>1, <1>3 DEF SessInv, FreshOK, KeptOK, Before, SessType, HistType
<1>6. RequestOK(sp', w', frames')
  BY <1>1, <1>3 DEF SessInv, FreshOK, RequestOK, Before, Chosen, Having, Fetching,
     Streaming, SessType, WorkerType, FlagsClear
<1>7. WorkerOK(sp', w', frames', hist')
  BY <1>1, <1>3 DEF SessInv, WorkerOK, Before, Chosen, Fetching, RequestOK,
     SessType, WorkerType, HistType, FlagsClear
<1>8. BusyOK(sp', w', frames', hist')
  BY <1>1, <1>3 DEF SessInv, FreshOK, BusyOK, RequestOK, Before, Chosen, Having, Fetching,
     SessType, WorkerType, HistType, FlagsClear
<1>9. FramedOK(sp', w', frames', hist')
  BY <1>1, <1>3 DEF SessInv, FreshOK, FramedOK, Before, SessType, WorkerType, HistType
<1>10. SessInv(sp', w', frames', hist')
  BY <1>5, <1>6, <1>7, <1>8, <1>9 DEF SessInv
<1> QED
  BY <1>1, <1>4, <1>10, Assembled

\* The flags are clear in what ClearFlags returns.
LEMMA Cleared ==
  ASSUME NEW x \in WorkerType
  PROVE  /\ ClearFlags(x) \in WorkerType /\ FlagsClear(ClearFlags(x))
         /\ ClearFlags(x) = [x EXCEPT !.do_esi = FALSE, !.do_gzip = FALSE,
                                      !.do_gunzip = FALSE, !.do_stream = FALSE]
BY DEF ClearFlags, FlagsClear, WorkerType

\* cnt_recv
LEMMA RecvKeeps == ASSUME CenterInv, cnt_recv PROVE CenterInv'
<1> USE Names, Given
<1>1. /\ sp.step = "RECV" /\ sp.at = "worker" /\ UNCHANGED <<frames, hist>>
  BY DEF cnt_recv, Step
<1>2. PICK h \in {"lookup", "pipe", "pass", "error"}, body \in BOOLEAN :
       IF sp.restarts >= MaxRestarts
       THEN /\ sp' = [sp EXCEPT !.director = TRUE, !.step = "ERROR"]
            /\ UNCHANGED <<w, panic>>
       ELSE IF h = "pipe" /\ esi_level > 0
       THEN panic' = "incompl" /\ UNCHANGED <<sp, w>>
       ELSE /\ sp' = [sp EXCEPT !.director = TRUE, !.wantbody = body,
                                !.step = CASE h = "lookup" -> "LOOKUP"
                                           [] h = "pipe" -> "PIPE"
                                           [] h = "pass" -> "PASS"
                                           [] OTHER -> "ERROR"]
            /\ w' = ClearFlags(w)
            /\ UNCHANGED panic
  BY DEF cnt_recv
<1>3. CASE sp.restarts >= MaxRestarts
  <2>1. /\ sp' = [sp EXCEPT !.director = TRUE, !.step = "ERROR"] /\ UNCHANGED <<w, panic>>
    BY <1>2, <1>3
  <2>2. sp' \in SessType
    BY <2>1 DEF SessType
  <2>3. FreshOK(sp', frames', hist') /\ KeptOK(sp', frames', hist')
    BY <1>1, <2>1 DEF SessInv, FreshOK, KeptOK, Before, SessType, HistType
  <2>4. RequestOK(sp', w', frames')
    BY <1>1, <2>1 DEF SessInv, FreshOK, RequestOK, Before, Chosen, Having, Fetching,
       Streaming, SessType, WorkerType, FlagsClear
  <2>5. WorkerOK(sp', w', frames', hist')
    BY <1>1, <2>1 DEF SessInv, WorkerOK, Before, Chosen, Fetching, RequestOK,
       SessType, WorkerType, HistType, FlagsClear
  <2>6. BusyOK(sp', w', frames', hist')
    BY <1>1, <2>1 DEF SessInv, FreshOK, BusyOK, RequestOK, Before, Chosen, Having, Fetching,
       SessType, WorkerType, HistType, FlagsClear
  <2>7. FramedOK(sp', w', frames', hist')
    BY <1>1, <2>1 DEF SessInv, FreshOK, FramedOK, Before, SessType, WorkerType, HistType
  <2>8. SessInv(sp', w', frames', hist')
    BY <2>3, <2>4, <2>5, <2>6, <2>7 DEF SessInv
  <2> QED
    BY <1>1, <2>1, <2>2, <2>8, Assembled
<1>4. CASE ~(sp.restarts >= MaxRestarts) /\ h = "pipe" /\ esi_level > 0
  BY <1>1, <1>2, <1>4, Dead
<1>5. CASE ~(sp.restarts >= MaxRestarts) /\ ~(h = "pipe" /\ esi_level > 0)
  <2>1. PICK t \in {"LOOKUP", "PIPE", "PASS", "ERROR"} :
          /\ sp' = [sp EXCEPT !.director = TRUE, !.wantbody = body, !.step = t]
          /\ t = "PIPE" => h = "pipe"
    BY <1>2, <1>5
  <2>2. /\ UNCHANGED panic
        /\ w' = [w EXCEPT !.do_esi = FALSE, !.do_gzip = FALSE,
                          !.do_gunzip = FALSE, !.do_stream = FALSE]
        /\ w' \in WorkerType /\ FlagsClear(w')
    BY <1>2, <1>5, Cleared
  <2>3. sp' \in SessType
    BY <2>1 DEF SessType
  <2>4. sp.restarts < MaxRestarts
    BY <1>5 DEF SessType
  <2>5. t = "PIPE" => frames = <<>>
    BY <1>5, <2>1, EmptySeq DEF esi_level
  <2>6. t = "PASS" /\ sp.objcore # Null => hist.outofobjects
    BY <1>1 DEF SessInv, BusyOK
  <2>7. FreshOK(sp', frames', hist') /\ KeptOK(sp', frames', hist')
    BY <1>1, <2>1, <2>2, <2>4, <2>5 DEF SessInv, FreshOK, KeptOK, Before, SessType, HistType
  <2>8. RequestOK(sp', w', frames')
    BY <1>1, <2>1, <2>2, <2>4, <2>5 DEF SessInv, FreshOK, RequestOK, Before, Chosen, Having, Fetching,
       Streaming, SessType, WorkerType, FlagsClear
  <2>9. WorkerOK(sp', w', frames', hist')
    BY <1>1, <2>1, <2>2, <2>4, <2>5 DEF SessInv, WorkerOK, Before, Chosen, Fetching, RequestOK,
       SessType, WorkerType, HistType, FlagsClear
  <2>10. BusyOK(sp', w', frames', hist')
    BY <1>1, <2>1, <2>2, <2>4, <2>5 DEF SessInv, FreshOK, BusyOK, RequestOK, Before, Chosen, Having, Fetching,
       SessType, WorkerType, HistType, FlagsClear
  <2>11. FramedOK(sp', w', frames', hist')
    BY <1>1, <2>1, <2>2, <2>4, <2>5 DEF SessInv, FreshOK, FramedOK, Before, SessType, WorkerType, HistType
  <2>12. SessInv(sp', w', frames', hist')
    BY <2>7, <2>8, <2>9, <2>10, <2>11 DEF SessInv
  <2> QED
    BY <1>1, <2>2, <2>3, <2>12, Assembled
<1> QED
  BY <1>3, <1>4, <1>5

\* cnt_lookup
LEMMA LookupKeeps == ASSUME CenterInv, cnt_lookup PROVE CenterInv'
<1> USE Names, Given
<1>1. /\ sp.step = "LOOKUP" /\ sp.at = "worker" /\ UNCHANGED <<w, frames, panic, hist>>
      /\ \/ sp' = [sp EXCEPT !.objcore = "busy", !.step = "MISS"]
         \/ sp' = [sp EXCEPT !.objcore = Null, !.step = "PASS"]
         \/ \E o \in Objects : o.oc = "live" /\ sp' = [sp EXCEPT !.obj = o, !.step = "HIT"]
         \/ esi_level = 0 /\ sp' = [sp EXCEPT !.at = "parked"]
  BY DEF cnt_lookup, Step
<1>2. CASE sp' = [sp EXCEPT !.objcore = "busy", !.step = "MISS"]
  <2>1. sp' \in SessType
    BY <1>2 DEF SessType
  <2>2. FreshOK(sp', frames', hist') /\ KeptOK(sp', frames', hist')
    BY <1>1, <1>2 DEF SessInv, FreshOK, KeptOK, Before, SessType, HistType
  <2>3. RequestOK(sp', w', frames')
    BY <1>1, <1>2 DEF SessInv, FreshOK, RequestOK, Before, Chosen, Having, Fetching,
       Streaming, SessType, WorkerType, FlagsClear
  <2>4. WorkerOK(sp', w', frames', hist')
    BY <1>1, <1>2 DEF SessInv, WorkerOK, Before, Chosen, Fetching, RequestOK,
       SessType, WorkerType, HistType, FlagsClear
  <2>5. BusyOK(sp', w', frames', hist')
    BY <1>1, <1>2 DEF SessInv, FreshOK, BusyOK, RequestOK, Before, Chosen, Having, Fetching,
       SessType, WorkerType, HistType, FlagsClear
  <2>6. FramedOK(sp', w', frames', hist')
    BY <1>1, <1>2 DEF SessInv, FreshOK, FramedOK, Before, SessType, WorkerType, HistType
  <2>7. SessInv(sp', w', frames', hist')
    BY <2>2, <2>3, <2>4, <2>5, <2>6 DEF SessInv
  <2> QED
    BY <1>1, <2>1, <2>7, Assembled
<1>3. CASE sp' = [sp EXCEPT !.objcore = Null, !.step = "PASS"]
  <2>1. sp' \in SessType
    BY <1>3 DEF SessType
  <2>2. FreshOK(sp', frames', hist') /\ KeptOK(sp', frames', hist')
    BY <1>1, <1>3 DEF SessInv, FreshOK, KeptOK, Before, SessType, HistType
  <2>3. RequestOK(sp', w', frames')
    BY <1>1, <1>3 DEF SessInv, FreshOK, RequestOK, Before, Chosen, Having, Fetching,
       Streaming, SessType, WorkerType, FlagsClear
  <2>4. WorkerOK(sp', w', frames', hist')
    BY <1>1, <1>3 DEF SessInv, WorkerOK, Before, Chosen, Fetching, RequestOK,
       SessType, WorkerType, HistType, FlagsClear
  <2>5. BusyOK(sp', w', frames', hist')
    BY <1>1, <1>3 DEF SessInv, FreshOK, BusyOK, RequestOK, Before, Chosen, Having, Fetching,
       SessType, WorkerType, HistType, FlagsClear
  <2>6. FramedOK(sp', w', frames', hist')
    BY <1>1, <1>3 DEF SessInv, FreshOK, FramedOK, Before, SessType, WorkerType, HistType
  <2>7. SessInv(sp', w', frames', hist')
    BY <2>2, <2>3, <2>4, <2>5, <2>6 DEF SessInv
  <2> QED
    BY <1>1, <2>1, <2>7, Assembled
<1>4. ASSUME NEW o \in Objects, o.oc = "live", sp' = [sp EXCEPT !.obj = o, !.step = "HIT"]
      PROVE  CenterInv'
  <2>1. sp' \in SessType /\ o # NoObj
    BY <1>4 DEF SessType
  <2>2. FreshOK(sp', frames', hist') /\ KeptOK(sp', frames', hist')
    BY <1>1, <1>4, <2>1 DEF SessInv, FreshOK, KeptOK, Before, SessType, HistType
  <2>3. RequestOK(sp', w', frames')
    BY <1>1, <1>4, <2>1 DEF SessInv, FreshOK, RequestOK, Before, Chosen, Having, Fetching,
       Streaming, SessType, WorkerType, FlagsClear
  <2>4. WorkerOK(sp', w', frames', hist')
    BY <1>1, <1>4, <2>1 DEF SessInv, WorkerOK, Before, Chosen, Fetching, RequestOK,
       SessType, WorkerType, HistType, FlagsClear
  <2>5. BusyOK(sp', w', frames', hist')
    BY <1>1, <1>4, <2>1, ZenonT(40) DEF SessInv, FreshOK, BusyOK, RequestOK, Before, Chosen, Having, Fetching,
       SessType, WorkerType, HistType, FlagsClear
  <2>6. FramedOK(sp', w', frames', hist')
    BY <1>1, <1>4, <2>1 DEF SessInv, FreshOK, FramedOK, Before, SessType, WorkerType, HistType
  <2>7. SessInv(sp', w', frames', hist')
    BY <2>2, <2>3, <2>4, <2>5, <2>6 DEF SessInv
  <2> QED
    BY <1>1, <2>1, <2>7, Assembled
<1>5. CASE esi_level = 0 /\ sp' = [sp EXCEPT !.at = "parked"]
  <2>1. sp' \in SessType
    BY <1>5 DEF SessType
  <2>2. frames = <<>>
    BY <1>5, EmptySeq DEF esi_level
  <2>3. FreshOK(sp', frames', hist') /\ KeptOK(sp', frames', hist')
    BY <1>1, <1>5, <2>2 DEF SessInv, FreshOK, KeptOK, Before, SessType, HistType
  <2>4. RequestOK(sp', w', frames')
    BY <1>1, <1>5, <2>2 DEF SessInv, FreshOK, RequestOK, Before, Chosen, Having, Fetching,
       Streaming, SessType, WorkerType, FlagsClear
  <2>5. WorkerOK(sp', w', frames', hist')
    BY <1>1, <1>5, <2>2 DEF SessInv, WorkerOK, Before, Chosen, Fetching, RequestOK,
       SessType, WorkerType, HistType, FlagsClear
  <2>6. BusyOK(sp', w', frames', hist')
    BY <1>1, <1>5, <2>2 DEF SessInv, FreshOK, BusyOK, RequestOK, Before, Chosen, Having, Fetching,
       SessType, WorkerType, HistType, FlagsClear
  <2>7. FramedOK(sp', w', frames', hist')
    BY <1>1, <1>5, <2>2 DEF SessInv, FreshOK, FramedOK, Before, SessType, WorkerType, HistType
  <2>8. SessInv(sp', w', frames', hist')
    BY <2>3, <2>4, <2>5, <2>6, <2>7 DEF SessInv
  <2> QED
    BY <1>1, <2>1, <2>8, Assembled
<1> QED
  BY <1>1, <1>2, <1>3, <1>4, <1>5

\* cnt_hit
LEMMA HitKeeps == ASSUME CenterInv, cnt_hit PROVE CenterInv'
<1> USE Names, Given
<1> DEFINE drop == [sp EXCEPT !.obj = NoObj, !.objcore = Null]
<1>1. /\ sp.step = "HIT" /\ sp.at = "worker" /\ UNCHANGED <<w, frames, panic, hist>>
      /\ \/ sp' = [sp EXCEPT !.step = "PREPRESP"]
         \/ \E t \in {"PASS", "ERROR"} : sp' = [drop EXCEPT !.step = t]
         \/ sp' = [drop EXCEPT !.step = "RECV", !.director = FALSE,
                               !.restarts = sp.restarts + 1]
  BY DEF cnt_hit, Step, SessType
<1>2. CASE sp' = [sp EXCEPT !.step = "PREPRESP"]
  <2>1. sp' \in SessType
    BY <1>2 DEF SessType
  <2>2. FreshOK(sp', frames', hist') /\ KeptOK(sp', frames', hist')
    BY <1>1, <1>2 DEF SessInv, FreshOK, KeptOK, Before, SessType, HistType
  <2>3. RequestOK(sp', w', frames')
    BY <1>1, <1>2 DEF SessInv, FreshOK, RequestOK, Before, Chosen, Having, Fetching,
       Streaming, SessType, WorkerType, FlagsClear
  <2>4. WorkerOK(sp', w', frames', hist')
    BY <1>1, <1>2 DEF SessInv, WorkerOK, Before, Chosen, Fetching, RequestOK,
       SessType, WorkerType, HistType, FlagsClear
  <2>5. BusyOK(sp', w', frames', hist')
    BY <1>1, <1>2 DEF SessInv, FreshOK, BusyOK, RequestOK, Before, Chosen, Having, Fetching,
       SessType, WorkerType, HistType, FlagsClear
  <2>6. FramedOK(sp', w', frames', hist')
    BY <1>1, <1>2 DEF SessInv, FreshOK, FramedOK, Before, SessType, WorkerType, HistType
  <2>7. SessInv(sp', w', frames', hist')
    BY <2>2, <2>3, <2>4, <2>5, <2>6 DEF SessInv
  <2> QED
    BY <1>1, <2>1, <2>7, Assembled
<1>3. ASSUME NEW t \in {"PASS", "ERROR"}, sp' = [drop EXCEPT !.step = t] PROVE CenterInv'
  <2>1. sp' \in SessType
    BY <1>3 DEF SessType
  <2>2. FreshOK(sp', frames', hist') /\ KeptOK(sp', frames', hist')
    BY <1>1, <1>3 DEF SessInv, FreshOK, KeptOK, Before, SessType, HistType
  <2>3. RequestOK(sp', w', frames')
    BY <1>1, <1>3 DEF SessInv, FreshOK, RequestOK, Before, Chosen, Having, Fetching,
       Streaming, SessType, WorkerType, FlagsClear
  <2>4. WorkerOK(sp', w', frames', hist')
    BY <1>1, <1>3 DEF SessInv, WorkerOK, Before, Chosen, Fetching, RequestOK,
       SessType, WorkerType, HistType, FlagsClear
  <2>5. BusyOK(sp', w', frames', hist')
    BY <1>1, <1>3 DEF SessInv, FreshOK, BusyOK, RequestOK, Before, Chosen, Having, Fetching,
       SessType, WorkerType, HistType, FlagsClear
  <2>6. FramedOK(sp', w', frames', hist')
    BY <1>1, <1>3 DEF SessInv, FreshOK, FramedOK, Before, SessType, WorkerType, HistType
  <2>7. SessInv(sp', w', frames', hist')
    BY <2>2, <2>3, <2>4, <2>5, <2>6 DEF SessInv
  <2> QED
    BY <1>1, <2>1, <2>7, Assembled
<1>4. CASE sp' = [drop EXCEPT !.step = "RECV", !.director = FALSE, !.restarts = sp.restarts + 1]
  <2>1. sp.restarts + 1 \in 0..MaxRestarts
    BY <1>1 DEF SessInv, RequestOK, Chosen, SessType
  <2>2. sp' \in SessType
    BY <1>4, <2>1 DEF SessType
  <2>3. FreshOK(sp', frames', hist') /\ KeptOK(sp', frames', hist')
    BY <1>1, <1>4 DEF SessInv, FreshOK, KeptOK, Before, SessType, HistType
  <2>4. RequestOK(sp', w', frames')
    BY <1>1, <1>4 DEF SessInv, FreshOK, RequestOK, Before, Chosen, Having, Fetching,
       Streaming, SessType, WorkerType, FlagsClear
  <2>5. WorkerOK(sp', w', frames', hist')
    BY <1>1, <1>4 DEF SessInv, WorkerOK, Before, Chosen, Fetching, RequestOK,
       SessType, WorkerType, HistType, FlagsClear
  <2>6. BusyOK(sp', w', frames', hist')
    BY <1>1, <1>4 DEF SessInv, FreshOK, BusyOK, RequestOK, Before, Chosen, Having, Fetching,
       SessType, WorkerType, HistType, FlagsClear
  <2>7. FramedOK(sp', w', frames', hist')
    BY <1>1, <1>4 DEF SessInv, FreshOK, FramedOK, Before, SessType, WorkerType, HistType
  <2>8. SessInv(sp', w', frames', hist')
    BY <2>3, <2>4, <2>5, <2>6, <2>7 DEF SessInv
  <2> QED
    BY <1>1, <2>2, <2>8, Assembled
<1> QED
  BY <1>1, <1>2, <1>3, <1>4

\* cnt_miss
LEMMA MissKeeps == ASSUME CenterInv, cnt_miss PROVE CenterInv'
<1> USE Names, Given
<1>1. sp.step = "MISS" /\ sp.at = "worker" /\ UNCHANGED <<frames, hist>>
  BY DEF cnt_miss, Step
<1>2. CASE panic' = "incompl" /\ UNCHANGED <<sp, w>>
  BY <1>1, <1>2, Dead
<1>3. ASSUME NEW c \in {Null, sp.objcore}, NEW b \in BOOLEAN,
             NEW t \in {"ERROR", "PASS", "FETCH"},
             sp' = [sp EXCEPT !.objcore = c, !.step = t],
             w' = [w EXCEPT !.bereq = b], UNCHANGED panic,
             t = "FETCH" \/ c = Null, b <=> t # "ERROR"
      PROVE  CenterInv'
  <2>1. sp' \in SessType /\ w' \in WorkerType
    BY <1>3 DEF SessType, WorkerType
  <2>2. FreshOK(sp', frames', hist') /\ KeptOK(sp', frames', hist')
    BY <1>1, <1>3 DEF SessInv, FreshOK, KeptOK, Before, SessType, HistType
  <2>3. RequestOK(sp', w', frames')
    BY <1>1, <1>3 DEF SessInv, FreshOK, RequestOK, Before, Chosen, Having, Fetching,
       Streaming, SessType, WorkerType, FlagsClear
  <2>4. WorkerOK(sp', w', frames', hist')
    BY <1>1, <1>3 DEF SessInv, WorkerOK, Before, Chosen, Fetching, RequestOK,
       SessType, WorkerType, HistType, FlagsClear
  <2>5. BusyOK(sp', w', frames', hist')
    BY <1>1, <1>3 DEF SessInv, FreshOK, BusyOK, RequestOK, Before, Chosen, Having, Fetching,
       SessType, WorkerType, HistType, FlagsClear
  <2>6. FramedOK(sp', w', frames', hist')
    BY <1>1, <1>3 DEF SessInv, FreshOK, FramedOK, Before, SessType, WorkerType, HistType
  <2>7. SessInv(sp', w', frames', hist')
    BY <2>2, <2>3, <2>4, <2>5, <2>6 DEF SessInv
  <2> QED
    BY <1>1, <1>3, <2>1, <2>7, Assembled
<1>4. PICK h \in {"error", "pass", "fetch", "restart"} :
       IF h = "restart"
       THEN panic' = "incompl" /\ UNCHANGED <<sp, w>>
       ELSE /\ sp' = [sp EXCEPT !.objcore = IF h = "fetch" THEN @ ELSE Null,
                                !.step = CASE h = "error" -> "ERROR"
                                           [] h = "pass" -> "PASS"
                                           [] OTHER -> "FETCH"]
            /\ w' = [w EXCEPT !.bereq = h # "error"]
            /\ UNCHANGED panic
  BY DEF cnt_miss
<1> DEFINE c == IF h = "fetch" THEN sp.objcore ELSE Null
           b == h # "error"
           t == CASE h = "error" -> "ERROR" [] h = "pass" -> "PASS" [] OTHER -> "FETCH"
<1>5. /\ c \in {Null, sp.objcore} /\ b \in BOOLEAN /\ t \in {"ERROR", "PASS", "FETCH"}
      /\ h # "restart" => (t = "FETCH" \/ c = Null) /\ (b <=> t # "ERROR")
  OBVIOUS
<1>6. h # "restart" => /\ sp' = [sp EXCEPT !.objcore = c, !.step = t]
                       /\ w' = [w EXCEPT !.bereq = b] /\ UNCHANGED panic
  BY <1>4, Zenon
<1> HIDE DEF c, b, t
<1> QED
  BY <1>2, <1>3, <1>4, <1>5, <1>6

\* cnt_pass
LEMMA PassKeeps == ASSUME CenterInv, cnt_pass PROVE CenterInv'
<1> USE Names, Given
<1>1. sp.step = "PASS" /\ sp.at = "worker" /\ UNCHANGED <<frames, hist>>
  BY DEF cnt_pass, Step
<1>2. CASE panic' = "incompl" /\ UNCHANGED <<sp, w>>
  BY <1>1, <1>2, Dead
<1>3. ASSUME NEW b \in BOOLEAN, NEW t \in {"ERROR", "FETCH"},
             sp' = [sp EXCEPT !.step = t], w' = [w EXCEPT !.bereq = b],
             UNCHANGED panic, b <=> t # "ERROR"
      PROVE  CenterInv'
  <2>1. sp' \in SessType /\ w' \in WorkerType
    BY <1>3 DEF SessType, WorkerType
  <2>2. FreshOK(sp', frames', hist') /\ KeptOK(sp', frames', hist')
    BY <1>1, <1>3 DEF SessInv, FreshOK, KeptOK, Before, SessType, HistType
  <2>3. RequestOK(sp', w', frames')
    BY <1>1, <1>3 DEF SessInv, FreshOK, RequestOK, Before, Chosen, Having, Fetching,
       Streaming, SessType, WorkerType, FlagsClear
  <2>4. WorkerOK(sp', w', frames', hist')
    BY <1>1, <1>3 DEF SessInv, WorkerOK, Before, Chosen, Fetching, RequestOK,
       SessType, WorkerType, HistType, FlagsClear
  <2>5. BusyOK(sp', w', frames', hist')
    BY <1>1, <1>3 DEF SessInv, FreshOK, BusyOK, RequestOK, Before, Chosen, Having, Fetching,
       SessType, WorkerType, HistType, FlagsClear
  <2>6. FramedOK(sp', w', frames', hist')
    BY <1>1, <1>3 DEF SessInv, FreshOK, FramedOK, Before, SessType, WorkerType, HistType
  <2>7. SessInv(sp', w', frames', hist')
    BY <2>2, <2>3, <2>4, <2>5, <2>6 DEF SessInv
  <2> QED
    BY <1>1, <1>3, <2>1, <2>7, Assembled
<1>4. PICK h \in {"error", "pass", "restart"} :
       IF h = "restart"
       THEN panic' = "incompl" /\ UNCHANGED <<sp, w>>
       ELSE /\ sp' = [sp EXCEPT !.step = IF h = "error" THEN "ERROR" ELSE "FETCH"]
            /\ w' = [w EXCEPT !.bereq = h # "error"]
            /\ UNCHANGED panic
  BY DEF cnt_pass
<1> DEFINE b == h # "error"
           t == IF h = "error" THEN "ERROR" ELSE "FETCH"
<1>5. b \in BOOLEAN /\ t \in {"ERROR", "FETCH"} /\ (b <=> t # "ERROR")
  OBVIOUS
<1>6. h # "restart" => /\ sp' = [sp EXCEPT !.step = t]
                       /\ w' = [w EXCEPT !.bereq = b] /\ UNCHANGED panic
  BY <1>4, Zenon
<1> HIDE DEF b, t
<1> QED
  BY <1>2, <1>3, <1>4, <1>5, <1>6

\* cnt_pipe
LEMMA PipeKeeps == ASSUME CenterInv, cnt_pipe PROVE CenterInv'
<1> USE Names, Given
<1>1. sp.step = "PIPE" /\ sp.at = "worker" /\ UNCHANGED <<w, frames>>
  BY DEF cnt_pipe, Step
<1>2. PICK h \in {"error", "nobackend", "pipe"} :
       IF h = "error"
       THEN panic' = "incompl" /\ UNCHANGED <<sp, hist>>
       ELSE /\ sp' = [sp EXCEPT !.fd = @ /\ h = "nobackend", !.step = "DONE"]
            /\ hist' = [hist EXCEPT !.sent = IF h = "nobackend" THEN "nopipe" ELSE @]
            /\ UNCHANGED panic
  BY DEF cnt_pipe
<1>3. CASE h = "error"
  BY <1>1, <1>2, <1>3, Dead
<1>4. CASE h = "nobackend"
  <2>1. /\ sp' = [sp EXCEPT !.fd = sp.fd, !.step = "DONE"] /\ UNCHANGED panic
        /\ hist' = [hist EXCEPT !.sent = "nopipe"]
    BY <1>2, <1>4 DEF SessType
  <2>2. sp' \in SessType /\ hist' \in HistType
    BY <2>1 DEF SessType, HistType
  <2>3. FreshOK(sp', frames', hist') /\ KeptOK(sp', frames', hist')
    BY <1>1, <2>1 DEF SessInv, FreshOK, KeptOK, Before, SessType, HistType
  <2>4. RequestOK(sp', w', frames')
    BY <1>1, <2>1 DEF SessInv, FreshOK, RequestOK, Before, Chosen, Having, Fetching,
       Streaming, SessType, WorkerType, FlagsClear
  <2>5. WorkerOK(sp', w', frames', hist')
    BY <1>1, <2>1 DEF SessInv, WorkerOK, Before, Chosen, Fetching, RequestOK,
       SessType, WorkerType, HistType, FlagsClear
  <2>6. BusyOK(sp', w', frames', hist')
    BY <1>1, <2>1 DEF SessInv, FreshOK, BusyOK, RequestOK, Before, Chosen, Having, Fetching,
       SessType, WorkerType, HistType, FlagsClear
  <2>7. FramedOK(sp', w', frames', hist')
    <3>1. hist'.announced = hist.announced
      BY <2>1 DEF HistType
    <3> QED
      BY <1>1, <2>1, <3>1, SentStill DEF SessInv, FreshOK, FramedOK, Before, SessType, WorkerType, HistType
  <2>8. SessInv(sp', w', frames', hist')
    BY <2>3, <2>4, <2>5, <2>6, <2>7 DEF SessInv
  <2>9. hist.spoiled => hist'.spoiled
    BY <2>1 DEF HistType
  <2> QED
    BY <1>1, <2>1, <2>2, <2>8, <2>9, Assembled
<1>5. CASE h = "pipe"
  <2>1. /\ sp' = [sp EXCEPT !.fd = FALSE, !.step = "DONE"] /\ UNCHANGED <<panic, hist>>
    BY <1>2, <1>5, ZenonT(40) DEF SessType, HistType
  <2>2. sp' \in SessType
    BY <2>1 DEF SessType
  <2>3. FreshOK(sp', frames', hist') /\ KeptOK(sp', frames', hist')
    BY <1>1, <2>1 DEF SessInv, FreshOK, KeptOK, Before, SessType, HistType
  <2>4. RequestOK(sp', w', frames')
    BY <1>1, <2>1 DEF SessInv, FreshOK, RequestOK, Before, Chosen, Having, Fetching,
       Streaming, SessType, WorkerType, FlagsClear
  <2>5. WorkerOK(sp', w', frames', hist')
    BY <1>1, <2>1 DEF SessInv, WorkerOK, Before, Chosen, Fetching, RequestOK,
       SessType, WorkerType, HistType, FlagsClear
  <2>6. BusyOK(sp', w', frames', hist')
    BY <1>1, <2>1 DEF SessInv, FreshOK, BusyOK, RequestOK, Before, Chosen, Having, Fetching,
       SessType, WorkerType, HistType, FlagsClear
  <2>7. FramedOK(sp', w', frames', hist')
    <3>1. hist'.announced = hist.announced
      BY <2>1 DEF HistType
    <3> QED
      BY <1>1, <2>1, <3>1, SentStill DEF SessInv, FreshOK, FramedOK, Before, SessType, WorkerType, HistType
  <2>8. SessInv(sp', w', frames', hist')
    BY <2>3, <2>4, <2>5, <2>6, <2>7 DEF SessInv
  <2> QED
    BY <1>1, <2>1, <2>2, <2>8, Assembled
<1> QED
  BY <1>3, <1>4, <1>5

\* cnt_fetch
LEMMA FetchKeeps == ASSUME CenterInv, cnt_fetch PROVE CenterInv'
<1> USE Names, Given
<1>1. sp.step = "FETCH" /\ sp.at = "worker" /\ UNCHANGED <<frames, panic, hist>>
  BY DEF cnt_fetch, Step
<1>3. ASSUME NEW n \in {sp.restarts, sp.restarts + 1}, NEW t \in {"ERROR", "RECV"},
             sp' = [sp EXCEPT !.vbc = FALSE, !.objcore = Null, !.director = FALSE,
                              !.restarts = n, !.step = t],
             w' = [w EXCEPT !.do_close = FALSE, !.bereq = FALSE, !.beresp = FALSE,
                            !.hcl = FALSE, !.hint = FALSE]
      PROVE  CenterInv'
  <2>1. n \in 0..MaxRestarts
    BY <1>1 DEF SessInv, RequestOK, Chosen, SessType
  <2>2. sp' \in SessType /\ w' \in WorkerType
    BY <1>3, <2>1, ZenonT(40) DEF SessType, WorkerType
  <2>3. FreshOK(sp', frames', hist') /\ KeptOK(sp', frames', hist')
    BY <1>1, <1>3 DEF SessInv, FreshOK, KeptOK, Before, SessType, HistType
  <2>4. RequestOK(sp', w', frames')
    BY <1>1, <1>3 DEF SessInv, FreshOK, RequestOK, Before, Chosen, Having, Fetching,
       Streaming, SessType, WorkerType, FlagsClear
  <2>5. WorkerOK(sp', w', frames', hist')
    BY <1>1, <1>3 DEF SessInv, WorkerOK, Before, Chosen, Fetching, RequestOK,
       SessType, WorkerType, HistType, FlagsClear
  <2>6. BusyOK(sp', w', frames', hist')
    BY <1>1, <1>3 DEF SessInv, FreshOK, BusyOK, RequestOK, Before, Chosen, Having, Fetching,
       SessType, WorkerType, HistType, FlagsClear
  <2>7. FramedOK(sp', w', frames', hist')
    BY <1>1, <1>3 DEF SessInv, FreshOK, FramedOK, Before, SessType, WorkerType, HistType
  <2>8. SessInv(sp', w', frames', hist')
    BY <2>3, <2>4, <2>5, <2>6, <2>7 DEF SessInv
  <2> QED
    BY <1>1, <2>2, <2>8, Assembled
<1>4. PICK o \in FetchHdr :
       LET s == [sp EXCEPT !.vbc = o.vbc]
       IN    \/ /\ o.ret = 0
                /\ \E hcl, close, st, es, gz, gu \in BOOLEAN :
                     w' = [w EXCEPT !.hcl = hcl, !.do_close = close,
                                    !.do_stream = st, !.do_esi = es,
                                    !.do_gzip = gz, !.do_gunzip = gu,
                                    !.beresp = TRUE]
                /\ sp' = [s EXCEPT !.step = "FETCHBODY"]
             \/ /\ sp' \in {[VDI_CloseFd(s) EXCEPT !.objcore = Null,
                                !.director = FALSE, !.step = "ERROR"]}
                       \cup (IF o.ret # 0 THEN {} ELSE
                             {[VDI_CloseFd(s) EXCEPT !.objcore = Null,
                                !.director = FALSE, !.restarts = @ + 1,
                                !.step = "RECV"]})
                /\ w' = [DoCloseReset(w) EXCEPT !.bereq = FALSE, !.beresp = FALSE,
                                                !.hcl = FALSE, !.hint = FALSE]
  <2>1. PICK o1 \in FetchHdr : \E o2 \in IF o1.ret = 1 THEN FetchHdr ELSE {o1} :
       LET s == [sp EXCEPT !.vbc = o2.vbc]
       IN    \/ /\ o2.ret = 0
                /\ \E hcl, close, st, es, gz, gu \in BOOLEAN :
                     w' = [w EXCEPT !.hcl = hcl, !.do_close = close,
                                    !.do_stream = st, !.do_esi = es,
                                    !.do_gzip = gz, !.do_gunzip = gu,
                                    !.beresp = TRUE]
                /\ sp' = [s EXCEPT !.step = "FETCHBODY"]
             \/ /\ sp' \in {[VDI_CloseFd(s) EXCEPT !.objcore = Null,
                                !.director = FALSE, !.step = "ERROR"]}
                       \cup (IF o2.ret # 0 THEN {} ELSE
                             {[VDI_CloseFd(s) EXCEPT !.objcore = Null,
                                !.director = FALSE, !.restarts = @ + 1,
                                !.step = "RECV"]})
                /\ w' = [DoCloseReset(w) EXCEPT !.bereq = FALSE, !.beresp = FALSE,
                                                !.hcl = FALSE, !.hint = FALSE]
    BY DEF cnt_fetch
  <2>2. \A o2 \in IF o1.ret = 1 THEN FetchHdr ELSE {o1} : o2 \in FetchHdr
    OBVIOUS
  <2> QED
    BY <2>1, <2>2
<1>5. o.vbc \in BOOLEAN /\ (o.ret = 0 => o.vbc = TRUE)
  <2>1. CASE o = [ret |-> -1, vbc |-> FALSE]
    BY <2>1
  <2>2. CASE o = [ret |-> 1, vbc |-> FALSE]
    BY <2>2
  <2>3. CASE o = [ret |-> 0, vbc |-> TRUE]
    BY <2>3
  <2> QED
    BY <2>1, <2>2, <2>3 DEF FetchHdr
<1> DEFINE s == [sp EXCEPT !.vbc = o.vbc]
<1>6. CASE /\ o.ret = 0
           /\ \E hcl, close, st, es, gz, gu \in BOOLEAN :
                w' = [w EXCEPT !.hcl = hcl, !.do_close = close, !.do_stream = st,
                               !.do_esi = es, !.do_gzip = gz, !.do_gunzip = gu,
                               !.beresp = TRUE]
           /\ sp' = [s EXCEPT !.step = "FETCHBODY"]
  <2>1. sp' = [sp EXCEPT !.vbc = TRUE, !.step = "FETCHBODY"]
    BY <1>5, <1>6 DEF SessType
  <2>2. PICK hcl, close, st, es, gz, gu \in BOOLEAN :
                w' = [w EXCEPT !.hcl = hcl, !.do_close = close, !.do_stream = st,
                               !.do_esi = es, !.do_gzip = gz, !.do_gunzip = gu,
                               !.beresp = TRUE]
    BY <1>6
  <2>3. sp' \in SessType
    BY <2>1 DEF SessType
  <2>4. w' \in WorkerType
    <3> DEFINE y == [w EXCEPT !.hcl = hcl, !.do_close = close, !.do_stream = st]
    <3>1. y \in WorkerType
      BY DEF WorkerType
    <3> DEFINE z == [y EXCEPT !.do_esi = es, !.do_gzip = gz]
    <3>2. z \in WorkerType
      <4> HIDE DEF y
      <4> QED
        BY <3>1 DEF WorkerType
    <3>3. w' = [z EXCEPT !.do_gunzip = gu, !.beresp = TRUE]
      BY <2>2
    <3> HIDE DEF z
    <3> QED
      BY <3>2, <3>3 DEF WorkerType
  <2>5. FreshOK(sp', frames', hist') /\ KeptOK(sp', frames', hist')
    BY <1>1, <2>1, <2>2 DEF SessInv, FreshOK, KeptOK, Before, SessType, HistType
  <2>6. RequestOK(sp', w', frames')
    BY <1>1, <2>1, <2>2 DEF SessInv, FreshOK, RequestOK, Before, Chosen, Having, Fetching,
       Streaming, SessType, WorkerType, FlagsClear
  <2>7. WorkerOK(sp', w', frames', hist')
    BY <1>1, <2>1, <2>2 DEF SessInv, WorkerOK, Before, Chosen, Fetching, RequestOK,
       SessType, WorkerType, HistType, FlagsClear
  <2>8. BusyOK(sp', w', frames', hist')
    BY <1>1, <2>1, <2>2 DEF SessInv, FreshOK, BusyOK, RequestOK, Before, Chosen, Having, Fetching,
       SessType, WorkerType, HistType, FlagsClear
  <2>9. FramedOK(sp', w', frames', hist')
    BY <1>1, <2>1, <2>2 DEF SessInv, FreshOK, FramedOK, Before, SessType, WorkerType, HistType
  <2>10. SessInv(sp', w', frames', hist')
    BY <2>5, <2>6, <2>7, <2>8, <2>9 DEF SessInv
  <2> QED
    BY <1>1, <2>3, <2>4, <2>10, Assembled
<1>7. CASE w' = [DoCloseReset(w) EXCEPT !.bereq = FALSE, !.beresp = FALSE,
                                        !.hcl = FALSE, !.hint = FALSE]
           /\ \/ sp' = [VDI_CloseFd(s) EXCEPT !.objcore = Null,
                           !.director = FALSE, !.step = "ERROR"]
              \/ sp' = [VDI_CloseFd(s) EXCEPT !.objcore = Null,
                           !.director = FALSE, !.restarts = @ + 1, !.step = "RECV"]
  <2>1. w' = [w EXCEPT !.do_close = FALSE, !.bereq = FALSE, !.beresp = FALSE,
                       !.hcl = FALSE, !.hint = FALSE]
    BY <1>7 DEF DoCloseReset, WorkerType
  <2>2. CASE sp' = [VDI_CloseFd(s) EXCEPT !.objcore = Null,
                       !.director = FALSE, !.step = "ERROR"]
    <3>1. sp' = [sp EXCEPT !.vbc = FALSE, !.objcore = Null, !.director = FALSE,
                           !.restarts = sp.restarts, !.step = "ERROR"]
      BY <2>2 DEF VDI_CloseFd, SessType
    <3> QED
      BY <1>3, <2>1, <3>1
  <2>3. CASE sp' = [VDI_CloseFd(s) EXCEPT !.objcore = Null,
                       !.director = FALSE, !.restarts = @ + 1, !.step = "RECV"]
    <3>1. sp' = [sp EXCEPT !.vbc = FALSE, !.objcore = Null, !.director = FALSE,
                           !.restarts = sp.restarts + 1, !.step = "RECV"]
      BY <2>3 DEF VDI_CloseFd, SessType
    <3> QED
      BY <1>3, <2>1, <3>1
  <2> QED
    BY <1>7, <2>2, <2>3
<1> QED
  BY <1>4, <1>6, <1>7

\* cnt_fetchbody
LEMMA FetchbodyKeeps == ASSUME CenterInv, cnt_fetchbody PROVE CenterInv'
<1> USE Names, Given
<1>1. sp.step = "FETCHBODY" /\ sp.at = "worker" /\ UNCHANGED <<frames, panic>>
  BY DEF cnt_fetchbody, Step
<1>2. ASSUME NEW x \in WorkerType, NEW hint \in BOOLEAN,
             \A f \in DOMAIN w : f \in {"bereq", "beresp", "hcl", "resp", "res_mode"} => x[f] = w[f],
             sp' = [sp EXCEPT !.vbc = FALSE, !.step = "ERROR"], w' = x,
             hist' = [hist EXCEPT !.spoiled = TRUE]
      PROVE  CenterInv'
  <2>1. sp' \in SessType /\ w' \in WorkerType /\ hist' \in HistType
    BY <1>2 DEF SessType, HistType
  <2>2. FreshOK(sp', frames', hist') /\ KeptOK(sp', frames', hist')
    BY <1>1, <1>2 DEF SessInv, FreshOK, KeptOK, Before, SessType, HistType
  <2>3. RequestOK(sp', w', frames')
    BY <1>1, <1>2 DEF SessInv, FreshOK, RequestOK, Before, Chosen, Having, Fetching,
       Streaming, SessType, WorkerType, FlagsClear
  <2>4. WorkerOK(sp', w', frames', hist')
    BY <1>1, <1>2 DEF SessInv, WorkerOK, Before, Chosen, Fetching, RequestOK,
       SessType, WorkerType, HistType, FlagsClear
  <2>5. BusyOK(sp', w', frames', hist')
    BY <1>1, <1>2 DEF SessInv, FreshOK, BusyOK, RequestOK, Before, Chosen, Having, Fetching,
       SessType, WorkerType, HistType, FlagsClear
  <2>6. FramedOK(sp', w', frames', hist')
    <3>1. hist'.announced = hist.announced
      BY <1>2 DEF HistType
    <3> QED
      BY <1>1, <1>2, <3>1, SentStill DEF SessInv, FreshOK, FramedOK, Before, SessType, WorkerType, HistType
  <2>7. SessInv(sp', w', frames', hist')
    BY <2>2, <2>3, <2>4, <2>5, <2>6 DEF SessInv
  <2>8. hist.spoiled => hist'.spoiled
    BY <1>2 DEF HistType
  <2> QED
    BY <1>1, <1>2, <2>1, <2>7, <2>8, Assembled
<1>3. ASSUME NEW o \in Objects, o.oc = sp.objcore,
             NEW gu \in BOOLEAN, NEW gz \in BOOLEAN, NEW st \in BOOLEAN,
             NEW v \in {"esi", "gunzip", "gzip", "testgzip", Null},
             sp' = [sp EXCEPT !.objcore = Null, !.obj = o,
                              !.step = IF st THEN "PREPRESP" ELSE "FETCHBODY2"],
             w' = [w EXCEPT !.do_gunzip = gu, !.do_gzip = gz, !.do_stream = st,
                            !.vfp = v, !.hint = FALSE],
             UNCHANGED hist, st => frames = <<>> /\ sp.wantbody
      PROVE  CenterInv'
  <2>1. sp' \in SessType /\ w' \in WorkerType /\ o # NoObj /\ sp.objcore # "live"
    <3>1. sp' \in SessType
      BY <1>3 DEF SessType
    <3>2. w' \in WorkerType
      <4> DEFINE y == [w EXCEPT !.do_gunzip = gu, !.do_gzip = gz, !.do_stream = st]
      <4>1. y \in WorkerType
        BY <1>3 DEF WorkerType
      <4>2. w' = [y EXCEPT !.vfp = v, !.hint = FALSE]
        BY <1>3
      <4> HIDE DEF y
      <4> QED
        BY <1>3, <4>1, <4>2 DEF WorkerType
    <3>3. sp.objcore # "live"
      BY DEF SessType, Null
    <3> QED
      BY <3>1, <3>2, <3>3
  <2>2. FreshOK(sp', frames', hist') /\ KeptOK(sp', frames', hist')
    BY <1>1, <1>3, <2>1 DEF SessInv, FreshOK, KeptOK, Before, SessType, HistType
  <2>3. RequestOK(sp', w', frames')
    BY <1>1, <1>3, <2>1 DEF SessInv, FreshOK, RequestOK, Before, Chosen, Having, Fetching,
       Streaming, SessType, WorkerType, FlagsClear
  <2>4. WorkerOK(sp', w', frames', hist')
    BY <1>1, <1>3, <2>1 DEF SessInv, WorkerOK, Before, Chosen, Fetching, RequestOK,
       SessType, WorkerType, HistType, FlagsClear
  <2>5. BusyOK(sp', w', frames', hist')
    BY <1>1, <1>3, <2>1 DEF SessInv, FreshOK, BusyOK, RequestOK, Before, Chosen, Having, Fetching,
       SessType, WorkerType, HistType, FlagsClear
  <2>6. FramedOK(sp', w', frames', hist')
    BY <1>1, <1>3, <2>1 DEF SessInv, FreshOK, FramedOK, Before, SessType, WorkerType, HistType
  <2>7. SessInv(sp', w', frames', hist')
    BY <2>2, <2>3, <2>4, <2>5, <2>6 DEF SessInv
  <2> QED
    BY <1>1, <1>3, <2>1, <2>7, Assembled
<1>4. PICK ce \in {"gzip", "none", "other"}, hint, cond, alloc \in BOOLEAN :
       LET gunzip == w.do_gunzip /\ GzipSupport /\ ce = "gzip"
           gzip == w.do_gzip /\ GzipSupport /\ ce = "none"
           stream == w.do_stream /\ ~w.do_esi /\ esi_level = 0 /\ sp.wantbody
           x == [w EXCEPT !.do_gunzip = gunzip, !.do_gzip = gzip,
                          !.do_stream = stream,
                          !.vfp = CASE w.do_esi -> "esi"
                                    [] gunzip -> "gunzip"
                                    [] gzip -> "gzip"
                                    [] ce = "gzip" -> "testgzip"
                                    [] OTHER -> Null,
                          !.hint = hint \/ sp.objcore = Null]
       IN IF ~alloc
          THEN /\ sp' = [VDI_CloseFd(sp) EXCEPT !.step = "ERROR"]
               /\ w' = DoCloseReset(x)
               /\ hist' = [hist EXCEPT !.spoiled = TRUE]
          ELSE /\ cond => esi_level = 0
               /\ sp' = [sp EXCEPT !.objcore = Null,
                          !.obj = [oc |-> sp.objcore, esidata |-> FALSE,
                                   gziped |-> gzip \/ (ce = "gzip" /\ ~gunzip),
                                   empty |-> TRUE],
                          !.step = IF stream /\ ~cond THEN "PREPRESP"
                                   ELSE "FETCHBODY2"]
               /\ w' = [x EXCEPT !.hint = FALSE, !.do_stream = stream /\ ~cond]
               /\ UNCHANGED hist
  BY DEF cnt_fetchbody
<1> DEFINE gunzip == w.do_gunzip /\ GzipSupport /\ ce = "gzip"
           gzip == w.do_gzip /\ GzipSupport /\ ce = "none"
           stream == w.do_stream /\ ~w.do_esi /\ esi_level = 0 /\ sp.wantbody
           v == CASE w.do_esi -> "esi" [] gunzip -> "gunzip" [] gzip -> "gzip"
                  [] ce = "gzip" -> "testgzip" [] OTHER -> Null
           hin == hint \/ sp.objcore = Null
           x == [w EXCEPT !.do_gunzip = gunzip, !.do_gzip = gzip,
                          !.do_stream = stream, !.vfp = v, !.hint = hin]
           o == [oc |-> sp.objcore, esidata |-> FALSE,
                 gziped |-> gzip \/ (ce = "gzip" /\ ~gunzip), empty |-> TRUE]
           st == stream /\ ~cond
<1>5. /\ gunzip \in BOOLEAN /\ gzip \in BOOLEAN /\ stream \in BOOLEAN /\ st \in BOOLEAN
      /\ hin \in BOOLEAN /\ v \in {"esi", "gunzip", "gzip", "testgzip", Null}
  OBVIOUS
<1>6. o \in Objects /\ o.oc = sp.objcore
  BY DEF Objects, SessType
<1>7. st => frames = <<>> /\ sp.wantbody
  BY EmptySeq DEF esi_level
<1>8. CASE ~alloc
  <2>1. /\ sp' = [VDI_CloseFd(sp) EXCEPT !.step = "ERROR"]
        /\ w' = DoCloseReset(x)
        /\ hist' = [hist EXCEPT !.spoiled = TRUE]
    BY <1>4, <1>8, Zenon
  <2> HIDE DEF gunzip, gzip, stream, v, hin
  <2>2. sp' = [sp EXCEPT !.vbc = FALSE, !.step = "ERROR"]
    BY <2>1 DEF VDI_CloseFd, SessType
  <2>3. w' \in WorkerType
    <3>1. x \in WorkerType
      BY <1>5 DEF WorkerType
    <3> HIDE DEF x
    <3> QED
      BY <2>1, <3>1 DEF DoCloseReset, WorkerType
  <2>4. \A f \in DOMAIN w : f \in {"bereq", "beresp", "hcl", "resp", "res_mode"} => w'[f] = w[f]
    BY <2>1 DEF DoCloseReset, WorkerType
  <2> QED
    BY <1>2, <2>1, <2>2, <2>3, <2>4
<1>9. CASE alloc
  <2>1. /\ sp' = [sp EXCEPT !.objcore = Null, !.obj = o,
                            !.step = IF st THEN "PREPRESP" ELSE "FETCHBODY2"]
        /\ w' = [x EXCEPT !.hint = FALSE, !.do_stream = st]
        /\ UNCHANGED hist
    BY <1>4, <1>9, Zenon
  <2> HIDE DEF gunzip, gzip, stream, v, hin, o, st
  <2>2. w' = [w EXCEPT !.do_gunzip = gunzip, !.do_gzip = gzip, !.do_stream = st,
                       !.vfp = v, !.hint = FALSE]
    BY <2>1 DEF WorkerType
  <2> QED
    BY <1>3, <1>5, <1>6, <1>7, <2>1, <2>2
<1> QED
  BY <1>8, <1>9

\* What FetchBody leaves.
LEMMA FetchEnds ==
  ASSUME NEW x \in WorkerType
  PROVE  /\ AfterFetchBody(x) \in WorkerType
         /\ AfterFetchBody(x) = [x EXCEPT !.do_close = FALSE, !.hcl = FALSE,
                                          !.bereq = FALSE, !.beresp = FALSE, !.vfp = Null]
<1> DEFINE y == [x EXCEPT !.do_close = FALSE, !.hcl = FALSE]
<1>1. y \in WorkerType
  BY DEF WorkerType
<1>2. AfterFetchBody(x) = [y EXCEPT !.bereq = FALSE, !.beresp = FALSE, !.vfp = Null]
  BY DEF AfterFetchBody
<1> HIDE DEF y
<1>3. AfterFetchBody(x) \in WorkerType
  BY <1>1, <1>2 DEF WorkerType
<1> QED
  BY <1>3 DEF AfterFetchBody

\* The object when its body is there.
LEMMA BodyFetched ==
  ASSUME NEW o \in Objects, o.oc # "live", NEW x \in WorkerType, NEW empty \in BOOLEAN
  PROVE  /\ Unbusy(Fetched(o, x, empty)) \in Objects
         /\ Unbusy(Fetched(o, x, empty)).oc # "busy"
<1> DEFINE e == x.vfp = "esi" /\ ~empty
           f == [o EXCEPT !.esidata = e, !.empty = empty]
<1>1. f \in Objects /\ f.oc = o.oc /\ o.oc \in {Null, "busy"}
  <2>1. e \in BOOLEAN
    OBVIOUS
  <2> HIDE DEF e
  <2> QED
    BY <2>1 DEF Objects
<1>2. Fetched(o, x, empty) = f
  BY DEF Fetched
<1> HIDE DEF f
<1>3. Unbusy(f) \in Objects /\ Unbusy(f).oc # "busy"
  BY <1>1 DEF Unbusy, Objects, Null
<1> QED
  BY <1>2, <1>3

\* cnt_fetchbody2
LEMMA Fetchbody2Keeps == ASSUME CenterInv, cnt_fetchbody2 PROVE CenterInv'
<1> USE Names, Given
<1>1. sp.step = "FETCHBODY2" /\ sp.at = "worker" /\ UNCHANGED <<frames, hist>>
  BY DEF cnt_fetchbody2, Step
<1>2. CASE panic' = "vfp" /\ UNCHANGED <<sp, w>>
  BY <1>1, <1>2, Dead
<1>3. /\ sp.obj \in Objects /\ sp.obj.oc # "live"
  BY <1>1 DEF SessInv, RequestOK, BusyOK, Having, Fetching, SessType
<1>4. ASSUME NEW empty \in BOOLEAN, w' = AfterFetchBody(w), UNCHANGED panic,
             \/ sp' = [sp EXCEPT !.vbc = FALSE, !.obj = NoObj, !.step = "ERROR"]
             \/ sp' = [sp EXCEPT !.vbc = FALSE, !.step = "PREPRESP",
                                 !.obj = Unbusy(Fetched(sp.obj, w, empty))]
      PROVE  CenterInv'
  <2>1. /\ w' \in WorkerType
        /\ w' = [w EXCEPT !.do_close = FALSE, !.hcl = FALSE,
                          !.bereq = FALSE, !.beresp = FALSE, !.vfp = Null]
    BY <1>4, FetchEnds
  <2>2. CASE sp' = [sp EXCEPT !.vbc = FALSE, !.obj = NoObj, !.step = "ERROR"]
    <3>1. sp' \in SessType
      BY <2>2 DEF SessType
    <3>2. FreshOK(sp', frames', hist') /\ KeptOK(sp', frames', hist')
      BY <1>1, <2>1, <2>2 DEF SessInv, FreshOK, KeptOK, Before, SessType, HistType
    <3>3. RequestOK(sp', w', frames')
      BY <1>1, <2>1, <2>2 DEF SessInv, FreshOK, RequestOK, Before, Chosen, Having, Fetching,
         Streaming, SessType, WorkerType, FlagsClear
    <3>4. WorkerOK(sp', w', frames', hist')
      BY <1>1, <2>1, <2>2 DEF SessInv, WorkerOK, Before, Chosen, Fetching, RequestOK,
         SessType, WorkerType, HistType, FlagsClear
    <3>5. BusyOK(sp', w', frames', hist')
      BY <1>1, <2>1, <2>2 DEF SessInv, FreshOK, BusyOK, RequestOK, Before, Chosen, Having, Fetching,
         SessType, WorkerType, HistType, FlagsClear
    <3>6. FramedOK(sp', w', frames', hist')
      BY <1>1, <2>1, <2>2 DEF SessInv, FreshOK, FramedOK, Before, SessType, WorkerType, HistType
    <3>7. SessInv(sp', w', frames', hist')
      BY <3>2, <3>3, <3>4, <3>5, <3>6 DEF SessInv
    <3> QED
      BY <1>1, <1>4, <2>1, <3>1, <3>7, Assembled
  <2>3. CASE sp' = [sp EXCEPT !.vbc = FALSE, !.step = "PREPRESP",
                              !.obj = Unbusy(Fetched(sp.obj, w, empty))]
    <3> DEFINE o == Unbusy(Fetched(sp.obj, w, empty))
    <3>0. o \in Objects /\ o.oc # "busy" /\ o # NoObj
      BY <1>3, BodyFetched
    <3>1. sp' = [sp EXCEPT !.vbc = FALSE, !.step = "PREPRESP", !.obj = o]
      BY <2>3
    <3> HIDE DEF o
    <3>2. sp' \in SessType
      BY <3>0, <3>1 DEF SessType
    <3>3. FreshOK(sp', frames', hist') /\ KeptOK(sp', frames', hist')
      BY <1>1, <2>1, <3>0, <3>1 DEF SessInv, FreshOK, KeptOK, Before, SessType, HistType
    <3>4. RequestOK(sp', w', frames')
      BY <1>1, <2>1, <3>0, <3>1 DEF SessInv, FreshOK, RequestOK, Before, Chosen, Having, Fetching,
         Streaming, SessType, WorkerType, FlagsClear
    <3>5. WorkerOK(sp', w', frames', hist')
      BY <1>1, <2>1, <3>0, <3>1 DEF SessInv, WorkerOK, Before, Chosen, Fetching, RequestOK,
         SessType, WorkerType, HistType, FlagsClear
    <3>6. BusyOK(sp', w', frames', hist')
      BY <1>1, <2>1, <3>0, <3>1 DEF SessInv, FreshOK, BusyOK, RequestOK, Before, Chosen, Having, Fetching,
         SessType, WorkerType, HistType, FlagsClear
    <3>7. FramedOK(sp', w', frames', hist')
      BY <1>1, <2>1, <3>0, <3>1 DEF SessInv, FreshOK, FramedOK, Before, SessType, WorkerType, HistType
    <3>8. SessInv(sp', w', frames', hist')
      BY <3>3, <3>4, <3>5, <3>6, <3>7 DEF SessInv
    <3> QED
      BY <1>1, <1>4, <2>1, <3>2, <3>8, Assembled
  <2> QED
    BY <1>4, <2>2, <2>3
<1>5. PICK bs \in RFC2616_Body(w), empty \in BOOLEAN : \E out \in FetchBodyOut(w, bs) :
       IF out = "panic"
       THEN panic' = "vfp" /\ UNCHANGED <<sp, w>>
       ELSE /\ bs \in {"NONE", "ZERO"} => empty
            /\ w' = AfterFetchBody(w)
            /\ sp' = IF out = "failed"
                     THEN [sp EXCEPT !.vbc = FALSE, !.obj = NoObj, !.step = "ERROR"]
                     ELSE [sp EXCEPT !.vbc = FALSE, !.step = "PREPRESP",
                                     !.obj = Unbusy(Fetched(@, w, empty))]
            /\ UNCHANGED panic
  BY DEF cnt_fetchbody2
<1>6. \/ panic' = "vfp" /\ UNCHANGED <<sp, w>>
      \/ /\ w' = AfterFetchBody(w) /\ UNCHANGED panic
         /\ \/ sp' = [sp EXCEPT !.vbc = FALSE, !.obj = NoObj, !.step = "ERROR"]
            \/ sp' = [sp EXCEPT !.vbc = FALSE, !.step = "PREPRESP",
                                !.obj = Unbusy(Fetched(sp.obj, w, empty))]
  BY <1>5, Zenon
<1> QED
  BY <1>2, <1>4, <1>6

\* RES_StreamStart: the header is sent.
LEMMA StreamStartKeeps == ASSUME CenterInv, RES_StreamStart PROVE CenterInv'
<1> USE Names, Given
<1> DEFINE a == IF "CHUNKED" \notin w.res_mode /\ w.hcl THEN "backend" ELSE "no"
<1>1. /\ sp.step = "STREAMBODY" /\ sp.at = "worker" /\ UNCHANGED <<w, frames, panic>>
      /\ sp' = [sp EXCEPT !.step = "STREAMING"] /\ hist' = [hist EXCEPT !.announced = a]
  BY DEF RES_StreamStart, Step
<1>2. a \in {"no", "backend"} /\ ("CHUNKED" \in w.res_mode => a = "no")
  OBVIOUS
<1>3. "LEN" \in w.res_mode => a = "backend"
  <2>1. "LEN" \in w.res_mode => w.hcl /\ w.res_mode = {"LEN"}
    BY <1>1 DEF SessInv, FramedOK
  <2> QED
    BY <2>1
<1> HIDE DEF a
<1>4. sp' \in SessType
  BY <1>1 DEF SessType
<1>5. /\ hist' \in HistType /\ hist'.spoiled = hist.spoiled /\ hist'.sent = hist.sent
      /\ hist'.outofobjects = hist.outofobjects /\ hist'.announced = a
  BY <1>1, <1>2 DEF HistType
<1>6. frames = <<>>
  BY <1>1 DEF SessInv, RequestOK, Streaming
<1>7. FreshOK(sp', frames', hist') /\ KeptOK(sp', frames', hist')
  BY <1>1, <1>5, <1>6 DEF SessInv, FreshOK, KeptOK, Before, SessType, HistType
<1>8. RequestOK(sp', w', frames')
  BY <1>1, <1>5, <1>6 DEF SessInv, FreshOK, RequestOK, Before, Chosen, Having, Fetching,
     Streaming, SessType, WorkerType, FlagsClear
<1>9. WorkerOK(sp', w', frames', hist')
  BY <1>1, <1>5, <1>6 DEF SessInv, WorkerOK, Before, Chosen, Fetching, RequestOK,
     SessType, WorkerType, HistType, FlagsClear
<1>10. BusyOK(sp', w', frames', hist')
  BY <1>1, <1>5, <1>6 DEF SessInv, FreshOK, BusyOK, RequestOK, Before, Chosen, Having, Fetching,
     SessType, WorkerType, HistType, FlagsClear
<1>11. FramedOK(sp', w', frames', hist')
  BY <1>1, <1>2, <1>3, <1>5, <1>6 DEF SessInv, FreshOK, FramedOK, Before, SessType, WorkerType, HistType
<1>12. SessInv(sp', w', frames', hist')
  BY <1>7, <1>8, <1>9, <1>10, <1>11 DEF SessInv
<1> QED
  BY <1>1, <1>4, <1>5, <1>12, Assembled

\* cnt_streambody
LEMMA StreambodyKeeps == ASSUME CenterInv, cnt_streambody PROVE CenterInv'
<1> USE Names, Given
<1>1. sp.step = "STREAMING" /\ sp.at = "worker" /\ UNCHANGED frames
  BY DEF cnt_streambody, Step
<1>2. CASE panic' = "vfp" /\ UNCHANGED <<sp, w, hist>>
  BY <1>1, <1>2, Dead
<1>3. ASSUME NEW f \in BOOLEAN, NEW c \in BOOLEAN,
             NEW s \in {"whole", "cut"}, s = "whole" \/ c, sp.doclose => c,
             w' = [AfterFetchBody(w) EXCEPT !.resp = FALSE],
             sp' = [sp EXCEPT !.vbc = FALSE, !.obj = NoObj, !.director = FALSE,
                              !.restarts = 0, !.fd = f, !.doclose = c, !.step = "DONE"],
             hist' = [hist EXCEPT !.sent = s], UNCHANGED panic
      PROVE  CenterInv'
  <2>1. /\ AfterFetchBody(w) \in WorkerType
        /\ AfterFetchBody(w) = [w EXCEPT !.do_close = FALSE, !.hcl = FALSE,
                              !.bereq = FALSE, !.beresp = FALSE, !.vfp = Null]
    BY FetchEnds
  <2>2. w' \in WorkerType
    BY <1>3, <2>1 DEF WorkerType
  <2>3. /\ ~w'.do_close /\ ~w'.hcl /\ ~w'.bereq /\ ~w'.beresp /\ w'.vfp = Null
        /\ ~w'.resp /\ w'.hint = w.hint
    BY <1>3, <2>1 DEF WorkerType
  <2>4. sp' \in SessType
    <3> DEFINE z == [sp EXCEPT !.vbc = FALSE, !.obj = NoObj, !.director = FALSE]
    <3>1. z \in SessType
      BY DEF SessType
    <3>2. sp' = [z EXCEPT !.restarts = 0, !.fd = f, !.doclose = c, !.step = "DONE"]
      BY <1>3
    <3> HIDE DEF z
    <3> QED
      BY <3>1, <3>2 DEF SessType
  <2>5. /\ hist' \in HistType /\ hist'.spoiled = hist.spoiled /\ hist'.sent = s
        /\ hist'.outofobjects = hist.outofobjects
    BY <1>3 DEF HistType
  <2>6. /\ sp'.at = "worker" /\ sp'.step = "DONE" /\ ~sp'.vbc /\ sp'.obj = NoObj
        /\ sp'.fd = f /\ sp'.doclose = c /\ sp'.objcore = sp.objcore
    BY <1>1, <1>3 DEF SessType
  <2>7. frames = <<>>
    BY <1>1 DEF SessInv, RequestOK, Streaming
  <2>8. FreshOK(sp', frames', hist') /\ KeptOK(sp', frames', hist')
    BY <1>1, <1>3, <2>3, <2>5, <2>6, <2>7 DEF SessInv, FreshOK, KeptOK, Before, SessType, HistType
  <2>9. RequestOK(sp', w', frames')
    BY <1>1, <1>3, <2>3, <2>5, <2>6, <2>7 DEF SessInv, FreshOK, RequestOK, Before, Chosen, Having, Fetching,
       Streaming, SessType, WorkerType, FlagsClear
  <2>10. WorkerOK(sp', w', frames', hist')
    BY <1>1, <1>3, <2>3, <2>5, <2>6, <2>7 DEF SessInv, WorkerOK, Before, Chosen, Fetching, RequestOK,
       SessType, WorkerType, HistType, FlagsClear
  <2>11. BusyOK(sp', w', frames', hist')
    BY <1>1, <1>3, <2>3, <2>5, <2>6, <2>7 DEF SessInv, FreshOK, BusyOK, RequestOK, Before, Chosen, Having, Fetching,
       SessType, WorkerType, HistType, FlagsClear
  <2>12. FramedOK(sp', w', frames', hist')
    BY <1>1, <1>3, <2>3, <2>5, <2>6, <2>7 DEF SessInv, FreshOK, FramedOK, Before, SessType, WorkerType, HistType
  <2>13. SessInv(sp', w', frames', hist')
    BY <2>8, <2>9, <2>10, <2>11, <2>12 DEF SessInv
  <2> QED
    BY <1>1, <1>3, <2>2, <2>4, <2>5, <2>13, Assembled
<1>4. PICK bs \in RFC2616_Body(w), flushed \in BOOLEAN : \E out \in FetchBodyOut(w, bs) :
       IF out = "panic"
       THEN panic' = "vfp" /\ UNCHANGED <<sp, w, hist>>
       ELSE /\ w' = [AfterFetchBody(w) EXCEPT !.resp = FALSE]
            /\ sp' = [sp EXCEPT !.vbc = FALSE, !.obj = NoObj, !.director = FALSE,
                                !.restarts = 0, !.fd = @ /\ flushed,
                                !.doclose = @ \/ out # "ok" \/ sp.obj.oc = Null,
                                !.step = "DONE"]
            /\ hist' = [hist EXCEPT !.sent = IF out = "ok" THEN "whole" ELSE "cut"]
            /\ UNCHANGED panic
  BY DEF cnt_streambody
<1>5. PICK out \in FetchBodyOut(w, bs) :
       IF out = "panic"
       THEN panic' = "vfp" /\ UNCHANGED <<sp, w, hist>>
       ELSE /\ w' = [AfterFetchBody(w) EXCEPT !.resp = FALSE]
            /\ sp' = [sp EXCEPT !.vbc = FALSE, !.obj = NoObj, !.director = FALSE,
                                !.restarts = 0, !.fd = @ /\ flushed,
                                !.doclose = @ \/ out # "ok" \/ sp.obj.oc = Null,
                                !.step = "DONE"]
            /\ hist' = [hist EXCEPT !.sent = IF out = "ok" THEN "whole" ELSE "cut"]
            /\ UNCHANGED panic
  BY <1>4
<1> DEFINE f == sp.fd /\ flushed
           c == sp.doclose \/ out # "ok" \/ sp.obj.oc = Null
           s == IF out = "ok" THEN "whole" ELSE "cut"
<1>6. /\ f \in BOOLEAN /\ c \in BOOLEAN /\ s \in {"whole", "cut"} /\ (s = "whole" \/ c)
      /\ sp.doclose => c
  OBVIOUS
<1>7. out # "panic" =>
        /\ w' = [AfterFetchBody(w) EXCEPT !.resp = FALSE]
        /\ sp' = [sp EXCEPT !.vbc = FALSE, !.obj = NoObj, !.director = FALSE,
                            !.restarts = 0, !.fd = f, !.doclose = c, !.step = "DONE"]
        /\ hist' = [hist EXCEPT !.sent = s] /\ UNCHANGED panic
  BY <1>5, Zenon
<1>8. out = "panic" => panic' = "vfp" /\ UNCHANGED <<sp, w, hist>>
  BY <1>5
<1> HIDE DEF f, c, s
<1> QED
  BY <1>2, <1>3, <1>6, <1>7, <1>8

\* More closing does no harm.
LEMMA ToldStill ==
  ASSUME NEW rm, NEW o, NEW c, NEW d, c => d, Told(rm, o, c)
  PROVE  Told(rm, o, d)
BY DEF Told

\* cnt_error
LEMMA ErrorKeeps == ASSUME CenterInv, cnt_error PROVE CenterInv'
<1> USE Names, Given
<1> DEFINE x == ClearFlags(w)
<1>1. sp.step = "ERROR" /\ sp.at = "worker" /\ UNCHANGED <<frames, panic>>
  BY DEF cnt_error, Step
<1>2. /\ x \in WorkerType /\ FlagsClear(x)
      /\ x = [w EXCEPT !.do_esi = FALSE, !.do_gzip = FALSE,
                       !.do_gunzip = FALSE, !.do_stream = FALSE]
  BY Cleared
<1>0. x \in WorkerType
  BY <1>2
<1>3. /\ ~x.do_stream /\ x.hcl = w.hcl /\ x.do_close = w.do_close /\ x.hint = w.hint
      /\ x.vfp = w.vfp /\ x.bereq = w.bereq /\ x.beresp = w.beresp
      /\ x.resp = w.resp /\ x.res_mode = w.res_mode
  BY <1>2 DEF WorkerType
<1>4. sp.objcore # Null => hist.spoiled
  BY <1>1 DEF SessInv, BusyOK
<1> HIDE DEF x
<1>5. ASSUME sp' = [sp EXCEPT !.doclose = TRUE, !.director = FALSE, !.step = "DONE"],
             w' = [x EXCEPT !.hcl = FALSE, !.bereq = FALSE, !.beresp = FALSE],
             NEW oo \in BOOLEAN, oo <=> hist.outofobjects \/ sp.objcore # Null,
             hist' = [hist EXCEPT !.outofobjects = oo]
      PROVE  CenterInv'
  <2>1. sp' \in SessType
    BY <1>5 DEF SessType
  <2>2. w' \in WorkerType /\ hist' \in HistType
    BY <1>0, <1>5, ZenonT(40) DEF WorkerType, HistType
  <2>3. /\ ~w'.hcl /\ ~w'.bereq /\ ~w'.beresp /\ w'.do_close = w.do_close
        /\ w'.hint = w.hint /\ w'.vfp = w.vfp /\ w'.resp = w.resp
    BY <1>0, <1>3, <1>5 DEF WorkerType
  <2>4. /\ hist'.spoiled = hist.spoiled /\ hist'.sent = hist.sent /\ hist'.outofobjects = oo
        /\ hist'.announced = hist.announced
    BY <1>5 DEF HistType
  <2>5. hist.outofobjects => hist.spoiled
    BY DEF SessInv, BusyOK
  <2>6. FreshOK(sp', frames', hist') /\ KeptOK(sp', frames', hist')
    BY <1>1, <1>4, <1>5, <2>3, <2>4, <2>5, ToldStill DEF SessInv, FreshOK, KeptOK, Before, SessType, HistType
  <2>7. RequestOK(sp', w', frames')
    BY <1>1, <1>4, <1>5, <2>3, <2>4, <2>5, ToldStill DEF SessInv, FreshOK, RequestOK, Before, Chosen, Having, Fetching,
       Streaming, SessType, WorkerType, FlagsClear
  <2>8. WorkerOK(sp', w', frames', hist')
    BY <1>1, <1>4, <1>5, <2>3, <2>4, <2>5, ToldStill DEF SessInv, WorkerOK, Before, Chosen, Fetching, RequestOK,
       SessType, WorkerType, HistType, FlagsClear
  <2>9. BusyOK(sp', w', frames', hist')
    BY <1>1, <1>4, <1>5, <2>3, <2>4, <2>5, ToldStill DEF SessInv, FreshOK, BusyOK, RequestOK, Before, Chosen, Having, Fetching,
       SessType, WorkerType, HistType, FlagsClear
  <2>10. FramedOK(sp', w', frames', hist')
    BY <1>1, <1>4, <1>5, <2>3, <2>4, <2>5, ToldStill, SentStill DEF SessInv, FreshOK, FramedOK, Before, SessType, WorkerType, HistType
  <2>11. SessInv(sp', w', frames', hist')
    BY <2>6, <2>7, <2>8, <2>9, <2>10 DEF SessInv
  <2> QED
    BY <1>1, <2>1, <2>2, <2>4, <2>11, Assembled
<1>6. ASSUME NEW n \in 0..MaxRestarts,
             sp' = [sp EXCEPT !.objcore = Null, !.obj = NoObj, !.director = FALSE,
                              !.restarts = n, !.step = "RECV"],
             w' = x, UNCHANGED hist
      PROVE  CenterInv'
  <2>1. sp' \in SessType
    BY <1>6 DEF SessType
  <2>2. FreshOK(sp', frames', hist') /\ KeptOK(sp', frames', hist')
    BY <1>1, <1>3, <1>6 DEF SessInv, FreshOK, KeptOK, Before, SessType, HistType
  <2>3. RequestOK(sp', w', frames')
    BY <1>1, <1>3, <1>6 DEF SessInv, FreshOK, RequestOK, Before, Chosen, Having, Fetching,
       Streaming, SessType, WorkerType, FlagsClear
  <2>4. WorkerOK(sp', w', frames', hist')
    BY <1>1, <1>3, <1>6 DEF SessInv, WorkerOK, Before, Chosen, Fetching, RequestOK,
       SessType, WorkerType, HistType, FlagsClear
  <2>5. BusyOK(sp', w', frames', hist')
    BY <1>1, <1>3, <1>6 DEF SessInv, FreshOK, BusyOK, RequestOK, Before, Chosen, Having, Fetching,
       SessType, WorkerType, HistType, FlagsClear
  <2>6. FramedOK(sp', w', frames', hist')
    BY <1>1, <1>3, <1>6 DEF SessInv, FreshOK, FramedOK, Before, SessType, WorkerType, HistType
  <2>7. SessInv(sp', w', frames', hist')
    BY <2>2, <2>3, <2>4, <2>5, <2>6 DEF SessInv
  <2> QED
    BY <1>1, <1>2, <1>6, <2>1, <2>7, Assembled
<1>7. ASSUME NEW o \in Objects, o.oc = sp.objcore,
             sp' = [sp EXCEPT !.objcore = Null, !.obj = o, !.doclose = TRUE,
                              !.wantbody = TRUE, !.step = "PREPRESP"],
             w' = [x EXCEPT !.bereq = FALSE], UNCHANGED hist
      PROVE  CenterInv'
  <2>1. sp' \in SessType /\ o # NoObj
    BY <1>7 DEF SessType
  <2>2. w' \in WorkerType
    BY <1>0, <1>7 DEF WorkerType
  <2>3. /\ ~w'.do_stream /\ w'.hcl = w.hcl /\ w'.do_close = w.do_close
        /\ w'.hint = w.hint /\ w'.vfp = w.vfp /\ ~w'.bereq
        /\ w'.beresp = w.beresp /\ w'.resp = w.resp
    BY <1>0, <1>3, <1>7 DEF WorkerType
  <2>4. o.oc = "busy" => hist.spoiled
    BY <1>4, <1>7 DEF SessType, Null
  <2>5. FreshOK(sp', frames', hist') /\ KeptOK(sp', frames', hist')
    BY <1>1, <1>7, <2>1, <2>3, <2>4, ToldStill DEF SessInv, FreshOK, KeptOK, Before, SessType, HistType
  <2>6. RequestOK(sp', w', frames')
    BY <1>1, <1>7, <2>1, <2>3, <2>4, ToldStill DEF SessInv, FreshOK, RequestOK, Before, Chosen, Having, Fetching,
       Streaming, SessType, WorkerType, FlagsClear
  <2>7. WorkerOK(sp', w', frames', hist')
    BY <1>1, <1>7, <2>1, <2>3, <2>4, ToldStill DEF SessInv, WorkerOK, Before, Chosen, Fetching, RequestOK,
       SessType, WorkerType, HistType, FlagsClear
  <2>8. BusyOK(sp', w', frames', hist')
    BY <1>1, <1>7, <2>1, <2>3, <2>4, ToldStill DEF SessInv, FreshOK, BusyOK, RequestOK, Before, Chosen, Having, Fetching,
       SessType, WorkerType, HistType, FlagsClear
  <2>9. FramedOK(sp', w', frames', hist')
    BY <1>1, <1>7, <2>1, <2>3, <2>4, ToldStill, ZenonT(40) DEF SessInv, FreshOK, FramedOK, Before, SessType, WorkerType, HistType
  <2>10. SessInv(sp', w', frames', hist')
    BY <2>5, <2>6, <2>7, <2>8, <2>9 DEF SessInv
  <2> QED
    BY <1>1, <1>7, <2>1, <2>2, <2>10, Assembled
<1>8. PICK alloc, empty \in BOOLEAN, h \in {"deliver", "restart"} :
       LET s == [sp EXCEPT !.objcore = Null,
                           !.obj = [oc |-> sp.objcore, esidata |-> FALSE,
                                    gziped |-> FALSE, empty |-> empty]]
       IN IF ~alloc
          THEN /\ sp' = [sp EXCEPT !.doclose = TRUE, !.director = FALSE,
                                   !.step = "DONE"]
               /\ w' = [x EXCEPT !.hcl = FALSE, !.bereq = FALSE, !.beresp = FALSE]
               /\ hist' = [hist EXCEPT !.outofobjects = @ \/ sp.objcore # Null]
          ELSE /\ UNCHANGED hist
               /\ IF h = "restart" /\ sp.restarts < MaxRestarts
                  THEN /\ sp' = [s EXCEPT !.obj = NoObj, !.director = FALSE,
                                          !.restarts = @ + 1, !.step = "RECV"]
                       /\ w' = x
                  ELSE /\ sp' = [s EXCEPT !.doclose = TRUE, !.wantbody = TRUE,
                                          !.step = "PREPRESP"]
                       /\ w' = [x EXCEPT !.bereq = FALSE]
  BY DEF cnt_error, x
<1> DEFINE o == [oc |-> sp.objcore, esidata |-> FALSE, gziped |-> FALSE, empty |-> empty]
           oo == hist.outofobjects \/ sp.objcore # Null
<1>9. CASE ~alloc
  <2>1. oo \in BOOLEAN /\ (oo <=> hist.outofobjects \/ sp.objcore # Null)
    OBVIOUS
  <2>2. /\ sp' = [sp EXCEPT !.doclose = TRUE, !.director = FALSE, !.step = "DONE"]
        /\ w' = [x EXCEPT !.hcl = FALSE, !.bereq = FALSE, !.beresp = FALSE]
        /\ hist' = [hist EXCEPT !.outofobjects = oo]
    BY <1>8, <1>9, Zenon
  <2> HIDE DEF oo
  <2> QED
    BY <1>5, <2>1, <2>2
<1>10. CASE alloc /\ h = "restart" /\ sp.restarts < MaxRestarts
  <2>1. sp.restarts + 1 \in 0..MaxRestarts
    BY <1>10 DEF SessType
  <2>2. sp' = [sp EXCEPT !.objcore = Null, !.obj = NoObj, !.director = FALSE,
                         !.restarts = sp.restarts + 1, !.step = "RECV"]
        /\ w' = x /\ UNCHANGED hist
    BY <1>8, <1>10 DEF SessType
  <2> QED
    BY <1>6, <2>1, <2>2
<1>11. CASE alloc /\ ~(h = "restart" /\ sp.restarts < MaxRestarts)
  <2>1. o \in Objects /\ o.oc = sp.objcore
    BY DEF Objects, SessType
  <2>2. sp' = [[sp EXCEPT !.objcore = Null, !.obj = o] EXCEPT !.doclose = TRUE,
                                            !.wantbody = TRUE, !.step = "PREPRESP"]
        /\ w' = [x EXCEPT !.bereq = FALSE] /\ UNCHANGED hist
    BY <1>8, <1>11, Zenon
  <2> HIDE DEF o
  <2>3. sp' = [sp EXCEPT !.objcore = Null, !.obj = o, !.doclose = TRUE,
                         !.wantbody = TRUE, !.step = "PREPRESP"]
    BY <2>2
  <2> QED
    BY <1>7, <2>1, <2>2, <2>3
<1> QED
  BY <1>9, <1>10, <1>11

\* RES_BuildHttp and cnt_prepresp choose one way to tell the end of the body.
LEMMA ModeChosen ==
  ASSUME NEW s, s.obj \in Objects, s.wantbody \in BOOLEAN, s.doclose \in BOOLEAN,
         NEW x \in WorkerType, NEW noesi \in BOOLEAN, NEW gzip \in BOOLEAN,
         NEW proto11 \in BOOLEAN, NEW rm, rm = ResMode(s, x, noesi, gzip, proto11),
         frames \in Seq(FrameType)
  PROVE  /\ rm \in SUBSET Modes
         /\ frames = <<>> => "ESI_CHILD" \notin rm
         /\ frames = <<>> /\ s.wantbody => Told(rm, s.obj, s.doclose \/ "EOF" \in rm)
         /\ x.do_stream /\ "LEN" \in rm =>
              x.hcl /\ ~x.do_gzip /\ ~x.do_gunzip /\ rm = {"LEN"}
<1> DEFINE esi == ~noesi /\ s.obj.esidata
           child == esi_level > 0
           gunzip == GzipSupport /\ s.obj.gziped /\ ~gzip
           len == /\ (x.hcl \/ ~x.do_stream) /\ ~x.do_gzip /\ ~x.do_gunzip
                  /\ ~esi /\ ~child /\ ~gunzip
           A1 == IF esi THEN {"ESI"} ELSE {}
           B1 == IF child THEN {"ESI_CHILD"} ELSE {}
           G1 == IF gunzip THEN {"GUNZIP"} ELSE {}
           E1 == CASE len \/ (s.obj.empty /\ ~x.do_stream) -> {"LEN"}
                   [] ~s.wantbody -> {}
                   [] proto11 -> {"CHUNKED"}
                   [] OTHER -> {"EOF"}
<1>1. rm = A1 \cup B1 \cup G1 \cup E1
  BY DEF ResMode
<1>2. /\ A1 \subseteq {"ESI"} /\ B1 \subseteq {"ESI_CHILD"} /\ G1 \subseteq {"GUNZIP"}
      /\ E1 \in {{"LEN"}, {}, {"CHUNKED"}, {"EOF"}}
      /\ s.wantbody => E1 # {}
      /\ frames = <<>> => B1 = {}
      /\ E1 = {"LEN"} => len \/ (s.obj.empty /\ ~x.do_stream)
      /\ len => A1 = {} /\ B1 = {} /\ G1 = {}
  <2>1. frames = <<>> => ~child
    BY EmptySeq DEF esi_level
  <2> HIDE DEF child
  <2> QED
    BY <2>1
<1>3. len => (x.hcl \/ ~x.do_stream) /\ ~x.do_gzip /\ ~x.do_gunzip
  OBVIOUS
<1> HIDE DEF len, A1, B1, G1, E1
<1>4. rm \in SUBSET Modes
  BY <1>1, <1>2 DEF Modes
<1>5. frames = <<>> => "ESI_CHILD" \notin rm
  BY <1>1, <1>2
<1>6. "LEN" \in rm <=> E1 = {"LEN"}
  BY <1>1, <1>2
<1>7. ASSUME frames = <<>>, s.wantbody PROVE Told(rm, s.obj, s.doclose \/ "EOF" \in rm)
  <2>1. rm \cap {"LEN", "CHUNKED", "EOF"} = E1
    BY <1>1, <1>2
  <2>2. \E m \in {"LEN", "CHUNKED", "EOF"} : E1 = {m}
    BY <1>2, <1>7
  <2>3. "LEN" \in rm => s.obj.empty \/ rm = {"LEN"}
    <3>1. len /\ E1 = {"LEN"} => rm = {"LEN"}
      BY <1>1, <1>2
    <3> QED
      BY <1>2, <1>6, <3>1
  <2> QED
    BY <1>5, <1>7, <2>1, <2>2, <2>3 DEF Told
<1>8. x.do_stream /\ "LEN" \in rm =>
        x.hcl /\ ~x.do_gzip /\ ~x.do_gunzip /\ rm = {"LEN"}
  <2>1. len /\ E1 = {"LEN"} => rm = {"LEN"}
    BY <1>1, <1>2
  <2> QED
    BY <1>2, <1>3, <1>6, <2>1
<1> QED
  BY <1>4, <1>5, <1>7, <1>8

\* cnt_prepresp
LEMMA PreprespKeeps == ASSUME CenterInv, cnt_prepresp PROVE CenterInv'
<1> USE Names, Given
<1>1. sp.step = "PREPRESP" /\ sp.at = "worker" /\ UNCHANGED <<frames, panic>>
  BY DEF cnt_prepresp, Step
<1>2. PICK noesi, gzip, proto11 \in BOOLEAN, h \in {"deliver", "restart"} :
       LET rm == ResMode(sp, w, noesi, gzip, proto11)
           close == sp.doclose \/ "EOF" \in rm
       IN IF h = "restart" /\ sp.restarts < MaxRestarts
          THEN /\ sp' = [(IF w.do_stream THEN VDI_CloseFd(sp) ELSE sp)
                           EXCEPT !.obj = NoObj, !.restarts = @ + 1,
                                  !.director = FALSE, !.doclose = close,
                                  !.step = "RECV"]
               /\ w' = [(IF w.do_stream THEN DoCloseReset(w) ELSE w)
                        EXCEPT !.hcl = FALSE, !.bereq = FALSE, !.beresp = FALSE,
                               !.resp = FALSE, !.res_mode = rm]
               /\ hist' = [hist EXCEPT !.spoiled = @ \/ (w.do_stream /\ w.vfp # Null)]
          ELSE /\ sp' = [sp EXCEPT !.doclose = close,
                           !.step = IF w.do_stream THEN "STREAMBODY" ELSE "DELIVER"]
               /\ w' = [w EXCEPT !.resp = TRUE, !.res_mode = rm]
               /\ UNCHANGED hist
  BY DEF cnt_prepresp
<1> DEFINE rm == ResMode(sp, w, noesi, gzip, proto11)
           close == sp.doclose \/ "EOF" \in rm
<1>3. sp.obj \in Objects /\ sp.wantbody \in BOOLEAN /\ sp.doclose \in BOOLEAN
  BY <1>1 DEF SessInv, RequestOK, Having, SessType
<1>4. /\ rm \in SUBSET Modes
      /\ frames = <<>> => "ESI_CHILD" \notin rm
      /\ frames = <<>> /\ sp.wantbody => Told(rm, sp.obj, close)
      /\ w.do_stream /\ "LEN" \in rm =>
           w.hcl /\ ~w.do_gzip /\ ~w.do_gunzip /\ rm = {"LEN"}
  BY <1>3, ModeChosen
<1>5. close \in BOOLEAN /\ (sp.doclose => close)
  OBVIOUS
<1>6. CASE h = "restart" /\ sp.restarts < MaxRestarts
  <2> DEFINE s1 == IF w.do_stream THEN VDI_CloseFd(sp) ELSE sp
             x1 == IF w.do_stream THEN DoCloseReset(w) ELSE w
             n == sp.restarts + 1
             sl == hist.spoiled \/ (w.do_stream /\ w.vfp # Null)
  <2>1. /\ sp' = [s1 EXCEPT !.obj = NoObj, !.restarts = s1.restarts + 1,
                            !.director = FALSE, !.doclose = close, !.step = "RECV"]
        /\ w' = [x1 EXCEPT !.hcl = FALSE, !.bereq = FALSE, !.beresp = FALSE,
                           !.resp = FALSE, !.res_mode = rm]
        /\ hist' = [hist EXCEPT !.spoiled = sl]
    BY <1>2, <1>6, Zenon
  <2>2. s1 \in SessType /\ ~s1.vbc /\ s1.restarts = sp.restarts /\ s1.at = sp.at
        /\ s1.objcore = sp.objcore /\ s1.vcl = sp.vcl /\ s1.todo = sp.todo
        /\ s1.wantbody = sp.wantbody
    <3>1. ~w.do_stream => ~sp.vbc
      BY <1>1 DEF SessInv, RequestOK, Fetching, SessType
    <3> QED
      BY <3>1, ZenonT(40) DEF VDI_CloseFd, SessType
  <2>3. /\ x1 \in WorkerType /\ x1.hint = w.hint /\ x1.vfp = w.vfp
        /\ x1.do_close => ~w.do_stream /\ w.do_close
    <3>1. CASE w.do_stream
      <4>1. x1 = [w EXCEPT !.do_close = FALSE]
        BY <3>1 DEF DoCloseReset
      <4> QED
        BY <3>1, <4>1 DEF WorkerType
    <3>2. CASE ~w.do_stream
      <4>1. x1 = w
        BY <3>2
      <4> QED
        BY <3>2, <4>1
    <3> QED
      BY <3>1, <3>2
  <2>4. n \in 0..MaxRestarts /\ n = s1.restarts + 1
    BY <1>6, <2>2 DEF SessType
  <2>5. sl \in BOOLEAN /\ (hist.spoiled => sl) /\ (w.do_stream /\ ~sl => w.vfp = Null)
        /\ (sl => hist.spoiled \/ w.do_stream)
    OBVIOUS
  <2> HIDE DEF rm, close, s1, x1, n, sl
  <2>6. /\ hist' \in HistType /\ hist'.spoiled = sl /\ hist'.outofobjects = hist.outofobjects
        /\ hist'.sent = hist.sent /\ hist'.announced = hist.announced
    BY <2>1, <2>5 DEF HistType
  <2>7. sp' = [s1 EXCEPT !.obj = NoObj, !.restarts = n,
                         !.director = FALSE, !.doclose = close, !.step = "RECV"]
    BY <2>1, <2>4
  <2>8. sp' \in SessType
    <3> DEFINE z == [s1 EXCEPT !.obj = NoObj, !.restarts = n]
    <3>1. z \in SessType
      BY <2>2, <2>4 DEF SessType
    <3>2. sp' = [z EXCEPT !.director = FALSE, !.doclose = close, !.step = "RECV"]
      BY <2>7
    <3> HIDE DEF z
    <3> QED
      BY <1>5, <3>1, <3>2 DEF SessType
  <2>9. w' \in WorkerType
    <3> DEFINE z == [x1 EXCEPT !.hcl = FALSE, !.bereq = FALSE]
    <3>1. z \in WorkerType
      BY <2>3 DEF WorkerType
    <3>2. w' = [z EXCEPT !.beresp = FALSE, !.resp = FALSE, !.res_mode = rm]
      BY <2>1
    <3> HIDE DEF z
    <3> QED
      BY <1>4, <3>1, <3>2 DEF WorkerType
  <2>10. /\ sp'.at = "worker" /\ sp'.step = "RECV" /\ sp'.obj = NoObj /\ ~sp'.director
         /\ sp'.doclose = close /\ ~sp'.vbc /\ sp'.vcl = sp.vcl /\ sp'.objcore = sp.objcore
    BY <1>1, <2>2, <2>7 DEF SessType
  <2>11. /\ ~w'.hcl /\ ~w'.bereq /\ ~w'.beresp /\ ~w'.resp
         /\ w'.hint = w.hint /\ w'.vfp = w.vfp
         /\ w'.do_close => ~w.do_stream /\ w.do_close
    BY <2>1, <2>3 DEF WorkerType
  <2>12. FreshOK(sp', frames', hist') /\ KeptOK(sp', frames', hist')
    BY <1>1, <1>5, <2>5, <2>6, <2>10, <2>11, ToldStill DEF SessInv, FreshOK, KeptOK, Before, SessType, HistType
  <2>13. RequestOK(sp', w', frames')
    BY <1>1, <1>5, <2>5, <2>6, <2>10, <2>11, ToldStill DEF SessInv, FreshOK, RequestOK, Before, Chosen, Having, Fetching,
       Streaming, SessType, WorkerType, FlagsClear
  <2>14. WorkerOK(sp', w', frames', hist')
    BY <1>1, <1>5, <2>5, <2>6, <2>10, <2>11, ToldStill DEF SessInv, WorkerOK, Before, Chosen, Fetching, RequestOK,
       SessType, WorkerType, HistType, FlagsClear
  <2>15. BusyOK(sp', w', frames', hist')
    BY <1>1, <1>5, <2>5, <2>6, <2>10, <2>11, ToldStill DEF SessInv, FreshOK, BusyOK, RequestOK, Before, Chosen, Having, Fetching,
       SessType, WorkerType, HistType, FlagsClear
  <2>16. FramedOK(sp', w', frames', hist')
    BY <1>1, <1>5, <2>5, <2>6, <2>10, <2>11, ToldStill, SentStill DEF SessInv, FreshOK, FramedOK, Before, SessType, WorkerType, HistType
  <2>17. SessInv(sp', w', frames', hist')
    BY <2>12, <2>13, <2>14, <2>15, <2>16 DEF SessInv
  <2> QED
    BY <1>1, <2>5, <2>6, <2>8, <2>9, <2>17, Assembled
<1>7. CASE ~(h = "restart" /\ sp.restarts < MaxRestarts)
  <2> DEFINE t == IF w.do_stream THEN "STREAMBODY" ELSE "DELIVER"
  <2>1. /\ sp' = [sp EXCEPT !.doclose = close, !.step = t]
        /\ w' = [w EXCEPT !.resp = TRUE, !.res_mode = rm]
        /\ UNCHANGED hist
    BY <1>2, <1>7, Zenon
  <2> HIDE DEF rm, close
  <2>2. sp' \in SessType
    BY <1>5, <2>1 DEF SessType
  <2>3. w' \in WorkerType
    BY <1>4, <2>1 DEF WorkerType
  <2>4. /\ w'.do_stream = w.do_stream /\ w'.hcl = w.hcl /\ w'.do_gzip = w.do_gzip
        /\ w'.do_gunzip = w.do_gunzip /\ w'.res_mode = rm /\ w'.hint = w.hint
        /\ w'.vfp = w.vfp /\ w'.do_close = w.do_close /\ w'.beresp = w.beresp
        /\ w'.bereq = w.bereq
    BY <2>1 DEF WorkerType
  <2>5. /\ sp'.at = "worker" /\ sp'.step = t /\ sp'.obj = sp.obj /\ sp'.doclose = close
        /\ sp'.vbc = sp.vbc /\ sp'.vcl = sp.vcl /\ sp'.objcore = sp.objcore
        /\ sp'.director = sp.director /\ sp'.wantbody = sp.wantbody
    BY <1>1, <2>1 DEF SessType
  <2>6. w.do_stream => frames = <<>> /\ sp.wantbody
    BY <1>1 DEF SessInv, RequestOK, Streaming
  <2>7. FreshOK(sp', frames', hist') /\ KeptOK(sp', frames', hist')
    BY <1>1, <1>4, <1>5, <2>1, <2>4, <2>5, <2>6, ToldStill DEF SessInv, FreshOK, KeptOK, Before, SessType, HistType
  <2>8. RequestOK(sp', w', frames')
    BY <1>1, <1>4, <1>5, <2>1, <2>4, <2>5, <2>6, ToldStill DEF SessInv, FreshOK, RequestOK, Before, Chosen, Having, Fetching,
       Streaming, SessType, WorkerType, FlagsClear
  <2>9. WorkerOK(sp', w', frames', hist')
    BY <1>1, <1>4, <1>5, <2>1, <2>4, <2>5, <2>6, ToldStill DEF SessInv, WorkerOK, Before, Chosen, Fetching, RequestOK,
       SessType, WorkerType, HistType, FlagsClear
  <2>10. BusyOK(sp', w', frames', hist')
    BY <1>1, <1>4, <1>5, <2>1, <2>4, <2>5, <2>6, ToldStill DEF SessInv, FreshOK, BusyOK, RequestOK, Before, Chosen, Having, Fetching,
       SessType, WorkerType, HistType, FlagsClear
  <2>11. FramedOK(sp', w', frames', hist')
    BY <1>1, <1>4, <1>5, <2>1, <2>4, <2>5, <2>6, ToldStill DEF SessInv, FreshOK, FramedOK, Before, SessType, WorkerType, HistType
  <2>12. SessInv(sp', w', frames', hist')
    BY <2>7, <2>8, <2>9, <2>10, <2>11 DEF SessInv
  <2> QED
    BY <1>1, <2>1, <2>2, <2>3, <2>12, Assembled
<1> QED
  BY <1>6, <1>7

\* cnt_deliver
LEMMA DeliverKeeps == ASSUME CenterInv, cnt_deliver PROVE CenterInv'
<1> USE Names, Given
<1>1. sp.step = "DELIVER" /\ sp.at = "worker" /\ UNCHANGED <<frames, panic>>
  BY DEF cnt_deliver, Step
<1>2. PICK cond, length \in BOOLEAN, n \in 0..MaxIncludes :
        LET body == sp.wantbody /\ ~cond
        IN /\ cond => esi_level = 0
           /\ (n > 0) => body /\ ~sp.obj.empty /\ "ESI" \in w.res_mode
           /\ sp' = [sp EXCEPT !.director = FALSE, !.restarts = 0,
                               !.wantbody = body, !.todo = n, !.step = "WRITING"]
           /\ w' = [w EXCEPT !.res_mode = IF body THEN @ ELSE @ \ {"CHUNKED"}]
           /\ length \/ sp.obj.empty
           /\ hist' = IF esi_level > 0 THEN hist
                      ELSE [hist EXCEPT !.announced =
                              IF length /\ ~cond /\ "LEN" \in w.res_mode
                              THEN "object" ELSE "no"]
  BY DEF cnt_deliver
<1> DEFINE a == IF length /\ ~cond /\ "LEN" \in w.res_mode THEN "object" ELSE "no"
<1>20. /\ frames # <<>> => hist' = hist
       /\ frames = <<>> => hist' = [hist EXCEPT !.announced = a]
  <2>1. frames = <<>> <=> ~(esi_level > 0)
    BY EmptySeq DEF esi_level
  <2>2. /\ length \/ sp.obj.empty
        /\ hist' = IF esi_level > 0 THEN hist ELSE [hist EXCEPT !.announced = a]
    BY <1>2
  <2> HIDE DEF a
  <2> QED
    BY <2>1, <2>2
<1>21. /\ a \in {"no", "object"} /\ (a = "object" => "LEN" \in w.res_mode)
       /\ "LEN" \in w.res_mode /\ ~cond => a = "object" \/ sp.obj.empty
  BY <1>2
<1> HIDE DEF a
<1>22. /\ hist' \in HistType /\ hist'.spoiled = hist.spoiled /\ hist'.sent = hist.sent
       /\ hist'.outofobjects = hist.outofobjects
       /\ hist'.announced = IF frames = <<>> THEN a ELSE hist.announced
  BY <1>20, <1>21 DEF HistType
<1> DEFINE body == sp.wantbody /\ ~cond
           rm == IF body THEN w.res_mode ELSE w.res_mode \ {"CHUNKED"}
<1>3. /\ n > 0 => body
      /\ sp' = [sp EXCEPT !.director = FALSE, !.restarts = 0,
                          !.wantbody = body, !.todo = n, !.step = "WRITING"]
      /\ w' = [w EXCEPT !.res_mode = rm]
  BY <1>2, Zenon
<1>4. body \in BOOLEAN /\ (body => sp.wantbody /\ rm = w.res_mode) /\ rm \in SUBSET Modes
  BY DEF SessType, WorkerType
<1>23. body => ~cond
  OBVIOUS
<1> HIDE DEF body, rm
<1>5. sp' \in SessType
  <2> DEFINE z == [sp EXCEPT !.director = FALSE, !.restarts = 0]
  <2>1. z \in SessType
    BY DEF SessType
  <2>2. sp' = [z EXCEPT !.wantbody = body, !.todo = n, !.step = "WRITING"]
    BY <1>3
  <2> HIDE DEF z
  <2> QED
    BY <1>4, <2>1, <2>2 DEF SessType
<1>6. w' \in WorkerType
  BY <1>3, <1>4 DEF WorkerType
<1>7. /\ w'.do_stream = w.do_stream /\ w'.hcl = w.hcl /\ w'.hint = w.hint
      /\ w'.vfp = w.vfp /\ w'.do_close = w.do_close /\ w'.beresp = w.beresp
      /\ w'.bereq = w.bereq /\ w'.res_mode = rm
  BY <1>3 DEF WorkerType
<1>8. /\ sp'.at = "worker" /\ sp'.step = "WRITING" /\ sp'.obj = sp.obj /\ sp'.vbc = sp.vbc
      /\ sp'.vcl = sp.vcl /\ sp'.objcore = sp.objcore /\ sp'.doclose = sp.doclose
      /\ sp'.wantbody = body /\ sp'.todo = n
  BY <1>1, <1>3 DEF SessType
<1>9. FreshOK(sp', frames', hist') /\ KeptOK(sp', frames', hist')
  BY <1>1, <1>3, <1>4, <1>7, <1>8, <1>22 DEF SessInv, FreshOK, KeptOK, Before, SessType, HistType
<1>10. RequestOK(sp', w', frames')
  BY <1>1, <1>3, <1>4, <1>7, <1>8, <1>22 DEF SessInv, FreshOK, RequestOK, Before, Chosen, Having, Fetching,
     Streaming, SessType, WorkerType, FlagsClear
<1>11. WorkerOK(sp', w', frames', hist')
  BY <1>1, <1>3, <1>4, <1>7, <1>8, <1>22 DEF SessInv, WorkerOK, Before, Chosen, Fetching, RequestOK,
     SessType, WorkerType, HistType, FlagsClear
<1>12. BusyOK(sp', w', frames', hist')
  BY <1>1, <1>3, <1>4, <1>7, <1>8, <1>22 DEF SessInv, FreshOK, BusyOK, RequestOK, Before, Chosen, Having, Fetching,
     SessType, WorkerType, HistType, FlagsClear
<1>13. FramedOK(sp', w', frames', hist')
  BY <1>1, <1>3, <1>4, <1>7, <1>8, <1>21, <1>22, <1>23
     DEF SessInv, FreshOK, FramedOK, Sent, Before, SessType, WorkerType, HistType
<1>14. SessInv(sp', w', frames', hist')
  BY <1>9, <1>10, <1>11, <1>12, <1>13 DEF SessInv
<1> QED
  BY <1>1, <1>5, <1>6, <1>14, <1>22, Assembled

\* ved_include: the object that was being written waits in a frame.
LEMMA IncludeKeeps == ASSUME CenterInv, ved_include PROVE CenterInv'
<1> USE Names, Given
<1>1. sp.step = "WRITING" /\ sp.at = "worker" /\ sp.todo > 0 /\ UNCHANGED <<panic, hist>>
  BY DEF ved_include, Step
<1>2. sp.todo - 1 \in 0..MaxIncludes /\ Len(frames) \in Nat
  BY <1>1 DEF SessType
<1>3. CASE esi_level >= MaxEsiDepth
  <2>1. sp' = [sp EXCEPT !.todo = sp.todo - 1] /\ UNCHANGED <<w, frames>>
    BY <1>3 DEF ved_include
  <2>2. sp' \in SessType
    BY <1>2, <2>1 DEF SessType
  <2>3. /\ sp'.at = "worker" /\ sp'.step = "WRITING" /\ sp'.obj = sp.obj /\ sp'.vbc = sp.vbc
        /\ sp'.vcl = sp.vcl /\ sp'.objcore = sp.objcore /\ sp'.doclose = sp.doclose
        /\ sp'.wantbody = sp.wantbody
    BY <1>1, <2>1 DEF SessType
  <2>4. FreshOK(sp', frames', hist') /\ KeptOK(sp', frames', hist')
    BY <1>1, <2>1, <2>3 DEF SessInv, FreshOK, KeptOK, Before, SessType, HistType
  <2>5. RequestOK(sp', w', frames')
    BY <1>1, <2>1, <2>3 DEF SessInv, FreshOK, RequestOK, Before, Chosen, Having, Fetching,
       Streaming, SessType, WorkerType, FlagsClear
  <2>6. WorkerOK(sp', w', frames', hist')
    BY <1>1, <2>1, <2>3 DEF SessInv, WorkerOK, Before, Chosen, Fetching, RequestOK,
       SessType, WorkerType, HistType, FlagsClear
  <2>7. BusyOK(sp', w', frames', hist')
    BY <1>1, <2>1, <2>3 DEF SessInv, FreshOK, BusyOK, RequestOK, Before, Chosen, Having, Fetching,
       SessType, WorkerType, HistType, FlagsClear
  <2>8. FramedOK(sp', w', frames', hist')
    BY <1>1, <2>1, <2>3 DEF SessInv, FreshOK, FramedOK, Before, SessType, WorkerType, HistType
  <2>9. SessInv(sp', w', frames', hist')
    BY <2>4, <2>5, <2>6, <2>7, <2>8 DEF SessInv
  <2> QED
    BY <1>1, <2>1, <2>2, <2>9, Assembled
<1>4. CASE ~(esi_level >= MaxEsiDepth)
  <2> DEFINE f == [obj |-> sp.obj, todo |-> sp.todo - 1, res_mode |-> w.res_mode]
             x == ClearFlags(w)
  <2>1. /\ frames' = Append(frames, f)
        /\ sp' = [sp EXCEPT !.obj = NoObj, !.director = FALSE, !.todo = 0, !.step = "RECV"]
        /\ w' = x
    BY <1>4 DEF ved_include
  <2>2. f \in FrameType
    <3>1. sp.obj \in Objects
      BY <1>1 DEF SessInv, RequestOK, Having, SessType
    <3>2. w.res_mode \in SUBSET Modes
      BY DEF WorkerType
    <3> QED
      BY <1>2, <3>1, <3>2 DEF FrameType
  <2>3. /\ w' \in WorkerType /\ FlagsClear(w')
        /\ w' = [w EXCEPT !.do_esi = FALSE, !.do_gzip = FALSE,
                          !.do_gunzip = FALSE, !.do_stream = FALSE]
    BY <2>1, Cleared
  <2>4. f.obj = sp.obj /\ f.res_mode = w.res_mode
    OBVIOUS
  <2> HIDE DEF f, x
  <2>5. /\ frames' \in Seq(FrameType) /\ Len(frames') = Len(frames) + 1
        /\ \A i \in 1..Len(frames) : frames'[i] = frames[i]
        /\ frames'[Len(frames) + 1] = f
    BY <2>1, <2>2, AppendProperties
  <2>6. Len(frames') <= MaxEsiDepth /\ frames' # <<>>
    BY <1>2, <1>4, <2>5, EmptySeq, CenterAssumption DEF esi_level
  <2>7. sp' \in SessType
    BY <2>1 DEF SessType
  <2>8. /\ w'.hcl = w.hcl /\ w'.hint = w.hint /\ w'.vfp = w.vfp
        /\ w'.do_close = w.do_close /\ w'.beresp = w.beresp /\ w'.bereq = w.bereq
    BY <2>3 DEF WorkerType
  <2>9. /\ sp'.at = "worker" /\ sp'.step = "RECV" /\ sp'.obj = NoObj /\ sp'.vbc = sp.vbc
        /\ sp'.vcl = sp.vcl /\ sp'.objcore = sp.objcore /\ sp'.doclose = sp.doclose
        /\ ~sp'.director
    BY <1>1, <2>1 DEF SessType
  <2>10. /\ Told(frames'[1].res_mode, frames'[1].obj, sp.doclose)
         /\ Sent(frames'[1].res_mode, frames'[1].obj, hist)
    <3>1. CASE frames = <<>>
      <4>1. frames'[1] = f
        BY <2>5, <3>1, EmptySeq
      <4>2. Told(w.res_mode, sp.obj, sp.doclose) /\ Sent(w.res_mode, sp.obj, hist)
        BY <1>1, <3>1 DEF SessInv, FramedOK
      <4> QED
        BY <2>4, <4>1, <4>2
    <3>2. CASE frames # <<>>
      <4>1. 1 \in 1..Len(frames)
        BY <1>2, <3>2, EmptySeq
      <4> QED
        BY <2>5, <3>2, <4>1 DEF SessInv, FramedOK
    <3> QED
      BY <3>1, <3>2
  <2>11. \A i \in 1..Len(frames') : frames'[i].obj.oc = "busy" => hist'.spoiled
    <3>1. sp.obj.oc = "busy" => hist.spoiled
      BY <1>1 DEF SessInv, BusyOK, Fetching
    <3>2. \A i \in 1..Len(frames) : frames[i].obj.oc = "busy" => hist.spoiled
      BY DEF SessInv, BusyOK
    <3>3. \A i \in 1..Len(frames') : i \in 1..Len(frames) \/ i = Len(frames) + 1
      BY <1>2, <2>5
    <3> QED
      BY <1>1, <2>4, <2>5, <3>1, <3>2, <3>3
  <2> HIDE DEF f
  <2>12. FreshOK(sp', frames', hist') /\ KeptOK(sp', frames', hist')
    BY <1>1, <2>3, <2>6, <2>8, <2>9, <2>10, <2>11 DEF SessInv, FreshOK, KeptOK, Before, SessType, HistType
  <2>13. RequestOK(sp', w', frames')
    BY <1>1, <2>3, <2>6, <2>8, <2>9, <2>10, <2>11 DEF SessInv, FreshOK, RequestOK, Before, Chosen, Having, Fetching,
       Streaming, SessType, WorkerType, FlagsClear
  <2>14. WorkerOK(sp', w', frames', hist')
    BY <1>1, <2>3, <2>6, <2>8, <2>9, <2>10, <2>11 DEF SessInv, WorkerOK, Before, Chosen, Fetching, RequestOK,
       SessType, WorkerType, HistType, FlagsClear
  <2>15. BusyOK(sp', w', frames', hist')
    BY <1>1, <2>3, <2>6, <2>8, <2>9, <2>10, <2>11 DEF SessInv, FreshOK, BusyOK, RequestOK, Before, Chosen, Having, Fetching,
       SessType, WorkerType, HistType, FlagsClear
  <2>16. FramedOK(sp', w', frames', hist')
    BY <1>1, <2>3, <2>6, <2>8, <2>9, <2>10, <2>11 DEF SessInv, FreshOK, FramedOK, Before, SessType, WorkerType, HistType
  <2>17. SessInv(sp', w', frames', hist')
    BY <2>12, <2>13, <2>14, <2>15, <2>16 DEF SessInv
  <2> QED
    BY <1>1, <2>3, <2>5, <2>6, <2>7, <2>17, Assembled
<1> QED
  BY <1>3, <1>4

\* cnt_deliver_end
LEMMA WrittenKeeps == ASSUME CenterInv, cnt_deliver_end PROVE CenterInv'
<1> USE Names, Given
<1>1. /\ sp.step = "WRITING" /\ sp.at = "worker" /\ UNCHANGED <<frames, panic>>
      /\ w' = [w EXCEPT !.resp = FALSE]
  BY DEF cnt_deliver_end, Step
<1> DEFINE sent == IF esi_level = 0 THEN "whole" ELSE hist.sent
<1>2. PICK flushed \in BOOLEAN :
        sp' = [sp EXCEPT !.fd = sp.fd /\ flushed, !.obj = NoObj, !.step = "DONE"]
  BY DEF cnt_deliver_end
<1>3. hist' = [hist EXCEPT !.sent = sent]
  BY DEF cnt_deliver_end
<1>4. sent \in {"no", "whole", "cut", "nopipe"} /\ (frames = <<>> => sent = "whole")
  BY EmptySeq DEF esi_level, HistType
<1> DEFINE open == sp.fd /\ flushed
<1>5. sp' = [sp EXCEPT !.fd = open, !.obj = NoObj, !.step = "DONE"] /\ open \in BOOLEAN
  BY <1>2
<1> HIDE DEF sent, open
<1>6. sp' \in SessType
  BY <1>5 DEF SessType
<1>7. w' \in WorkerType
  BY <1>1 DEF WorkerType
<1>8. /\ hist' \in HistType /\ hist'.spoiled = hist.spoiled /\ hist'.sent = sent
      /\ hist'.outofobjects = hist.outofobjects /\ hist'.announced = hist.announced
  BY <1>3, <1>4 DEF HistType
<1>9. /\ w'.do_stream = w.do_stream /\ w'.hcl = w.hcl /\ w'.hint = w.hint
      /\ w'.vfp = w.vfp /\ w'.do_close = w.do_close /\ w'.beresp = w.beresp
      /\ w'.bereq = w.bereq /\ ~w'.resp
  BY <1>1 DEF WorkerType
<1>10. /\ sp'.at = "worker" /\ sp'.step = "DONE" /\ sp'.obj = NoObj /\ sp'.vbc = sp.vbc
       /\ sp'.vcl = sp.vcl /\ sp'.objcore = sp.objcore /\ sp'.doclose = sp.doclose
  BY <1>1, <1>5 DEF SessType
<1>11. FreshOK(sp', frames', hist') /\ KeptOK(sp', frames', hist')
  BY <1>1, <1>4, <1>8, <1>9, <1>10 DEF SessInv, FreshOK, KeptOK, Before, SessType, HistType
<1>12. RequestOK(sp', w', frames')
  BY <1>1, <1>4, <1>8, <1>9, <1>10 DEF SessInv, FreshOK, RequestOK, Before, Chosen, Having, Fetching,
     Streaming, SessType, WorkerType, FlagsClear
<1>13. WorkerOK(sp', w', frames', hist')
  BY <1>1, <1>4, <1>8, <1>9, <1>10 DEF SessInv, WorkerOK, Before, Chosen, Fetching, RequestOK,
     SessType, WorkerType, HistType, FlagsClear
<1>14. BusyOK(sp', w', frames', hist')
  BY <1>1, <1>4, <1>8, <1>9, <1>10 DEF SessInv, FreshOK, BusyOK, RequestOK, Before, Chosen, Having, Fetching,
     SessType, WorkerType, HistType, FlagsClear
<1>15. FramedOK(sp', w', frames', hist')
  BY <1>1, <1>4, <1>8, <1>9, <1>10, SentStill DEF SessInv, FreshOK, FramedOK, Before, SessType, WorkerType, HistType
<1>16. SessInv(sp', w', frames', hist')
  BY <1>11, <1>12, <1>13, <1>14, <1>15 DEF SessInv
<1> QED
  BY <1>1, <1>6, <1>7, <1>8, <1>16, Assembled

\* All but the last element of a sequence.
LEMMA ButLast ==
  ASSUME NEW S, NEW q \in Seq(S), Len(q) > 0
  PROVE  /\ SubSeq(q, 1, Len(q) - 1) \in Seq(S)
         /\ Len(SubSeq(q, 1, Len(q) - 1)) = Len(q) - 1
         /\ \A i \in 1..(Len(q) - 1) : SubSeq(q, 1, Len(q) - 1)[i] = q[i]
<1>1. Len(q) \in Nat /\ Len(q) - 1 \in Int /\ 1 \in Int
  OBVIOUS
<1>2. \A i \in 1..(Len(q) - 1) : q[i] \in S
  BY <1>1
<1> DEFINE n == Len(q) - 1
           p == SubSeq(q, 1, n)
<1>3. n \in Nat
  BY <1>1
<1>4. p \in Seq(S)
  BY <1>1, <1>2, SubSeqProperties
<1>5. Len(p) = n
  <2>1. Len(p) = IF 1 <= n THEN n - 1 + 1 ELSE 0
    BY <1>1, <1>2, SubSeqProperties
  <2> HIDE DEF p, n
  <2> QED
    BY <1>3, <2>1
<1>6. \A i \in 1..n : p[i] = q[i]
  <2>1. \A i \in 1..(n - 1 + 1) : p[i] = q[1 + i - 1]
    BY <1>1, <1>2, SubSeqProperties
  <2>2. \A i \in 1..n : i \in 1..(n - 1 + 1) /\ 1 + i - 1 = i
    BY <1>3
  <2> HIDE DEF p, n
  <2> QED
    BY <2>1, <2>2
<1> QED
  BY <1>4, <1>5, <1>6

\* The rest of ved_include: the frame gives back what was being written.
LEMMA IncludeEnds ==
  ASSUME CenterInv, cnt_done, esi_level > 0
  PROVE  CenterInv'
<1> USE Names, Given
<1> DEFINE x == ClearFlags(w)
           s == [sp EXCEPT !.director = FALSE, !.restarts = 0, !.xid = FALSE,
                           !.vcl = sp.vcl /\ esi_level > 0]
           f == frames[esi_level]
<1>1. sp.step = "DONE" /\ sp.at = "worker" /\ UNCHANGED <<panic, hist>>
  BY DEF cnt_done, Step
<1>2. /\ frames' = SubSeq(frames, 1, esi_level - 1)
      /\ sp' = [s EXCEPT !.obj = f.obj, !.todo = f.todo, !.xid = TRUE, !.step = "WRITING"]
      /\ w' = [x EXCEPT !.res_mode = f.res_mode]
  BY DEF cnt_done, ved_include_end
<1>3. /\ Len(frames) \in Nat /\ Len(frames) > 0 /\ frames # <<>> /\ f = frames[Len(frames)]
      /\ f \in FrameType
  BY EmptySeq DEF esi_level
<1>4. /\ x \in WorkerType /\ FlagsClear(x) /\ x.hcl = w.hcl /\ x.hint = w.hint
      /\ x.vfp = w.vfp /\ x.do_close = w.do_close /\ x.beresp = w.beresp
      /\ x.bereq = w.bereq
  <2>1. /\ x \in WorkerType /\ FlagsClear(x)
        /\ x = [w EXCEPT !.do_esi = FALSE, !.do_gzip = FALSE,
                         !.do_gunzip = FALSE, !.do_stream = FALSE]
    BY Cleared
  <2> HIDE DEF x
  <2> QED
    BY <2>1 DEF WorkerType
<1>5. s \in SessType
  BY <1>1, <1>3 DEF SessType, esi_level
<1>6. /\ s.at = "worker" /\ s.objcore = sp.objcore /\ s.vbc = sp.vbc /\ s.vcl
      /\ s.doclose = sp.doclose
  <2>1. sp.vcl
    BY <1>1, <1>3 DEF SessInv, RequestOK, Before
  <2> QED
    BY <1>1, <2>1 DEF SessType
<1>7. /\ f.obj \in Objects /\ f.todo \in 0..MaxIncludes /\ f.res_mode \in SUBSET Modes
      /\ f.obj # NoObj
  BY <1>3 DEF FrameType
<1> HIDE DEF x, s
<1>8. /\ frames' \in Seq(FrameType) /\ Len(frames') = Len(frames) - 1
      /\ \A i \in 1..Len(frames') : frames'[i] = frames[i]
  <2>1. frames' = SubSeq(frames, 1, Len(frames) - 1)
    BY <1>2 DEF esi_level
  <2> QED
    BY <1>3, <2>1, ButLast
<1>9. /\ frames' = <<>> => f = frames[1]
      /\ frames' # <<>> => frames'[1] = frames[1]
      /\ Len(frames') <= MaxEsiDepth
  <2>1. frames' = <<>> => Len(frames) = 1
    BY <1>3, <1>8, EmptySeq
  <2>2. frames' # <<>> => 1 \in 1..Len(frames')
    BY <1>3, <1>8, EmptySeq
  <2> QED
    BY <1>3, <1>8, <2>1, <2>2, CenterAssumption
<1>10. Told(frames[1].res_mode, frames[1].obj, sp.doclose)
  BY <1>3 DEF SessInv, FramedOK
<1>11. /\ \A i \in 1..Len(frames') : frames'[i].obj.oc = "busy" => hist'.spoiled
       /\ f.obj.oc = "busy" => hist'.spoiled
  <2>1. \A i \in 1..Len(frames) : frames[i].obj.oc = "busy" => hist.spoiled
    BY DEF SessInv, BusyOK
  <2>2. \A i \in 1..Len(frames') : i \in 1..Len(frames)
    BY <1>3, <1>8
  <2> QED
    BY <1>1, <1>3, <1>8, <2>1, <2>2
<1> HIDE DEF f
<1>12. sp' \in SessType
  BY <1>2, <1>5, <1>7 DEF SessType
<1>13. w' \in WorkerType
  BY <1>2, <1>4, <1>7 DEF WorkerType
<1>14. /\ sp'.at = "worker" /\ sp'.step = "WRITING" /\ sp'.obj = f.obj /\ sp'.vbc = sp.vbc
       /\ sp'.vcl /\ sp'.objcore = sp.objcore /\ sp'.doclose = sp.doclose
  BY <1>2, <1>5, <1>6 DEF SessType
<1>15. /\ FlagsClear(w') /\ w'.hcl = w.hcl /\ w'.hint = w.hint
       /\ w'.vfp = w.vfp /\ w'.do_close = w.do_close /\ w'.beresp = w.beresp
       /\ w'.bereq = w.bereq /\ w'.res_mode = f.res_mode
  BY <1>2, <1>4 DEF WorkerType, FlagsClear
<1> HIDE DEF f
<1>16. FreshOK(sp', frames', hist') /\ KeptOK(sp', frames', hist')
  BY <1>1, <1>3, <1>7, <1>9, <1>10, <1>11, <1>14, <1>15 DEF SessInv, FreshOK, KeptOK, Before, SessType, HistType
<1>17. RequestOK(sp', w', frames')
  BY <1>1, <1>3, <1>7, <1>9, <1>10, <1>11, <1>14, <1>15 DEF SessInv, FreshOK, RequestOK, Before, Chosen, Having, Fetching,
     Streaming, SessType, WorkerType, FlagsClear
<1>18. WorkerOK(sp', w', frames', hist')
  BY <1>1, <1>3, <1>7, <1>9, <1>10, <1>11, <1>14, <1>15 DEF SessInv, WorkerOK, Before, Chosen, Fetching, RequestOK,
     SessType, WorkerType, HistType, FlagsClear
<1>19. BusyOK(sp', w', frames', hist')
  BY <1>1, <1>3, <1>7, <1>9, <1>10, <1>11, <1>14, <1>15 DEF SessInv, FreshOK, BusyOK, RequestOK, Before, Chosen, Having, Fetching,
     SessType, WorkerType, HistType, FlagsClear
<1>20. FramedOK(sp', w', frames', hist')
  BY <1>1, <1>3, <1>7, <1>9, <1>10, <1>11, <1>14, <1>15 DEF SessInv, FreshOK, FramedOK, Before, SessType, WorkerType, HistType
<1>21. SessInv(sp', w', frames', hist')
  BY <1>16, <1>17, <1>18, <1>19, <1>20 DEF SessInv
<1> QED
  BY <1>1, <1>8, <1>9, <1>12, <1>13, <1>21, Assembled

\* cnt_done between two requests: what the next one finds.
LEMMA RequestEnded ==
  ASSUME CenterInv, cnt_done, ~(esi_level > 0)
  PROVE  CenterInv'
<1> USE Names, Given
<1> DEFINE x == ClearFlags(w)
           s == [sp EXCEPT !.director = FALSE, !.restarts = 0, !.xid = FALSE,
                           !.vcl = sp.vcl /\ esi_level > 0]
           vcl == x.vcl \/ (sp.vcl /\ esi_level = 0)
<1>1. sp.step = "DONE" /\ sp.at = "worker"
  BY DEF cnt_done, Step
<1>2. /\ w' = [x EXCEPT !.vcl = vcl, !.res_mode = {}]
      /\ UNCHANGED frames
      /\ IF s.doclose \/ ~s.fd
         THEN sp' = NewSess /\ UNCHANGED panic
         ELSE \E o \in HTC_Reinit :
                LET t == [s EXCEPT !.rx = o.rx]
                IN \/ /\ sp' = [t EXCEPT !.step = IF o.i = 1 THEN "START" ELSE "WAIT"]
                      /\ UNCHANGED panic
                   \/ /\ o.i = 0 /\ o.rx = 0
                      /\ ToWaiter(t)
      /\ hist' = [hist EXCEPT !.sent = "no", !.outofobjects = FALSE,
                              !.announced = "no"]
  BY DEF cnt_done
<1>3. frames = <<>>
  BY EmptySeq DEF esi_level
<1>4. /\ x \in WorkerType /\ FlagsClear(x) /\ x.hcl = w.hcl /\ x.hint = w.hint
      /\ x.vfp = w.vfp /\ x.do_close = w.do_close /\ x.beresp = w.beresp
      /\ x.bereq = w.bereq /\ x.resp = w.resp
  <2>1. /\ x \in WorkerType /\ FlagsClear(x)
        /\ x = [w EXCEPT !.do_esi = FALSE, !.do_gzip = FALSE,
                         !.do_gunzip = FALSE, !.do_stream = FALSE]
    BY Cleared
  <2> HIDE DEF x
  <2> QED
    BY <2>1 DEF WorkerType
<1>5. /\ s \in SessType /\ s.at = "worker" /\ s.objcore = sp.objcore /\ s.vbc = sp.vbc
      /\ ~s.vcl /\ ~s.xid /\ ~s.director /\ s.restarts = 0 /\ s.obj = sp.obj
      /\ s.step = "DONE" /\ s.doclose = sp.doclose
  BY <1>1, <1>3 DEF SessType
<1>6. vcl \in BOOLEAN
  OBVIOUS
<1> HIDE DEF x, s, vcl
<1>7. w' \in WorkerType
  BY <1>2, <1>4, <1>6 DEF WorkerType
<1>8. /\ FlagsClear(w') /\ w'.hcl = w.hcl /\ w'.hint = w.hint
      /\ w'.vfp = w.vfp /\ w'.do_close = w.do_close /\ w'.beresp = w.beresp
      /\ w'.bereq = w.bereq /\ w'.resp = w.resp
  BY <1>2, <1>4 DEF WorkerType, FlagsClear
<1>9. /\ hist' \in HistType /\ hist'.spoiled = hist.spoiled /\ ~hist'.outofobjects
      /\ hist'.announced = "no"
  BY <1>2 DEF HistType
<1>10. ~hist'.spoiled => /\ ~w'.hint /\ w'.vfp = Null /\ ~w'.hcl
                         /\ ~w'.do_close /\ ~w'.beresp /\ ~w'.bereq
                         /\ ~w'.resp /\ FlagsClear(w')
  BY <1>1, <1>3, <1>8, <1>9 DEF SessInv, WorkerOK, Fetching
<1>11. CASE s.doclose \/ ~s.fd
  BY <1>2, <1>3, <1>7, <1>9, <1>10, <1>11, Dropped
<1>12. CASE ~(s.doclose \/ ~s.fd)
  <2>1. PICK o \in HTC_Reinit :
          LET t == [s EXCEPT !.rx = o.rx]
          IN \/ /\ sp' = [t EXCEPT !.step = IF o.i = 1 THEN "START" ELSE "WAIT"]
                /\ UNCHANGED panic
             \/ /\ o.i = 0 /\ o.rx = 0
                /\ ToWaiter(t)
    BY <1>2, <1>12
  <2>2. o.i \in {0, 1} /\ o.rx \in 0..MaxBytes /\ o.rx < MaxBytes - 1
    BY Pipelined
  <2> DEFINE t == [s EXCEPT !.rx = o.rx]
  <2>3. /\ t \in SessType /\ t.at = "worker" /\ t.objcore = sp.objcore /\ t.vbc = sp.vbc
        /\ ~t.vcl /\ ~t.xid /\ ~t.director /\ t.restarts = 0 /\ t.obj = sp.obj
        /\ t.fd /\ t.rx < MaxBytes - 1 /\ t.step = "DONE"
    BY <1>5, <1>12, <2>2 DEF SessType
  <2>4. sp.obj = NoObj /\ ~sp.vbc
    BY <1>1 DEF SessInv, RequestOK, Having, Fetching, SessType
  <2>5. /\ \/ sp' = [t EXCEPT !.step = IF o.i = 1 THEN "START" ELSE "WAIT"]
           \/ sp' = [t EXCEPT !.at = "waiter"]
           \/ sp' = [t EXCEPT !.at = "lost", !.fd = FALSE]
        /\ UNCHANGED panic
    <3>1. CASE ToWaiter(t)
      BY <2>3, <2>4, <3>1, Returned
    <3> QED
      BY <2>1, <3>1
  <2> HIDE DEF t
  <2>6. PICK a \in {"worker", "waiter", "lost"}, f \in BOOLEAN, p \in {"START", "WAIT", "DONE"} :
          /\ sp' = [t EXCEPT !.at = a, !.fd = f, !.step = p]
          /\ a = "lost" \/ f
          /\ a = "worker" <=> p # "DONE"
    <3>1. CASE sp' = [t EXCEPT !.step = IF o.i = 1 THEN "START" ELSE "WAIT"]
      <4>1. PICK p \in {"START", "WAIT"} : sp' = [t EXCEPT !.step = p]
        <5>1. CASE o.i = 1
          BY <3>1, <5>1, Zenon
        <5>2. CASE o.i # 1
          BY <3>1, <5>2, Zenon
        <5> QED
          BY <5>1, <5>2
      <4>2. sp' = [t EXCEPT !.at = "worker", !.fd = TRUE, !.step = p]
        <5>1. t = [t EXCEPT !.at = "worker", !.fd = TRUE]
          BY <2>3, ZenonT(40) DEF SessType
        <5>2. [t EXCEPT !.step = p] = [t EXCEPT !.at = "worker", !.fd = TRUE, !.step = p]
          BY <5>1
        <5> QED
          BY <4>1, <5>2, Zenon
      <4> QED
        BY <4>2
    <3>2. CASE sp' = [t EXCEPT !.at = "waiter"]
      <4>1. sp' = [t EXCEPT !.at = "waiter", !.fd = TRUE, !.step = "DONE"]
        BY <2>3, <3>2 DEF SessType
      <4> QED
        BY <4>1
    <3>3. CASE sp' = [t EXCEPT !.at = "lost", !.fd = FALSE]
      <4>1. sp' = [t EXCEPT !.at = "lost", !.fd = FALSE, !.step = "DONE"]
        BY <2>3, <3>3 DEF SessType
      <4> QED
        BY <4>1
    <3> QED
      BY <2>5, <3>1, <3>2, <3>3
  <2>7. sp' \in SessType
    BY <2>3, <2>6, ZenonT(40) DEF SessType
  <2>8. /\ sp'.at = a /\ sp'.step = p /\ sp'.fd = f /\ sp'.obj = NoObj /\ ~sp'.vbc
        /\ ~sp'.vcl /\ ~sp'.xid /\ ~sp'.director /\ sp'.restarts = 0
        /\ sp'.objcore = sp.objcore /\ sp'.rx < MaxBytes - 1
    BY <2>3, <2>4, <2>6 DEF SessType
  <2>9. sp.objcore = Null
    BY <1>1, <1>3, <1>5, <1>12 DEF SessInv, BusyOK, SessType
  <2>10. FreshOK(sp', frames', hist') /\ KeptOK(sp', frames', hist')
    BY <1>1, <1>3, <1>2, <1>8, <1>9, <1>10, <2>6, <2>8, <2>9 DEF SessInv, FreshOK, KeptOK, Before, SessType, HistType
  <2>11. RequestOK(sp', w', frames')
    BY <1>1, <1>3, <1>2, <1>8, <1>9, <1>10, <2>6, <2>8, <2>9, ZenonT(40) DEF SessInv, FreshOK, RequestOK, Before, Chosen, Having, Fetching,
       Streaming, SessType, WorkerType, FlagsClear
  <2>12. WorkerOK(sp', w', frames', hist')
    BY <1>1, <1>3, <1>2, <1>8, <1>9, <1>10, <2>6, <2>8, <2>9 DEF SessInv, WorkerOK, Before, Chosen, Fetching, RequestOK,
       SessType, WorkerType, HistType, FlagsClear
  <2>13. BusyOK(sp', w', frames', hist')
    BY <1>1, <1>3, <1>2, <1>8, <1>9, <1>10, <2>6, <2>8, <2>9 DEF SessInv, FreshOK, BusyOK, RequestOK, Before, Chosen, Having, Fetching,
       SessType, WorkerType, HistType, FlagsClear
  <2>14. FramedOK(sp', w', frames', hist')
    BY <1>3, <1>2, <1>9, <2>8 DEF SessInv, FreshOK, FramedOK, Before, SessType, WorkerType, HistType
  <2>15. SessInv(sp', w', frames', hist')
    BY <2>10, <2>11, <2>12, <2>13, <2>14 DEF SessInv
  <2> QED
    BY <1>2, <1>3, <1>7, <1>9, <2>5, <2>7, <2>15, Assembled
<1> QED
  BY <1>11, <1>12

\* cnt_done
LEMMA EndKeeps == ASSUME CenterInv, cnt_done PROVE CenterInv'
BY IncludeEnds, RequestEnded

\* The steps find what they assert, unless an earlier one has spoiled it.
LEMMA AssertionsMet ==
  ASSUME CenterInv, sp.at = "worker", ~hist.spoiled
  PROVE  Asserted
<1> USE Names, Given
<1>1. CASE sp.step \in Before
  BY <1>1 DEF Asserted, SessInv, FreshOK, RequestOK, Before, Having
<1>2. CASE sp.step \in {"RECV", "DONE"}
  BY <1>2 DEF Asserted, SessInv, RequestOK, Before, Having, Fetching
<1>3. CASE sp.step \in Chosen
  <2>1. sp.vcl /\ sp.director /\ ~sp.vbc /\ FlagsClear(w)
    BY <1>3 DEF SessInv, RequestOK, Before, Chosen, Fetching
  <2>2. sp.obj # NoObj <=> sp.step = "HIT"
    BY <1>3 DEF SessInv, RequestOK, Chosen, Having
  <2>3. sp.step = "MISS" => sp.objcore # Null
    BY DEF SessInv, BusyOK, Null
  <2>4. /\ ~w.hcl /\ ~w.do_close /\ ~w.hint /\ ~w.beresp
        /\ sp.step = "HIT" => ~w.bereq
    BY <1>3 DEF SessInv, WorkerOK, Chosen, Fetching
  <2> QED
    BY <1>3, <2>1, <2>2, <2>3, <2>4 DEF Asserted, Chosen, FlagsClear
<1>4. CASE sp.step \in {"FETCHBODY", "FETCHBODY2", "STREAMBODY", "STREAMING", "PREPRESP"}
  <2>1. sp.vcl /\ (sp.step # "FETCHBODY" => sp.obj # NoObj)
    BY <1>4 DEF SessInv, RequestOK, Before, Having
  <2>2. sp.step \in {"FETCHBODY2", "STREAMING"} => sp.director /\ sp.vbc
    BY DEF SessInv, RequestOK, Fetching
  <2>3. sp.step # "PREPRESP" \/ w.do_stream => sp.obj.oc # "live"
    BY <1>4 DEF SessInv, BusyOK, Fetching
  <2>4. sp.step = "STREAMBODY" => sp.wantbody /\ "ESI_CHILD" \notin w.res_mode
    BY DEF SessInv, RequestOK, Streaming, FramedOK
  <2>5. sp.step = "FETCHBODY" => w.vfp = Null
    BY DEF SessInv, WorkerOK
  <2> QED
    BY <1>4, <2>1, <2>2, <2>3, <2>4, <2>5 DEF Asserted, AssertObjCorePassOrBusy
<1>5. CASE sp.step \in {"DELIVER", "WRITING", "ERROR"}
  BY <1>5 DEF Asserted
<1> QED
  BY <1>1, <1>2, <1>3, <1>4, <1>5 DEF SessType, Steps, Before, Chosen

LEMMA AssertFailsKeeps ==
  ASSUME CenterInv, AssertFails PROVE CenterInv'
BY AssertionsMet, Dead DEF AssertFails, Panic

\* A worker thread without a session: what wrk_thread_real asserts of it.
LEMMA Idle ==
  ASSUME CenterInv, sp.at # "worker"
  PROVE  /\ frames = <<>> /\ ~hist.outofobjects /\ ~Fetching(sp, w)
         /\ hist.announced = "no"
         /\ sp.step \in {"FIRST", "WAIT", "DONE", "LOOKUP"}
         /\ sp.obj = NoObj /\ ~sp.vbc
         /\ ~hist.spoiled => /\ ~w.hint /\ w.vfp = Null /\ ~w.hcl
                             /\ ~w.do_close /\ ~w.beresp /\ ~w.bereq
                             /\ ~w.resp /\ FlagsClear(w)
<1> USE Names, Given
<1>1. sp.at \in {"gone", "parked", "waiter", "lost"}
  BY DEF SessType
<1>2. frames = <<>> /\ sp.step \in {"FIRST", "WAIT", "DONE", "LOOKUP"}
  BY <1>1 DEF SessInv, FreshOK
<1>3. ~Fetching(sp, w) /\ sp.obj = NoObj /\ ~sp.vbc
  BY <1>2 DEF SessInv, RequestOK, Having, Fetching
<1>4. ~hist.outofobjects
  BY <1>1, <1>2 DEF SessInv, FreshOK, BusyOK
<1>5. ~hist.spoiled => /\ ~w.hint /\ w.vfp = Null /\ ~w.hcl
                       /\ ~w.do_close /\ ~w.beresp /\ ~w.bereq
                       /\ ~w.resp /\ FlagsClear(w)
  BY <1>2, <1>3 DEF SessInv, WorkerOK
<1>6. hist.announced = "no"
  BY <1>2 DEF SessInv, FramedOK
<1> QED
  BY <1>2, <1>3, <1>4, <1>5, <1>6

\* wrk_thread_real
LEMMA ThreadKeeps ==
  ASSUME CenterInv, wrk_thread_real PROVE CenterInv'
<1> USE Names, Given
<1> DEFINE dirty == w.bereq \/ w.beresp \/ w.resp \/ w.hint \/ ~FlagsClear(w)
<1>1. /\ sp.at # "worker"
      /\ IF dirty THEN Panic("assert")
         ELSE w' = [w EXCEPT !.run = FALSE] /\ UNCHANGED <<sp, frames, panic, hist>>
  BY DEF wrk_thread_real
<1>2. CASE dirty
  <2>1. hist.spoiled
    BY <1>1, <1>2, Idle
  <2> QED
    BY <1>1, <1>2, <2>1, Dead DEF Panic
<1>3. CASE ~dirty
  <2>1. w' = [w EXCEPT !.run = FALSE] /\ UNCHANGED <<sp, frames, panic, hist>>
    BY <1>1, <1>3
  <2> HIDE DEF dirty
  <2>2. w' \in WorkerType
    BY <2>1 DEF WorkerType
  <2>3. /\ w'.do_stream = w.do_stream /\ w'.do_esi = w.do_esi
        /\ w'.do_gzip = w.do_gzip /\ w'.do_gunzip = w.do_gunzip
        /\ w'.hcl = w.hcl /\ w'.hint = w.hint /\ w'.vfp = w.vfp
        /\ w'.do_close = w.do_close /\ w'.beresp = w.beresp
        /\ w'.bereq = w.bereq /\ w'.resp = w.resp /\ w'.res_mode = w.res_mode
    BY <2>1 DEF WorkerType
  <2>4. FreshOK(sp', frames', hist') /\ KeptOK(sp', frames', hist')
    BY <2>1, <2>3 DEF SessInv, FreshOK, KeptOK, Before, SessType, HistType
  <2>5. RequestOK(sp', w', frames')
    BY <2>1, <2>3 DEF SessInv, FreshOK, RequestOK, Before, Chosen, Having, Fetching,
       Streaming, SessType, WorkerType, FlagsClear
  <2>6. WorkerOK(sp', w', frames', hist')
    BY <2>1, <2>3 DEF SessInv, WorkerOK, Before, Chosen, Fetching, RequestOK,
       SessType, WorkerType, HistType, FlagsClear
  <2>7. BusyOK(sp', w', frames', hist')
    BY <2>1, <2>3 DEF SessInv, FreshOK, BusyOK, RequestOK, Before, Chosen, Having, Fetching,
       SessType, WorkerType, HistType, FlagsClear
  <2>8. FramedOK(sp', w', frames', hist')
    BY <2>1, <2>3 DEF SessInv, FreshOK, FramedOK, Before, SessType, WorkerType, HistType
  <2>9. SessInv(sp', w', frames', hist')
    BY <2>4, <2>5, <2>6, <2>7, <2>8 DEF SessInv
  <2> QED
    BY <2>1, <2>2, <2>9, Assembled
<1> QED
  BY <1>2, <1>3

\* wrk_do_cnt_sess: the worker as the session finds it.
LEMMA Taken ==
  ASSUME CenterInv, NEW s, wrk_do_cnt_sess(s)
  PROVE  /\ sp' = [s EXCEPT !.at = "worker"] /\ UNCHANGED <<frames, panic, hist>>
         /\ w' \in WorkerType /\ ~w'.hint
         /\ w'.do_stream = w.do_stream /\ w'.do_esi = w.do_esi
         /\ w'.do_gzip = w.do_gzip /\ w'.do_gunzip = w.do_gunzip
         /\ w'.hcl = w.hcl /\ w'.vfp = w.vfp
         /\ w'.do_close = w.do_close /\ w'.beresp = w.beresp
         /\ w'.bereq = w.bereq /\ w'.resp = w.resp
<1>1. /\ sp' = [s EXCEPT !.at = "worker"] /\ UNCHANGED <<frames, panic, hist>>
      /\ w' = [w EXCEPT !.run = TRUE, !.hint = FALSE]
  BY DEF wrk_do_cnt_sess
<1> QED
  BY <1>1, Given DEF WorkerType

\* vca_acct
LEMMA AcceptedKeeps == ASSUME CenterInv, SessionAccepted PROVE CenterInv'
<1> USE Names, Given
<1> DEFINE s == [NewSess EXCEPT !.fd = TRUE]
<1>1. sp.at # "worker" /\ wrk_do_cnt_sess(s)
  BY DEF SessionAccepted
<1>2. /\ s \in SessType /\ s.fd /\ s.step = "FIRST" /\ s.obj = NoObj /\ ~s.vbc /\ ~s.vcl
      /\ ~s.xid /\ s.objcore = Null /\ ~s.director /\ s.restarts = 0
  BY DEF SessType, NewSess
<1> HIDE DEF s
<1>3. /\ sp' = [s EXCEPT !.at = "worker"] /\ UNCHANGED <<frames, panic, hist>>
      /\ w' \in WorkerType /\ ~w'.hint
      /\ w'.do_stream = w.do_stream /\ w'.do_esi = w.do_esi
      /\ w'.do_gzip = w.do_gzip /\ w'.do_gunzip = w.do_gunzip
      /\ w'.hcl = w.hcl /\ w'.vfp = w.vfp
      /\ w'.do_close = w.do_close /\ w'.beresp = w.beresp
      /\ w'.bereq = w.bereq /\ w'.resp = w.resp
  BY <1>1, Taken
<1>4. /\ sp' \in SessType /\ sp'.at = "worker" /\ sp'.fd /\ sp'.step = "FIRST"
      /\ sp'.obj = NoObj /\ ~sp'.vbc /\ ~sp'.vcl
      /\ ~sp'.xid /\ sp'.objcore = Null /\ ~sp'.director /\ sp'.restarts = 0
  BY <1>2, <1>3 DEF SessType
<1>5. FreshOK(sp', frames', hist') /\ KeptOK(sp', frames', hist')
  BY <1>1, <1>3, <1>4, Idle DEF SessInv, FreshOK, KeptOK, Before, SessType, HistType
<1>6. RequestOK(sp', w', frames')
  BY <1>1, <1>3, <1>4, Idle DEF SessInv, FreshOK, RequestOK, Before, Chosen, Having, Fetching,
     Streaming, SessType, WorkerType, FlagsClear
<1>7. WorkerOK(sp', w', frames', hist')
  BY <1>1, <1>3, <1>4, Idle DEF SessInv, WorkerOK, Before, Chosen, Fetching, RequestOK,
     SessType, WorkerType, HistType, FlagsClear
<1>8. BusyOK(sp', w', frames', hist')
  BY <1>1, <1>3, <1>4, Idle DEF SessInv, FreshOK, BusyOK, RequestOK, Before, Chosen, Having, Fetching,
     SessType, WorkerType, HistType, FlagsClear
<1>9. FramedOK(sp', w', frames', hist')
  BY <1>1, <1>3, <1>4, Idle DEF SessInv, FreshOK, FramedOK, Before, SessType, WorkerType, HistType
<1>10. SessInv(sp', w', frames', hist')
  BY <1>5, <1>6, <1>7, <1>8, <1>9 DEF SessInv
<1> QED
  BY <1>3, <1>4, <1>10, Assembled

\* hsh_rush
LEMMA RushKeeps == ASSUME CenterInv, hsh_rush PROVE CenterInv'
<1> USE Names, Given
<1>1. sp.at = "parked" /\ wrk_do_cnt_sess(sp)
  BY DEF hsh_rush
<1>2. /\ sp' = [sp EXCEPT !.at = "worker"] /\ UNCHANGED <<frames, panic, hist>>
      /\ w' \in WorkerType /\ ~w'.hint
      /\ w'.do_stream = w.do_stream /\ w'.do_esi = w.do_esi
      /\ w'.do_gzip = w.do_gzip /\ w'.do_gunzip = w.do_gunzip
      /\ w'.hcl = w.hcl /\ w'.vfp = w.vfp
      /\ w'.do_close = w.do_close /\ w'.beresp = w.beresp
      /\ w'.bereq = w.bereq /\ w'.resp = w.resp
  BY <1>1, Taken
<1>3. sp' \in SessType /\ sp.step = "LOOKUP" /\ frames = <<>>
  BY <1>1, <1>2 DEF SessType, SessInv, FreshOK
<1>4. FreshOK(sp', frames', hist') /\ KeptOK(sp', frames', hist')
  BY <1>1, <1>2, <1>3 DEF SessInv, FreshOK, KeptOK, Before, SessType, HistType
<1>5. RequestOK(sp', w', frames')
  BY <1>1, <1>2, <1>3 DEF SessInv, FreshOK, RequestOK, Before, Chosen, Having, Fetching,
     Streaming, SessType, WorkerType, FlagsClear
<1>6. WorkerOK(sp', w', frames', hist')
  BY <1>1, <1>2, <1>3 DEF SessInv, WorkerOK, Before, Chosen, Fetching, RequestOK,
     SessType, WorkerType, HistType, FlagsClear
<1>7. BusyOK(sp', w', frames', hist')
  BY <1>1, <1>2, <1>3 DEF SessInv, FreshOK, BusyOK, RequestOK, Before, Chosen, Having, Fetching,
     SessType, WorkerType, HistType, FlagsClear
<1>8. FramedOK(sp', w', frames', hist')
  BY <1>1, <1>2, <1>3 DEF SessInv, FreshOK, FramedOK, Before, SessType, WorkerType, HistType
<1>9. SessInv(sp', w', frames', hist')
  BY <1>4, <1>5, <1>6, <1>7, <1>8 DEF SessInv
<1> QED
  BY <1>2, <1>3, <1>9, Assembled

\* vca_handover
LEMMA HandedOverKeeps == ASSUME CenterInv, WaiterHandsOver PROVE CenterInv'
<1> USE Names, Given
<1>1. sp.at = "waiter" /\ sp.rx \in 0..MaxBytes
  BY DEF WaiterHandsOver, SessType
<1>2. CASE sp' = NewSess /\ UNCHANGED <<w, frames, panic, hist>>
  BY <1>1, <1>2, Idle, Dropped
<1>3. CASE \E o \in HTC_Rx(sp.rx) :
             /\ o.i # 1
             /\ sp' = IF o.i = 0 THEN [sp EXCEPT !.rx = o.rx] ELSE NewSess
             /\ UNCHANGED <<w, frames, panic, hist>>
  <2>1. PICK o \in HTC_Rx(sp.rx) :
             /\ o.i # 1
             /\ sp' = IF o.i = 0 THEN [sp EXCEPT !.rx = o.rx] ELSE NewSess
             /\ UNCHANGED <<w, frames, panic, hist>>
    BY <1>3
  <2>2. CASE o.i = 0
    <3>1. sp' = [sp EXCEPT !.rx = o.rx] /\ UNCHANGED <<w, frames, panic, hist>>
      BY <2>1, <2>2
    <3>2. sp' \in SessType
      BY <1>1, <3>1, Received DEF SessType
    <3>3. /\ sp'.at = sp.at /\ sp'.step = sp.step /\ sp'.fd = sp.fd /\ sp'.vcl = sp.vcl
          /\ sp'.xid = sp.xid /\ sp'.objcore = sp.objcore /\ sp'.obj = sp.obj
          /\ sp'.vbc = sp.vbc /\ sp'.director = sp.director /\ sp'.restarts = sp.restarts
          /\ sp'.doclose = sp.doclose /\ sp'.wantbody = sp.wantbody /\ sp'.todo = sp.todo
      BY <3>1 DEF SessType
    <3>4. UNCHANGED <<w, frames, panic, hist>>
      BY <3>1
    <3>5. FreshOK(sp', frames', hist') /\ KeptOK(sp', frames', hist')
      BY <1>1, <3>3, <3>4, Idle DEF SessInv, FreshOK, KeptOK, Before, SessType, HistType
    <3>6. RequestOK(sp', w', frames')
      BY <1>1, <3>3, <3>4, Idle DEF SessInv, FreshOK, RequestOK, Before, Chosen, Having, Fetching,
         Streaming, SessType, WorkerType, FlagsClear
    <3>7. WorkerOK(sp', w', frames', hist')
      BY <1>1, <3>3, <3>4, Idle DEF SessInv, WorkerOK, Before, Chosen, Fetching, RequestOK,
         SessType, WorkerType, HistType, FlagsClear
    <3>8. BusyOK(sp', w', frames', hist')
      BY <1>1, <3>3, <3>4, Idle DEF SessInv, FreshOK, BusyOK, RequestOK, Before, Chosen, Having, Fetching,
         SessType, WorkerType, HistType, FlagsClear
    <3>9. FramedOK(sp', w', frames', hist')
      BY <1>1, <3>3, <3>4, Idle DEF SessInv, FreshOK, FramedOK, Before, SessType, WorkerType, HistType
    <3>10. SessInv(sp', w', frames', hist')
      BY <3>5, <3>6, <3>7, <3>8, <3>9 DEF SessInv
    <3> QED
      BY <3>1, <3>2, <3>10, Assembled
  <2>3. CASE o.i # 0
    BY <1>1, <2>1, <2>3, Idle, Dropped
  <2> QED
    BY <2>2, <2>3
<1>4. CASE wrk_do_cnt_sess([sp EXCEPT !.step = "START", !.rx = 0])
  <2> DEFINE s == [sp EXCEPT !.step = "START", !.rx = 0]
  <2>1. /\ s \in SessType /\ s.step = "START" /\ s.vcl = sp.vcl /\ s.xid = sp.xid
        /\ s.objcore = sp.objcore /\ s.obj = sp.obj /\ s.vbc = sp.vbc
        /\ s.director = sp.director /\ s.restarts = sp.restarts
    BY DEF SessType
  <2> HIDE DEF s
  <2>2. /\ sp' = [s EXCEPT !.at = "worker"] /\ UNCHANGED <<frames, panic, hist>>
        /\ w' \in WorkerType /\ ~w'.hint
        /\ w'.do_stream = w.do_stream /\ w'.do_esi = w.do_esi
        /\ w'.do_gzip = w.do_gzip /\ w'.do_gunzip = w.do_gunzip
        /\ w'.hcl = w.hcl /\ w'.vfp = w.vfp
        /\ w'.do_close = w.do_close /\ w'.beresp = w.beresp
        /\ w'.bereq = w.bereq /\ w'.resp = w.resp
    BY <1>4, Taken DEF s
  <2>3. /\ sp' \in SessType /\ sp'.at = "worker" /\ sp'.step = "START" /\ sp'.obj = NoObj
        /\ ~sp'.vbc /\ sp'.vcl = sp.vcl /\ sp'.xid = sp.xid /\ sp'.objcore = sp.objcore
        /\ sp'.director = sp.director /\ sp'.restarts = sp.restarts
    BY <1>1, <2>1, <2>2, Idle DEF SessType
  <2>4. FreshOK(sp', frames', hist') /\ KeptOK(sp', frames', hist')
    BY <1>1, <2>2, <2>3, Idle DEF SessInv, FreshOK, KeptOK, Before, SessType, HistType
  <2>5. RequestOK(sp', w', frames')
    BY <1>1, <2>2, <2>3, Idle DEF SessInv, FreshOK, RequestOK, Before, Chosen, Having, Fetching,
       Streaming, SessType, WorkerType, FlagsClear
  <2>6. WorkerOK(sp', w', frames', hist')
    BY <1>1, <2>2, <2>3, Idle DEF SessInv, WorkerOK, Before, Chosen, Fetching, RequestOK,
       SessType, WorkerType, HistType, FlagsClear
  <2>7. BusyOK(sp', w', frames', hist')
    BY <1>1, <2>2, <2>3, Idle DEF SessInv, FreshOK, BusyOK, RequestOK, Before, Chosen, Having, Fetching,
       SessType, WorkerType, HistType, FlagsClear
  <2>8. FramedOK(sp', w', frames', hist')
    BY <1>1, <2>2, <2>3, Idle DEF SessInv, FreshOK, FramedOK, Before, SessType, WorkerType, HistType
  <2>9. SessInv(sp', w', frames', hist')
    BY <2>4, <2>5, <2>6, <2>7, <2>8 DEF SessInv
  <2> QED
    BY <2>2, <2>3, <2>9, Assembled
<1> QED
  BY <1>2, <1>3, <1>4 DEF WaiterHandsOver

LEMMA CenterBegins == ASSUME Init PROVE CenterInv
BY NewChild DEF Init, CenterInv, Fields

\* mgt_restart
LEMMA RestartKeeps == ASSUME mgt_restart PROVE CenterInv'
BY NewChild DEF mgt_restart, CenterInv, Fields

\* Every step of the engine, and of what is around it.
LEMMA CenterStep ==
  ASSUME CenterInv, [Next]_vars
  PROVE  CenterInv'
<1>1. CASE Engine
  BY <1>1, FirstKeeps, WaitKeeps, StartKeeps, RecvKeeps, LookupKeeps, HitKeeps, MissKeeps,
     PassKeeps, PipeKeeps, FetchKeeps, FetchbodyKeeps, Fetchbody2Keeps, StreamStartKeeps, StreambodyKeeps,
     ErrorKeeps, PreprespKeeps, DeliverKeeps, IncludeKeeps, WrittenKeeps, EndKeeps
     DEF Engine
<1>2. CASE AssertFails \/ wrk_thread_real \/ SessionAccepted \/ hsh_rush
           \/ WaiterHandsOver \/ mgt_restart
  BY <1>2, AssertFailsKeeps, ThreadKeeps, AcceptedKeeps, RushKeeps, HandedOverKeeps, RestartKeeps
<1>3. CASE UNCHANGED vars
  BY <1>3 DEF vars, CenterInv, Fields
<1> QED
  BY <1>1, <1>2, <1>3 DEF Next

LEMMA CenterInvariant == Spec => []CenterInv
<1>1. Init => CenterInv
  BY CenterBegins
<1>2. CenterInv /\ [Next]_vars => CenterInv'
  BY CenterStep
<1> QED
  BY <1>1, <1>2, PTL DEF Spec

\* No step of the engine is entered in a state it does not expect, and the
\* next work item finds the worker as wrk_thread_real asserts, but for the two
\* paths that leave vfp and storage_hint set; and cnt_wait has room to receive
\* more: for every max_restarts, max_esi_depth and http_req_size.
THEOREM EngineCorrect == Spec => []EngineSound
<1>1. CenterInv => EngineSound
  <2> SUFFICES ASSUME CenterInv PROVE EngineSound
    OBVIOUS
  <2>1. TypeOK
    BY Given DEF CenterInv, Fields, TypeOK, SessType, WorkerType, Modes, esi_level
  <2>2. AssertionsHold
    BY DEF CenterInv, AssertionsHold
  <2>3. WaitHasRoom
    BY Given DEF SessInv, FreshOK, WaitHasRoom
  <2> QED
    BY <2>1, <2>2, <2>3 DEF EngineSound
<1> QED
  BY <1>1, CenterInvariant, PTL

\* A busy objcore and a backend connection are held from the miss, and from the
\* answer of the backend, to the end of the body and no longer (cnt_miss,
\* cnt_fetch, cnt_fetchbody, cnt_error).
THEOREM FetchCorrect == Spec => []FetchSound
<1>1. CenterInv => FetchSound
  <2> SUFFICES ASSUME CenterInv PROVE FetchSound
    OBVIOUS
  <2>1. ObjcoreOnlyInFetch
    BY Given DEF SessInv, BusyOK, ObjcoreOnlyInFetch
  <2>2. sp.vbc => Fetching(sp, w) /\ sp.director
    BY Given DEF SessInv, RequestOK
  <2>3. /\ sp.obj.oc = "busy" => Fetching(sp, w) \/ hist.spoiled
        /\ \A i \in 1..Len(frames) : frames[i].obj.oc = "busy" => hist.spoiled
    BY Given DEF SessInv, BusyOK
  <2>4. DOMAIN frames = 1..Len(frames)
    BY Given
  <2>5. sp.step = "FETCHBODY" => sp.obj.oc # "busy"
    BY Given, Names DEF SessInv, RequestOK, Having
  <2> QED
    BY <2>1, <2>2, <2>3, <2>4, <2>5 DEF FetchSound, FetchInProgress, Fetching
<1> QED
  BY <1>1, CenterInvariant, PTL

\* The instance counts as FiniteSets does.
LEMMA SameSize == ASSUME NEW S PROVE Cardinality(S) = Cardinality(S)
BY DEF Cardinality, Cardinality

\* Whatever VCL, the backend and the includes do, the client can tell where
\* the body ends: one of length, chunks and close is chosen, the length that
\* was announced goes with it, and it is the length of what is sent, except
\* that RES_StreamStart may announce a wrong one before a close (cnt_prepresp,
\* RES_WriteObj, RES_StreamStart, ved_include).
THEOREM FramingCorrect == Spec => []FramingSound
<1>1. CenterInv => FramingSound
  <2> SUFFICES ASSUME CenterInv, Responding
               PROVE  /\ Cardinality(w.res_mode \cap {"LEN", "CHUNKED", "EOF"}) = 1
                      /\ "EOF" \in w.res_mode => sp.doclose
                      /\ "CHUNKED" \in w.res_mode => hist.announced = "no"
                      /\ "LEN" \in w.res_mode =>
                           \/ hist.announced # "no"
                           \/ sp.step \in {"DELIVER", "STREAMBODY"}
                           \/ sp.obj.empty /\ ~w.do_stream
                      /\ LengthChanged => w.do_stream /\ "EOF" \in w.res_mode
                      /\ "ESI_CHILD" \notin w.res_mode
    BY DEF FramingSound
  <2>0. sp.wantbody /\ sp.step \in {"DELIVER", "WRITING", "STREAMBODY", "STREAMING"}
    BY DEF Responding
  <2>1. frames = <<>>
    BY Given, EmptySeq DEF Responding, esi_level
  <2>2. /\ Told(w.res_mode, sp.obj, sp.doclose)
        /\ sp.step = "WRITING" => Sent(w.res_mode, sp.obj, hist)
        /\ sp.step \in {"STREAMBODY", "STREAMING"} /\ "LEN" \in w.res_mode =>
             ~w.do_gzip /\ ~w.do_gunzip /\ w.res_mode = {"LEN"}
        /\ sp.step = "STREAMING" => /\ hist.announced # "object"
                                    /\ "CHUNKED" \in w.res_mode => hist.announced = "no"
                                    /\ "LEN" \in w.res_mode => hist.announced = "backend"
        /\ sp.step \in {"DELIVER", "STREAMBODY"} => hist.announced = "no"
    BY <2>0, <2>1, Given DEF SessInv, FramedOK
  <2>3. PICK m \in {"LEN", "CHUNKED", "EOF"} :
          w.res_mode \cap {"LEN", "CHUNKED", "EOF"} = {m}
    BY <2>2 DEF Told
  <2>4. Cardinality(w.res_mode \cap {"LEN", "CHUNKED", "EOF"}) = 1
    BY <2>3, FS_Singleton
  <2>5. w.do_stream <=> sp.step \in {"STREAMBODY", "STREAMING"}
    BY <2>0, Given DEF SessInv, RequestOK, WorkerType
  <2>6. hist.announced \in {"no", "object", "backend"}
    BY Given DEF HistType
  <2>7. "CHUNKED" \in w.res_mode => hist.announced = "no"
    BY <2>0, <2>2, <2>3, <2>6 DEF Sent
  <2>8. "LEN" \in w.res_mode =>
          \/ hist.announced # "no"
          \/ sp.step \in {"DELIVER", "STREAMBODY"}
          \/ sp.obj.empty /\ ~w.do_stream
    BY <2>0, <2>2, <2>5 DEF Sent
  <2>9. LengthChanged => w.do_stream /\ "EOF" \in w.res_mode
    <3>1. CASE hist.announced = "object"
      <4>1. sp.step = "WRITING" /\ "LEN" \in w.res_mode
        BY <2>0, <2>2, <3>1 DEF Sent
      <4> QED
        BY <2>2, <3>1, <4>1 DEF LengthChanged, Told
    <3>2. CASE hist.announced = "backend"
      <4>1. sp.step = "STREAMING" /\ "CHUNKED" \notin w.res_mode
        BY <2>0, <2>2, <3>2 DEF Sent
      <4>2. "LEN" \in w.res_mode => ~LengthChanged
        BY <2>2, <3>2, <4>1 DEF LengthChanged
      <4> QED
        BY <2>3, <2>5, <4>1, <4>2
    <3> QED
      BY <2>6, <3>1, <3>2 DEF LengthChanged
  <2> QED
    BY <2>2, <2>4, <2>7, <2>8, <2>9, SameSize DEF Told
<1> QED
  BY <1>1, CenterInvariant, PTL

\* A connection is kept for another request only after a whole response, or
\* after a pipe that had no backend (cnt_done).
THEOREM ReuseCorrect == Spec => ReuseAfterResponse
<1> DEFINE Kept == (sp.at = "worker" /\ sp.step = "DONE" /\ esi_level = 0 /\ sp'.fd) =>
                     hist.sent \in {"whole", "nopipe"}
<1>1. CenterInv /\ [Next]_vars => [Kept]_vars
  <2> SUFFICES ASSUME CenterInv, Next, sp.at = "worker", sp.step = "DONE",
                      esi_level = 0, sp'.fd
               PROVE  hist.sent \in {"whole", "nopipe"}
    OBVIOUS
  <2>1. frames = <<>>
    BY Given, EmptySeq DEF esi_level
  <2>2. ~AssertFails
    <3>1. sp.obj = NoObj /\ ~sp.vbc
      BY Given, Names DEF SessInv, RequestOK, Having, Fetching
    <3>2. Asserted
      BY <3>1 DEF Asserted
    <3> QED
      BY <3>2 DEF AssertFails
  <2>3. ~mgt_restart
    BY DEF mgt_restart, NewSess
  <2>4. ~(wrk_thread_real \/ SessionAccepted \/ hsh_rush \/ WaiterHandsOver)
    BY DEF wrk_thread_real, SessionAccepted, hsh_rush, WaiterHandsOver
  <2>5. Engine => cnt_done
    <3>1. ~(cnt_first \/ cnt_wait \/ cnt_start \/ cnt_recv \/ cnt_lookup)
      BY DEF cnt_first, cnt_wait, cnt_start, cnt_recv, cnt_lookup, Step
    <3>2. ~(cnt_hit \/ cnt_miss \/ cnt_pass \/ cnt_pipe \/ cnt_fetch)
      BY DEF cnt_hit, cnt_miss, cnt_pass, cnt_pipe, cnt_fetch, Step
    <3>3. ~(cnt_fetchbody \/ cnt_fetchbody2 \/ RES_StreamStart \/ cnt_streambody
            \/ cnt_error)
      BY DEF cnt_fetchbody, cnt_fetchbody2, RES_StreamStart, cnt_streambody, cnt_error, Step
    <3>4. ~(cnt_prepresp \/ cnt_deliver \/ ved_include \/ cnt_deliver_end)
      BY DEF cnt_prepresp, cnt_deliver, ved_include, cnt_deliver_end, Step
    <3> QED
      BY <3>1, <3>2, <3>3, <3>4 DEF Engine
  <2>6. cnt_done
    BY <2>2, <2>3, <2>4, <2>5 DEF Next
  <2>7. sp.fd /\ ~sp.doclose
    <3>1. sp.doclose \/ ~sp.fd => sp' = NewSess
      <4> DEFINE s == [sp EXCEPT !.director = FALSE, !.restarts = 0, !.xid = FALSE,
                                 !.vcl = sp.vcl /\ esi_level > 0]
      <4>0. ~(esi_level > 0)
        OBVIOUS
      <4>1. IF s.doclose \/ ~s.fd
            THEN sp' = NewSess /\ UNCHANGED panic
            ELSE \E o \in HTC_Reinit :
                   LET t == [s EXCEPT !.rx = o.rx]
                   IN \/ /\ sp' = [t EXCEPT !.step = IF o.i = 1 THEN "START" ELSE "WAIT"]
                         /\ UNCHANGED panic
                      \/ /\ o.i = 0 /\ o.rx = 0
                         /\ ToWaiter(t)
        BY <2>6, <4>0 DEF cnt_done
      <4>2. s.doclose = sp.doclose /\ s.fd = sp.fd
        BY Given DEF SessType
      <4> QED
        BY <4>1, <4>2
    <3>2. ~NewSess.fd
      BY DEF NewSess
    <3> QED
      BY <3>1, <3>2
  <2> QED
    BY <2>1, <2>7, Given DEF SessInv, KeptOK
<1> QED
  BY <1>1, CenterInvariant, PTL DEF Spec, ReuseAfterResponse
=============================================================================
