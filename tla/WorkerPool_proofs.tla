-------------------------- MODULE WorkerPool_proofs --------------------------
(***************************************************************************)
(* That the worker pools lose neither a request nor a thread, for any      *)
(* number of pools, threads, requests and callers of WRK_Queue.            *)
(***************************************************************************)
EXTENDS WorkerPool, FiniteSetTheorems, TLAPS

\* What RequestInOnePlace says of the places, without counting: no two places
\* hold the same request ...
OneHolder ==
  /\ \A r \in Request, c, d \in Caller : Holding(c, r) /\ Holding(d, r) => c = d
  /\ \A v, w \in Worker : wrq[v] = wrq[w] /\ wrq[v] # NoRequest => v = w
  /\ \A p, q \in Pool : \A i \in DOMAIN queue[p], k \in DOMAIN queue[q] :
       queue[p][i] = queue[q][k] => p = q /\ i = k
  /\ \A r \in Request, c \in Caller, w \in Worker : ~(Holding(c, r) /\ wrq[w] = r)
  /\ \A r \in Request, c \in Caller, p \in Pool : \A i \in DOMAIN queue[p] :
       ~(Holding(c, r) /\ queue[p][i] = r)
  /\ \A w \in Worker, p \in Pool : \A i \in DOMAIN queue[p] : wrq[w] # queue[p][i]

\* ... and a request is in some place as long as it is pending.
Held(r) ==
  \/ \E c \in Caller : Holding(c, r)
  \/ \E w \in Worker : wrq[w] = r
  \/ \E p \in Pool : \E i \in DOMAIN queue[p] : queue[p][i] = r
Kept == \A r \in Request : r \in pending <=> Held(r)

\* What WaiterHasOneWaker says, without counting.
Handles(c, w) == caller[c].pc \in {"hand", "signal"} /\ caller[c].w = w
OneWaker ==
  /\ \A p, q \in Pool : \A i \in DOMAIN idle[p], k \in DOMAIN idle[q] :
       idle[p][i] = idle[q][k] => p = q /\ i = k
  /\ \A w \in Worker, c, d \in Caller : Handles(c, w) /\ Handles(d, w) => c = d
  /\ \A p \in Pool : \A i \in DOMAIN idle[p] :
       /\ wpool[idle[p][i]] = p
       /\ ~Kissed(idle[p][i])
       /\ \A c \in Caller : ~Handles(c, idle[p][i])
  /\ \A w \in Worker, c \in Caller : ~(Handles(c, w) /\ Kissed(w))

Waited(w) ==
  \/ Kissed(w)
  \/ \E c \in Caller : Handles(c, w)
  \/ \E p \in Pool : \E i \in DOMAIN idle[p] : idle[p][i] = w
Waits == \A w \in Worker : wpc[w] = "wait" <=> Waited(w)

\* When a thread has a request.
WrqOK ==
  /\ \A w \in Worker : wrq[w] # NoRequest =>
       \/ wpc[w] \in {"run", "woken"}
       \/ \E c \in Caller : caller[c].pc = "signal" /\ caller[c].w = w
  /\ \A c \in Caller :
       /\ caller[c].pc \in {"hand", "signal"} => caller[c].w \in Worker
       /\ caller[c].pc \in {"lock", "hand"} => caller[c].req \in Request
       /\ caller[c].pc = "signal" => wrq[caller[c].w] # NoRequest

\* The loops of the herding threads stay inside the pools.
HerdOK ==
  /\ herder.fill => herder.w \in Pool
  /\ herder.pc = "fill" => ~herder.fill
  /\ timer.pc \in {"kiss", "sleep"} => timer.u < nwq
  /\ timer.pc = "kiss" => timer.w \in Worker

\* The threads of a pool, those that do not count themselves yet included.
Top == IF wthread_max < wthread_min THEN wthread_min ELSE wthread_max
Threads(p) == {w \in Worker : wpool[w] = p /\ wpc[w] # "free"}
MaxInv ==
  /\ nthr_max \in {0, Top}
  /\ TimelyStart => /\ \A p \in Pool : Cardinality(Threads(p)) <= Top
                    /\ Starting => herder.pc = "slept"

PoolInv ==
  /\ TypeOK /\ OneHolder /\ Kept /\ OneWaker /\ Waits /\ WrqOK /\ QueuedOnlyIfBusy
  /\ HerdOK /\ MaxInv

\* At most one thread is on its way out, of a pool that can spare it.
Retiring(w) == Kissed(w) \/ (wpc[w] = "woken" /\ wrq[w] = NoRequest)
MinInv ==
  TimelyExit =>
    /\ \A w \in Worker : Retiring(w) => nthr(wpool[w]) > wthread_min
    /\ \A v, w \in Worker : Retiring(v) /\ Retiring(w) => v = w
    /\ Leaving => timer.pc = "sleep"

-----------------------------------------------------------------------------
(* Lists.                                                                  *)

\* VTAILQ_REMOVE of the first element.
LEMMA TailOK ==
  ASSUME NEW S, NEW q \in Seq(S), q # <<>>
  PROVE  /\ Head(q) \in S /\ Tail(q) \in Seq(S)
         /\ 1 \in DOMAIN q /\ q[1] = Head(q)
         /\ \A i \in DOMAIN Tail(q) : /\ i \in Nat /\ i + 1 \in DOMAIN q /\ i + 1 # 1
                                      /\ Tail(q)[i] = q[i + 1]
         /\ \A i \in DOMAIN q : i # 1 => /\ i \in Nat /\ i - 1 \in DOMAIN Tail(q)
                                         /\ Tail(q)[i - 1] = q[i]
<1>1. Len(q) \in Nat /\ Len(q) > 0 /\ DOMAIN q = 1 .. Len(q) /\ Head(q) = q[1]
  OBVIOUS
<1>2. Tail(q) \in Seq(S) /\ Len(Tail(q)) = Len(q) - 1 /\ DOMAIN Tail(q) = 1 .. Len(q) - 1
  BY <1>1
<1>3. \A i \in 1 .. Len(q) - 1 : Tail(q)[i] = q[i + 1]
  BY <1>1
<1>4. \A i \in 1 .. Len(q) : i # 1 => i - 1 \in 1 .. Len(q) - 1 /\ (i - 1) + 1 = i
  BY <1>1
<1>5. \A i \in 1 .. Len(q) - 1 : i + 1 \in 1 .. Len(q) /\ i + 1 # 1
  BY <1>1
<1>6. \A i \in 1 .. Len(q) : i # 1 => Tail(q)[i - 1] = q[i]
  BY <1>3, <1>4
<1>7. \A i \in 1 .. Len(q) : i \in Nat
  OBVIOUS
<1>8. \A i \in 1 .. Len(q) - 1 : i \in Nat
  BY <1>1
<1> QED
  BY <1>1, <1>2, <1>3, <1>4, <1>5, <1>6, <1>7, <1>8

\* VTAILQ_INSERT_HEAD.
LEMMA ConsOK ==
  ASSUME NEW S, NEW q \in Seq(S), NEW x \in S
  PROVE  /\ <<x>> \o q \in Seq(S)
         /\ 1 \in DOMAIN (<<x>> \o q) /\ (<<x>> \o q)[1] = x
         /\ \A i \in DOMAIN q : /\ i \in Nat /\ i + 1 \in DOMAIN (<<x>> \o q)
                               /\ (<<x>> \o q)[i + 1] = q[i]
         /\ \A i \in DOMAIN (<<x>> \o q) : i # 1 =>
              i \in Nat /\ i - 1 \in DOMAIN q /\ (<<x>> \o q)[i] = q[i - 1]
<1> DEFINE f == <<x>> \o q
<1>1. /\ f \in Seq(S) /\ Len(f) = Len(q) + 1 /\ f[1] = x /\ Len(q) \in Nat
      /\ DOMAIN f = 1 .. Len(q) + 1 /\ DOMAIN q = 1 .. Len(q)
  OBVIOUS
<1>2. \A i \in 2 .. Len(q) + 1 : f[i] = q[i - 1]
  OBVIOUS
<1> HIDE DEF f
<1>3. \A i \in 1 .. Len(q) + 1 : i # 1 => i \in 2 .. Len(q) + 1 /\ i \in Nat /\ i - 1 \in 1 .. Len(q)
  BY <1>1
<1>4. \A i \in 1 .. Len(q) : i + 1 \in 2 .. Len(q) + 1 /\ i + 1 \in 1 .. Len(q) + 1 /\ i \in Nat /\ (i + 1) - 1 = i
  BY <1>1
<1>5. \A i \in 1 .. Len(q) : f[i + 1] = q[i]
  BY <1>2, <1>4
<1>6. 1 \in 1 .. Len(q) + 1
  BY <1>1
<1> QED
  BY <1>1, <1>2, <1>3, <1>4, <1>5, <1>6 DEF f

\* VTAILQ_INSERT_TAIL.
LEMMA AppendOK ==
  ASSUME NEW S, NEW q \in Seq(S), NEW x \in S
  PROVE  /\ Append(q, x) \in Seq(S) /\ Append(q, x) # <<>>
         /\ Len(q) + 1 \in DOMAIN Append(q, x) /\ Append(q, x)[Len(q) + 1] = x
         /\ \A i \in DOMAIN q : i \in DOMAIN Append(q, x) /\ Append(q, x)[i] = q[i] /\ i # Len(q) + 1
         /\ \A i \in DOMAIN Append(q, x) : i # Len(q) + 1 => i \in DOMAIN q
<1> DEFINE f == Append(q, x)
<1>1. /\ f \in Seq(S) /\ Len(f) = Len(q) + 1 /\ Len(q) \in Nat
      /\ DOMAIN f = 1 .. Len(q) + 1 /\ DOMAIN q = 1 .. Len(q) /\ f[Len(q) + 1] = x
  OBVIOUS
<1>2. \A i \in 1 .. Len(q) : f[i] = q[i]
  OBVIOUS
<1>3. f # <<>>
  BY <1>1
<1> HIDE DEF f
<1>4. \A n \in 1 .. Len(q) + 1 : n # Len(q) + 1 => n \in 1 .. Len(q)
  BY <1>1
<1>5. \A n \in 1 .. Len(q) : n \in 1 .. Len(q) + 1 /\ n # Len(q) + 1
  BY <1>1
<1>6. Len(q) + 1 \in 1 .. Len(q) + 1
  BY <1>1
<1> QED
  BY <1>1, <1>2, <1>3, <1>4, <1>5, <1>6 DEF f

\* VTAILQ_REMOVE of the last element.
LEMMA WithoutLastOK ==
  ASSUME NEW S, NEW q \in Seq(S), q # <<>>
  PROVE  /\ WithoutLast(q) \in Seq(S) /\ Last(q) \in S
         /\ Len(q) \in DOMAIN q /\ q[Len(q)] = Last(q)
         /\ \A i \in DOMAIN WithoutLast(q) : i \in DOMAIN q /\ WithoutLast(q)[i] = q[i] /\ i # Len(q)
         /\ \A i \in DOMAIN q : i # Len(q) => i \in DOMAIN WithoutLast(q)
<1> DEFINE f == SubSeq(q, 1, Len(q) - 1)
<1>1. Len(q) \in Nat /\ Len(q) > 0 /\ DOMAIN q = 1 .. Len(q) /\ \A i \in 1 .. Len(q) : q[i] \in S
  OBVIOUS
<1>2. f \in Seq(S) /\ Len(f) = Len(q) - 1 /\ DOMAIN f = 1 .. Len(q) - 1
  BY <1>1
<1>3. \A i \in 1 .. Len(q) - 1 : f[i] = q[i]
  BY <1>1
<1> HIDE DEF f
<1>0. Len(q) \in Nat
  OBVIOUS
<1>4. \A n \in 1 .. Len(q) : n # Len(q) => n \in 1 .. Len(q) - 1
  BY <1>0
<1>5. \A n \in 1 .. Len(q) - 1 : n \in 1 .. Len(q) /\ n # Len(q)
  BY <1>0
<1>6. Len(q) \in 1 .. Len(q)
  BY <1>1
<1>7. WithoutLast(q) = f /\ Last(q) = q[Len(q)]
  BY DEF WithoutLast, Last, f
<1> QED
  BY <1>1, <1>2, <1>3, <1>4, <1>5, <1>6, <1>7

-----------------------------------------------------------------------------
(* What a step leaves alone.                                               *)

\* Requests stay where they are.
LEMMA RequestFrame ==
  ASSUME PoolInv, UNCHANGED <<wrq, queue, pending>>,
         \A c \in Caller, r \in Request : Holding(c, r)' <=> Holding(c, r)
  PROVE  OneHolder' /\ Kept'
<1>1. OneHolder'
  BY DEF PoolInv, OneHolder
<1>2. Kept'
  BY DEF PoolInv, Kept, Held
<1> QED
  BY <1>1, <1>2

\* Threads wait where they are.
LEMMA WakerFrame ==
  ASSUME PoolInv, UNCHANGED idle,
         \A w \in Worker : /\ Kissed(w)' <=> Kissed(w)
                           /\ wpc'[w] = "wait" <=> wpc[w] = "wait"
                           /\ wpc[w] = "wait" => wpool'[w] = wpool[w],
         \A c \in Caller, w \in Worker : Handles(c, w)' <=> Handles(c, w)
  PROVE  OneWaker' /\ Waits'
<1>1. \A p \in Pool : \A i \in DOMAIN idle[p] : idle[p][i] \in Worker
  BY DEF PoolInv, TypeOK
<1>2. Waits'
  BY DEF PoolInv, Waits, Waited
<1>3. \A p \in Pool : \A i \in DOMAIN idle[p] : wpool'[idle[p][i]] = wpool[idle[p][i]]
  BY <1>1 DEF PoolInv, Waits, Waited
<1>4. OneWaker'
  BY <1>1, <1>3 DEF PoolInv, OneWaker
<1> QED
  BY <1>2, <1>4

\* No thread is created.
LEMMA MaxFrame ==
  ASSUME PoolInv, nthr_max' \in {0, Top}, TypeOK',
         \A w \in Worker : /\ wpc'[w] # "free" => wpc[w] # "free" /\ wpool'[w] = wpool[w]
                           /\ wpc'[w] = "created" => wpc[w] = "created",
         herder.pc = "slept" /\ herder'.pc # "slept" => (TimelyStart => ~Starting)
  PROVE  MaxInv'
<1> SUFFICES ASSUME TimelyStart
             PROVE  /\ \A p \in Pool : Cardinality(Threads(p)') <= Top
                    /\ Starting' => herder'.pc = "slept"
  BY DEF MaxInv
<1>0. MaxInv /\ TypeOK
  BY DEF PoolInv
<1>1. ASSUME NEW p \in Pool PROVE Cardinality(Threads(p)') <= Top
  <2>1. Threads(p)' \subseteq Threads(p) /\ Threads(p) \subseteq Worker
    BY DEF Threads
  <2>2. IsFiniteSet(Threads(p)) /\ Cardinality(Threads(p)) \in Nat
    BY <2>1, FS_Subset, FS_CardinalityType, PoolAssumption
  <2>3. Cardinality(Threads(p)') <= Cardinality(Threads(p)) /\ Cardinality(Threads(p)') \in Nat
    BY <2>1, <2>2, FS_Subset, FS_CardinalityType
  <2>4. Cardinality(Threads(p)) <= Top /\ Top \in Nat
    BY <1>0, PoolAssumption DEF MaxInv, Top
  <2> QED
    BY <2>2, <2>3, <2>4
<1>2. Starting' => Starting
  BY DEF Starting
<1>3. Starting' => herder'.pc = "slept"
  BY <1>0, <1>2 DEF MaxInv
<1> QED
  BY <1>1, <1>3

-----------------------------------------------------------------------------
(* Threads.                                                                *)

\* A thread that finds work takes the first request of the queue.
LEMMA StepTake ==
  ASSUME PoolInv, NEW w \in Worker, WorkerTop(w), HasWork(w)
  PROVE  PoolInv'
<1>0. TypeOK /\ OneHolder /\ Kept /\ WrqOK /\ QueuedOnlyIfBusy /\ OneWaker /\ Waits
  BY DEF PoolInv
<1> DEFINE p == wpool[w]
           r == Head(queue[p])
<1>1. p \in Pool /\ queue[p] \in Seq(Request) /\ queue[p] # <<>>
  BY <1>0 DEF TypeOK, HasWork
<1>2. /\ wpc[w] \in {"created", "done"}
      /\ wrq' = [wrq EXCEPT ![w] = r] /\ queue' = [queue EXCEPT ![p] = Tail(queue[p])]
      /\ wpc' = [wpc EXCEPT ![w] = "run"]
      /\ UNCHANGED <<idle, wpool, callVars, paramVars, herderVars, timer>>
  BY DEF WorkerTop, Dequeue
<1>3. /\ r \in Request /\ Tail(queue[p]) \in Seq(Request)
      /\ 1 \in DOMAIN queue[p] /\ queue[p][1] = r
      /\ \A i \in DOMAIN Tail(queue[p]) : /\ i \in Nat /\ i + 1 \in DOMAIN queue[p] /\ i + 1 # 1
                                          /\ Tail(queue[p])[i] = queue[p][i + 1]
      /\ \A i \in DOMAIN queue[p] : i # 1 => /\ i \in Nat /\ i - 1 \in DOMAIN Tail(queue[p])
                                            /\ Tail(queue[p])[i - 1] = queue[p][i]
  BY <1>1, TailOK
<1>4. /\ queue'[p] = Tail(queue[p]) /\ \A q \in Pool : q # p => queue'[q] = queue[q]
      /\ wrq'[w] = r /\ \A v \in Worker : v # w => wrq'[v] = wrq[v]
      /\ wpc'[w] = "run" /\ \A v \in Worker : v # w => wpc'[v] = wpc[v]
  BY <1>0, <1>1, <1>2 DEF TypeOK
<1>5. TypeOK'
  BY <1>0, <1>2, <1>3 DEF TypeOK, WorkerPc, callVars, paramVars, herderVars
<1> HIDE DEF p, r
<1>6. wrq[w] = NoRequest
  BY <1>0, <1>2 DEF WrqOK, Waits, Waited, Handles
<1>7. \A q \in Pool : \A i \in DOMAIN queue'[q] :
        LET k == IF q = p THEN i + 1 ELSE i
        IN  k \in DOMAIN queue[q] /\ queue[q][k] = queue'[q][i] /\ (q = p => i \in Nat /\ k # 1)
  BY <1>3, <1>4
<1>8. \A q \in Pool : \A k \in DOMAIN queue[q] :
        (q = p /\ k = 1) \/ \E i \in DOMAIN queue'[q] : queue'[q][i] = queue[q][k]
  <2> TAKE q \in Pool
  <2> TAKE k \in DOMAIN queue[q]
  <2>1. CASE q = p /\ k # 1
    <3>1. k - 1 \in DOMAIN queue'[q] /\ queue'[q][k - 1] = queue[q][k]
      BY <2>1, <1>3, <1>4
    <3> QED
      BY <3>1
  <2>2. CASE q # p
    BY <2>2, <1>4
  <2> QED
    BY <2>1, <2>2
<1>9. \A c \in Caller, s \in Request : Holding(c, s)' <=> Holding(c, s)
  BY <1>2 DEF Holding, callVars
<1>10. OneHolder'
  <2>1. \A s \in Request, c, d \in Caller : Holding(c, s)' /\ Holding(d, s)' => c = d
    BY <1>0, <1>9 DEF OneHolder
  <2>2. \A v, x \in Worker : wrq'[v] = wrq'[x] /\ wrq'[v] # NoRequest => v = x
    BY <1>0, <1>1, <1>3, <1>4 DEF OneHolder
  <2>3. \A q, x \in Pool : \A i \in DOMAIN queue'[q], k \in DOMAIN queue'[x] :
          queue'[q][i] = queue'[x][k] => q = x /\ i = k
    BY <1>0, <1>7 DEF OneHolder
  <2>4. \A s \in Request, c \in Caller, v \in Worker : ~(Holding(c, s)' /\ wrq'[v] = s)
    BY <1>0, <1>1, <1>3, <1>4, <1>9 DEF OneHolder
  <2>5. \A s \in Request, c \in Caller, q \in Pool : \A i \in DOMAIN queue'[q] :
          ~(Holding(c, s)' /\ queue'[q][i] = s)
    BY <1>0, <1>7, <1>9 DEF OneHolder
  <2>6. \A v \in Worker, q \in Pool : \A i \in DOMAIN queue'[q] : wrq'[v] # queue'[q][i]
    <3> TAKE v \in Worker, q \in Pool
    <3> TAKE i \in DOMAIN queue'[q]
    <3>1. PICK k \in DOMAIN queue[q] : queue[q][k] = queue'[q][i] /\ (q = p => k # 1)
      BY <1>7
    <3>2. CASE v = w
      <4>1. queue[q][k] # queue[p][1]
        BY <3>1, <1>0, <1>1, <1>3 DEF OneHolder
      <4> QED
        BY <4>1, <3>1, <3>2, <1>3, <1>4
    <3>3. CASE v # w
      BY <3>1, <3>3, <1>0, <1>4 DEF OneHolder
    <3> QED
      BY <3>2, <3>3
  <2> QED
    BY <2>1, <2>2, <2>3, <2>4, <2>5, <2>6 DEF OneHolder
<1>11. Kept'
  <2> SUFFICES ASSUME NEW s \in Request PROVE s \in pending' <=> Held(s)'
    BY DEF Kept
  <2>1. pending' = pending
    BY <1>2 DEF callVars
  <2>2. Held(s) => Held(s)'
    BY <1>3, <1>4, <1>6, <1>8, <1>9, PoolAssumption DEF Held
  <2>3. Held(s)' => Held(s)
    BY <1>1, <1>3, <1>4, <1>7, <1>9 DEF Held
  <2> QED
    BY <2>1, <2>2, <2>3, <1>0 DEF Kept
<1>12. OneWaker' /\ Waits'
  <2>1. \A v \in Worker : /\ Kissed(v)' <=> Kissed(v)
                          /\ wpc'[v] = "wait" <=> wpc[v] = "wait"
                          /\ wpc[v] = "wait" => wpool'[v] = wpool[v]
    BY <1>2, <1>4 DEF Kissed
  <2>2. \A c \in Caller, v \in Worker : Handles(c, v)' <=> Handles(c, v)
    BY <1>2 DEF Handles, callVars
  <2> QED
    BY <2>1, <2>2, <1>2, WakerFrame
<1>13. WrqOK'
  BY <1>0, <1>2, <1>3, <1>4, PoolAssumption DEF WrqOK, callVars
<1>14. QueuedOnlyIfBusy'
  BY <1>0, <1>1, <1>2, <1>4 DEF QueuedOnlyIfBusy
<1>15. HerdOK'
  BY <1>2 DEF PoolInv, HerdOK, herderVars, paramVars
<1>16. MaxInv'
  BY <1>2, <1>4, <1>5, MaxFrame DEF PoolInv, MaxInv, herderVars, paramVars
<1> QED
  BY <1>5, <1>10, <1>11, <1>12, <1>13, <1>14, <1>15, <1>16 DEF PoolInv

\* A thread that finds none goes on the idle list and waits.
LEMMA StepGoIdle ==
  ASSUME PoolInv, NEW w \in Worker, WorkerTop(w), ~HasWork(w)
  PROVE  PoolInv'
<1>0. TypeOK /\ OneHolder /\ Kept /\ WrqOK /\ QueuedOnlyIfBusy /\ OneWaker /\ Waits
  BY DEF PoolInv
<1> DEFINE p == wpool[w]
           f == <<w>> \o idle[p]
<1>1. p \in Pool /\ idle[p] \in Seq(Worker) /\ queue[p] = <<>>
  BY <1>0 DEF TypeOK, HasWork
<1>2. /\ wpc[w] \in {"created", "done"}
      /\ idle' = [idle EXCEPT ![p] = f]
      /\ wpc' = [wpc EXCEPT ![w] = "wait"]
      /\ UNCHANGED <<queue, wrq, wpool, callVars, paramVars, herderVars, timer>>
  BY DEF WorkerTop
<1>3. /\ f \in Seq(Worker) /\ 1 \in DOMAIN f /\ f[1] = w
      /\ \A i \in DOMAIN idle[p] : i \in Nat /\ i + 1 \in DOMAIN f /\ f[i + 1] = idle[p][i]
      /\ \A i \in DOMAIN f : i # 1 => i \in Nat /\ i - 1 \in DOMAIN idle[p] /\ f[i] = idle[p][i - 1]
  BY <1>1, ConsOK
<1>4. /\ idle'[p] = f /\ \A q \in Pool : q # p => idle'[q] = idle[q]
      /\ wpc'[w] = "wait" /\ \A v \in Worker : v # w => wpc'[v] = wpc[v]
  BY <1>0, <1>1, <1>2 DEF TypeOK
<1>5. TypeOK'
  BY <1>0, <1>2, <1>3 DEF TypeOK, WorkerPc, callVars, paramVars, herderVars
<1>6. wpool[w] = p
  OBVIOUS
<1> HIDE DEF p, f
<1>7. ~Waited(w)
  BY <1>0, <1>2 DEF Waits
<1>8. \A q \in Pool : \A i \in DOMAIN idle'[q] :
        \/ q = p /\ i = 1 /\ idle'[q][i] = w
        \/ LET k == IF q = p THEN i - 1 ELSE i
           IN  k \in DOMAIN idle[q] /\ idle[q][k] = idle'[q][i] /\ (q = p => i \in Nat)
  BY <1>3, <1>4
<1>9. \A q \in Pool : \A k \in DOMAIN idle[q] :
        idle[q][k] # w /\ idle[q][k] \in Worker /\ \E i \in DOMAIN idle'[q] : idle'[q][i] = idle[q][k]
  <2> TAKE q \in Pool
  <2> TAKE k \in DOMAIN idle[q]
  <2>1. idle[q][k] # w
    BY <1>7 DEF Waited
  <2>2. idle[q][k] \in Worker
    BY <1>0 DEF TypeOK
  <2>3. CASE q = p
    <3>1. k + 1 \in DOMAIN idle'[q] /\ idle'[q][k + 1] = idle[q][k]
      BY <2>3, <1>3, <1>4
    <3> QED
      BY <2>1, <2>2, <3>1
  <2>4. CASE q # p
    BY <2>1, <2>2, <2>4, <1>4
  <2> QED
    BY <2>3, <2>4
<1>10. \A c \in Caller, v \in Worker : (Handles(c, v)' <=> Handles(c, v)) /\ (Kissed(v)' <=> Kissed(v))
  BY <1>2 DEF Handles, Kissed, callVars
<1>11. \A c \in Caller : ~Handles(c, w) /\ ~Kissed(w)
  BY <1>7 DEF Waited
<1>12. OneWaker'
  <2>1. \A q, x \in Pool : \A i \in DOMAIN idle'[q], k \in DOMAIN idle'[x] :
          idle'[q][i] = idle'[x][k] => q = x /\ i = k
    <3> TAKE q, x \in Pool
    <3> TAKE i \in DOMAIN idle'[q], k \in DOMAIN idle'[x]
    <3>1. CASE idle'[q][i] = w \/ idle'[x][k] = w
      BY <3>1, <1>8, <1>9
    <3>2. CASE idle'[q][i] # w /\ idle'[x][k] # w
      BY <3>2, <1>8, <1>0 DEF OneWaker
    <3> QED
      BY <3>1, <3>2
  <2>2. \A v \in Worker, c, d \in Caller : Handles(c, v)' /\ Handles(d, v)' => c = d
    BY <1>0, <1>10 DEF OneWaker
  <2>0. wpool' = wpool /\ caller' = caller /\ timer' = timer
    BY <1>2 DEF callVars
  <2>3. \A q \in Pool : \A i \in DOMAIN idle'[q] :
          /\ wpool[idle'[q][i]] = q
          /\ ~Kissed(idle'[q][i])
          /\ \A c \in Caller : ~Handles(c, idle'[q][i])
    <3> TAKE q \in Pool
    <3> TAKE i \in DOMAIN idle'[q]
    <3>1. CASE idle'[q][i] = w
      <4>1. q = p
        BY <3>1, <1>8, <1>9
      <4> QED
        BY <3>1, <4>1, <1>6, <1>7 DEF Waited
    <3>2. CASE idle'[q][i] # w
      <4>1. PICK k \in DOMAIN idle[q] : idle[q][k] = idle'[q][i]
        BY <3>2, <1>8
      <4> QED
        BY <4>1, <1>0 DEF OneWaker
    <3> QED
      BY <3>1, <3>2
  <2>4. \A v \in Worker, c \in Caller : ~(Handles(c, v)' /\ Kissed(v)')
    BY <1>0, <1>10 DEF OneWaker
  <2> QED
    BY <2>0, <2>1, <2>2, <2>3, <2>4 DEF OneWaker, Handles, Kissed
<1>13. Waits'
  <2> SUFFICES ASSUME NEW v \in Worker PROVE wpc'[v] = "wait" <=> Waited(v)'
    BY DEF Waits
  <2>0. caller' = caller /\ timer' = timer
    BY <1>2 DEF callVars
  <2>1. CASE v = w
    BY <2>1, <1>1, <1>3, <1>4 DEF Waited
  <2>2. CASE v # w
    <3>1. Waited(v) => Waited(v)'
      BY <1>9, <2>0 DEF Waited, Handles, Kissed
    <3>2. Waited(v)' => Waited(v)
      BY <2>0, <2>2, <1>8 DEF Waited, Handles, Kissed
    <3> QED
      BY <2>2, <3>1, <3>2, <1>0, <1>4 DEF Waits
  <2> QED
    BY <2>1, <2>2
<1>14. OneHolder' /\ Kept'
  BY <1>2, RequestFrame DEF Holding, callVars
<1>15. WrqOK'
  BY <1>0, <1>2, <1>4 DEF WrqOK, callVars
<1>16. QueuedOnlyIfBusy'
  BY <1>0, <1>1, <1>2, <1>4 DEF QueuedOnlyIfBusy
<1>17. HerdOK'
  BY <1>2 DEF PoolInv, HerdOK, herderVars, paramVars
<1>18. MaxInv'
  BY <1>2, <1>4, <1>5, MaxFrame DEF PoolInv, MaxInv, herderVars, paramVars
<1> QED
  BY <1>5, <1>12, <1>13, <1>14, <1>15, <1>16, <1>17, <1>18 DEF PoolInv

\* A thread that was woken runs its request, or ends without one.
LEMMA StepWoken ==
  ASSUME PoolInv, NEW w \in Worker, WorkerWoken(w)
  PROVE  PoolInv'
<1>0. TypeOK /\ OneHolder /\ Kept /\ WrqOK /\ QueuedOnlyIfBusy /\ OneWaker /\ Waits
  BY DEF PoolInv
<1>1. /\ wpc[w] = "woken"
      /\ UNCHANGED <<wrq, idle, queue, callVars, paramVars, herderVars, timer>>
      /\ wpc'[w] = IF wrq[w] = NoRequest THEN "free" ELSE "run"
      /\ \A v \in Worker : v # w => wpc'[v] = wpc[v] /\ wpool'[v] = wpool[v]
      /\ wrq[w] # NoRequest => wpool'[w] = wpool[w]
  BY <1>0 DEF WorkerWoken, TypeOK, listVars
<1>2. TypeOK'
  <2>1. 0 \in Pool
    BY PoolAssumption DEF Pool
  <2>2. wpc' \in [Worker -> WorkerPc] /\ wpool' \in [Worker -> Pool]
    BY <1>0, <2>1 DEF WorkerWoken, TypeOK, WorkerPc
  <2> QED
    BY <2>2, <1>0, <1>1 DEF TypeOK, callVars, paramVars, herderVars
<1>3. OneHolder' /\ Kept'
  BY <1>1, RequestFrame DEF Holding, callVars
<1>4. OneWaker' /\ Waits'
  BY <1>1, WakerFrame DEF Handles, Kissed, callVars
<1>5. WrqOK'
  BY <1>0, <1>1 DEF WrqOK, callVars
<1>6. QueuedOnlyIfBusy' /\ HerdOK'
  BY <1>1 DEF PoolInv, QueuedOnlyIfBusy, HerdOK, herderVars, paramVars
<1>7. MaxInv'
  BY <1>1, <1>2, MaxFrame DEF PoolInv, MaxInv, herderVars, paramVars
<1> QED
  BY <1>2, <1>3, <1>4, <1>5, <1>6, <1>7 DEF PoolInv

\* A request is done.
LEMMA StepFinish ==
  ASSUME PoolInv, NEW w \in Worker, WorkerFinish(w)
  PROVE  PoolInv'
<1>0. TypeOK /\ OneHolder /\ Kept /\ WrqOK /\ QueuedOnlyIfBusy /\ OneWaker /\ Waits
  BY DEF PoolInv
<1>1. /\ wpc[w] = "run"
      /\ UNCHANGED <<wpool, idle, queue, caller, nq, paramVars, herderVars, timer>>
      /\ wpc'[w] = "done" /\ wrq'[w] = NoRequest /\ pending' = pending \ {wrq[w]}
      /\ \A v \in Worker : v # w => wpc'[v] = wpc[v] /\ wrq'[v] = wrq[v]
  BY <1>0 DEF WorkerFinish, TypeOK, listVars
<1>2. TypeOK'
  <2>1. wpc' \in [Worker -> WorkerPc] /\ wrq' \in [Worker -> Request \cup {NoRequest}]
        /\ pending' \in SUBSET Request
    BY <1>0 DEF WorkerFinish, TypeOK, WorkerPc
  <2> QED
    BY <2>1, <1>0, <1>1 DEF TypeOK, paramVars, herderVars
<1>3. OneHolder'
  <2>1. \A c \in Caller, s \in Request : Holding(c, s)' <=> Holding(c, s)
    BY <1>1 DEF Holding
  <2>2. \A p \in Pool : \A i \in DOMAIN queue[p] : queue[p][i] \in Request
    BY <1>0 DEF TypeOK
  <2>3. \A p \in Pool : \A i \in DOMAIN queue[p] : queue[p][i] # NoRequest
    BY <2>2, PoolAssumption
  <2>4. \A v, x \in Worker : wrq'[v] = wrq'[x] /\ wrq'[v] # NoRequest => v = x
    BY <1>0, <1>1 DEF OneHolder
  <2>5. \A s \in Request, c \in Caller, v \in Worker : ~(Holding(c, s)' /\ wrq'[v] = s)
    BY <2>1, <1>0, <1>1, PoolAssumption DEF OneHolder
  <2>6. \A v \in Worker, p \in Pool : \A i \in DOMAIN queue[p] : wrq'[v] # queue[p][i]
    BY <2>3, <1>0, <1>1 DEF OneHolder
  <2> QED
    BY <2>1, <2>4, <2>5, <2>6, <1>0, <1>1 DEF OneHolder
<1>4. Kept'
  <2> SUFFICES ASSUME NEW s \in Request PROVE s \in pending' <=> Held(s)'
    BY DEF Kept
  <2>1. CASE s = wrq[w]
    <3>1. \A v \in Worker : wrq'[v] # s
      BY <2>1, <1>0, <1>1, PoolAssumption DEF OneHolder
    <3>2. ~\E c \in Caller : Holding(c, s)'
      BY <2>1, <1>0, <1>1 DEF OneHolder, Holding
    <3>3. ~\E p \in Pool : \E i \in DOMAIN queue'[p] : queue'[p][i] = s
      BY <2>1, <1>0, <1>1 DEF OneHolder
    <3> QED
      BY <2>1, <3>1, <3>2, <3>3, <1>1 DEF Held
  <2>2. CASE s # wrq[w]
    BY <2>2, <1>0, <1>1, PoolAssumption DEF Held, Kept, Holding
  <2> QED
    BY <2>1, <2>2
<1>5. OneWaker' /\ Waits'
  BY <1>1, WakerFrame DEF Handles, Kissed
<1>6. WrqOK'
  <2>1. \A c \in Caller : caller[c].pc = "signal" => caller[c].w # w
    BY <1>0, <1>1 DEF Waits, Waited, Handles
  <2> QED
    BY <2>1, <1>0, <1>1 DEF WrqOK
<1>7. QueuedOnlyIfBusy' /\ HerdOK'
  BY <1>1 DEF PoolInv, QueuedOnlyIfBusy, HerdOK, herderVars, paramVars
<1>8. MaxInv'
  BY <1>1, <1>2, MaxFrame DEF PoolInv, MaxInv, herderVars, paramVars
<1> QED
  BY <1>2, <1>3, <1>4, <1>5, <1>6, <1>7, <1>8 DEF PoolInv

-----------------------------------------------------------------------------
(* WRK_Queue.                                                              *)

\* What holds after a step that changes neither threads nor herding.
LEMMA CallFrame ==
  ASSUME PoolInv, UNCHANGED <<wpc, wpool, paramVars, herderVars, timer>>, TypeOK'
  PROVE  HerdOK' /\ MaxInv'
<1>1. HerdOK'
  BY DEF PoolInv, HerdOK, herderVars, paramVars
<1>2. MaxInv'
  BY MaxFrame DEF PoolInv, MaxInv, herderVars, paramVars
<1> QED
  BY <1>1, <1>2

\* A caller picks a pool for its request.
LEMMA StepSelect ==
  ASSUME PoolInv, NEW c \in Caller, NEW r \in Request, SelectPool(c, r)
  PROVE  PoolInv'
<1>0. TypeOK /\ OneHolder /\ Kept /\ WrqOK /\ QueuedOnlyIfBusy /\ OneWaker /\ Waits
  BY DEF PoolInv
<1>1. NextPool \in Pool
  <2>1. nq \in 0 .. MaxPools - 1 /\ nwq \in 1 .. MaxPools /\ MaxPools \in Nat
    BY <1>0, PoolAssumption DEF TypeOK, Pool
  <2> QED
    BY <2>1 DEF NextPool, Pool
<1>2. /\ caller[c].pc = "idle" /\ r \notin pending /\ pending' = pending \cup {r}
      /\ UNCHANGED <<workerVars, listVars, nq, paramVars, herderVars, timer>>
      /\ caller'[c] = [pc |-> "lock", req |-> r, p |-> NextPool, w |-> NoWorker]
      /\ \A d \in Caller : d # c => caller'[d] = caller[d]
  BY <1>0 DEF SelectPool, TypeOK
<1>3. caller'[c].pc = "lock" /\ caller'[c].req = r
  BY <1>2
<1>4. TypeOK'
  <2>1. caller' \in [Caller -> [pc : CallerPc, req : Request \cup {NoRequest},
                              p : Pool, w : Worker \cup {NoWorker}]]
    BY <1>0, <1>1 DEF SelectPool, TypeOK, CallerPc
  <2> QED
    BY <2>1, <1>0, <1>2 DEF TypeOK, workerVars, listVars, paramVars, herderVars
<1>5. ~Held(r)
  BY <1>0, <1>2 DEF Kept
<1>6. \A d \in Caller, s \in Request : Holding(d, s)' <=> (Holding(d, s) \/ (d = c /\ s = r))
  BY <1>2, <1>3 DEF Holding
<1>7. OneHolder'
  BY <1>0, <1>2, <1>5, <1>6 DEF OneHolder, Held, workerVars, listVars
<1>8. Kept'
  BY <1>0, <1>2, <1>6 DEF Kept, Held, workerVars, listVars
<1>9. OneWaker' /\ Waits'
  <2>1. \A d \in Caller, w \in Worker : Handles(d, w)' <=> Handles(d, w)
    BY <1>2, <1>3 DEF Handles
  <2>2. UNCHANGED <<idle, wpc, wpool, timer>>
    BY <1>2 DEF workerVars, listVars
  <2> QED
    BY <2>1, <2>2, WakerFrame DEF Kissed
<1>10. WrqOK'
  BY <1>0, <1>2, <1>3 DEF WrqOK, workerVars
<1>11. QueuedOnlyIfBusy'
  BY <1>0, <1>2 DEF QueuedOnlyIfBusy, listVars
<1>12. HerdOK' /\ MaxInv'
  BY <1>2, <1>4, CallFrame DEF workerVars
<1> QED
  BY <1>4, <1>7, <1>8, <1>9, <1>10, <1>11, <1>12 DEF PoolInv

\* WRK_Queue takes the first idle thread.
LEMMA StepHand ==
  ASSUME PoolInv, NEW c \in Caller, WRK_Queue(c), idle[caller[c].p] # <<>>
  PROVE  PoolInv'
<1>0. TypeOK /\ OneHolder /\ Kept /\ WrqOK /\ QueuedOnlyIfBusy /\ OneWaker /\ Waits
  BY DEF PoolInv
<1> DEFINE p == caller[c].p
           w == Head(idle[p])
<1>1. p \in Pool /\ idle[p] \in Seq(Worker) /\ idle[p] # <<>> /\ caller[c].req \in Request \cup {NoRequest}
  BY <1>0 DEF TypeOK
<1>2. /\ caller[c].pc = "lock" /\ nq' = p
      /\ caller' = [caller EXCEPT ![c] = [pc |-> "hand", req |-> caller[c].req, p |-> p, w |-> w]]
      /\ idle' = [idle EXCEPT ![p] = Tail(idle[p])]
      /\ UNCHANGED <<queue, pending, workerVars, paramVars, herderVars, timer>>
  BY DEF WRK_Queue, WithoutFirst
<1>3. /\ w \in Worker /\ Tail(idle[p]) \in Seq(Worker)
      /\ 1 \in DOMAIN idle[p] /\ idle[p][1] = w
      /\ \A i \in DOMAIN Tail(idle[p]) : /\ i \in Nat /\ i + 1 \in DOMAIN idle[p] /\ i + 1 # 1
                                         /\ Tail(idle[p])[i] = idle[p][i + 1]
      /\ \A i \in DOMAIN idle[p] : i # 1 => /\ i \in Nat /\ i - 1 \in DOMAIN Tail(idle[p])
                                           /\ Tail(idle[p])[i - 1] = idle[p][i]
  BY <1>1, TailOK
<1>4. /\ idle'[p] = Tail(idle[p]) /\ \A q \in Pool : q # p => idle'[q] = idle[q]
      /\ caller'[c].pc = "hand" /\ caller'[c].w = w /\ caller'[c].req = caller[c].req
      /\ \A d \in Caller : d # c => caller'[d] = caller[d]
  BY <1>0, <1>1, <1>2 DEF TypeOK
<1>5. TypeOK'
  <2>1. caller' \in [Caller -> [pc : CallerPc, req : Request \cup {NoRequest},
                              p : Pool, w : Worker \cup {NoWorker}]]
    BY <1>0, <1>1, <1>2, <1>3 DEF TypeOK, CallerPc
  <2>2. idle' \in [Pool -> Seq(Worker)]
    BY <1>0, <1>1, <1>2, <1>3 DEF TypeOK
  <2> QED
    BY <2>1, <2>2, <1>0, <1>1, <1>2 DEF TypeOK, workerVars, paramVars, herderVars
<1> HIDE DEF p, w
<1>6. \A q \in Pool : \A i \in DOMAIN idle'[q] :
        LET k == IF q = p THEN i + 1 ELSE i
        IN  k \in DOMAIN idle[q] /\ idle[q][k] = idle'[q][i] /\ (q = p => i \in Nat /\ k # 1)
  BY <1>3, <1>4
<1>7. \A q \in Pool : \A k \in DOMAIN idle[q] :
        (q = p /\ k = 1) \/ \E i \in DOMAIN idle'[q] : idle'[q][i] = idle[q][k]
  <2> TAKE q \in Pool
  <2> TAKE k \in DOMAIN idle[q]
  <2>1. CASE q = p /\ k # 1
    <3>1. k - 1 \in DOMAIN idle'[q] /\ idle'[q][k - 1] = idle[q][k]
      BY <2>1, <1>3, <1>4
    <3> QED
      BY <3>1
  <2>2. CASE q # p
    BY <2>2, <1>4
  <2> QED
    BY <2>1, <2>2
<1>8. \A d \in Caller, v \in Worker : Handles(d, v)' <=> (Handles(d, v) \/ (d = c /\ v = w))
  BY <1>2, <1>4 DEF Handles
<1>9. \A q \in Pool : \A i \in DOMAIN idle'[q] : idle'[q][i] # w
  BY <1>0, <1>1, <1>3, <1>6 DEF OneWaker
<1>10. wpool[w] = p /\ ~Kissed(w) /\ \A d \in Caller : ~Handles(d, w)
  BY <1>0, <1>1, <1>3 DEF OneWaker
<1>11. UNCHANGED <<wpc, wpool, wrq, timer>>
  BY <1>2 DEF workerVars
<1>12. OneWaker'
  <2>1. \A q, x \in Pool : \A i \in DOMAIN idle'[q], k \in DOMAIN idle'[x] :
          idle'[q][i] = idle'[x][k] => q = x /\ i = k
    BY <1>0, <1>6 DEF OneWaker
  <2>2. \A v \in Worker, d, e \in Caller : Handles(d, v)' /\ Handles(e, v)' => d = e
    BY <1>0, <1>8, <1>10 DEF OneWaker
  <2>3. \A q \in Pool : \A i \in DOMAIN idle'[q] :
          /\ wpool[idle'[q][i]] = q /\ idle'[q][i] # w
          /\ ~Kissed(idle'[q][i])
          /\ \A d \in Caller : ~Handles(d, idle'[q][i])
    BY <1>0, <1>6, <1>9 DEF OneWaker
  <2>4. \A q \in Pool : \A i \in DOMAIN idle'[q] : \A d \in Caller :
          ~(caller'[d].pc \in {"hand", "signal"} /\ caller'[d].w = idle'[q][i])
    BY <2>3, <1>4 DEF Handles
  <2>5. \A v \in Worker, d \in Caller : ~(Handles(d, v)' /\ Kissed(v)')
    BY <1>0, <1>8, <1>10, <1>11 DEF OneWaker, Kissed
  <2> QED
    BY <2>1, <2>2, <2>3, <2>4, <2>5, <1>11 DEF OneWaker, Handles, Kissed
<1>13. Waits'
  <2> SUFFICES ASSUME NEW v \in Worker PROVE wpc'[v] = "wait" <=> Waited(v)'
    BY DEF Waits
  <2>1. Waited(v) => Waited(v)'
    BY <1>3, <1>7, <1>8, <1>11 DEF Waited, Kissed
  <2>2. Waited(v)' => Waited(v)
    BY <1>1, <1>3, <1>6, <1>8, <1>11 DEF Waited, Kissed
  <2> QED
    BY <2>1, <2>2, <1>0, <1>11 DEF Waits
<1>14. OneHolder' /\ Kept'
  <2>1. \A d \in Caller, s \in Request : Holding(d, s)' <=> Holding(d, s)
    BY <1>2, <1>4 DEF Holding
  <2> QED
    BY <2>1, <1>2, <1>11, RequestFrame
<1>15. WrqOK'
  BY <1>0, <1>2, <1>3, <1>4, <1>11 DEF WrqOK
<1>16. QueuedOnlyIfBusy'
  BY <1>0, <1>1, <1>2, <1>4 DEF QueuedOnlyIfBusy
<1>17. HerdOK' /\ MaxInv'
  BY <1>2, <1>5, CallFrame DEF workerVars
<1> QED
  BY <1>5, <1>12, <1>13, <1>14, <1>15, <1>16, <1>17 DEF PoolInv

\* WRK_Queue refuses the request.
LEMMA StepRefuse ==
  ASSUME PoolInv, NEW c \in Caller, WRK_Queue(c), idle[caller[c].p] = <<>>, TooMuch(caller[c].p)
  PROVE  PoolInv'
<1>0. TypeOK /\ OneHolder /\ Kept /\ WrqOK /\ QueuedOnlyIfBusy /\ OneWaker /\ Waits
  BY DEF PoolInv
<1> DEFINE r == caller[c].req
<1>1. /\ caller[c].pc = "lock" /\ nq' = caller[c].p /\ caller[c].p \in Pool
      /\ pending' = pending \ {r} /\ r \in Request
      /\ UNCHANGED <<listVars, workerVars, paramVars, herderVars, timer>>
      /\ caller' = [caller EXCEPT ![c] = IdleCall]
  BY <1>0 DEF WRK_Queue, WrqOK, TypeOK
<1>2. /\ caller'[c].pc = "idle" /\ \A d \in Caller : d # c => caller'[d] = caller[d]
      /\ UNCHANGED <<wpc, wpool, wrq, idle, queue>>
  BY <1>0, <1>1 DEF TypeOK, IdleCall, workerVars, listVars
<1>3. TypeOK'
  <2>1. IdleCall \in [pc : CallerPc, req : Request \cup {NoRequest}, p : Pool, w : Worker \cup {NoWorker}]
    BY PoolAssumption DEF IdleCall, CallerPc, Pool
  <2>2. caller' \in [Caller -> [pc : CallerPc, req : Request \cup {NoRequest},
                              p : Pool, w : Worker \cup {NoWorker}]]
    BY <2>1, <1>0, <1>1 DEF TypeOK
  <2> QED
    BY <2>2, <1>0, <1>1, <1>2 DEF TypeOK, paramVars, herderVars
<1>4. \A d \in Caller, s \in Request : Holding(d, s)' <=> (Holding(d, s) /\ d # c)
  BY <1>2 DEF Holding
<1>5. Holding(c, r) /\ \A d \in Caller, s \in Request : d = c /\ Holding(d, s) => s = r
  BY <1>1 DEF Holding
<1> HIDE DEF r
<1>6. OneHolder'
  BY <1>0, <1>2, <1>4 DEF OneHolder
<1>7. Kept'
  <2> SUFFICES ASSUME NEW s \in Request PROVE s \in pending' <=> Held(s)'
    BY DEF Kept
  <2>1. CASE s = r
    <3>1. ~\E d \in Caller : Holding(d, s)'
      BY <2>1, <1>0, <1>1, <1>4, <1>5 DEF OneHolder
    <3>2. ~\E v \in Worker : wrq'[v] = s
      BY <2>1, <1>0, <1>1, <1>2, <1>5 DEF OneHolder
    <3>3. ~\E p \in Pool : \E i \in DOMAIN queue'[p] : queue'[p][i] = s
      BY <2>1, <1>0, <1>1, <1>2, <1>5 DEF OneHolder
    <3> QED
      BY <2>1, <3>1, <3>2, <3>3, <1>1 DEF Held
  <2>2. CASE s # r
    BY <2>2, <1>0, <1>1, <1>2, <1>4, <1>5 DEF Held, Kept
  <2> QED
    BY <2>1, <2>2
<1>8. OneWaker' /\ Waits'
  <2>1. \A d \in Caller, v \in Worker : Handles(d, v)' <=> Handles(d, v)
    BY <1>1, <1>2 DEF Handles
  <2> QED
    BY <2>1, <1>1, <1>2, WakerFrame DEF Kissed
<1>9. WrqOK' /\ QueuedOnlyIfBusy'
  BY <1>0, <1>1, <1>2 DEF WrqOK, QueuedOnlyIfBusy
<1>10. HerdOK' /\ MaxInv'
  BY <1>1, <1>2, <1>3, CallFrame
<1> QED
  BY <1>3, <1>6, <1>7, <1>8, <1>9, <1>10 DEF PoolInv

\* WRK_Queue queues the request.
LEMMA StepQueue ==
  ASSUME PoolInv, NEW c \in Caller, WRK_Queue(c), idle[caller[c].p] = <<>>, ~TooMuch(caller[c].p)
  PROVE  PoolInv'
<1>0. TypeOK /\ OneHolder /\ Kept /\ WrqOK /\ QueuedOnlyIfBusy /\ OneWaker /\ Waits
  BY DEF PoolInv
<1> DEFINE r == caller[c].req
           p == caller[c].p
           f == Append(queue[p], r)
           n == Len(queue[p]) + 1
<1>1. /\ caller[c].pc = "lock" /\ nq' = p /\ p \in Pool /\ r \in Request
      /\ queue[p] \in Seq(Request)
      /\ queue' = [queue EXCEPT ![p] = f]
      /\ caller' = [caller EXCEPT ![c] = [pc |-> "herder", req |-> NoRequest, p |-> p, w |-> NoWorker]]
      /\ UNCHANGED <<idle, pending, workerVars, paramVars, herderVars, timer>>
  BY <1>0 DEF WRK_Queue, WrqOK, TypeOK
<1>2. /\ caller'[c].pc = "herder" /\ \A d \in Caller : d # c => caller'[d] = caller[d]
      /\ UNCHANGED <<wpc, wpool, wrq>>
      /\ queue'[p] = f /\ \A q \in Pool : q # p => queue'[q] = queue[q]
  BY <1>0, <1>1 DEF TypeOK, workerVars
<1>3. /\ f \in Seq(Request) /\ n \in DOMAIN f /\ f[n] = r
      /\ \A i \in DOMAIN queue[p] : i \in DOMAIN f /\ f[i] = queue[p][i] /\ i # n
      /\ \A i \in DOMAIN f : i # n => i \in DOMAIN queue[p]
  BY <1>1, AppendOK
<1>4. TypeOK'
  <2>1. caller' \in [Caller -> [pc : CallerPc, req : Request \cup {NoRequest},
                              p : Pool, w : Worker \cup {NoWorker}]]
    BY <1>0, <1>1 DEF TypeOK, CallerPc
  <2>2. queue' \in [Pool -> Seq(Request)]
    BY <1>0, <1>1, <1>3 DEF TypeOK
  <2> QED
    BY <2>1, <2>2, <1>0, <1>1, <1>2 DEF TypeOK, paramVars, herderVars
<1>5. \A d \in Caller, s \in Request : Holding(d, s)' <=> (Holding(d, s) /\ d # c)
  BY <1>2 DEF Holding
<1>6. Holding(c, r) /\ \A d \in Caller, s \in Request : d = c /\ Holding(d, s) => s = r
  BY <1>1 DEF Holding
<1> HIDE DEF r, p, f, n
<1>7. \A q \in Pool : \A i \in DOMAIN queue'[q] :
        \/ q = p /\ i = n /\ queue'[q][i] = r
        \/ i \in DOMAIN queue[q] /\ queue[q][i] = queue'[q][i]
  BY <1>2, <1>3
<1>8. \A q \in Pool : \A i \in DOMAIN queue[q] :
        queue[q][i] # r /\ i \in DOMAIN queue'[q] /\ queue'[q][i] = queue[q][i]
  BY <1>0, <1>1, <1>2, <1>3, <1>6 DEF OneHolder
<1>9. \A v \in Worker : wrq[v] # r
  BY <1>0, <1>1, <1>6 DEF OneHolder
<1>10. \A d \in Caller : Holding(d, r) => d = c
  BY <1>0, <1>1, <1>6 DEF OneHolder
<1>11. OneHolder'
  <2>1. \A s \in Request, d, e \in Caller : Holding(d, s)' /\ Holding(e, s)' => d = e
    BY <1>0, <1>5 DEF OneHolder
  <2>2. \A q, x \in Pool : \A i \in DOMAIN queue'[q], k \in DOMAIN queue'[x] :
          queue'[q][i] = queue'[x][k] => q = x /\ i = k
    BY <1>0, <1>7, <1>8 DEF OneHolder
  <2>3. \A s \in Request, d \in Caller, v \in Worker : ~(Holding(d, s)' /\ wrq[v] = s)
    BY <1>0, <1>5 DEF OneHolder
  <2>4. \A s \in Request, d \in Caller, q \in Pool : \A i \in DOMAIN queue'[q] :
          ~(Holding(d, s)' /\ queue'[q][i] = s)
    BY <1>0, <1>5, <1>7, <1>10 DEF OneHolder
  <2>5. \A v \in Worker, q \in Pool : \A i \in DOMAIN queue'[q] : wrq[v] # queue'[q][i]
    BY <1>0, <1>7, <1>9 DEF OneHolder
  <2> QED
    BY <2>1, <2>2, <2>3, <2>4, <2>5, <1>0, <1>2 DEF OneHolder
<1>12. Kept'
  <2> SUFFICES ASSUME NEW s \in Request PROVE s \in pending' <=> Held(s)'
    BY DEF Kept
  <2>1. Held(s) => Held(s)'
    BY <1>1, <1>2, <1>3, <1>5, <1>6, <1>8 DEF Held
  <2>2. Held(s)' => Held(s)
    BY <1>2, <1>5, <1>6, <1>7 DEF Held
  <2> QED
    BY <2>1, <2>2, <1>0, <1>1 DEF Kept
<1>13. OneWaker' /\ Waits'
  <2>1. \A d \in Caller, v \in Worker : Handles(d, v)' <=> Handles(d, v)
    BY <1>1, <1>2 DEF Handles
  <2> QED
    BY <2>1, <1>1, <1>2, WakerFrame DEF Kissed
<1>14. WrqOK'
  BY <1>0, <1>1, <1>2 DEF WrqOK
<1>15. QueuedOnlyIfBusy'
  BY <1>0, <1>1, <1>2 DEF QueuedOnlyIfBusy, p
<1>16. HerdOK' /\ MaxInv'
  BY <1>1, <1>2, <1>4, CallFrame
<1> QED
  BY <1>4, <1>11, <1>12, <1>13, <1>14, <1>15, <1>16 DEF PoolInv

\* The request is handed to the thread, after the mutex was dropped.
LEMMA StepHandOver ==
  ASSUME PoolInv, NEW c \in Caller, HandOver(c)
  PROVE  PoolInv'
<1>0. TypeOK /\ OneHolder /\ Kept /\ WrqOK /\ QueuedOnlyIfBusy /\ OneWaker /\ Waits
  BY DEF PoolInv
<1> DEFINE r == caller[c].req
           w == caller[c].w
<1>1. /\ caller[c].pc = "hand" /\ r \in Request /\ w \in Worker
      /\ wrq' = [wrq EXCEPT ![w] = r]
      /\ caller' = [caller EXCEPT ![c] = [pc |-> "signal", req |-> NoRequest, p |-> caller[c].p, w |-> w]]
      /\ UNCHANGED <<wpc, wpool, listVars, pending, nq, paramVars, herderVars, timer>>
  BY <1>0 DEF HandOver, WrqOK
<1>2. /\ caller'[c].pc = "signal" /\ caller'[c].w = w /\ \A d \in Caller : d # c => caller'[d] = caller[d]
      /\ UNCHANGED <<idle, queue>>
      /\ wrq'[w] = r /\ \A v \in Worker : v # w => wrq'[v] = wrq[v]
  BY <1>0, <1>1 DEF TypeOK, listVars
<1>3. TypeOK'
  <2>1. caller' \in [Caller -> [pc : CallerPc, req : Request \cup {NoRequest},
                              p : Pool, w : Worker \cup {NoWorker}]]
    BY <1>0, <1>1 DEF TypeOK, CallerPc
  <2>2. wrq' \in [Worker -> Request \cup {NoRequest}]
    BY <1>0, <1>1 DEF TypeOK
  <2> QED
    BY <2>1, <2>2, <1>0, <1>1, <1>2 DEF TypeOK, paramVars, herderVars
<1>4. \A d \in Caller, s \in Request : Holding(d, s)' <=> (Holding(d, s) /\ d # c)
  BY <1>2 DEF Holding
<1>5. Holding(c, r) /\ \A d \in Caller, s \in Request : d = c /\ Holding(d, s) => s = r
  BY <1>1 DEF Holding
<1>6. Handles(c, w) /\ \A d \in Caller, v \in Worker : Handles(d, v)' <=> Handles(d, v)
  BY <1>1, <1>2 DEF Handles
<1>7. wpc[w] = "wait"
  BY <1>0, <1>1, <1>6 DEF Waits, Waited
<1>8. \A d \in Caller : caller[d].pc = "signal" => caller[d].w # w
  BY <1>0, <1>1, <1>6 DEF OneWaker, Handles
<1> HIDE DEF r, w
<1>9. wrq[w] = NoRequest
  BY <1>0, <1>1, <1>7, <1>8 DEF WrqOK
<1>10. /\ \A v \in Worker : wrq[v] # r
       /\ \A d \in Caller : Holding(d, r) => d = c
       /\ \A q \in Pool : \A i \in DOMAIN queue[q] : queue[q][i] # r
  BY <1>0, <1>1, <1>5 DEF OneHolder
<1>11. OneHolder'
  <2>1. \A s \in Request, d, e \in Caller : Holding(d, s)' /\ Holding(e, s)' => d = e
    BY <1>0, <1>4 DEF OneHolder
  <2>2. \A v, x \in Worker : wrq'[v] = wrq'[x] /\ wrq'[v] # NoRequest => v = x
    BY <1>0, <1>2, <1>10 DEF OneHolder
  <2>3. \A s \in Request, d \in Caller, v \in Worker : ~(Holding(d, s)' /\ wrq'[v] = s)
    BY <1>0, <1>2, <1>4, <1>10 DEF OneHolder
  <2>4. \A s \in Request, d \in Caller, q \in Pool : \A i \in DOMAIN queue[q] :
          ~(Holding(d, s)' /\ queue[q][i] = s)
    BY <1>0, <1>4 DEF OneHolder
  <2>5. \A v \in Worker, q \in Pool : \A i \in DOMAIN queue[q] : wrq'[v] # queue[q][i]
    BY <1>0, <1>2, <1>10 DEF OneHolder
  <2> QED
    BY <2>1, <2>2, <2>3, <2>4, <2>5, <1>0, <1>2 DEF OneHolder
<1>12. Kept'
  <2> SUFFICES ASSUME NEW s \in Request PROVE s \in pending' <=> Held(s)'
    BY DEF Kept
  <2>1. Held(s) => Held(s)'
    BY <1>1, <1>2, <1>4, <1>5, <1>9, PoolAssumption DEF Held
  <2>2. Held(s)' => Held(s)
    BY <1>1, <1>2, <1>4, <1>5 DEF Held
  <2> QED
    BY <2>1, <2>2, <1>0, <1>1 DEF Kept
<1>13. OneWaker' /\ Waits'
  BY <1>1, <1>2, <1>6, WakerFrame DEF Kissed
<1>14. WrqOK'
  <2>1. r # NoRequest
    BY <1>1, PoolAssumption
  <2> QED
    BY <2>1, <1>0, <1>1, <1>2, <1>8 DEF WrqOK
<1>15. QueuedOnlyIfBusy'
  BY <1>0, <1>2 DEF QueuedOnlyIfBusy
<1>16. HerdOK' /\ MaxInv'
  BY <1>1, <1>3, CallFrame
<1> QED
  BY <1>3, <1>11, <1>12, <1>13, <1>14, <1>15, <1>16 DEF PoolInv

\* The caller signals the thread it has given a request.
LEMMA StepTickle ==
  ASSUME PoolInv, NEW c \in Caller, Tickle(c)
  PROVE  PoolInv'
<1>0. TypeOK /\ OneHolder /\ Kept /\ WrqOK /\ QueuedOnlyIfBusy /\ OneWaker /\ Waits
  BY DEF PoolInv
<1> DEFINE w == caller[c].w
<1>1. /\ caller[c].pc = "signal" /\ w \in Worker
      /\ wpc' = [wpc EXCEPT ![w] = IF wpc[w] = "wait" THEN "woken" ELSE wpc[w]]
      /\ caller' = [caller EXCEPT ![c] = IdleCall]
      /\ UNCHANGED <<wpool, wrq, listVars, pending, nq, paramVars, herderVars, timer>>
  BY <1>0 DEF Tickle, Signal, WrqOK
<1>2. /\ caller'[c].pc = "idle" /\ \A d \in Caller : d # c => caller'[d] = caller[d]
      /\ UNCHANGED <<idle, queue>>
  BY <1>0, <1>1 DEF TypeOK, listVars, IdleCall
<1>3. Handles(c, w) /\ \A v \in Worker : Handles(c, v) => v = w
  BY <1>1 DEF Handles
<1>4. wpc[w] = "wait"
  BY <1>0, <1>1, <1>3 DEF Waits, Waited
<1>5. wpc'[w] = "woken" /\ \A v \in Worker : v # w => wpc'[v] = wpc[v]
  BY <1>0, <1>1, <1>4 DEF TypeOK
<1>6. TypeOK'
  <2>1. IdleCall \in [pc : CallerPc, req : Request \cup {NoRequest}, p : Pool, w : Worker \cup {NoWorker}]
    BY PoolAssumption DEF IdleCall, CallerPc, Pool
  <2>2. caller' \in [Caller -> [pc : CallerPc, req : Request \cup {NoRequest},
                              p : Pool, w : Worker \cup {NoWorker}]]
    BY <2>1, <1>0, <1>1 DEF TypeOK
  <2>3. wpc' \in [Worker -> WorkerPc]
    BY <1>0, <1>1 DEF TypeOK, WorkerPc
  <2> QED
    BY <2>2, <2>3, <1>0, <1>1, <1>2 DEF TypeOK, paramVars, herderVars
<1>7. \A d \in Caller, v \in Worker : Handles(d, v)' <=> (Handles(d, v) /\ d # c)
  BY <1>2 DEF Handles
<1> HIDE DEF w
<1>8. OneHolder' /\ Kept'
  <2>1. \A d \in Caller, s \in Request : Holding(d, s)' <=> Holding(d, s)
    BY <1>1, <1>2 DEF Holding
  <2> QED
    BY <2>1, <1>1, <1>2, RequestFrame
<1>9. OneWaker'
  <2>1. \A p \in Pool : \A i \in DOMAIN idle[p] : idle[p][i] \in Worker
    BY <1>0 DEF TypeOK
  <2>2. \A v \in Worker : Kissed(v)' <=> Kissed(v)
    BY <1>1 DEF Kissed
  <2>3. \A p \in Pool : \A i \in DOMAIN idle[p] :
         /\ wpool'[idle[p][i]] = p
         /\ ~(timer'.pc = "kiss" /\ timer'.w = idle[p][i])
         /\ \A d \in Caller : ~(caller'[d].pc \in {"hand", "signal"} /\ caller'[d].w = idle[p][i])
    BY <1>0, <1>1, <1>2 DEF OneWaker, Kissed, Handles
  <2> QED
    BY <2>1, <2>2, <2>3, <1>0, <1>2, <1>7 DEF OneWaker, Handles, Kissed
<1>10. Waits'
  <2> SUFFICES ASSUME NEW v \in Worker PROVE wpc'[v] = "wait" <=> Waited(v)'
    BY DEF Waits
  <2>1. Kissed(v)' <=> Kissed(v)
    BY <1>1 DEF Kissed
  <2>2. CASE v = w
    <3>1. ~Kissed(v) /\ \A d \in Caller : Handles(d, v) => d = c
      BY <2>2, <1>0, <1>1, <1>3 DEF OneWaker
    <3>2. \A p \in Pool : \A i \in DOMAIN idle[p] : idle[p][i] # v
      BY <2>2, <1>0, <1>3 DEF OneWaker
    <3> QED
      BY <2>1, <2>2, <3>1, <3>2, <1>2, <1>5, <1>7 DEF Waited
  <2>3. CASE v # w
    <3>1. \A d \in Caller : Handles(d, v)' <=> Handles(d, v)
      BY <2>3, <1>3, <1>7
    <3>2. Waited(v)' <=> Waited(v)
      BY <2>1, <3>1, <1>2 DEF Waited
    <3> QED
      BY <2>3, <3>2, <1>0, <1>5 DEF Waits
  <2> QED
    BY <2>2, <2>3
<1>11. WrqOK'
  <2>1. ASSUME NEW v \in Worker, wrq[v] # NoRequest
        PROVE  wpc'[v] \in {"run", "woken"} \/ \E d \in Caller : caller'[d].pc = "signal" /\ caller'[d].w = v
    <3>1. CASE v = w
      BY <3>1, <1>5
    <3>2. CASE v # w
      BY <2>1, <3>2, <1>0, <1>2, <1>3, <1>5 DEF WrqOK, Handles
    <3> QED
      BY <3>1, <3>2
  <2> QED
    BY <2>1, <1>0, <1>1, <1>2 DEF WrqOK
<1>12. QueuedOnlyIfBusy' /\ HerdOK'
  BY <1>1, <1>2 DEF PoolInv, QueuedOnlyIfBusy, HerdOK, paramVars, herderVars
<1>13. MaxInv'
  BY <1>1, <1>4, <1>5, <1>6, MaxFrame DEF PoolInv, MaxInv, paramVars, herderVars
<1> QED
  BY <1>6, <1>8, <1>9, <1>10, <1>11, <1>12, <1>13 DEF PoolInv

-----------------------------------------------------------------------------
(* Herding.                                                                *)

\* What holds after a step that touches neither threads nor requests.
LEMMA HerdFrame ==
  ASSUME PoolInv, UNCHANGED <<workerVars, listVars, pending>>, TypeOK', HerdOK', MaxInv',
         \A c \in Caller : \/ caller'[c] = caller[c]
                           \/ caller[c].pc = "herder" /\ caller'[c].pc = "idle",
         \A w \in Worker : Kissed(w)' <=> Kissed(w)
  PROVE  PoolInv'
<1>0. TypeOK /\ OneHolder /\ Kept /\ WrqOK /\ QueuedOnlyIfBusy /\ OneWaker /\ Waits
  BY DEF PoolInv
<1>1. UNCHANGED <<wpc, wpool, wrq, idle, queue>>
  BY DEF workerVars, listVars
<1>2. OneHolder' /\ Kept'
  <2>1. \A d \in Caller, s \in Request : Holding(d, s)' <=> Holding(d, s)
    BY DEF Holding
  <2> QED
    BY <2>1, <1>1, RequestFrame
<1>3. OneWaker' /\ Waits'
  <2>1. \A d \in Caller, v \in Worker : Handles(d, v)' <=> Handles(d, v)
    BY DEF Handles
  <2> QED
    BY <2>1, <1>1, WakerFrame
<1>4. WrqOK' /\ QueuedOnlyIfBusy'
  BY <1>0, <1>1 DEF WrqOK, QueuedOnlyIfBusy
<1> QED
  BY <1>2, <1>3, <1>4 DEF PoolInv

\* A caller signals the herder.
LEMMA StepSignalHerder ==
  ASSUME PoolInv, NEW c \in Caller, SignalHerder(c)
  PROVE  PoolInv'
<1>0. TypeOK /\ HerdOK /\ MaxInv
  BY DEF PoolInv
<1>1. /\ caller[c].pc = "herder"
      /\ UNCHANGED <<workerVars, listVars, pending, nq, paramVars, last_lqueue, timer>>
      /\ caller' = [caller EXCEPT ![c] = IdleCall]
      /\ herder' = [herder EXCEPT !.pc = IF herder.pc = "wait" THEN "next" ELSE herder.pc]
  BY DEF SignalHerder
<1>2. /\ herder' \in [pc : HerderPc, u : Pool, w : 0 .. MaxPools, fill : BOOLEAN]
      /\ herder'.pc = IF herder.pc = "wait" THEN "next" ELSE herder.pc
      /\ herder'.fill = herder.fill /\ herder'.w = herder.w
  BY <1>0, <1>1 DEF TypeOK, HerderPc
<1>3. TypeOK'
  <2>1. IdleCall \in [pc : CallerPc, req : Request \cup {NoRequest}, p : Pool, w : Worker \cup {NoWorker}]
    BY PoolAssumption DEF IdleCall, CallerPc, Pool
  <2>2. caller' \in [Caller -> [pc : CallerPc, req : Request \cup {NoRequest},
                              p : Pool, w : Worker \cup {NoWorker}]]
    BY <2>1, <1>0, <1>1 DEF TypeOK
  <2> QED
    BY <2>2, <1>0, <1>1, <1>2 DEF TypeOK, paramVars, workerVars, listVars
<1>4. HerdOK'
  BY <1>0, <1>1, <1>2 DEF HerdOK, paramVars
<1>5. MaxInv'
  BY <1>0, <1>1, <1>2, <1>3, MaxFrame DEF MaxInv, paramVars, workerVars
<1>6. caller'[c].pc = "idle" /\ \A d \in Caller : d # c => caller'[d] = caller[d]
  BY <1>0, <1>1 DEF TypeOK, IdleCall
<1> QED
  BY <1>1, <1>3, <1>4, <1>5, <1>6, HerdFrame DEF Kissed

\* The herder goes round without creating a thread.
LEMMA StepHerd ==
  ASSUME PoolInv, HerderSlept \/ HerderFill \/ HerderWait \/ HerderNext
  PROVE  PoolInv'
<1>0. TypeOK /\ HerdOK /\ MaxInv
  BY DEF PoolInv
<1>1. UNCHANGED <<workerVars, listVars, callVars, paramVars, timer>>
  BY DEF HerderSlept, HerderFill, HerderWait, HerderNext
<1>2. MaxPools \in Nat /\ Pool = 0 .. MaxPools - 1 /\ nwq \in 1 .. MaxPools
      /\ herder.w \in 0 .. MaxPools /\ herder.u \in 0 .. MaxPools - 1
  BY <1>0, PoolAssumption DEF TypeOK, Pool
<1>3. /\ herder' \in [pc : HerderPc, u : Pool, w : 0 .. MaxPools, fill : BOOLEAN]
      /\ herder'.fill => herder'.w \in Pool
      /\ herder'.pc = "fill" => ~herder'.fill
      /\ herder.pc = "slept" /\ herder'.pc # "slept" => (TimelyStart => ~Starting)
      /\ last_lqueue' \in [Pool -> Nat]
  <2>1. CASE HerderSlept
    <3>1. BreedPool \in Pool
      BY <1>0, <1>2 DEF BreedPool, HerdOK
    <3>2. lqueue(BreedPool) \in Nat
      BY <3>1, <1>0 DEF TypeOK, lqueue
    <3>3. last_lqueue' \in [Pool -> Nat]
      BY <2>1, <3>1, <3>2, <1>0 DEF HerderSlept, TypeOK
    <3>4. herder' = [pc |-> "fill", u |-> herder.u, w |-> IF herder.fill THEN herder.w ELSE 0, fill |-> FALSE]
      BY <2>1, <1>0 DEF HerderSlept, TypeOK
    <3>5. (IF herder.fill THEN herder.w ELSE 0) \in 0 .. MaxPools
      BY <1>2
    <3> QED
      BY <2>1, <3>3, <3>4, <3>5, <1>0 DEF HerderSlept, TypeOK, HerderPc
  <2>2. CASE HerderFill
    <3>1. herder.pc = "fill" /\ ~herder.fill
      BY <2>2, <1>0 DEF HerderFill, HerdOK
    <3>2. CASE herder.w >= nwq
      <4>1. herder' = [herder EXCEPT !.pc = "lock", !.w = 0]
        BY <2>2, <3>2 DEF HerderFill
      <4>2. 0 \in 0 .. MaxPools
        BY <1>2
      <4> QED
        BY <2>2, <4>1, <4>2, <3>1, <1>0 DEF TypeOK, HerderPc, HerderFill
    <3>3. CASE ~(herder.w >= nwq) /\ Short(herder.w)
      <4>1. herder' = [herder EXCEPT !.pc = "breed", !.fill = TRUE]
        BY <2>2, <3>3 DEF HerderFill
      <4>2. herder.w \in Pool
        BY <3>3, <1>2
      <4> QED
        BY <2>2, <4>1, <4>2, <3>1, <1>0 DEF TypeOK, HerderPc, HerderFill
    <3>4. CASE ~(herder.w >= nwq) /\ ~Short(herder.w)
      <4>1. herder' = [herder EXCEPT !.w = herder.w + 1]
        BY <2>2, <3>4 DEF HerderFill
      <4>2. herder.w + 1 \in 0 .. MaxPools
        BY <3>4, <1>2
      <4> QED
        BY <2>2, <4>1, <4>2, <3>1, <1>0 DEF TypeOK, HerderPc, HerderFill
    <3> QED
      BY <3>2, <3>3, <3>4
  <2>3. CASE HerderWait
    BY <2>3, <1>0 DEF HerderWait, TypeOK, HerderPc, HerdOK
  <2>4. CASE HerderNext
    <3>1. (IF herder.u + 1 < nwq THEN herder.u + 1 ELSE 0) \in Pool
      BY <1>2
    <3>2. 0 \in 0 .. MaxPools
      BY <1>2
    <3> QED
      BY <2>4, <3>1, <3>2, <1>0 DEF HerderNext, TypeOK, HerderPc
  <2> QED
    BY <2>1, <2>2, <2>3, <2>4
<1>4. TypeOK'
  BY <1>0, <1>1, <1>3 DEF TypeOK, workerVars, listVars, callVars, paramVars
<1>5. HerdOK'
  BY <1>0, <1>1, <1>3 DEF HerdOK, paramVars
<1>6. MaxInv'
  BY <1>0, <1>1, <1>3, <1>4, MaxFrame DEF MaxInv, paramVars, workerVars
<1> QED
  BY <1>1, <1>4, <1>5, <1>6, HerdFrame DEF Kissed, callVars

\* wrk_breed_flock creates a thread only where there is room for it.
LEMMA StepBreed ==
  ASSUME PoolInv, wrk_breed_flock
  PROVE  PoolInv'
<1>0. TypeOK /\ HerdOK /\ MaxInv /\ WrqOK /\ Waits /\ QueuedOnlyIfBusy
  BY DEF PoolInv
<1> DEFINE p == BreedPool
<1>1. /\ herder.pc = "breed"
      /\ UNCHANGED <<wrq, listVars, callVars, paramVars, last_lqueue, timer>>
      /\ herder' \in [pc : HerderPc, u : Pool, w : 0 .. MaxPools, fill : BOOLEAN]
      /\ herder'.pc = "slept" /\ herder'.fill = herder.fill /\ herder'.w = herder.w
  BY <1>0 DEF wrk_breed_flock, TypeOK, HerderPc
<1>2. HerdOK'
  BY <1>0, <1>1 DEF HerdOK, paramVars
<1>3. p \in Pool
  BY <1>0 DEF BreedPool, HerdOK, TypeOK
<1>4. CASE UNCHANGED <<wpc, wpool>>
  <2>1. TypeOK'
    BY <1>0, <1>1, <1>4 DEF TypeOK, listVars, callVars, paramVars
  <2>2. MaxInv'
    BY <1>0, <1>1, <1>4, <2>1, MaxFrame DEF MaxInv, paramVars
  <2> QED
    BY <1>1, <1>2, <1>4, <2>1, <2>2, HerdFrame DEF workerVars, Kissed, callVars
<1>5. CASE ~UNCHANGED <<wpc, wpool>>
  <2> DEFINE w == NewThread
  <2>1. /\ Wanted(p) /\ HasSpace(p) /\ \E v \in Worker : wpc[v] = "free"
        /\ wpc' = [wpc EXCEPT ![w] = "created"] /\ wpool' = [wpool EXCEPT ![w] = p]
    BY <1>5 DEF wrk_breed_flock
  <2>2. w \in Worker /\ wpc[w] = "free"
    BY <2>1 DEF NewThread
  <2> HIDE DEF w, p
  <2>3. /\ wpc'[w] = "created" /\ \A v \in Worker : v # w => wpc'[v] = wpc[v] /\ wpool'[v] = wpool[v]
        /\ wpool'[w] = p
    BY <2>1, <2>2, <1>0 DEF TypeOK
  <2>4. TypeOK'
    <3>1. wpc' \in [Worker -> WorkerPc] /\ wpool' \in [Worker -> Pool]
      BY <2>1, <1>0, <1>3 DEF TypeOK, WorkerPc
    <3> QED
      BY <3>1, <1>0, <1>1 DEF TypeOK, listVars, callVars, paramVars
  <2>5. OneHolder' /\ Kept'
    BY <1>1, RequestFrame DEF Holding, callVars, listVars
  <2>6. OneWaker' /\ Waits'
    BY <2>2, <2>3, <1>1, WakerFrame DEF Handles, Kissed, callVars, listVars
  <2>7. WrqOK'
    BY <2>2, <2>3, <1>0, <1>1 DEF WrqOK, callVars
  <2>8. QueuedOnlyIfBusy'
    BY <1>0, <1>1 DEF QueuedOnlyIfBusy, listVars
  <2>9. MaxInv'
    <3> SUFFICES ASSUME TimelyStart, NEW q \in Pool PROVE Cardinality(Threads(q)') <= Top
      BY <1>0, <1>1 DEF MaxInv, paramVars
    <3>0. Top \in Nat /\ nthr_max <= Top
      BY <1>0, PoolAssumption DEF Top, MaxInv
    <3>1. CASE q = p
      <4>1. Threads(q) = {v \in Worker : wpool[v] = q /\ wpc[v] \in Counted}
        <5>1. ~Starting
          BY <1>0, <1>1 DEF MaxInv
        <5> QED
          BY <5>1, <1>0 DEF Threads, Starting, Counted, TypeOK, WorkerPc
      <4>2. Cardinality(Threads(q)) < nthr_max
        BY <2>1, <3>1, <4>1 DEF HasSpace, nthr
      <4>3. Threads(q)' = Threads(q) \cup {w} /\ w \notin Threads(q) /\ Threads(q) \subseteq Worker
        BY <2>2, <2>3, <3>1 DEF Threads
      <4>4. IsFiniteSet(Threads(q)) /\ Cardinality(Threads(q)) \in Nat
        BY <4>3, FS_Subset, FS_CardinalityType, PoolAssumption
      <4>5. Cardinality(Threads(q)') = Cardinality(Threads(q)) + 1
        BY <4>3, <4>4, FS_AddElement
      <4>6. nthr_max \in Nat
        BY <1>0 DEF TypeOK
      <4> QED
        BY <3>0, <4>2, <4>4, <4>5, <4>6
    <3>2. CASE q # p
      <4>1. Threads(q)' = Threads(q)
        BY <2>2, <2>3, <3>2 DEF Threads
      <4> QED
        BY <4>1, <1>0 DEF MaxInv
    <3> QED
      BY <3>1, <3>2
  <2> QED
    BY <1>2, <2>4, <2>5, <2>6, <2>7, <2>8, <2>9 DEF PoolInv
<1> QED
  BY <1>4, <1>5

\* thread_pools is raised, the limits are scaled, or the herd timer goes on.
LEMMA StepTimer ==
  ASSUME PoolInv, ParamSetPools \/ TimerScale \/ TimerSlept
                  \/ (wrk_decimate_flock /\ timer'.pc # "kiss")
  PROVE  PoolInv'
<1>0. TypeOK /\ HerdOK /\ MaxInv
  BY DEF PoolInv
<1>1. UNCHANGED <<workerVars, queue, callVars, herderVars>>
  BY DEF ParamSetPools, TimerScale, TimerSlept, wrk_decimate_flock, listVars
<1>2. /\ MaxPools \in Nat /\ nwq \in 1 .. MaxPools /\ wthread_pools \in 1 .. MaxPools
      /\ timer.u \in 0 .. MaxPools /\ Top \in Nat
  BY <1>0, PoolAssumption DEF TypeOK, Top
<1>3. /\ timer' \in [pc : TimerPc, u : 0 .. MaxPools, w : Worker \cup {NoWorker}]
      /\ nwq' \in 1 .. MaxPools /\ wthread_pools' \in 1 .. MaxPools
      /\ nthr_max' \in {0, Top} /\ queue_max' \in Nat
      /\ timer'.pc \in {"kiss", "sleep"} => timer'.u < nwq'
      /\ timer'.pc = "kiss" <=> timer.pc = "kiss"
      /\ timer.pc = "kiss" => timer'.w = timer.w
      /\ UNCHANGED idle
  <2>1. CASE ParamSetPools
    <3>1. wthread_pools' \in 1 .. MaxPools
      BY <2>1, <1>2 DEF ParamSetPools
    <3> QED
      BY <2>1, <3>1, <1>0 DEF ParamSetPools, TypeOK, HerdOK, MaxInv, listVars
  <2>2. CASE TimerScale
    <3>1. nwq' \in 1 .. MaxPools
      BY <2>2, <1>2 DEF TimerScale
    <3>2. nthr_max' = Top
      BY <2>2 DEF TimerScale, Top
    <3>3. queue_max' \in Nat
      BY <2>2, <3>2, <1>2, PoolAssumption DEF TimerScale
    <3>4. timer' = [pc |-> "flock", u |-> 0, w |-> NoWorker] /\ 0 \in 0 .. MaxPools
      BY <2>2, <1>2 DEF TimerScale
    <3>5. timer.pc = "scale" /\ UNCHANGED <<wthread_pools, idle>>
      BY <2>2 DEF TimerScale, listVars
    <3> QED
      BY <3>1, <3>2, <3>3, <3>4, <3>5, <1>2 DEF TimerPc
  <2>3. CASE TimerSlept
    <3>1. UNCHANGED <<idle, nwq, wthread_pools, nthr_max, queue_max>>
      BY <2>3 DEF TimerSlept, listVars, paramVars
    <3>2. CASE timer.pc = "sleep"
      <4>1. timer' = [timer EXCEPT !.pc = "flock", !.u = timer.u + 1]
        BY <2>3, <3>2 DEF TimerSlept
      <4>2. timer.u + 1 \in 0 .. MaxPools
        BY <3>2, <1>0, <1>2 DEF HerdOK
      <4> QED
        BY <3>1, <3>2, <4>1, <4>2, <1>0 DEF TypeOK, TimerPc, MaxInv
    <3>3. CASE timer.pc = "flock"
      <4>1. timer' = [timer EXCEPT !.pc = "scale", !.u = 0]
        BY <2>3, <3>3 DEF TimerSlept
      <4>2. 0 \in 0 .. MaxPools
        BY <1>2
      <4> QED
        BY <3>1, <3>3, <4>1, <4>2, <1>0 DEF TypeOK, TimerPc, MaxInv
    <3> QED
      BY <2>3, <3>2, <3>3 DEF TimerSlept
  <2>4. CASE wrk_decimate_flock /\ timer'.pc # "kiss"
    <3>1. UNCHANGED <<nwq, wthread_pools, nthr_max, queue_max>> /\ timer.pc = "flock" /\ timer.u < nwq
      BY <2>4 DEF wrk_decimate_flock, paramVars
    <3>2. timer' = [timer EXCEPT !.u = timer.u + 1] /\ UNCHANGED idle
      BY <2>4, <1>0 DEF wrk_decimate_flock, TypeOK
    <3>3. timer.u + 1 \in 0 .. MaxPools
      BY <3>1, <1>2
    <3> QED
      BY <3>1, <3>2, <3>3, <1>0 DEF TypeOK, TimerPc, MaxInv
  <2> QED
    BY <2>1, <2>2, <2>3, <2>4
<1>4. TypeOK'
  <2>1. nthr_max' \in Nat
    BY <1>2, <1>3
  <2> QED
    BY <2>1, <1>0, <1>1, <1>3 DEF TypeOK, workerVars, callVars, herderVars
<1>5. HerdOK'
  BY <1>0, <1>1, <1>3 DEF HerdOK, herderVars
<1>6. MaxInv'
  BY <1>0, <1>1, <1>3, <1>4, MaxFrame DEF MaxInv, workerVars, herderVars
<1>7. \A w \in Worker : Kissed(w)' <=> Kissed(w)
  BY <1>3 DEF Kissed
<1> QED
  BY <1>1, <1>3, <1>4, <1>5, <1>6, <1>7, HerdFrame DEF callVars, listVars

\* The thread idle longest is taken off its list to be retired.
LEMMA StepDecimate ==
  ASSUME PoolInv, wrk_decimate_flock, timer'.pc = "kiss"
  PROVE  PoolInv'
<1>0. TypeOK /\ OneHolder /\ Kept /\ WrqOK /\ QueuedOnlyIfBusy /\ OneWaker /\ Waits /\ HerdOK
  BY DEF PoolInv
<1> DEFINE p == timer.u
           w == Last(idle[p])
           n == Len(idle[p])
<1>1. /\ timer.pc = "flock" /\ p < nwq /\ UNCHANGED <<workerVars, queue, callVars, paramVars, herderVars>>
      /\ idle[p] # <<>> /\ timer' = [timer EXCEPT !.pc = "kiss", !.w = w]
      /\ idle' = [idle EXCEPT ![p] = WithoutLast(idle[p])]
  BY <1>0 DEF wrk_decimate_flock, TypeOK
<1>2. p \in Pool
  <2>1. timer.u \in 0 .. MaxPools /\ nwq \in 1 .. MaxPools /\ MaxPools \in Nat
    BY <1>0, PoolAssumption DEF TypeOK
  <2> QED
    BY <2>1, <1>1 DEF Pool
<1>3. idle[p] \in Seq(Worker)
  BY <1>0, <1>2 DEF TypeOK
<1>4. /\ WithoutLast(idle[p]) \in Seq(Worker) /\ w \in Worker
      /\ n \in DOMAIN idle[p] /\ idle[p][n] = w
      /\ \A i \in DOMAIN WithoutLast(idle[p]) :
           i \in DOMAIN idle[p] /\ WithoutLast(idle[p])[i] = idle[p][i] /\ i # n
      /\ \A i \in DOMAIN idle[p] : i # n => i \in DOMAIN WithoutLast(idle[p])
  BY <1>1, <1>3, WithoutLastOK
<1>5. /\ idle'[p] = WithoutLast(idle[p]) /\ \A q \in Pool : q # p => idle'[q] = idle[q]
      /\ timer'.pc = "kiss" /\ timer'.w = w /\ timer'.u = p
      /\ UNCHANGED <<wpc, wpool, wrq, caller, pending, nwq>>
  BY <1>0, <1>1, <1>2 DEF TypeOK, workerVars, callVars, paramVars
<1>6. TypeOK'
  <2>1. timer' \in [pc : TimerPc, u : 0 .. MaxPools, w : Worker \cup {NoWorker}]
    BY <1>0, <1>1, <1>4 DEF TypeOK, TimerPc
  <2>2. idle' \in [Pool -> Seq(Worker)]
    BY <1>0, <1>1, <1>4 DEF TypeOK
  <2> QED
    BY <2>1, <2>2, <1>0, <1>1 DEF TypeOK, workerVars, callVars, paramVars, herderVars
<1> HIDE DEF p, w, n
<1>7. \A q \in Pool : \A i \in DOMAIN idle'[q] :
        i \in DOMAIN idle[q] /\ idle[q][i] = idle'[q][i] /\ (q = p => i # n)
  BY <1>4, <1>5
<1>8. \A q \in Pool : \A i \in DOMAIN idle[q] :
        (q = p /\ i = n) \/ (i \in DOMAIN idle'[q] /\ idle'[q][i] = idle[q][i])
  BY <1>4, <1>5
<1>9. \A q \in Pool : \A i \in DOMAIN idle'[q] : idle'[q][i] # w
  BY <1>0, <1>2, <1>4, <1>7 DEF OneWaker
<1>10. \A c \in Caller : ~Handles(c, w)
  BY <1>0, <1>2, <1>4 DEF OneWaker
<1>11. \A v : ~Kissed(v) /\ (Kissed(v)' <=> v = w)
  BY <1>1, <1>5 DEF Kissed
<1>12. OneWaker'
  <2>1. \A q, x \in Pool : \A i \in DOMAIN idle'[q], k \in DOMAIN idle'[x] :
          idle'[q][i] = idle'[x][k] => q = x /\ i = k
    BY <1>0, <1>7 DEF OneWaker
  <2>2. \A q \in Pool : \A i \in DOMAIN idle'[q] :
          /\ wpool[idle'[q][i]] = q /\ idle'[q][i] # w
          /\ \A d \in Caller : ~Handles(d, idle'[q][i])
    BY <1>0, <1>7, <1>9 DEF OneWaker
  <2>3. \A d \in Caller, v \in Worker : Handles(d, v)' <=> Handles(d, v)
    BY <1>5 DEF Handles
  <2>4. \A v \in Worker, d \in Caller : ~(Handles(d, v)' /\ Kissed(v)')
    BY <2>3, <1>10, <1>11
  <2>5. \A v \in Worker, c, d \in Caller : Handles(c, v)' /\ Handles(d, v)' => c = d
    BY <2>3, <1>0 DEF OneWaker
  <2> QED
    BY <2>1, <2>2, <2>4, <2>5, <1>5 DEF OneWaker, Handles, Kissed
<1>13. Waits'
  <2> SUFFICES ASSUME NEW v \in Worker PROVE wpc'[v] = "wait" <=> Waited(v)'
    BY DEF Waits
  <2>0. \A d \in Caller : Handles(d, v)' <=> Handles(d, v)
    BY <1>5 DEF Handles
  <2>1. Waited(v) => Waited(v)'
    BY <2>0, <1>4, <1>8, <1>11 DEF Waited
  <2>2. Waited(v)' => Waited(v)
    BY <2>0, <1>2, <1>4, <1>7, <1>11 DEF Waited
  <2> QED
    BY <2>1, <2>2, <1>0, <1>5 DEF Waits
<1>14. OneHolder' /\ Kept'
  BY <1>1, <1>5, RequestFrame DEF Holding
<1>15. WrqOK'
  BY <1>0, <1>5 DEF WrqOK
<1>16. QueuedOnlyIfBusy'
  BY <1>0, <1>1, <1>2, <1>5 DEF QueuedOnlyIfBusy
<1>17. HerdOK'
  BY <1>0, <1>1, <1>4, <1>5 DEF HerdOK, herderVars
<1>18. MaxInv'
  BY <1>1, <1>5, <1>6, MaxFrame DEF PoolInv, MaxInv, herderVars, paramVars
<1> QED
  BY <1>6, <1>12, <1>13, <1>14, <1>15, <1>16, <1>17, <1>18 DEF PoolInv

\* The thread to retire is signalled.
LEMMA StepKiss ==
  ASSUME PoolInv, TimerKiss
  PROVE  PoolInv'
<1>0. TypeOK /\ OneHolder /\ Kept /\ WrqOK /\ QueuedOnlyIfBusy /\ OneWaker /\ Waits /\ HerdOK
  BY DEF PoolInv
<1> DEFINE w == timer.w
<1>1. /\ timer.pc = "kiss" /\ w \in Worker
      /\ wpc' = [wpc EXCEPT ![w] = IF wpc[w] = "wait" THEN "woken" ELSE wpc[w]]
      /\ timer' = [timer EXCEPT !.pc = "sleep", !.w = NoWorker]
      /\ UNCHANGED <<wpool, wrq, listVars, callVars, paramVars, herderVars>>
  BY <1>0 DEF TimerKiss, Signal, HerdOK
<1>2. /\ timer'.pc = "sleep" /\ timer'.u = timer.u
      /\ UNCHANGED <<idle, queue, caller, pending, nwq>>
  BY <1>0, <1>1 DEF TypeOK, listVars, callVars, paramVars
<1>3. Kissed(w) /\ \A v \in Worker : (Kissed(v) <=> v = w) /\ ~Kissed(v)'
  BY <1>1, <1>2 DEF Kissed
<1>4. wpc[w] = "wait"
  BY <1>0, <1>1, <1>3 DEF Waits, Waited
<1>5. wpc'[w] = "woken" /\ \A v \in Worker : v # w => wpc'[v] = wpc[v]
  BY <1>0, <1>1, <1>4 DEF TypeOK
<1>6. TypeOK'
  <2>1. timer' \in [pc : TimerPc, u : 0 .. MaxPools, w : Worker \cup {NoWorker}]
    BY <1>0, <1>1 DEF TypeOK, TimerPc
  <2>2. wpc' \in [Worker -> WorkerPc]
    BY <1>0, <1>1 DEF TypeOK, WorkerPc
  <2> QED
    BY <2>1, <2>2, <1>0, <1>1, <1>2 DEF TypeOK, paramVars, herderVars, callVars
<1> HIDE DEF w
<1>7. OneHolder' /\ Kept'
  BY <1>1, <1>2, RequestFrame DEF Holding
<1>8. \A d \in Caller, v \in Worker : Handles(d, v)' <=> Handles(d, v)
  BY <1>2 DEF Handles
<1>9. OneWaker'
  <2>1. \A p \in Pool : \A i \in DOMAIN idle[p] :
         /\ wpool'[idle[p][i]] = p
         /\ ~(timer'.pc = "kiss" /\ timer'.w = idle[p][i])
         /\ \A d \in Caller : ~(caller'[d].pc \in {"hand", "signal"} /\ caller'[d].w = idle[p][i])
    BY <1>0, <1>1, <1>2 DEF OneWaker, Handles
  <2>2. \A v \in Worker, d \in Caller : ~(Handles(d, v)' /\ Kissed(v)')
    BY <1>3
  <2> QED
    BY <2>1, <2>2, <1>0, <1>2, <1>8 DEF OneWaker, Handles, Kissed
<1>10. Waits'
  <2> SUFFICES ASSUME NEW v \in Worker PROVE wpc'[v] = "wait" <=> Waited(v)'
    BY DEF Waits
  <2>2. CASE v = w
    <3>1. \A d \in Caller : ~Handles(d, v)
      BY <2>2, <1>0, <1>3 DEF OneWaker
    <3>2. \A p \in Pool : \A i \in DOMAIN idle[p] : idle[p][i] # v
      BY <2>2, <1>0, <1>3 DEF OneWaker
    <3> QED
      BY <2>2, <3>1, <3>2, <1>2, <1>3, <1>5, <1>8 DEF Waited
  <2>3. CASE v # w
    <3>1. Waited(v)' <=> Waited(v)
      BY <2>3, <1>2, <1>3, <1>8 DEF Waited
    <3> QED
      BY <2>3, <3>1, <1>0, <1>5 DEF Waits
  <2> QED
    BY <2>2, <2>3
<1>11. WrqOK'
  BY <1>0, <1>1, <1>2, <1>5 DEF WrqOK
<1>12. QueuedOnlyIfBusy' /\ HerdOK'
  BY <1>0, <1>1, <1>2 DEF QueuedOnlyIfBusy, HerdOK, herderVars
<1>13. MaxInv'
  BY <1>1, <1>4, <1>5, <1>6, MaxFrame DEF PoolInv, MaxInv, paramVars, herderVars
<1> QED
  BY <1>6, <1>7, <1>9, <1>10, <1>11, <1>12, <1>13 DEF PoolInv

-----------------------------------------------------------------------------
(* The invariant.                                                          *)

\* The child starts with empty pools and no thread.
LEMMA PoolInit == Init => PoolInv
<1> SUFFICES ASSUME Init PROVE PoolInv
  OBVIOUS
<1>0. /\ MaxPools \in Nat /\ InitPools \in 1 .. MaxPools /\ 0 \in Pool
      /\ Top \in Nat
  BY PoolAssumption DEF Pool, Top
<1>1. TypeOK
  <2>1. IdleCall \in [pc : CallerPc, req : Request \cup {NoRequest},
                      p : Pool, w : Worker \cup {NoWorker}]
    BY <1>0 DEF IdleCall, CallerPc
  <2>2. /\ herder \in [pc : HerderPc, u : Pool, w : 0 .. MaxPools, fill : BOOLEAN]
        /\ timer \in [pc : TimerPc, u : 0 .. MaxPools, w : Worker \cup {NoWorker}]
    BY <1>0 DEF Init, HerderPc, TimerPc
  <2>3. idle \in [Pool -> Seq(Worker)] /\ queue \in [Pool -> Seq(Request)]
    BY DEF Init
  <2> QED
    BY <1>0, <2>1, <2>2, <2>3 DEF Init, TypeOK, WorkerPc
<1>2. /\ \A c \in Caller : caller[c].pc = "idle"
      /\ \A p \in Pool : DOMAIN idle[p] = {} /\ DOMAIN queue[p] = {}
      /\ \A w \in Worker : wrq[w] = NoRequest /\ wpc[w] = "free"
      /\ pending = {} /\ timer.pc = "scale"
      /\ herder.pc = "breed" /\ herder.fill = FALSE
  BY DEF Init, IdleCall
<1>3. OneHolder /\ Kept
  BY <1>2, PoolAssumption DEF OneHolder, Kept, Held, Holding
<1>4. OneWaker /\ Waits
  BY <1>2 DEF OneWaker, Waits, Waited, Handles, Kissed
<1>5. WrqOK /\ QueuedOnlyIfBusy
  BY <1>2 DEF WrqOK, QueuedOnlyIfBusy, Init
<1>6. HerdOK
  BY <1>2 DEF HerdOK
<1>7. MaxInv
  <2>1. \A p \in Pool : Threads(p) = {}
    BY <1>2 DEF Threads
  <2>2. Cardinality({}) = 0
    BY FS_EmptySet
  <2>3. \A p \in Pool : Cardinality(Threads(p)) <= Top
    BY <2>1, <2>2, <1>0
  <2>4. ~Starting
    BY <1>2 DEF Starting
  <2>5. nthr_max = 0
    BY DEF Init
  <2> QED
    BY <2>3, <2>4, <2>5 DEF MaxInv
<1> QED
  BY <1>1, <1>3, <1>4, <1>5, <1>6, <1>7 DEF PoolInv

\* Every step of a thread, a caller or a herding thread preserves it.
LEMMA PoolStep == PoolInv /\ [Next]_vars => PoolInv'
<1> SUFFICES ASSUME PoolInv, [Next]_vars PROVE PoolInv'
  OBVIOUS
<1>1. ASSUME NEW w \in Worker, WorkerStep(w) PROVE PoolInv'
  BY <1>1, StepTake, StepGoIdle, StepWoken, StepFinish DEF WorkerStep
<1>2. ASSUME NEW c \in Caller, NEW r \in Request, SelectPool(c, r) PROVE PoolInv'
  BY <1>2, StepSelect
<1>3. ASSUME NEW c \in Caller, CallStep(c) PROVE PoolInv'
  BY <1>3, StepHand, StepRefuse, StepQueue, StepHandOver, StepTickle, StepSignalHerder
     DEF CallStep
<1>4. CASE HerderStep
  BY <1>4, StepBreed, StepHerd DEF HerderStep
<1>5. CASE ParamSetPools \/ TimerStep
  BY <1>5, StepTimer, StepDecimate, StepKiss DEF TimerStep
<1>6. CASE UNCHANGED vars
  <2>1. TypeOK' /\ HerdOK' /\ MaxInv'
    BY <1>6 DEF PoolInv, TypeOK, HerdOK, MaxInv, Threads, Starting, vars,
                workerVars, listVars, callVars, paramVars, herderVars
  <2> QED
    BY <1>6, <2>1, HerdFrame DEF vars, callVars, Kissed
<1> QED
  BY <1>1, <1>2, <1>3, <1>4, <1>5, <1>6 DEF Next

\* So it always holds.
LEMMA PoolAlways == Spec => []PoolInv
<1> QED
  BY PoolInit, PoolStep, PTL DEF Spec

-----------------------------------------------------------------------------
(* What the invariant says.                                                *)

\* One place for a pending request, none for another.
LEMMA OnePlace == PoolInv => RequestInOnePlace
<1> SUFFICES ASSUME PoolInv, NEW r \in Request
             PROVE  Cardinality(Places(r)) = IF r \in pending THEN 1 ELSE 0
  BY DEF RequestInOnePlace
<1>0. OneHolder /\ Kept
  BY DEF PoolInv
<1> DEFINE C == {<<"call", c>> : c \in {c \in Caller : Holding(c, r)}}
           W == {<<"thread", w>> : w \in {w \in Worker : Assigned(w, r)}}
           Q(p) == {<<"queue", p, i>> : i \in {i \in DOMAIN queue[p] : Queued(p, i, r)}}
           U == UNION {Q(p) : p \in Pool}
<1>1. Places(r) = C \cup W \cup U
  BY DEF Places
<1>2. /\ (\A c \in Caller : ~Holding(c, r)) => C = {}
      /\ (\A w \in Worker : wrq[w] # r) => W = {}
      /\ (\A p \in Pool : \A i \in DOMAIN queue[p] : queue[p][i] # r) => U = {}
  BY DEF Assigned, Queued
<1>3. ASSUME NEW c \in Caller, Holding(c, r) PROVE Places(r) = {<<"call", c>>}
  <2>1. \A d \in Caller : Holding(d, r) <=> d = c
    BY <1>0, <1>3 DEF OneHolder
  <2>2. C = {<<"call", c>>}
    BY <2>1
  <2>3. W = {} /\ U = {}
    <3>1. \A w \in Worker : wrq[w] # r
      BY <1>0, <1>3 DEF OneHolder
    <3>2. \A p \in Pool : \A i \in DOMAIN queue[p] : queue[p][i] # r
      BY <1>0, <1>3 DEF OneHolder
    <3> QED
      BY <3>1, <3>2, <1>2
  <2> HIDE DEF C, W, U
  <2> QED
    BY <1>1, <2>2, <2>3
<1>4. ASSUME NEW w \in Worker, wrq[w] = r PROVE Places(r) = {<<"thread", w>>}
  <2>1. \A v \in Worker : wrq[v] = r <=> v = w
    BY <1>0, <1>4, PoolAssumption DEF OneHolder
  <2>2. W = {<<"thread", w>>}
    BY <2>1 DEF Assigned
  <2>3. C = {} /\ U = {}
    <3>1. \A c \in Caller : ~Holding(c, r)
      BY <1>0, <1>4 DEF OneHolder
    <3>2. \A p \in Pool : \A i \in DOMAIN queue[p] : queue[p][i] # r
      BY <1>0, <1>4 DEF OneHolder
    <3> QED
      BY <3>1, <3>2, <1>2
  <2> HIDE DEF C, W, U
  <2> QED
    BY <1>1, <2>2, <2>3
<1>5. ASSUME NEW p \in Pool, NEW i \in DOMAIN queue[p], queue[p][i] = r
      PROVE  Places(r) = {<<"queue", p, i>>}
  <2>1. \A q \in Pool : \A k \in DOMAIN queue[q] : queue[q][k] = r <=> q = p /\ k = i
    BY <1>0, <1>5 DEF OneHolder
  <2>2. Q(p) = {<<"queue", p, i>>}
    <3>1. {k \in DOMAIN queue[p] : Queued(p, k, r)} = {i}
      BY <2>1 DEF Queued
    <3> QED
      BY <3>1
  <2>3. \A q \in Pool : q # p => Q(q) = {}
    BY <2>1 DEF Queued
  <2>4. U = {<<"queue", p, i>>}
    <3> HIDE DEF Q
    <3> QED
      BY <2>2, <2>3
  <2>5. C = {} /\ W = {}
    <3>1. \A c \in Caller : ~Holding(c, r)
      BY <1>0, <1>5 DEF OneHolder
    <3>2. \A w \in Worker : wrq[w] # r
      BY <1>0, <1>5 DEF OneHolder
    <3> QED
      BY <3>1, <3>2, <1>2
  <2> HIDE DEF C, W, U
  <2> QED
    BY <1>1, <2>4, <2>5
<1>6. CASE r \in pending
  <2>1. PICK x : Places(r) = {x}
    BY <1>0, <1>3, <1>4, <1>5, <1>6 DEF Kept, Held
  <2> QED
    BY <2>1, <1>6, FS_Singleton
<1>7. CASE r \notin pending
  <2>1. C = {} /\ W = {} /\ U = {}
    BY <1>0, <1>2, <1>7 DEF Kept, Held
  <2> HIDE DEF C, W, U
  <2>2. Places(r) = {}
    BY <1>1, <2>1
  <2> QED
    BY <2>2, <1>7, FS_EmptySet
<1> QED
  BY <1>6, <1>7

\* One agent that can wake a waiting thread, none for another thread.
LEMMA OneWakerCounted == PoolInv => WaiterHasOneWaker
<1> SUFFICES ASSUME PoolInv, NEW w \in Worker
             PROVE  /\ Cardinality(OnIdle(w)) + Cardinality(HandlerOf(w))
                         + (IF Kissed(w) THEN 1 ELSE 0) = (IF wpc[w] = "wait" THEN 1 ELSE 0)
                    /\ \A x \in OnIdle(w) : x[1] = wpool[w]
  BY DEF WaiterHasOneWaker
<1>0. OneWaker /\ Waits
  BY DEF PoolInv
<1> DEFINE I(p) == {<<p, i>> : i \in {i \in DOMAIN idle[p] : idle[p][i] = w}}
<1>1. OnIdle(w) = UNION {I(p) : p \in Pool}
  BY DEF OnIdle
<1>2. HandlerOf(w) = {c \in Caller : Handles(c, w)}
  BY DEF HandlerOf, Handles
<1>3. \A x \in OnIdle(w) : x[1] = wpool[w]
  BY <1>0, <1>1 DEF OneWaker
<1>4. (\A p \in Pool : \A i \in DOMAIN idle[p] : idle[p][i] # w) => OnIdle(w) = {}
  BY <1>1
<1>5. (\A c \in Caller : ~Handles(c, w)) => HandlerOf(w) = {}
  BY <1>2
<1>6. Cardinality({}) = 0 /\ \A x : Cardinality({x}) = 1
  BY FS_EmptySet, FS_Singleton
<1>7. CASE Kissed(w)
  <2>1. wpc[w] = "wait"
    BY <1>0, <1>7 DEF Waits, Waited
  <2>2. \A p \in Pool : \A i \in DOMAIN idle[p] : idle[p][i] # w
    BY <1>0, <1>7 DEF OneWaker
  <2>3. \A c \in Caller : ~Handles(c, w)
    BY <1>0, <1>7 DEF OneWaker
  <2> QED
    BY <1>3, <1>4, <1>5, <1>6, <1>7, <2>1, <2>2, <2>3
<1>8. ASSUME NEW c \in Caller, Handles(c, w)
      PROVE  wpc[w] = "wait" /\ ~Kissed(w) /\ OnIdle(w) = {} /\ HandlerOf(w) = {c}
  <2>1. wpc[w] = "wait" /\ ~Kissed(w)
    BY <1>0, <1>8 DEF Waits, Waited, OneWaker
  <2>2. \A p \in Pool : \A i \in DOMAIN idle[p] : idle[p][i] # w
    BY <1>0, <1>8 DEF OneWaker
  <2>3. \A d \in Caller : Handles(d, w) <=> d = c
    BY <1>0, <1>8 DEF OneWaker
  <2> QED
    BY <1>2, <1>4, <2>1, <2>2, <2>3
<1>9. ASSUME NEW p \in Pool, NEW i \in DOMAIN idle[p], idle[p][i] = w
      PROVE  wpc[w] = "wait" /\ ~Kissed(w) /\ OnIdle(w) = {<<p, i>>} /\ HandlerOf(w) = {}
  <2>1. wpc[w] = "wait"
    BY <1>0, <1>9 DEF Waits, Waited
  <2>2. ~Kissed(w) /\ \A c \in Caller : ~Handles(c, w)
    BY <1>0, <1>9 DEF OneWaker
  <2>3. \A q \in Pool : \A k \in DOMAIN idle[q] : idle[q][k] = w <=> q = p /\ k = i
    BY <1>0, <1>9 DEF OneWaker
  <2>4. I(p) = {<<p, i>>}
    <3>1. {k \in DOMAIN idle[p] : idle[p][k] = w} = {i}
      BY <2>3
    <3> QED
      BY <3>1
  <2>5. \A q \in Pool : q # p => I(q) = {}
    BY <2>3
  <2>6. OnIdle(w) = {<<p, i>>}
    <3> HIDE DEF I
    <3> QED
      BY <1>1, <2>4, <2>5
  <2> QED
    BY <1>5, <2>1, <2>2, <2>6
<1>10. CASE ~Waited(w)
  <2>1. wpc[w] # "wait" /\ ~Kissed(w) /\ OnIdle(w) = {} /\ HandlerOf(w) = {}
    BY <1>0, <1>4, <1>5, <1>10 DEF Waits, Waited
  <2> QED
    BY <2>1, <1>3, <1>6
<1>11. CASE \E c \in Caller : Handles(c, w)
  <2>1. PICK c \in Caller : Handles(c, w)
    BY <1>11
  <2>2. wpc[w] = "wait" /\ ~Kissed(w) /\ OnIdle(w) = {} /\ HandlerOf(w) = {c}
    BY <1>8, <2>1
  <2>3. Cardinality(OnIdle(w)) = 0 /\ Cardinality(HandlerOf(w)) = 1
    BY <2>2, <1>6
  <2> QED
    BY <2>2, <2>3, <1>3
<1>12. CASE \E p \in Pool : \E i \in DOMAIN idle[p] : idle[p][i] = w
  <2>1. PICK p \in Pool : \E i \in DOMAIN idle[p] : idle[p][i] = w
    BY <1>12
  <2>2. PICK i \in DOMAIN idle[p] : idle[p][i] = w
    BY <2>1
  <2>3. wpc[w] = "wait" /\ ~Kissed(w) /\ OnIdle(w) = {<<p, i>>} /\ HandlerOf(w) = {}
    BY <1>9, <2>2
  <2>4. Cardinality(OnIdle(w)) = 1 /\ Cardinality(HandlerOf(w)) = 0
    BY <2>3, <1>6
  <2> QED
    BY <2>3, <2>4, <1>3
<1> QED
  BY <1>7, <1>10, <1>11, <1>12 DEF Waited

\* The thread to retire has no work.
LEMMA KissedIdle == PoolInv => KissedHasNoRequest
<1> SUFFICES ASSUME PoolInv, timer.pc = "kiss", wrq[timer.w] # NoRequest PROVE FALSE
  BY DEF KissedHasNoRequest
<1>0. OneWaker /\ Waits /\ WrqOK /\ HerdOK
  BY DEF PoolInv
<1>1. timer.w \in Worker /\ Kissed(timer.w)
  BY <1>0 DEF HerdOK, Kissed
<1>2. wpc[timer.w] = "wait"
  BY <1>0, <1>1 DEF Waits, Waited
<1>3. PICK c \in Caller : caller[c].pc = "signal" /\ caller[c].w = timer.w
  BY <1>0, <1>1, <1>2 DEF WrqOK
<1> QED
  BY <1>0, <1>1, <1>3 DEF OneWaker, Handles

\* No more threads than thread_pool_max, if a thread starts in time.
LEMMA BelowMax == PoolInv /\ TimelyStart /\ wthread_min <= wthread_max => ThreadPoolMax
<1> SUFFICES ASSUME PoolInv, TimelyStart, wthread_min <= wthread_max, NEW p \in Pool
             PROVE  nthr(p) <= wthread_max
  BY DEF ThreadPoolMax
<1> DEFINE S == {w \in Worker : wpool[w] = p /\ wpc[w] \in Counted}
<1>1. S \subseteq Threads(p) /\ Threads(p) \subseteq Worker
  BY DEF Threads, Counted
<1>2. IsFiniteSet(Threads(p)) /\ Cardinality(Threads(p)) \in Nat
  BY <1>1, FS_Subset, FS_CardinalityType, PoolAssumption
<1>3. Cardinality(S) <= Cardinality(Threads(p)) /\ Cardinality(S) \in Nat
  BY <1>1, <1>2, FS_Subset, FS_CardinalityType
<1>4. Cardinality(Threads(p)) <= Top /\ Top = wthread_max /\ wthread_max \in Nat
  BY PoolAssumption DEF PoolInv, MaxInv, Top
<1> HIDE DEF S
<1>5. Cardinality(S) <= wthread_max
  BY <1>2, <1>3, <1>4
<1> QED
  BY <1>5 DEF nthr, S

\* Whatever the delays of the herding threads: WRK_Queue and the threads keep
\* every accepted request in one place, queue only while no thread is idle,
\* and wake every waiting thread once.
THEOREM NothingLost ==
  Spec => [](RequestInOnePlace /\ QueuedOnlyIfBusy /\ WaiterHasOneWaker /\ KissedHasNoRequest)
<1>1. PoolInv => RequestInOnePlace /\ QueuedOnlyIfBusy /\ WaiterHasOneWaker /\ KissedHasNoRequest
  BY OnePlace, OneWakerCounted, KissedIdle DEF PoolInv
<1> QED
  BY <1>1, PoolAlways, PTL

\* If thread_pool_add_delay outlasts the start of a thread and thread_pool_max
\* is not below thread_pool_min, the herder keeps to the maximum as well.
THEOREM PoolCorrect ==
  ASSUME TimelyStart, wthread_min <= wthread_max
  PROVE  Spec => []PoolSound
<1>1. PoolInv => PoolSound
  BY OnePlace, OneWakerCounted, KissedIdle, BelowMax DEF PoolInv, PoolSound
<1> QED
  BY <1>1, PoolAlways, PTL

-----------------------------------------------------------------------------
(* The minimum complement.                                                 *)

\* The threads that nthr counts.
CountedOf(p) == {w \in Worker : wpool[w] = p /\ wpc[w] \in Counted}

\* A pool no thread leaves does not shrink.
LEMMA NthrGrows ==
  ASSUME NEW p \in Pool,
         \A w \in Worker : wpool[w] = p /\ wpc[w] \in Counted
                             => wpool'[w] = p /\ wpc'[w] \in Counted
  PROVE  nthr(p) \in Nat /\ nthr(p)' \in Nat /\ nthr(p) <= nthr(p)'
<1>1. CountedOf(p) \subseteq CountedOf(p)' /\ CountedOf(p)' \subseteq Worker
  BY DEF CountedOf
<1>2. IsFiniteSet(CountedOf(p)')
  BY <1>1, FS_Subset, PoolAssumption
<1>3. IsFiniteSet(CountedOf(p)) /\ Cardinality(CountedOf(p)) <= Cardinality(CountedOf(p)')
  BY <1>1, <1>2, FS_Subset
<1>4. Cardinality(CountedOf(p)) \in Nat /\ Cardinality(CountedOf(p)') \in Nat
  BY <1>2, <1>3, FS_CardinalityType
<1> QED
  BY <1>3, <1>4 DEF nthr, CountedOf

\* A pool one thread leaves shrinks by one.
LEMMA NthrLeaves ==
  ASSUME NEW w \in Worker, wpc[w] \in Counted, wpc'[w] = "free",
         \A v \in Worker : v # w => wpool'[v] = wpool[v] /\ wpc'[v] = wpc[v]
  PROVE  nthr(wpool[w]) \in Nat /\ \A p : p = wpool[w] => nthr(p)' = nthr(p) - 1
<1> SUFFICES ASSUME NEW p, p = wpool[w]
             PROVE  nthr(p) \in Nat /\ nthr(p)' = nthr(p) - 1
  OBVIOUS
<1>1. CountedOf(p)' = CountedOf(p) \ {w} /\ w \in CountedOf(p) /\ CountedOf(p) \subseteq Worker
  BY DEF CountedOf, Counted
<1>2. IsFiniteSet(CountedOf(p)) /\ Cardinality(CountedOf(p)) \in Nat
  BY <1>1, FS_Subset, FS_CardinalityType, PoolAssumption
<1>3. Cardinality(CountedOf(p) \ {w}) = Cardinality(CountedOf(p)) - 1
  BY <1>1, <1>2, FS_RemoveElement
<1> QED
  BY <1>1, <1>2, <1>3 DEF nthr, CountedOf

\* A thread on its way out waits, or has just been woken.
LEMMA RetiringCounted ==
  ASSUME PoolInv, NEW w \in Worker, Retiring(w)
  PROVE  wpc[w] \in {"wait", "woken"} /\ wpc[w] \in Counted /\ wpool[w] \in Pool
BY DEF PoolInv, TypeOK, Waits, Waited, Retiring, Counted

\* A step after which no thread has left and none is newly on its way out.
LEMMA MinFrame ==
  ASSUME PoolInv, MinInv,
         \A w \in Worker : Retiring(w)' => Retiring(w),
         \A w \in Worker : wpc[w] \in Counted => wpool'[w] = wpool[w] /\ wpc'[w] \in Counted,
         TimelyExit => (Leaving' => timer'.pc = "sleep")
  PROVE  MinInv' /\ \A p \in Pool : nthr(p) >= wthread_min => nthr(p)' >= wthread_min
<1>1. \A p \in Pool : nthr(p) \in Nat /\ nthr(p)' \in Nat /\ nthr(p) <= nthr(p)'
  BY NthrGrows
<1>2. ASSUME TimelyExit, NEW w \in Worker, Retiring(w)' PROVE nthr(wpool[w])' > wthread_min
  <2>1. nthr(wpool[w]) > wthread_min /\ wpool'[w] = wpool[w] /\ wpool[w] \in Pool
    BY <1>2, RetiringCounted DEF MinInv
  <2>2. \A p \in Pool : nthr(p) > wthread_min => nthr(p)' > wthread_min
    BY <1>1, PoolAssumption
  <2>3. PICK p \in Pool : p = wpool[w]
    BY <2>1
  <2>4. nthr(p)' > wthread_min
    BY <2>1, <2>2, <2>3
  <2> QED
    BY <2>1, <2>3, <2>4 DEF nthr
<1>3. MinInv'
  BY <1>2 DEF MinInv
<1> QED
  BY <1>1, <1>3, PoolAssumption

\* What KeepsMinimum says of a step.
Keeps == \A p \in Pool : nthr(p) >= wthread_min => nthr(p)' >= wthread_min

\* The threads' own steps: the one that leaves is one the pool can spare.
LEMMA MinWorker ==
  ASSUME TimelyExit, PoolInv, MinInv, NEW w \in Worker, WorkerStep(w)
  PROVE  MinInv' /\ Keeps
<1>0. TypeOK /\ Waits
  BY DEF PoolInv
<1>1. CASE WorkerWoken(w) /\ wrq[w] = NoRequest
  <2>1. /\ wpc[w] = "woken" /\ UNCHANGED <<wrq, timer>>
        /\ wpc' = [wpc EXCEPT ![w] = "free"] /\ wpool' = [wpool EXCEPT ![w] = 0]
    BY <1>1 DEF WorkerWoken
  <2>2. /\ wpc'[w] = "free"
        /\ \A v \in Worker : v # w => wpc'[v] = wpc[v] /\ wpool'[v] = wpool[v]
    BY <1>0, <2>1 DEF TypeOK
  <2>3. Retiring(w) /\ ~Kissed(w)
    BY <1>0, <1>1, <2>1 DEF Retiring, Waits, Waited
  <2>4. \A v \in Worker : ~Retiring(v)'
    BY <2>1, <2>2, <2>3 DEF MinInv, Retiring, Kissed
  <2>5. MinInv'
    BY <2>4 DEF MinInv, Leaving, Retiring
  <2>6. /\ nthr(wpool[w]) > wthread_min /\ nthr(wpool[w]) \in Nat
        /\ \A p : p = wpool[w] => nthr(p)' = nthr(p) - 1
    BY <2>1, <2>2, <2>3, NthrLeaves DEF MinInv, Counted
  <2>7. ASSUME NEW p \in Pool PROVE nthr(p) >= wthread_min => nthr(p)' >= wthread_min
    <3>1. CASE p = wpool[w]
      BY <3>1, <2>6, PoolAssumption
    <3>2. CASE p # wpool[w]
      <4>1. nthr(p) \in Nat /\ nthr(p)' \in Nat /\ nthr(p) <= nthr(p)'
        BY <3>2, <2>2, NthrGrows
      <4> QED
        BY <4>1, PoolAssumption
    <3> QED
      BY <3>1, <3>2
  <2> QED
    BY <2>5, <2>7 DEF Keeps
<1>2. CASE ~(WorkerWoken(w) /\ wrq[w] = NoRequest)
  <2>1. /\ wpool' = wpool /\ UNCHANGED timer
        /\ wpc' = [wpc EXCEPT ![w] = wpc'[w]] /\ wpc'[w] \in {"run", "wait", "done"}
        /\ \A v \in Worker : v # w => wrq'[v] = wrq[v]
    <3>1. CASE WorkerTop(w)
      BY <3>1, <1>0 DEF WorkerTop, TypeOK
    <3>2. CASE WorkerWoken(w)
      BY <3>2, <1>0, <1>2 DEF WorkerWoken, TypeOK
    <3>3. CASE WorkerFinish(w)
      BY <3>3, <1>0 DEF WorkerFinish, TypeOK
    <3> QED
      BY <3>1, <3>2, <3>3 DEF WorkerStep
  <2>2. \A v \in Worker : v # w => wpc'[v] = wpc[v]
    BY <1>0, <2>1 DEF TypeOK
  <2>3. \A v \in Worker : Retiring(v)' => Retiring(v)
    BY <2>1, <2>2 DEF Retiring, Kissed
  <2>4. \A v \in Worker : wpc[v] \in Counted => wpool'[v] = wpool[v] /\ wpc'[v] \in Counted
    BY <2>1, <2>2 DEF Counted
  <2>5. Leaving' => timer'.pc = "sleep"
    BY <2>1, <2>2 DEF MinInv, Leaving
  <2> QED
    BY <2>3, <2>4, <2>5, MinFrame DEF Keeps
<1> QED
  BY <1>1, <1>2

\* The callers of WRK_Queue send no thread away.
LEMMA MinCaller ==
  ASSUME TimelyExit, PoolInv, MinInv, NEW c \in Caller,
         CallStep(c) \/ \E r \in Request : SelectPool(c, r)
  PROVE  MinInv' /\ Keeps
<1>0. TypeOK /\ Waits /\ WrqOK
  BY DEF PoolInv
<1>1. CASE HandOver(c)
  <2> DEFINE w == caller[c].w
  <2>1. w \in Worker /\ wpc[w] = "wait"
    BY <1>0, <1>1 DEF HandOver, WrqOK, Waits, Waited, Handles
  <2>2. UNCHANGED <<wpc, wpool, timer>> /\ \A v \in Worker : v # w => wrq'[v] = wrq[v]
    BY <1>0, <1>1 DEF HandOver, TypeOK
  <2> HIDE DEF w
  <2>3. \A v \in Worker : Retiring(v)' => Retiring(v)
    BY <2>1, <2>2 DEF Retiring, Kissed
  <2>4. Leaving' => timer'.pc = "sleep"
    BY <2>1, <2>2 DEF MinInv, Leaving
  <2> QED
    BY <2>2, <2>3, <2>4, MinFrame DEF Keeps
<1>2. CASE Tickle(c)
  <2> DEFINE w == caller[c].w
  <2>1. w \in Worker /\ wpc[w] = "wait" /\ wrq[w] # NoRequest
    BY <1>0, <1>2 DEF Tickle, WrqOK, Waits, Waited, Handles
  <2>2. /\ UNCHANGED <<wpool, wrq, timer>> /\ wpc'[w] = "woken"
        /\ \A v \in Worker : v # w => wpc'[v] = wpc[v]
    BY <1>0, <1>2, <2>1 DEF Tickle, Signal, TypeOK
  <2> HIDE DEF w
  <2>3. \A v \in Worker : Retiring(v)' => Retiring(v)
    BY <2>1, <2>2 DEF Retiring, Kissed
  <2>4. Leaving' => timer'.pc = "sleep"
    BY <2>1, <2>2 DEF MinInv, Leaving
  <2>5. \A v \in Worker : wpc[v] \in Counted => wpool'[v] = wpool[v] /\ wpc'[v] \in Counted
    BY <2>1, <2>2 DEF Counted
  <2> QED
    BY <2>3, <2>4, <2>5, MinFrame DEF Keeps
<1>3. CASE WRK_Queue(c) \/ SignalHerder(c) \/ \E r \in Request : SelectPool(c, r)
  <2>1. UNCHANGED <<wpc, wpool, wrq, timer>>
    BY <1>3 DEF WRK_Queue, SignalHerder, SelectPool, workerVars
  <2>2. \A v \in Worker : Retiring(v)' => Retiring(v)
    BY <2>1 DEF Retiring, Kissed
  <2>3. Leaving' => timer'.pc = "sleep"
    BY <2>1 DEF MinInv, Leaving
  <2> QED
    BY <2>1, <2>2, <2>3, MinFrame DEF Keeps
<1> QED
  BY <1>1, <1>2, <1>3 DEF CallStep

\* The herder only adds threads.
LEMMA MinHerder ==
  ASSUME TimelyExit, PoolInv, MinInv, HerderStep \/ ParamSetPools \/ UNCHANGED vars
  PROVE  MinInv' /\ Keeps
<1>0. TypeOK
  BY DEF PoolInv
<1>1. UNCHANGED <<wrq, timer>>
  BY DEF HerderStep, wrk_breed_flock, HerderSlept, HerderFill, HerderWait, HerderNext,
         ParamSetPools, vars, workerVars
<1>2. CASE UNCHANGED <<wpc, wpool>>
  <2>1. \A v \in Worker : Retiring(v)' => Retiring(v)
    BY <1>1, <1>2 DEF Retiring, Kissed
  <2>2. Leaving' => timer'.pc = "sleep"
    BY <1>1, <1>2 DEF MinInv, Leaving
  <2> QED
    BY <1>2, <2>1, <2>2, MinFrame DEF Keeps
<1>3. CASE ~UNCHANGED <<wpc, wpool>>
  <2>1. wrk_breed_flock
    BY <1>3 DEF HerderStep, HerderSlept, HerderFill, HerderWait, HerderNext,
                ParamSetPools, vars, workerVars
  <2> DEFINE w == NewThread
  <2>2. w \in Worker /\ wpc[w] = "free"
    BY <2>1, <1>3 DEF wrk_breed_flock, NewThread
  <2>3. /\ wpc'[w] = "created"
        /\ \A v \in Worker : v # w => wpc'[v] = wpc[v] /\ wpool'[v] = wpool[v]
    BY <2>1, <2>2, <1>0, <1>3 DEF wrk_breed_flock, TypeOK
  <2> HIDE DEF w
  <2>4. \A v \in Worker : Retiring(v)' => Retiring(v)
    BY <2>2, <2>3, <1>1 DEF Retiring, Kissed
  <2>5. Leaving' => timer'.pc = "sleep"
    BY <2>2, <2>3, <1>1 DEF MinInv, Leaving
  <2>6. \A v \in Worker : wpc[v] \in Counted => wpool'[v] = wpool[v] /\ wpc'[v] \in Counted
    BY <2>2, <2>3 DEF Counted
  <2> QED
    BY <2>4, <2>5, <2>6, MinFrame DEF Keeps
<1> QED
  BY <1>2, <1>3

\* The herd timer picks one thread at a time, of a pool with one to spare.
LEMMA MinTimer ==
  ASSUME TimelyExit, PoolInv, MinInv, TimerStep
  PROVE  MinInv' /\ Keeps
<1>0. TypeOK /\ Waits /\ OneWaker /\ HerdOK
  BY DEF PoolInv
<1>1. CASE wrk_decimate_flock /\ timer'.pc = "kiss"
  <2> DEFINE p == timer.u
             w == Last(idle[p])
  <2>1. /\ timer.pc = "flock" /\ p < nwq /\ Surplus(p) /\ idle[p] # <<>>
        /\ timer' = [timer EXCEPT !.pc = "kiss", !.w = w]
        /\ UNCHANGED <<wpc, wpool, wrq>>
    BY <1>0, <1>1 DEF wrk_decimate_flock, TypeOK, workerVars
  <2>2. p \in Pool
    <3>1. p \in 0 .. MaxPools /\ nwq \in 1 .. MaxPools /\ MaxPools \in Nat
      BY <1>0, PoolAssumption DEF TypeOK
    <3> QED
      BY <3>1, <2>1 DEF Pool
  <2>3. w \in Worker /\ wpool[w] = p
    <3>1. idle[p] \in Seq(Worker)
      BY <1>0, <2>2 DEF TypeOK
    <3>2. w \in Worker /\ Len(idle[p]) \in DOMAIN idle[p] /\ idle[p][Len(idle[p])] = w
      BY <3>1, <2>1, WithoutLastOK
    <3> QED
      BY <3>2, <1>0, <2>2 DEF OneWaker
  <2>4. timer'.pc = "kiss" /\ timer'.w = w
    BY <1>0, <2>1 DEF TypeOK
  <2> HIDE DEF w, p
  <2>5. \A v \in Worker : ~Retiring(v)
    BY <2>1 DEF MinInv, Retiring, Leaving, Kissed
  <2>6. \A v \in Worker : Retiring(v)' <=> v = w
    BY <2>1, <2>4, <2>5 DEF Retiring, Kissed
  <2>7. ~Leaving'
    BY <2>1 DEF MinInv, Leaving
  <2>8. \A q : nthr(q)' = nthr(q)
    BY <2>1 DEF nthr
  <2>9. nthr(p) > wthread_min
    BY <2>1 DEF Surplus
  <2>10. \A v \in Worker : Retiring(v)' => nthr(wpool[v])' > wthread_min
    <3> TAKE v \in Worker
    <3>1. nthr(wpool[v])' = nthr(wpool[v])
      BY <2>1 DEF nthr
    <3> QED
      BY <3>1, <2>3, <2>6, <2>9
  <2> QED
    BY <2>6, <2>7, <2>8, <2>10 DEF MinInv, Keeps
<1>2. CASE TimerKiss
  <2> DEFINE w == timer.w
  <2>1. timer.pc = "kiss" /\ w \in Worker /\ Kissed(w) /\ wpc[w] = "wait"
    BY <1>0, <1>2 DEF TimerKiss, HerdOK, Kissed, Waits, Waited
  <2>2. /\ UNCHANGED <<wpool, wrq>> /\ wpc'[w] = "woken" /\ timer'.pc = "sleep"
        /\ \A v \in Worker : v # w => wpc'[v] = wpc[v]
    BY <1>0, <1>2, <2>1 DEF TimerKiss, Signal, TypeOK
  <2> HIDE DEF w
  <2>3. \A v \in Worker : Retiring(v)' => Retiring(v)
    BY <2>1, <2>2 DEF Retiring, Kissed
  <2>4. \A v \in Worker : wpc[v] \in Counted => wpool'[v] = wpool[v] /\ wpc'[v] \in Counted
    BY <2>1, <2>2 DEF Counted
  <2> QED
    BY <2>2, <2>3, <2>4, MinFrame DEF Keeps
<1>3. CASE TimerScale \/ TimerSlept \/ (wrk_decimate_flock /\ timer'.pc # "kiss")
  <2>1. UNCHANGED <<wpc, wpool, wrq>>
    BY <1>3 DEF TimerScale, TimerSlept, wrk_decimate_flock, workerVars
  <2>2. timer'.pc # "kiss"
    <3>1. CASE TimerScale
      BY <3>1 DEF TimerScale
    <3>2. CASE TimerSlept
      BY <3>2, <1>0 DEF TimerSlept, TypeOK
    <3> QED
      BY <3>1, <3>2, <1>3
  <2>3. ~Leaving
    BY <1>3 DEF TimerScale, TimerSlept, wrk_decimate_flock, MinInv
  <2>4. ~Leaving' /\ \A v \in Worker : Retiring(v)' => Retiring(v)
    BY <2>1, <2>2, <2>3 DEF Leaving, Retiring, Kissed
  <2> QED
    BY <2>1, <2>4, MinFrame DEF Keeps
<1> QED
  BY <1>1, <1>2, <1>3 DEF TimerStep

\* If thread_pool_purge_delay outlasts the exit of a thread, the herd timer
\* never takes a complete pool below thread_pool_min.
THEOREM MinimumKept ==
  ASSUME TimelyExit
  PROVE  Spec => KeepsMinimum
<1>1. Init => MinInv
  BY DEF Init, MinInv, Retiring, Kissed, Leaving
<1>2. PoolInv /\ MinInv /\ [Next]_vars => MinInv' /\ Keeps
  BY MinWorker, MinCaller, MinHerder, MinTimer DEF Next
<1>3. PoolInv /\ MinInv /\ [Next]_vars =>
        [\A p \in Pool : nthr(p) >= wthread_min => nthr(p)' >= wthread_min]_vars
  BY <1>2 DEF Keeps
<1> QED
  BY <1>1, <1>2, <1>3, PoolAlways, PTL DEF Spec, KeepsMinimum
=============================================================================
