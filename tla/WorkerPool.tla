----------------------------- MODULE WorkerPool -----------------------------
(***************************************************************************)
(* The worker thread pools of bin/varnishd/cache_pool.c: the threads       *)
(* (wrk_thread_real), the callers of WRK_QueueSession (acceptor, waiter,   *)
(* hsh_rush), the herder that creates threads and the herd timer that      *)
(* retires them.                                                           *)
(*                                                                         *)
(* A step is a section under a pool's mutex, or the unlocked statements    *)
(* between two of them.  lqueue and nthr are changed in the same locked    *)
(* sections as the queue and the threads they count, so they are derived.  *)
(* A condition variable has one waiter, and a signal sent while nobody     *)
(* waits is lost.  Clocks are abstracted: a thread may have been idle for  *)
(* longer than wthread_timeout or not, and TimelyStart and TimelyExit say  *)
(* whether the sleeps in the herding threads outlast the start or the exit *)
(* of a thread.                                                            *)
(***************************************************************************)
EXTENDS Naturals, Sequences, FiniteSets

CONSTANTS
  Worker,         \* worker threads that can exist at one time
  Request,        \* work requests: sess->workreq
  Watched,        \* the requests QueuedIsServed is checked for
  Caller,         \* threads that call WRK_QueueSession
  NoWorker,       \* no thread
  NoRequest,      \* a NULL wrq
  InitPools,      \* thread_pools at start
  MaxPools,       \* bound on thread_pools
  wthread_min,    \* thread_pool_min
  wthread_max,    \* thread_pool_max
  QueueMaxPct,    \* the parameter queue_max, in percent
  add_threshold,  \* thread_pool_add_threshold
  TimelyStart,    \* thread_pool_add_delay outlasts the start of a thread
  TimelyExit      \* thread_pool_purge_delay outlasts the exit of a thread

ASSUME PoolAssumption ==
  /\ IsFiniteSet(Worker) /\ NoWorker \notin Worker
  /\ NoRequest \notin Request /\ Watched \subseteq Request
  /\ InitPools \in Nat \ {0} /\ MaxPools \in Nat /\ InitPools <= MaxPools
  /\ wthread_min \in Nat /\ wthread_min >= 2 /\ wthread_max \in Nat
  /\ QueueMaxPct \in Nat /\ add_threshold \in Nat
  /\ TimelyStart \in BOOLEAN /\ TimelyExit \in BOOLEAN

VARIABLES
  wpc,            \* wpc[w]: where the thread is
  wpool,          \* wpool[w]: its qp
  wrq,            \* wrq[w]: w->wrq
  idle,           \* idle[p]: qp->idle, head first
  queue,          \* queue[p]: qp->queue, head first
  last_lqueue,    \* last_lqueue[p]: the queue length the herder saw last
  caller,         \* caller[c]: a call of WRK_Queue in progress
  pending,        \* requests handed to WRK_Queue and neither refused nor done
  nq,             \* the round-robin cursor of WRK_Queue
  nwq,            \* number of pools
  wthread_pools,  \* the parameter thread_pools
  nthr_max,       \* as scaled by the herd timer
  queue_max,      \* as scaled by the herd timer
  herder,         \* wrk_herder_thread
  timer           \* wrk_herdtimer_thread

workerVars == <<wpc, wpool, wrq>>
listVars == <<idle, queue>>
callVars == <<caller, pending, nq>>
paramVars == <<nwq, wthread_pools, nthr_max, queue_max>>
herderVars == <<herder, last_lqueue>>
vars == <<workerVars, listVars, callVars, paramVars, herderVars, timer>>

Pool == 0 .. MaxPools - 1

WorkerPc == {"free", "created", "wait", "woken", "run", "done"}
CallerPc == {"idle", "lock", "hand", "signal", "herder"}
HerderPc == {"breed", "slept", "fill", "lock", "wait", "next"}
TimerPc == {"scale", "flock", "kiss", "sleep"}

\* qp->nthr: incremented by the new thread itself, decremented when it leaves
Counted == {"wait", "woken", "run", "done"}
nthr(p) == Cardinality({w \in Worker : wpool[w] = p /\ wpc[w] \in Counted})
lqueue(p) == Len(queue[p])

IdleCall == [pc |-> "idle", req |-> NoRequest, p |-> 0, w |-> NoWorker]

Init ==
  /\ wpc = [w \in Worker |-> "free"]
  /\ wpool = [w \in Worker |-> 0]
  /\ wrq = [w \in Worker |-> NoRequest]
  /\ idle = [p \in Pool |-> <<>>]
  /\ queue = [p \in Pool |-> <<>>]
  /\ last_lqueue = [p \in Pool |-> 0]
  /\ caller = [c \in Caller |-> IdleCall]
  /\ pending = {}
  /\ nq = 0
  /\ nwq = InitPools
  /\ wthread_pools = InitPools
  /\ nthr_max = 0
  /\ queue_max = 0
  /\ herder = [pc |-> "breed", u |-> 0, w |-> 0, fill |-> FALSE]
  /\ timer = [pc |-> "scale", u |-> 0, w |-> NoWorker]

-----------------------------------------------------------------------------
(* The worker thread *)

\* (mutation) a thread that finished a request goes idle without looking
HasWorkOnlyNew(w) == wpc[w] = "created" /\ queue[wpool[w]] # <<>>

HasWork(w) == queue[wpool[w]] # <<>>

\* VTAILQ_REMOVE of the first request
Dequeue(q) == Tail(q)

\* The top of the loop, under qp->mtx: the first queued request, or the head
\* of the idle list and Lck_CondWait
WorkerTop(w) ==
  LET p == wpool[w] IN
  /\ wpc[w] \in {"created", "done"}
  /\ \/ /\ HasWork(w)
        /\ wrq' = [wrq EXCEPT ![w] = Head(queue[p])]
        /\ queue' = [queue EXCEPT ![p] = Dequeue(queue[p])]
        /\ wpc' = [wpc EXCEPT ![w] = "run"]
        /\ UNCHANGED idle
     \/ /\ ~HasWork(w)
        /\ idle' = [idle EXCEPT ![p] = <<w>> \o idle[p]]
        /\ wpc' = [wpc EXCEPT ![w] = "wait"]
        /\ UNCHANGED <<wrq, queue>>
  /\ UNCHANGED <<wpool, callVars, paramVars, herderVars, timer>>

\* Lck_CondWait returned: run what was handed over, or leave
WorkerWoken(w) ==
  /\ wpc[w] = "woken"
  /\ wpc' = [wpc EXCEPT ![w] = IF wrq[w] = NoRequest THEN "free" ELSE "run"]
  /\ wpool' = [wpool EXCEPT ![w] = IF wrq[w] = NoRequest THEN 0 ELSE @]
  /\ UNCHANGED <<wrq, listVars, callVars, paramVars, herderVars, timer>>

\* wrq->func, CNT_Session, comes back: the session is done or parked
WorkerFinish(w) ==
  /\ wpc[w] = "run"
  /\ wpc' = [wpc EXCEPT ![w] = "done"]
  /\ wrq' = [wrq EXCEPT ![w] = NoRequest]
  /\ pending' = pending \ {wrq[w]}
  /\ UNCHANGED <<wpool, listVars, caller, nq, paramVars, herderVars, timer>>

-----------------------------------------------------------------------------
(* WRK_QueueSession and WRK_Queue *)

\* pthread_cond_signal(&w->cond)
Signal(w) == wpc' = [wpc EXCEPT ![w] = IF @ = "wait" THEN "woken" ELSE @]

\* The pool a request goes to
NextPool == IF nq + 1 >= nwq THEN 0 ELSE nq + 1

\* The round robin, without a lock
SelectPool(c, r) ==
  /\ caller[c].pc = "idle"
  /\ r \notin pending
  /\ pending' = pending \cup {r}
  /\ caller' = [caller EXCEPT ![c] =
       [pc |-> "lock", req |-> r, p |-> NextPool, w |-> NoWorker]]
  /\ UNCHANGED <<workerVars, listVars, nq, paramVars, herderVars, timer>>

\* (mutation) the thread taken stays on the idle list
Untaken(s) == s

\* VTAILQ_REMOVE of the first idle thread
WithoutFirst(s) == Tail(s)

\* If we have too much in the queue already, refuse
TooMuch(p) == lqueue(p) > queue_max

\* The locked section: take the first idle thread, refuse, or queue.  A
\* refused session is closed and deleted before WRK_QueueSession returns.
WRK_Queue(c) ==
  LET p == caller[c].p IN
  /\ caller[c].pc = "lock"
  /\ nq' = p
  /\ \/ /\ idle[p] # <<>>
        /\ caller' = [caller EXCEPT ![c] =
             [pc |-> "hand", req |-> caller[c].req, p |-> p, w |-> Head(idle[p])]]
        /\ idle' = [idle EXCEPT ![p] = WithoutFirst(idle[p])]
        /\ UNCHANGED <<queue, pending>>
     \/ /\ idle[p] = <<>>
        /\ TooMuch(p)
        /\ caller' = [caller EXCEPT ![c] = IdleCall]
        /\ pending' = pending \ {caller[c].req}
        /\ UNCHANGED listVars
     \/ /\ idle[p] = <<>>
        /\ ~TooMuch(p)
        /\ queue' = [queue EXCEPT ![p] = Append(queue[p], caller[c].req)]
        /\ caller' = [caller EXCEPT ![c] =
             [pc |-> "herder", req |-> NoRequest, p |-> p, w |-> NoWorker]]
        /\ UNCHANGED <<idle, pending>>
  /\ UNCHANGED <<workerVars, paramVars, herderVars, timer>>

\* w->wrq = wrq, after the mutex was dropped
HandOver(c) ==
  /\ caller[c].pc = "hand"
  /\ wrq' = [wrq EXCEPT ![caller[c].w] = caller[c].req]
  /\ caller' = [caller EXCEPT ![c] =
       [pc |-> "signal", req |-> NoRequest, p |-> caller[c].p, w |-> caller[c].w]]
  /\ UNCHANGED <<wpc, wpool, listVars, pending, nq, paramVars, herderVars,
                 timer>>

Tickle(c) ==
  /\ caller[c].pc = "signal"
  /\ Signal(caller[c].w)
  /\ caller' = [caller EXCEPT ![c] = IdleCall]
  /\ UNCHANGED <<wpool, wrq, listVars, pending, nq, paramVars, herderVars,
                 timer>>

\* pthread_cond_signal(&herder_cond): lost unless the herder waits
SignalHerder(c) ==
  /\ caller[c].pc = "herder"
  /\ herder' = [herder EXCEPT !.pc = IF @ = "wait" THEN "next" ELSE @]
  /\ caller' = [caller EXCEPT ![c] = IdleCall]
  /\ UNCHANGED <<workerVars, listVars, pending, nq, paramVars, last_lqueue,
                 timer>>

-----------------------------------------------------------------------------
(* The herder *)

Wanted(p) ==
  \/ nthr(p) < wthread_min
  \/ lqueue(p) > add_threshold /\ lqueue(p) > last_lqueue[p]

HasSpace(p) == nthr(p) < nthr_max

\* The pool the herder looks at: the loop variable of whichever loop it is in
BreedPool == IF herder.fill THEN herder.w ELSE herder.u

\* The thread pthread_create makes: one is like the other
NewThread == CHOOSE w \in Worker : wpc[w] = "free"

\* wrk_breed_flock up to its sleep.  The counters are read without the mutex,
\* and the new thread counts itself only once it runs.
wrk_breed_flock ==
  LET p == BreedPool IN
  /\ herder.pc = "breed"
  /\ \/ /\ ~(Wanted(p) /\ HasSpace(p))
        /\ UNCHANGED <<wpc, wpool>>
     \/ /\ Wanted(p) /\ HasSpace(p)
        /\ \E w \in Worker : wpc[w] = "free"
        /\ wpc' = [wpc EXCEPT ![NewThread] = "created"]
        /\ wpool' = [wpool EXCEPT ![NewThread] = p]
     \/ /\ Wanted(p) /\ HasSpace(p)
        /\ UNCHANGED <<wpc, wpool>>
  /\ herder' = [herder EXCEPT !.pc = "slept"]
  /\ UNCHANGED <<wrq, listVars, callVars, paramVars, last_lqueue, timer>>

Starting == \E w \in Worker : wpc[w] = "created"

\* wrk_breed_flock after its sleep
HerderSlept ==
  /\ herder.pc = "slept"
  /\ TimelyStart => ~Starting
  /\ last_lqueue' = [last_lqueue EXCEPT ![BreedPool] = lqueue(BreedPool)]
  /\ herder' = [herder EXCEPT !.pc = "fill",
                              !.w = IF herder.fill THEN @ ELSE 0,
                              !.fill = FALSE]
  /\ UNCHANGED <<workerVars, listVars, callVars, paramVars, timer>>

Short(p) == nthr(p) < wthread_min

\* Make sure all pools have their minimum complement
HerderFill ==
  /\ herder.pc = "fill"
  /\ herder' =
       IF herder.w >= nwq THEN [herder EXCEPT !.pc = "lock", !.w = 0]
       ELSE IF Short(herder.w)
              THEN [herder EXCEPT !.pc = "breed", !.fill = TRUE]
              ELSE [herder EXCEPT !.w = @ + 1]
  /\ UNCHANGED <<workerVars, listVars, callVars, paramVars, last_lqueue,
                 timer>>

\* Lck_CondWait(&herder_cond, &herder_mtx): no predicate is examined
HerderWait ==
  /\ herder.pc = "lock"
  /\ herder' = [herder EXCEPT !.pc = "wait"]
  /\ UNCHANGED <<workerVars, listVars, callVars, paramVars, last_lqueue,
                 timer>>

\* One pool for each wake-up
HerderNext ==
  /\ herder.pc = "next"
  /\ herder' = [pc |-> "breed", w |-> 0, fill |-> FALSE,
                u |-> IF herder.u + 1 < nwq THEN herder.u + 1 ELSE 0]
  /\ UNCHANGED <<workerVars, listVars, callVars, paramVars, last_lqueue,
                 timer>>

-----------------------------------------------------------------------------
(* The herd timer *)

\* The operator raises thread_pools; a decrease takes effect at a restart
ParamSetPools ==
  /\ wthread_pools < MaxPools
  /\ wthread_pools' = wthread_pools + 1
  /\ UNCHANGED <<workerVars, listVars, callVars, nwq, nthr_max, queue_max,
                 herderVars, timer>>

\* wrk_addpools and the scaling of the limits
TimerScale ==
  /\ timer.pc = "scale"
  /\ nwq' = IF wthread_pools > nwq THEN wthread_pools ELSE nwq
  /\ nthr_max' = IF wthread_max < wthread_min THEN wthread_min ELSE wthread_max
  /\ queue_max' = (nthr_max' * QueueMaxPct) \div 100
  /\ timer' = [pc |-> "flock", u |-> 0, w |-> NoWorker]
  /\ UNCHANGED <<workerVars, listVars, callVars, wthread_pools, herderVars>>

\* Only threads above the minimum may be picked out of the pool
Surplus(p) == nthr(p) > wthread_min

Last(s) == s[Len(s)]

\* VTAILQ_REMOVE of the last idle thread
WithoutLast(s) == SubSeq(s, 1, Len(s) - 1)

\* wrk_decimate_flock under the mutex.  The thread that has been idle longest
\* is past wthread_timeout, or not.
wrk_decimate_flock ==
  LET p == timer.u IN
  /\ timer.pc = "flock"
  /\ p < nwq
  /\ \/ /\ Surplus(p)
        /\ idle[p] # <<>>
        /\ timer' = [timer EXCEPT !.pc = "kiss", !.w = Last(idle[p])]
        /\ idle' = [idle EXCEPT ![p] = WithoutLast(idle[p])]
     \/ /\ Surplus(p) => idle[p] = <<>> \/ nthr(p) <= nthr_max
        /\ timer' = [timer EXCEPT !.u = @ + 1]
        /\ UNCHANGED idle
  /\ UNCHANGED <<workerVars, queue, callVars, paramVars, herderVars>>

\* And give it a kiss on the cheek
TimerKiss ==
  /\ timer.pc = "kiss"
  /\ Signal(timer.w)
  /\ timer' = [timer EXCEPT !.pc = "sleep", !.w = NoWorker]
  /\ UNCHANGED <<wpool, wrq, listVars, callVars, paramVars, herderVars>>

Leaving == \E w \in Worker : wpc[w] = "woken" /\ wrq[w] = NoRequest

\* The sleeps of wrk_decimate_flock and of wrk_herdtimer_thread
TimerSlept ==
  /\ \/ /\ timer.pc = "sleep"
        /\ TimelyExit => ~Leaving
        /\ timer' = [timer EXCEPT !.pc = "flock", !.u = @ + 1]
     \/ /\ timer.pc = "flock"
        /\ timer.u >= nwq
        /\ timer' = [timer EXCEPT !.pc = "scale", !.u = 0]
  /\ UNCHANGED <<workerVars, listVars, callVars, paramVars, herderVars>>

-----------------------------------------------------------------------------
WorkerStep(w) == WorkerTop(w) \/ WorkerWoken(w) \/ WorkerFinish(w)

CallStep(c) == WRK_Queue(c) \/ HandOver(c) \/ Tickle(c) \/ SignalHerder(c)

\* pthread_create succeeds
Breeds == wrk_breed_flock /\ wpc' # wpc

HerderStep ==
  wrk_breed_flock \/ HerderSlept \/ HerderFill \/ HerderWait \/ HerderNext

TimerStep == TimerScale \/ wrk_decimate_flock \/ TimerKiss \/ TimerSlept

Next ==
  \/ \E w \in Worker : WorkerStep(w)
  \/ \E c \in Caller, r \in Request : SelectPool(c, r)
  \/ \E c \in Caller : CallStep(c)
  \/ HerderStep
  \/ ParamSetPools
  \/ TimerStep

Spec == Init /\ [][Next]_vars

\* Every thread the scheduler may run does run.  Sessions end: their socket
\* and backend operations are bounded by timeouts.  pthread_create fails for
\* lack of memory or threads, and not for ever.
FairSpec ==
  /\ Spec
  /\ \A w \in Worker : WF_vars(WorkerStep(w))
  /\ \A c \in Caller : WF_vars(CallStep(c))
  /\ WF_vars(HerderStep)
  /\ SF_vars(Breeds)
  /\ WF_vars(TimerStep)

\* POSIX lets pthread_cond_wait return without a signal, and Lck_CondWait
\* does not look again
SpuriousWakeup(w) ==
  /\ wpc[w] = "wait"
  /\ wpc' = [wpc EXCEPT ![w] = "woken"]
  /\ UNCHANGED <<wpool, wrq, listVars, callVars, paramVars, herderVars, timer>>

SpuriousSpec == Init /\ [][Next \/ \E w \in Worker : SpuriousWakeup(w)]_vars
-----------------------------------------------------------------------------
(* Properties *)

TypeOK ==
  /\ wpc \in [Worker -> WorkerPc]
  /\ wpool \in [Worker -> Pool]
  /\ wrq \in [Worker -> Request \cup {NoRequest}]
  /\ idle \in [Pool -> Seq(Worker)]
  /\ queue \in [Pool -> Seq(Request)]
  /\ last_lqueue \in [Pool -> Nat]
  /\ caller \in [Caller -> [pc : CallerPc, req : Request \cup {NoRequest},
                            p : Pool, w : Worker \cup {NoWorker}]]
  /\ pending \in SUBSET Request
  /\ nq \in Pool
  /\ nwq \in 1 .. MaxPools
  /\ wthread_pools \in 1 .. MaxPools
  /\ nthr_max \in Nat
  /\ queue_max \in Nat
  /\ herder \in [pc : HerderPc, u : Pool, w : 0 .. MaxPools, fill : BOOLEAN]
  /\ timer \in [pc : TimerPc, u : 0 .. MaxPools, w : Worker \cup {NoWorker}]

\* Where a request is: in a caller's hand, on a queue, or with a thread
Holding(c, r) == caller[c].pc \in {"lock", "hand"} /\ caller[c].req = r
Queued(p, i, r) == i \in DOMAIN queue[p] /\ queue[p][i] = r
Assigned(w, r) == wrq[w] = r

Places(r) ==
  {<<"call", c>> : c \in {c \in Caller : Holding(c, r)}}
  \cup {<<"thread", w>> : w \in {w \in Worker : Assigned(w, r)}}
  \cup UNION {{<<"queue", p, i>> : i \in {i \in DOMAIN queue[p] : Queued(p, i, r)}}
              : p \in Pool}

\* A request WRK_Queue has not refused is in exactly one place until it has
\* been run, and in none afterwards: the hand-over of w->wrq outside the mutex
\* neither loses a session nor lets two threads run it (cache_pool.c:264-270).
RequestInOnePlace ==
  \A r \in Request : Cardinality(Places(r)) = IF r \in pending THEN 1 ELSE 0

\* A request that WRK_Queue accepted is not left with a thread that is gone.
\* "Return zero if the request was queued, negative if it wasn't"
\* (cache_pool.c:240).
AcceptedStaysAlive ==
  \A w \in Worker : wrq[w] # NoRequest => wpc[w] # "free"

\* No request waits while a thread of its pool is idle: a thread goes idle only
\* after it saw the queue empty, and a request is queued only after no idle
\* thread was seen.
QueuedOnlyIfBusy == \A p \in Pool : queue[p] # <<>> => idle[p] = <<>>

OnIdle(w) ==
  UNION {{<<p, i>> : i \in {i \in DOMAIN idle[p] : idle[p][i] = w}} : p \in Pool}
HandlerOf(w) == {c \in Caller : caller[c].pc \in {"hand", "signal"} /\ caller[c].w = w}
Kissed(w) == timer.pc = "kiss" /\ timer.w = w

\* A thread in Lck_CondWait is on one idle list, its own pool's, or has been
\* taken off it by exactly one agent that is about to signal it; a thread that
\* is anywhere else is known to nobody.  So every signal finds its thread
\* waiting, and no thread is woken twice or forgotten.
WaiterHasOneWaker ==
  \A w \in Worker :
    /\ Cardinality(OnIdle(w)) + Cardinality(HandlerOf(w))
         + (IF Kissed(w) THEN 1 ELSE 0) = (IF wpc[w] = "wait" THEN 1 ELSE 0)
    /\ \A x \in OnIdle(w) : x[1] = wpool[w]

\* AZ(w->wrq) in wrk_decimate_flock: the thread picked for retirement was not
\* given a request meanwhile.
KissedHasNoRequest == timer.pc = "kiss" => wrq[timer.w] = NoRequest

\* "The maximum number of worker threads in each pool" (mgt_pool.c,
\* thread_pool_max)
ThreadPoolMax == \A p \in Pool : nthr(p) <= wthread_max

\* The pool loses no request, no waiting thread and no bound: a request is in
\* one place, on a queue only while no thread is idle, a waiting thread has one
\* waker, and a thread to retire has no work (cache_pool.c:156-214, 249-287).
PoolSound ==
  /\ TypeOK
  /\ RequestInOnePlace
  /\ QueuedOnlyIfBusy
  /\ WaiterHasOneWaker
  /\ KissedHasNoRequest
  /\ ThreadPoolMax

\* "The minimum number of worker threads in each pool" (mgt_pool.c,
\* thread_pool_min): a pool that has its complement keeps it.
KeepsMinimum ==
  [][\A p \in Pool : nthr(p) >= wthread_min => nthr(p)' >= wthread_min]_vars

\* Bound: all the threads of the model exist, none of them in this pool.
OutOfThreads(p) == \A w \in Worker : wpc[w] # "free" /\ wpool[w] # p

\* A queued request is taken up by a thread (the herder "wakes up whenever a
\* pool queues", cache_pool.c:499), whatever signals are lost while the herding
\* threads sleep.  Of the pools the child started with: nobody tells the herder
\* about a pool that was added later.
QueuedIsServed ==
  \A r \in Watched, p \in 0 .. InitPools - 1 :
    (\E i \in 1 .. Cardinality(Request) : Queued(p, i, r))
      ~> ((\E w \in Worker : Assigned(w, r)) \/ OutOfThreads(p))

\* The herding threads do their work (wrk_herder_thread, wrk_herdtimer_thread):
\* a complete pool stays complete and a queued request gets a thread.
HerdKept == KeepsMinimum /\ QueuedIsServed
=============================================================================
