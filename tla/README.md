# Specifications of varnishd 3.0.2

TLA+ specifications of Varnish Cache 3.0.2 (`src/varnish-3.0.2`, packaged for Cygwin
by `src/varnish-3.0.2-1.cygport`): the object cache and its hash slingers, the ban
list, the worker pools, VCLs with the backend they share, the session state machine,
acceptor, waiters and session memory, the manager process and its child, the shared
memory log with its reader, and the persistent silo. Each module is model-checked with
TLC on small instances; the theorems in the `*_proofs` modules are checked by TLAPS for
all values of the constants.

Paths without a directory are in `src/varnish-3.0.2/bin/varnishd/`.

## 1. Inventory

varnishd is two processes. The *manager* (`mgt_*.c`) compiles VCL, keeps the
parameters and restarts the *child* (`cache_*.c`), which serves requests. In the
child, an acceptor and waiter threads hand sessions to worker threads. A worker
runs a session through the states of `cache_center.c` until it needs to wait.
Background threads expire objects, test objects against bans, probe backends,
create and retire workers, and answer the manager's CLI.

| Component | State | Operations | Hard part |
|---|---|---|---|
| Object cache: `cache_hash.c`, slingers `hash_*.c` | objhead per digest: refcnt, list of objcores, waiting list; objcore: refcnt, busy flag, object | HSH_Lookup, HSH_Unbusy, HSH_Drop, HSH_Deref, HSH_Purge, hsh_rush | references that move between session, waiting list and objcore; sleeping and waking of sessions; a worker queue that is full |
| Expiry and LRU: `cache_expire.c` | binary heap by expiry time, LRU list per stevedore | EXP_Insert, EXP_Rearm, EXP_Touch, EXP_NukeOne, timer thread | the heap's lock, the LRU's lock and the objhead's lock are taken one after the other |
| Object allocation: `stevedore.c`, `storage_*.c` | free space | STV_NewObject, STV_alloc | failure in the middle of a miss |
| Ban list: `cache_ban.c` | list of bans with reference counts, each object's ban | BAN_Insert, BAN_CheckObject, BAN_DestroyObj, lurker, ban.list | walks without a lock; duplicates marked during walks |
| Worker pools: `cache_pool.c` | idle list and queue per pool, counters | WRK_Queue, worker loop, herder, herd timer | hand-over outside the mutex; counters that lag behind the threads they count; lost signals |
| VCLs: `cache_vcl.c` | loaded VCLs, active VCL, busy counts | vcl.load, vcl.use, vcl.discard, VCL_Get, VCL_Rel, VCL_Poll | references cached by threads and lent to sessions; tests of busy without the mutex |
| Backends: `cache_backend.c`, `cache_backend_cfg.c`, `cache_dir.c` | reference count, connection count, idle connections, health | VBE_AddBackend, vbe_GetVbe, VDI_CloseFd, VDI_RecycleFd, VBE_DropRef* | only the CLI thread may drop the last reference |
| Probes: `cache_backend_poll.c` | list of VCLs that probe, one thread per backend | VBP_Insert, VBP_Use, VBP_Remove, poll thread | stopping the thread |
| Session machine: `cache_center.c` | step, obj, objcore, director, restarts, ESI level | cnt_* | ownership on every early exit |
| Directors: `cache_dir_*.c` | members, cursors, weights, DNS cache | getfd, healthy | choice among unhealthy members |
| Acceptor, waiters, session memory: `cache_acceptor.c`, `cache_waiter_*.c`, `cache_session.c` | sessions by owner, free lists | vca_return_session, vca_handover, SES_New, SES_Delete | time-out against data; pipe that is full |
| Slingers: `hash_critbit.c`, `hash_classic.c`, `hash_simple_list.c` | tree with cool-down lists, buckets | lookup, deref, hcb_insert, hcb_delete, hcb_cleaner | lock-free search |
| Shared memory log: `cache_shmlog.c`, `vsm.c`, `mgt_shmem.c`, `libvarnishapi` | ring, sequence number, chunks | vsl_get, vsl_wrap, WSL_Flush, reader | readers without a lock |
| Persistent storage: `storage_persistent*.c` | silos, segments, signatures, ban lists | open, save, load | crash between two writes |
| Manager: `mgt_child.c`, `mgt_vcc.c`, `mgt_cli.c`, `mgt_param.c` | child state, VCL list, parameters | start, stop, SIGCHLD, vcl.*, param.set | child that dies during a command |
| Vary, HTTP, fetch, ESI, gzip, response, pipe | per request | text and data | framing |
| VCL compiler, vmod_std, libvarnish, tools, varnishtest | - | - | not concurrent, or not part of the server |

Components interact by calls under documented locks, by references (object,
objhead, ban, VCL, backend), by condition variables (workers, herder) and by the
waiting list of an objhead. What makes them correct:

- object cache: counts are exact; nothing reachable is freed; one session fetches,
  the others wait and are woken;
- ban list: a walk never meets a freed ban; a matching ban is not forgotten;
  old bans go away;
- worker pools: a request is run once and by one thread; none waits while a thread
  is idle; pools stay within their bounds;
- VCLs and backends: a VCL or backend in use is not freed; a CLI command ends;
- slingers: whatever the structure and the interleaving, one counted objhead per digest;
- session machine: no step finds what an earlier one should have cleared; a response is
  framed so that the client sees its end; a request ends;
- acceptor and waiters: a session has one owner; an event reaches the session that owns
  the descriptor; no session is forgotten;
- manager: one child; it serves the program the manager holds to be active; a crash is
  repaired;
- log: a reader without a lock gets whole records, in order, once, and does not get stuck;
- silo: after a crash at any point the next child finds valid tables, every acknowledged
  ban and no object whose space was used again.

`PROJECT.json` lists all components with what is and is not modelled, the hazards
with their lines, and for every definition the source lines it stands for.

## 2. Modules and the code

A step of a model is what the code does in one section under a mutex, or the
unlocked statements between two such sections; in Silo it is one store that a later
child can see. `X_proofs` extends `X`; `Front_proofs` extends Acceptor, SessMem and
Center, whose names are distinct for that reason. `MCX` extends `X` with the symmetry sets for TLC.
Operators marked "(mutation)" are plausible mistakes in the operator next to them;
they are not used by the specifications. Substituting one must make TLC report the
property named with it in `PROJECT.json`.

How the modules meet: CacheHash uses the slinger as HashTable, the atomic table that
HashSlinger is shown to implement. Center takes from CacheHash that a lookup gives an
object, a busy objcore or a place on the waiting list (`hsh_rush` brings the session
back), and Acceptor takes from Center only that a worker ends by closing a session or by
giving it back. SessMem is the detail of Acceptor's `SessionFreed` and of the end of
`vca_acct`. WorkerPool serves any request that is queued, Backend has the VCL references
of the same sessions. MgtChild restarts the child whose death is `panic` in Center and
Backend, `Crash` in Shmlog and Silo, and is shown to implement Supervisor.

### CacheHash

The objcores and objheads of `cache_hash.c`, the heap and LRU of `cache_expire.c`,
object allocation of `stevedore.c`, and the steps of `cache_center.c` that use them.

- State: per objhead `ohref`, `objcs` (list), `waiting` (list); per objcore `ocref`,
  `head`, `busy`, `hasobj`, `entered`, `ttl`; `heap`, `when`, `lru`; per session
  `pc`, `hoh` (hash_objhead), `sobj`, `treq`, `nuked`; per thread the object it is
  dereferencing (`victim`, `dying`) and purging (`purge`, `rearm`).
- Actions: HSH_Lookup is `LookupHit`, `LookupWait`, `LookupMiss` (with `HitDerefHead`
  after the unlock); a fetch is `Fetch`, `NewObject`, `EXP_NukeOne`, `EXP_Insert`,
  `HSH_Unbusy`, with its failures `AbandonFetch`, `NewObjectFails`, `ErrorObject`,
  `OutOfObjects`, `HSH_Drop`, `StreamFails`; HSH_Purge is `PurgeCollect`, `PurgeMark`,
  `PurgeRearm`; HSH_Deref is `HSH_Deref` (under the lock) and `Destroy`; the timer is
  `ExpTimer`.
- Abstractions: an objhead is identified with its digest. One stevedore, whose
  allocations may fail. No Vary, and bans are left to module Ban. A hit-for-pass
  object is `HitDrop`. Grace is a constant; `t_req` is any time up to now. A new
  request needs a free objcore of the pool `Obj`: a bound, not a guard of the code.

### Ban

`cache_ban.c` with the objects as far as bans concern them.

- State: the list is an interval `oldest .. newest` of serial numbers, because bans
  enter at the head and leave at the tail; `refcount`, `spec`, `gone` per ban; `ban`,
  `st`, `ttl`, `ocref` per object; a walk per thread, a hunt for duplicates per
  inserter, the position of ban.list.
- Actions: `BAN_Insert`, `HuntStep`, `HuntDone`; `BAN_NewObjCore`, `HSH_Unbusy`,
  `Evict`, `HSH_Deref`, `BAN_DestroyObj`; `BAN_CheckObject`, `WalkStep`, `WalkGiveUp`,
  `NotBanned`, `Banned`; `LurkerRetire`, `LurkerPick`; `BAN_TailRef`, `ListStep`,
  `BAN_TailDeref`; `SetObjTtl`.
- Abstractions: a ban is one of the tests in `ObjSpec` and `ReqSpec`; an object has a
  set of tests that match it, a request likewise. Every object has an objhead of its
  own. The order of objects on a ban's list is not kept. Assertions that the code
  makes about its own callers are guards, except where a property states them. BAN_RefBan
  and BAN_Compile are left out; Silo has what is saved and reloaded.

### WorkerPool

`cache_pool.c`.

- State: `wpc`, `wpool`, `wrq` per thread; `idle` and `queue` per pool; `caller`, a call
  of WRK_Queue in progress; `herder`, `timer`; the parameters the herd timer scales.
  `nthr` and `lqueue` are derived: they change in the locked sections that change what
  they count. A thread that was created but has not run yet is not in `nthr`, and one
  that was kissed but has not left still is.
- Actions: `WorkerTop`, `WorkerWoken`, `WorkerFinish`; `SelectPool`, `WRK_Queue`,
  `HandOver`, `Tickle`, `SignalHerder`; `BreedPool`, `wrk_breed_flock`, `HerderSlept`,
  `HerderFill`, `HerderWait`, `HerderNext`; `TimerScale`, `wrk_decimate_flock`,
  `TimerKiss`, `TimerSlept`; `ParamSetPools`. `SpuriousSpec` adds a wake-up without a signal, which
  POSIX allows.
- Abstractions: clocks. Whether a thread was idle for longer than the time-out is
  nondeterministic. `TimelyStart` (`TimelyExit`) says whether the herder's (herd
  timer's) sleep outlasts the start (exit) of a thread; thread_pool_add_delay may be
  zero, thread_pool_purge_delay is at least 100 ms. pthread_create fails as often as it
  likes, but not for ever. Requests are interchangeable: liveness is checked for those in
  `Watched`. Statistics are left out.

### Backend

`cache_vcl.c`, `cache_backend.c`, `cache_backend_cfg.c`, `cache_backend_poll.c`,
`cache_dir.c`, and the lending of VCL references in cnt_start, cnt_done,
WRK_QueueSession and wrk_thread_real.

- State: `vstate`, `uses`, `busy` per VCL, `active`; `balive`, `refcount`, `n_conn`, `connlist`,
  `healthy` of one backend; `pvcls`, `probe`, `stop` of its probe; `cli`, the command in
  progress; `wvcl`, `svcl`, `vbc` of threads and sessions; `panic`. Ghost: `raced`, whether an
  update of the reference count was lost.
- Actions: every CLI command starts with `VCL_Poll` and `VBE_Poll`; then `VCL_Load`,
  `AddRefStore`, `VBP_Insert`, `LinkVcl`; `ccf_config_use`, `VBP_Use`; `ccf_config_discard`,
  `DiscardUnused` (its test of busy, without the mutex), `VBP_Remove`, `ProbeCancel`, `ProbeJoin`, `VBE_DropRefVcl`, `UnlinkVcl`. Sessions:
  `VCL_Refresh`, `RefreshRel`, `VCL_Get`, `Park`, `Resume`, `DropParked`, `Done`,
  `ReturnVcl`, `WorkerExit`; connections: `GetFd`, `Recycled`, `CheckFd`, `TooLate`,
  `Refused`, `MayOpen`, `bes_conn_try`, `Connected`, `ConnectFails`, `VDI_CloseFd`,
  `VDI_RecycleFd`. The probing thread: `ProbeTest`, `ProbeLock`, `ProbePoke`, `ProbeSleep`,
  `ProbeCancelled`. A failed assertion sets `panic`, and `Restart` is the manager's
  new child. `CliFindsFreed` and `SessFindsFreed` are the magic numbers that CHECK_OBJ would
  find wrong in a backend that was freed.
- The increment in VBE_AddBackend is a load (`VCL_Load`) and a store (`AddRefStore`), since the
  code does it without the mutex that protects the count everywhere else. A count
  that lost an update may drift without end: with `LoadAfterRace` FALSE the backend is not
  declared again before it has been freed.
- Abstractions: one backend. Whether a VCL declares it, probes it or does neither is chosen
  when it is loaded (`uses`). The outcome of a probe is nondeterministic. The saintmode trouble list, a
  VCL that fails to initialise and time-outs are left out.

### Center

`cache_center.c`, with what its steps call in `cache_fetch.c`, `cache_response.c`,
`cache_pipe.c`, `cache_esi_deliver.c`, `cache_httpconn.c` and `rfc2616.c`.

- State: `sp` and `w`, the fields of the session and of the worker thread that one step
  sets and another one tests; `frames`, what the active calls of ved_include restore;
  `panic`; `hist`, a record of what was sent (and whose length was announced: the object's or
  the backend's) for the properties, which no action reads.
- Actions: one per step, `cnt_first` to `cnt_done`; cnt_deliver is split at its ESI
  includes (`cnt_deliver`, `ved_include`, `cnt_deliver_end`), cnt_streambody after the header
  is sent (`RES_StreamStart`, `cnt_streambody`). Around them
  `SessionAccepted` (vca_acct), `hsh_rush` and `WaiterHandsOver` (vca_handover), which give
  the worker a session, `wrk_thread_real`, which
  asserts that the worker is clean, and `mgt_restart`. `AssertFails` is the failing
  assertion of the step at hand.
- Abstractions: one worker and one session at a time. VCL returns any action that
  `lib/libvcl/generate.py` admits; answers of backends, clients and storage are chosen where
  the code looks at them. is_gzip and is_gunzip are folded into do_gzip and do_gunzip.
  An object has at most `MaxIncludes` includes.

### Acceptor and SessMem

`cache_acceptor.c` with the four `cache_waiter_*.c`, and `cache_session.c`.

- Acceptor: where each session is (`free`, `queue`, `work`, `pipe`, `sesshead`), its
  descriptor, and the kernel's view: `known` and `armed` for registrations, `ki` for
  kqueue's changes not yet handed over. `vca_act` is the waiter. `vca_acct` accepts, workers
  take a session (`WorkerTakes`) and close it or give it back (`WorkerCloses`,
  `vca_return_session`), `Wait` is a round of the waiter's loop: wait,
  one event at a time, then the scan for timeouts. A deadline may pass at any time, in any
  order.
- SessMem: `ses_free_mem`, `ses_qp`, the mutex, and each thread's place in SES_New,
  SES_Delete or ses_sm_alloc. Free lists are sets. n_sess is read without its lock and whether
  a session is created in advance is nondeterministic.

### MgtChild and Supervisor

`mgt_child.c`, `mgt_cli.c`, `mgt_vcc.c` and the child's side of the CLI.

- State: `mgr`, the callback the manager's one thread is in and the commands it has still to
  send; `child_state`, `child_pid`, the pipes and events of `mgt_child.c`; the programs of both
  processes; `req` and `rsp`, the contents of the pipes; `child`, which may be hung, condemned
  by SIGQUIT (`quit`) or a zombie.
- Actions: `ReadResult` and `NoResult` (the reply or cli_timeout), `child_poker`,
  `child_listener`, `mgt_sigchld`, `ServerStart`, `ServerStop`, the vcl commands,
  `mcf_askchild`, `mcf_param_set` (auto_restart), `mgt_sigint`; of the child `CLI_Run`,
  `ChildEof`, `ChildKill`, `ChildCrash`, `ChildHang`.
- Abstractions: a reply is OK or not. ping_interval is zero or not, chosen at each start.
  vcl.list is a ping. `MaxStale` bounds the commands whose reply was given up on.
- Supervisor is the promise: the child begins with the chosen program, and what it serves
  differs from the chosen one only while a conversation is under way.

### HashSlinger and HashTable

`hash_critbit.c`, `hash_classic.c`, `hash_simple_list.c`.

- State: objheads `oh` and tree nodes `y` with where they are (in use, cooling, dead, free),
  `origo`, the buckets; per thread the pointer in hand and the digest wanted; the cleaner.
- Actions: `hcb_lookup`, `hcb_search` (one pointer), `hcb_found`, `hcb_locked` (insertion),
  `hcb_grab` (the reference under oh->mtx), `hcb_deref`, `hcb_deref_delete`,
  `HSH_DeleteObjHead`, the cleaner's three steps; `hcl_lookup`, `hcl_deref`.
- Abstractions: a section under hcb_mtx is atomic, since it publishes its change with one
  pointer. A spare objhead or node is taken from free memory when it is inserted. The
  cleaner's sleep ends only after the searches that were under way when it began: that is
  what critbit_cooloff (60 to 254 seconds) is for, and nothing else in the code ensures it.
- HashTable: lookup and deref as atomic operations on a table. The refinement maps an
  objhead's key to its digest and uses the count of references handed out (`refs`).

### Shmlog

`cache_shmlog.c` and the live log of `libvarnishapi/vsl.c`.

- State: the words of the log, its serial number and `vsl_ptr`; per writer what it reserved
  and its own buffer; the reader's pointer and last serial number. Ghosts: the records ahead
  of the reader, and whether somebody was lapped.
- Actions: `VSLR` (a record of its own), `WSLR` and `WSL_Flush` (through the buffer), `Finish`
  (the writes after the reservation, header last), `Crash`, `VSL_Init`, `VSL_InitSerial`; of
  the reader `VSL_Open`, `OpenSkip`, `vsl_nextlog`, `VSL_Close`.
- Abstractions: a header is the number of content words; tags and contents are not told
  apart. A reader, or a writer, that the others have lapped is out of the model: nothing in
  the code detects it. The VSM chunks around the log are left out.

### Silo

`storage_persistent*.c`.

- State: on disk `seg1`, `seg2`, `ban1`, `ban2`, each with whether its signature is right; in
  the child `segments`, the open segment, `free_offset`, what the loading thread does, and
  what the holder of the mutex and SMP_NewBan do next. Ghosts: bans acknowledged, the list
  saved last, whether both copies have been sound since, and whether a segment was put on
  the oldest one (`brim`).
- Actions: `smp_open` (reads the tables, drops segments for the free reserve), `OpenDies`,
  `Serve`, `smp_save_segs` and `SMP_NewBan` store by store, `NewSeg`, `smp_close_seg`,
  `smp_allocobj` in its two critical sections (`Commit`), `smp_alloc`, `smp_oc_freeobj`,
  `LoadBegin`, `LoadEnd`, `Loaded`, `smp_thread`, `debug_persistent`, `smp_close`, `Exit`,
  `Crash`; `smp_newsilo` is the manager that finds no valid silo.
- Abstractions: offsets and lengths count units, signatures inside a segment are left out, a ban is a
  name and 0 the ban every child adds. Whether smp_close_seg gives back what a segment did not
  use is nondeterministic: the index may not fit. `MaxSegments` bounds the list. The page cache survives: a crash of the machine is
  not modelled. smp_oc_getobj, smp_oc_updatemeta and the lazy repair of objects are left out.

## 3. Runs

`tlc -config X.cfg M` for every run of `PROJECT.json`. Deadlock is checked except where a
run may really stop: in hash_safety and hash_live when the bounded time and the pool of
objcores are used up, in ban when all bans were inserted, in slinger when all references
were handed out. Every action of every module is taken in some run.

| Run | Instance | Shows |
|---|---|---|
| hash_safety | 1 key, 2 sessions of every kind, 3 objcores, time 0..1, 1 nuke; allocations, queue and fetches may fail; purges, obj.ttl | Refcounts, NoneFreedInUse, ListsAgree |
| hash_live | 1 key, 3 sessions, 3 objcores, rush_exponent 1, fairness | OneFetchPerHead, NoLostWakeup, WaitersLeave |
| ban | 2 bans, 2 inserters, 1 object, a lookup, lurker, ban.list, fairness | BanRefcnt, NoDanglingBan, BanNotForgotten, LurkerWorks |
| pool | 3 threads, 2 requests, 1 caller, 1 pool and then 2, minimum 2, maximum 3, fairness | PoolSound, HerdKept |
| backend | 2 VCLs that probe the backend or do not use it, 2 threads, 2 sessions, 1 connection, max_connections 1 | VclSound, BackendSound, ProbesSound, JoinEnds |
| session | 2 restarts, ESI depth 1, 1 include, 4 bytes of request, gzip, fairness | EngineSound, FetchSound, FramingSound, ReuseAfterResponse, RequestEnds |
| acceptor | 3 sessions, 2 descriptors, the four waiters, fairness | WaiterSound, EventsReachIdle, NoneForgotten |
| sessmem | 4 session memories, 2 deleting threads, max_sess 1, fairness | SessMemSound, FreeIsUsed |
| mgt | 2 programs, 2 replies given up on, fairness | ManagerSound, SameVcls, Recovers, Supervises |
| slinger | 2 threads, 3 digests of 2 bits, 3 objheads, 3 nodes, 2 references each | SlingerSound, IsHashTable |
| shmlog | 2 writers, one with a buffer of 5 words, a log of 6 words, records of 1 and 2 words, 3 serial numbers, 1 crash, fairness | MarkersInPlace, ReaderSeesWhole, NoRecordTwice, ReaderMoves |
| silo | space for 5 units, segments of 2, reserve 1, objects of 2 units (and of 3, which find no room), at most 3 segments on the list, 1 new ban, 2 deaths | TablesUsable, BansSurvive, ListSurvives, SpaceKept |

What the properties say; those named with several parts are conjunctions of definitions
that have a comment each.

- *Cache.* Refcounts: the counts of objcores and objheads are exactly what points to them.
  NoneFreedInUse: no objcore or objhead is given up while a session, list or thread can
  reach it. ListsAgree: the object list, the LRU and the heap, each under its own lock,
  agree. OneFetchPerHead: sessions that may wait do not fetch twice. NoLostWakeup: while a
  session waits, somebody who will call hsh_rush is at work. WaitersLeave: so it leaves.
- *Bans.* BanRefcnt: a ban counts its objects and holders. NoDanglingBan: a walk without a
  lock never stands on a freed ban. BanNotForgotten: an object that was moved past a ban that
  matches it has a newer ban with the same test still ahead. LurkerWorks: bans at the tail go away, and the lurker leaves bans on requests
  to requests.
- *Pools.* PoolSound: a request is in one place, is queued only while all threads are busy,
  a waiting thread has exactly one waker, one that was kissed has no request, the pool
  stays within thread_pool_max. HerdKept: a pool keeps its minimum, and a queued request
  gets a thread although signals to the herder are lost.
- *VCLs and backends.* VclSound: busy counts the holders; a VCL in use is not freed; the
  active one is available. BackendSound: as long as no session gets
  between the load and the store of the unlocked increment, the count is exact, a backend in
  use is alive and the last reference is dropped by the CLI thread; connections are counted
  in any case. ProbesSound: the active VCL's probe is the
  one used, a backend that is not probed is healthy. JoinEnds: pthread_join waits only for
  a thread that was told to stop and finds no probe.
- *Session.* EngineSound: no assertion of a step fails except on the paths listed below,
  and STP_WAIT has room to read. FetchSound: the objcore and the backend connection are
  held from the miss to the end of the body. FramingSound: the client can see where every
  response ends: by a length that nothing will change, by chunks without a length, or by the
  end of a connection that will be closed. Only there may a length be announced that is wrong
  (LengthUnchanged). ReuseAfterResponse: a connection is kept for another request only when
  the response was sent whole (or none, where a pipe had no backend). RequestEnds: every request ends, with all restarts and includes.
- *Acceptor.* WaiterSound: a session has one owner and epoll_ctl and the poll array are used
  as they require. EventsReachIdle: an event, also one already fetched or submitted, is
  about an idle session that has the descriptor, although descriptors and sessions are
  recycled at once. NoneForgotten: the pipe is read and idle sessions time out.
- *Session memory.* SessMemSound: one owner; the acceptor's list, which is not locked, is
  touched by nobody else; max_sess is exceeded by at most one session per thread that
  allocates. FreeIsUsed: freed memory comes back.
- *Manager.* ManagerSound: at most one child, no assertion fails. SameVcls: when nothing is
  under way both processes have the same programs and the same active one; it says nothing
  after a reply that came too late (AnswersFit), until the child is replaced. Recovers: a
  crashed child is replaced, a hung one killed, a stop ends.
- *Slingers.* SlingerSound: every objhead in the table is found by a search that starts now,
  and no search stands on freed memory.
- *Log.* MarkersInPlace: the end marker is at the writers' place and at every record that is
  not finished. ReaderSeesWhole: what the reader returns is the next whole record.
  NoRecordTwice, ReaderMoves: once, and never stuck, also after a crash.
- *Silo.* TablesUsable: one copy of each table is valid at every point. BansSurvive: a
  completed ban is reloaded. ListSurvives: the next child reads the list saved last or
  the one being saved; between the reset of the first copy and its contents it reads a valid
  empty one and loses all segments. SpaceKept: space is not used again while a child would
  load objects from it, until the free space ends exactly where the oldest segment begins
  (NeverOverlaid).

### Refinement

`Supervises` says that MgtChild implements Supervisor: what is
served is the child's active program from its `start` on, what is chosen is the manager's, and
a conversation lasts while a command or a reply is under way. `IsHashTable` says that HashSlinger, with any of its three slingers, implements
HashTable, the atomic table CacheHash relies on: a lookup takes effect when hcb_grab or a
locked section takes the reference, a deref when the count is reduced.

### Why the bounds are enough

Each instance is the smallest in which every hazard of `PROJECT.json` that has a property
can bite, which the mutants confirm: one for every property, found under the run's own
bounds. Two sessions and three objcores let a fetch, a purge or nuke and the timer meet on
the same objcore; three sessions let a waiting session be woken, take over the fetch and
wake the next. Two bans with the same test are a duplicate, and two inserters hunt at once.
Three digests of two bits give a critbit tree with two inner nodes, one below the other, so
that a search can stand on a node that is taken out. Six words make the log wrap within
three records. Five units in segments of one or two, at most three of them on the list, make the silo
wrap, drop segments for the reserve and meet its oldest segment exactly; two deaths make a crash during the recovery from a crash.
One lost update of a backend's count is followed to its end, not a second one of the same
backend (`LoadAfterRace`), since LastRefIsCli fails after the first.
VCLs that declare the backend without a probe are checked with one thread (or one session)
and all three values of `uses`; the theorems hold for any.

### Fairness

A thread that is not blocked gets to run (WF per thread): sessions and timer in CacheHash;
walks, hunts, the end of fetches and the lurker in Ban; workers, callers, herder and herd
timer in WorkerPool; CLI, probe and restart in Backend's FairSpec; the engine and hsh_rush in
Center; the waiter's round, its ticker and deadlines in Acceptor; acceptor and deleters in
SessMem; the manager's round and the child's CLI in MgtChild; finishing a reservation, the
initialisation and the reader in Shmlog. Strong fairness is assumed where a thread competes:
pthread_create that fails again and again also succeeds (WorkerPool); the event of the pipe
among others of a port (Acceptor), which port_getn returns in turn; signals and timers of the
manager (MgtChild), which its loop looks at in every round. Clients, operators, crashes and
time-outs of requests are not fair. `CliComesBack` of Backend, that every CLI command
ends, holds under FairSpec with one thread and one session; with two of each it is beyond a
run, which checks JoinEnds, its safety part.

### Further observations

The modules also state what the code or its documents say and does not hold. Each is
reproduced by adding the property to the run's cfg, with the change named.

| Property | On | Where | What happens |
|---|---|---|---|
| WaitersLeave | hash_live, StorageMayFail | cache_center.c:447 | cnt_error without storage goes to STP_DONE and leaves its busy objcore on the objhead. cache_center.c:1097-1099 says of the sessions waiting for it "The hash code to restart the session, still in STP_LOOKUP, later when the busy object isn't." |
| NoLostWakeup, DeletedHoldsNoHead | hash_live, QueueMayFill | cache_hash.c:507 | hsh_rush stops when WRK_QueueSession fails; the failed session was deleted with its reference, the others have nobody to wake them |
| PurgedStaysPurged | hash_safety | cache_vrt_var.c:404 | a session that hit before the purge sets obj.ttl and revives the object |
| PassedBansMiss | ban | cache_ban.c:427 | a lookup that read ban_start before the insertion skips the duplicate that became GONE and does not reach the new ban. doc/sphinx/tutorial/purging.rst:91-92: "Bans are checked when we hit an object in the cache, but before we deliver it." |
| LurkerFindsIdle | ban | cache_ban.c:807 | the lurker takes the objcore of an unfinished fetch |
| CheckedHasBan | ban | cache_vrt_var.c:404 | a banned object gets a ttl again and the next lookup meets the assertion that it has a ban |
| ThreadPoolMax | pool, TimelyStart FALSE, maximum 2 | cache_pool.c:482 | nthr does not count threads that have not started |
| KeepsMinimum | pool, TimelyExit FALSE | cache_pool.c:381 | nthr still counts threads that have not left |
| QueuedIsServed | pool, TimelyExit FALSE | cache_pool.c:174 | a kissed thread leaves without looking at the queue and the herder's signal was lost. cache_pool.c:499: "This thread wakes up whenever a pool queues." |
| AcceptedStaysAlive | pool, SpuriousSpec | cache_pool.c:172 | a wake-up without a signal is taken for the order to leave |
| ProbeFindsVcl | backend | cache_backend_poll.c:556 | VBP_Remove empties vt->vcls before it sets vt->stop; vbp_build_req asserts "XXXAN(vcl);" (cache_backend_poll.c:310) |
| LastRefIsCli | backend | cache_backend_cfg.c:192 | a session's update during the increment without b->mtx is lost, and after a discard the session has the last reference. cache_backend_cfg.c:92-93: "The last reference must come from the watcher in the CLI thread" |
| MaxConnections | backend | cache_backend.c:375 | tested and counted in different steps |
| PassHasNoObjcore | session, MaxIncludes 2 | cache_center.c:447 | the objcore left behind by cnt_error is met by the next include; the comment at cache_fetch.c:394 takes its absence for a pass |
| LengthUnchanged | session | cache_response.c:349 | RES_StreamStart sends the backend's length to a client of HTTP/1.0 also when gzip or gunzip changes it. doc/changes.rst:358-360: "If a backend sends a ``Content-Length`` header and we are streaming and we are not uncompressing it, send the ``Content-Length`` header on" |
| IdleTimesOutAlways | acceptor | mgt_param.c:593-595 | poll's waiter looks for time-outs only after an event |
| AnswersFit | mgt | mgt_cli.c:171-173 | after a cli_timeout the late reply answers the next command |
| OpenStaysInLog | shmlog | vsl.c:395 | VSL_Open, skipping to the end, does not stop at the wrap marker |
| NeverOverlaid | silo | storage_persistent_silo.c:211 | when the oldest segment begins exactly at free_offset the new one is put on it and both are saved. The next child asserts "assert(sg1->p.offset != sg->p.offset);" (storage_persistent.c:239) |
| OpensAgain | silo | storage_persistent.c:219 | the free reserve cannot be made from the segments of a valid table, and the assertion ends the child |
| StaysValid | silo | storage_persistent.c:342 | two deaths, each between the reset of a copy and its signature, leave neither copy of a table valid, and the manager makes a new silo |
| LoadingStays | silo | storage_persistent.c:233-236, storage_persistent_silo.c:147 | a segment is dropped for the reserve while it is being loaded |
| CommitFindsSegment | silo | storage_persistent.c | the segment is closed between the two critical sections of smp_allocobj |

Met while modelling, without a property of their own:

- *Session.* PipeSession without a backend connection returns without answering or closing.
  cnt_fetchbody out of storage leaves vfp, storage_hint, h_content_length and beresp set, and
  a later assertion fails; so does a restart from vcl_deliver while streaming. The retry in
  FetchHdr reads the request body again. Restart from vcl_miss and vcl_pass, error from
  vcl_pipe and pipe in an include end in INCOMPL. cnt_wait's branch for -2 cannot be taken.
  A body read to end of file on an HTTP/1.1 connection without a Connection header lets the
  connection be recycled.
- *Acceptor.* VTCP_nonblocking that fails in vca_return_session loses the session. A kqueue
  event without data and without end of file leaves the session unarmed. The scan for
  time-outs stops at the first session that is not due.
- *Manager.* mgt_sigchld drops the ping timer at any SIGCHLD, so pings stop after a compiler
  has run. A child that dies or hangs while it is started is not restarted. A hung child in
  STOPPING is never killed. vcl.load in STOPPING prints "(null)".
- *Pools.* A pool that is added gets no threads before a later signal.
- *Log.* A reader at an end marker may skip records when the serial number has changed, and a
  reader that was lapped does not notice. Without -d VSL_Open may bring it back to records it
  skipped. A child dying between vsm_mark and vsm_release leaves alloc_seq zero, and
  cache_backend_cfg.c:208 uses VSM_Alloc's result untested.
- *Silo.* free_offset equal to mediasize meets the assertion at storage_persistent_silo.c:191,
  and a silo without segments a NULL at 199. smp_close_seg uses the segment after
  smp_save_segs may have freed it (302). A segment saved open keeps nobj 1. smp_appendban does
  not test for room.
- *Backends.* The probing thread compares addresses of a vbp_vcl that may have been freed and
  allocated again (cache_backend_poll.c:341). The saintmode list stops at the first expired
  entry (cache_backend.c:289). The DNS director may add a host twice (cache_dir_dns.c:324).

## 4. Proofs

| Theorem | States | If |
|---|---|---|
| CacheHash_proofs: TypeCorrect | Spec => []TypeOK | |
| CacheHash_proofs: RefcountsCorrect | Spec => []Refcounts | |
| CacheHash_proofs: NoUseAfterFree | Spec => []NoneFreedInUse | |
| CacheHash_proofs: ListsCorrect | Spec => []ListsAgree | |
| CacheHash_proofs: OneFetchCorrect | Spec => []OneFetchPerHead | |
| CacheHash_proofs: WakeupNotLost | Spec => []NoLostWakeup | ~QueueMayFill, ~StorageMayFail |
| CacheHash_proofs: PurgeIsFinal | Spec => PurgedStaysPurged | ~VclSetsTtl |
| Lookup_proofs: BanInvariant | Spec => []BanInv, the inductive invariant | |
| Lookup_proofs: BanTypeCorrect | Spec => []TypeOK | |
| Lookup_proofs: BanRefcntCorrect | Spec => []BanRefcnt | |
| Lookup_proofs: UnlockedWalksSafe | Spec => []NoDanglingBan | |
| Lookup_proofs: NoBanForgotten | Spec => [](GoneSuperseded /\ BanNotForgotten) | |
| Lookup_proofs: LurkerCautious | Spec => LurkerLeavesReqBans, the safety half of LurkerWorks | |
| Lookup_proofs: SlingerInvariant | SlingerSpec => []SlingerInv, the inductive invariant | |
| Lookup_proofs: SlingerCorrect | SlingerSpec => []SlingerSound | |
| Lookup_proofs: SlingerRefines | SlingerSpec => IsHashTable (the refinement) | |
| WorkerPool_proofs: NothingLost | Spec => [](RequestInOnePlace, QueuedOnlyIfBusy, WaiterHasOneWaker, KissedHasNoRequest) | |
| WorkerPool_proofs: PoolCorrect | Spec => []PoolSound | TimelyStart, wthread_min <= wthread_max |
| WorkerPool_proofs: MinimumKept | Spec => KeepsMinimum | TimelyExit |
| Backend_proofs: VclCorrect | Spec => []VclSound | |
| Backend_proofs: BackendCorrect | Spec => []BackendSound | |
| Backend_proofs: ProbesCorrect | Spec => []ProbesSound | |
| Backend_proofs: JoinCorrect | Spec => []JoinEnds | |
| Front_proofs: WaiterCorrect | AcceptorSpec => []WaiterSound | |
| Front_proofs: EventsCorrect | AcceptorSpec => []EventsReachIdle | |
| Front_proofs: SessMemCorrect | SessMemSpec => []SessMemSound | |
| Front_proofs: EngineCorrect | Spec (of Center) => []EngineSound | |
| Front_proofs: FetchCorrect | Spec => []FetchSound | |
| Front_proofs: FramingCorrect | Spec => []FramingSound | |
| Front_proofs: ReuseCorrect | Spec => ReuseAfterResponse | |
| MgtChild_proofs: ManagerCorrect | Spec => []ManagerSound | |
| MgtChild_proofs: ProgramsAgree | Spec => []SameVcls | |
| MgtChild_proofs: SupervisorImplemented | Spec => Supervises (the refinement) | |
| Shmlog_proofs: MarkersCorrect | Spec => []MarkersInPlace | |
| Shmlog_proofs: ReaderCorrect | Spec => ReaderSeesWhole | |
| Shmlog_proofs: ReadOnceCorrect | Spec => NoRecordTwice | |
| Silo_proofs: TablesCorrect | Spec => []TablesUsable | |
| Silo_proofs: BansCorrect | Spec => []BansSurvive | |
| Silo_proofs: ListCorrect | Spec => []ListSurvives | |
| Silo_proofs: SpaceCorrect | Spec => []SpaceKept | |

Assumptions: those on the constants, named where they are declared: NULL is none of the
things pointed to, actors are distinct, the sets counted over are finite, bounds are
natural numbers. No number of threads, objects, bans, programs, segments or tests is fixed.
Three say more: http_req_size holds at least two units of data (its minimum is 256 bytes), a
worker's log buffer is not empty and fits in the log, and a record fits in the buffer with a
word to spare.
The last column has what a theorem needs besides. Each of these conditions is a constant of
the model that a run of section 3 has or can be given, and the table of further observations
tells what happens without it; TimelyStart and TimelyExit say that thread_pool_add_delay and
thread_pool_purge_delay are longer than a thread takes to start or to leave.

*CacheHash.* TypeOK is not inductive: a step that uses the session's object needs that
there is one (HasObj). `CacheInv` adds what every owner of a reference knows: which calls a
session is inside (CallsOK), that an objcore is on at most one list and a list has it once
(PlacesOK), that the sessions on a waiting list are those in state "wait" (WaitingOK), that
whoever has an objcore in hand finds it on the list of its own objhead (LinkedOK), that an
objcore with count zero is the business of one thread (DyingOK), that a busy objcore without
an object is its fetcher's alone (FillingOK), and the two counts. The counts are proved by
balance: a step changes the contribution of one actor to each count and the count by the
same amount (RefBalance, HeadBalance), so each action needs only its own arithmetic. Two more
invariants stand on it: OneBusy (one busy objcore to a list when nobody ignores it), and
BusyHeld with Awake (a busy objcore is in somebody's hands, and every waiting session has
somebody who will rush its list). Awake is where a worker queue that fills up and an object
that cannot be stored break the code, hence the conditions.

*Ban.* `BanInv` is TypeOK, `Structure` and BanRefcnt. `Structure` says where every pointer
into the list stands: an object's ban is on the list, a walk is between the ban it
started at and its object's ban, only one walk works on an object, a hunt is between its
end and its start, a listing is above its hold. BanRefcnt is needed to be inductive with
it: a ban leaves the list only with count zero, so no pointer that is counted stands on
it, and the uncounted ones (walks, hunts) are above one that is counted. The counting
argument is one lemma, CardChange: a set that changes at one element changes its
cardinality by at most one. NoDanglingBan follows. NoBanForgotten adds an invariant on
top of it: what a hunt has still to mark, and what a walk has passed. A ban is marked
GONE only by a hunt for a newer ban with the same test, and a walk that skipped a GONE
ban started below that newer ban, so the object stays behind it. LurkerCautious rests on
`LurkerClear`: unless the lurker remembers a skipped test, it has walked past no live ban that
tests a request; only its own walk may move its object.

*HashSlinger.* The critbit tree is a structure in memory that an insert or a delete rebuilds
in the middle. `Tree(O, Y, r, S)` describes it without recursion: S gives every pointer the
set of objheads below it. A node's set is the union of its leafs' sets, its members agree
before the critical bit and part there, critical bits grow downwards, and one pointer leads to
each node (OneParent). An insert adds the new objhead to the sets along one path, a delete
takes it out of them (TreeInsert, TreeDelete); the critical bit found at the end of the path
is the right one for every node above the place of insertion, because whatever is below one
node agrees up to its bit (PlaceOK). That Path, the loop of hcb_insert, finds what is there
(PathFinds) is shown with the least index at which it would stray. `SlingerInv` adds what
threads without the lock have in hand (Holds): memory in the tree or cooling off, or memory
that dies next while the cleaner's sleep still waits for them (`cooling`); and that a node outside the
tree points to nothing that dies before it (Stored). A deleting thread is alone with its
objhead (Alone), counts are the references handed out (Counted), and the lookups under way
cannot take a count past the bound (Bounded). The lists of the other two slingers are sorted
by memcmp, a strict total order (LessIsOrder), so that a search that stops at another digest
shows there is none and the place to insert. The refinement needs two facts more: no two
objheads in the table have one digest (OneHead), and a digest not found under the lock is not
there (NotInTree, NotInLists).

*WorkerPool.* `PoolInv` says who holds a request (one thread, the queue of one pool, or the
caller that is handing it over) and who will wake a thread that waits (it is on the idle list,
or somebody took it from there and has not signalled yet). The maximum needs the herder's
position: a thread that is starting is not counted in nthr, so there may be one only while
the herder sleeps. The minimum needs the same of the timer and of the one thread that is
leaving (MinInv).

*Backend.* `Inv` has three layers. VclInv: who has a VCL in hand, and that busy counts them.
A session gives its reference to the thread without the mutex, so neither alone is counted.
BackInv: the backend lives while a VCL declares it, its count is those VCLs and the
connections in use, a connection is idle or one session's. All of this but the last holds only up
to the first lost update (`raced`); n_conn, under the mutex everywhere, stays right. Between
the load and the store nobody frees the backend, since only the CLI thread does (AddRefOK). ProbeInv: the list of probes is
the VCLs that declare the backend, without duplicates, the active one first.

*Acceptor.* `AcceptorInv` says that the places of a session are disjoint and no list has one
twice (ListsOK, Apart), and that exactly the sessions in a place own a descriptor, each its
own (FdsOK). The kernel's side has to be tied to that: epoll's set is descriptors that are
open, and sp->ev tells which (KnownOK), or EPOLL_CTL_ADD and MOD would be mixed up. RoundOK is
what makes EventsReachIdle inductive: events are one-shot, so while one of a session is being
handled no other is armed for it or put aside by kqueue; poll, which is not one-shot, walks
over its list, and what is left of the walk is on the list.

*SessMem.* `MemInv`: at any time a session memory is on one of the two lists, in use, or in the
hands of one thread (MemApart), what is on a list or in a hand is not freed (Live), and the
other threads insert only into the list that is not the acceptor's, under the lock that it
takes to swap (LockOK, ListsApart). The bound on the number counts the threads between test
and count.

*Center.* `CenterInv` is, for every step of the engine, what the code of the step takes for
granted. FreshOK: a session without a request has nothing of the last one. RequestOK: which
steps have an object, a backend connection, a director, and which of the worker's flags are
clear. WorkerOK: the rest of the worker, up to the point where one of the two paths noted in
section 3 leaves something set (`hist.spoiled`). BusyOK: where an objcore may be busy; the
objects that ved_include will restore count too. FramedOK carries the framing from
RES_BuildHttp over the includes to the end of the body: it speaks of the bottom frame while
includes are under way, and from the header on of the length that was announced (Sent). KeptOK is what cnt_done needs for ReuseAfterResponse. Each is a
predicate of the fields and not of the variables, so that a step is shown on the values it
computes.

*Shmlog.* `ShmlogInv` speaks of chains: `Chain(q, p, e)` says that the records q lie one behind
the other from word p to word e. The records of the current turn are one (CycleOK), and so
are the ones ahead of the reader, which is in one of three situations (ReaderOK): it follows
this turn (Fresh), it stands at the front while the log begins anew there (Stale), or it is
among the records of the turn before, which end in a marker (Old). A record is complete or
*hidden* (Sound): some record up to it begins with an end marker that is in nobody's room and
so will stay, or is the first one of the thread that still writes it. Both are needed: the
first is what a death of the child turns the second into. The rooms of the threads are apart and each begins
with an end marker until vsl_hdr (WritersOK), unless a thread was lapped (`spoilt`), which
stops every reader. HandOK relates the word that vsl_nextlog has loaded to what is there when
it is used. What Room adds up is shown with the least number at which two sums differ.

*MgtChild.* `MgtInv` speaks of the two pipes. As long as no reply was given up on, they hold
as many messages as the manager waits for (InStep), and then the cacher's programs are the
manager's, ahead by the one command whose answer is under way (RunOK). Once a reply was given
up on they are out of step for good, and SameVcls says nothing until the cacher is replaced.
A push goes through the list in order, so what the cacher has is a prefix given by the
number of answers (PushOK). The refinement mapping takes the served program to be the
cacher's active one once it has started (Off before), the chosen one to be the manager's, and
a conversation to be under way while a command or an answer is, or the child is condemned;
each step is one of Supervisor's or changes none of the three.

*Silo.* `SiloInv` follows smp_save_segs and SMP_NewBan from store to store (SegProtocol,
BanProtocol): what each copy of a table holds at each point, given how far the writer is. The
bans need that a completed ban is in both copies, signed or not, and nothing on the number of
deaths. Space needs more: the list in memory and both tables are in ring order (`Ring`: from
the oldest to the youngest once round the silo), the free space begins after the youngest or
before the oldest (`FreeAt`), and what the next child would keep of the saved list is on the
list in memory, except while smp_save_segs is at work, when it is at least clear of it. The two
loops of smp_open_segs are characterised by where they stop (OpensAt), without induction: the
set of stops is a nonempty set of natural numbers. A segment that is dropped is off the list
before smp_save_segs and its space used only after it; that is the argument for SpaceKept. It
needs room between the new segment and the oldest one, and ends with `brim`.

Only model-checked: every liveness property (temporal reasoning under fairness is out of the
prover's reach).

## 5. Not modelled, and the plan

Left out for good, since they are sequential work on bytes, generated or not part of the
server: the VCL compiler, vmod_std, HTTP parsing, ESI parsing and gzip, the command line
tools, varnishtest, packaging, and the vendored libraries (libvgz, libjemalloc,
compatibility shims), which are the larger part of the repository's lines and whose
behaviour appears in the models only as success or failure.

Left out so far: VSM chunks (`vsm.c`, `mgt_shmem.c`), the free lists of `storage_file.c`,
directors and the saintmode list, Vary, `binary_heap.c`, RFC2616_Ttl, parameters, and the
telnet side of the manager's CLI. They are small and mostly sequential: each is an operator
to be checked against a reference definition.
