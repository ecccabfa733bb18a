------------------------------ MODULE Backend ------------------------------
(***************************************************************************)
(* VCL references (cache_vcl.c) and the backend that several VCLs share    *)
(* (cache_backend.c, cache_backend_cfg.c, cache_backend_poll.c,            *)
(* cache_dir.c): its reference count, its connection pool and its health   *)
(* probe.                                                                  *)
(*                                                                         *)
(* There is one backend, which some VCLs declare: VBE_AddBackend finds it  *)
(* by name and address, so others are independent of it.  The CLI thread   *)
(* is the only one that loads, uses, discards and frees VCLs; worker       *)
(* threads lend their cached VCL reference to the session they run; one    *)
(* thread probes the backend.  A step is a section under a mutex or the    *)
(* unlocked statements between two.  A failed assertion panics the child,  *)
(* and the manager starts a new one.                                       *)
(*                                                                         *)
(* VBE_AddBackend takes a reference without b->mtx, so an update of the    *)
(* count can be lost and the backend freed in use.  Whoever then looks at  *)
(* its magic number panics.  One thing is not followed from there: a load  *)
(* that allocates a second backend beside the freed one.                   *)
(***************************************************************************)
EXTENDS Integers, Sequences, FiniteSets

CONSTANTS
  Vcl,        \* names of VCL programs, loaded or not
  Uses,       \* what a VCL may make of the backend, see "uses"
  Worker,     \* worker threads
  Sess,       \* sessions
  Conn,       \* struct vbc
  None,       \* NULL
  MaxConn,    \* .max_connections, 0 for no limit
  LoadAfterRace \* bound: is the backend declared again once an update was lost?

\* The assertions that may fail: ASSERT_CLI and b->refcount > 0 of
\* VBE_DropRefLocked, the magic number of a backend, XXXAN of vbp_build_req
Panics == {"last_ref", "no_ref", "freed", "no_vcl"}

ASSUME BackendAssumption ==
  /\ IsFiniteSet(Vcl) /\ IsFiniteSet(Worker) /\ IsFiniteSet(Sess)
  /\ IsFiniteSet(Conn)
  /\ Uses \subseteq {"nothing", "backend", "probe"}
  /\ None \notin Vcl \cup Worker \cup Sess \cup Conn \cup Panics
  /\ MaxConn \in Nat
  /\ LoadAfterRace \in BOOLEAN

VARIABLES
  \* cache_vcl.c
  vstate,     \* vstate[v]: "none", "avail" or "discarded"
  uses,       \* uses[v]: what the program does with the backend: "nothing",
              \* declare the "backend", or declare it with a "probe"
  busy,       \* busy[v]: references sessions and workers hold
  active,     \* vcl_active
  \* cache_backend_cfg.c
  balive,     \* is the backend on the list of backends?
  refcount,   \* b->refcount
  n_conn,     \* b->n_conn
  connlist,   \* b->connlist: open connections nobody uses
  healthy,    \* b->healthy
  raced,      \* was an update of b->refcount lost? (not in the code)
  \* cache_backend_poll.c
  pvcls,      \* vt->vcls, head first; <<>> also when there is no vbp_target
  probe,      \* the probing thread: where it is and its vcl pointer
  stop,       \* vt->stop, and a pending pthread_cancel
  \* threads
  cli,        \* the CLI thread
  wvcl,       \* wvcl[w]: w->vcl, the cached reference
  spc,        \* spc[s]: where the session is
  sw,         \* sw[s]: sp->wrk
  svcl,       \* svcl[s]: sp->vcl
  vbc,        \* vbc[s]: sp->vbc, or the connection being opened
  panic       \* the assertion that failed, or None

vclVars == <<vstate, uses, busy, active>>
beVars == <<balive, refcount, n_conn, connlist, raced>>
probeVars == <<healthy, pvcls, probe, stop>>
sessVars == <<wvcl, spc, sw, svcl, vbc>>
vars == <<vclVars, beVars, probeVars, cli, sessVars, panic>>

CliPc == {"idle", "poll", "cmd", "addref", "insert", "link", "usehealth",
          "discard", "remove", "cancel", "join", "dropref", "unlink"}
ProbePc == {"none", "test", "lock", "poke", "sleep", "ended"}
SessPc == {"idle", "rel", "get", "run", "getvbe", "check", "open", "try",
           "connect", "have", "done", "parked"}

\* todo: VCLs VCL_Poll has yet to look at; ret: where VCL_Nuke returns to
IdleCli == [pc |-> "idle", v |-> None, reg |-> 0, todo |-> {}, ret |-> "idle"]
NoProbe == [pc |-> "none", vcl |-> None]

Init ==
  /\ vstate = [v \in Vcl |-> "none"]
  /\ uses = [v \in Vcl |-> "nothing"]
  /\ busy = [v \in Vcl |-> 0]
  /\ active = None
  /\ balive = FALSE
  /\ refcount = 0
  /\ n_conn = 0
  /\ connlist = {}
  /\ raced = FALSE
  /\ healthy = TRUE
  /\ pvcls = <<>>
  /\ probe = NoProbe
  /\ stop = FALSE
  /\ cli = IdleCli
  /\ wvcl = [w \in Worker |-> None]
  /\ spc = [s \in Sess |-> "idle"]
  /\ sw = [s \in Sess |-> None]
  /\ svcl = [s \in Sess |-> None]
  /\ vbc = [s \in Sess |-> None]
  /\ panic = None

-----------------------------------------------------------------------------
(* The CLI thread *)

\* The loaded VCLs that declare the backend, and those that also probe it
Declaring == {v \in Vcl : uses[v] # "nothing"}
Probing == {v \in Vcl : uses[v] = "probe"}

CliAt(p) == panic = None /\ cli.pc = p
CliTo(p) == cli' = [cli EXCEPT !.pc = p]
Call(p, v) == [IdleCli EXCEPT !.pc = p, !.v = v]

\* cli_cb_before: a command arrives; the manager pings when nobody else asks
CliCommand ==
  /\ CliAt("idle")
  /\ cli' = [cli EXCEPT !.pc = "poll", !.todo = {v \in Vcl : vstate[v] # "none"}]
  /\ UNCHANGED <<vclVars, beVars, probeVars, sessVars, panic>>

\* (mutation) any discarded VCL is garbage
GarbageEvenBusy == {v \in Vcl : vstate[v] = "discarded"}

Garbage == {v \in Vcl : vstate[v] = "discarded" /\ busy[v] = 0}

\* VCL_Nuke: the finalizer drops the probe, then the backend
Nuke(v, todo, ret) ==
  cli' = [pc |-> CASE v \in Probing -> "remove"
                   [] v \in Declaring \ Probing -> "dropref"
                   [] OTHER -> "unlink",
          v |-> v, reg |-> 0, todo |-> todo, ret |-> ret]

\* VCL_Poll looks at each VCL once, without vcl_mtx
VCL_Poll(v) ==
  /\ CliAt("poll")
  /\ v \in cli.todo
  /\ IF v \in Garbage THEN Nuke(v, cli.todo \ {v}, "poll")
                      ELSE cli' = [cli EXCEPT !.todo = @ \ {v}]
  /\ UNCHANGED <<vclVars, beVars, probeVars, sessVars, panic>>

\* VBE_Poll frees a backend nobody refers to; its connections are not closed
VBE_Poll ==
  /\ CliAt("poll")
  /\ cli.todo = {}
  /\ balive' = (balive /\ ~(refcount = 0 /\ probe.pc = "none"))
  /\ CliTo("cmd")
  /\ UNCHANGED <<vclVars, refcount, n_conn, connlist, raced, probeVars, sessVars, panic>>

\* A command that changes nothing here: ping, vcl.list, param.set ...
OtherCommand ==
  /\ CliAt("cmd")
  /\ cli' = IdleCli
  /\ UNCHANGED <<vclVars, beVars, probeVars, sessVars, panic>>

\* VCL_Load up to VBE_AddBackend: a new backend, or the one found, whose
\* count is read without b->mtx
VCL_Load(v, u) ==
  /\ CliAt("cmd")
  /\ vstate[v] = "none"
  /\ uses' = [uses EXCEPT ![v] = u]
  /\ \/ /\ u = "nothing"
        /\ cli' = Call("link", v)
        /\ UNCHANGED <<beVars, healthy>>
     \/ /\ u # "nothing" /\ ~balive /\ Declaring = {}
        /\ balive' = TRUE
        /\ refcount' = 1 /\ n_conn' = 0 /\ connlist' = {} /\ raced' = FALSE
        /\ healthy' = TRUE
        /\ cli' = Call("insert", v)
     \/ /\ u # "nothing" /\ balive /\ (raced => LoadAfterRace)
        /\ cli' = [Call("addref", v) EXCEPT !.reg = refcount]
        /\ UNCHANGED <<beVars, healthy>>
  /\ UNCHANGED <<vstate, busy, active, pvcls, probe, stop, sessVars, panic>>

\* The store of b->refcount++.  What a session did to the count since the
\* load, under b->mtx, is lost.
AddRefStore ==
  /\ CliAt("addref")
  /\ refcount' = cli.reg + 1
  /\ raced' = (raced \/ refcount # cli.reg)
  /\ cli' = Call("insert", cli.v)
  /\ UNCHANGED <<vclVars, balive, n_conn, connlist, probeVars, sessVars, panic>>

\* VBP_Insert: the first VCL starts the thread, after pretending that as many
\* probes as .initial says were good
VBP_Insert ==
  /\ CliAt("insert")
  /\ IF cli.v \in Probing
       THEN /\ pvcls' = Append(pvcls, cli.v)
            /\ IF probe.pc = "none"
                 THEN /\ probe' = [pc |-> "test", vcl |-> None]
                      /\ healthy' \in BOOLEAN
                 ELSE UNCHANGED <<probe, healthy>>
       ELSE UNCHANGED <<pvcls, probe, healthy>>
  /\ CliTo("link")
  /\ UNCHANGED <<vclVars, beVars, stop, sessVars, panic>>

\* The end of VCL_Load
LinkVcl ==
  /\ CliAt("link")
  /\ vstate' = [vstate EXCEPT ![cli.v] = "avail"]
  /\ active' = IF active = None THEN cli.v ELSE active
  /\ cli' = IdleCli
  /\ UNCHANGED <<uses, busy, beVars, probeVars, sessVars, panic>>

\* ccf_config_use
ccf_config_use(v) ==
  /\ CliAt("cmd")
  /\ vstate[v] = "avail"
  /\ active' = v
  /\ cli' = IF v \in Probing THEN Call("usehealth", v)
                             ELSE IdleCli
  /\ UNCHANGED <<vstate, uses, busy, beVars, probeVars, sessVars, panic>>

Elems(q) == {q[i] : i \in DOMAIN q}

\* VTAILQ_REMOVE of an element that occurs at most once
Others(q, v) ==
  IF v \in Elems(q)
    THEN LET p == CHOOSE i \in DOMAIN q : q[i] = v
         IN  [i \in 1 .. Len(q) - 1 |-> IF i < p THEN q[i] ELSE q[i + 1]]
    ELSE q

\* (mutation) the VCL's probe is not moved to the front
InPlace(q, v) == q

ToFront(q, v) == <<v>> \o Others(q, v)

\* VBE_UseHealth and VBP_Use
VBP_Use ==
  /\ CliAt("usehealth")
  /\ balive
  /\ pvcls' = ToFront(pvcls, cli.v)
  /\ cli' = IdleCli
  /\ UNCHANGED <<vclVars, beVars, healthy, probe, stop, sessVars, panic>>

Discardable(v) == vstate[v] = "avail" /\ v # active

\* ccf_config_discard under vcl_mtx
ccf_config_discard(v) ==
  /\ CliAt("cmd")
  /\ Discardable(v)
  /\ vstate' = [vstate EXCEPT ![v] = "discarded"]
  /\ cli' = Call("discard", v)
  /\ UNCHANGED <<uses, busy, active, beVars, probeVars, sessVars, panic>>

\* and without it: VCL_Nuke at once if nobody uses the VCL
DiscardUnused ==
  /\ CliAt("discard")
  /\ IF cli.v \in Garbage THEN Nuke(cli.v, {}, "idle") ELSE cli' = IdleCli
  /\ UNCHANGED <<vclVars, beVars, probeVars, sessVars, panic>>

\* (mutation) the thread is joined although others still need it
JoinAnyway(q) == IF q = <<>> THEN "cancel" ELSE "join"

AfterRemove(q) == IF q = <<>> THEN "cancel" ELSE "dropref"

\* VBP_Remove under vbp_mtx
VBP_Remove ==
  /\ CliAt("remove")
  /\ balive
  /\ pvcls' = Others(pvcls, cli.v)
  /\ CliTo(AfterRemove(pvcls'))
  /\ UNCHANGED <<vclVars, beVars, healthy, probe, stop, sessVars, panic>>

\* No more polling for this backend: vt->stop and pthread_cancel
ProbeCancel ==
  /\ CliAt("cancel")
  /\ healthy' = TRUE
  /\ stop' = TRUE
  /\ CliTo("join")
  /\ UNCHANGED <<vclVars, beVars, pvcls, probe, sessVars, panic>>

HealthAfterProbe == TRUE

\* pthread_join came back
ProbeJoin ==
  /\ CliAt("join")
  /\ probe.pc = "ended"
  /\ healthy' = HealthAfterProbe
  /\ probe' = NoProbe
  /\ stop' = FALSE
  /\ CliTo("dropref")
  /\ UNCHANGED <<vclVars, beVars, pvcls, sessVars, panic>>

DropVclRef == refcount - 1

\* VBE_DropRefVcl: with the last reference the idle connections are closed and
\* the backend is freed
VBE_DropRefVcl ==
  /\ CliAt("dropref")
  /\ balive
  /\ refcount' = DropVclRef
  /\ panic' = IF refcount > 0 THEN None ELSE "no_ref"
  /\ IF refcount' = 0 THEN balive' = FALSE /\ connlist' = {}
                      ELSE UNCHANGED <<balive, connlist>>
  /\ CliTo("unlink")
  /\ UNCHANGED <<vclVars, n_conn, raced, probeVars, sessVars>>

\* CHECK_OBJ_NOTNULL in VBP_Use, VBP_Remove and VBE_DropRefVcl
CliFindsFreed ==
  /\ CliAt("usehealth") \/ CliAt("remove") \/ CliAt("dropref")
  /\ ~balive
  /\ panic' = "freed"
  /\ UNCHANGED <<vclVars, beVars, probeVars, cli, sessVars>>

\* The end of VCL_Nuke: dlclose and FREE_OBJ
UnlinkVcl ==
  /\ CliAt("unlink")
  /\ vstate' = [vstate EXCEPT ![cli.v] = "none"]
  /\ uses' = [uses EXCEPT ![cli.v] = "nothing"]
  /\ cli' = [cli EXCEPT !.pc = cli.ret, !.v = None, !.ret = "idle"]
  /\ UNCHANGED <<busy, active, beVars, probeVars, sessVars, panic>>

-----------------------------------------------------------------------------
(* The probing thread *)

ProbeAt(p) == panic = None /\ probe.pc = p
ProbeTo(p) == probe' = [probe EXCEPT !.pc = p]

\* while (!vt->stop)
ProbeTest ==
  /\ ProbeAt("test")
  /\ ProbeTo(IF stop THEN "ended" ELSE "lock")
  /\ UNCHANGED <<vclVars, beVars, healthy, pvcls, stop, cli, sessVars, panic>>

\* Under vbp_mtx: pick up the probe of the first VCL.  vbp_build_req asserts
\* that there is one.
ProbeLock ==
  /\ ProbeAt("lock")
  /\ IF pvcls = <<>>
       THEN panic' = "no_vcl" /\ UNCHANGED probe
       ELSE probe' = [pc |-> "poke", vcl |-> Head(pvcls)] /\ UNCHANGED panic
  /\ UNCHANGED <<vclVars, beVars, healthy, pvcls, stop, cli, sessVars>>

\* vbp_poke and vbp_has_poked: the window of results is above the threshold
\* or below it
ProbePoke ==
  /\ ProbeAt("poke")
  /\ healthy' \in BOOLEAN
  /\ ProbeTo("sleep")
  /\ UNCHANGED <<vclVars, beVars, pvcls, stop, cli, sessVars, panic>>

ProbeSleep ==
  /\ ProbeAt("sleep")
  /\ ProbeTo("test")
  /\ UNCHANGED <<vclVars, beVars, healthy, pvcls, stop, cli, sessVars, panic>>

\* pthread_cancel takes effect in the I/O of a probe or in the sleep
ProbeCancelled ==
  /\ panic = None
  /\ stop
  /\ probe.pc \in {"poke", "sleep"}
  /\ ProbeTo("ended")
  /\ UNCHANGED <<vclVars, beVars, healthy, pvcls, stop, cli, sessVars, panic>>

-----------------------------------------------------------------------------
(* Sessions and their worker threads *)

SessAt(s, p) == panic = None /\ spc[s] = p
SessTo(s, p) == spc' = [spc EXCEPT ![s] = p]
FreeWorker(w) == \A s \in Sess : sw[s] # w
NewConn == Conn \ (connlist \cup {vbc[s] : s \in Sess})

\* cnt_start, VCL_Refresh: the cached reference is compared with vcl_active
\* without the mutex, and lent to the session when it is current
VCL_Refresh(s, w) ==
  /\ SessAt(s, "idle")
  /\ FreeWorker(w)
  /\ active # None
  /\ sw' = [sw EXCEPT ![s] = w]
  /\ \/ /\ wvcl[w] = active
        /\ svcl' = [svcl EXCEPT ![s] = wvcl[w]]
        /\ wvcl' = [wvcl EXCEPT ![w] = None]
        /\ SessTo(s, "run")
     \/ /\ wvcl[w] # active
        /\ SessTo(s, IF wvcl[w] = None THEN "get" ELSE "rel")
        /\ UNCHANGED <<svcl, wvcl>>
  /\ UNCHANGED <<vclVars, beVars, probeVars, cli, vbc, panic>>

\* VCL_Rel, under vcl_mtx
VCL_Rel(v) == busy' = [busy EXCEPT ![v] = @ - 1]

RefreshRel(s) ==
  /\ SessAt(s, "rel")
  /\ VCL_Rel(wvcl[sw[s]])
  /\ wvcl' = [wvcl EXCEPT ![sw[s]] = None]
  /\ SessTo(s, "get")
  /\ UNCHANGED <<vstate, uses, active, beVars, probeVars, cli, sw, svcl, vbc, panic>>

\* VCL_Get, under vcl_mtx
VCL_Get(s) ==
  /\ SessAt(s, "get")
  /\ busy' = [busy EXCEPT ![active] = @ + 1]
  /\ svcl' = [svcl EXCEPT ![s] = active]
  /\ SessTo(s, "run")
  /\ UNCHANGED <<vstate, uses, active, beVars, probeVars, cli, wvcl, sw, vbc, panic>>

\* The session waits for a busy object and leaves the thread
Park(s) ==
  /\ SessAt(s, "run")
  /\ SessTo(s, "parked")
  /\ sw' = [sw EXCEPT ![s] = None]
  /\ UNCHANGED <<vclVars, beVars, probeVars, cli, wvcl, svcl, vbc, panic>>

Resume(s, w) ==
  /\ SessAt(s, "parked")
  /\ FreeWorker(w)
  /\ sw' = [sw EXCEPT ![s] = w]
  /\ SessTo(s, "run")
  /\ UNCHANGED <<vclVars, beVars, probeVars, cli, wvcl, svcl, vbc, panic>>

ReleaseOnDrop(v) == VCL_Rel(v)

\* WRK_QueueSession could not queue it: loose the VCL reference
DropParked(s) ==
  /\ SessAt(s, "parked")
  /\ ReleaseOnDrop(svcl[s])
  /\ svcl' = [svcl EXCEPT ![s] = None]
  /\ SessTo(s, "idle")
  /\ UNCHANGED <<vstate, uses, active, beVars, probeVars, cli, wvcl, sw, vbc, panic>>

\* cnt_done gives the reference to the thread, which drops the one it has
Done(s) ==
  /\ SessAt(s, "run")
  /\ wvcl[sw[s]] # None
  /\ VCL_Rel(wvcl[sw[s]])
  /\ wvcl' = [wvcl EXCEPT ![sw[s]] = None]
  /\ SessTo(s, "done")
  /\ UNCHANGED <<vstate, uses, active, beVars, probeVars, cli, sw, svcl, vbc, panic>>

ReturnVcl(s) ==
  /\ SessAt(s, "run") \/ SessAt(s, "done")
  /\ wvcl[sw[s]] = None
  /\ wvcl' = [wvcl EXCEPT ![sw[s]] = svcl[s]]
  /\ svcl' = [svcl EXCEPT ![s] = None]
  /\ sw' = [sw EXCEPT ![s] = None]
  /\ SessTo(s, "idle")
  /\ UNCHANGED <<vclVars, beVars, probeVars, cli, vbc, panic>>

\* wrk_thread_real ends and another thread takes its place
WorkerExit(w) ==
  /\ panic = None
  /\ FreeWorker(w)
  /\ wvcl[w] # None
  /\ VCL_Rel(wvcl[w])
  /\ wvcl' = [wvcl EXCEPT ![w] = None]
  /\ UNCHANGED <<vstate, uses, active, beVars, probeVars, cli, spc, sw, svcl, vbc, panic>>

-----------------------------------------------------------------------------
(* Connections *)

\* VBE_DropRefLocked in a session: the last reference must not be ours
DropRef ==
  /\ balive
  /\ refcount' = refcount - 1
  /\ panic' = CASE refcount = 1 -> "last_ref"
                [] refcount < 1 -> "no_ref"
                [] OTHER -> None

\* cnt_fetch or cnt_pipe wants a connection
GetFd(s) ==
  /\ SessAt(s, "run")
  /\ svcl[s] \in Declaring
  /\ SessTo(s, "getvbe")
  /\ UNCHANGED <<vclVars, beVars, probeVars, cli, wvcl, sw, svcl, vbc, panic>>

\* (mutation) a recycled connection is used without a reference
NoRecycleRef == refcount

RecycleRef == refcount + 1

\* vbe_GetVbe under b->mtx: first look for one to recycle
Recycled(s) ==
  /\ SessAt(s, "getvbe")
  /\ balive
  /\ \E c \in connlist :
       /\ connlist' = connlist \ {c}
       /\ vbc' = [vbc EXCEPT ![s] = c]
  /\ refcount' = RecycleRef
  /\ SessTo(s, "check")
  /\ UNCHANGED <<vclVars, balive, n_conn, raced, probeVars, cli, wvcl, sw, svcl, panic>>

NoneToRecycle(s) ==
  /\ SessAt(s, "getvbe")
  /\ balive
  /\ connlist = {}
  /\ SessTo(s, "open")
  /\ UNCHANGED <<vclVars, beVars, probeVars, cli, wvcl, sw, svcl, vbc, panic>>

\* vbe_CheckFd
CheckFd(s) ==
  /\ SessAt(s, "check")
  /\ SessTo(s, "have")
  /\ UNCHANGED <<vclVars, beVars, probeVars, cli, wvcl, sw, svcl, vbc, panic>>

DropCount == n_conn - 1

\* VTCP_close, VBE_DropRefConn and VBE_ReleaseConn: VDI_CloseFd, or the peer
\* has closed the connection we wanted to recycle
CloseTo(s, p) ==
  /\ n_conn' = DropCount
  /\ DropRef
  /\ vbc' = [vbc EXCEPT ![s] = None]
  /\ SessTo(s, p)
  /\ UNCHANGED <<vclVars, balive, connlist, raced, probeVars, cli, wvcl, sw, svcl>>

TooLate(s) == SessAt(s, "check") /\ CloseTo(s, "getvbe")

VDI_CloseFd(s) == SessAt(s, "have") /\ CloseTo(s, "run")

Full == MaxConn > 0 /\ n_conn >= MaxConn

\* vbe_Healthy and the limit, both read without b->mtx
Refused(s) ==
  /\ SessAt(s, "open")
  /\ balive
  /\ ~healthy \/ Full
  /\ SessTo(s, "run")
  /\ UNCHANGED <<vclVars, beVars, probeVars, cli, wvcl, sw, svcl, vbc, panic>>

MayOpen(s) ==
  /\ SessAt(s, "open")
  /\ balive
  /\ healthy
  /\ ~Full
  /\ SessTo(s, "try")
  /\ UNCHANGED <<vclVars, beVars, probeVars, cli, wvcl, sw, svcl, vbc, panic>>

\* bes_conn_try: counted before the connect, uncounted when it fails.  It does
\* not look at the magic number, and counts in freed memory, too.
bes_conn_try(s) ==
  /\ SessAt(s, "try")
  /\ refcount' = refcount + 1
  /\ n_conn' = n_conn + 1
  /\ \E c \in NewConn : vbc' = [vbc EXCEPT ![s] = c]
  /\ SessTo(s, "connect")
  /\ UNCHANGED <<vclVars, balive, connlist, raced, probeVars, cli, wvcl, sw, svcl, panic>>

Connected(s) ==
  /\ SessAt(s, "connect")
  /\ SessTo(s, "have")
  /\ UNCHANGED <<vclVars, beVars, probeVars, cli, wvcl, sw, svcl, vbc, panic>>

\* This decrement does not look for the last reference
ConnectFails(s) ==
  /\ SessAt(s, "connect")
  /\ refcount' = refcount - 1
  /\ n_conn' = n_conn - 1
  /\ vbc' = [vbc EXCEPT ![s] = None]
  /\ SessTo(s, "run")
  /\ UNCHANGED <<vclVars, balive, connlist, raced, probeVars, cli, wvcl, sw, svcl, panic>>

VDI_RecycleFd(s) ==
  /\ SessAt(s, "have")
  /\ connlist' = connlist \cup {vbc[s]}
  /\ DropRef
  /\ vbc' = [vbc EXCEPT ![s] = None]
  /\ SessTo(s, "run")
  /\ UNCHANGED <<vclVars, balive, n_conn, raced, probeVars, cli, wvcl, sw, svcl>>

\* CHECK_OBJ_NOTNULL in vbe_GetVbe, vbe_Healthy, VBE_DropRefConn, VDI_CloseFd
\* and VDI_RecycleFd
SessFindsFreed(s) ==
  /\ \E p \in {"getvbe", "check", "open", "have"} : SessAt(s, p)
  /\ ~balive
  /\ panic' = "freed"
  /\ UNCHANGED <<vclVars, beVars, probeVars, cli, sessVars>>

-----------------------------------------------------------------------------
\* The manager reaps the dead child and starts another
Restart ==
  /\ panic # None
  /\ vstate' = [v \in Vcl |-> "none"]
  /\ uses' = [v \in Vcl |-> "nothing"]
  /\ busy' = [v \in Vcl |-> 0]
  /\ active' = None
  /\ balive' = FALSE /\ refcount' = 0 /\ n_conn' = 0 /\ connlist' = {}
  /\ raced' = FALSE
  /\ healthy' = TRUE /\ pvcls' = <<>> /\ probe' = NoProbe /\ stop' = FALSE
  /\ cli' = IdleCli
  /\ wvcl' = [w \in Worker |-> None]
  /\ spc' = [s \in Sess |-> "idle"] /\ sw' = [s \in Sess |-> None]
  /\ svcl' = [s \in Sess |-> None] /\ vbc' = [s \in Sess |-> None]
  /\ panic' = None

CliCmd ==
  \/ OtherCommand
  \/ \E v \in Vcl, u \in Uses : VCL_Load(v, u)
  \/ \E v \in Vcl : ccf_config_use(v) \/ ccf_config_discard(v)

CliRest ==
  \/ (\E v \in Vcl : VCL_Poll(v)) \/ VBE_Poll
  \/ AddRefStore \/ VBP_Insert \/ LinkVcl
  \/ VBP_Use
  \/ DiscardUnused \/ CliFindsFreed
  \/ VBP_Remove \/ ProbeCancel \/ ProbeJoin \/ VBE_DropRefVcl \/ UnlinkVcl

CliStep == CliCommand \/ CliCmd \/ CliRest

ProbeStep == ProbeTest \/ ProbeLock \/ ProbePoke \/ ProbeSleep \/ ProbeCancelled

VclUse(s) ==
  \/ \E w \in Worker : VCL_Refresh(s, w) \/ Resume(s, w)
  \/ RefreshRel(s) \/ VCL_Get(s) \/ Park(s) \/ DropParked(s)
  \/ Done(s) \/ ReturnVcl(s)

ConnUse(s) ==
  \/ GetFd(s) \/ Recycled(s) \/ NoneToRecycle(s) \/ CheckFd(s) \/ TooLate(s)
  \/ Refused(s) \/ MayOpen(s) \/ bes_conn_try(s) \/ Connected(s)
  \/ ConnectFails(s) \/ VDI_CloseFd(s) \/ VDI_RecycleFd(s)
  \/ SessFindsFreed(s)

Next ==
  \/ CliStep
  \/ ProbeStep
  \/ \E s \in Sess : VclUse(s) \/ ConnUse(s)
  \/ \E w \in Worker : WorkerExit(w)
  \/ Restart

Spec == Init /\ [][Next]_vars

\* The CLI thread and the probing thread are scheduled, and the manager
\* restarts a child that died.  Nothing is assumed of clients.
FairSpec ==
  /\ Spec
  /\ WF_vars(CliCmd \/ CliRest)
  /\ WF_vars(ProbeStep)
  /\ WF_vars(Restart)

-----------------------------------------------------------------------------
(* Properties *)

TypeOK ==
  /\ vstate \in [Vcl -> {"none", "avail", "discarded"}]
  /\ uses \in [Vcl -> {"nothing", "backend", "probe"}]
  /\ busy \in [Vcl -> Nat]
  /\ active \in Vcl \cup {None}
  /\ balive \in BOOLEAN
  /\ refcount \in Int
  /\ n_conn \in Int
  /\ connlist \in SUBSET Conn
  /\ raced \in BOOLEAN
  /\ healthy \in BOOLEAN
  /\ pvcls \in Seq(Vcl)
  /\ probe \in [pc : ProbePc, vcl : Vcl \cup {None}]
  /\ stop \in BOOLEAN
  /\ cli \in [pc : CliPc, v : Vcl \cup {None}, reg : Int,
             todo : SUBSET Vcl, ret : {"idle", "poll"}]
  /\ wvcl \in [Worker -> Vcl \cup {None}]
  /\ spc \in [Sess -> SessPc]
  /\ sw \in [Sess -> Worker \cup {None}]
  /\ svcl \in [Sess -> Vcl \cup {None}]
  /\ vbc \in [Sess -> Conn \cup {None}]
  /\ panic \in Panics \cup {None}

LentTo(v) == {s \in Sess : svcl[s] = v}
CachedBy(v) == {w \in Worker : wvcl[w] = v}
Finalizing(v) == cli.v = v /\ cli.pc \in {"remove", "cancel", "join", "dropref", "unlink"}

\* conf->busy counts exactly the sessions and threads that hold the VCL,
\* although the reference moves between them without the mutex
\* (cache_center.c:320-325, 1476-1478).
VclBusy == \A v \in Vcl : busy[v] = Cardinality(LentTo(v)) + Cardinality(CachedBy(v))

\* A VCL that somebody holds is loaded, and the CLI thread is not finalizing
\* it: neither the unlocked test of busy in ccf_config_discard nor the one in
\* VCL_Poll frees a VCL under a session.
HeldVclStays ==
  \A v \in Vcl : LentTo(v) \cup CachedBy(v) # {}
                   => vstate[v] # "none" /\ ~Finalizing(v)

\* AZ((*vcc)->discard) in VCL_Get and assert(vcl != vcl_active) in VCL_Nuke:
\* the active VCL is never discarded.
ActiveIsAvailable == active # None => vstate[active] = "avail"

\* VCLs that hold a reference to the backend: loaded, or far enough in loading
RefHolders ==
  {v \in Declaring : \/ vstate[v] # "none" /\ ~(cli.v = v /\ cli.pc = "unlink")
                     \/ cli.v = v /\ cli.pc \in {"insert", "link"}}
\* Sessions that hold one: with an open connection, or opening it
Users == {s \in Sess : vbc[s] # None}

\* b->refcount counts the VCLs that declare the backend and the connections in
\* use, unless an update of it was lost, and n_conn all connections, idle ones
\* included.
BackendRefcnt ==
  panic = None =>
    /\ ~raced => refcount = Cardinality(RefHolders) + Cardinality(Users)
    /\ balive => n_conn = Cardinality(connlist) + Cardinality(Users)

\* "The last reference must come from the watcher in the CLI thread"
\* (cache_backend_cfg.c:92-93): a session never drops the last reference.
LastRefIsCli == panic # "last_ref"

\* A session can use the backend its VCL declares: it has not been freed.
BackendInUseIsAlive == \A s \in Sess : svcl[s] \in Declaring => balive

\* The probe of the active VCL is the one that runs, once the CLI command that
\* made it active is done.
ActiveProbeFirst ==
  panic = None /\ cli.pc = "idle" /\ active \in Probing
    => pvcls # <<>> /\ Head(pvcls) = active

\* A backend nobody probes is healthy, whatever the thread wrote last.
UnprobedIsHealthy == probe.pc = "none" => healthy

\* .max_connections can be set to "limit the maximum number of concurrent
\* backend connections" (doc/sphinx/reference/vcl.rst:112).
MaxConnections == MaxConn > 0 => n_conn <= MaxConn

\* vbp_build_req asserts XXXAN(vcl): the thread finds a VCL whenever it looks.
ProbeFindsVcl == panic # "no_vcl"

\* The CLI thread waits in pthread_join for a thread that was told to stop and
\* that no VCL needs, and for no other; no thread is told to stop, and none
\* ends, behind the back of a VCL that needs it (VBP_Remove).
JoinEnds ==
  /\ stop <=> cli.pc = "join"
  /\ stop => probe.pc # "none" /\ pvcls = <<>>
  /\ probe.pc = "ended" => stop
  /\ pvcls # <<>> => probe.pc # "none"

\* A CLI command comes back: pthread_join in VBP_Remove does not wait forever.
CliComesBack == cli.pc # "idle" ~> cli.pc = "idle"

\* A VCL is counted, and is neither freed nor discarded while it is in use
\* (VCL_Get, VCL_Refresh, VCL_Rel, ccf_config_discard, VCL_Poll).
VclSound == TypeOK /\ VclBusy /\ HeldVclStays /\ ActiveIsAvailable

\* The backend and its connections are counted.  As long as no session gets
\* between the load and the store of the unlocked b->refcount++, the backend
\* lives while a session can use it, its last reference is the CLI thread's,
\* and nobody finds it freed (VBE_AddBackend, VBE_DropRefLocked).  After such a
\* race LastRefIsCli fails.
BackendSound ==
  /\ BackendRefcnt
  /\ ~raced => BackendInUseIsAlive /\ panic \notin {"last_ref", "no_ref", "freed"}

\* Loading, using and discarding VCLs leaves the right probe running, or none
\* and a healthy backend (VBP_Insert, VBP_Use, VBP_Remove).
ProbesSound == ActiveProbeFirst /\ UnprobedIsHealthy
=============================================================================
