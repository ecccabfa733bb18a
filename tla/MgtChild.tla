------------------------------ MODULE MgtChild ------------------------------
(***************************************************************************)
(* The manager process and the cacher it starts, stops, pings and          *)
(* restarts (mgt_child.c, mgt_cli.c, mgt_vcc.c; the cacher's side of the   *)
(* CLI: cache_cli.c, cache_vcl.c, cache_acceptor.c).                       *)
(*                                                                         *)
(* The manager has one thread: an event loop (vev.c) that runs a callback  *)
(* to its end.  A callback that asks the cacher something writes a command *)
(* into one pipe and waits for the reply in the other, at most cli_timeout *)
(* seconds; signals arriving meanwhile wait for the loop.  The cacher may  *)
(* be slow, hang or die at any moment.                                     *)
(***************************************************************************)
EXTENDS Naturals, Sequences, SequencesExt

CONSTANTS
  Vcl,        \* names of VCL programs
  Boot,       \* the program given with -f or -b
  Nothing,    \* a null pointer
  Off,        \* "no cacher is serving", for the refinement
  MaxStale    \* bound: commands whose reply was given up on, plus the current

ASSUME MgtChildAssumption ==
  Boot \in Vcl /\ Nothing \notin Vcl /\ Off \notin Vcl /\ MaxStale \in Nat \ {0}

VARIABLES
  mgr,          \* what the manager's thread does, and the commands to send
  child_state,  \* CH_STOPPED, CH_STARTING, CH_RUNNING, CH_STOPPING, CH_DIED
  child_pid,    \* child_pid >= 0
  cli,          \* cli_i, cli_o >= 0: the pipes are open
  ev_poker,     \* the ping timer exists
  ev_listen,    \* the reader of the cacher's stdout exists
  happened,     \* SIGCHLD has arrived and is not handled (vevsig.happened)
  vclhead,      \* the manager's list of compiled programs
  active,       \* the one with vclprog.active = 1
  auto_restart, \* params->auto_restart
  child,        \* the cacher process
  req, rsp      \* commands and replies (TRUE: CLIS_OK) in the pipes

mgtvars   == <<child_state, child_pid, cli, ev_poker, ev_listen>>
vclvars   == <<vclhead, active>>
vars      == <<mgr, mgtvars, happened, vclvars, auto_restart, child, req, rsp>>

Cmd(c, v) == [c |-> c, v |-> v]
Ping      == Cmd("ping", Nothing)   \* and vcl.list
Other     == Cmd("other", Nothing)  \* a command only the cacher knows
Loop      == [op |-> "loop", cmds |-> <<>>]
Gone      == [op |-> "gone", cmds |-> <<>>]
Panic     == [op |-> "panic", cmds |-> <<>>]
NoChild   == [st |-> "none", hung |-> FALSE, quit |-> FALSE, vcl_head |-> <<>>,
              vcl_active |-> Nothing, started |-> FALSE]
NewChild  == [NoChild EXCEPT !.st = "up"]
Dead      == [NoChild EXCEPT !.st = IF mgr = Gone THEN "none" ELSE "zombie"]

Commands == [c : {"load", "use", "discard"}, v : Vcl]
            \cup {Ping, Other, Cmd("start", Nothing)}

TypeOK ==
  /\ mgr \in [op : {"loop", "cli", "pass", "push", "gone", "panic"},
              cmds : Seq(Commands)]
  /\ (mgr.cmds = <<>>) = (mgr.op \in {"loop", "gone", "panic"})
  /\ child_state \in {"STOPPED", "STARTING", "RUNNING", "STOPPING", "DIED"}
  /\ {child_pid, cli, ev_poker, ev_listen, happened, auto_restart} \subseteq BOOLEAN
  /\ vclhead \in Seq(Vcl) /\ IsInjective(vclhead)
  /\ active \in ToSet(vclhead)
  /\ child \in [st : {"none", "up", "zombie"}, hung : BOOLEAN, quit : BOOLEAN,
                vcl_head : Seq(Vcl), vcl_active : Vcl \cup {Nothing},
                started : BOOLEAN]
  /\ IsInjective(child.vcl_head)
  /\ child.vcl_active \in ToSet(child.vcl_head) \cup {Nothing}
  /\ req \in Seq(Commands) /\ rsp \in Seq(BOOLEAN)
  /\ Len(req) + Len(rsp) <= MaxStale + 1

(* main() in varnishd.c started with -b or -f: the boot program is compiled *)
(* and active (mgt_vcc_default).  The start_child() of MGT_Run and, with -d, *)
(* the operator's first "start" are the same action here.                   *)
Init ==
  /\ mgr = Loop /\ child_state = "STOPPED" /\ auto_restart \in BOOLEAN
  /\ child_pid = FALSE /\ cli = FALSE /\ ev_poker = FALSE /\ ev_listen = FALSE
  /\ happened = FALSE
  /\ vclhead = <<Boot>> /\ active = Boot
  /\ child = NoChild /\ req = <<>> /\ rsp = <<>>

-----------------------------------------------------------------------------
(* Starting and stopping.                                                  *)

PushStartFirst ==      \* (mutation) "start" before the programs are loaded
  <<Cmd("load", vclhead[1]), Cmd("start", Nothing)>> \o
  <<Cmd("use", active)>>

\* The i-th command of mgt_push_vcls_and_start(): load every program, use the
\* active one as soon as it is loaded, then "start".
ActiveAt == CHOOSE i \in 1 .. Len(vclhead) : vclhead[i] = active
PushCmd(i) ==
  CASE i <= ActiveAt         -> Cmd("load", vclhead[i])
    [] i = ActiveAt + 1      -> Cmd("use", active)
    [] i = Len(vclhead) + 2  -> Cmd("start", Nothing)
    [] OTHER                 -> Cmd("load", vclhead[i - 1])
mgt_push_vcls_and_start == [i \in 1 .. Len(vclhead) + 2 |-> PushCmd(i)]

\* mgt_stop_child(): returns unless CH_RUNNING; the closed pipes tell the
\* cacher to go.  Called with the states RUNNING, and STARTING after a failed
\* push (start_child sets CH_RUNNING first).
mgt_stop_child ==
  /\ child_state' = "STOPPING"
  /\ ev_poker' = FALSE /\ cli' = FALSE
  /\ UNCHANGED <<child_pid, ev_listen>>

\* start_child(), called with CH_STOPPED or CH_DIED, up to the first command
\* of the push.  "listen" and "poker": the events still registered.  A timer
\* is made only if params->ping_interval > 0.
start_child(listen, poker) ==
  \/ /\ child_state' = "STOPPED"                 \* open_sockets() failed
     /\ ev_listen' = listen /\ ev_poker' = poker
     /\ child_pid' = FALSE /\ cli' = FALSE
     /\ mgr' = Loop /\ child' = NoChild /\ UNCHANGED <<req, rsp>>
  \/ /\ child_state' = "STARTING" /\ child' = NewChild
     /\ ev_listen' = TRUE /\ ev_poker' \in BOOLEAN
     /\ child_pid' = TRUE /\ cli' = TRUE
     /\ LET cmds == mgt_push_vcls_and_start
        IN /\ mgr' = IF listen \/ poker THEN Panic
                     ELSE [op |-> "push", cmds |-> cmds]
           /\ req' = <<Head(cmds)>> /\ rsp' = <<>>

-----------------------------------------------------------------------------
(* Asking the cacher.                                                      *)

CliFailIgnored ==      \* (mutation) a cacher that does not answer is kept
  UNCHANGED child

\* MGT_Child_Cli_Fail(): SIGQUIT, but only in CH_RUNNING.
MGT_Child_Cli_Fail ==
  child' = [child EXCEPT !.quit = @ \/ (child_state = "RUNNING" /\ child.st = "up")]

\* The command was not answered with CLIS_OK.
Refused ==
  IF mgr.op = "push" THEN mgr' = Loop /\ mgt_stop_child
                     ELSE mgr' = Loop /\ UNCHANGED mgtvars

\* VTAILQ_REMOVE of a program that is on the list
Unlinked(q, v) ==
  LET p == CHOOSE i \in DOMAIN q : q[i] = v
  IN  [i \in 1 .. Len(q) - 1 |-> IF i < p THEN q[i] ELSE q[i + 1]]

AcceptedOnlyLoads(cmd) ==   \* (mutation) vcl.use is not recorded
  IF cmd.c = "load" THEN vclhead' = Append(vclhead, cmd.v) /\ UNCHANGED active
                    ELSE UNCHANGED vclvars

\* What the handlers do after CLIS_OK: mcf_config_load and _inline append to
\* the list, mcf_config_use moves the active mark, mcf_config_discard unlinks.
Accepted(cmd) ==
  CASE cmd.c = "load"    -> vclhead' = Append(vclhead, cmd.v) /\ UNCHANGED active
    [] cmd.c = "use"     -> active' = cmd.v /\ UNCHANGED vclhead
    [] cmd.c = "discard" -> vclhead' = Unlinked(vclhead, cmd.v) /\ UNCHANGED active
    [] OTHER             -> UNCHANGED vclvars

\* The write of mgt_cli_askchild() and mcf_askchild(): refused without pipes
\* (CLIS_CANT), failed if nobody holds the other end (CLIS_COMMS).
Ask(op, cmd) ==
  /\ Len(req) + Len(rsp) <= MaxStale - (IF op = "pass" THEN 1 ELSE 0)
  /\ IF cli /\ child.st = "up"
     THEN mgr' = [op |-> op, cmds |-> <<cmd>>] /\ req' = Append(req, cmd)
     ELSE UNCHANGED <<mgr, req>>
  /\ UNCHANGED <<mgtvars, vclvars, auto_restart, child, rsp>>

\* VCLI_ReadResult() returns a reply: the oldest in the pipe, whatever it answers.
ReadResult ==
  /\ mgr.cmds # <<>> /\ rsp # <<>>
  /\ rsp' = Tail(rsp)
  /\ LET cmd == Head(mgr.cmds)
         todo == Tail(mgr.cmds)
     IN \/ ~Head(rsp) /\ Refused /\ UNCHANGED <<vclvars, req>>
        \/ /\ Head(rsp) /\ mgr.op # "push"
           /\ mgr' = Loop
           /\ Accepted(cmd)
           /\ UNCHANGED <<mgtvars, req>>
        \/ /\ Head(rsp) /\ mgr.op = "push" /\ todo = <<>>
           /\ child_state' = "RUNNING" /\ mgr' = Loop
           /\ UNCHANGED <<child_pid, cli, ev_poker, ev_listen, vclvars, req>>
        \/ /\ Head(rsp) /\ mgr.op = "push" /\ todo # <<>>
           /\ IF child.st = "up"
              THEN /\ mgr' = [mgr EXCEPT !.cmds = todo] /\ req' = Append(req, Head(todo))
                   /\ UNCHANGED mgtvars
              ELSE Refused /\ UNCHANGED req
           /\ UNCHANGED vclvars
  /\ UNCHANGED <<happened, auto_restart, child>>

\* VCLI_ReadResult() returns CLIS_COMMS: cli_timeout passed, or end of file.
\* mgt_cli_askchild() gives the cacher up, mcf_askchild() only reports it.
NoResult ==
  /\ mgr.cmds # <<>> /\ rsp = <<>>
  /\ IF mgr.op = "pass" THEN UNCHANGED child ELSE MGT_Child_Cli_Fail
  /\ Refused
  /\ UNCHANGED <<happened, vclvars, auto_restart, req, rsp>>

-----------------------------------------------------------------------------
(* Events of the loop.                                                     *)

\* child_poker().  In a state other than CH_RUNNING vev frees the timer and
\* ev_poker is left pointing at it.
child_poker ==
  /\ mgr = Loop /\ ev_poker
  /\ IF child_state # "RUNNING"
     THEN mgr' = Panic /\ UNCHANGED <<mgtvars, vclvars, auto_restart, child, req, rsp>>
     ELSE Ask("cli", Ping)
  /\ UNCHANGED happened

\* child_listener() at the end of file on the cacher's stdout.
child_listener ==
  /\ mgr = Loop /\ ev_listen /\ child.st = "zombie"
  /\ ev_listen' = FALSE
  /\ UNCHANGED <<mgr, child_state, child_pid, cli, ev_poker, happened, vclvars,
                 auto_restart, child, req, rsp>>

SigchldTrustsSignal ==   \* (mutation) the signal alone is taken for the cacher's end
  /\ mgr = Loop /\ happened /\ happened' = FALSE
  /\ child_pid' = FALSE /\ ev_poker' = FALSE /\ ev_listen' = FALSE
  /\ child_state' = "STOPPED" /\ cli' = FALSE
  /\ UNCHANGED <<mgr, child, req, rsp, vclvars, auto_restart>>

\* mgt_sigchld(): drops the timer, then asks waitpid() whether it was the
\* cacher that ended.
mgt_sigchld ==
  /\ mgr = Loop /\ happened /\ happened' = FALSE
  /\ \/ /\ child.st # "zombie"                           \* r == 0 or ECHILD
        /\ ev_poker' = FALSE
        /\ UNCHANGED <<mgr, child_state, child_pid, cli, ev_listen, child, req, rsp>>
     \/ /\ child.st = "zombie" /\ child_state = "RUNNING" /\ auto_restart
        /\ start_child(FALSE, FALSE)
     \/ /\ child.st = "zombie" /\ ~(child_state = "RUNNING" /\ auto_restart)
        /\ child' = NoChild /\ child_pid' = FALSE
        /\ child_state' = "STOPPED" /\ cli' = FALSE
        /\ ev_poker' = FALSE /\ ev_listen' = FALSE
        /\ UNCHANGED <<mgr, req, rsp>>
  /\ UNCHANGED <<vclvars, auto_restart>>

\* mcf_server_startstop().
ServerStart ==
  /\ mgr = Loop /\ child_state = "STOPPED" /\ vclhead # <<>>      \* mgt_has_vcl()
  /\ start_child(ev_listen, ev_poker)
  /\ UNCHANGED <<happened, vclvars, auto_restart>>
ServerStop ==
  /\ mgr = Loop /\ child_state = "RUNNING"
  /\ mgt_stop_child
  /\ UNCHANGED <<mgr, happened, vclvars, auto_restart, child, req, rsp>>

\* mcf_config_load, _inline: the compiler's sub-processes (SUB_run) raise
\* SIGCHLD; with a cacher the program is kept only if it could load it.
mcf_config_load(v) ==
  /\ mgr = Loop /\ v \notin ToSet(vclhead)
  /\ happened' = TRUE
  /\ \/ /\ child_pid /\ Ask("cli", Cmd("load", v))
     \/ /\ ~child_pid /\ Accepted(Cmd("load", v))
        /\ UNCHANGED <<mgr, mgtvars, auto_restart, child, req, rsp>>
     \/ UNCHANGED <<mgr, mgtvars, vclvars, auto_restart, child, req, rsp>> \* not compiled

\* mcf_config_use, mcf_config_discard: not for the active program.
NotActive(v) == v \in ToSet(vclhead) /\ v # active
mcf_config_use_discard(c, v) ==
  /\ mgr = Loop /\ NotActive(v)
  /\ \/ /\ child_pid /\ Ask("cli", Cmd(c, v))
     \/ /\ ~child_pid /\ Accepted(Cmd(c, v))
        /\ UNCHANGED <<mgr, mgtvars, auto_restart, child, req, rsp>>
  /\ UNCHANGED happened

\* mcf_config_list with a cacher, and mcf_askchild.
mcf_config_list == mgr = Loop /\ child_pid /\ Ask("cli", Ping) /\ UNCHANGED happened
mcf_askchild    == mgr = Loop /\ cli /\ Ask("pass", Other) /\ UNCHANGED happened

mcf_param_set ==
  /\ mgr = Loop /\ auto_restart' = ~auto_restart
  /\ UNCHANGED <<mgr, mgtvars, happened, vclvars, child, req, rsp>>

\* mgt_sigint(): stops a running cacher and exits; the kernel closes the pipes.
mgt_sigint ==
  /\ mgr = Loop /\ mgr' = Gone /\ cli' = FALSE
  /\ UNCHANGED <<child_state, child_pid, ev_poker, ev_listen, happened, vclvars,
                 auto_restart, child, req, rsp>>

-----------------------------------------------------------------------------
(* The cacher.                                                             *)

\* One command of CLI_Run(): the status and the state after VCL_Load,
\* ccf_config_use, ccf_config_discard or ccf_start.  Loading may always fail.
Served(cmd) ==
  LET known == cmd.v \in ToSet(child.vcl_head)
      Try(ok, c) == IF ok THEN {<<TRUE, c>>} ELSE {<<FALSE, child>>}
  IN CASE cmd.c = "load" ->
            {<<FALSE, child>>} \cup
            Try(~known, [child EXCEPT !.vcl_head = Append(@, cmd.v),
                           !.vcl_active = IF @ = Nothing THEN cmd.v ELSE @])
       [] cmd.c = "use" -> Try(known, [child EXCEPT !.vcl_active = cmd.v])
       [] cmd.c = "discard" ->
            Try(known /\ cmd.v # child.vcl_active,
                [child EXCEPT !.vcl_head = Unlinked(@, cmd.v)])
       [] cmd.c = "start" -> {<<TRUE, [child EXCEPT !.started = TRUE]>>}
       [] cmd.c = "ping"  -> {<<TRUE, child>>}
       [] OTHER           -> {<<TRUE, child>>, <<FALSE, child>>}

CLI_Run ==
  /\ child.st = "up" /\ ~child.hung /\ cli /\ req # <<>>
  /\ \E o \in Served(Head(req)) : child' = o[2] /\ rsp' = Append(rsp, o[1])
  /\ req' = Tail(req)
  /\ UNCHANGED <<mgr, mgtvars, happened, vclvars, auto_restart>>

\* The process ends: at the end of file on the CLI pipe, killed, or by itself.
Ends ==
  /\ child' = Dead /\ req' = <<>>
  /\ happened' = (happened \/ mgr # Gone)
  /\ UNCHANGED <<mgr, mgtvars, vclvars, auto_restart, rsp>>
ChildEof   == child.st = "up" /\ ~child.hung /\ ~cli /\ Ends
ChildKill  == child.st = "up" /\ child.quit /\ Ends
ChildCrash == child.st = "up" /\ ~child.quit /\ Ends
ChildHang  == /\ child.st = "up" /\ ~child.hung
              /\ child' = [child EXCEPT !.hung = TRUE]
              /\ UNCHANGED <<mgr, mgtvars, happened, vclvars, auto_restart, req, rsp>>

Done == /\ mgr = Gone /\ (child.st # "up" \/ child.hung)
        /\ UNCHANGED vars

Next ==
  \/ ReadResult \/ NoResult \/ child_poker \/ child_listener \/ mgt_sigchld
  \/ ServerStart \/ ServerStop
  \/ \E v \in Vcl : \/ mcf_config_load(v)
                    \/ \E c \in {"use", "discard"} : mcf_config_use_discard(c, v)
  \/ mcf_config_list \/ mcf_askchild \/ mcf_param_set \/ mgt_sigint
  \/ CLI_Run \/ ChildEof \/ ChildKill \/ ChildCrash \/ ChildHang \/ Done

\* The loop of vev_schedule() looks for signals and expired timers every time
\* round, so neither is passed over forever by other events; a wait for a reply
\* ends with the reply or with cli_timeout; a process that is not hung runs.
Fairness ==
  /\ WF_vars(ReadResult) /\ WF_vars(NoResult)
  /\ SF_vars(mgt_sigchld) /\ SF_vars(child_poker)
  /\ WF_vars(CLI_Run) /\ WF_vars(ChildEof) /\ WF_vars(ChildKill)

Spec == Init /\ [][Next]_vars /\ Fairness

-----------------------------------------------------------------------------
(* Safety.                                                                 *)

\* At most one cacher: whenever start_child() may fork (CH_STOPPED, CH_DIED),
\* the previous process has ended and was waited for, its pipes are closed and
\* its events are gone; otherwise child_pid names a process that exists.
OneChild ==
  /\ child_state \in {"STOPPED", "DIED"} =>
       child = NoChild /\ ~child_pid /\ ~cli /\ ~ev_poker /\ ~ev_listen
  /\ (child_state \notin {"STOPPED", "DIED"} /\ mgr # Gone) =>
       child_pid /\ child.st # "none"

\* None of the assertions about left-over events fails, and child_poker() is
\* never called in a state in which vev would free the timer behind ev_poker:
\* the timer exists only while the cacher is being started or runs.
NoPanic ==
  /\ mgr # Panic
  /\ ev_poker => child_state \in {"STARTING", "RUNNING"}

\* When nothing is in the pipes and the cacher is not condemned, the manager's
\* list of programs is the cacher's, and so is the active one: whatever failed
\* on the way, a restart would serve what is served now.  A reply that was given
\* up on stays in the pipe, and nothing is said of the time after it.
SameVcls ==
  (/\ mgr = Loop /\ child_state = "RUNNING" /\ child.st = "up"
   /\ ~child.quit /\ req = <<>> /\ rsp = <<>>) =>
     /\ child.vcl_head = vclhead
     /\ child.vcl_active = active

\* The same without looking into the pipes: what the manager believes after a
\* command was answered.  Fails once a reply arrived after its timeout.
AnswersFit ==
  (mgr = Loop /\ child_state = "RUNNING" /\ child.st = "up" /\ ~child.quit) =>
     child.vcl_head = vclhead

-----------------------------------------------------------------------------
(* Liveness.                                                               *)

\* A cacher that dies while it is running is replaced if auto_restart is set,
\* until a cacher serves again or the start itself fails (then the manager
\* stays stopped: a cacher that dies while it is being started is not replaced).
CrashIsRepaired ==
  (child_state = "RUNNING" /\ child.st = "zombie") ~>
     \/ child.started \/ child_state \in {"STOPPING", "STOPPED"} \/ mgr = Gone

\* A cacher that hangs while the timer exists is killed or loses the timer
\* (mgt_sigchld drops it at any SIGCHLD, also that of a compiler).
HungIsKilled ==
  (child.hung /\ child_state = "RUNNING" /\ ev_poker) ~>
     (~child.hung \/ ~ev_poker \/ mgr = Gone)

\* "stop" comes to its end unless the cacher hangs.
StopEnds ==
  (child_state = "STOPPING") ~> (child_state = "STOPPED" \/ child.hung \/ mgr = Gone)

-----------------------------------------------------------------------------
(* What all this is for: Supervisor.  A conversation is under way while the *)
(* manager waits, while a command or reply is in the pipes and while a      *)
(* cacher that was given up on is still there.                              *)
Sup == INSTANCE Supervisor WITH
  chosen  <- active,
  serving <- IF child.started THEN child.vcl_active ELSE Off,
  talking <- mgr.cmds # <<>> \/ req # <<>> \/ (child.st = "up" /\ rsp # <<>>) \/ child.quit

\* Every step of the two processes is a step of the supervisor or none: a cacher
\* opens its ports only with the chosen program, and the program it serves and
\* the chosen one differ only while a conversation is under way.
Supervises == Sup!Spec

\* The manager knows its child: one process, no stale event, no assertion
\* (start_child, mgt_stop_child, mgt_sigchld).
ManagerSound == TypeOK /\ OneChild /\ NoPanic

\* The manager comes to the end of what it began: a crash is repaired, a hung
\* child killed, a stop completed (mgt_sigchld, child_poker, mgt_stop_child).
Recovers == CrashIsRepaired /\ HungIsKilled /\ StopEnds
=============================================================================
