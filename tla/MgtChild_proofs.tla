--------------------------- MODULE MgtChild_proofs ---------------------------
(***************************************************************************)
(* That the manager keeps one cacher, that the two agree about the VCL     *)
(* programs whenever their pipes are silent, and that they implement       *)
(* Supervisor: for any number of programs and any number of replies that   *)
(* come too late.                                                          *)
(***************************************************************************)
EXTENDS MgtChild, TLAPS

\* What the manager's thread does goes with the state of its child.
MgrOK ==
  /\ mgr.op = "push" <=> child_state = "STARTING"
  /\ mgr.op \in {"cli", "pass"} => child_state = "RUNNING" /\ Len(mgr.cmds) = 1
  /\ cli <=> child_state \in {"STARTING", "RUNNING"} /\ mgr.op # "gone"

\* The command asked for is one the manager's own list of programs allows.
CmdFits(cmd) ==
  /\ cmd.c = "load" => cmd.v \notin ToSet(vclhead)
  /\ cmd.c \in {"use", "discard"} => NotActive(cmd.v)
CmdOK == mgr.op \in {"cli", "pass"} => CmdFits(Head(mgr.cmds))

\* A cacher that is gone, or not there, has no state.
GoneOK ==
  child.st # "up" => /\ req = <<>> /\ ~child.quit /\ ~child.started
                     /\ child = NoChild \/ child = [NoChild EXCEPT !.st = "zombie"]

Same(head, act) == child.started /\ child.vcl_head = head /\ child.vcl_active = act

\* No reply was given up on: as many commands are on their way as the manager
\* waits for.
InStep == Len(req) + Len(rsp) = (IF mgr.cmds = <<>> THEN 0 ELSE 1)

\* The programs of the manager once a command was answered with CLIS_OK.
HeadAfter(cmd) ==
  CASE cmd.c = "load" -> Append(vclhead, cmd.v)
    [] cmd.c = "discard" -> Unlinked(vclhead, cmd.v)
    [] OTHER -> vclhead
ActiveAfter(cmd) == IF cmd.c = "use" THEN cmd.v ELSE active

\* A running cacher that is not condemned and has answered everything has the
\* manager's programs; one that has just answered is ahead by that command.
RunOK ==
  child_state = "RUNNING" /\ child.st = "up" =>
    /\ child.started /\ child.vcl_active \in Vcl
    /\ mgr.cmds # <<>> => Len(req) + Len(rsp) >= 1
    /\ InStep /\ ~child.quit =>
         IF rsp = <<>> \/ ~Head(rsp)
         THEN Same(vclhead, active) /\ (req # <<>> => req = <<Head(mgr.cmds)>>)
         ELSE Same(HeadAfter(Head(mgr.cmds)), ActiveAfter(Head(mgr.cmds)))

\* How far the push has come: n commands were answered with CLIS_OK.
Answered == Len(vclhead) + 2 - Len(mgr.cmds)
LoadedBy(n) ==
  IF n <= ActiveAt THEN n ELSE IF n = Len(vclhead) + 2 THEN Len(vclhead) ELSE n - 1
PushedTo(n) ==
  /\ child.started = (n = Len(vclhead) + 2)
  /\ Len(child.vcl_head) = LoadedBy(n)
  /\ \A i \in 1 .. LoadedBy(n) : child.vcl_head[i] = vclhead[i]
  /\ n > ActiveAt => child.vcl_active = active
  /\ child.vcl_active = Nothing <=> n = 0
PushOK ==
  child_state = "STARTING" =>
    /\ Answered \in 0 .. Len(vclhead) + 1
    /\ mgr.cmds = [i \in 1 .. Len(vclhead) + 2 - Answered |-> PushCmd(i + Answered)]
    /\ ~child.quit
    /\ child.st = "up" =>
         \/ req = <<Head(mgr.cmds)>> /\ rsp = <<>> /\ PushedTo(Answered)
         \/ req = <<>> /\ rsp = <<FALSE>> /\ PushedTo(Answered)
         \/ req = <<>> /\ rsp = <<TRUE>> /\ PushedTo(Answered + 1)

\* A cacher that is told to go takes no further command; until then it serves
\* a program or has not opened its ports.
StopOK == child.started => child.vcl_active \in Vcl

MgtInv ==
  TypeOK /\ OneChild /\ NoPanic /\ MgrOK /\ CmdOK /\ GoneOK /\ RunOK /\ PushOK /\ StopOK

-----------------------------------------------------------------------------
(* Sequences.                                                              *)

\* Two lists of the same length with the same elements.
LEMMA SameList ==
  ASSUME NEW S, NEW p \in Seq(S), NEW q \in Seq(S), Len(p) = Len(q),
         \A i \in 1 .. Len(q) : p[i] = q[i]
  PROVE  p = q
OBVIOUS

\* Pipes and lists of commands.
LEMMA PipeFacts ==
  ASSUME NEW S, NEW q \in Seq(S)
  PROVE  /\ Len(q) \in Nat /\ (q = <<>> <=> Len(q) = 0)
         /\ q # <<>> => /\ Head(q) \in S /\ Tail(q) \in Seq(S) /\ Len(Tail(q)) = Len(q) - 1
                        /\ Head(q) = q[1]
         /\ Len(q) = 1 => q = <<Head(q)>> /\ Tail(q) = <<>>
<1>1. Len(q) \in Nat /\ (q = <<>> <=> Len(q) = 0)
  OBVIOUS
<1>2. ASSUME q # <<>>
      PROVE  /\ Head(q) \in S /\ Tail(q) \in Seq(S) /\ Len(Tail(q)) = Len(q) - 1
             /\ Head(q) = q[1]
  BY <1>2
<1>3. ASSUME Len(q) = 1 PROVE q = <<Head(q)>> /\ Tail(q) = <<>>
  <2>1. q # <<>> /\ Tail(q) \in Seq(S) /\ Len(Tail(q)) = 0
    BY <1>2, <1>3
  <2>2. <<Head(q)>> \in Seq(S) /\ Len(<<Head(q)>>) = 1 /\ q[1] = <<Head(q)>>[1]
    BY <1>2, <1>3, <2>1
  <2>3. \A i \in 1 .. 1 : i = 1
    OBVIOUS
  <2>4. q = <<Head(q)>>
    BY <1>3, <2>2, <2>3, SameList
  <2>5. \A t \in Seq(S) : Len(t) = 0 => t = <<>>
    OBVIOUS
  <2>6. Tail(q) = <<>>
    BY <2>1, <2>5
  <2> QED
    BY <2>4, <2>6
<1> QED
  BY <1>1, <1>2, <1>3

\* Something is put into a pipe.
LEMMA AppendFacts ==
  ASSUME NEW S, NEW q \in Seq(S), NEW x \in S
  PROVE  /\ Append(q, x) \in Seq(S) /\ Len(Append(q, x)) = Len(q) + 1 /\ Append(q, x) # <<>>
         /\ q = <<>> => Append(q, x) = <<x>>
         /\ q # <<>> => Head(Append(q, x)) = Head(q)
         /\ \A i \in 1 .. Len(q) : Append(q, x)[i] = q[i]
         /\ Append(q, x)[Len(q) + 1] = x
<1>1. /\ Append(q, x) \in Seq(S) /\ Len(Append(q, x)) = Len(q) + 1 /\ Append(q, x) # <<>>
      /\ \A i \in 1 .. Len(q) : Append(q, x)[i] = q[i]
      /\ Append(q, x)[Len(q) + 1] = x
  OBVIOUS
<1>2. q = <<>> => Append(q, x) = <<x>>
  OBVIOUS
<1>3. ASSUME q # <<>> PROVE Head(Append(q, x)) = Head(q)
  <2>1. 1 \in 1 .. Len(q) /\ Head(q) = q[1]
    BY <1>3
  <2> QED
    BY <2>1, <1>1
<1> QED
  BY <1>1, <1>2, <1>3

\* A message on its own.
LEMMA OneFacts ==
  ASSUME NEW S, NEW x \in S
  PROVE  <<x>> \in Seq(S) /\ Len(<<x>>) = 1 /\ Head(<<x>>) = x /\ Tail(<<x>>) = <<>> /\ <<x>> # <<>>
OBVIOUS

\* A program is loaded: the list stays without repetition.
LEMMA LoadFacts ==
  ASSUME NEW q \in Seq(Vcl), IsInjective(q), NEW v \in Vcl, v \notin ToSet(q)
  PROVE  /\ Append(q, v) \in Seq(Vcl) /\ IsInjective(Append(q, v))
         /\ ToSet(Append(q, v)) = ToSet(q) \cup {v}
<1> DEFINE f == Append(q, v)
<1>1. /\ f \in Seq(Vcl) /\ Len(f) = Len(q) + 1 /\ Len(q) \in Nat
      /\ DOMAIN f = 1 .. Len(q) + 1 /\ DOMAIN q = 1 .. Len(q) /\ f[Len(q) + 1] = v
      /\ \A i \in 1 .. Len(q) : f[i] = q[i]
  BY AppendFacts
<1> HIDE DEF f
<1>2. \A i \in 1 .. Len(q) + 1 : i \in 1 .. Len(q) \/ i = Len(q) + 1
  BY <1>1
<1>3. \A i \in 1 .. Len(q) : f[i] # v
  BY <1>1 DEF ToSet
<1>4. IsInjective(f)
  BY <1>1, <1>2, <1>3 DEF IsInjective
<1>5. Len(q) + 1 \in 1 .. Len(q) + 1 /\ \A i \in 1 .. Len(q) : i \in 1 .. Len(q) + 1
  BY <1>1
<1>6. ToSet(f) = ToSet(q) \cup {v}
  BY <1>1, <1>2, <1>5 DEF ToSet
<1> QED
  BY <1>1, <1>4, <1>6 DEF f

\* A program is discarded: the list loses that one and no other.
LEMMA UnlinkFacts ==
  ASSUME NEW q \in Seq(Vcl), IsInjective(q), NEW v \in ToSet(q)
  PROVE  /\ Unlinked(q, v) \in Seq(Vcl) /\ IsInjective(Unlinked(q, v))
         /\ ToSet(Unlinked(q, v)) = ToSet(q) \ {v}
<1> DEFINE p == CHOOSE i \in DOMAIN q : q[i] = v
           r == [i \in 1 .. Len(q) - 1 |-> IF i < p THEN q[i] ELSE q[i + 1]]
<1>1. p \in DOMAIN q /\ q[p] = v
  BY DEF ToSet
<1>2. Unlinked(q, v) = r
  BY DEF Unlinked
<1> HIDE DEF p
<1>3. Len(q) \in Nat /\ DOMAIN q = 1 .. Len(q) /\ \A i \in 1 .. Len(q) : q[i] \in Vcl
  OBVIOUS
<1>4. p \in 1 .. Len(q)
  BY <1>1, <1>3
<1>5. r \in Seq(Vcl) /\ Len(r) = Len(q) - 1 /\ DOMAIN r = 1 .. Len(q) - 1
  BY <1>3, <1>4
<1>6. \A i \in 1 .. Len(q) - 1 : r[i] = IF i < p THEN q[i] ELSE q[i + 1]
  OBVIOUS
<1> HIDE DEF r
<1>7. \A i, k \in 1 .. Len(q) : q[i] = q[k] => i = k
  BY <1>3 DEF IsInjective
<1>8. \A i \in 1 .. Len(q) - 1 : r[i] \in ToSet(q) \ {v}
  <2> TAKE i \in 1 .. Len(q) - 1
  <2>1. i \in 1 .. Len(q) /\ i + 1 \in 1 .. Len(q)
    BY <1>3
  <2>2. PICK k \in 1 .. Len(q) : k # p /\ r[i] = q[k]
    <3>1. CASE i < p
      <4>1. i # p
        BY <3>1, <1>4
      <4> QED
        BY <2>1, <3>1, <4>1, <1>6
    <3>2. CASE ~(i < p)
      <4>1. i + 1 # p
        BY <3>2, <2>1, <1>3, <1>4
      <4> QED
        BY <2>1, <3>2, <4>1, <1>6
    <3> QED
      BY <3>1, <3>2
  <2>3. q[k] # v
    BY <2>2, <1>1, <1>4, <1>7
  <2> QED
    BY <2>2, <2>3, <1>3 DEF ToSet
<1>9. \A x \in ToSet(q) \ {v} : \E i \in 1 .. Len(q) - 1 : r[i] = x
  <2> TAKE x \in ToSet(q) \ {v}
  <2>1. PICK i \in 1 .. Len(q) : q[i] = x
    BY <1>3 DEF ToSet
  <2>2. i # p
    BY <2>1, <1>1
  <2>3. CASE i < p
    BY <2>1, <2>3, <1>3, <1>4, <1>6
  <2>4. CASE i > p
    <3>1. i - 1 \in 1 .. Len(q) - 1 /\ ~(i - 1 < p) /\ (i - 1) + 1 = i
      BY <2>1, <2>4, <1>3, <1>4
    <3> QED
      BY <3>1, <2>1, <1>6
  <2> QED
    BY <2>1, <2>2, <2>3, <2>4, <1>3, <1>4
<1>10. ToSet(r) = ToSet(q) \ {v}
  BY <1>5, <1>8, <1>9 DEF ToSet
<1>11. ASSUME NEW i \in 1 .. Len(q) - 1, NEW k \in 1 .. Len(q) - 1, r[i] = r[k]
       PROVE  i = k
  BY <1>11, <1>3, <1>4, <1>6, <1>7
<1>12. IsInjective(r)
  BY <1>5, <1>11 DEF IsInjective
<1> QED
  BY <1>2, <1>5, <1>10, <1>12

-----------------------------------------------------------------------------
(* Types of what the manager writes.                                       *)

\* Constants of the model.
LEMMA ConstantFacts ==
  /\ Ping \in Commands /\ Other \in Commands /\ Cmd("start", Nothing) \in Commands
  /\ \A v \in Vcl : /\ Cmd("load", v) \in Commands /\ Cmd("use", v) \in Commands
                    /\ Cmd("discard", v) \in Commands
  /\ \A cmd \in Commands : cmd.c \in {"load", "use", "discard"} => cmd.v \in Vcl
  /\ Loop.op = "loop" /\ Loop.cmds = <<>> /\ Gone.op = "gone" /\ Gone.cmds = <<>>
  /\ Panic.op = "panic" /\ Loop # Gone /\ Loop # Panic /\ Gone # Panic
  /\ Ping.c = "ping" /\ Other.c = "other" /\ \A c, v : Cmd(c, v).c = c /\ Cmd(c, v).v = v
<1>1. \A c, v : Cmd(c, v).c = c /\ Cmd(c, v).v = v
  BY DEF Cmd
<1>2. \A v \in Vcl : /\ Cmd("load", v) \in Commands /\ Cmd("use", v) \in Commands
                     /\ Cmd("discard", v) \in Commands
  BY DEF Cmd, Commands
<1>3. \A cmd \in Commands : cmd.c \in {"load", "use", "discard"} => cmd.v \in Vcl
  BY DEF Cmd, Commands, Ping, Other
<1> QED
  BY <1>1, <1>2, <1>3 DEF Commands, Ping, Other, Loop, Gone, Panic

\* The manager's thread has nothing to wait for.
LEMMA IdleTyped ==
  \A m \in {Loop, Gone} :
    /\ m \in [op : {"loop", "cli", "pass", "push", "gone", "panic"}, cmds : Seq(Commands)]
    /\ m.cmds = <<>> /\ m.op \in {"loop", "gone", "panic"}
<1>1. <<>> \in Seq(Commands)
  OBVIOUS
<1>2. /\ Loop \in [op : {"loop", "cli", "pass", "push", "gone", "panic"}, cmds : Seq(Commands)]
      /\ Loop.cmds = <<>> /\ Loop.op = "loop"
  BY <1>1 DEF Loop
<1>3. /\ Gone \in [op : {"loop", "cli", "pass", "push", "gone", "panic"}, cmds : Seq(Commands)]
      /\ Gone.cmds = <<>> /\ Gone.op = "gone"
  BY <1>1 DEF Gone
<1> QED
  BY <1>2, <1>3

\* The manager's thread is idle, has gone or waits for an answer.
LEMMA MgrCases ==
  ASSUME TypeOK
  PROVE  /\ mgr.op = "loop" <=> mgr = Loop
         /\ mgr.op = "gone" <=> mgr = Gone
         /\ mgr.op = "panic" <=> mgr = Panic
         /\ mgr.cmds # <<>> <=> mgr.op \in {"cli", "pass", "push"}
BY DEF TypeOK, Loop, Gone, Panic

\* A push goes by the manager's lists.
SamePrograms ==
  /\ child'.started = child.started /\ child'.vcl_head = child.vcl_head
  /\ child'.vcl_active = child.vcl_active

\* A step that leaves the programs and the pipes alone, or after which the child
\* is not up, keeps what is said of a push.
LEMMA PushFrame ==
  ASSUME PushOK, UNCHANGED <<mgr, child_state, vclvars>>,
         \/ /\ UNCHANGED <<req, rsp>> /\ SamePrograms
            /\ child'.st = child.st /\ child'.quit = child.quit
         \/ child'.st # "up" /\ ~child'.quit
  PROVE  PushOK'
<1>1. ActiveAt' = ActiveAt /\ Answered' = Answered
  BY DEF ActiveAt, Answered, vclvars
<1>2. \A i : PushCmd(i)' = PushCmd(i)
  BY <1>1 DEF PushCmd, vclvars
<1>4. Len(vclhead') = Len(vclhead)
  BY DEF vclvars
<1>5. [i \in 1 .. Len(vclhead) + 2 - Answered |-> PushCmd(i + Answered)]'
        = [i \in 1 .. Len(vclhead) + 2 - Answered |-> PushCmd(i + Answered)]
  BY <1>1, <1>2, <1>4
<1>6. ASSUME child_state = "STARTING", child'.st = "up"
      PROVE  \/ req' = <<Head(mgr'.cmds)>> /\ rsp' = <<>> /\ PushedTo(Answered)'
             \/ req' = <<>> /\ rsp' = <<FALSE>> /\ PushedTo(Answered)'
             \/ req' = <<>> /\ rsp' = <<TRUE>> /\ PushedTo(Answered + 1)'
  <2>1. SamePrograms /\ child.st = "up" /\ UNCHANGED <<req, rsp>>
    BY <1>6
  <2>2. PushedTo(Answered)' <=> PushedTo(Answered)
    BY <1>1, <2>1 DEF PushedTo, LoadedBy, vclvars, SamePrograms
  <2>3. PushedTo(Answered + 1)' <=> PushedTo(Answered + 1)
    BY <1>1, <2>1 DEF PushedTo, LoadedBy, vclvars, SamePrograms
  <2> QED
    BY <1>6, <2>1, <2>2, <2>3 DEF PushOK
<1>7. child_state = "STARTING" => child'.quit = FALSE \/ ~child'.quit
  BY DEF PushOK
<1> QED
  BY <1>1, <1>4, <1>5, <1>6, <1>7 DEF PushOK

\* A step that changes none of what the invariant relates.
LEMMA QuietStep ==
  ASSUME MgtInv, UNCHANGED <<mgr, child_state, child_pid, cli, vclvars, child, req, rsp>>,
         ev_poker' \in BOOLEAN, ev_poker' => ev_poker,
         ev_listen' \in BOOLEAN, ev_listen' => ev_listen,
         happened' \in BOOLEAN, auto_restart' \in BOOLEAN
  PROVE  MgtInv'
<1> USE DEF vclvars
<1>1. TypeOK'
  BY DEF MgtInv, TypeOK
<1>2. OneChild' /\ NoPanic'
  BY DEF MgtInv, OneChild, NoPanic
<1>3. MgrOK' /\ CmdOK' /\ GoneOK' /\ StopOK'
  BY DEF MgtInv, MgrOK, CmdOK, CmdFits, NotActive, GoneOK, StopOK
<1>4. RunOK'
  BY DEF MgtInv, RunOK, InStep, Same, HeadAfter, ActiveAfter
<1>5. PushOK'
  BY PushFrame DEF MgtInv, SamePrograms
<1> QED
  BY <1>1, <1>2, <1>3, <1>4, <1>5 DEF MgtInv

-----------------------------------------------------------------------------
(* The manager asks.                                                       *)

\* A command of the operator or a ping: only a running cacher has pipes.
LEMMA AskStep ==
  ASSUME MgtInv, mgr = Loop, NEW op \in {"cli", "pass"}, NEW cmd \in Commands, CmdFits(cmd),
         Ask(op, cmd), happened' \in BOOLEAN
  PROVE  MgtInv'
<1>0. TypeOK /\ OneChild /\ NoPanic /\ MgrOK /\ GoneOK /\ RunOK /\ StopOK
  BY DEF MgtInv
<1>1. CASE ~(cli /\ child.st = "up")
  BY <1>0, <1>1, QuietStep DEF Ask, mgtvars, TypeOK
<1>2. CASE cli /\ child.st = "up"
  <2>1. /\ mgr' = [op |-> op, cmds |-> <<cmd>>] /\ req' = Append(req, cmd)
        /\ UNCHANGED <<mgtvars, vclvars, auto_restart, child, rsp>>
        /\ Len(req) + Len(rsp) <= MaxStale
    BY <1>0, <1>2, MgtChildAssumption DEF Ask, TypeOK
  <2>2. child_state = "RUNNING" /\ mgr.cmds = <<>>
    BY <1>0, <1>2, ConstantFacts DEF MgrOK
  <2>3. /\ mgr'.op = op /\ mgr'.cmds = <<cmd>> /\ Len(mgr'.cmds) = 1 /\ Head(mgr'.cmds) = cmd
        /\ mgr' \in [op : {"loop", "cli", "pass", "push", "gone", "panic"}, cmds : Seq(Commands)]
        /\ mgr'.cmds # <<>>
    BY <2>1, OneFacts
  <2>4. /\ req \in Seq(Commands) /\ rsp \in Seq(BOOLEAN) /\ Len(rsp) \in Nat /\ Len(req) \in Nat
        /\ req' \in Seq(Commands) /\ Len(req') = Len(req) + 1 /\ req' # <<>>
        /\ req = <<>> => req' = <<cmd>>
        /\ req = <<>> <=> Len(req) = 0
        /\ rsp = <<>> <=> Len(rsp) = 0
    BY <1>0, <2>1, AppendFacts, PipeFacts DEF TypeOK
  <2>5. TypeOK'
    <3>1. Len(req') + Len(rsp') <= MaxStale + 1
      BY <2>1, <2>4, MgtChildAssumption
    <3>2. (mgr'.cmds = <<>>) = (mgr'.op \in {"loop", "gone", "panic"})
      BY <2>3
    <3> QED
      BY <1>0, <2>1, <2>3, <2>4, <3>1, <3>2 DEF TypeOK, mgtvars, vclvars
  <2>6. OneChild' /\ NoPanic'
    BY <1>0, <2>1, <2>2, <2>3, ConstantFacts DEF OneChild, NoPanic, mgtvars
  <2>7. MgrOK' /\ CmdOK' /\ GoneOK' /\ StopOK' /\ PushOK'
    <3>1. MgrOK'
      BY <1>0, <1>2, <2>1, <2>2, <2>3 DEF MgrOK, mgtvars
    <3>2. CmdOK'
      BY <2>1, <2>3 DEF CmdOK, CmdFits, NotActive, vclvars
    <3>3. GoneOK' /\ StopOK' /\ PushOK'
      BY <1>0, <1>2, <2>1, <2>2 DEF GoneOK, StopOK, PushOK, mgtvars
    <3> QED
      BY <3>1, <3>2, <3>3
  <2>8. RunOK'
    <3>1. InStep' => InStep
      BY <2>2, <2>1, <2>3, <2>4 DEF InStep
    <3>2. Len(req') + Len(rsp') >= 1
      BY <2>1, <2>4
    <3>3. ASSUME InStep', ~child.quit
          PROVE  rsp' = <<>> /\ Same(vclhead, active)' /\ req' = <<Head(mgr'.cmds)>>
      <4>1. Len(req) + Len(rsp) = 0
        BY <3>1, <3>3, <2>2 DEF InStep
      <4>2. req = <<>> /\ rsp = <<>>
        BY <4>1, <2>4
      <4>3. Same(vclhead, active)
        BY <1>0, <1>2, <2>2, <3>1, <3>3, <4>2 DEF RunOK
      <4> QED
        BY <4>2, <4>3, <2>1, <2>3, <2>4 DEF Same, vclvars
    <3> QED
      BY <1>0, <1>2, <2>1, <2>2, <3>2, <3>3 DEF RunOK, mgtvars
  <2> QED
    BY <2>5, <2>6, <2>7, <2>8 DEF MgtInv
<1> QED
  BY <1>1, <1>2

\* The ping timer runs only while the cacher does.
LEMMA PokerStep ==
  ASSUME MgtInv, child_poker
  PROVE  MgtInv'
<1>1. child_state = "RUNNING"
  BY ConstantFacts DEF MgtInv, NoPanic, MgrOK, child_poker
<1>2. mgr = Loop /\ Ask("cli", Ping) /\ happened' \in BOOLEAN
  BY <1>1 DEF child_poker, MgtInv, TypeOK
<1>3. Ping \in Commands /\ CmdFits(Ping)
  BY ConstantFacts DEF CmdFits
<1> QED
  BY <1>2, <1>3, AskStep

\* vcl.list, and a command only the cacher knows.
LEMMA ListStep ==
  ASSUME MgtInv, mcf_config_list \/ mcf_askchild
  PROVE  MgtInv'
<1>1. happened' \in BOOLEAN /\ mgr = Loop /\ (Ask("cli", Ping) \/ Ask("pass", Other))
  BY DEF mcf_config_list, mcf_askchild, MgtInv, TypeOK
<1>2. Ping \in Commands /\ CmdFits(Ping) /\ Other \in Commands /\ CmdFits(Other)
  BY ConstantFacts DEF CmdFits
<1> QED
  BY <1>1, <1>2, AskStep

\* What Accepted does to the manager's list.
LEMMA AcceptFacts ==
  ASSUME TypeOK, NEW cmd \in Commands, CmdFits(cmd), Accepted(cmd)
  PROVE  /\ vclhead' = HeadAfter(cmd) /\ active' = ActiveAfter(cmd)
         /\ vclhead' \in Seq(Vcl) /\ IsInjective(vclhead') /\ active' \in ToSet(vclhead')
<1>0. vclhead \in Seq(Vcl) /\ IsInjective(vclhead) /\ active \in ToSet(vclhead)
  BY DEF TypeOK
<1>1. CASE cmd.c = "load"
  <2>1. cmd.v \in Vcl /\ cmd.v \notin ToSet(vclhead)
    BY <1>1, ConstantFacts DEF CmdFits
  <2>2. vclhead' = Append(vclhead, cmd.v) /\ active' = active
    BY <1>1 DEF Accepted
  <2> QED
    BY <1>0, <1>1, <2>1, <2>2, LoadFacts DEF HeadAfter, ActiveAfter
<1>2. CASE cmd.c = "use"
  BY <1>0, <1>2 DEF Accepted, CmdFits, NotActive, HeadAfter, ActiveAfter
<1>3. CASE cmd.c = "discard"
  <2>1. cmd.v \in ToSet(vclhead) /\ cmd.v # active
    BY <1>3 DEF CmdFits, NotActive
  <2>2. vclhead' = Unlinked(vclhead, cmd.v) /\ active' = active
    BY <1>3 DEF Accepted
  <2> QED
    BY <1>0, <1>3, <2>1, <2>2, UnlinkFacts DEF HeadAfter, ActiveAfter
<1>4. CASE cmd.c \notin {"load", "use", "discard"}
  BY <1>0, <1>4 DEF Accepted, HeadAfter, ActiveAfter, vclvars
<1> QED
  BY <1>1, <1>2, <1>3, <1>4

\* Without a cacher the manager's own list is all there is.
LEMMA AloneStep ==
  ASSUME MgtInv, mgr = Loop, ~child_pid, NEW cmd \in Commands, CmdFits(cmd), Accepted(cmd),
         UNCHANGED <<mgr, mgtvars, auto_restart, child, req, rsp>>, happened' \in BOOLEAN
  PROVE  MgtInv'
<1>0. TypeOK /\ OneChild /\ NoPanic /\ MgrOK /\ GoneOK /\ StopOK
  BY DEF MgtInv
<1>1. child_state \in {"STOPPED", "DIED"}
  BY <1>0, ConstantFacts DEF OneChild
<1>2. vclhead' \in Seq(Vcl) /\ IsInjective(vclhead') /\ active' \in ToSet(vclhead')
  BY <1>0, AcceptFacts
<1>3. TypeOK'
  BY <1>0, <1>2 DEF TypeOK, mgtvars
<1>4. OneChild' /\ NoPanic' /\ MgrOK' /\ GoneOK' /\ StopOK'
  BY <1>0 DEF OneChild, NoPanic, MgrOK, GoneOK, StopOK, mgtvars
<1>5. CmdOK' /\ RunOK' /\ PushOK'
  BY <1>0, <1>1, ConstantFacts DEF CmdOK, RunOK, PushOK, mgtvars
<1> QED
  BY <1>3, <1>4, <1>5 DEF MgtInv

\* vcl.load, vcl.inline.
LEMMA LoadStep ==
  ASSUME MgtInv, NEW v \in Vcl, mcf_config_load(v)
  PROVE  MgtInv'
<1>1. Cmd("load", v) \in Commands /\ CmdFits(Cmd("load", v)) /\ mgr = Loop /\ happened' \in BOOLEAN
  BY ConstantFacts DEF mcf_config_load, CmdFits
<1>2. CASE child_pid /\ Ask("cli", Cmd("load", v))
  BY <1>1, <1>2, AskStep
<1>3. CASE ~child_pid /\ Accepted(Cmd("load", v)) /\ UNCHANGED <<mgr, mgtvars, auto_restart, child, req, rsp>>
  BY <1>1, <1>3, AloneStep
<1>4. CASE UNCHANGED <<mgr, mgtvars, vclvars, auto_restart, child, req, rsp>>
  BY <1>1, <1>4, QuietStep DEF MgtInv, TypeOK, mgtvars
<1> QED
  BY <1>2, <1>3, <1>4 DEF mcf_config_load

\* vcl.use, vcl.discard.
LEMMA UseStep ==
  ASSUME MgtInv, NEW c \in {"use", "discard"}, NEW v \in Vcl, mcf_config_use_discard(c, v)
  PROVE  MgtInv'
<1>1. /\ Cmd(c, v) \in Commands /\ CmdFits(Cmd(c, v)) /\ mgr = Loop
      /\ happened' \in BOOLEAN
  BY ConstantFacts DEF mcf_config_use_discard, CmdFits, MgtInv, TypeOK
<1>2. CASE child_pid /\ Ask("cli", Cmd(c, v))
  BY <1>1, <1>2, AskStep
<1>3. CASE ~child_pid /\ Accepted(Cmd(c, v)) /\ UNCHANGED <<mgr, mgtvars, auto_restart, child, req, rsp>>
  BY <1>1, <1>3, AloneStep
<1> QED
  BY <1>2, <1>3 DEF mcf_config_use_discard

-----------------------------------------------------------------------------
(* Starting and stopping the cacher.                                       *)

\* What mgt_push_vcls_and_start() sends.
LEMMA PushFacts ==
  ASSUME TypeOK
  PROVE  /\ Len(vclhead) \in Nat /\ Len(vclhead) >= 1
         /\ ActiveAt \in 1 .. Len(vclhead) /\ vclhead[ActiveAt] = active /\ active \in Vcl
         /\ \A i \in 1 .. Len(vclhead) : vclhead[i] \in Vcl
         /\ \A i \in 1 .. Len(vclhead) + 2 : PushCmd(i) \in Commands
<1>1. vclhead \in Seq(Vcl) /\ active \in ToSet(vclhead)
  BY DEF TypeOK
<1>2. /\ Len(vclhead) \in Nat /\ DOMAIN vclhead = 1 .. Len(vclhead)
      /\ \A i \in 1 .. Len(vclhead) : vclhead[i] \in Vcl
  BY <1>1
<1>3. \E i \in 1 .. Len(vclhead) : vclhead[i] = active
  BY <1>1, <1>2 DEF ToSet
<1>4. ActiveAt \in 1 .. Len(vclhead) /\ vclhead[ActiveAt] = active
  BY <1>3 DEF ActiveAt
<1>5. Len(vclhead) >= 1 /\ active \in Vcl
  BY <1>2, <1>4
<1>6. ASSUME NEW i \in 1 .. Len(vclhead) + 2 PROVE PushCmd(i) \in Commands
  <2> DEFINE a == ActiveAt
  <2>1. a \in 1 .. Len(vclhead)
    BY <1>4
  <2> HIDE DEF a
  <2>2. CASE i <= a
    <3>1. i \in 1 .. Len(vclhead)
      BY <1>2, <2>1, <2>2
    <3>2. PushCmd(i) = Cmd("load", vclhead[i])
      BY <1>2, <2>1, <2>2 DEF PushCmd, a
    <3> QED
      BY <3>1, <3>2, <1>2, ConstantFacts
  <2>3. CASE i = a + 1
    <3>1. ~(i <= a)
      BY <2>1, <2>3
    <3> QED
      BY <3>1, <2>3, <1>5, ConstantFacts DEF PushCmd, a
  <2>4. CASE ~(i <= a) /\ i # a + 1 /\ i = Len(vclhead) + 2
    BY <2>4, ConstantFacts DEF PushCmd, a
  <2>5. CASE ~(i <= a) /\ i # a + 1 /\ i # Len(vclhead) + 2
    <3>1. i - 1 \in 1 .. Len(vclhead)
      BY <1>2, <2>1, <2>5
    <3>2. PushCmd(i) = Cmd("load", vclhead[i - 1])
      BY <2>5 DEF PushCmd, a
    <3> QED
      BY <3>1, <3>2, <1>2, ConstantFacts
  <2> QED
    BY <2>2, <2>3, <2>4, <2>5
<1> QED
  BY <1>2, <1>4, <1>5, <1>6

\* start_child() finds nothing left of the previous cacher.
LEMMA StartStep ==
  ASSUME MgtInv, mgr = Loop, child.st # "up", start_child(FALSE, FALSE),
         UNCHANGED <<vclvars, auto_restart>>, happened' \in BOOLEAN
  PROVE  MgtInv'
<1>0. TypeOK /\ GoneOK
  BY DEF MgtInv
<1>1. CASE child_state' = "STOPPED"
  <2>1. /\ ev_listen' = FALSE /\ ev_poker' = FALSE /\ child_pid' = FALSE /\ cli' = FALSE
        /\ mgr' = Loop /\ child' = NoChild /\ UNCHANGED <<req, rsp>>
    BY <1>1 DEF start_child
  <2>2. child' \in [st : {"none", "up", "zombie"}, hung : BOOLEAN, quit : BOOLEAN,
                vcl_head : Seq(Vcl), vcl_active : Vcl \cup {Nothing}, started : BOOLEAN]
        /\ child'.st = "none" /\ ~child'.quit /\ ~child'.started
        /\ child'.vcl_head = <<>> /\ child'.vcl_active = Nothing
    BY <2>1 DEF NoChild
  <2>3. TypeOK'
    <3>1. IsInjective(child'.vcl_head)
      BY <2>2 DEF IsInjective
    <3> QED
      BY <1>0, <1>1, <2>1, <2>2, <3>1 DEF TypeOK, vclvars
  <2>4. OneChild' /\ NoPanic' /\ MgrOK' /\ CmdOK'
    BY <1>1, <2>1, ConstantFacts DEF OneChild, NoPanic, MgrOK, CmdOK
  <2>5. GoneOK' /\ RunOK' /\ PushOK' /\ StopOK'
    BY <1>0, <1>1, <2>1, <2>2 DEF GoneOK, RunOK, PushOK, StopOK
  <2> QED
    BY <2>3, <2>4, <2>5 DEF MgtInv
<1>2. CASE child_state' = "STARTING"
  <2> DEFINE cmds == mgt_push_vcls_and_start
  <2>1. /\ child' = NewChild /\ ev_listen' = TRUE /\ ev_poker' \in BOOLEAN
        /\ child_pid' = TRUE /\ cli' = TRUE
        /\ mgr' = [op |-> "push", cmds |-> cmds] /\ req' = <<Head(cmds)>> /\ rsp' = <<>>
    BY <1>2 DEF start_child
  <2>2. /\ child' \in [st : {"none", "up", "zombie"}, hung : BOOLEAN, quit : BOOLEAN,
                vcl_head : Seq(Vcl), vcl_active : Vcl \cup {Nothing}, started : BOOLEAN]
        /\ child'.st = "up" /\ child'.quit = FALSE /\ child'.started = FALSE
        /\ child'.vcl_head = <<>> /\ child'.vcl_active = Nothing
    <3>1. /\ NoChild \in [st : {"none", "up", "zombie"}, hung : BOOLEAN, quit : BOOLEAN,
                vcl_head : Seq(Vcl), vcl_active : Vcl \cup {Nothing}, started : BOOLEAN]
          /\ NoChild.quit = FALSE /\ NoChild.started = FALSE
          /\ NoChild.vcl_head = <<>> /\ NoChild.vcl_active = Nothing
      BY DEF NoChild
    <3> QED
      BY <2>1, <3>1 DEF NewChild
  <2>3. /\ cmds \in Seq(Commands) /\ Len(cmds) = Len(vclhead) + 2 /\ Head(cmds) \in Commands
        /\ cmds # <<>> /\ Len(vclhead) \in Nat
    <3>1. Len(vclhead) \in Nat /\ \A i \in 1 .. Len(vclhead) + 2 : PushCmd(i) \in Commands
      BY <1>0, PushFacts
    <3>2. cmds \in Seq(Commands) /\ Len(cmds) = Len(vclhead) + 2
      BY <3>1 DEF mgt_push_vcls_and_start
    <3>3. cmds # <<>>
      BY <3>1, <3>2, PipeFacts
    <3> QED
      BY <3>1, <3>2, <3>3, PipeFacts
  <2> HIDE DEF cmds
  <2>4. /\ mgr'.op = "push" /\ mgr'.cmds = cmds
        /\ mgr' \in [op : {"loop", "cli", "pass", "push", "gone", "panic"}, cmds : Seq(Commands)]
        /\ mgr' # Gone /\ mgr' # Panic
    BY <2>1, <2>3 DEF Gone, Panic
  <2>5. req' \in Seq(Commands) /\ rsp' \in Seq(BOOLEAN) /\ Len(req') = 1 /\ Len(rsp') = 0
    BY <2>1, <2>3, OneFacts
  <2>6. TypeOK'
    <3>1. IsInjective(child'.vcl_head)
      BY <2>2 DEF IsInjective
    <3>2. Len(req') + Len(rsp') <= MaxStale + 1
      BY <2>5, MgtChildAssumption
    <3> QED
      BY <1>0, <1>2, <2>1, <2>2, <2>3, <2>4, <2>5, <3>1, <3>2 DEF TypeOK, vclvars
  <2>7. OneChild' /\ NoPanic' /\ MgrOK' /\ CmdOK'
    BY <1>2, <2>1, <2>2, <2>4 DEF OneChild, NoPanic, MgrOK, CmdOK
  <2>8. GoneOK' /\ RunOK' /\ StopOK'
    BY <1>2, <2>2 DEF GoneOK, RunOK, StopOK
  <2>9. PushOK'
    <3>1. Len(vclhead') = Len(vclhead) /\ ActiveAt' = ActiveAt /\ ActiveAt \in 1 .. Len(vclhead)
      BY <1>0, PushFacts DEF ActiveAt, vclvars
    <3>2. Answered' = 0
      BY <2>3, <2>4, <3>1 DEF Answered
    <3>3. \A i : PushCmd(i)' = PushCmd(i)
      BY DEF PushCmd, ActiveAt, vclvars
    <3>4. mgr'.cmds = [i \in 1 .. Len(vclhead) + 2 - 0 |-> PushCmd(i + 0)]
      <4>1. Len(vclhead) + 2 - 0 = Len(vclhead) + 2 /\ \A i \in 1 .. Len(vclhead) + 2 : i + 0 = i
        BY <2>3
      <4> QED
        BY <4>1, <2>4 DEF cmds, mgt_push_vcls_and_start
    <3>5. PushedTo(0)'
      <4>1. LoadedBy(0)' = 0
        BY <3>1, <2>3 DEF LoadedBy
      <4>2. Len(child'.vcl_head) = 0
        BY <2>2
      <4>3. ~(0 > ActiveAt') /\ 0 # Len(vclhead') + 2
        BY <3>1, <2>3
      <4>4. \A i \in 1 .. 0 : FALSE
        OBVIOUS
      <4> QED
        BY <4>1, <4>2, <4>3, <4>4, <2>2 DEF PushedTo
    <3>6. /\ Answered' \in 0 .. Len(vclhead') + 1
          /\ mgr'.cmds = [i \in 1 .. Len(vclhead) + 2 - Answered |-> PushCmd(i + Answered)]'
          /\ PushedTo(Answered)'
      <4>1. PushedTo(Answered)' <=> PushedTo(0)'
        BY <3>2
      <4>2. Answered' \in 0 .. Len(vclhead') + 1
        BY <3>1, <3>2, <2>3
      <4>3. [i \in 1 .. Len(vclhead) + 2 - Answered |-> PushCmd(i + Answered)]'
             = [i \in 1 .. Len(vclhead) + 2 - 0 |-> PushCmd(i + 0)]
        BY <3>1, <3>2, <3>3
      <4> QED
        BY <4>1, <4>2, <4>3, <3>4, <3>5
    <3> QED
      BY <3>6, <2>1, <2>2, <2>4 DEF PushOK
  <2> QED
    BY <2>6, <2>7, <2>8, <2>9 DEF MgtInv
<1> QED
  BY <1>1, <1>2 DEF start_child

\* The cacher is told to stop, or its push failed.
LEMMA StopStep ==
  ASSUME MgtInv, child_state \in {"STARTING", "RUNNING"}, mgr.op # "gone", mgt_stop_child,
         mgr' = Loop, UNCHANGED <<vclvars, child>>,
         req' \in Seq(Commands), rsp' \in Seq(BOOLEAN), Len(req') + Len(rsp') <= MaxStale + 1,
         child.st # "up" => req' = <<>>,
         happened' \in BOOLEAN, auto_restart' \in BOOLEAN
  PROVE  MgtInv'
<1>0. TypeOK /\ OneChild /\ GoneOK /\ StopOK
  BY DEF MgtInv
<1>1. TypeOK'
  BY <1>0, IdleTyped DEF TypeOK, mgt_stop_child, vclvars
<1>2. mgr # Gone
  BY ConstantFacts
<1>3. OneChild' /\ NoPanic'
  BY <1>0, <1>2, ConstantFacts DEF OneChild, NoPanic, mgt_stop_child
<1>4. MgrOK' /\ CmdOK' /\ GoneOK' /\ StopOK' /\ RunOK' /\ PushOK'
  BY <1>0, ConstantFacts DEF MgrOK, CmdOK, GoneOK, StopOK, RunOK, PushOK, mgt_stop_child
<1> QED
  BY <1>1, <1>3, <1>4 DEF MgtInv

\* The operator starts and stops the cacher.
LEMMA ServerStep ==
  ASSUME MgtInv, ServerStart \/ ServerStop
  PROVE  MgtInv'
<1>0. TypeOK /\ OneChild /\ GoneOK
  BY DEF MgtInv
<1>1. CASE ServerStart
  <2>1. ev_listen = FALSE /\ ev_poker = FALSE /\ child = NoChild
    BY <1>0, <1>1 DEF OneChild, ServerStart, TypeOK
  <2>2. child.st # "up"
    BY <2>1 DEF NoChild
  <2> QED
    BY <1>0, <1>1, <2>1, <2>2, StartStep DEF ServerStart, TypeOK
<1>2. CASE ServerStop
  <2>1. mgr.op # "gone" /\ mgr' = Loop
    BY <1>2, ConstantFacts DEF ServerStop
  <2> QED
    BY <1>0, <1>2, <2>1, StopStep DEF ServerStop, TypeOK, GoneOK
<1> QED
  BY <1>1, <1>2

\* SIGCHLD: of a compiler, or of the cacher.
LEMMA SigchldStep ==
  ASSUME MgtInv, mgt_sigchld
  PROVE  MgtInv'
<1>0. TypeOK /\ OneChild /\ GoneOK
  BY DEF MgtInv
<1>1. mgr = Loop /\ happened' = FALSE /\ UNCHANGED <<vclvars, auto_restart>>
  BY DEF mgt_sigchld
<1>2. CASE child.st # "zombie"
  BY <1>0, <1>1, <1>2, QuietStep DEF mgt_sigchld, TypeOK
<1>3. CASE child.st = "zombie" /\ start_child(FALSE, FALSE)
  BY <1>1, <1>3, StartStep
<1>4. CASE /\ child.st = "zombie"
           /\ child' = NoChild /\ child_pid' = FALSE
           /\ child_state' = "STOPPED" /\ cli' = FALSE
           /\ ev_poker' = FALSE /\ ev_listen' = FALSE
           /\ UNCHANGED <<mgr, req, rsp>>
  <2>1. /\ child' \in [st : {"none", "up", "zombie"}, hung : BOOLEAN, quit : BOOLEAN,
                vcl_head : Seq(Vcl), vcl_active : Vcl \cup {Nothing}, started : BOOLEAN]
        /\ child'.st = "none" /\ ~child'.quit /\ ~child'.started
        /\ child'.vcl_head = <<>> /\ child'.vcl_active = Nothing
    BY <1>4 DEF NoChild
  <2>2. IsInjective(child'.vcl_head)
    BY <2>1 DEF IsInjective
  <2>3. TypeOK'
    BY <1>0, <1>1, <1>4, <2>1, <2>2 DEF TypeOK, vclvars
  <2>4. OneChild' /\ NoPanic' /\ MgrOK' /\ CmdOK'
    BY <1>1, <1>4, ConstantFacts DEF OneChild, NoPanic, MgrOK, CmdOK
  <2>5. GoneOK' /\ RunOK' /\ PushOK' /\ StopOK'
    BY <1>0, <1>4, <2>1 DEF GoneOK, RunOK, PushOK, StopOK
  <2> QED
    BY <2>3, <2>4, <2>5 DEF MgtInv
<1> QED
  BY <1>2, <1>3, <1>4 DEF mgt_sigchld

\* The manager exits.
LEMMA SigintStep ==
  ASSUME MgtInv, mgt_sigint
  PROVE  MgtInv'
<1>0. TypeOK /\ OneChild /\ NoPanic /\ MgrOK /\ GoneOK /\ StopOK /\ RunOK
  BY DEF MgtInv
<1>1. /\ mgr = Loop /\ mgr' = Gone /\ cli' = FALSE
      /\ UNCHANGED <<child_state, child_pid, ev_poker, ev_listen, happened, vclvars,
                     auto_restart, child, req, rsp>>
  BY DEF mgt_sigint
<1>2. TypeOK'
  BY <1>0, <1>1, IdleTyped DEF TypeOK, vclvars
<1>3. OneChild' /\ NoPanic'
  BY <1>0, <1>1, ConstantFacts DEF OneChild, NoPanic
<1>4. MgrOK' /\ CmdOK' /\ GoneOK' /\ StopOK' /\ PushOK'
  BY <1>0, <1>1, ConstantFacts DEF MgrOK, CmdOK, GoneOK, StopOK, PushOK
<1>5. RunOK'
  <2>1. mgr.cmds = <<>> /\ mgr'.cmds = <<>>
    BY <1>1, ConstantFacts
  <2>2. InStep' => req = <<>> /\ rsp = <<>> /\ InStep
    BY <1>0, <1>1, <2>1, PipeFacts DEF InStep, TypeOK
  <2> QED
    BY <1>0, <1>1, <2>1, <2>2 DEF RunOK, Same, vclvars
<1> QED
  BY <1>2, <1>3, <1>4, <1>5 DEF MgtInv

-----------------------------------------------------------------------------
(* The cacher's process.                                                   *)

\* The process ends.
LEMMA EndsStep ==
  ASSUME MgtInv, child.st = "up", Ends
  PROVE  MgtInv'
<1>0. TypeOK /\ OneChild /\ NoPanic /\ MgrOK /\ CmdOK /\ PushOK
  BY DEF MgtInv
<1> DEFINE Records == [st : {"none", "up", "zombie"}, hung : BOOLEAN, quit : BOOLEAN,
                vcl_head : Seq(Vcl), vcl_active : Vcl \cup {Nothing}, started : BOOLEAN]
<1>1. /\ NoChild \in Records /\ NoChild.quit = FALSE /\ NoChild.started = FALSE
      /\ NoChild.vcl_head = <<>> /\ NoChild.vcl_active = Nothing /\ NoChild.st = "none"
  BY DEF NoChild
<1>2. /\ child' = [NoChild EXCEPT !.st = IF mgr = Gone THEN "none" ELSE "zombie"]
      /\ req' = <<>> /\ happened' \in BOOLEAN
      /\ UNCHANGED <<mgr, mgtvars, vclvars, auto_restart, rsp>>
  BY <1>0 DEF Ends, Dead, TypeOK
<1>3. /\ child' \in Records /\ child'.quit = FALSE /\ child'.started = FALSE
      /\ child'.vcl_head = <<>> /\ child'.vcl_active = Nothing
      /\ child'.st = IF mgr = Gone THEN "none" ELSE "zombie"
  BY <1>1, <1>2
<1>4. TypeOK'
  <2>1. IsInjective(child'.vcl_head)
    BY <1>3 DEF IsInjective
  <2>2. Len(req') + Len(rsp') <= MaxStale + 1 /\ req' \in Seq(Commands)
    BY <1>0, <1>2, MgtChildAssumption, PipeFacts DEF TypeOK
  <2> QED
    BY <1>0, <1>2, <1>3, <2>1, <2>2 DEF TypeOK, mgtvars, vclvars
<1>5. OneChild'
  <2>1. child_state \notin {"STOPPED", "DIED"}
    BY <1>0, <1>1 DEF OneChild
  <2> QED
    BY <2>1, <1>0, <1>2, <1>3 DEF OneChild, mgtvars
<1>6. NoPanic' /\ MgrOK' /\ CmdOK' /\ StopOK' /\ RunOK'
  BY <1>0, <1>2, <1>3 DEF NoPanic, MgrOK, CmdOK, CmdFits, NotActive, StopOK, RunOK, mgtvars, vclvars
<1>7. GoneOK'
  <2>1. mgr = Gone => child' = NoChild
    BY <1>1, <1>2
  <2> QED
    BY <2>1, <1>2, <1>3 DEF GoneOK
<1>8. PushOK'
  BY <1>0, <1>2, <1>3, PushFrame DEF mgtvars
<1> QED
  BY <1>4, <1>5, <1>6, <1>7, <1>8 DEF MgtInv

\* The cacher hangs.
LEMMA HangStep ==
  ASSUME MgtInv, ChildHang
  PROVE  MgtInv'
<1>0. TypeOK /\ OneChild /\ NoPanic /\ MgrOK /\ CmdOK /\ PushOK /\ RunOK /\ StopOK /\ GoneOK
  BY DEF MgtInv
<1>1. /\ child.st = "up" /\ child' = [child EXCEPT !.hung = TRUE]
      /\ UNCHANGED <<mgr, mgtvars, happened, vclvars, auto_restart, req, rsp>>
  BY DEF ChildHang
<1>2. /\ child' \in [st : {"none", "up", "zombie"}, hung : BOOLEAN, quit : BOOLEAN,
                vcl_head : Seq(Vcl), vcl_active : Vcl \cup {Nothing}, started : BOOLEAN]
      /\ child'.st = "up" /\ child'.quit = child.quit /\ SamePrograms
  BY <1>0, <1>1 DEF TypeOK, SamePrograms
<1>3. TypeOK'
  BY <1>0, <1>1, <1>2 DEF TypeOK, mgtvars, vclvars, SamePrograms
<1>4. OneChild'
  BY <1>0, <1>1, <1>2 DEF OneChild, mgtvars, NoChild
<1>5. NoPanic' /\ MgrOK' /\ CmdOK' /\ StopOK' /\ GoneOK'
  BY <1>0, <1>1, <1>2 DEF NoPanic, MgrOK, CmdOK, CmdFits, NotActive, StopOK, GoneOK,
                          SamePrograms, mgtvars, vclvars
<1>6. RunOK'
  BY <1>0, <1>1, <1>2 DEF RunOK, InStep, Same, HeadAfter, ActiveAfter, SamePrograms,
                          mgtvars, vclvars
<1>7. PushOK'
  BY <1>0, <1>1, <1>2, PushFrame DEF mgtvars
<1> QED
  BY <1>3, <1>4, <1>5, <1>6, <1>7 DEF MgtInv

\* What one command does to the cacher: nothing if it is refused.
LEMMA ServedFacts ==
  ASSUME TypeOK, NEW cmd \in Commands, NEW o \in Served(cmd)
  PROVE  /\ o[1] \in BOOLEAN
         /\ ~o[1] => o[2] = child
         /\ o[2] \in [st : {"none", "up", "zombie"}, hung : BOOLEAN, quit : BOOLEAN,
                vcl_head : Seq(Vcl), vcl_active : Vcl \cup {Nothing}, started : BOOLEAN]
         /\ IsInjective(o[2].vcl_head) /\ o[2].vcl_active \in ToSet(o[2].vcl_head) \cup {Nothing}
         /\ o[2].st = child.st /\ o[2].quit = child.quit
         /\ o[1] => /\ o[2].vcl_head = CASE cmd.c = "load" -> Append(child.vcl_head, cmd.v)
                                         [] cmd.c = "discard" -> Unlinked(child.vcl_head, cmd.v)
                                         [] OTHER -> child.vcl_head
                    /\ o[2].vcl_active =
                         IF cmd.c = "use" \/ (cmd.c = "load" /\ child.vcl_active = Nothing)
                         THEN cmd.v ELSE child.vcl_active
                    /\ o[2].started = (child.started \/ cmd.c = "start")
<1> DEFINE Records == [st : {"none", "up", "zombie"}, hung : BOOLEAN, quit : BOOLEAN,
                vcl_head : Seq(Vcl), vcl_active : Vcl \cup {Nothing}, started : BOOLEAN]
           known == cmd.v \in ToSet(child.vcl_head)
<1>0. /\ child \in Records /\ child.vcl_head \in Seq(Vcl) /\ IsInjective(child.vcl_head)
      /\ child.vcl_active \in ToSet(child.vcl_head) \cup {Nothing}
      /\ child.started \in BOOLEAN
  BY DEF TypeOK
<1>1. cmd.c \in {"load", "use", "discard"} => cmd.v \in Vcl
  BY ConstantFacts
<1>2. CASE cmd.c = "load"
  <2>1. \/ o = <<FALSE, child>>
        \/ ~known /\ o = <<TRUE, [child EXCEPT !.vcl_head = Append(child.vcl_head, cmd.v),
                     !.vcl_active = IF child.vcl_active = Nothing THEN cmd.v ELSE child.vcl_active]>>
    BY <1>2 DEF Served
  <2>2. CASE o = <<FALSE, child>>
    BY <1>0, <2>2
  <2>3. CASE o # <<FALSE, child>>
    <3> DEFINE h == Append(child.vcl_head, cmd.v)
               a == IF child.vcl_active = Nothing THEN cmd.v ELSE child.vcl_active
    <3>1. h \in Seq(Vcl) /\ IsInjective(h) /\ ToSet(h) = ToSet(child.vcl_head) \cup {cmd.v}
      BY <1>0, <1>1, <1>2, <2>1, <2>3, LoadFacts
    <3>2. a \in Vcl \cup {Nothing} /\ a \in ToSet(h) \cup {Nothing}
      BY <1>0, <1>1, <1>2, <3>1
    <3>3. o[1] = TRUE /\ o[2] = [child EXCEPT !.vcl_head = h, !.vcl_active = a]
      <4> DEFINE x == [child EXCEPT !.vcl_head = h, !.vcl_active = a]
      <4>1. o = <<TRUE, x>>
        BY <2>1, <2>3
      <4> HIDE DEF x
      <4>2. o[1] = TRUE /\ o[2] = x
        BY <4>1
      <4> QED
        BY <4>2 DEF x
    <3> HIDE DEF h, a
    <3>4. /\ o[2] \in Records /\ o[2].vcl_head = h /\ o[2].vcl_active = a
          /\ o[2].st = child.st /\ o[2].quit = child.quit /\ o[2].started = child.started
      BY <1>0, <3>1, <3>2, <3>3
    <3> QED
      BY <1>0, <1>2, <3>1, <3>2, <3>3, <3>4 DEF h, a
  <2> QED
    BY <2>2, <2>3
<1>3. CASE cmd.c = "use"
  <2>1. \/ ~known /\ o = <<FALSE, child>>
        \/ known /\ o = <<TRUE, [child EXCEPT !.vcl_active = cmd.v]>>
    BY <1>3 DEF Served
  <2>2. CASE o = <<FALSE, child>>
    BY <1>0, <2>2
  <2>3. CASE o # <<FALSE, child>>
    <3> DEFINE x == [child EXCEPT !.vcl_active = cmd.v]
    <3>1. known /\ o = <<TRUE, x>>
      BY <2>1, <2>3
    <3>2. /\ x \in Records /\ x.vcl_head = child.vcl_head /\ x.vcl_active = cmd.v
          /\ x.st = child.st /\ x.quit = child.quit /\ x.started = child.started
      BY <1>0, <1>1, <1>3
    <3> HIDE DEF x
    <3>3. o[1] = TRUE /\ o[2] = x
      BY <3>1
    <3> QED
      BY <1>0, <1>3, <3>1, <3>2, <3>3
  <2> QED
    BY <2>2, <2>3
<1>4. CASE cmd.c = "discard"
  <2>1. \/ o = <<FALSE, child>>
        \/ /\ known /\ cmd.v # child.vcl_active
           /\ o = <<TRUE, [child EXCEPT !.vcl_head = Unlinked(child.vcl_head, cmd.v)]>>
    BY <1>4 DEF Served
  <2>2. CASE o = <<FALSE, child>>
    BY <1>0, <2>2
  <2>3. CASE o # <<FALSE, child>>
    <3> DEFINE h == Unlinked(child.vcl_head, cmd.v)
    <3>1. h \in Seq(Vcl) /\ IsInjective(h) /\ ToSet(h) = ToSet(child.vcl_head) \ {cmd.v}
      BY <1>0, <2>1, <2>3, UnlinkFacts
    <3>2. o[1] = TRUE /\ o[2] = [child EXCEPT !.vcl_head = h]
      <4> DEFINE x == [child EXCEPT !.vcl_head = h]
      <4>1. o = <<TRUE, x>>
        BY <2>1, <2>3
      <4> HIDE DEF x
      <4>2. o[1] = TRUE /\ o[2] = x
        BY <4>1
      <4> QED
        BY <4>2 DEF x
    <3> HIDE DEF h
    <3>3. /\ o[2] \in Records /\ o[2].vcl_head = h /\ o[2].vcl_active = child.vcl_active
          /\ o[2].st = child.st /\ o[2].quit = child.quit /\ o[2].started = child.started
      BY <1>0, <3>1, <3>2
    <3> QED
      BY <1>0, <1>4, <2>1, <2>3, <3>1, <3>2, <3>3 DEF h
  <2> QED
    BY <2>2, <2>3
<1>5. CASE cmd.c = "start"
  <2>1. o = <<TRUE, [child EXCEPT !.started = TRUE]>>
    BY <1>5 DEF Served
  <2> QED
    BY <1>0, <1>5, <2>1
<1>6. CASE cmd.c \notin {"load", "use", "discard", "start"}
  <2>1. o = <<TRUE, child>> \/ o = <<FALSE, child>>
    BY <1>6 DEF Served
  <2>2. o[1] \in BOOLEAN /\ o[2] = child
    <3>1. CASE o = <<TRUE, child>>
      BY <3>1
    <3>2. CASE o = <<FALSE, child>>
      BY <3>2
    <3> QED
      BY <2>1, <3>1, <3>2
  <2> QED
    BY <1>0, <1>6, <2>2
<1> QED
  BY <1>2, <1>3, <1>4, <1>5, <1>6

\* One command of the push: the cacher comes one program further.
LEMMA PushOne ==
  ASSUME TypeOK, NEW n \in 0 .. Len(vclhead) + 1, PushedTo(n),
         NEW o \in Served(PushCmd(n + 1)), o[1], child' = o[2], UNCHANGED vclvars
  PROVE  \A m : m = n + 1 => PushedTo(m)'
<1> DEFINE L == Len(vclhead)
           a == ActiveAt
           cmd == PushCmd(n + 1)
           h == child.vcl_head
<1>1. /\ L \in Nat /\ L >= 1 /\ a \in 1 .. L /\ active \in Vcl
      /\ \A i \in 1 .. L : vclhead[i] \in Vcl
      /\ \A i \in 1 .. L + 2 : PushCmd(i) \in Commands
  BY PushFacts
<1>2. n + 1 \in 1 .. L + 2 /\ n \in Nat
  BY <1>1
<1>3. cmd \in Commands
  BY <1>1, <1>2
<1>4. /\ child'.vcl_head = CASE cmd.c = "load" -> Append(h, cmd.v)
                              [] cmd.c = "discard" -> Unlinked(h, cmd.v)
                              [] OTHER -> h
      /\ child'.vcl_active =
           IF cmd.c = "use" \/ (cmd.c = "load" /\ child.vcl_active = Nothing)
           THEN cmd.v ELSE child.vcl_active
      /\ child'.started = (child.started \/ cmd.c = "start")
  BY <1>3, ServedFacts
<1>5. /\ child.started = (n = L + 2)
      /\ h \in Seq(Vcl) /\ Len(h) = LoadedBy(n)
      /\ \A i \in 1 .. LoadedBy(n) : h[i] = vclhead[i]
      /\ n > a => child.vcl_active = active
      /\ child.vcl_active = Nothing <=> n = 0
  BY DEF PushedTo, TypeOK
<1>6. ASSUME NEW v \in Vcl, cmd = Cmd("load", v), LoadedBy(n + 1) = LoadedBy(n) + 1,
             LoadedBy(n) \in Nat, v = vclhead[LoadedBy(n) + 1], n + 1 # L + 2, n + 1 > a => n > a
      PROVE  /\ child'.started = (n + 1 = L + 2)
             /\ Len(child'.vcl_head) = LoadedBy(n + 1)
             /\ \A i \in 1 .. LoadedBy(n + 1) : child'.vcl_head[i] = vclhead[i]
             /\ n + 1 > a => child'.vcl_active = active
             /\ child'.vcl_active = Nothing <=> n + 1 = 0
  <2>1. cmd.c = "load" /\ cmd.v = v
    BY <1>6, ConstantFacts
  <2>2. child'.vcl_head = Append(h, v) /\ child'.started = child.started
    BY <1>4, <1>5, <2>1
  <2>3. /\ Len(Append(h, v)) = Len(h) + 1 /\ Append(h, v)[Len(h) + 1] = v
        /\ \A i \in 1 .. Len(h) : Append(h, v)[i] = h[i]
    BY <1>5, AppendFacts
  <2>4. \A i \in 1 .. LoadedBy(n) + 1 : i \in 1 .. LoadedBy(n) \/ i = LoadedBy(n) + 1
    BY <1>6
  <2>5. \A i \in 1 .. LoadedBy(n) + 1 : Append(h, v)[i] = vclhead[i]
    BY <1>5, <1>6, <2>3, <2>4
  <2>6. n + 1 > a => child'.vcl_active = active
    BY <1>1, <1>2, <1>4, <1>5, <1>6, <2>1, MgtChildAssumption
  <2>7. child'.vcl_active # Nothing /\ n + 1 # 0
    BY <1>2, <1>4, <1>6, <2>1, MgtChildAssumption
  <2>8. n # L + 2
    BY <1>1
  <2> QED
    BY <1>5, <1>6, <2>2, <2>3, <2>5, <2>6, <2>7, <2>8
<1>7. ASSUME cmd.c \in {"use", "start"}, LoadedBy(n + 1) = LoadedBy(n), n + 1 > a,
             cmd.c = "use" => cmd.v = active /\ n + 1 # L + 2,
             cmd.c = "start" => n > a /\ n + 1 = L + 2
      PROVE  /\ child'.started = (n + 1 = L + 2)
             /\ Len(child'.vcl_head) = LoadedBy(n + 1)
             /\ \A i \in 1 .. LoadedBy(n + 1) : child'.vcl_head[i] = vclhead[i]
             /\ n + 1 > a => child'.vcl_active = active
             /\ child'.vcl_active = Nothing <=> n + 1 = 0
  <2>1. child'.vcl_head = h
    BY <1>4, <1>7
  <2>2. child'.vcl_active = active
    BY <1>4, <1>5, <1>7
  <2>3. active # Nothing /\ n + 1 # 0 /\ n # L + 2
    BY <1>1, <1>2, MgtChildAssumption
  <2>4. child'.started = (cmd.c = "start")
    BY <1>4, <1>5, <2>3
  <2> QED
    BY <1>5, <1>7, <2>1, <2>2, <2>3, <2>4
<1>8. CASE n + 1 <= a
  <2>1. LoadedBy(n) = n /\ LoadedBy(n + 1) = n + 1 /\ n + 1 \in 1 .. L /\ n + 1 # L + 2 /\ ~(n + 1 > a)
    BY <1>1, <1>2, <1>8 DEF LoadedBy
  <2>2. cmd = Cmd("load", vclhead[n + 1])
    BY <1>1, <1>2, <1>8 DEF PushCmd
  <2> HIDE DEF cmd, h
  <2>3. /\ child'.started = (n + 1 = L + 2)
        /\ Len(child'.vcl_head) = LoadedBy(n + 1)
        /\ \A i \in 1 .. LoadedBy(n + 1) : child'.vcl_head[i] = vclhead[i]
        /\ n + 1 > a => child'.vcl_active = active
        /\ child'.vcl_active = Nothing <=> n + 1 = 0
    BY <1>1, <1>2, <1>6, <2>1, <2>2
  <2> QED
    BY <2>3 DEF PushedTo, LoadedBy, ActiveAt, vclvars
<1>9. CASE n = a
  <2>1. LoadedBy(n) = n /\ LoadedBy(n + 1) = n /\ n + 1 # L + 2 /\ n + 1 > a
    BY <1>1, <1>2, <1>9 DEF LoadedBy
  <2>2. cmd = Cmd("use", active)
    BY <1>1, <1>2, <1>9 DEF PushCmd
  <2>3. cmd.c = "use" /\ cmd.v = active
    BY <2>2, ConstantFacts
  <2> HIDE DEF cmd, h
  <2>4. /\ child'.started = (n + 1 = L + 2)
        /\ Len(child'.vcl_head) = LoadedBy(n + 1)
        /\ \A i \in 1 .. LoadedBy(n + 1) : child'.vcl_head[i] = vclhead[i]
        /\ n + 1 > a => child'.vcl_active = active
        /\ child'.vcl_active = Nothing <=> n + 1 = 0
    BY <1>7, <2>1, <2>3
  <2> QED
    BY <2>4 DEF PushedTo, LoadedBy, ActiveAt, vclvars
<1>10. CASE n > a /\ n = L + 1
  <2>1. LoadedBy(n) = L /\ LoadedBy(n + 1) = L /\ n + 1 = L + 2 /\ n + 1 > a
    BY <1>1, <1>2, <1>10 DEF LoadedBy
  <2>2. cmd = Cmd("start", Nothing)
    BY <1>1, <1>2, <1>10 DEF PushCmd
  <2>3. cmd.c = "start"
    BY <2>2, ConstantFacts
  <2> HIDE DEF cmd, h
  <2>4. /\ child'.started = (n + 1 = L + 2)
        /\ Len(child'.vcl_head) = LoadedBy(n + 1)
        /\ \A i \in 1 .. LoadedBy(n + 1) : child'.vcl_head[i] = vclhead[i]
        /\ n + 1 > a => child'.vcl_active = active
        /\ child'.vcl_active = Nothing <=> n + 1 = 0
    BY <1>7, <1>10, <2>1, <2>3
  <2> QED
    BY <2>4 DEF PushedTo, LoadedBy, ActiveAt, vclvars
<1>11. CASE n > a /\ n # L + 1
  <2>1. /\ LoadedBy(n) = n - 1 /\ LoadedBy(n + 1) = n /\ n \in 1 .. L /\ n + 1 # L + 2
        /\ n = LoadedBy(n) + 1 /\ n - 1 \in Nat
    BY <1>1, <1>2, <1>11 DEF LoadedBy
  <2>2. cmd = Cmd("load", vclhead[n])
    BY <1>1, <1>2, <1>11 DEF PushCmd
  <2> HIDE DEF cmd, h
  <2>3. /\ child'.started = (n + 1 = L + 2)
        /\ Len(child'.vcl_head) = LoadedBy(n + 1)
        /\ \A i \in 1 .. LoadedBy(n + 1) : child'.vcl_head[i] = vclhead[i]
        /\ n + 1 > a => child'.vcl_active = active
        /\ child'.vcl_active = Nothing <=> n + 1 = 0
    BY <1>1, <1>6, <1>11, <2>1, <2>2
  <2> QED
    BY <2>3 DEF PushedTo, LoadedBy, ActiveAt, vclvars
<1> QED
  BY <1>1, <1>2, <1>8, <1>9, <1>10, <1>11

\* CLI_Run serves the oldest command in the pipe.
LEMMA CliRunStep ==
  ASSUME MgtInv, CLI_Run
  PROVE  MgtInv'
<1>0. TypeOK /\ OneChild /\ NoPanic /\ MgrOK /\ CmdOK /\ PushOK /\ RunOK /\ StopOK /\ GoneOK
  BY DEF MgtInv
<1> DEFINE cmd == Head(req)
<1>1. /\ child.st = "up" /\ cli /\ req # <<>> /\ req' = Tail(req)
      /\ UNCHANGED <<mgr, mgtvars, happened, vclvars, auto_restart>>
  BY DEF CLI_Run
<1>2. PICK o \in Served(cmd) : child' = o[2] /\ rsp' = Append(rsp, o[1])
  BY DEF CLI_Run
<1>3. /\ req \in Seq(Commands) /\ rsp \in Seq(BOOLEAN) /\ cmd \in Commands
      /\ Len(req) \in Nat /\ Len(rsp) \in Nat
      /\ req' \in Seq(Commands) /\ Len(req') = Len(req) - 1
      /\ Len(req) = 1 => req = <<cmd>> /\ req' = <<>>
      /\ rsp = <<>> <=> Len(rsp) = 0
  BY <1>0, <1>1, PipeFacts DEF TypeOK
<1> HIDE DEF cmd
<1>4. /\ o[1] \in BOOLEAN
      /\ ~o[1] => o[2] = child
      /\ o[2] \in [st : {"none", "up", "zombie"}, hung : BOOLEAN, quit : BOOLEAN,
                vcl_head : Seq(Vcl), vcl_active : Vcl \cup {Nothing}, started : BOOLEAN]
      /\ IsInjective(o[2].vcl_head) /\ o[2].vcl_active \in ToSet(o[2].vcl_head) \cup {Nothing}
      /\ o[2].st = child.st /\ o[2].quit = child.quit
      /\ o[1] => /\ o[2].vcl_head = CASE cmd.c = "load" -> Append(child.vcl_head, cmd.v)
                                      [] cmd.c = "discard" -> Unlinked(child.vcl_head, cmd.v)
                                      [] OTHER -> child.vcl_head
                 /\ o[2].vcl_active =
                      IF cmd.c = "use" \/ (cmd.c = "load" /\ child.vcl_active = Nothing)
                      THEN cmd.v ELSE child.vcl_active
                 /\ o[2].started = (child.started \/ cmd.c = "start")
  BY <1>0, <1>2, <1>3, ServedFacts
<1>5. /\ rsp' \in Seq(BOOLEAN) /\ Len(rsp') = Len(rsp) + 1 /\ rsp' # <<>>
      /\ rsp = <<>> => rsp' = <<o[1]>>
  BY <1>2, <1>3, <1>4, AppendFacts
<1>6. Len(req') + Len(rsp') = Len(req) + Len(rsp)
  BY <1>3, <1>5
<1>7. TypeOK'
  BY <1>0, <1>1, <1>2, <1>3, <1>4, <1>5, <1>6 DEF TypeOK, mgtvars, vclvars
<1>8. child'.st = "up" /\ child'.quit = child.quit
  BY <1>1, <1>2, <1>4
<1>9. OneChild'
  BY <1>0, <1>1, <1>8 DEF OneChild, mgtvars, NoChild
<1>10. NoPanic' /\ MgrOK' /\ CmdOK' /\ GoneOK'
  BY <1>0, <1>1, <1>8 DEF NoPanic, MgrOK, CmdOK, CmdFits, NotActive, GoneOK, mgtvars, vclvars
<1>11. CASE child_state = "RUNNING"
  <2>1. child.started /\ child.vcl_active \in Vcl
    BY <1>0, <1>1, <1>11 DEF RunOK
  <2>2. child'.started /\ child'.vcl_active \in Vcl
    BY <1>2, <1>3, <1>4, <2>1, ConstantFacts, MgtChildAssumption
  <2>3. PushOK' /\ StopOK'
    BY <1>1, <1>11, <2>2 DEF PushOK, StopOK, mgtvars
  <2>4. ASSUME InStep', ~child'.quit
        PROVE  IF rsp' = <<>> \/ ~Head(rsp')
               THEN Same(vclhead, active)' /\ (req' # <<>> => req' = <<Head(mgr'.cmds)>>)
               ELSE Same(HeadAfter(Head(mgr.cmds)), ActiveAfter(Head(mgr.cmds)))'
    <3>1. InStep /\ ~child.quit
      BY <1>1, <1>6, <1>8, <2>4 DEF InStep
    <3>2. Len(req) = 1 /\ Len(rsp) = 0 /\ mgr.cmds # <<>>
      <4>1. Len(req) >= 1
        BY <1>1, <1>3, PipeFacts
      <4> QED
        BY <4>1, <1>3, <3>1 DEF InStep
    <3>3. rsp = <<>> /\ req' = <<>> /\ rsp' = <<o[1]>> /\ Head(rsp') = o[1]
      BY <1>3, <1>5, <3>2, OneFacts
    <3>4. Same(vclhead, active) /\ req = <<Head(mgr.cmds)>>
      BY <1>0, <1>1, <1>11, <3>1, <3>3 DEF RunOK
    <3>5. cmd = Head(mgr.cmds)
      BY <3>4 DEF cmd
    <3>6. CASE ~o[1]
      BY <1>1, <1>2, <1>4, <3>3, <3>4, <3>6 DEF Same, vclvars
    <3>7. CASE o[1]
      <4>1. child.vcl_head = vclhead /\ child.vcl_active = active /\ child.vcl_active # Nothing
        BY <2>1, <3>4, MgtChildAssumption DEF Same
      <4>2. child'.vcl_head = HeadAfter(cmd) /\ child'.vcl_active = ActiveAfter(cmd)
        BY <1>2, <1>4, <3>7, <4>1 DEF HeadAfter, ActiveAfter
      <4> QED
        BY <1>1, <2>2, <3>3, <3>5, <3>7, <4>2 DEF Same, HeadAfter, ActiveAfter, vclvars
    <3> QED
      BY <1>4, <3>6, <3>7
  <2>5. mgr'.cmds # <<>> => Len(req') + Len(rsp') >= 1
    BY <1>3, <1>5, <1>6
  <2>6. RunOK'
    BY <2>2, <2>4, <2>5 DEF RunOK
  <2> QED
    BY <1>7, <1>9, <1>10, <2>3, <2>6 DEF MgtInv
<1>12. CASE child_state = "STARTING"
  <2>1. req = <<Head(mgr.cmds)>> /\ rsp = <<>> /\ PushedTo(Answered)
        /\ Answered \in 0 .. Len(vclhead) + 1
        /\ mgr.cmds = [i \in 1 .. Len(vclhead) + 2 - Answered |-> PushCmd(i + Answered)]
    BY <1>0, <1>1, <1>12 DEF PushOK
  <2>2. cmd = Head(mgr.cmds) /\ req' = <<>> /\ rsp' = <<o[1]>>
    BY <1>3, <1>5, <2>1, OneFacts DEF cmd
  <2>3. cmd = PushCmd(Answered + 1)
    <3> DEFINE n == Answered
               k == Len(vclhead) + 2 - n
    <3>1. Len(vclhead) \in Nat /\ n \in 0 .. Len(vclhead) + 1
      BY <1>0, <2>1, PushFacts
    <3>2. k \in Nat /\ k >= 1 /\ 1 \in 1 .. k /\ 1 + n = n + 1
      BY <3>1
    <3> HIDE DEF n, k
    <3>3. mgr.cmds[1] = PushCmd(1 + n)
      BY <2>1, <3>2 DEF n, k
    <3>4. Head(mgr.cmds) = mgr.cmds[1]
      <4>1. mgr.cmds \in Seq(Commands) /\ mgr.cmds # <<>>
        BY <1>0, <1>12 DEF TypeOK, MgrOK
      <4> QED
        BY <4>1, PipeFacts
    <3> QED
      BY <2>2, <3>2, <3>3, <3>4 DEF n
  <2>4. Answered' = Answered /\ UNCHANGED <<mgr, child_state>>
    BY <1>1 DEF Answered, vclvars, mgtvars
  <2>5. /\ ActiveAt' = ActiveAt /\ Len(vclhead') = Len(vclhead)
        /\ \A i : PushCmd(i)' = PushCmd(i)
    BY <1>1 DEF ActiveAt, PushCmd, vclvars
  <2>6. PushOK'
    <3>1. [i \in 1 .. Len(vclhead) + 2 - Answered |-> PushCmd(i + Answered)]'
            = [i \in 1 .. Len(vclhead) + 2 - Answered |-> PushCmd(i + Answered)]
      BY <2>4, <2>5
    <3>2. CASE ~o[1]
      <4>1. rsp' = <<FALSE>> /\ child' = child
        BY <1>2, <1>4, <2>2, <3>2
      <4>2. PushedTo(Answered)'
        BY <1>1, <2>1, <2>4, <4>1 DEF PushedTo, LoadedBy, ActiveAt, vclvars
      <4> QED
        BY <1>0, <1>8, <1>12, <2>1, <2>2, <2>4, <2>5, <3>1, <4>1, <4>2 DEF PushOK
    <3>3. CASE o[1]
      <4>1. rsp' = <<TRUE>>
        BY <1>4, <2>2, <3>3
      <4>2. \A m : m = Answered + 1 => PushedTo(m)'
        BY <1>0, <1>1, <1>2, <2>1, <2>3, <3>3, PushOne
      <4>3. PushedTo(Answered + 1)'
        <5>1. Answered' + 1 = Answered + 1
          BY <2>4
        <5> QED
          BY <4>2, <5>1
      <4> QED
        BY <1>0, <1>8, <1>12, <2>1, <2>2, <2>4, <2>5, <3>1, <4>1, <4>3 DEF PushOK
    <3> QED
      BY <1>4, <3>2, <3>3
  <2>7. RunOK'
    BY <1>12, <2>4 DEF RunOK
  <2>8. StopOK'
    <3>1. active' \in Vcl
      BY <1>7, PushFacts, <1>0, <1>1 DEF vclvars
    <3>2. CASE ~o[1]
      BY <1>0, <1>2, <1>4, <3>2 DEF StopOK
    <3>3. CASE o[1]
      <4>1. \A m : m = Answered + 1 => PushedTo(m)'
        BY <1>0, <1>1, <1>2, <2>1, <2>3, <3>3, PushOne
      <4>2. PICK m : m = Answered + 1
        OBVIOUS
      <4>3. PushedTo(m)'
        BY <4>1, <4>2
      <4>4. child'.started => m = Len(vclhead) + 2
        BY <2>5, <4>3 DEF PushedTo
      <4>5. m = Len(vclhead) + 2 => m > ActiveAt
        BY <1>0, PushFacts
      <4>6. child'.started => child'.vcl_active = active
        BY <1>1, <2>5, <4>3, <4>4, <4>5 DEF PushedTo, vclvars
      <4> QED
        BY <1>1, <3>1, <4>6 DEF StopOK, vclvars
    <3> QED
      BY <1>4, <3>2, <3>3
  <2> QED
    BY <1>7, <1>9, <1>10, <2>6, <2>7, <2>8 DEF MgtInv
<1> QED
  BY <1>0, <1>1, <1>11, <1>12 DEF MgrOK

-----------------------------------------------------------------------------
(* The manager's wait for a reply.                                         *)

\* The reply does not come: a cacher that runs is given up, or the command
\* passed on is forgotten; a push has failed.
LEMMA NoResultStep ==
  ASSUME MgtInv, NoResult
  PROVE  MgtInv'
<1>0. TypeOK /\ OneChild /\ NoPanic /\ MgrOK /\ CmdOK /\ PushOK /\ RunOK /\ StopOK /\ GoneOK
  BY DEF MgtInv
<1>1. /\ mgr.cmds # <<>> /\ rsp = <<>> /\ Refused
      /\ UNCHANGED <<happened, vclvars, auto_restart, req, rsp>>
      /\ IF mgr.op = "pass" THEN UNCHANGED child ELSE MGT_Child_Cli_Fail
  BY DEF NoResult
<1>2. mgr.op \in {"cli", "pass", "push"} /\ mgr # Gone
  BY <1>0, <1>1, MgrCases
<1>3. CASE mgr.op = "push"
  <2>1. child_state = "STARTING" /\ mgr' = Loop /\ mgt_stop_child
    BY <1>0, <1>1, <1>3 DEF MgrOK, Refused
  <2>2. child' = child
    <3>1. child' = [child EXCEPT !.quit = child.quit]
      BY <1>0, <1>1, <1>3, <2>1 DEF MGT_Child_Cli_Fail, TypeOK
    <3> QED
      BY <3>1, <1>0 DEF TypeOK
  <2> QED
    BY <1>0, <1>1, <1>3, <2>1, <2>2, StopStep DEF TypeOK, GoneOK
<1>4. CASE mgr.op \in {"cli", "pass"}
  <2>1. child_state = "RUNNING" /\ mgr' = Loop /\ UNCHANGED mgtvars
    BY <1>0, <1>1, <1>4 DEF MgrOK, Refused
  <2>2. /\ child' \in [st : {"none", "up", "zombie"}, hung : BOOLEAN, quit : BOOLEAN,
                vcl_head : Seq(Vcl), vcl_active : Vcl \cup {Nothing}, started : BOOLEAN]
        /\ child'.st = child.st /\ SamePrograms
        /\ child.st # "up" => child' = child
        /\ child.st = "up" /\ mgr.op = "cli" => child'.quit
        /\ mgr.op = "pass" => child' = child
    <3>1. CASE mgr.op = "pass"
      BY <1>0, <1>1, <3>1 DEF TypeOK, SamePrograms
    <3>2. CASE mgr.op = "cli"
      <4>1. child' = [child EXCEPT !.quit = child.quit \/ child.st = "up"]
        BY <1>1, <2>1, <3>2 DEF MGT_Child_Cli_Fail
      <4>2. child.st # "up" => (child.quit \/ child.st = "up") = child.quit
        BY <1>0 DEF TypeOK
      <4>3. (child.quit \/ child.st = "up") \in BOOLEAN
        OBVIOUS
      <4>4. child.st # "up" => child' = child
        BY <4>1, <4>2, <1>0 DEF TypeOK
      <4> QED
        BY <1>0, <3>2, <4>1, <4>3, <4>4 DEF TypeOK, SamePrograms
    <3> QED
      BY <1>4, <3>1, <3>2
  <2>3. TypeOK'
    BY <1>0, <1>1, <2>1, <2>2, IdleTyped DEF TypeOK, mgtvars, vclvars, SamePrograms
  <2>4. OneChild' /\ NoPanic'
    BY <1>0, <1>2, <2>1, <2>2, ConstantFacts DEF OneChild, NoPanic, mgtvars
  <2>5. MgrOK' /\ CmdOK' /\ PushOK'
    BY <1>0, <1>4, <2>1, ConstantFacts DEF MgrOK, CmdOK, PushOK, mgtvars
  <2>6. GoneOK' /\ StopOK'
    BY <1>0, <1>1, <2>2 DEF GoneOK, StopOK, SamePrograms
  <2>7. RunOK'
    <3>1. ASSUME child'.st = "up" PROVE child'.started /\ child'.vcl_active \in Vcl
      BY <1>0, <2>1, <2>2, <3>1 DEF RunOK, SamePrograms
    <3>2. mgr'.cmds = <<>>
      BY <2>1, ConstantFacts
    <3>3. ASSUME child'.st = "up", InStep', ~child'.quit PROVE FALSE
      <4>1. child' = child /\ child.st = "up"
        BY <1>4, <2>2, <3>3
      <4>2. Len(req) + Len(rsp) >= 1
        BY <1>0, <1>1, <2>1, <4>1 DEF RunOK
      <4>3. Len(req') + Len(rsp') = 0
        BY <3>2, <3>3 DEF InStep
      <4>4. Len(req) \in Nat /\ Len(rsp) \in Nat
        BY <1>0, PipeFacts DEF TypeOK
      <4> QED
        BY <1>1, <4>2, <4>3, <4>4
    <3> QED
      BY <3>1, <3>2, <3>3 DEF RunOK
  <2> QED
    BY <2>3, <2>4, <2>5, <2>6, <2>7 DEF MgtInv
<1> QED
  BY <1>2, <1>3, <1>4

\* A reply to a command of the operator or to a ping.
LEMMA ReplyStep ==
  ASSUME MgtInv, ReadResult, mgr.op # "push"
  PROVE  MgtInv'
<1>0. TypeOK /\ OneChild /\ NoPanic /\ MgrOK /\ CmdOK /\ PushOK /\ RunOK /\ StopOK /\ GoneOK
  BY DEF MgtInv
<1> DEFINE cmd == Head(mgr.cmds)
<1>1. /\ mgr.cmds # <<>> /\ rsp # <<>> /\ rsp' = Tail(rsp)
      /\ UNCHANGED <<happened, auto_restart, child, req, mgtvars>> /\ mgr' = Loop
      /\ \/ ~Head(rsp) /\ UNCHANGED vclvars
         \/ Head(rsp) /\ Accepted(cmd)
  BY DEF ReadResult, Refused
<1>2. mgr.op \in {"cli", "pass"} /\ mgr # Gone /\ child_state = "RUNNING"
  BY <1>0, <1>1, MgrCases DEF MgrOK
<1>3. cmd \in Commands /\ CmdFits(cmd)
  BY <1>0, <1>1, <1>2, PipeFacts DEF TypeOK, CmdOK
<1>4. /\ rsp' \in Seq(BOOLEAN) /\ Len(rsp) \in Nat /\ Len(rsp) >= 1 /\ Len(rsp') = Len(rsp) - 1
      /\ Len(req) \in Nat /\ Head(rsp) \in BOOLEAN
      /\ req = <<>> <=> Len(req) = 0
      /\ rsp' = <<>> <=> Len(rsp') = 0
  <2>1. rsp \in Seq(BOOLEAN) /\ req \in Seq(Commands)
    BY <1>0 DEF TypeOK
  <2>2. rsp' \in Seq(BOOLEAN) /\ Len(rsp) \in Nat /\ Len(rsp) # 0 /\ Len(rsp') = Len(rsp) - 1
        /\ Head(rsp) \in BOOLEAN
    BY <1>1, <2>1, PipeFacts
  <2>3. Len(req) \in Nat /\ (req = <<>> <=> Len(req) = 0)
    BY <2>1, PipeFacts
  <2>4. rsp' = <<>> <=> Len(rsp') = 0
    BY <2>2, PipeFacts
  <2> QED
    BY <2>2, <2>3, <2>4
<1> HIDE DEF cmd
<1>5. /\ vclhead' \in Seq(Vcl) /\ IsInjective(vclhead') /\ active' \in ToSet(vclhead')
      /\ Head(rsp) => vclhead' = HeadAfter(cmd) /\ active' = ActiveAfter(cmd)
      /\ ~Head(rsp) => vclhead' = vclhead /\ active' = active
  BY <1>0, <1>1, <1>3, AcceptFacts DEF TypeOK, vclvars
<1>6. TypeOK'
  <2>1. Len(req') + Len(rsp') <= MaxStale + 1
    <3>1. Len(req) + Len(rsp) <= MaxStale + 1 /\ req' = req /\ MaxStale \in Nat
      BY <1>0, <1>1, MgtChildAssumption DEF TypeOK
    <3> QED
      BY <1>4, <3>1
  <2> QED
    BY <1>0, <1>1, <1>4, <1>5, <2>1, IdleTyped DEF TypeOK, mgtvars
<1>7. OneChild' /\ NoPanic' /\ GoneOK' /\ StopOK'
  BY <1>0, <1>1, <1>2, ConstantFacts DEF OneChild, NoPanic, GoneOK, StopOK, mgtvars
<1>8. MgrOK' /\ CmdOK' /\ PushOK'
  BY <1>0, <1>1, <1>2, ConstantFacts DEF MgrOK, CmdOK, PushOK, mgtvars
<1>9. RunOK'
  <2> SUFFICES ASSUME child.st = "up"
               PROVE  /\ child'.started /\ child'.vcl_active \in Vcl
                      /\ mgr'.cmds # <<>> => Len(req') + Len(rsp') >= 1
                      /\ InStep' /\ ~child'.quit =>
                           IF rsp' = <<>> \/ ~Head(rsp')
                           THEN Same(vclhead, active)' /\ (req' # <<>> => req' = <<Head(mgr'.cmds)>>)
                           ELSE Same(HeadAfter(Head(mgr.cmds)), ActiveAfter(Head(mgr.cmds)))'
    BY <1>1 DEF RunOK
  <2>1. mgr'.cmds = <<>> /\ child' = child /\ child.started /\ child.vcl_active \in Vcl
    BY <1>0, <1>1, <1>2, ConstantFacts DEF RunOK
  <2>2. ASSUME InStep', ~child.quit
        PROVE  rsp' = <<>> /\ req' = <<>> /\ Same(vclhead, active)'
    <3>1. Len(req) + Len(rsp') = 0
      BY <1>1, <2>1, <2>2 DEF InStep
    <3>2. Len(req) = 0 /\ Len(rsp) = 1 /\ rsp' = <<>> /\ req = <<>>
      BY <1>4, <3>1
    <3>3. InStep
      <4>1. Len(req) + Len(rsp) = 1
        BY <3>2
      <4> QED
        BY <1>1, <4>1 DEF InStep
    <3>4. IF ~Head(rsp) THEN Same(vclhead, active) ELSE Same(HeadAfter(cmd), ActiveAfter(cmd))
      BY <1>0, <1>1, <1>2, <2>2, <3>3 DEF RunOK, cmd
    <3>5. child'.started /\ child'.vcl_head = vclhead' /\ child'.vcl_active = active'
      BY <1>4, <1>5, <2>1, <3>4 DEF Same
    <3> QED
      BY <1>1, <3>2, <3>5 DEF Same
  <2> QED
    BY <2>1, <2>2
<1> QED
  BY <1>6, <1>7, <1>8, <1>9 DEF MgtInv

\* How many commands of the push are left.
LEMMA PushArith ==
  ASSUME NEW L \in Nat, NEW n \in 0 .. L + 1, NEW k \in Nat, NEW t, n = L + 2 - k, t = k - 1
  PROVE  /\ n \in Int /\ n + 1 = L + 2 - t
         /\ t = 0 => n + 1 = L + 2
         /\ t # 0 => n + 1 \in 0 .. L + 1
OBVIOUS

\* A reply during the push.
LEMMA PushReplyStep ==
  ASSUME MgtInv, ReadResult, mgr.op = "push"
  PROVE  MgtInv'
<1>0. TypeOK /\ OneChild /\ NoPanic /\ MgrOK /\ CmdOK /\ PushOK /\ RunOK /\ StopOK /\ GoneOK
  BY DEF MgtInv
<1> DEFINE todo == Tail(mgr.cmds)
           n == Answered
           L == Len(vclhead)
<1>1. /\ mgr.cmds # <<>> /\ rsp # <<>> /\ rsp' = Tail(rsp)
      /\ UNCHANGED <<happened, auto_restart, child, vclvars>>
  BY DEF ReadResult
<1>2. child_state = "STARTING" /\ mgr # Gone
  BY <1>0, MgrCases DEF MgrOK
<1>3. /\ rsp' \in Seq(BOOLEAN) /\ Len(rsp) \in Nat /\ Len(rsp) >= 1 /\ Len(rsp') = Len(rsp) - 1
      /\ Len(req) \in Nat /\ Head(rsp) \in BOOLEAN /\ Len(req) + Len(rsp') <= MaxStale
      /\ mgr.cmds \in Seq(Commands) /\ todo \in Seq(Commands) /\ Len(todo) = Len(mgr.cmds) - 1
      /\ Len(mgr.cmds) \in Nat
      /\ todo = <<>> <=> Len(todo) = 0
  <2>1. rsp \in Seq(BOOLEAN) /\ req \in Seq(Commands) /\ mgr.cmds \in Seq(Commands)
        /\ Len(req) + Len(rsp) <= MaxStale + 1
    BY <1>0 DEF TypeOK
  <2>2. /\ rsp' \in Seq(BOOLEAN) /\ Len(rsp) \in Nat /\ Len(rsp) >= 1 /\ Len(rsp') = Len(rsp) - 1
        /\ Len(req) \in Nat /\ Head(rsp) \in BOOLEAN
    BY <1>1, <2>1, PipeFacts
  <2>3. /\ todo \in Seq(Commands) /\ Len(todo) = Len(mgr.cmds) - 1 /\ Len(mgr.cmds) \in Nat
        /\ todo = <<>> <=> Len(todo) = 0
    BY <1>1, <2>1, PipeFacts
  <2> QED
    BY <2>1, <2>2, <2>3, MgtChildAssumption
<1>4. /\ n \in 0 .. L + 1 /\ L \in Nat
      /\ mgr.cmds = [i \in 1 .. L + 2 - n |-> PushCmd(i + n)]
      /\ ~child.quit
      /\ child.st = "up" /\ Head(rsp) => req = <<>> /\ rsp' = <<>> /\ PushedTo(n + 1)
  <2>1. Head(<<FALSE>>) = FALSE /\ Tail(<<TRUE>>) = <<>>
    BY OneFacts
  <2> QED
    BY <1>0, <1>1, <1>2, <2>1, PushFacts DEF PushOK
<1>5. n = L + 2 - Len(mgr.cmds)
  BY DEF Answered
<1>51. n \in 0 .. L + 1 /\ L \in Nat /\ n = L + 2 - Len(mgr.cmds) /\ Len(mgr.cmds) \in Nat
       /\ Len(todo) = Len(mgr.cmds) - 1
  BY <1>3, <1>4, <1>5
<1>52. /\ n \in Int /\ n + 1 = L + 2 - Len(todo)
       /\ Len(todo) = 0 => n + 1 = L + 2
       /\ Len(todo) # 0 => n + 1 \in 0 .. L + 1
  <2>1. PICK t \in Nat : t = Len(todo)
    BY <1>3, PipeFacts
  <2>2. PICK k \in Nat : k = Len(mgr.cmds)
    BY <1>51
  <2>3. L \in Nat /\ n \in 0 .. L + 1 /\ n = L + 2 - k /\ t = k - 1
    BY <1>51, <2>1, <2>2
  <2> HIDE DEF n, L, todo
  <2>4. /\ n \in Int /\ n + 1 = L + 2 - t
        /\ t = 0 => n + 1 = L + 2
        /\ t # 0 => n + 1 \in 0 .. L + 1
    BY <2>3, PushArith
  <2> QED
    BY <2>1, <2>4
<1> HIDE DEF n, todo, L
<1>6. CASE ~Head(rsp) \/ (todo # <<>> /\ child.st # "up")
  <2>1. mgr' = Loop /\ mgt_stop_child /\ req' = req
    BY <1>6 DEF ReadResult, Refused, todo
  <2>2. req' \in Seq(Commands) /\ Len(req') + Len(rsp') <= MaxStale + 1
    BY <1>0, <1>3, <2>1, MgtChildAssumption DEF TypeOK
  <2>3. happened' \in BOOLEAN /\ auto_restart' \in BOOLEAN
    BY <1>0, <1>1 DEF TypeOK
  <2>4. child.st # "up" => req' = <<>>
    BY <1>0, <2>1 DEF GoneOK
  <2> QED
    BY <1>1, <1>2, <1>3, <2>1, <2>2, <2>3, <2>4, StopStep
<1>7. CASE Head(rsp) /\ todo = <<>>
  <2>1. /\ child_state' = "RUNNING" /\ mgr' = Loop
        /\ UNCHANGED <<child_pid, cli, ev_poker, ev_listen, vclvars, req>>
    BY <1>7 DEF ReadResult, todo
  <2>2. TypeOK'
    <3>1. Len(req') + Len(rsp') <= MaxStale + 1
      BY <1>3, <2>1, MgtChildAssumption
    <3> QED
      BY <1>0, <1>1, <1>3, <2>1, <3>1, IdleTyped DEF TypeOK, vclvars
  <2>3. OneChild' /\ NoPanic' /\ MgrOK' /\ CmdOK'
    BY <1>0, <1>1, <1>2, <2>1, ConstantFacts DEF OneChild, NoPanic, MgrOK, CmdOK
  <2>4. GoneOK' /\ StopOK' /\ PushOK'
    BY <1>0, <1>1, <2>1 DEF GoneOK, StopOK, PushOK
  <2>5. RunOK'
    <3> SUFFICES ASSUME child.st = "up"
                 PROVE  /\ child'.started /\ child'.vcl_active \in Vcl
                        /\ mgr'.cmds = <<>>
                        /\ rsp' = <<>> /\ Same(vclhead, active)' /\ req' = <<>>
      BY <1>1 DEF RunOK
    <3>1. PushedTo(L + 2) /\ req = <<>> /\ rsp' = <<>>
      <4>1. n + 1 = L + 2
        <5>1. Len(todo) = 0
          BY <1>3, <1>7
        <5> QED
          BY <1>52, <5>1
      <4> QED
        BY <1>4, <1>7, <4>1
    <3>2. ActiveAt \in 1 .. L /\ active \in Vcl
      BY <1>0, PushFacts DEF L
    <3>3. LoadedBy(L + 2) = L /\ L + 2 > ActiveAt
      BY <1>51, <3>2 DEF LoadedBy, L
    <3>4. child.started /\ child.vcl_active = active
      BY <3>1, <3>3 DEF PushedTo, L
    <3>5. child.vcl_head = vclhead
      <4>1. Len(child.vcl_head) = Len(vclhead) /\ \A i \in 1 .. Len(vclhead) : child.vcl_head[i] = vclhead[i]
        BY <3>1, <3>3 DEF PushedTo, L
      <4>2. child.vcl_head \in Seq(Vcl) /\ vclhead \in Seq(Vcl)
        BY <1>0 DEF TypeOK
      <4> QED
        BY <4>1, <4>2, SameList
    <3> QED
      BY <1>1, <2>1, <3>1, <3>2, <3>4, <3>5, ConstantFacts DEF Same, vclvars
  <2> QED
    BY <2>2, <2>3, <2>4, <2>5 DEF MgtInv
<1>8. CASE Head(rsp) /\ todo # <<>> /\ child.st = "up"
  <2>1. /\ mgr' = [mgr EXCEPT !.cmds = todo] /\ req' = Append(req, Head(todo)) /\ UNCHANGED mgtvars
    BY <1>8 DEF ReadResult, todo
  <2>2. /\ req = <<>> /\ rsp' = <<>> /\ PushedTo(n + 1)
        /\ Head(todo) \in Commands /\ req' = <<Head(todo)>> /\ req' \in Seq(Commands)
        /\ Len(req') = 1 /\ Len(rsp') = 0
    <3>1. req = <<>> /\ rsp' = <<>> /\ PushedTo(n + 1)
      BY <1>4, <1>8
    <3>2. Head(todo) \in Commands
      BY <1>3, <1>8, PipeFacts
    <3>3. req \in Seq(Commands)
      BY <1>0 DEF TypeOK
    <3>4. req' = <<Head(todo)>>
      BY <2>1, <3>1, <3>2, <3>3, AppendFacts
    <3> QED
      BY <3>1, <3>2, <3>4, OneFacts
  <2>3. /\ mgr' \in [op : {"loop", "cli", "pass", "push", "gone", "panic"}, cmds : Seq(Commands)]
        /\ mgr'.op = "push" /\ mgr'.cmds = todo
    BY <1>0, <1>3, <2>1 DEF TypeOK
  <2>4. mgr' # Gone /\ mgr' # Panic
    BY <2>3, ConstantFacts
  <2>5. TypeOK'
    <3>1. Len(req') + Len(rsp') <= MaxStale + 1
      BY <2>2, MgtChildAssumption
    <3> QED
      BY <1>0, <1>1, <1>3, <1>8, <2>1, <2>2, <2>3, <3>1 DEF TypeOK, vclvars, mgtvars
  <2>6. OneChild' /\ NoPanic' /\ MgrOK' /\ CmdOK'
    BY <1>0, <1>1, <1>2, <2>1, <2>3, <2>4 DEF OneChild, NoPanic, MgrOK, CmdOK, mgtvars
  <2>7. GoneOK' /\ StopOK' /\ RunOK'
    BY <1>0, <1>1, <1>2, <1>8, <2>1 DEF GoneOK, StopOK, RunOK, mgtvars
  <2>8. PushOK'
    <3>1. ActiveAt' = ActiveAt /\ Len(vclhead') = L /\ \A i : PushCmd(i)' = PushCmd(i)
      BY <1>1 DEF ActiveAt, PushCmd, vclvars, L
    <3>2. Answered' = n + 1 /\ n + 1 \in 0 .. L + 1 /\ n \in Int
      <4>1. Answered' = L + 2 - Len(todo)
        BY <2>3, <3>1 DEF Answered
      <4>2. Len(todo) # 0
        BY <1>3, <1>8
      <4> QED
        BY <1>52, <4>1, <4>2
    <3>3. todo = [i \in 1 .. L + 2 - (n + 1) |-> PushCmd(i + (n + 1))]
      <4> DEFINE g == [i \in 1 .. L + 2 - (n + 1) |-> PushCmd(i + (n + 1))]
                 k == L + 2 - n
      <4>1. k \in Nat /\ k - 1 = L + 2 - (n + 1) /\ Len(mgr.cmds) = k /\ Len(todo) = k - 1
            /\ k - 1 \in Nat
        BY <1>51, <3>2
      <4>2. \A i \in 1 .. k : mgr.cmds[i] = PushCmd(i + n)
        BY <1>4
      <4>3. \A i \in 1 .. k - 1 : todo[i] = mgr.cmds[i + 1]
        BY <1>1, <1>3, <4>1 DEF todo
      <4>4. \A i \in 1 .. k - 1 : i + 1 \in 1 .. k /\ (i + 1) + n = i + (n + 1)
        BY <3>2, <4>1
      <4>5. \A i \in 1 .. k - 1 : todo[i] = PushCmd(i + (n + 1))
        BY <4>2, <4>3, <4>4
      <4>6. \A i \in 1 .. k - 1 : PushCmd(i + (n + 1)) \in Commands
        BY <1>3, <4>1, <4>5
      <4>7. g \in Seq(Commands) /\ Len(g) = k - 1 /\ \A i \in 1 .. k - 1 : g[i] = PushCmd(i + (n + 1))
        BY <4>1, <4>6
      <4> HIDE DEF g
      <4>8. todo = g
        BY <1>3, <4>1, <4>5, <4>7, SameList
      <4> QED
        BY <4>8 DEF g
    <3>4. \A m : m = n + 1 => PushedTo(m)'
      BY <1>1, <2>2 DEF PushedTo, LoadedBy, ActiveAt, vclvars
    <3>5. PushedTo(Answered)'
      BY <3>2, <3>4
    <3>6. [i \in 1 .. Len(vclhead) + 2 - Answered |-> PushCmd(i + Answered)]'
            = [i \in 1 .. L + 2 - (n + 1) |-> PushCmd(i + (n + 1))]
      BY <3>1, <3>2
    <3> QED
      BY <1>1, <1>4, <2>2, <2>3, <3>1, <3>2, <3>3, <3>5, <3>6 DEF PushOK
  <2> QED
    BY <2>5, <2>6, <2>7, <2>8 DEF MgtInv
<1> QED
  BY <1>3, <1>6, <1>7, <1>8

-----------------------------------------------------------------------------
(* The invariant.                                                          *)

\* The manager starts without a cacher and with the boot program.
LEMMA MgtInit == Init => MgtInv
<1> SUFFICES ASSUME Init PROVE MgtInv
  OBVIOUS
<1>1. /\ NoChild \in [st : {"none", "up", "zombie"}, hung : BOOLEAN, quit : BOOLEAN,
                vcl_head : Seq(Vcl), vcl_active : Vcl \cup {Nothing}, started : BOOLEAN]
      /\ NoChild.quit = FALSE /\ NoChild.started = FALSE /\ NoChild.st = "none"
      /\ NoChild.vcl_head = <<>> /\ NoChild.vcl_active = Nothing
  BY DEF NoChild
<1>2. /\ <<Boot>> \in Seq(Vcl) /\ IsInjective(<<Boot>>) /\ Boot \in ToSet(<<Boot>>)
      /\ IsInjective(<<>>)
  <2>1. <<Boot>> \in Seq(Vcl) /\ DOMAIN <<Boot>> = {1} /\ <<Boot>>[1] = Boot
    BY MgtChildAssumption
  <2> QED
    BY <2>1 DEF IsInjective, ToSet
<1>3. req \in Seq(Commands) /\ rsp \in Seq(BOOLEAN) /\ Len(req) + Len(rsp) <= MaxStale + 1
  BY MgtChildAssumption DEF Init
<1>4. TypeOK
  BY <1>1, <1>2, <1>3, IdleTyped DEF Init, TypeOK
<1>5. OneChild /\ NoPanic /\ MgrOK /\ CmdOK
  BY ConstantFacts DEF Init, OneChild, NoPanic, MgrOK, CmdOK
<1>6. GoneOK /\ RunOK /\ PushOK /\ StopOK
  BY <1>1 DEF Init, GoneOK, RunOK, PushOK, StopOK
<1> QED
  BY <1>4, <1>5, <1>6 DEF MgtInv

\* Every step of the manager and of the cacher preserves it.
LEMMA MgtStep == MgtInv /\ [Next]_vars => MgtInv'
<1> SUFFICES ASSUME MgtInv, [Next]_vars PROVE MgtInv'
  OBVIOUS
<1>1. CASE ReadResult \/ NoResult
  BY <1>1, ReplyStep, PushReplyStep, NoResultStep
<1>2. CASE child_poker \/ mgt_sigchld \/ ServerStart \/ ServerStop \/ mgt_sigint
  BY <1>2, PokerStep, SigchldStep, ServerStep, SigintStep
<1>3. CASE child_listener \/ mcf_param_set \/ UNCHANGED vars
  <2>0. TypeOK
    BY DEF MgtInv
  <2>1. CASE child_listener
    BY <2>0, <2>1, QuietStep DEF child_listener, TypeOK
  <2>2. CASE mcf_param_set
    <3>1. UNCHANGED <<mgr, mgtvars, happened, vclvars, child, req, rsp>> /\ auto_restart' \in BOOLEAN
      BY <2>0, <2>2 DEF mcf_param_set, TypeOK
    <3> QED
      BY <2>0, <3>1, QuietStep DEF mgtvars, TypeOK
  <2>3. CASE UNCHANGED vars
    BY <2>0, <2>3, QuietStep DEF vars, mgtvars, TypeOK
  <2> QED
    BY <1>3, <2>1, <2>2, <2>3
<1>4. ASSUME NEW v \in Vcl, mcf_config_load(v) \/ \E c \in {"use", "discard"} : mcf_config_use_discard(c, v)
      PROVE  MgtInv'
  BY <1>4, LoadStep, UseStep
<1>5. CASE mcf_config_list \/ mcf_askchild
  BY <1>5, ListStep
<1>6. CASE CLI_Run \/ ChildEof \/ ChildKill \/ ChildCrash \/ ChildHang
  BY <1>6, CliRunStep, EndsStep, HangStep DEF ChildEof, ChildKill, ChildCrash
<1> QED
  BY <1>1, <1>2, <1>3, <1>4, <1>5, <1>6 DEF Next, Done

\* So it always holds.
LEMMA MgtAlways == Spec => []MgtInv
<1> QED
  BY MgtInit, MgtStep, PTL DEF Spec

\* However start, stop, crash, SIGCHLD and late replies interleave, the manager
\* never forks a second cacher, never leaves an event of an old one behind and
\* never runs into an assertion (start_child, mgt_sigchld).
THEOREM ManagerCorrect == Spec => []ManagerSound
<1>1. MgtInv => ManagerSound
  BY DEF MgtInv, ManagerSound
<1> QED
  BY <1>1, MgtAlways, PTL

\* Whatever was loaded, used and discarded, and whichever of it failed: when the
\* pipes are silent, a cacher that is not condemned has exactly the manager's
\* programs and its active one.  While a reply that came too late lies in a pipe
\* they are not silent.
THEOREM ProgramsAgree == Spec => []SameVcls
<1>1. MgtInv => SameVcls
  <2> SUFFICES ASSUME MgtInv, mgr = Loop, child_state = "RUNNING", child.st = "up",
                      ~child.quit, req = <<>>, rsp = <<>>
               PROVE  child.vcl_head = vclhead /\ child.vcl_active = active
    BY DEF SameVcls
  <2>1. InStep
    BY ConstantFacts DEF InStep
  <2> QED
    BY <2>1 DEF MgtInv, RunOK, Same
<1> QED
  BY <1>1, MgtAlways, PTL

-----------------------------------------------------------------------------
(* The refinement of Supervisor.                                           *)

\* The refinement mapping.
Serving == IF child.started THEN child.vcl_active ELSE Off
Talking == mgr.cmds # <<>> \/ req # <<>> \/ (child.st = "up" /\ rsp # <<>>) \/ child.quit

\* The moves of Supervisor in terms of the two processes.
LEMMA SupStutter ==
  ASSUME active' = active, Serving' = Serving, Talking' <=> Talking
  PROVE  UNCHANGED Sup!vars
BY DEF Sup!vars, Serving, Talking

\* A conversation begins.
LEMMA SupAsk ==
  ASSUME active' = active, Serving' = Serving, ~Talking, Talking'
  PROVE  Sup!Next
<1>1. Sup!Ask
  BY DEF Sup!Ask, Serving, Talking
<1> QED
  BY <1>1 DEF Sup!Next

\* Without a cacher that serves, the manager chooses.
LEMMA SupChoose ==
  ASSUME active' \in Vcl, Serving' = Serving, Serving = Off, Talking' => Talking
  PROVE  Sup!Next
<1>1. Sup!Choose(active')
  BY DEF Sup!Choose, Serving, Talking
<1> QED
  BY <1>1 DEF Sup!Next

\* The manager notes what it was told.
LEMMA SupNote ==
  ASSUME active' \in Vcl, Serving' = Serving, Serving # Off, Talking,
         ~Talking' => Serving = active'
  PROVE  Sup!Next
<1>1. Sup!Note(active')
  BY DEF Sup!Note, Serving, Talking
<1> QED
  BY <1>1 DEF Sup!Next

\* The cacher opens its ports.
LEMMA SupOpen ==
  ASSUME active' = active, Serving = Off, Serving' = active, Talking, Talking'
  PROVE  Sup!Next
<1>1. Sup!Open
  BY DEF Sup!Open, Serving, Talking
<1> QED
  BY <1>1 DEF Sup!Next

\* The cacher turns to another program.
LEMMA SupTurn ==
  ASSUME active' = active, Serving # Off, Serving' \in Vcl, Talking, Talking'
  PROVE  Sup!Next
<1>1. Sup!Turn(Serving')
  BY DEF Sup!Turn, Serving, Talking
<1> QED
  BY <1>1 DEF Sup!Next

\* The cacher goes.
LEMMA SupDown ==
  ASSUME active' = active, Serving # Off, Serving' = Off
  PROVE  Sup!Next
<1>1. Sup!Down
  BY DEF Sup!Down, Serving, Talking
<1> QED
  BY <1>1 DEF Sup!Next

\* What is on a list of programs is a program.
LEMMA OnList == \A q \in Seq(Vcl) : ToSet(q) \subseteq Vcl
BY DEF ToSet

\* The programs the invariant speaks of.
LEMMA ServingFacts ==
  ASSUME MgtInv
  PROVE  /\ active \in Vcl /\ Off \notin Vcl
         /\ Serving # Off <=> child.started
         /\ child.started => Serving \in Vcl /\ child.st = "up"
         /\ child.st # "up" => Serving = Off
BY PushFacts, MgtChildAssumption DEF MgtInv, StopOK, GoneOK, Serving

\* A step of the manager alone.
LEMMA SupManager ==
  ASSUME MgtInv, MgtInv', child' = child, active' = active, Talking' => Talking \/ mgr.cmds = <<>>,
         Talking /\ ~Talking' => Serving = Off \/ Serving = active
  PROVE  Sup!Next \/ UNCHANGED Sup!vars
<1>1. Serving' = Serving /\ active' \in Vcl
  BY ServingFacts DEF Serving
<1>2. CASE Talking' <=> Talking
  BY <1>1, <1>2, SupStutter
<1>3. CASE Talking' /\ ~Talking
  BY <1>1, <1>3, SupAsk
<1>4. CASE ~Talking' /\ Talking
  BY <1>1, <1>4, SupChoose, SupNote
<1> QED
  BY <1>2, <1>3, <1>4

\* A reply is read, or none comes.
LEMMA SupReply ==
  ASSUME MgtInv, MgtInv', ReadResult \/ NoResult
  PROVE  Sup!Next \/ UNCHANGED Sup!vars
<1>0. TypeOK /\ MgrOK /\ RunOK /\ GoneOK /\ PushOK /\ RunOK'
  BY DEF MgtInv
<1>1. Talking /\ mgr.cmds # <<>>
  BY DEF ReadResult, NoResult, Talking
<1>2. Serving' = Serving /\ child'.st = child.st /\ child'.started = child.started
  <2>1. CASE child' = child
    BY <2>1 DEF Serving
  <2>2. CASE MGT_Child_Cli_Fail
    BY <2>2, <1>0 DEF MGT_Child_Cli_Fail, Serving, TypeOK
  <2> QED
    BY <2>1, <2>2 DEF ReadResult, NoResult
<1>3. active \in Vcl /\ active' \in Vcl
  BY OnList DEF MgtInv, TypeOK
<1>4. CASE Serving = Off
  BY <1>1, <1>2, <1>3, <1>4, SupChoose
<1>5. CASE Serving # Off
  <2>1. child.started /\ child.st = "up"
    BY <1>5, ServingFacts
  <2>2. ASSUME ~Talking' PROVE Serving = active'
    <3>1. mgr'.cmds = <<>> /\ req' = <<>> /\ rsp' = <<>> /\ ~child'.quit
      BY <1>2, <2>1, <2>2 DEF Talking
    <3>2. CASE child_state' = "RUNNING"
      <4>1. InStep'
        BY <3>1 DEF InStep
      <4>2. Same(vclhead, active)'
        BY <1>0, <1>2, <2>1, <3>1, <3>2, <4>1 DEF RunOK
      <4> QED
        BY <1>2, <2>1, <4>2 DEF Same, Serving
    <3>3. CASE child_state' # "RUNNING"
      <4>1. mgr.op = "push" /\ child_state = "STARTING" /\ Refused
        <5>1. mgr.op = "push"
          <6>1. CASE mgr.op \in {"cli", "pass"}
            <7>1. child_state = "RUNNING" /\ child_state' = child_state
              BY <1>0, <6>1 DEF MgrOK, ReadResult, NoResult, Refused, mgtvars
            <7> QED
              BY <7>1, <3>3
          <6> QED
            BY <1>0, <1>1, <6>1, MgrCases
        <5>2. ASSUME NoResult PROVE Refused
          BY <5>2 DEF NoResult
        <5>3. ASSUME ReadResult PROVE Refused
          <6> DEFINE todo == Tail(mgr.cmds)
          <6>2. CASE mgr' = [mgr EXCEPT !.cmds = todo] /\ todo # <<>>
            <7>1. mgr'.cmds = todo
              BY <1>0, <6>2 DEF TypeOK
            <7> QED
              BY <6>2, <7>1, <3>1
          <6> QED
            BY <3>3, <5>1, <5>3, <6>2, <2>1 DEF ReadResult
        <5> QED
          BY <1>0, <5>1, <5>2, <5>3 DEF MgrOK
      <4>2. rsp = <<TRUE>> /\ req = <<>>
        <5>1. PushedTo(Answered) => ~child.started
          <6>1. Answered \in 0 .. Len(vclhead) + 1 /\ Len(vclhead) \in Nat
            BY <1>0, <4>1, PushFacts DEF PushOK
          <6>2. Answered # Len(vclhead) + 2
            BY <6>1
          <6> QED
            BY <6>2 DEF PushedTo
        <5> QED
          BY <1>0, <2>1, <4>1, <5>1 DEF PushOK
      <4>3. Head(rsp) = TRUE
        BY <4>2, OneFacts
      <4>4. ReadResult
        BY <4>2, OneFacts DEF NoResult
      <4>5. Tail(mgr.cmds) # <<>> /\ child.st # "up"
        <5>1. CASE mgr' = [mgr EXCEPT !.cmds = Tail(mgr.cmds)] /\ Tail(mgr.cmds) # <<>>
          <6>1. mgr'.cmds = Tail(mgr.cmds)
            BY <1>0, <5>1 DEF TypeOK
          <6> QED
            BY <5>1, <6>1, <3>1
        <5> QED
          BY <3>3, <4>1, <4>3, <4>4, <5>1, <2>1 DEF ReadResult
      <4> QED
        BY <2>1, <4>5
    <3> QED
      BY <3>2, <3>3
  <2> QED
    BY <1>1, <1>2, <1>3, <1>5, <2>2, SupNote
<1> QED
  BY <1>4, <1>5

\* A command is sent, or cannot be.
LEMMA SupSend ==
  ASSUME MgtInv, MgtInv', mgr = Loop, NEW op, NEW cmd, Ask(op, cmd)
  PROVE  Sup!Next \/ UNCHANGED Sup!vars
<1>1. UNCHANGED <<child, vclvars, rsp>>
  BY DEF Ask
<1>2. active' = active /\ child' = child
  BY <1>1 DEF vclvars
<1>3. CASE UNCHANGED <<mgr, req>>
  <2>1. Talking' <=> Talking
    BY <1>1, <1>3 DEF Talking
  <2> QED
    BY <1>2, <2>1, SupManager
<1>4. CASE mgr' = [op |-> op, cmds |-> <<cmd>>]
  <2>1. Talking'
    BY <1>4 DEF Talking
  <2>2. mgr.cmds = <<>>
    BY ConstantFacts
  <2> QED
    BY <1>2, <2>1, <2>2, SupManager
<1> QED
  BY <1>3, <1>4 DEF Ask

\* The cacher serves a command.
LEMMA SupServe ==
  ASSUME MgtInv, MgtInv', CLI_Run
  PROVE  Sup!Next \/ UNCHANGED Sup!vars
<1>0. TypeOK /\ MgrOK /\ RunOK /\ GoneOK /\ PushOK
  BY DEF MgtInv
<1>1. PICK o \in Served(Head(req)) : child' = o[2] /\ rsp' = Append(rsp, o[1])
  BY DEF CLI_Run
<1>2. /\ child.st = "up" /\ cli /\ req # <<>>
      /\ UNCHANGED <<mgr, mgtvars, vclvars>>
  BY DEF CLI_Run
<1>3. Head(req) \in Commands /\ rsp \in Seq(BOOLEAN)
  BY <1>0, <1>2, PipeFacts DEF TypeOK
<1>4. /\ o[1] \in BOOLEAN /\ o[2].st = child.st
      /\ ~o[1] => o[2] = child
      /\ o[1] => o[2].started = (child.started \/ Head(req).c = "start")
  BY <1>0, <1>1, <1>3, ServedFacts
<1>5. Talking /\ Talking'
  <2>1. rsp' # <<>>
    BY <1>1, <1>3, <1>4, AppendFacts
  <2> QED
    BY <1>1, <1>2, <1>4, <2>1 DEF Talking
<1>6. active' = active
  BY <1>2 DEF vclvars
<1>7. CASE child.started
  <2>1. child'.started
    BY <1>1, <1>4, <1>7
  <2>2. Serving # Off /\ Serving' \in Vcl
    BY <1>7, <2>1, ServingFacts DEF MgtInv, StopOK, Serving
  <2> QED
    BY <1>5, <1>6, <2>2, SupTurn
<1>8. CASE ~child.started /\ ~child'.started
  BY <1>5, <1>6, <1>8, SupStutter DEF Serving
<1>9. CASE ~child.started /\ child'.started
  <2>1. child_state = "STARTING"
    BY <1>0, <1>2, <1>9 DEF MgrOK, RunOK
  <2>2. child_state' = "STARTING" /\ child'.st = "up" /\ rsp' # <<>>
    BY <1>1, <1>2, <1>3, <1>4, <2>1, AppendFacts DEF mgtvars
  <2>3. PushOK' /\ TypeOK'
    BY DEF MgtInv
  <2>4. /\ Answered' \in 0 .. Len(vclhead') + 1 /\ Len(vclhead') \in Nat
        /\ ActiveAt' \in 1 .. Len(vclhead')
        /\ (PushedTo(Answered)' \/ PushedTo(Answered + 1)')
    BY <2>2, <2>3, PushFacts, <1>2, <1>0 DEF PushOK, vclvars, ActiveAt
  <2>5. child'.vcl_active = active'
    <3>1. ~PushedTo(Answered)'
      <4>1. Answered' # Len(vclhead') + 2
        BY <2>4
      <4> QED
        BY <1>9, <4>1 DEF PushedTo
    <3>2. PushedTo(Answered + 1)'
      BY <2>4, <3>1
    <3>3. Answered' + 1 = Len(vclhead') + 2
      BY <1>9, <3>2 DEF PushedTo
    <3>4. Answered' + 1 > ActiveAt'
      <4>1. ASSUME NEW n \in Nat, NEW i \in 1 .. n, NEW m, m = n + 2 PROVE m > i
        BY <4>1
      <4> QED
        BY <2>4, <3>3, <4>1
    <3> QED
      BY <3>2, <3>4 DEF PushedTo
  <2>6. Serving = Off /\ Serving' = active
    BY <1>6, <1>9, <2>5 DEF Serving
  <2> QED
    BY <1>5, <1>6, <2>6, SupOpen
<1> QED
  BY <1>7, <1>8, <1>9

\* The process ends.
LEMMA SupEnds ==
  ASSUME MgtInv, MgtInv', child.st = "up", Ends
  PROVE  Sup!Next \/ UNCHANGED Sup!vars
<1>1. NoChild.started = FALSE /\ NoChild.quit = FALSE
  BY DEF NoChild
<1>2. child' = [NoChild EXCEPT !.st = IF mgr = Gone THEN "none" ELSE "zombie"]
      /\ req' = <<>> /\ UNCHANGED <<mgr, vclvars>>
  BY DEF Ends, Dead
<1>3. child'.started = FALSE /\ child'.quit = FALSE /\ child'.st # "up"
  BY <1>2 DEF NoChild
<1>4. Serving' = Off /\ active' = active /\ (Talking' => Talking)
  BY <1>2, <1>3 DEF Serving, Talking, vclvars
<1>5. active' \in Vcl
  BY <1>4, ServingFacts
<1> QED
  BY <1>4, <1>5, SupDown, SupChoose

\* A cacher is started, waited for or not started.
LEMMA SupStart ==
  ASSUME MgtInv, MgtInv', mgr = Loop, child.st # "up", UNCHANGED vclvars,
         child'.started = FALSE, child'.quit = FALSE,
         (mgr'.cmds # <<>>) \/ (mgr' = mgr /\ req' = req /\ child'.st # "up")
  PROVE  Sup!Next \/ UNCHANGED Sup!vars
<1>1. req = <<>> /\ ~child.quit /\ ~child.started /\ mgr.cmds = <<>>
  BY ConstantFacts DEF MgtInv, GoneOK
<1>2. ~Talking /\ Serving = Off /\ Serving' = Off /\ active' = active
  BY <1>1 DEF Talking, Serving, vclvars
<1>3. CASE mgr'.cmds # <<>>
  BY <1>2, <1>3, SupAsk DEF Talking
<1>4. CASE mgr' = mgr /\ req' = req /\ child'.st # "up"
  BY <1>1, <1>2, <1>4, SupStutter DEF Talking
<1> QED
  BY <1>3, <1>4

\* start_child() in terms of that.
LEMMA SupForks ==
  ASSUME MgtInv, MgtInv', mgr = Loop, child.st # "up", UNCHANGED vclvars, start_child(FALSE, FALSE)
  PROVE  Sup!Next \/ UNCHANGED Sup!vars
<1>1. CASE child_state' = "STOPPED"
  <2>1. mgr' = Loop /\ child' = NoChild /\ req' = req
    BY <1>1 DEF start_child
  <2> QED
    BY <2>1, SupStart DEF NoChild
<1>2. CASE child_state' = "STARTING"
  <2>1. child' = NewChild
    BY <1>2 DEF start_child
  <2>2. child'.started = FALSE /\ child'.quit = FALSE
    BY <2>1 DEF NewChild, NoChild
  <2>3. mgr'.cmds # <<>>
    BY <1>2, MgrCases DEF MgtInv, MgrOK, TypeOK
  <2> QED
    BY <2>2, <2>3, SupStart
<1> QED
  BY <1>1, <1>2 DEF start_child

\* Every step of the two processes is a step of the supervisor or none.
LEMMA SupStep == MgtInv /\ MgtInv' /\ [Next]_vars => [Sup!Next]_(Sup!vars)
<1> SUFFICES ASSUME MgtInv, MgtInv', [Next]_vars PROVE Sup!Next \/ UNCHANGED Sup!vars
  OBVIOUS
<1>0. OneChild /\ TypeOK
  BY DEF MgtInv
<1>1. CASE ReadResult \/ NoResult
  BY <1>1, SupReply
<1>2. CASE child_poker
  <2>1. mgr = Loop /\ Ask("cli", Ping)
    BY <1>2, ConstantFacts DEF child_poker, MgtInv, NoPanic, MgrOK
  <2> QED
    BY <2>1, SupSend
<1>3. CASE mcf_config_list \/ mcf_askchild
  BY <1>3, SupSend DEF mcf_config_list, mcf_askchild
<1>4. CASE child_listener \/ mcf_param_set \/ ServerStop \/ UNCHANGED vars \/ Done
  <2>1. UNCHANGED <<mgr, active, child, req, rsp>>
    BY <1>4 DEF child_listener, mcf_param_set, ServerStop, vars, Done, vclvars
  <2> QED
    BY <2>1, SupStutter DEF Serving, Talking
<1>5. CASE mgt_sigchld
  <2>1. CASE child.st # "zombie"
    <3>1. UNCHANGED <<mgr, active, child, req, rsp>>
      BY <1>5, <2>1 DEF mgt_sigchld, vclvars
    <3> QED
      BY <3>1, SupStutter DEF Serving, Talking
  <2>2. CASE child.st = "zombie" /\ start_child(FALSE, FALSE)
    BY <1>5, <2>2, SupForks DEF mgt_sigchld
  <2>3. CASE child.st = "zombie" /\ child' = NoChild /\ UNCHANGED <<mgr, req, rsp>>
    BY <1>5, <2>3, SupStart DEF mgt_sigchld, NoChild
  <2> QED
    BY <1>5, <2>1, <2>2, <2>3 DEF mgt_sigchld
<1>6. CASE ServerStart
  <2>1. ev_listen = FALSE /\ ev_poker = FALSE /\ child = NoChild
    BY <1>0, <1>6 DEF OneChild, ServerStart, TypeOK
  <2>2. child.st # "up"
    BY <2>1 DEF NoChild
  <2> QED
    BY <1>6, <2>1, <2>2, SupForks DEF ServerStart
<1>7. CASE mgt_sigint
  <2>1. /\ mgr.cmds = <<>> /\ mgr'.cmds = <<>> /\ UNCHANGED <<active, child, req, rsp>>
    BY <1>7, ConstantFacts DEF mgt_sigint, vclvars
  <2> QED
    BY <2>1, SupStutter DEF Serving, Talking
<1>8. ASSUME NEW c, NEW v, mgr = Loop,
             \/ child_pid /\ Ask("cli", Cmd(c, v))
             \/ /\ ~child_pid
                /\ UNCHANGED <<mgr, mgtvars, auto_restart, child, req, rsp>>
             \/ UNCHANGED <<mgr, mgtvars, vclvars, auto_restart, child, req, rsp>>
      PROVE  Sup!Next \/ UNCHANGED Sup!vars
  <2>1. CASE child_pid /\ Ask("cli", Cmd(c, v))
    BY <1>8, <2>1, SupSend
  <2>2. CASE ~child_pid /\ UNCHANGED <<mgr, mgtvars, auto_restart, child, req, rsp>>
    <3>1. child = NoChild
      BY <1>0, <1>8, <2>2, ConstantFacts DEF OneChild
    <3>2. Serving = Off /\ Serving' = Serving /\ (Talking' => Talking)
      BY <2>2, <3>1 DEF Serving, Talking, NoChild
    <3>3. active' \in Vcl
      BY OnList DEF MgtInv, TypeOK
    <3> QED
      BY <3>2, <3>3, SupChoose
  <2>3. CASE UNCHANGED <<mgr, mgtvars, vclvars, auto_restart, child, req, rsp>>
    BY <2>3, SupStutter DEF Serving, Talking, vclvars
  <2> QED
    BY <1>8, <2>1, <2>2, <2>3
<1>9. CASE \E v \in Vcl : \/ mcf_config_load(v)
                          \/ \E c \in {"use", "discard"} : mcf_config_use_discard(c, v)
  BY <1>8, <1>9 DEF mcf_config_load, mcf_config_use_discard
<1>10. CASE CLI_Run
  BY <1>10, SupServe
<1>11. CASE ChildEof \/ ChildKill \/ ChildCrash
  BY <1>11, SupEnds DEF ChildEof, ChildKill, ChildCrash
<1>12. CASE ChildHang
  <2>1. child'.started = child.started /\ child'.vcl_active = child.vcl_active
        /\ child'.st = child.st /\ child'.quit = child.quit
        /\ UNCHANGED <<mgr, active, req, rsp>>
    BY <1>0, <1>12 DEF ChildHang, TypeOK, vclvars
  <2> QED
    BY <2>1, SupStutter DEF Serving, Talking
<1> QED
  BY <1>1, <1>2, <1>3, <1>4, <1>5, <1>6, <1>7, <1>9, <1>10, <1>11, <1>12 DEF Next

\* The manager and the cacher implement Supervisor: ports are opened with the
\* chosen program only, and the served and the chosen program differ only while
\* a conversation is under way, for any number of programs and late replies.
THEOREM SupervisorImplemented == Spec => Supervises
<1>1. Init => Sup!Init
  BY ConstantFacts, MgtChildAssumption DEF Init, Sup!Init, NoChild
<1>2. MgtInv /\ MgtInv' /\ [Next]_vars => [Sup!Next]_(Sup!vars)
  BY SupStep
<1> QED
  BY <1>1, <1>2, MgtAlways, PTL DEF Spec, Supervises, Sup!Spec
=============================================================================
