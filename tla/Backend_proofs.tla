--------------------------- MODULE Backend_proofs ---------------------------
(***************************************************************************)
(* That VCLs and the backend they share are counted, and neither is freed  *)
(* in use, for any number of VCLs, threads, sessions and connections.      *)
(***************************************************************************)
EXTENDS Backend, FiniteSetTheorems, TLAPS

\* What the CLI thread knows of the VCL it works on.
Ending == {"remove", "cancel", "join", "dropref", "unlink"}
CliOK ==
  /\ cli.pc \in {"idle", "poll", "cmd"} <=> cli.v = None
  /\ cli.pc \in {"addref", "insert", "link"} => vstate[cli.v] = "none"
  /\ cli.pc \in {"addref", "insert", "dropref"} => uses[cli.v] # "nothing"
  /\ cli.pc \in {"usehealth", "remove", "cancel", "join"} => uses[cli.v] = "probe"
  /\ cli.pc = "usehealth" => active = cli.v
  /\ cli.pc \in Ending \cup {"discard"} => vstate[cli.v] = "discarded"

\* A program that is not loaded uses nothing.
UsesOK == \A v \in Vcl : vstate[v] = "none" /\ cli.v # v => uses[v] = "nothing"

\* The first VCL becomes active and something stays active.
ActiveOK ==
  /\ ActiveIsAvailable
  /\ active = None => \A v \in Vcl : vstate[v] = "none"

\* Which pointers a session has in which step.
SessOK == \A s \in Sess :
  /\ spc[s] \in {"idle", "rel", "get"} <=> svcl[s] = None
  /\ spc[s] \in {"idle", "parked"} <=> sw[s] = None
  /\ spc[s] \in {"check", "connect", "have"} <=> vbc[s] # None
  /\ spc[s] \in {"get", "done"} => wvcl[sw[s]] = None
  /\ spc[s] = "rel" => wvcl[sw[s]] # None
  /\ spc[s] \in {"rel", "get"} => active # None
  /\ spc[s] \in {"getvbe", "check", "open", "try", "connect", "have"} => uses[svcl[s]] # "nothing"

\* A thread runs one session at a time.
OneSession == \A s, t \in Sess : sw[s] = sw[t] /\ sw[s] # None => s = t

VclInv ==
  /\ TypeOK /\ CliOK /\ UsesOK /\ ActiveOK /\ SessOK /\ OneSession
  /\ VclBusy /\ HeldVclStays

\* The backend is alive as long as a VCL refers to it, unless a count was lost.
AliveOK == raced \/ (balive <=> RefHolders # {})

\* Between the load and the store of b->refcount++ nobody frees the backend,
\* for only the CLI thread does.
AddRefOK == cli.pc = "addref" => balive

\* A connection is idle or one session's.
ConnOK == \A s \in Sess : vbc[s] # None =>
  /\ vbc[s] \notin connlist
  /\ \A t \in Sess : vbc[t] = vbc[s] => t = s

Counts ==
  /\ raced \/ refcount = Cardinality(RefHolders) + Cardinality(Users)
  /\ balive => n_conn = Cardinality(connlist) + Cardinality(Users)

NoPanic == raced \/ panic \notin {"last_ref", "no_ref", "freed"}

BackInv == AliveOK /\ AddRefOK /\ ConnOK /\ Counts /\ NoPanic

\* The VCLs whose probes are on the list: those that are loaded, or far enough
\* in loading, and not far in unloading.
Probed ==
  {v \in Probing : \/ vstate[v] # "none"
                      /\ ~(cli.v = v /\ cli.pc \in {"cancel", "join", "dropref", "unlink"})
                   \/ cli.v = v /\ cli.pc = "link"}

NoDup(q) == \A i, k \in DOMAIN q : q[i] = q[k] => i = k

ProbesOK ==
  /\ Elems(pvcls) = Probed
  /\ NoDup(pvcls)
  /\ active \in Probing /\ cli.pc # "usehealth" => pvcls # <<>> /\ Head(pvcls) = active
  /\ cli.pc \in {"cancel", "join"} => probe.pc # "none" /\ pvcls = <<>>

ProbeInv == ProbesOK /\ JoinEnds /\ UnprobedIsHealthy

Inv == VclInv /\ BackInv /\ ProbeInv

-----------------------------------------------------------------------------
(* Counting.                                                               *)

LEMMA SmallInts == 0 \in Int /\ 1 \in Int
  OBVIOUS

\* Two sets that differ at most in x.
LEMMA CardChange ==
  ASSUME NEW S, IsFiniteSet(S), NEW A \in SUBSET S, NEW B \in SUBSET S,
         NEW x \in S, \A y \in S : y # x => (y \in A <=> y \in B)
  PROVE  /\ Cardinality(A) \in Nat /\ Cardinality(B) \in Nat
         /\ Cardinality(B) = Cardinality(A) + (IF x \in B THEN 1 ELSE 0)
                                           - (IF x \in A THEN 1 ELSE 0)
<1>1. IsFiniteSet(A) /\ IsFiniteSet(B) /\ Cardinality(A) \in Nat /\ Cardinality(B) \in Nat
  BY FS_Subset, FS_CardinalityType
<1>2. CASE x \in A /\ x \notin B
  <2>1. B = A \ {x}
    BY <1>2
  <2> QED
    BY <2>1, <1>1, <1>2, FS_RemoveElement
<1>3. CASE x \notin A /\ x \in B
  <2>1. B = A \cup {x}
    BY <1>3
  <2> QED
    BY <2>1, <1>1, <1>3, FS_AddElement
<1>4. CASE x \in A <=> x \in B
  <2>1. A = B
    BY <1>4
  <2> QED
    BY <2>1, <1>1, <1>4
<1> QED
  BY <1>2, <1>3, <1>4

\* The sets that are counted are finite, and empty when their count is zero.
LEMMA Finite ==
  ASSUME TypeOK
  PROVE  /\ \A v \in Vcl : /\ Cardinality(LentTo(v)) \in Nat
                           /\ Cardinality(CachedBy(v)) \in Nat
                           /\ Cardinality(LentTo(v)) = 0 <=> LentTo(v) = {}
                           /\ Cardinality(CachedBy(v)) = 0 <=> CachedBy(v) = {}
         /\ Cardinality(RefHolders) \in Nat
         /\ Cardinality(RefHolders) = 0 <=> RefHolders = {}
         /\ Cardinality(Users) \in Nat
         /\ Cardinality(Users) = 0 <=> Users = {}
         /\ Cardinality(connlist) \in Nat
<1>1. /\ \A v \in Vcl : LentTo(v) \subseteq Sess /\ CachedBy(v) \subseteq Worker
      /\ RefHolders \subseteq Vcl /\ Users \subseteq Sess /\ connlist \subseteq Conn
  BY DEF LentTo, CachedBy, RefHolders, Declaring, Users, TypeOK
<1>2. \A S, T : IsFiniteSet(S) /\ T \subseteq S
                  => Cardinality(T) \in Nat /\ (Cardinality(T) = 0 <=> T = {})
  BY FS_Subset, FS_CardinalityType, FS_EmptySet
<1> QED
  BY <1>1, <1>2, BackendAssumption

\* A session gets or loses its VCL.
LEMMA LentMoves ==
  ASSUME NEW s \in Sess, \A t \in Sess : t # s => svcl'[t] = svcl[t], NEW v \in Vcl
  PROVE  Cardinality(LentTo(v)') = Cardinality(LentTo(v))
           + (IF svcl'[s] = v THEN 1 ELSE 0) - (IF svcl[s] = v THEN 1 ELSE 0)
<1>1. LentTo(v) \in SUBSET Sess /\ LentTo(v)' \in SUBSET Sess
  BY DEF LentTo
<1>2. \A t \in Sess : t # s => (t \in LentTo(v) <=> t \in LentTo(v)')
  BY DEF LentTo
<1>3. (s \in LentTo(v)' <=> svcl'[s] = v) /\ (s \in LentTo(v) <=> svcl[s] = v)
  BY DEF LentTo
<1> HIDE DEF LentTo
<1> QED
  BY <1>1, <1>2, <1>3, BackendAssumption, CardChange

\* A thread gets or loses its VCL.
LEMMA CachedMoves ==
  ASSUME NEW w \in Worker, \A x \in Worker : x # w => wvcl'[x] = wvcl[x], NEW v \in Vcl
  PROVE  Cardinality(CachedBy(v)') = Cardinality(CachedBy(v))
           + (IF wvcl'[w] = v THEN 1 ELSE 0) - (IF wvcl[w] = v THEN 1 ELSE 0)
<1>1. CachedBy(v) \in SUBSET Worker /\ CachedBy(v)' \in SUBSET Worker
  BY DEF CachedBy
<1>2. \A x \in Worker : x # w => (x \in CachedBy(v) <=> x \in CachedBy(v)')
  BY DEF CachedBy
<1>3. (w \in CachedBy(v)' <=> wvcl'[w] = v) /\ (w \in CachedBy(v) <=> wvcl[w] = v)
  BY DEF CachedBy
<1> HIDE DEF CachedBy
<1> QED
  BY <1>1, <1>2, <1>3, BackendAssumption, CardChange

\* A session gets or loses its connection.
LEMMA UsersMove ==
  ASSUME NEW s \in Sess, \A t \in Sess : t # s => vbc'[t] = vbc[t]
  PROVE  Cardinality(Users') = Cardinality(Users)
           + (IF vbc'[s] # None THEN 1 ELSE 0) - (IF vbc[s] # None THEN 1 ELSE 0)
<1>1. Users \in SUBSET Sess /\ Users' \in SUBSET Sess
  BY DEF Users
<1>2. \A t \in Sess : t # s => (t \in Users <=> t \in Users')
  BY DEF Users
<1>3. (s \in Users' <=> vbc'[s] # None) /\ (s \in Users <=> vbc[s] # None)
  BY DEF Users
<1> HIDE DEF Users
<1> QED
  BY <1>1, <1>2, <1>3, BackendAssumption, CardChange

\* One VCL gets or drops its reference.
LEMMA HoldersMove ==
  ASSUME NEW v \in Vcl, \A u \in Vcl : u # v => (u \in RefHolders <=> u \in RefHolders')
  PROVE  Cardinality(RefHolders') = Cardinality(RefHolders)
           + (IF v \in RefHolders' THEN 1 ELSE 0) - (IF v \in RefHolders THEN 1 ELSE 0)
<1>1. RefHolders \in SUBSET Vcl /\ RefHolders' \in SUBSET Vcl
  BY DEF RefHolders, Declaring
<1> HIDE DEF RefHolders
<1> QED
  BY <1>1, BackendAssumption, CardChange

\* A connection is put on or taken off the list of idle ones.
LEMMA ConnMoves ==
  ASSUME TypeOK, TypeOK', NEW c \in Conn, \A d \in Conn : d # c => (d \in connlist <=> d \in connlist')
  PROVE  Cardinality(connlist') = Cardinality(connlist)
           + (IF c \in connlist' THEN 1 ELSE 0) - (IF c \in connlist THEN 1 ELSE 0)
<1>1. connlist \in SUBSET Conn /\ connlist' \in SUBSET Conn
  BY DEF TypeOK
<1> QED
  BY <1>1, BackendAssumption, CardChange

-----------------------------------------------------------------------------
(* What a step leaves alone.                                               *)

\* Sessions do not touch what the CLI thread and the probing thread share.
LEMMA SessionFrame ==
  ASSUME Inv, UNCHANGED <<vstate, uses, active, probeVars, cli>>
  PROVE  ProbeInv' /\ CliOK' /\ UsesOK' /\ ActiveOK'
  BY DEF Inv, VclInv, ProbeInv, ProbesOK, JoinEnds, UnprobedIsHealthy, Probed, Probing,
         CliOK, UsesOK, ActiveOK, ActiveIsAvailable, probeVars

\* The use of VCLs does not touch the backend.
LEMMA BackFrame ==
  ASSUME Inv, UNCHANGED <<beVars, vbc>>, RefHolders' = RefHolders,
         cli'.pc # "addref" \/ UNCHANGED cli,
         panic' \in {None, "no_vcl"} \/ UNCHANGED panic
  PROVE  BackInv'
<1>1. AliveOK' /\ AddRefOK' /\ ConnOK' /\ Counts'
  BY DEF Inv, BackInv, AliveOK, AddRefOK, ConnOK, Counts, Users, beVars
<1>2. NoPanic'
  BY BackendAssumption DEF Inv, BackInv, NoPanic, Panics, beVars
<1> QED
  BY <1>1, <1>2 DEF BackInv

\* The same with the VCLs and the CLI thread at rest.
LEMMA BackFrame2 ==
  ASSUME Inv, UNCHANGED <<vstate, uses, cli, beVars, vbc>>,
         panic' \in {None, "no_vcl"} \/ UNCHANGED panic
  PROVE  BackInv'
<1>1. RefHolders' = RefHolders
  BY DEF RefHolders, Declaring
<1> QED
  BY <1>1, BackFrame

\* The use of connections does not touch the VCLs' references.
LEMMA VclFrame ==
  ASSUME Inv, TypeOK', SessOK', UNCHANGED <<vclVars, probeVars, cli, wvcl, sw, svcl>>
  PROVE  VclInv' /\ ProbeInv'
<1>1. ProbeInv' /\ CliOK' /\ UsesOK' /\ ActiveOK'
  BY SessionFrame DEF vclVars
<1>2. OneSession' /\ VclBusy' /\ HeldVclStays'
  BY DEF Inv, VclInv, OneSession, VclBusy, HeldVclStays, LentTo, CachedBy, Finalizing, vclVars
<1> QED
  BY <1>1, <1>2 DEF VclInv

-----------------------------------------------------------------------------
(* Initially nothing is loaded.                                            *)
LEMMA InvInit ==
  ASSUME \A v \in Vcl : vstate[v] = "none" /\ uses[v] = "nothing" /\ busy[v] = 0,
         TypeOK, active = None, ~balive, refcount = 0, connlist = {}, healthy, pvcls = <<>>,
         probe = NoProbe, ~stop, cli = IdleCli, panic = None,
         \A w \in Worker : wvcl[w] = None,
         \A s \in Sess : spc[s] = "idle" /\ sw[s] = None /\ svcl[s] = None /\ vbc[s] = None
  PROVE  Inv
<1>2. CliOK /\ UsesOK /\ ActiveOK /\ SessOK /\ OneSession
  BY BackendAssumption DEF CliOK, UsesOK, ActiveOK, ActiveIsAvailable, SessOK, OneSession, IdleCli, Ending
<1>3. \A v \in Vcl : LentTo(v) = {} /\ CachedBy(v) = {}
  BY BackendAssumption DEF LentTo, CachedBy
<1>4. VclBusy /\ HeldVclStays
  BY <1>3, Finite DEF VclBusy, HeldVclStays
<1>5. RefHolders = {} /\ Users = {} /\ Probed = {}
  BY DEF RefHolders, Users, Probed, Declaring, Probing
<1>6. BackInv
  <2>1. AliveOK /\ AddRefOK /\ ConnOK
    BY <1>5 DEF AliveOK, AddRefOK, ConnOK, IdleCli
  <2>2. Counts
    BY <1>5, Finite DEF Counts
  <2>3. NoPanic
    BY BackendAssumption DEF NoPanic, Panics
  <2> QED
    BY <2>1, <2>2, <2>3 DEF BackInv
<1>7. ProbeInv
  BY <1>5, BackendAssumption DEF ProbeInv, ProbesOK, JoinEnds, UnprobedIsHealthy, Elems, NoDup, NoProbe,
     IdleCli, Probing
<1> QED
  BY <1>2, <1>4, <1>6, <1>7 DEF Inv, VclInv

-----------------------------------------------------------------------------
(* Connections.                                                            *)

\* The VCL of a session refers to the backend it uses, which is alive unless a
\* count was lost, so the references of sessions are never the last.
LEMMA InUse ==
  ASSUME Inv, NEW s \in Sess, svcl[s] # None, uses[svcl[s]] # "nothing"
  PROVE  /\ raced \/ balive
         /\ svcl[s] \in RefHolders
         /\ Cardinality(RefHolders) \in Nat \ {0}
         /\ vbc[s] # None => Cardinality(Users) \in Nat \ {0}
<1>1. svcl[s] \in Vcl
  BY DEF Inv, VclInv, TypeOK
<1>2. vstate[svcl[s]] # "none" /\ ~Finalizing(svcl[s])
  BY <1>1 DEF Inv, VclInv, HeldVclStays, LentTo
<1>3. svcl[s] \in RefHolders
  BY <1>1, <1>2 DEF RefHolders, Declaring, Finalizing
<1>4. vbc[s] # None => Users # {}
  BY DEF Users
<1> QED
  BY <1>3, <1>4, Finite DEF Inv, VclInv, BackInv, AliveOK

\* What remains to be shown of a step that uses connections.
LEMMA ConnFrame ==
  ASSUME Inv, NEW s \in Sess, NEW p \in SessPc, SessTo(s, p),
         UNCHANGED <<vclVars, balive, raced, probeVars, cli, wvcl, sw, svcl>>,
         refcount' \in Int, n_conn' \in Int, connlist' \in SUBSET Conn,
         vbc' \in [Sess -> Conn \cup {None}], panic' \in Panics \cup {None},
         \A t \in Sess : t # s => vbc'[t] = vbc[t],
         spc[s] \in {"run", "getvbe", "check", "open", "try", "connect", "have"},
         p \in {"run", "getvbe", "check", "open", "try", "connect", "have"},
         p # "run" => uses[svcl[s]] # "nothing",
         p \in {"check", "connect", "have"} <=> vbc'[s] # None,
         ConnOK', Counts', NoPanic'
  PROVE  Inv'
<1>0. TypeOK /\ SessOK
  BY DEF Inv, VclInv
<1>1. TypeOK'
  BY <1>0 DEF TypeOK, SessTo, vclVars, probeVars
<1>2. /\ spc'[s] = p
      /\ \A t \in Sess : t # s => spc'[t] = spc[t]
  BY <1>0 DEF TypeOK, SessTo
<1>3. SessOK'
  <2> USE DEF SessOK
  <2> TAKE t \in Sess
  <2>1. CASE t = s
    BY <2>1, <1>0, <1>2 DEF SessOK, vclVars
  <2>2. CASE t # s
    BY <2>2, <1>0, <1>2 DEF SessOK, vclVars
  <2> QED
    BY <2>1, <2>2
<1>4. VclInv' /\ ProbeInv'
  BY <1>1, <1>3, VclFrame
<1>5. RefHolders' = RefHolders
  BY DEF RefHolders, Declaring, vclVars
<1>6. AliveOK' /\ AddRefOK'
  BY <1>5 DEF Inv, BackInv, AliveOK, AddRefOK
<1> QED
  BY <1>4, <1>6 DEF Inv, BackInv

\* A session that neither gets nor gives a connection.
LEMMA StepNoConn ==
  ASSUME Inv, NEW s \in Sess,
         GetFd(s) \/ NoneToRecycle(s) \/ CheckFd(s) \/ Refused(s) \/ MayOpen(s) \/ Connected(s)
  PROVE  Inv'
<1>0. TypeOK /\ SessOK /\ ConnOK /\ Counts /\ AliveOK
  BY DEF Inv, VclInv, BackInv
<1>1. ConnOK' /\ Counts'
  <2>1. UNCHANGED <<vstate, uses, cli, beVars, vbc>>
    BY DEF GetFd, NoneToRecycle, CheckFd, Refused, MayOpen, Connected, vclVars
  <2>2. RefHolders' = RefHolders /\ Users' = Users
    BY <2>1 DEF RefHolders, Declaring, Users
  <2> QED
    BY <2>1, <2>2, <1>0 DEF ConnOK, Counts, beVars
<1>2. /\ refcount' \in Int /\ n_conn' \in Int /\ connlist' \in SUBSET Conn
      /\ vbc' \in [Sess -> Conn \cup {None}] /\ panic' \in Panics \cup {None} /\ NoPanic'
      /\ \A t \in Sess : vbc'[t] = vbc[t]
      /\ UNCHANGED <<vclVars, balive, raced, probeVars, cli, wvcl, sw, svcl>>
  <2>1. panic' = None /\ UNCHANGED <<vclVars, beVars, probeVars, cli, wvcl, sw, svcl, vbc>>
    BY DEF GetFd, NoneToRecycle, CheckFd, Refused, MayOpen, Connected, SessAt
  <2>2. NoPanic'
    BY <2>1, BackendAssumption DEF NoPanic, Panics
  <2> QED
    BY <2>1, <2>2, <1>0 DEF TypeOK, beVars
<1>3. CASE GetFd(s)
  <2>1. uses[svcl[s]] # "nothing" /\ SessTo(s, "getvbe") /\ spc[s] = "run"
    BY <1>3 DEF GetFd, Declaring, SessAt
  <2> QED
    BY <2>1, <1>0, <1>1, <1>2, ConnFrame DEF SessOK, SessPc
<1>4. CASE NoneToRecycle(s)
  <2>1. SessTo(s, "open") /\ spc[s] = "getvbe"
    BY <1>4 DEF NoneToRecycle, SessAt
  <2> QED
    BY <2>1, <1>0, <1>1, <1>2, ConnFrame DEF SessOK, SessPc
<1>5. CASE CheckFd(s) \/ Connected(s)
  <2>1. SessTo(s, "have") /\ spc[s] \in {"check", "connect"}
    BY <1>5 DEF CheckFd, Connected, SessAt
  <2> QED
    BY <2>1, <1>0, <1>1, <1>2, ConnFrame DEF SessOK, SessPc
<1>6. CASE Refused(s)
  <2>1. SessTo(s, "run") /\ spc[s] = "open"
    BY <1>6 DEF Refused, SessAt
  <2> QED
    BY <2>1, <1>0, <1>1, <1>2, ConnFrame DEF SessOK, SessPc
<1>7. CASE MayOpen(s)
  <2>1. SessTo(s, "try") /\ spc[s] = "open"
    BY <1>7 DEF MayOpen, SessAt
  <2> QED
    BY <2>1, <1>0, <1>1, <1>2, ConnFrame DEF SessOK, SessPc
<1> QED
  BY <1>3, <1>4, <1>5, <1>6, <1>7

\* A connection is recycled or opened.
LEMMA StepGetConn ==
  ASSUME Inv, NEW s \in Sess, Recycled(s) \/ bes_conn_try(s)
  PROVE  Inv'
<1>0. TypeOK /\ SessOK /\ ConnOK /\ Counts /\ AliveOK
  BY DEF Inv, VclInv, BackInv
<1>1. spc[s] \in {"getvbe", "try"}
  BY DEF Recycled, bes_conn_try, SessAt
<1>2. svcl[s] # None /\ uses[svcl[s]] # "nothing" /\ vbc[s] = None
  BY <1>0, <1>1 DEF SessOK
<1>4. PICK c \in Conn : /\ vbc' = [vbc EXCEPT ![s] = c]
                        /\ \A t \in Sess : vbc[t] # c
                        /\ c \notin connlist'
                        /\ \/ c \in connlist /\ connlist' = connlist \ {c} /\ n_conn' = n_conn
                           \/ c \notin connlist /\ connlist' = connlist /\ n_conn' = n_conn + 1
  <2>1. CASE Recycled(s)
    <3>1. PICK c \in connlist : connlist' = connlist \ {c} /\ vbc' = [vbc EXCEPT ![s] = c]
      BY <2>1 DEF Recycled
    <3>2. c \in Conn /\ \A t \in Sess : vbc[t] # c
      BY <3>1, <1>0, BackendAssumption DEF TypeOK, ConnOK
    <3>3. c \notin connlist' /\ n_conn' = n_conn
      BY <3>1, <2>1 DEF Recycled
    <3> QED
      BY <3>1, <3>2, <3>3
  <2>2. CASE bes_conn_try(s)
    <3>1. PICK c \in NewConn : vbc' = [vbc EXCEPT ![s] = c]
      BY <2>2 DEF bes_conn_try
    <3> QED
      BY <3>1, <2>2 DEF NewConn, bes_conn_try
  <2> QED
    BY <2>1, <2>2
<1>5. /\ vbc'[s] = c /\ c # None
      /\ \A t \in Sess : t # s => vbc'[t] = vbc[t]
      /\ vbc' \in [Sess -> Conn \cup {None}]
      /\ connlist' \in SUBSET Conn
  BY <1>4, <1>0, BackendAssumption DEF TypeOK
<1>6. /\ UNCHANGED <<vclVars, balive, raced, probeVars, cli, wvcl, sw, svcl>>
      /\ panic' = None /\ refcount' = refcount + 1
  BY DEF Recycled, bes_conn_try, SessAt, RecycleRef
<1>3. panic' \in Panics \cup {None} /\ NoPanic'
  BY <1>6, BackendAssumption DEF NoPanic, Panics
<1>7. ConnOK'
  BY <1>4, <1>5, <1>0 DEF ConnOK
<1>8. RefHolders' = RefHolders
  BY <1>6 DEF RefHolders, Declaring, vclVars
<1>9. Cardinality(Users') = Cardinality(Users) + 1
  BY <1>2, <1>5, UsersMove, Finite, <1>0
<1>10. Cardinality(connlist') = IF c \in connlist THEN Cardinality(connlist) - 1 ELSE Cardinality(connlist)
  <2>1. \A d \in Conn : d # c => (d \in connlist <=> d \in connlist')
    BY <1>4
  <2>2. connlist \in SUBSET Conn
    BY <1>0 DEF TypeOK
  <2> QED
    BY <2>1, <2>2, <1>4, <1>5, CardChange, BackendAssumption
<1>11. /\ Cardinality(connlist) \in Nat /\ Cardinality(RefHolders) \in Nat
       /\ Cardinality(Users) \in Nat /\ n_conn \in Int /\ refcount \in Int
  BY <1>0, Finite DEF TypeOK
<1>14. Counts'
  BY <1>0, <1>4, <1>6, <1>8, <1>9, <1>10, <1>11 DEF Counts
<1>12. refcount' \in Int /\ n_conn' \in Int
  BY <1>0, <1>4, <1>6 DEF TypeOK
<1>13. PICK p \in {"check", "connect"} : SessTo(s, p)
  BY DEF Recycled, bes_conn_try
<1> QED
  BY <1>1, <1>2, <1>3, <1>5, <1>6, <1>7, <1>14, <1>12, <1>13, ConnFrame DEF SessPc

\* A connection is closed or given back.
LEMMA StepLoseConn ==
  ASSUME Inv, NEW s \in Sess, TooLate(s) \/ VDI_CloseFd(s) \/ ConnectFails(s) \/ VDI_RecycleFd(s)
  PROVE  Inv'
<1>0. TypeOK /\ SessOK /\ ConnOK /\ Counts /\ AliveOK
  BY DEF Inv, VclInv, BackInv
<1>1. spc[s] \in {"check", "connect", "have"}
  BY DEF TooLate, VDI_CloseFd, ConnectFails, VDI_RecycleFd, SessAt
<1>2. svcl[s] # None /\ uses[svcl[s]] # "nothing" /\ vbc[s] # None /\ vbc[s] \in Conn
  BY <1>0, <1>1 DEF SessOK, TypeOK
<1>3. Cardinality(RefHolders) \in Nat \ {0} /\ Cardinality(Users) \in Nat \ {0}
  BY <1>2, InUse
<1>4. /\ UNCHANGED <<vclVars, balive, raced, probeVars, cli, wvcl, sw, svcl>>
      /\ vbc' = [vbc EXCEPT ![s] = None] /\ refcount' = refcount - 1
      /\ panic' = None \/ (refcount = 1 /\ panic' = "last_ref")
                       \/ (refcount < 1 /\ panic' = "no_ref")
      /\ \/ connlist' = connlist \cup {vbc[s]} /\ n_conn' = n_conn
         \/ connlist' = connlist /\ n_conn' = n_conn - 1
  BY DEF TooLate, VDI_CloseFd, ConnectFails, VDI_RecycleFd, CloseTo, DropRef, DropCount, SessAt
<1>5. /\ vbc'[s] = None
      /\ \A t \in Sess : t # s => vbc'[t] = vbc[t]
      /\ vbc' \in [Sess -> Conn \cup {None}]
      /\ connlist' \in SUBSET Conn
  BY <1>4, <1>2, <1>0 DEF TypeOK
<1>6. refcount' \in Int /\ panic' \in Panics \cup {None} /\ NoPanic'
  <2>1. refcount \in Int
    BY <1>0 DEF TypeOK
  <2>2. raced \/ refcount > 1
    BY <1>0, <1>3, <2>1 DEF Counts
  <2>3. raced \/ panic' = None
    BY <1>4, <2>1, <2>2
  <2> QED
    BY <1>4, <2>1, <2>3, BackendAssumption DEF NoPanic, Panics
<1>7. ConnOK'
  BY <1>2, <1>4, <1>5, <1>0 DEF ConnOK
<1>8. RefHolders' = RefHolders
  BY <1>4 DEF RefHolders, Declaring, vclVars
<1>9. Cardinality(Users') = Cardinality(Users) - 1
  BY <1>2, <1>3, <1>5, UsersMove
<1>10. Cardinality(connlist') = Cardinality(connlist) + (IF n_conn' = n_conn THEN 1 ELSE 0)
  <2>1. \A d \in Conn : d # vbc[s] => (d \in connlist <=> d \in connlist')
    BY <1>4
  <2>2. connlist \in SUBSET Conn /\ vbc[s] \notin connlist /\ n_conn \in Int
    BY <1>0, <1>2 DEF TypeOK, ConnOK
  <2> QED
    BY <2>1, <2>2, <1>2, <1>4, <1>5, CardChange, BackendAssumption
<1>11. Cardinality(connlist) \in Nat /\ n_conn \in Int /\ refcount \in Int
  BY <1>0, Finite DEF TypeOK
<1>12. Counts' /\ n_conn' \in Int
  BY <1>0, <1>3, <1>4, <1>8, <1>9, <1>10, <1>11 DEF Counts
<1>13. PICK p \in {"run", "getvbe"} : SessTo(s, p)
  BY DEF TooLate, VDI_CloseFd, ConnectFails, VDI_RecycleFd, CloseTo
<1> QED
  BY <1>1, <1>2, <1>4, <1>5, <1>6, <1>7, <1>12, <1>13, ConnFrame DEF SessPc

\* Whoever finds the backend freed panics, and then a count was lost.
LEMMA StepFreed ==
  ASSUME Inv, CliFindsFreed \/ \E s \in Sess : SessFindsFreed(s)
  PROVE  Inv'
<1>0. TypeOK /\ SessOK /\ CliOK /\ AliveOK /\ ConnOK /\ Counts
  BY DEF Inv, VclInv, BackInv
<1>1. /\ ~balive /\ panic' = "freed"
      /\ UNCHANGED <<vclVars, beVars, probeVars, cli, sessVars>>
  BY DEF CliFindsFreed, SessFindsFreed
<1>2. raced
  <2>1. CASE CliFindsFreed
    <3>1. cli.pc \in {"usehealth", "remove", "dropref"}
      BY <2>1 DEF CliFindsFreed, CliAt
    <3>2. cli.v \in Vcl /\ uses[cli.v] # "nothing"
      BY <3>1, <1>0 DEF CliOK, TypeOK
    <3>3. vstate[cli.v] # "none"
      BY <3>1, <3>2, <1>0, BackendAssumption DEF CliOK, Ending, Inv, VclInv, ActiveOK, ActiveIsAvailable
    <3>4. cli.v \in RefHolders
      BY <3>1, <3>2, <3>3 DEF RefHolders, Declaring
    <3> QED
      BY <3>4, <1>0, <1>1 DEF AliveOK
  <2>2. CASE \E s \in Sess : SessFindsFreed(s)
    <3>1. PICK s \in Sess : spc[s] \in {"getvbe", "check", "open", "have"}
      BY <2>2 DEF SessFindsFreed, SessAt
    <3>2. svcl[s] # None /\ uses[svcl[s]] # "nothing"
      BY <3>1, <1>0 DEF SessOK
    <3> QED
      BY <3>2, <1>1, InUse
  <2> QED
    BY <2>1, <2>2
<1>3. TypeOK'
  BY <1>0, <1>1 DEF TypeOK, vclVars, beVars, probeVars, sessVars, Panics
<1>4. SessOK'
  BY <1>0, <1>1 DEF SessOK, vclVars, sessVars
<1>5. VclInv' /\ ProbeInv'
  BY <1>1, <1>3, <1>4, VclFrame DEF sessVars
<1>6. BackInv'
  BY <1>1, <1>2 DEF Inv, BackInv, AliveOK, AddRefOK, ConnOK, Counts, Users, RefHolders, Declaring,
     NoPanic, vclVars, beVars, sessVars
<1> QED
  BY <1>5, <1>6 DEF Inv

-----------------------------------------------------------------------------
(* References to VCLs.                                                     *)

\* A VCL that a session or a thread holds is counted.
LEMMA HeldIsBusy ==
  ASSUME Inv, NEW v \in Vcl,
         (\E s \in Sess : svcl[s] = v) \/ (\E w \in Worker : wvcl[w] = v)
  PROVE  busy[v] \in Nat \ {0}
<1>1. TypeOK /\ VclBusy
  BY DEF Inv, VclInv
<1>2. LentTo(v) # {} \/ CachedBy(v) # {}
  BY DEF LentTo, CachedBy
<1> QED
  BY <1>1, <1>2, Finite DEF VclBusy

\* What remains to be shown of a step that moves references to VCLs.
LEMMA UseFrame ==
  ASSUME Inv, UNCHANGED <<vstate, uses, active, beVars, probeVars, cli, vbc>>, panic' = None,
         \A t \in Sess : \/ svcl'[t] \in {None, active, svcl[t]}
                         \/ \E w \in Worker : svcl'[t] = wvcl[w],
         \A w \in Worker : \/ wvcl'[w] \in {None, wvcl[w]}
                           \/ \E t \in Sess : wvcl'[w] = svcl[t],
         TypeOK', SessOK', OneSession', VclBusy'
  PROVE  Inv'
<1>0. TypeOK /\ HeldVclStays /\ ActiveOK /\ CliOK
  BY DEF Inv, VclInv
<1>1. ProbeInv' /\ CliOK' /\ UsesOK' /\ ActiveOK'
  BY SessionFrame
<1>2. BackInv'
  BY BackFrame2, BackendAssumption
<1>3. HeldVclStays'
  <2> SUFFICES ASSUME NEW v \in Vcl, LentTo(v)' \cup CachedBy(v)' # {}
               PROVE  vstate[v] # "none" /\ ~Finalizing(v)
    BY DEF HeldVclStays, Finalizing
  <2>1. (\E t \in Sess : svcl[t] = v) \/ (\E w \in Worker : wvcl[w] = v) \/ v = active
    BY BackendAssumption DEF LentTo, CachedBy
  <2>2. CASE (\E t \in Sess : svcl[t] = v) \/ (\E w \in Worker : wvcl[w] = v)
    BY <2>2, <1>0 DEF HeldVclStays, LentTo, CachedBy
  <2>3. CASE v = active
    BY <2>3, <1>0, BackendAssumption DEF ActiveOK, ActiveIsAvailable, CliOK, Finalizing, Ending
  <2> QED
    BY <2>1, <2>2, <2>3
<1> QED
  BY <1>1, <1>2, <1>3 DEF Inv, VclInv

\* A reference moves between a session, its thread and the count.
LEMMA BusyMoves ==
  ASSUME Inv, NEW s \in Sess, NEW w \in Worker,
         \A t \in Sess : t # s => svcl'[t] = svcl[t],
         \A x \in Worker : x # w => wvcl'[x] = wvcl[x],
         \A v \in Vcl : busy'[v] = busy[v]
           + (IF svcl'[s] = v THEN 1 ELSE 0) - (IF svcl[s] = v THEN 1 ELSE 0)
           + (IF wvcl'[w] = v THEN 1 ELSE 0) - (IF wvcl[w] = v THEN 1 ELSE 0)
  PROVE  VclBusy'
<1> SUFFICES ASSUME NEW v \in Vcl
             PROVE  busy'[v] = Cardinality(LentTo(v)') + Cardinality(CachedBy(v)')
  BY DEF VclBusy
<1>1. Cardinality(LentTo(v)) \in Nat /\ Cardinality(CachedBy(v)) \in Nat
  BY Finite DEF Inv, VclInv
<1>2. busy[v] = Cardinality(LentTo(v)) + Cardinality(CachedBy(v))
  BY DEF Inv, VclInv, VclBusy
<1>3. Cardinality(LentTo(v)') = Cardinality(LentTo(v))
           + (IF svcl'[s] = v THEN 1 ELSE 0) - (IF svcl[s] = v THEN 1 ELSE 0)
  BY LentMoves
<1>4. Cardinality(CachedBy(v)') = Cardinality(CachedBy(v))
           + (IF wvcl'[w] = v THEN 1 ELSE 0) - (IF wvcl[w] = v THEN 1 ELSE 0)
  BY CachedMoves
<1> QED
  BY <1>1, <1>2, <1>3, <1>4

\* Sessions get a thread or a VCL.
LEMMA StepRefresh ==
  ASSUME Inv, NEW s \in Sess, NEW w \in Worker, VCL_Refresh(s, w)
  PROVE  Inv'
<1>0. TypeOK /\ SessOK /\ OneSession
  BY DEF Inv, VclInv
<1>1. /\ spc[s] = "idle" /\ sw[s] = None /\ svcl[s] = None
      /\ \A t \in Sess : sw[t] # w
      /\ sw'[s] = w /\ \A t \in Sess : t # s => sw'[t] = sw[t]
      /\ active \in Vcl
      /\ panic' = None /\ UNCHANGED <<vclVars, beVars, probeVars, cli, vbc>>
      /\ \A t \in Sess : t # s => spc'[t] = spc[t] /\ svcl'[t] = svcl[t]
      /\ \A x \in Worker : x # w => wvcl'[x] = wvcl[x]
      /\ \/ wvcl[w] = active /\ svcl'[s] = wvcl[w] /\ wvcl'[w] = None /\ spc'[s] = "run"
         \/ wvcl[w] # active /\ svcl'[s] = svcl[s] /\ wvcl'[w] = wvcl[w] /\ spc'[s] = (IF wvcl[w] = None THEN "get" ELSE "rel")
  BY <1>0 DEF VCL_Refresh, SessAt, SessTo, FreeWorker, SessOK, TypeOK
<1>2. TypeOK'
  BY <1>0 DEF VCL_Refresh, TypeOK, SessTo, SessPc, vclVars, beVars, probeVars
<1>3. OneSession'
  BY <1>0, <1>1 DEF OneSession
<1>4. SessOK'
  <2> USE DEF SessOK
  <2> TAKE t \in Sess
  <2>1. CASE t = s
    BY <2>1, <1>0, <1>1, BackendAssumption DEF vclVars
  <2>2. CASE t # s
    <3>1. sw[t] # None => wvcl'[sw[t]] = wvcl[sw[t]]
      BY <1>0, <1>1 DEF TypeOK
    <3> QED
      BY <2>2, <3>1, <1>0, <1>1 DEF vclVars
  <2> QED
    BY <2>1, <2>2
<1>5. VclBusy'
  <2>1. \A v \in Vcl : busy'[v] = busy[v] /\ busy[v] \in Nat
    BY <1>0, <1>1 DEF vclVars, TypeOK
  <2> QED
    BY <2>1, <1>1, BackendAssumption, BusyMoves
<1> QED
  BY <1>1, <1>2, <1>3, <1>4, <1>5, UseFrame DEF vclVars

\* A session leaves its thread, or gets one again.
LEMMA StepPark ==
  ASSUME Inv, NEW s \in Sess, Park(s) \/ \E w \in Worker : Resume(s, w)
  PROVE  Inv'
<1>0. TypeOK /\ SessOK /\ OneSession
  BY DEF Inv, VclInv
<1>1. /\ panic' = None /\ UNCHANGED <<vclVars, beVars, probeVars, cli, wvcl, svcl, vbc>>
      /\ \A t \in Sess : t # s => spc'[t] = spc[t] /\ sw'[t] = sw[t]
      /\ \/ spc[s] = "run" /\ spc'[s] = "parked" /\ sw'[s] = None
         \/ spc[s] = "parked" /\ spc'[s] = "run" /\ sw'[s] \in Worker /\ \A t \in Sess : sw[t] # sw'[s]
  BY <1>0 DEF Park, Resume, SessAt, SessTo, FreeWorker, TypeOK
<1>2. TypeOK'
  <2>1. spc' \in [Sess -> SessPc]
    BY <1>0 DEF Park, Resume, TypeOK, SessTo, SessPc
  <2>2. sw' \in [Sess -> Worker \cup {None}]
    BY <1>0 DEF Park, Resume, TypeOK
  <2> QED
    BY <2>1, <2>2, <1>0, <1>1 DEF TypeOK, vclVars, beVars, probeVars
<1>3. OneSession'
  BY <1>0, <1>1 DEF OneSession
<1>4. SessOK'
  <2> USE DEF SessOK
  <2> TAKE t \in Sess
  <2>1. CASE t = s
    BY <2>1, <1>0, <1>1, BackendAssumption DEF vclVars
  <2>2. CASE t # s
    BY <2>2, <1>0, <1>1 DEF vclVars
  <2> QED
    BY <2>1, <2>2
<1>5. VclBusy'
  BY <1>1 DEF Inv, VclInv, VclBusy, LentTo, CachedBy, vclVars
<1> QED
  BY <1>1, <1>2, <1>3, <1>4, <1>5, UseFrame DEF vclVars

\* A thread drops the reference it has cached.
LEMMA StepRel ==
  ASSUME Inv, NEW s \in Sess, RefreshRel(s) \/ Done(s)
  PROVE  Inv'
<1>0. TypeOK /\ SessOK /\ OneSession
  BY DEF Inv, VclInv
<1>1. /\ sw[s] \in Worker /\ wvcl[sw[s]] \in Vcl
      /\ spc[s] = "rel" \/ spc[s] = "run"
  BY <1>0 DEF RefreshRel, Done, SessAt, SessOK, TypeOK
<1> DEFINE w == sw[s]
<1>2. /\ panic' = None /\ UNCHANGED <<vstate, uses, active, beVars, probeVars, cli, sw, svcl, vbc>>
      /\ \A t \in Sess : t # s => spc'[t] = spc[t]
      /\ spc'[s] = (IF spc[s] = "rel" THEN "get" ELSE "done")
      /\ wvcl'[w] = None
      /\ \A x \in Worker : x # w => wvcl'[x] = wvcl[x]
      /\ \A v \in Vcl : busy'[v] = IF v = wvcl[w] THEN busy[v] - 1 ELSE busy[v]
  BY <1>0, <1>1 DEF RefreshRel, Done, VCL_Rel, SessAt, SessTo, TypeOK
<1>3. busy[wvcl[w]] \in Nat \ {0}
  BY <1>1, HeldIsBusy
<1>4. TypeOK'
  <2>1. spc' \in [Sess -> SessPc]
    BY <1>0 DEF RefreshRel, Done, TypeOK, SessTo, SessPc
  <2>2. busy' \in [Vcl -> Nat]
    <3>1. busy' = [busy EXCEPT ![wvcl[w]] = busy[wvcl[w]] - 1]
      BY DEF RefreshRel, Done, VCL_Rel
    <3> QED
      BY <3>1, <1>0, <1>1, <1>3 DEF TypeOK
  <2>3. wvcl' \in [Worker -> Vcl \cup {None}]
    BY <1>0 DEF RefreshRel, Done, TypeOK
  <2> QED
    BY <2>1, <2>2, <2>3, <1>0, <1>2 DEF TypeOK, beVars, probeVars
<1>5. OneSession'
  BY <1>0, <1>2 DEF OneSession
<1>6. SessOK'
  <2> USE DEF SessOK
  <2> TAKE t \in Sess
  <2>1. CASE t = s
    BY <2>1, <1>0, <1>1, <1>2
  <2>2. CASE t # s
    <3>1. sw[t] # w
      BY <2>2, <1>0, <1>1, BackendAssumption DEF OneSession
    <3>2. sw[t] # None => wvcl'[sw[t]] = wvcl[sw[t]]
      BY <3>1, <1>0, <1>2 DEF TypeOK
    <3> QED
      BY <2>2, <3>2, <1>0, <1>2
  <2> QED
    BY <2>1, <2>2
<1>7. VclBusy'
  <2>1. \A v \in Vcl : busy[v] \in Nat
    BY <1>0 DEF TypeOK
  <2>2. wvcl[w] # None /\ \A v \in Vcl : v # None
    BY <1>1, BackendAssumption
  <2> QED
    BY <2>1, <2>2, <1>1, <1>2, BusyMoves
<1> QED
  BY <1>2, <1>4, <1>5, <1>6, <1>7, UseFrame

\* VCL_Get takes a reference to the active VCL.
LEMMA StepGet ==
  ASSUME Inv, NEW s \in Sess, VCL_Get(s)
  PROVE  Inv'
<1>0. TypeOK /\ SessOK /\ OneSession
  BY DEF Inv, VclInv
<1>1. /\ sw[s] \in Worker /\ active \in Vcl /\ svcl[s] = None /\ spc[s] = "get"
  BY <1>0 DEF VCL_Get, SessAt, SessOK, TypeOK
<1>2. /\ panic' = None /\ UNCHANGED <<vstate, uses, active, beVars, probeVars, cli, wvcl, sw, vbc>>
      /\ \A t \in Sess : t # s => spc'[t] = spc[t] /\ svcl'[t] = svcl[t]
      /\ spc'[s] = "run" /\ svcl'[s] = active
      /\ \A v \in Vcl : busy'[v] = IF v = active THEN busy[v] + 1 ELSE busy[v]
  BY <1>0, <1>1 DEF VCL_Get, SessAt, SessTo, TypeOK
<1>4. TypeOK'
  BY <1>0, <1>1 DEF VCL_Get, TypeOK, SessTo, SessPc, beVars, probeVars
<1>5. OneSession'
  BY <1>0, <1>2 DEF OneSession
<1>6. SessOK'
  <2> USE DEF SessOK
  <2> TAKE t \in Sess
  <2>1. CASE t = s
    BY <2>1, <1>0, <1>1, <1>2, BackendAssumption
  <2>2. CASE t # s
    BY <2>2, <1>0, <1>2
  <2> QED
    BY <2>1, <2>2
<1>7. VclBusy'
  <2>1. \A v \in Vcl : busy[v] \in Nat /\ v # None
    BY <1>0, BackendAssumption DEF TypeOK
  <2> QED
    BY <2>1, <1>1, <1>2, BusyMoves
<1> QED
  BY <1>2, <1>4, <1>5, <1>6, <1>7, UseFrame

\* cnt_done gives the session's reference to its thread.
LEMMA StepReturn ==
  ASSUME Inv, NEW s \in Sess, ReturnVcl(s)
  PROVE  Inv'
<1>0. TypeOK /\ SessOK /\ OneSession
  BY DEF Inv, VclInv
<1> DEFINE w == sw[s]
<1>1. /\ w \in Worker /\ svcl[s] \in Vcl /\ wvcl[w] = None
      /\ spc[s] \in {"run", "done"} /\ vbc[s] = None
  <2>1. spc[s] \in {"run", "done"} /\ wvcl[w] = None
    BY DEF ReturnVcl, SessAt
  <2>2. sw[s] # None /\ svcl[s] # None /\ vbc[s] = None
    BY <2>1, <1>0 DEF SessOK
  <2>3. sw[s] \in Worker \cup {None} /\ svcl[s] \in Vcl \cup {None}
    BY <1>0 DEF TypeOK
  <2> QED
    BY <2>1, <2>2, <2>3
<1>2. /\ panic' = None /\ UNCHANGED <<vclVars, beVars, probeVars, cli, vbc>>
      /\ \A t \in Sess : t # s => spc'[t] = spc[t] /\ svcl'[t] = svcl[t] /\ sw'[t] = sw[t]
      /\ spc'[s] = "idle" /\ svcl'[s] = None /\ sw'[s] = None
      /\ wvcl'[w] = svcl[s]
      /\ \A x \in Worker : x # w => wvcl'[x] = wvcl[x]
  BY <1>0, <1>1 DEF ReturnVcl, SessAt, SessTo, TypeOK
<1>4. TypeOK'
  BY <1>0, <1>1 DEF ReturnVcl, TypeOK, SessTo, SessPc, vclVars, beVars, probeVars
<1>5. OneSession'
  BY <1>0, <1>2 DEF OneSession
<1>6. SessOK'
  <2> USE DEF SessOK
  <2> TAKE t \in Sess
  <2>1. CASE t = s
    BY <2>1, <1>0, <1>1, <1>2
  <2>2. CASE t # s
    <3>1. sw[t] # w
      BY <2>2, <1>0, <1>1, BackendAssumption DEF OneSession
    <3>2. sw[t] # None => wvcl'[sw[t]] = wvcl[sw[t]]
      BY <3>1, <1>0, <1>2 DEF TypeOK
    <3> QED
      BY <2>2, <3>2, <1>0, <1>2 DEF vclVars
  <2> QED
    BY <2>1, <2>2
<1>7. VclBusy'
  <2>1. \A v \in Vcl : busy[v] \in Nat /\ v # None /\ busy'[v] = busy[v]
    BY <1>0, <1>2, BackendAssumption DEF TypeOK, vclVars
  <2> QED
    BY <2>1, <1>1, <1>2, BusyMoves
<1> QED
  BY <1>2, <1>4, <1>5, <1>6, <1>7, UseFrame DEF vclVars

\* A parked session is dropped, or a thread ends, and its reference with it.
LEMMA StepDrop ==
  ASSUME Inv, (\E s \in Sess : DropParked(s)) \/ (\E w \in Worker : WorkerExit(w))
  PROVE  Inv'
<1>0. TypeOK /\ SessOK /\ OneSession /\ VclBusy
  BY DEF Inv, VclInv
<1>1. CASE \E s \in Sess : DropParked(s)
  <2>0. PICK s \in Sess : DropParked(s)
    BY <1>1
  <2>1. svcl[s] \in Vcl /\ spc[s] = "parked"
    BY <1>0, <2>0 DEF DropParked, SessAt, SessOK, TypeOK
  <2>2. /\ panic' = None /\ UNCHANGED <<vstate, uses, active, beVars, probeVars, cli, wvcl, sw, vbc>>
        /\ \A t \in Sess : t # s => spc'[t] = spc[t] /\ svcl'[t] = svcl[t]
        /\ spc'[s] = "idle" /\ svcl'[s] = None
        /\ \A v \in Vcl : busy'[v] = IF v = svcl[s] THEN busy[v] - 1 ELSE busy[v]
    BY <1>0, <2>0, <2>1 DEF DropParked, ReleaseOnDrop, VCL_Rel, SessAt, SessTo, TypeOK
  <2>3. busy[svcl[s]] \in Nat \ {0}
    BY <2>1, HeldIsBusy
  <2>4. TypeOK'
    BY <1>0, <2>0, <2>1, <2>3 DEF DropParked, ReleaseOnDrop, VCL_Rel, TypeOK, SessTo, SessPc, beVars, probeVars
  <2>5. OneSession'
    BY <1>0, <2>2 DEF OneSession
  <2>6. SessOK'
    <3> USE DEF SessOK
    <3> TAKE t \in Sess
    <3>1. CASE t = s
      BY <3>1, <1>0, <2>1, <2>2
    <3>2. CASE t # s
      BY <3>2, <1>0, <2>2
    <3> QED
      BY <3>1, <3>2
  <2>7. VclBusy'
    <3> SUFFICES ASSUME NEW v \in Vcl
                 PROVE  busy'[v] = Cardinality(LentTo(v)') + Cardinality(CachedBy(v)')
      BY DEF VclBusy
    <3>1. /\ Cardinality(LentTo(v)) \in Nat /\ Cardinality(CachedBy(v)) \in Nat
          /\ busy[v] = Cardinality(LentTo(v)) + Cardinality(CachedBy(v))
      BY <1>0, Finite DEF VclBusy
    <3>2. Cardinality(LentTo(v)') = Cardinality(LentTo(v))
             + (IF svcl'[s] = v THEN 1 ELSE 0) - (IF svcl[s] = v THEN 1 ELSE 0)
      BY <2>2, LentMoves
    <3>3. CachedBy(v)' = CachedBy(v)
      BY <2>2 DEF CachedBy
    <3> QED
      BY <2>2, <3>1, <3>2, <3>3, BackendAssumption
  <2> QED
    BY <2>2, <2>4, <2>5, <2>6, <2>7, UseFrame
<1>2. CASE \E w \in Worker : WorkerExit(w)
  <2>0. PICK w \in Worker : WorkerExit(w)
    BY <1>2
  <2>1. wvcl[w] \in Vcl /\ \A t \in Sess : sw[t] # w
    BY <1>0, <2>0 DEF WorkerExit, FreeWorker, TypeOK
  <2>2. /\ panic' = None /\ UNCHANGED <<vstate, uses, active, beVars, probeVars, cli, spc, sw, svcl, vbc>>
        /\ wvcl'[w] = None /\ \A x \in Worker : x # w => wvcl'[x] = wvcl[x]
        /\ \A v \in Vcl : busy'[v] = IF v = wvcl[w] THEN busy[v] - 1 ELSE busy[v]
    BY <1>0, <2>0, <2>1 DEF WorkerExit, VCL_Rel, TypeOK
  <2>3. busy[wvcl[w]] \in Nat \ {0}
    BY <2>1, HeldIsBusy
  <2>4. TypeOK'
    BY <1>0, <2>0, <2>1, <2>3 DEF WorkerExit, VCL_Rel, TypeOK, beVars, probeVars
  <2>5. OneSession'
    BY <1>0, <2>2 DEF OneSession
  <2>6. SessOK'
    <3> USE DEF SessOK
    <3> TAKE t \in Sess
    <3>1. sw[t] # None => wvcl'[sw[t]] = wvcl[sw[t]]
      BY <2>1, <2>2, <1>0 DEF TypeOK
    <3> QED
      BY <3>1, <1>0, <2>2
  <2>7. VclBusy'
    <3> SUFFICES ASSUME NEW v \in Vcl
                 PROVE  busy'[v] = Cardinality(LentTo(v)') + Cardinality(CachedBy(v)')
      BY DEF VclBusy
    <3>1. /\ Cardinality(LentTo(v)) \in Nat /\ Cardinality(CachedBy(v)) \in Nat
          /\ busy[v] = Cardinality(LentTo(v)) + Cardinality(CachedBy(v))
      BY <1>0, Finite DEF VclBusy
    <3>2. Cardinality(CachedBy(v)') = Cardinality(CachedBy(v))
             + (IF wvcl'[w] = v THEN 1 ELSE 0) - (IF wvcl[w] = v THEN 1 ELSE 0)
      BY <2>2, CachedMoves
    <3>3. LentTo(v)' = LentTo(v)
      BY <2>2 DEF LentTo
    <3> QED
      BY <2>2, <3>1, <3>2, <3>3, BackendAssumption
  <2> QED
    BY <2>2, <2>4, <2>5, <2>6, <2>7, UseFrame
<1> QED
  BY <1>1, <1>2

-----------------------------------------------------------------------------
(* The list of probes.                                                     *)

\* VTAILQ_REMOVE removes that element, and the first stays first unless it is
\* the one removed.
LEMMA OthersOK ==
  ASSUME NEW q \in Seq(Vcl), NoDup(q), NEW v \in Vcl
  PROVE  /\ Others(q, v) \in Seq(Vcl)
         /\ Elems(Others(q, v)) = Elems(q) \ {v}
         /\ NoDup(Others(q, v))
         /\ q # <<>> /\ Head(q) # v => Others(q, v) # <<>> /\ Head(Others(q, v)) = Head(q)
<1>1. CASE v \notin Elems(q)
  <2>1. Others(q, v) = q
    BY <1>1 DEF Others
  <2> QED
    BY <2>1, <1>1
<1>2. CASE v \in Elems(q)
  <2> DEFINE p == CHOOSE i \in DOMAIN q : q[i] = v
             r == [i \in 1 .. Len(q) - 1 |-> IF i < p THEN q[i] ELSE q[i + 1]]
  <2>1. p \in DOMAIN q /\ q[p] = v
    BY <1>2 DEF Elems
  <2>2. Others(q, v) = r
    BY <1>2 DEF Others
  <2> HIDE DEF p
  <2>3. Len(q) \in Nat /\ DOMAIN q = 1 .. Len(q) /\ \A i \in 1 .. Len(q) : q[i] \in Vcl
    OBVIOUS
  <2>4. p \in 1 .. Len(q)
    BY <2>1, <2>3
  <2>5. r \in Seq(Vcl) /\ Len(r) = Len(q) - 1 /\ DOMAIN r = 1 .. Len(q) - 1
    BY <2>3, <2>4
  <2>6. \A i \in 1 .. Len(q) - 1 : r[i] = IF i < p THEN q[i] ELSE q[i + 1]
    OBVIOUS
  <2> HIDE DEF r
  <2>7. \A i, k \in 1 .. Len(q) : q[i] = q[k] => i = k
    BY <2>3 DEF NoDup
  <2>8. \A i \in 1 .. Len(q) - 1 : r[i] \in Elems(q) \ {v}
    BY <2>1, <2>3, <2>4, <2>6, <2>7 DEF Elems
  <2>9. \A x \in Elems(q) \ {v} : \E i \in 1 .. Len(q) - 1 : r[i] = x
    <3> TAKE x \in Elems(q) \ {v}
    <3>1. PICK i \in 1 .. Len(q) : q[i] = x
      BY <2>3 DEF Elems
    <3>2. i # p
      BY <3>1, <2>1
    <3>3. CASE i < p
      BY <3>1, <3>3, <2>3, <2>4, <2>6
    <3>4. CASE i > p
      <4>1. i - 1 \in 1 .. Len(q) - 1 /\ ~(i - 1 < p) /\ (i - 1) + 1 = i
        BY <3>1, <3>4, <2>3, <2>4
      <4> QED
        BY <4>1, <3>1, <2>6
    <3> QED
      BY <3>1, <3>2, <3>3, <3>4, <2>3, <2>4
  <2>10. Elems(r) = Elems(q) \ {v}
    BY <2>5, <2>8, <2>9 DEF Elems
  <2>11. NoDup(r)
    <3> SUFFICES ASSUME NEW i \in 1 .. Len(q) - 1, NEW k \in 1 .. Len(q) - 1, r[i] = r[k]
                 PROVE  i = k
      BY <2>5 DEF NoDup
    <3>1. r[i] = (IF i < p THEN q[i] ELSE q[i + 1]) /\ r[k] = (IF k < p THEN q[k] ELSE q[k + 1])
      BY <2>6
    <3>2. i \in 1 .. Len(q) /\ i + 1 \in 1 .. Len(q) /\ k \in 1 .. Len(q) /\ k + 1 \in 1 .. Len(q)
      BY <2>3
    <3>3. p \in Nat /\ i \in Nat /\ k \in Nat
      BY <3>2, <2>3, <2>4
    <3>4. CASE i < p /\ k < p
      BY <3>1, <3>2, <3>4, <2>7
    <3>5. CASE i < p /\ ~(k < p)
      <4>1. i = k + 1
        BY <3>1, <3>2, <3>5, <2>7
      <4> QED
        BY <4>1, <3>3, <3>5
    <3>6. CASE ~(i < p) /\ k < p
      <4>1. i + 1 = k
        BY <3>1, <3>2, <3>6, <2>7
      <4> QED
        BY <4>1, <3>3, <3>6
    <3>7. CASE ~(i < p) /\ ~(k < p)
      <4>1. i + 1 = k + 1
        BY <3>1, <3>2, <3>7, <2>7
      <4> QED
        BY <4>1, <3>3
    <3> QED
      BY <3>4, <3>5, <3>6, <3>7
  <2>12. ASSUME q # <<>>, Head(q) # v PROVE r # <<>> /\ Head(r) = Head(q)
    <3>1. Head(q) = q[1] /\ Len(q) \in Nat \ {0}
      BY <2>12
    <3>2. p > 1
      BY <3>1, <2>1, <2>3, <2>4, <2>12
    <3>3. Len(q) - 1 >= 1
      BY <3>2, <2>3, <2>4
    <3>4. r[1] = q[1] /\ r # <<>>
      BY <3>2, <3>3, <2>3, <2>4, <2>5, <2>6
    <3> QED
      BY <3>1, <3>4, <2>5
  <2> QED
    BY <2>2, <2>5, <2>10, <2>11, <2>12
<1> QED
  BY <1>1, <1>2

\* VTAILQ_INSERT_HEAD after VTAILQ_REMOVE.
LEMMA ToFrontOK ==
  ASSUME NEW q \in Seq(Vcl), NoDup(q), NEW v \in Vcl
  PROVE  /\ ToFront(q, v) \in Seq(Vcl)
         /\ Elems(ToFront(q, v)) = Elems(q) \cup {v}
         /\ NoDup(ToFront(q, v))
         /\ ToFront(q, v) # <<>> /\ Head(ToFront(q, v)) = v
<1> DEFINE o == Others(q, v)
           f == <<v>> \o o
<1>1. o \in Seq(Vcl) /\ Elems(o) = Elems(q) \ {v} /\ NoDup(o)
  BY OthersOK
<1>2. ToFront(q, v) = f
  BY DEF ToFront
<1> HIDE DEF o
<1>3. f \in Seq(Vcl) /\ Len(f) = Len(o) + 1 /\ f[1] = v /\ Len(o) \in Nat
      /\ DOMAIN f = 1 .. Len(o) + 1 /\ DOMAIN o = 1 .. Len(o)
  BY <1>1
<1>4. \A i \in 2 .. Len(o) + 1 : f[i] = o[i - 1]
  BY <1>1
<1>5. \A i \in 1 .. Len(o) : f[i + 1] = o[i]
  BY <1>3, <1>4
<1>6. f # <<>> /\ Head(f) = v
  BY <1>3
<1> HIDE DEF f
<1>7. Elems(f) = Elems(o) \cup {v}
  <2>1. \A x \in Elems(f) : x \in Elems(o) \cup {v}
    <3> TAKE x \in Elems(f)
    <3>1. PICK i \in 1 .. Len(o) + 1 : f[i] = x
      BY <1>3 DEF Elems
    <3>2. CASE i = 1
      BY <3>1, <3>2, <1>3
    <3>3. CASE i # 1
      <4>1. i \in 2 .. Len(o) + 1 /\ i - 1 \in 1 .. Len(o)
        BY <3>1, <3>3, <1>3
      <4> QED
        BY <4>1, <3>1, <1>3, <1>4 DEF Elems
    <3> QED
      BY <3>2, <3>3
  <2>2. \A x \in Elems(o) : x \in Elems(f)
    <3> TAKE x \in Elems(o)
    <3>1. PICK i \in 1 .. Len(o) : o[i] = x
      BY <1>3 DEF Elems
    <3>2. i + 1 \in 1 .. Len(o) + 1
      BY <3>1, <1>3
    <3> QED
      BY <3>1, <3>2, <1>3, <1>5 DEF Elems
  <2>3. v \in Elems(f)
    <3>1. 1 \in 1 .. Len(o) + 1
      BY <1>3
    <3> QED
      BY <3>1, <1>3 DEF Elems
  <2> QED
    BY <2>1, <2>2, <2>3
<1>8. NoDup(f)
  <2> SUFFICES ASSUME NEW i \in 1 .. Len(o) + 1, NEW k \in 1 .. Len(o) + 1, f[i] = f[k]
               PROVE  i = k
    BY <1>3 DEF NoDup
  <2>1. \A n \in 1 .. Len(o) + 1 : n = 1 \/ (n \in 2 .. Len(o) + 1 /\ n - 1 \in 1 .. Len(o))
    BY <1>3
  <2>2. \A n \in 1 .. Len(o) : o[n] # v
    BY <1>1, <1>3 DEF Elems
  <2>3. CASE i = 1 \/ k = 1
    BY <2>1, <2>2, <2>3, <1>3, <1>4
  <2>4. CASE i # 1 /\ k # 1
    <3>1. o[i - 1] = o[k - 1] /\ i - 1 \in DOMAIN o /\ k - 1 \in DOMAIN o
      BY <2>1, <2>4, <1>3, <1>4
    <3>2. i - 1 = k - 1
      BY <3>1, <1>1 DEF NoDup
    <3> QED
      BY <3>2, <1>3
  <2> QED
    BY <2>3, <2>4
<1> QED
  BY <1>1, <1>2, <1>3, <1>6, <1>7, <1>8

\* VTAILQ_INSERT_TAIL.
LEMMA AppendOK ==
  ASSUME NEW q \in Seq(Vcl), NoDup(q), NEW v \in Vcl, v \notin Elems(q)
  PROVE  /\ Append(q, v) \in Seq(Vcl)
         /\ Elems(Append(q, v)) = Elems(q) \cup {v}
         /\ NoDup(Append(q, v))
         /\ Append(q, v) # <<>>
         /\ q # <<>> => Head(Append(q, v)) = Head(q)
<1> DEFINE f == Append(q, v)
<1>1. /\ f \in Seq(Vcl) /\ Len(f) = Len(q) + 1 /\ Len(q) \in Nat
      /\ DOMAIN f = 1 .. Len(q) + 1 /\ DOMAIN q = 1 .. Len(q)
      /\ f[Len(q) + 1] = v
  OBVIOUS
<1>2. \A i \in 1 .. Len(q) : f[i] = q[i]
  OBVIOUS
<1>3. f # <<>> /\ (q # <<>> => Head(f) = Head(q))
  BY <1>1, <1>2, SMTT(30)
<1> HIDE DEF f
<1>4. \A n \in 1 .. Len(q) + 1 : n = Len(q) + 1 \/ n \in 1 .. Len(q)
  BY <1>1
<1>5. \A n \in 1 .. Len(q) : q[n] # v /\ n \in 1 .. Len(q) + 1
  BY <1>1 DEF Elems
<1>6. Len(q) + 1 \in 1 .. Len(q) + 1
  BY <1>1
<1>7. Elems(f) = Elems(q) \cup {v}
  BY <1>1, <1>2, <1>4, <1>5, <1>6 DEF Elems
<1>8. NoDup(f)
  BY <1>1, <1>2, <1>4, <1>5 DEF NoDup
<1> QED
  BY <1>1, <1>3, <1>7, <1>8 DEF f

-----------------------------------------------------------------------------
(* The probing thread.                                                     *)
LEMMA StepProbe ==
  ASSUME Inv, ProbeStep
  PROVE  Inv'
<1>0. TypeOK /\ ProbesOK /\ JoinEnds /\ UnprobedIsHealthy
  BY DEF Inv, VclInv, ProbeInv
<1>1. UNCHANGED <<vclVars, beVars, pvcls, stop, cli, sessVars>>
  BY DEF ProbeStep, ProbeTest, ProbeLock, ProbePoke, ProbeSleep, ProbeCancelled
<1>2. /\ probe' \in [pc : ProbePc, vcl : Vcl \cup {None}] /\ healthy' \in BOOLEAN
      /\ probe.pc # "none" /\ probe'.pc # "none" /\ (probe'.pc = "ended" => stop)
      /\ panic' \in {None, "no_vcl"}
  <2>1. CASE ProbeTest
    BY <2>1, <1>0 DEF ProbeTest, ProbeAt, ProbeTo, TypeOK, ProbePc
  <2>2. CASE ProbeLock
    <3>1. pvcls # <<>> => Head(pvcls) \in Vcl
      BY <1>0 DEF TypeOK
    <3> QED
      BY <2>2, <3>1, <1>0 DEF ProbeLock, ProbeAt, TypeOK, ProbePc
  <2>3. CASE ProbePoke \/ ProbeSleep
    BY <2>3, <1>0 DEF ProbePoke, ProbeSleep, ProbeAt, ProbeTo, TypeOK, ProbePc
  <2>4. CASE ProbeCancelled
    BY <2>4, <1>0 DEF ProbeCancelled, ProbeTo, TypeOK, ProbePc
  <2> QED
    BY <2>1, <2>2, <2>3, <2>4 DEF ProbeStep
<1>3. TypeOK'
  BY <1>0, <1>1, <1>2 DEF TypeOK, vclVars, beVars, sessVars, Panics
<1>4. VclInv'
  BY <1>1, <1>3 DEF Inv, VclInv, CliOK, UsesOK, ActiveOK, ActiveIsAvailable, SessOK, OneSession,
     VclBusy, HeldVclStays, LentTo, CachedBy, Finalizing, vclVars, sessVars
<1>5. BackInv'
  BY <1>1, <1>2, BackFrame2, BackendAssumption DEF vclVars, sessVars
<1>6. Probed' = Probed /\ Probing' = Probing
  BY <1>1 DEF Probed, Probing, vclVars
<1>7. ProbeInv'
  BY <1>0, <1>1, <1>2, <1>6 DEF ProbeInv, ProbesOK, JoinEnds, UnprobedIsHealthy, vclVars
<1> QED
  BY <1>4, <1>5, <1>7 DEF Inv

-----------------------------------------------------------------------------
(* The CLI thread.                                                         *)

\* It does not touch what sessions and their threads hold.
LEMMA CliFrame ==
  ASSUME Inv, UNCHANGED <<busy, sessVars>>, TypeOK', CliOK', UsesOK', ActiveOK',
         active # None => active' # None,
         \A v \in Vcl : vstate[v] # "none" /\ ~Finalizing(v) /\ busy[v] # 0
            => uses'[v] = uses[v] /\ vstate'[v] # "none" /\ ~Finalizing(v)'
  PROVE  VclInv'
<1>0. TypeOK /\ SessOK /\ OneSession /\ VclBusy /\ HeldVclStays
  BY DEF Inv, VclInv
<1>1. \A v \in Vcl : LentTo(v)' = LentTo(v) /\ CachedBy(v)' = CachedBy(v)
  BY DEF LentTo, CachedBy, sessVars
<1>2. \A v \in Vcl : LentTo(v) \cup CachedBy(v) # {} => vstate[v] # "none" /\ ~Finalizing(v) /\ busy[v] # 0
  <2> SUFFICES ASSUME NEW v \in Vcl, LentTo(v) \cup CachedBy(v) # {}
               PROVE  vstate[v] # "none" /\ ~Finalizing(v) /\ busy[v] # 0
    OBVIOUS
  <2>1. vstate[v] # "none" /\ ~Finalizing(v)
    BY <1>0 DEF HeldVclStays
  <2>2. (\E s \in Sess : svcl[s] = v) \/ (\E w \in Worker : wvcl[w] = v)
    BY DEF LentTo, CachedBy
  <2> QED
    BY <2>1, <2>2, HeldIsBusy
<1>3. HeldVclStays' /\ VclBusy'
  BY <1>0, <1>1, <1>2 DEF HeldVclStays, VclBusy
<1>4. OneSession'
  BY <1>0 DEF OneSession, sessVars
<1>5. \A s \in Sess : svcl[s] # None => uses'[svcl[s]] = uses[svcl[s]]
  <2> SUFFICES ASSUME NEW s \in Sess, svcl[s] # None PROVE uses'[svcl[s]] = uses[svcl[s]]
    OBVIOUS
  <2>1. svcl[s] \in Vcl /\ s \in LentTo(svcl[s])
    BY <1>0 DEF LentTo, TypeOK
  <2> QED
    BY <2>1, <1>2
<1>6. SessOK'
  <2> USE DEF SessOK
  <2> TAKE s \in Sess
  <2> QED
    BY <1>0, <1>5 DEF sessVars
<1> QED
  BY <1>3, <1>4, <1>6 DEF VclInv

\* Most of its steps leave the probes alone.
LEMMA ProbeFrame ==
  ASSUME Inv, UNCHANGED <<pvcls, probe, stop>>, healthy' = healthy \/ healthy' = TRUE,
         Probed' = Probed, cli.pc # "join", cli'.pc \notin {"cancel", "join"},
         active' \in Probing' /\ cli'.pc # "usehealth"
           => active' = active /\ active \in Probing /\ cli.pc # "usehealth"
  PROVE  ProbeInv'
<1>0. ProbesOK /\ JoinEnds /\ UnprobedIsHealthy
  BY DEF Inv, ProbeInv
<1>1. JoinEnds'
  BY <1>0 DEF JoinEnds
<1>2. UnprobedIsHealthy'
  BY <1>0 DEF UnprobedIsHealthy
<1>3. ProbesOK'
  BY <1>0 DEF ProbesOK
<1> QED
  BY <1>1, <1>2, <1>3 DEF ProbeInv

\* A command arrives, or one that changes nothing is done.
LEMMA StepCommand ==
  ASSUME Inv, CliCommand \/ OtherCommand \/ VBE_Poll
  PROVE  Inv'
<1>0. TypeOK /\ CliOK /\ UsesOK /\ ActiveOK /\ AliveOK /\ Counts
  BY DEF Inv, VclInv, BackInv
<1>1. /\ cli.pc \in {"idle", "poll", "cmd"} /\ cli.v = None /\ panic = None
      /\ cli'.pc \in {"idle", "poll", "cmd"} /\ cli'.v = None
      /\ cli' \in [pc : CliPc, v : Vcl \cup {None}, reg : Int, todo : SUBSET Vcl, ret : {"idle", "poll"}]
  <2>1. CASE CliCommand
    BY <2>1, <1>0 DEF CliCommand, CliAt, TypeOK, CliOK, CliPc
  <2>2. CASE OtherCommand
    BY <2>2, <1>0 DEF OtherCommand, CliAt, TypeOK, CliOK, CliPc, IdleCli
  <2>3. CASE VBE_Poll
    BY <2>3, <1>0 DEF VBE_Poll, CliAt, CliTo, TypeOK, CliOK, CliPc
  <2> QED
    BY <2>1, <2>2, <2>3
<1>2. /\ balive' \in BOOLEAN /\ (balive' => balive)
      /\ raced \/ balive' = balive
  <2>1. raced \/ (refcount = 0 => ~balive)
    BY <1>0, Finite DEF AliveOK, Counts
  <2>2. balive \in BOOLEAN
    BY <1>0 DEF TypeOK
  <2>3. balive' = balive \/ balive' = (balive /\ ~(refcount = 0 /\ probe.pc = "none"))
    BY DEF CliCommand, OtherCommand, VBE_Poll, beVars
  <2>4. CASE balive' = balive
    BY <2>2, <2>4
  <2>5. CASE balive' # balive
    <3>1. balive /\ ~balive' /\ refcount = 0 /\ balive' \in BOOLEAN
      BY <2>2, <2>3, <2>5
    <3> QED
      BY <3>1, <2>1
  <2> QED
    BY <2>4, <2>5
<1>3. UNCHANGED <<vclVars, refcount, n_conn, connlist, raced, probeVars, sessVars, panic>>
  BY DEF CliCommand, OtherCommand, VBE_Poll, beVars
<1>4. TypeOK'
  BY <1>0, <1>1, <1>2, <1>3 DEF TypeOK, vclVars, probeVars, sessVars
<1>5. CliOK' /\ UsesOK' /\ ActiveOK'
  BY <1>0, <1>1, <1>3, BackendAssumption DEF CliOK, UsesOK, ActiveOK, ActiveIsAvailable, vclVars, Ending
<1>6. \A v \in Vcl : ~Finalizing(v)'
  BY <1>1 DEF Finalizing
<1>7. VclInv'
  BY <1>3, <1>4, <1>5, <1>6, CliFrame DEF vclVars
<1>8. RefHolders' = RefHolders /\ Probed' = Probed /\ Probing' = Probing
  BY <1>1, <1>3, BackendAssumption DEF RefHolders, Declaring, Probed, Probing, vclVars
<1>9. BackInv'
  BY <1>1, <1>2, <1>3, <1>8 DEF Inv, BackInv, AliveOK, AddRefOK, ConnOK, Counts, Users, NoPanic, sessVars
<1>10. ProbeInv'
  BY <1>1, <1>3, <1>8, ProbeFrame DEF vclVars, probeVars
<1> QED
  BY <1>7, <1>9, <1>10 DEF Inv

\* A VCL nobody uses is about to be freed.
LEMMA StepNuke ==
  ASSUME Inv, NEW v \in Garbage, panic' = None,
         cli.pc \in {"poll", "discard"}, cli.v \in {None, v},
         NEW todo \in SUBSET Vcl, NEW ret \in {"idle", "poll"}, Nuke(v, todo, ret),
         UNCHANGED <<vclVars, beVars, probeVars, sessVars>>
  PROVE  Inv'
<1>0. TypeOK /\ CliOK /\ UsesOK /\ ActiveOK
  BY DEF Inv, VclInv
<1>1. /\ \/ cli'.pc = "remove" /\ uses[v] = "probe"
         \/ cli'.pc = "dropref" /\ uses[v] = "backend"
         \/ cli'.pc = "unlink" /\ uses[v] = "nothing"
      /\ cli'.v = v /\ cli'.reg = 0 /\ cli'.todo = todo /\ cli'.ret = ret
      /\ cli' \in [pc : CliPc, v : Vcl \cup {None}, reg : Int, todo : SUBSET Vcl, ret : {"idle", "poll"}]
  <2>1. uses[v] \in {"nothing", "backend", "probe"}
    BY <1>0 DEF TypeOK, Garbage
  <2>6. v \in Vcl
    BY DEF Garbage
  <2>2. (v \in Probing <=> uses[v] = "probe") /\ (v \in Declaring <=> uses[v] # "nothing")
    BY <2>6 DEF Probing, Declaring
  <2>3. CASE uses[v] = "probe"
    <3>1. cli' = [pc |-> "remove", v |-> v, reg |-> 0, todo |-> todo, ret |-> ret]
      BY <2>2, <2>3 DEF Nuke
    <3> QED
      BY <3>1, <2>3, <2>6 DEF CliPc
  <2>4. CASE uses[v] = "backend"
    <3>1. cli' = [pc |-> "dropref", v |-> v, reg |-> 0, todo |-> todo, ret |-> ret]
      BY <2>2, <2>4 DEF Nuke
    <3> QED
      BY <3>1, <2>4, <2>6 DEF CliPc
  <2>5. CASE uses[v] = "nothing"
    <3>1. cli' = [pc |-> "unlink", v |-> v, reg |-> 0, todo |-> todo, ret |-> ret]
      BY <2>2, <2>5 DEF Nuke
    <3> QED
      BY <3>1, <2>5, <2>6 DEF CliPc
  <2> QED
    BY <2>1, <2>3, <2>4, <2>5
<1>2. v \in Vcl /\ vstate[v] = "discarded" /\ busy[v] = 0
  BY DEF Garbage
<1>3. TypeOK'
  BY <1>0, <1>1 DEF TypeOK, vclVars, beVars, probeVars, sessVars
<1>4. CliOK'
  BY <1>0, <1>1, <1>2, BackendAssumption DEF CliOK, Ending, vclVars
<1>5. UsesOK' /\ ActiveOK'
  BY <1>0, <1>1, <1>2, BackendAssumption DEF UsesOK, ActiveOK, ActiveIsAvailable, TypeOK, vclVars
<1>6. VclInv'
  BY <1>1, <1>2, <1>3, <1>4, <1>5, CliFrame DEF Finalizing, vclVars
<1>7. RefHolders' = RefHolders /\ Probed' = Probed /\ Probing' = Probing
  BY <1>1, <1>2, BackendAssumption DEF RefHolders, Declaring, Probed, Probing, vclVars
<1>8. BackInv'
  <2>1. cli'.pc # "addref"
    BY <1>1
  <2> QED
    BY <2>1, <1>7, BackFrame DEF sessVars
<1>9. ProbeInv'
  <2>1. cli'.pc \notin {"cancel", "join", "usehealth"}
    BY <1>1
  <2> QED
    BY <2>1, <1>7, ProbeFrame DEF vclVars, probeVars
<1> QED
  BY <1>6, <1>8, <1>9 DEF Inv

\* VCL_Poll looks at a VCL.
LEMMA StepPoll ==
  ASSUME Inv, NEW v \in Vcl, VCL_Poll(v)
  PROVE  Inv'
<1>0. TypeOK /\ CliOK /\ UsesOK /\ ActiveOK
  BY DEF Inv, VclInv
<1>1. cli.pc = "poll" /\ cli.v = None /\ panic = None /\ UNCHANGED <<vclVars, beVars, probeVars, sessVars, panic>>
  BY <1>0 DEF VCL_Poll, CliAt, CliOK
<1>2. CASE v \in Garbage
  <2>1. Nuke(v, cli.todo \ {v}, "poll") /\ cli.todo \ {v} \in SUBSET Vcl
    BY <1>2, <1>0 DEF VCL_Poll, TypeOK
  <2> QED
    BY <1>1, <1>2, <2>1, StepNuke
<1>3. CASE v \notin Garbage
  <2>1. cli' = [cli EXCEPT !.todo = @ \ {v}]
    BY <1>3 DEF VCL_Poll
  <2>2. /\ cli'.pc = "poll" /\ cli'.v = None
        /\ cli' \in [pc : CliPc, v : Vcl \cup {None}, reg : Int, todo : SUBSET Vcl, ret : {"idle", "poll"}]
    BY <2>1, <1>0, <1>1 DEF TypeOK
  <2>4. TypeOK'
    BY <1>0, <1>1, <2>2 DEF TypeOK, vclVars, beVars, probeVars, sessVars
  <2>5. CliOK' /\ UsesOK' /\ ActiveOK'
    BY <1>0, <1>1, <2>2, BackendAssumption DEF CliOK, UsesOK, ActiveOK, ActiveIsAvailable, vclVars, Ending
  <2>6. \A u \in Vcl : ~Finalizing(u)'
    BY <2>2 DEF Finalizing
  <2>7. VclInv'
    BY <1>1, <2>4, <2>5, <2>6, CliFrame DEF vclVars
  <2>8. RefHolders' = RefHolders /\ Probed' = Probed /\ Probing' = Probing
    BY <1>1, <2>2, BackendAssumption DEF RefHolders, Declaring, Probed, Probing, vclVars
  <2>9. BackInv'
    BY <1>1, <2>2, <2>8, BackFrame DEF sessVars
  <2>10. ProbeInv'
    BY <1>1, <2>2, <2>8, ProbeFrame DEF vclVars, probeVars
  <2> QED
    BY <2>7, <2>9, <2>10 DEF Inv
<1> QED
  BY <1>2, <1>3

\* vcl.discard marks the VCL under the mutex.
LEMMA StepDiscard ==
  ASSUME Inv, NEW v \in Vcl, ccf_config_discard(v)
  PROVE  Inv'
<1>0. TypeOK /\ CliOK /\ UsesOK /\ ActiveOK
  BY DEF Inv, VclInv
<1>1. /\ cli.pc = "cmd" /\ cli.v = None /\ panic = None
      /\ v # active /\ vstate[v] = "avail" /\ vstate' = [vstate EXCEPT ![v] = "discarded"]
      /\ cli' = Call("discard", v)
      /\ UNCHANGED <<uses, busy, active, beVars, probeVars, sessVars, panic>>
  BY <1>0 DEF ccf_config_discard, CliAt, CliOK, Discardable
<1>2. /\ cli'.pc = "discard" /\ cli'.v = v
      /\ cli' \in [pc : CliPc, v : Vcl \cup {None}, reg : Int, todo : SUBSET Vcl, ret : {"idle", "poll"}]
  BY <1>1, SmallInts DEF Call, IdleCli, CliPc
<1>3. vstate'[v] = "discarded" /\ \A u \in Vcl : u # v => vstate'[u] = vstate[u]
  BY <1>0, <1>1 DEF TypeOK
<1>4. TypeOK'
  BY <1>0, <1>1, <1>2 DEF TypeOK, beVars, probeVars, sessVars
<1>5. CliOK' /\ UsesOK' /\ ActiveOK'
  BY <1>0, <1>1, <1>2, <1>3, BackendAssumption DEF TypeOK, CliOK, UsesOK, ActiveOK, ActiveIsAvailable, Ending
<1>6. \A u \in Vcl : ~Finalizing(u)'
  BY <1>2 DEF Finalizing
<1>7. VclInv'
  BY <1>1, <1>3, <1>4, <1>5, <1>6, CliFrame
<1>8. RefHolders' = RefHolders /\ Probed' = Probed /\ Probing' = Probing
  BY <1>1, <1>2, <1>3, BackendAssumption DEF RefHolders, Declaring, Probed, Probing
<1>9. BackInv'
  BY <1>1, <1>2, <1>8, BackFrame DEF sessVars
<1>10. ProbeInv'
  BY <1>1, <1>2, <1>8, ProbeFrame DEF probeVars
<1> QED
  BY <1>7, <1>9, <1>10 DEF Inv

\* It frees the VCL at once, or leaves it to VCL_Poll.
LEMMA StepUnused ==
  ASSUME Inv, DiscardUnused
  PROVE  Inv'
<1>0. TypeOK /\ CliOK /\ UsesOK /\ ActiveOK
  BY DEF Inv, VclInv
<1>1. /\ cli.pc = "discard" /\ cli.v \in Vcl /\ panic = None
      /\ vstate[cli.v] = "discarded"
      /\ UNCHANGED <<vclVars, beVars, probeVars, sessVars, panic>>
  BY <1>0 DEF DiscardUnused, CliAt, CliOK, TypeOK
<1>2. CASE cli.v \in Garbage
  <2>1. Nuke(cli.v, {}, "idle")
    BY <1>2 DEF DiscardUnused
  <2> QED
    BY <1>1, <1>2, <2>1, StepNuke
<1>3. CASE cli.v \notin Garbage
  <2>1. cli' = IdleCli
    BY <1>3 DEF DiscardUnused
  <2>2. /\ cli'.pc = "idle" /\ cli'.v = None
        /\ cli' \in [pc : CliPc, v : Vcl \cup {None}, reg : Int, todo : SUBSET Vcl, ret : {"idle", "poll"}]
    BY <2>1 DEF IdleCli, CliPc
  <2>4. TypeOK'
    BY <1>0, <1>1, <2>2 DEF TypeOK, vclVars, beVars, probeVars, sessVars
  <2>5. CliOK' /\ UsesOK' /\ ActiveOK'
    BY <1>0, <1>1, <2>2, BackendAssumption DEF CliOK, UsesOK, ActiveOK, ActiveIsAvailable, vclVars, Ending
  <2>6. \A u \in Vcl : ~Finalizing(u)'
    BY <2>2 DEF Finalizing
  <2>7. VclInv'
    BY <1>1, <2>4, <2>5, <2>6, CliFrame DEF vclVars
  <2>8. RefHolders' = RefHolders /\ Probed' = Probed /\ Probing' = Probing
    BY <1>1, <2>2, BackendAssumption DEF RefHolders, Declaring, Probed, Probing, vclVars
  <2>9. BackInv'
    BY <1>1, <2>2, <2>8, BackFrame DEF sessVars
  <2>10. ProbeInv'
    BY <1>1, <2>2, <2>8, ProbeFrame DEF vclVars, probeVars
  <2> QED
    BY <2>7, <2>9, <2>10 DEF Inv
<1> QED
  BY <1>2, <1>3

\* vcl.load: the backend gets its first reference, or is about to get another.
LEMMA StepLoad ==
  ASSUME Inv, NEW v \in Vcl, NEW u \in Uses, VCL_Load(v, u)
  PROVE  Inv'
<1>0. TypeOK /\ CliOK /\ UsesOK /\ ActiveOK /\ AliveOK /\ ConnOK /\ Counts /\ SessOK
  BY DEF Inv, VclInv, BackInv
<1>1. /\ cli.pc = "cmd" /\ cli.v = None /\ panic = None /\ vstate[v] = "none" /\ uses[v] = "nothing"
      /\ v # active
  <2>1. cli.pc = "cmd" /\ panic = None /\ vstate[v] = "none"
    BY DEF VCL_Load, CliAt
  <2>2. cli.v = None
    BY <2>1, <1>0 DEF CliOK
  <2> QED
    BY <2>1, <2>2, <1>0, BackendAssumption DEF UsesOK, ActiveOK, ActiveIsAvailable
<1>2. /\ UNCHANGED <<vstate, busy, active, pvcls, probe, stop, sessVars, panic>>
      /\ uses' = [uses EXCEPT ![v] = u]
      /\ healthy' = healthy \/ healthy' = TRUE
      /\ u \in {"nothing", "backend", "probe"}
  BY BackendAssumption DEF VCL_Load
<1>3. uses'[v] = u /\ \A x \in Vcl : x # v => uses'[x] = uses[x]
  BY <1>0, <1>2 DEF TypeOK
<1> DEFINE fresh == u # "nothing" /\ ~balive
<1>4. /\ cli'.v = v
      /\ cli'.pc = IF u = "nothing" THEN "link" ELSE IF balive THEN "addref" ELSE "insert"
      /\ cli' \in [pc : CliPc, v : Vcl \cup {None}, reg : Int, todo : SUBSET Vcl, ret : {"idle", "poll"}]
  <2>1. refcount \in Int
    BY <1>0 DEF TypeOK
  <2>2. CASE u = "nothing" \/ ~balive
    <3>1. cli' = Call(IF u = "nothing" THEN "link" ELSE "insert", v)
      BY <2>2 DEF VCL_Load
    <3> QED
      BY <3>1, <2>2, SmallInts DEF Call, IdleCli, CliPc
  <2>3. CASE u # "nothing" /\ balive
    <3>1. cli' = [Call("addref", v) EXCEPT !.reg = refcount]
      BY <2>3 DEF VCL_Load
    <3> QED
      BY <3>1, <2>1, <2>3 DEF Call, IdleCli, CliPc
  <2> QED
    BY <2>2, <2>3
<1>5. \A x \in Vcl : x # v => (x \in RefHolders <=> x \in RefHolders')
  BY <1>1, <1>2, <1>3, <1>4, BackendAssumption DEF RefHolders, Declaring
<1>6. v \notin RefHolders /\ (v \in RefHolders' <=> fresh)
  BY <1>1, <1>2, <1>3, <1>4 DEF RefHolders, Declaring
<1>7. Cardinality(RefHolders') = Cardinality(RefHolders) + (IF fresh THEN 1 ELSE 0)
  BY <1>5, <1>6, HoldersMove, <1>0, Finite
<1>8. /\ Cardinality(RefHolders) \in Nat /\ Cardinality(Users) \in Nat /\ Users' = Users
      /\ Cardinality(connlist) \in Nat /\ refcount \in Int /\ n_conn \in Int
  BY <1>0, <1>2, Finite DEF TypeOK, Users, sessVars
<1>9. /\ balive' \in BOOLEAN /\ refcount' \in Int /\ n_conn' \in Int /\ connlist' \in SUBSET Conn
      /\ raced' \in BOOLEAN /\ healthy' \in BOOLEAN
  <2>1. CASE ~fresh
    BY <2>1, <1>0 DEF VCL_Load, TypeOK, beVars
  <2>2. CASE fresh
    <3>1. /\ balive' = TRUE /\ refcount' = 1 /\ n_conn' = 0 /\ connlist' = {}
          /\ raced' = FALSE /\ healthy' = TRUE
      BY <2>2 DEF VCL_Load
    <3> QED
      BY <3>1, SmallInts
  <2> QED
    BY <2>1, <2>2
<1>10. TypeOK'
  BY <1>0, <1>2, <1>4, <1>9 DEF TypeOK, sessVars
<1>11. CliOK' /\ UsesOK' /\ ActiveOK'
  BY <1>0, <1>1, <1>2, <1>3, <1>4, BackendAssumption DEF CliOK, UsesOK, ActiveOK, ActiveIsAvailable, Ending
<1>12. VclInv'
  BY <1>1, <1>2, <1>3, <1>4, <1>10, <1>11, CliFrame DEF Finalizing
<1>13. ProbeInv'
  <2>1. Probed' = Probed
    BY <1>1, <1>2, <1>3, <1>4, BackendAssumption DEF Probed, Probing
  <2>2. active \in Probing' <=> active \in Probing
    BY <1>1, <1>3 DEF Probing
  <2> QED
    BY <2>1, <2>2, <1>1, <1>2, <1>4, ProbeFrame
<1>14. AliveOK' /\ AddRefOK' /\ ConnOK' /\ Counts'
  <2>1. CASE ~fresh
    <3>1. UNCHANGED beVars
      BY <2>1 DEF VCL_Load
    <3>2. RefHolders' = RefHolders
      <4>1. RefHolders' \subseteq Vcl /\ RefHolders \subseteq Vcl
        BY DEF RefHolders, Declaring
      <4> QED
        BY <4>1, <1>5, <1>6, <2>1
    <3>3. AddRefOK'
      BY <3>1, <1>4 DEF AddRefOK, beVars
    <3> QED
      BY <3>1, <3>2, <3>3, <1>0, <1>2, <1>8 DEF AliveOK, ConnOK, Counts, beVars, sessVars
  <2>2. CASE fresh
    <3>1. /\ balive' = TRUE /\ refcount' = 1 /\ n_conn' = 0 /\ connlist' = {}
          /\ Declaring = {}
      BY <2>2 DEF VCL_Load
    <3>2. RefHolders = {}
      BY <3>1 DEF RefHolders
    <3>3. Users = {}
      <4> SUFFICES ASSUME NEW s \in Sess, vbc[s] # None PROVE FALSE
        BY DEF Users
      <4>1. svcl[s] \in Vcl /\ uses[svcl[s]] # "nothing"
        BY <1>0 DEF SessOK, TypeOK
      <4> QED
        BY <4>1, <3>1 DEF Declaring
    <3>4. Cardinality(RefHolders) = 0 /\ Cardinality(Users) = 0 /\ Cardinality(connlist') = 0
      BY <3>1, <3>2, <3>3, <1>0, Finite, FS_EmptySet
    <3>5. Counts'
      BY <3>1, <3>4, <1>7, <1>8, <2>2 DEF Counts
    <3>6. AliveOK' /\ AddRefOK' /\ ConnOK'
      BY <3>1, <1>6, <2>2, <1>2, <1>0 DEF AliveOK, AddRefOK, ConnOK, sessVars
    <3> QED
      BY <3>5, <3>6
  <2> QED
    BY <2>1, <2>2
<1>15. NoPanic'
  BY <1>1, <1>2, BackendAssumption DEF NoPanic, Panics
<1> QED
  BY <1>12, <1>13, <1>14, <1>15 DEF Inv, BackInv

\* The store of b->refcount++ is right unless the count moved after the load.
LEMMA StepAddRef ==
  ASSUME Inv, AddRefStore
  PROVE  Inv'
<1>0. TypeOK /\ CliOK /\ UsesOK /\ ActiveOK /\ AddRefOK /\ ConnOK /\ Counts
  BY DEF Inv, VclInv, BackInv
<1> DEFINE v == cli.v
<1>1. /\ cli.pc = "addref" /\ v \in Vcl /\ panic = None /\ vstate[v] = "none" /\ uses[v] # "nothing"
      /\ v # active /\ balive /\ cli.reg \in Int
  BY <1>0 DEF AddRefStore, CliAt, CliOK, TypeOK, ActiveOK, ActiveIsAvailable, AddRefOK
<1>2. /\ UNCHANGED <<vclVars, balive, n_conn, connlist, probeVars, sessVars, panic>>
      /\ refcount' = cli.reg + 1
      /\ raced' = (raced \/ refcount # cli.reg)
      /\ cli' = Call("insert", v)
  BY DEF AddRefStore
<1>3. /\ cli'.pc = "insert" /\ cli'.v = v
      /\ cli' \in [pc : CliPc, v : Vcl \cup {None}, reg : Int, todo : SUBSET Vcl, ret : {"idle", "poll"}]
  BY <1>1, <1>2, SmallInts DEF Call, IdleCli, CliPc
<1>4. TypeOK'
  <2>1. refcount' \in Int /\ raced' \in BOOLEAN
    BY <1>0, <1>1, <1>2 DEF TypeOK
  <2> QED
    BY <2>1, <1>0, <1>2, <1>3 DEF TypeOK, vclVars, probeVars, sessVars
<1>5. CliOK' /\ UsesOK' /\ ActiveOK'
  BY <1>0, <1>1, <1>2, <1>3, BackendAssumption DEF CliOK, UsesOK, ActiveOK, ActiveIsAvailable, vclVars, Ending
<1>6. \A u \in Vcl : ~Finalizing(u)'
  BY <1>3 DEF Finalizing
<1>7. VclInv'
  BY <1>2, <1>4, <1>5, <1>6, CliFrame DEF vclVars
<1>8. Probed' = Probed /\ Probing' = Probing
  BY <1>1, <1>2, <1>3 DEF Probed, Probing, vclVars
<1>9. ProbeInv'
  BY <1>1, <1>2, <1>3, <1>8, ProbeFrame DEF vclVars, probeVars
<1>10. /\ \A x \in Vcl : x # v => (x \in RefHolders <=> x \in RefHolders')
       /\ v \notin RefHolders /\ v \in RefHolders'
  BY <1>1, <1>2, <1>3 DEF RefHolders, Declaring, vclVars
<1>11. /\ Cardinality(RefHolders) \in Nat /\ Cardinality(Users) \in Nat /\ Users' = Users
       /\ refcount \in Int
  BY <1>0, <1>2, Finite DEF TypeOK, Users, sessVars
<1>12. Cardinality(RefHolders') = Cardinality(RefHolders) + 1
  BY <1>1, <1>10, <1>11, HoldersMove
<1>13. Counts'
  <2>3. raced \/ refcount # cli.reg => raced'
    BY <1>2, Zenon
  <2>4. refcount = cli.reg /\ refcount = Cardinality(RefHolders) + Cardinality(Users)
          => refcount' = Cardinality(RefHolders') + Cardinality(Users')
    BY <1>1, <1>2, <1>11, <1>12
  <2>1. raced' \/ refcount' = Cardinality(RefHolders') + Cardinality(Users')
    BY <2>3, <2>4, <1>0 DEF Counts
  <2>2. balive' => n_conn' = Cardinality(connlist') + Cardinality(Users')
    BY <1>0, <1>2, <1>11 DEF Counts
  <2> QED
    BY <2>1, <2>2 DEF Counts
<1>14. AliveOK' /\ AddRefOK' /\ ConnOK' /\ NoPanic'
  <2>1. AliveOK' /\ AddRefOK'
    BY <1>1, <1>2, <1>3, <1>10 DEF AliveOK, AddRefOK
  <2>2. ConnOK'
    BY <1>0, <1>2 DEF ConnOK, sessVars
  <2>3. NoPanic'
    BY <1>1, <1>2, BackendAssumption DEF NoPanic, Panics
  <2> QED
    BY <2>1, <2>2, <2>3
<1> QED
  BY <1>7, <1>9, <1>13, <1>14 DEF Inv, BackInv

\* VBP_Insert puts the probe on the list and starts the thread.
LEMMA StepInsert ==
  ASSUME Inv, VBP_Insert
  PROVE  Inv'
<1>0. TypeOK /\ CliOK /\ UsesOK /\ ActiveOK /\ ProbesOK /\ JoinEnds /\ UnprobedIsHealthy
  BY DEF Inv, VclInv, ProbeInv
<1> DEFINE v == cli.v
<1>1. /\ cli.pc = "insert" /\ v \in Vcl /\ panic = None /\ vstate[v] = "none" /\ uses[v] # "nothing"
      /\ v # active
  BY <1>0 DEF VBP_Insert, CliAt, CliOK, TypeOK, ActiveOK, ActiveIsAvailable
<1>2. /\ UNCHANGED <<vclVars, beVars, stop, sessVars, panic>>
      /\ cli'.pc = "link" /\ cli'.v = v
      /\ cli' \in [pc : CliPc, v : Vcl \cup {None}, reg : Int, todo : SUBSET Vcl, ret : {"idle", "poll"}]
  BY <1>0 DEF VBP_Insert, CliTo, TypeOK, CliPc
<1>3. pvcls \in Seq(Vcl) /\ v \notin Elems(pvcls)
  BY <1>0, <1>1 DEF TypeOK, ProbesOK, Probed
<1>4. ASSUME v \in Probing PROVE TypeOK' /\ ProbeInv'
  <2>1. pvcls' = Append(pvcls, v)
    BY <1>4 DEF VBP_Insert
  <2>2. /\ pvcls' \in Seq(Vcl) /\ Elems(pvcls') = Elems(pvcls) \cup {v} /\ NoDup(pvcls')
        /\ pvcls' # <<>> /\ (pvcls # <<>> => Head(pvcls') = Head(pvcls))
    BY <2>1, <1>0, <1>1, <1>3, AppendOK DEF ProbesOK
  <2>3. probe' \in [pc : ProbePc, vcl : Vcl \cup {None}] /\ healthy' \in BOOLEAN
        /\ probe'.pc # "none" /\ (probe'.pc = "ended" => probe.pc = "ended")
    BY <1>4, <1>0 DEF VBP_Insert, TypeOK, ProbePc
  <2>4. TypeOK'
    BY <2>2, <2>3, <1>0, <1>2 DEF TypeOK, vclVars, beVars, sessVars
  <2>5. Probed' = Probed \cup {v}
    BY <1>1, <1>2, <1>4 DEF Probed, Probing, vclVars
  <2>6. ProbesOK'
    BY <2>2, <2>5, <1>0, <1>1, <1>2 DEF ProbesOK, Probing, vclVars
  <2>7. JoinEnds' /\ UnprobedIsHealthy'
    BY <2>2, <2>3, <1>0, <1>1, <1>2 DEF JoinEnds, UnprobedIsHealthy
  <2> QED
    BY <2>4, <2>6, <2>7 DEF ProbeInv
<1>5. ASSUME v \notin Probing PROVE TypeOK' /\ ProbeInv'
  <2>1. UNCHANGED <<pvcls, probe, healthy>>
    BY <1>5 DEF VBP_Insert
  <2>2. TypeOK'
    BY <2>1, <1>0, <1>2 DEF TypeOK, vclVars, beVars, sessVars
  <2>3. Probed' = Probed /\ Probing' = Probing
    BY <1>1, <1>2, <1>5 DEF Probed, Probing, vclVars
  <2> QED
    BY <2>1, <2>2, <2>3, <1>1, <1>2, ProbeFrame DEF vclVars
<1>6. CliOK' /\ UsesOK' /\ ActiveOK'
  BY <1>0, <1>1, <1>2, BackendAssumption DEF CliOK, UsesOK, ActiveOK, ActiveIsAvailable, vclVars, Ending
<1>7. TypeOK' /\ ProbeInv'
  BY <1>4, <1>5
<1>8. VclInv'
  BY <1>1, <1>2, <1>6, <1>7, CliFrame DEF Finalizing, vclVars
<1>9. RefHolders' = RefHolders
  BY <1>1, <1>2 DEF RefHolders, Declaring, vclVars
<1>10. BackInv'
  BY <1>1, <1>2, <1>9, BackFrame DEF sessVars
<1> QED
  BY <1>7, <1>8, <1>10 DEF Inv

\* VCL_Load makes the VCL available, and active if it is the first.
LEMMA StepLink ==
  ASSUME Inv, LinkVcl
  PROVE  Inv'
<1>0. TypeOK /\ CliOK /\ UsesOK /\ ActiveOK /\ ProbesOK /\ JoinEnds /\ UnprobedIsHealthy
  BY DEF Inv, VclInv, ProbeInv
<1> DEFINE v == cli.v
<1>1. /\ cli.pc = "link" /\ v \in Vcl /\ panic = None /\ vstate[v] = "none" /\ v # active
  BY <1>0 DEF LinkVcl, CliAt, CliOK, TypeOK, ActiveOK, ActiveIsAvailable
<1>2. /\ UNCHANGED <<uses, busy, beVars, probeVars, sessVars, panic>>
      /\ vstate' = [vstate EXCEPT ![v] = "avail"]
      /\ active' = IF active = None THEN v ELSE active
      /\ cli'.pc = "idle" /\ cli'.v = None
      /\ cli' \in [pc : CliPc, v : Vcl \cup {None}, reg : Int, todo : SUBSET Vcl, ret : {"idle", "poll"}]
  BY DEF LinkVcl, IdleCli, CliPc
<1>3. vstate'[v] = "avail" /\ \A u \in Vcl : u # v => vstate'[u] = vstate[u]
  BY <1>0, <1>1, <1>2 DEF TypeOK
<1>4. TypeOK'
  BY <1>0, <1>1, <1>2 DEF TypeOK, beVars, probeVars, sessVars
<1>5. CliOK' /\ UsesOK' /\ ActiveOK'
  BY <1>0, <1>1, <1>2, <1>3, BackendAssumption DEF TypeOK, CliOK, UsesOK, ActiveOK, ActiveIsAvailable, Ending
<1>6. \A u \in Vcl : ~Finalizing(u)'
  BY <1>2 DEF Finalizing
<1>7. VclInv'
  BY <1>1, <1>2, <1>3, <1>4, <1>5, <1>6, CliFrame
<1>8. RefHolders' = RefHolders /\ Probed' = Probed /\ Probing' = Probing
  BY <1>1, <1>2, <1>3, BackendAssumption DEF RefHolders, Declaring, Probed, Probing
<1>9. BackInv'
  BY <1>1, <1>2, <1>8, BackFrame DEF sessVars
<1>10. CASE active # None
  BY <1>10, <1>1, <1>2, <1>8, <1>7, <1>9, ProbeFrame DEF probeVars, Inv
<1>11. CASE active = None
  <2>1. \A u \in Vcl : vstate[u] = "none"
    BY <1>11, <1>0 DEF ActiveOK
  <2>2. v \in Probing => Probed = {v}
    BY <2>1, <1>1 DEF Probed, Probing
  <2>3. v \in Probing => pvcls # <<>> /\ Head(pvcls) = v
    <3> SUFFICES ASSUME Elems(pvcls) = {v} PROVE pvcls # <<>> /\ Head(pvcls) = v
      BY <2>2, <1>0 DEF ProbesOK
    <3>1. pvcls # <<>>
      BY DEF Elems
    <3>2. Head(pvcls) = pvcls[1] /\ 1 \in DOMAIN pvcls
      BY <3>1, <1>0 DEF TypeOK
    <3> QED
      BY <3>1, <3>2 DEF Elems
  <2>4. ProbesOK'
    BY <2>3, <1>0, <1>1, <1>2, <1>8, <1>11 DEF ProbesOK, probeVars
  <2>5. JoinEnds' /\ UnprobedIsHealthy'
    BY <1>0, <1>1, <1>2 DEF JoinEnds, UnprobedIsHealthy, probeVars
  <2> QED
    BY <2>4, <2>5, <1>7, <1>9 DEF Inv, ProbeInv
<1> QED
  BY <1>10, <1>11

\* vcl.use, and VBP_Use after it.
LEMMA StepUse ==
  ASSUME Inv, VBP_Use \/ \E v \in Vcl : ccf_config_use(v)
  PROVE  Inv'
<1>0. TypeOK /\ CliOK /\ UsesOK /\ ActiveOK /\ ProbesOK /\ JoinEnds /\ UnprobedIsHealthy
  BY DEF Inv, VclInv, ProbeInv
<1>1. CASE \E v \in Vcl : ccf_config_use(v)
  <2>0. PICK v \in Vcl : ccf_config_use(v)
    BY <1>1
  <2>1. /\ cli.pc = "cmd" /\ cli.v = None /\ panic = None /\ vstate[v] = "avail" /\ active' = v
        /\ UNCHANGED <<vstate, uses, busy, beVars, probeVars, sessVars, panic>>
    BY <1>0, <2>0 DEF ccf_config_use, CliAt, CliOK
  <2>2. /\ \/ cli'.pc = "usehealth" /\ cli'.v = v /\ uses[v] = "probe"
           \/ cli'.pc = "idle" /\ cli'.v = None /\ uses[v] # "probe"
        /\ cli' \in [pc : CliPc, v : Vcl \cup {None}, reg : Int, todo : SUBSET Vcl, ret : {"idle", "poll"}]
    BY <2>0, SmallInts DEF ccf_config_use, Call, IdleCli, CliPc, Probing
  <2>4. TypeOK'
    BY <1>0, <2>1, <2>2 DEF TypeOK, beVars, probeVars, sessVars
  <2>5. CliOK' /\ UsesOK' /\ ActiveOK'
    BY <1>0, <2>1, <2>2, BackendAssumption DEF CliOK, UsesOK, ActiveOK, ActiveIsAvailable, Ending
  <2>6. \A u \in Vcl : ~Finalizing(u)'
    BY <2>2 DEF Finalizing
  <2>7. VclInv'
    BY <2>1, <2>4, <2>5, <2>6, CliFrame, BackendAssumption
  <2>8. RefHolders' = RefHolders /\ Probed' = Probed /\ Probing' = Probing
    BY <2>1, <2>2, BackendAssumption DEF RefHolders, Declaring, Probed, Probing
  <2>9. BackInv'
    BY <2>1, <2>2, <2>8, BackFrame DEF sessVars
  <2>10. ProbeInv'
    BY <2>1, <2>2, <2>8, ProbeFrame DEF probeVars, Probing
  <2> QED
    BY <2>7, <2>9, <2>10 DEF Inv
<1>2. CASE VBP_Use
  <2> DEFINE v == cli.v
  <2>1. /\ cli.pc = "usehealth" /\ v \in Vcl /\ panic = None /\ active = v
        /\ uses[v] = "probe" /\ vstate[v] = "avail"
        /\ UNCHANGED <<vclVars, beVars, healthy, probe, stop, sessVars, panic>>
        /\ pvcls' = ToFront(pvcls, v)
    BY <1>0, <1>2, BackendAssumption DEF VBP_Use, CliAt, CliOK, TypeOK, ActiveOK, ActiveIsAvailable
  <2>2. /\ cli'.pc = "idle" /\ cli'.v = None
        /\ cli' \in [pc : CliPc, v : Vcl \cup {None}, reg : Int, todo : SUBSET Vcl, ret : {"idle", "poll"}]
    BY <1>2 DEF VBP_Use, IdleCli, CliPc
  <2>3. /\ pvcls' \in Seq(Vcl) /\ Elems(pvcls') = Elems(pvcls) \cup {v} /\ NoDup(pvcls')
        /\ pvcls' # <<>> /\ Head(pvcls') = v
    BY <2>1, <1>0, ToFrontOK DEF ProbesOK, TypeOK
  <2>4. TypeOK'
    BY <1>0, <2>1, <2>2, <2>3 DEF TypeOK, vclVars, beVars, sessVars
  <2>5. CliOK' /\ UsesOK' /\ ActiveOK'
    BY <1>0, <2>1, <2>2, BackendAssumption DEF CliOK, UsesOK, ActiveOK, ActiveIsAvailable, Ending, vclVars
  <2>6. \A u \in Vcl : ~Finalizing(u)'
    BY <2>2 DEF Finalizing
  <2>7. VclInv'
    BY <2>1, <2>4, <2>5, <2>6, CliFrame DEF vclVars
  <2>8. RefHolders' = RefHolders /\ Probed' = Probed /\ v \in Probed
    BY <2>1, <2>2, BackendAssumption DEF RefHolders, Declaring, Probed, Probing, vclVars
  <2>9. BackInv'
    BY <2>1, <2>2, <2>8, BackFrame DEF sessVars
  <2>10. pvcls # <<>>
    BY <2>8, <1>0 DEF ProbesOK, Elems
  <2>11. ProbesOK'
    BY <2>1, <2>2, <2>3, <2>8, <1>0 DEF ProbesOK, vclVars
  <2>12. JoinEnds' /\ UnprobedIsHealthy'
    BY <2>1, <2>2, <2>10, <1>0 DEF JoinEnds, UnprobedIsHealthy
  <2> QED
    BY <2>7, <2>9, <2>11, <2>12 DEF Inv, ProbeInv
<1> QED
  BY <1>1, <1>2

\* VBP_Remove, which ends the thread with the last VCL that needs it.
LEMMA StepRemove ==
  ASSUME Inv, VBP_Remove \/ ProbeCancel \/ ProbeJoin
  PROVE  Inv'
<1>0. TypeOK /\ CliOK /\ UsesOK /\ ActiveOK /\ ProbesOK /\ JoinEnds /\ UnprobedIsHealthy
  BY DEF Inv, VclInv, ProbeInv
<1> DEFINE v == cli.v
<1>1. /\ cli.pc \in {"remove", "cancel", "join"} /\ v \in Vcl /\ panic = None
      /\ uses[v] = "probe" /\ vstate[v] = "discarded" /\ active # v
      /\ UNCHANGED <<vclVars, beVars, sessVars, panic>>
  <2>1. /\ cli.pc \in {"remove", "cancel", "join"} /\ panic = None
        /\ UNCHANGED <<vclVars, beVars, sessVars, panic>>
    BY DEF VBP_Remove, ProbeCancel, ProbeJoin, CliAt
  <2> QED
    BY <2>1, <1>0, BackendAssumption DEF CliOK, TypeOK, ActiveOK, ActiveIsAvailable, Ending
<1>2. /\ cli'.v = v
      /\ cli' \in [pc : CliPc, v : Vcl \cup {None}, reg : Int, todo : SUBSET Vcl, ret : {"idle", "poll"}]
      /\ VBP_Remove => cli.pc = "remove" /\ cli'.pc = IF pvcls' = <<>> THEN "cancel" ELSE "dropref"
      /\ ProbeCancel => cli.pc = "cancel" /\ cli'.pc = "join"
      /\ ProbeJoin => cli.pc = "join" /\ cli'.pc = "dropref"
  <2>1. CASE VBP_Remove
    BY <2>1, <1>0 DEF VBP_Remove, ProbeCancel, ProbeJoin, CliTo, CliAt, TypeOK, CliPc, AfterRemove
  <2>2. CASE ProbeCancel
    BY <2>2, <1>0 DEF VBP_Remove, ProbeCancel, ProbeJoin, CliTo, CliAt, TypeOK, CliPc
  <2>3. CASE ProbeJoin
    BY <2>3, <1>0 DEF VBP_Remove, ProbeCancel, ProbeJoin, CliTo, CliAt, TypeOK, CliPc
  <2> QED
    BY <2>1, <2>2, <2>3
<1>3. cli'.pc \in {"cancel", "join", "dropref"}
  BY <1>2
<1>4. CliOK' /\ UsesOK' /\ ActiveOK'
  BY <1>0, <1>1, <1>2, <1>3, BackendAssumption DEF CliOK, UsesOK, ActiveOK, ActiveIsAvailable, vclVars, Ending
<1>5. RefHolders' = RefHolders
  BY <1>1, <1>2, <1>3 DEF RefHolders, Declaring, vclVars
<1>6. BackInv'
  BY <1>1, <1>3, <1>5, BackFrame DEF sessVars
<1>7. Probed' = Probed \ {v} /\ Probing' = Probing
  BY <1>1, <1>2, <1>3 DEF Probed, Probing, vclVars
<1>8. v \in Probed <=> cli.pc = "remove"
  BY <1>1 DEF Probed, Probing
<1>9. ASSUME VBP_Remove PROVE TypeOK' /\ ProbeInv'
  <2>1. UNCHANGED <<healthy, probe, stop>> /\ pvcls' = Others(pvcls, v)
    BY <1>9 DEF VBP_Remove
  <2>2. /\ pvcls' \in Seq(Vcl) /\ Elems(pvcls') = Elems(pvcls) \ {v} /\ NoDup(pvcls')
        /\ pvcls # <<>> /\ Head(pvcls) # v => pvcls' # <<>> /\ Head(pvcls') = Head(pvcls)
    BY <2>1, <1>0, <1>1, OthersOK DEF ProbesOK, TypeOK
  <2>3. TypeOK'
    BY <2>1, <2>2, <1>0, <1>1, <1>2 DEF TypeOK, vclVars, beVars, sessVars
  <2>4. pvcls # <<>>
    BY <1>2, <1>8, <1>9, <1>0 DEF ProbesOK, Elems
  <2>5. probe.pc # "none" /\ probe.pc # "ended" /\ ~stop
    BY <2>4, <1>0, <1>2, <1>9 DEF JoinEnds
  <2>6. ProbesOK'
    BY <2>1, <2>2, <2>5, <1>0, <1>1, <1>2, <1>7, <1>9 DEF ProbesOK, vclVars
  <2>7. JoinEnds' /\ UnprobedIsHealthy'
    BY <2>1, <2>5, <1>0, <1>2, <1>9 DEF JoinEnds, UnprobedIsHealthy
  <2> QED
    BY <2>3, <2>6, <2>7 DEF ProbeInv
<1>10. ASSUME ProbeCancel PROVE TypeOK' /\ ProbeInv'
  <2>1. UNCHANGED <<pvcls, probe>> /\ healthy' = TRUE /\ stop' = TRUE
    BY <1>10 DEF ProbeCancel
  <2>2. TypeOK'
    BY <2>1, <1>0, <1>1, <1>2 DEF TypeOK, vclVars, beVars, sessVars
  <2>3. Probed' = Probed
    BY <1>2, <1>7, <1>8, <1>10
  <2>4. pvcls = <<>> /\ probe.pc # "none"
    BY <1>0, <1>2, <1>10 DEF ProbesOK
  <2>5. ProbesOK'
    BY <2>1, <2>3, <2>4, <1>0, <1>1, <1>2, <1>7, <1>10 DEF ProbesOK, vclVars
  <2>6. JoinEnds' /\ UnprobedIsHealthy'
    BY <2>1, <2>4, <1>0, <1>2, <1>10 DEF JoinEnds, UnprobedIsHealthy
  <2> QED
    BY <2>2, <2>5, <2>6 DEF ProbeInv
<1>11. ASSUME ProbeJoin PROVE TypeOK' /\ ProbeInv'
  <2>1. pvcls' = pvcls /\ healthy' = TRUE /\ stop' = FALSE /\ probe' = NoProbe
    BY <1>11 DEF ProbeJoin, HealthAfterProbe
  <2>2. TypeOK'
    BY <2>1, <1>0, <1>1, <1>2 DEF TypeOK, vclVars, beVars, sessVars, NoProbe, ProbePc
  <2>3. Probed' = Probed
    BY <1>2, <1>7, <1>8, <1>11
  <2>4. pvcls = <<>>
    BY <1>0, <1>2, <1>11 DEF ProbesOK
  <2>5. ProbesOK'
    BY <2>1, <2>3, <2>4, <1>0, <1>1, <1>2, <1>7, <1>11 DEF ProbesOK, vclVars
  <2>6. JoinEnds' /\ UnprobedIsHealthy'
    BY <2>1, <2>4, <1>0, <1>2, <1>11 DEF JoinEnds, UnprobedIsHealthy, NoProbe
  <2> QED
    BY <2>2, <2>5, <2>6 DEF ProbeInv
<1>12. TypeOK' /\ ProbeInv'
  BY <1>9, <1>10, <1>11
<1>13. VclInv'
  BY <1>1, <1>2, <1>4, <1>12, CliFrame DEF Finalizing, vclVars
<1> QED
  BY <1>6, <1>12, <1>13 DEF Inv

\* VBE_DropRefVcl: the backend goes with its last reference.
LEMMA StepDropRef ==
  ASSUME Inv, VBE_DropRefVcl
  PROVE  Inv'
<1>0. TypeOK /\ CliOK /\ UsesOK /\ ActiveOK /\ AliveOK /\ ConnOK /\ Counts /\ SessOK
  BY DEF Inv, VclInv, BackInv
<1> DEFINE v == cli.v
<1>1. /\ cli.pc = "dropref" /\ v \in Vcl /\ panic = None
      /\ uses[v] # "nothing" /\ vstate[v] = "discarded" /\ active # v
  <2>1. cli.pc = "dropref" /\ panic = None
    BY DEF VBE_DropRefVcl, CliAt
  <2> QED
    BY <2>1, <1>0, BackendAssumption DEF CliOK, TypeOK, ActiveOK, ActiveIsAvailable, Ending
<1>2. /\ cli'.v = v /\ cli'.pc = "unlink"
      /\ cli' \in [pc : CliPc, v : Vcl \cup {None}, reg : Int, todo : SUBSET Vcl, ret : {"idle", "poll"}]
      /\ UNCHANGED <<vclVars, n_conn, raced, probeVars, sessVars>>
      /\ refcount' = refcount - 1
      /\ panic' = IF refcount > 0 THEN None ELSE "no_ref"
      /\ refcount' = 0 => balive' = FALSE /\ connlist' = {}
      /\ refcount' # 0 => UNCHANGED <<balive, connlist>>
  BY <1>0 DEF VBE_DropRefVcl, CliTo, TypeOK, CliPc, DropVclRef
<1>3. \A x \in Vcl : x # v => (x \in RefHolders <=> x \in RefHolders')
  BY <1>1, <1>2 DEF RefHolders, Declaring, vclVars
<1>4. v \in RefHolders /\ v \notin RefHolders'
  BY <1>1, <1>2 DEF RefHolders, Declaring, vclVars
<1>5. /\ Cardinality(RefHolders) \in Nat \ {0} /\ Cardinality(Users) \in Nat /\ Users' = Users
      /\ Cardinality(connlist) \in Nat /\ refcount \in Int /\ n_conn \in Int
  BY <1>0, <1>2, <1>4, Finite DEF TypeOK, Users, sessVars
<1>6. Cardinality(RefHolders') = Cardinality(RefHolders) - 1
  BY <1>1, <1>3, <1>4, <1>5, HoldersMove
<1>7. /\ refcount' \in Int
      /\ raced \/ (refcount' = Cardinality(RefHolders') + Cardinality(Users') /\ refcount > 0)
  BY <1>0, <1>2, <1>5, <1>6 DEF Counts
<1>8. TypeOK'
  <2>1. balive' \in BOOLEAN /\ connlist' \in SUBSET Conn /\ panic' \in Panics \cup {None}
    BY <1>0, <1>2 DEF TypeOK, Panics
  <2> QED
    BY <2>1, <1>0, <1>2, <1>7 DEF TypeOK, vclVars, probeVars, sessVars
<1>9. CliOK' /\ UsesOK' /\ ActiveOK'
  BY <1>0, <1>1, <1>2, BackendAssumption DEF CliOK, UsesOK, ActiveOK, ActiveIsAvailable, vclVars, Ending
<1>10. VclInv'
  BY <1>1, <1>2, <1>8, <1>9, CliFrame DEF Finalizing, vclVars
<1>11. Probed' = Probed /\ Probing' = Probing
  BY <1>1, <1>2 DEF Probed, Probing, vclVars
<1>12. ProbeInv'
  BY <1>1, <1>2, <1>11, ProbeFrame DEF vclVars, probeVars
<1>13. balive
  BY DEF VBE_DropRefVcl
<1>14. Cardinality(RefHolders') \in Nat /\ (Cardinality(RefHolders') = 0 <=> RefHolders' = {})
  <2>1. RefHolders' \subseteq Vcl
    BY DEF RefHolders, Declaring
  <2> QED
    BY <2>1, FS_Subset, FS_CardinalityType, FS_EmptySet, BackendAssumption
<1>15. Users # {} => RefHolders' # {}
  <2> SUFFICES ASSUME NEW s \in Sess, vbc[s] # None PROVE RefHolders' # {}
    BY DEF Users
  <2>1. svcl[s] \in Vcl /\ uses[svcl[s]] # "nothing"
    BY <1>0 DEF SessOK, TypeOK
  <2>2. svcl[s] # v
    <3>1. ~Finalizing(svcl[s])
      BY <2>1 DEF Inv, VclInv, HeldVclStays, LentTo
    <3> QED
      BY <3>1, <1>1 DEF Finalizing
  <2>3. svcl[s] \in RefHolders
    BY <2>1, InUse, BackendAssumption
  <2> QED
    BY <2>1, <2>2, <2>3, <1>3
<1>16. raced \/ (refcount' = 0 <=> RefHolders' = {})
  <2>1. Users = {} => Cardinality(Users) = 0
    BY <1>0, Finite
  <2> QED
    BY <2>1, <1>5, <1>7, <1>14, <1>15
<1>17. AliveOK' /\ AddRefOK' /\ ConnOK' /\ Counts' /\ NoPanic'
  <2>1. NoPanic'
    BY <1>2, <1>7, BackendAssumption DEF NoPanic, Panics
  <2>2. AliveOK' /\ AddRefOK'
    BY <1>2, <1>13, <1>16 DEF AliveOK, AddRefOK
  <2>3. ConnOK'
    BY <1>0, <1>2 DEF ConnOK, sessVars
  <2>4. Counts'
    BY <1>0, <1>2, <1>5, <1>7 DEF Counts
  <2> QED
    BY <2>1, <2>2, <2>3, <2>4
<1> QED
  BY <1>10, <1>12, <1>17 DEF Inv, BackInv

\* The end of VCL_Nuke.
LEMMA StepUnlink ==
  ASSUME Inv, UnlinkVcl
  PROVE  Inv'
<1>0. TypeOK /\ CliOK /\ UsesOK /\ ActiveOK
  BY DEF Inv, VclInv
<1> DEFINE v == cli.v
<1>1. /\ cli.pc = "unlink" /\ v \in Vcl /\ panic = None /\ vstate[v] = "discarded" /\ active # v
  <2>1. cli.pc = "unlink" /\ panic = None
    BY DEF UnlinkVcl, CliAt
  <2> QED
    BY <2>1, <1>0, BackendAssumption DEF CliOK, TypeOK, ActiveOK, ActiveIsAvailable, Ending
<1>2. /\ UNCHANGED <<busy, active, beVars, probeVars, sessVars, panic>>
      /\ vstate' = [vstate EXCEPT ![v] = "none"] /\ uses' = [uses EXCEPT ![v] = "nothing"]
      /\ cli'.pc \in {"idle", "poll"} /\ cli'.v = None
      /\ cli' \in [pc : CliPc, v : Vcl \cup {None}, reg : Int, todo : SUBSET Vcl, ret : {"idle", "poll"}]
  BY <1>0 DEF UnlinkVcl, CliPc, TypeOK
<1>3. /\ vstate'[v] = "none" /\ \A u \in Vcl : u # v => vstate'[u] = vstate[u]
      /\ uses'[v] = "nothing" /\ \A u \in Vcl : u # v => uses'[u] = uses[u]
  BY <1>0, <1>1, <1>2 DEF TypeOK
<1>4. TypeOK'
  BY <1>0, <1>1, <1>2 DEF TypeOK, beVars, probeVars, sessVars
<1>5. CliOK' /\ UsesOK' /\ ActiveOK'
  BY <1>0, <1>1, <1>2, <1>3, BackendAssumption DEF TypeOK, CliOK, UsesOK, ActiveOK, ActiveIsAvailable, Ending
<1>6. \A u \in Vcl : ~Finalizing(u)'
  BY <1>2 DEF Finalizing
<1>7. Finalizing(v)
  BY <1>1 DEF Finalizing
<1>8. VclInv'
  BY <1>1, <1>2, <1>3, <1>4, <1>5, <1>6, <1>7, CliFrame
<1>9. RefHolders' = RefHolders /\ Probed' = Probed
  BY <1>1, <1>2, <1>3, BackendAssumption DEF RefHolders, Declaring, Probed, Probing
<1>10. active \in Probing' => active \in Probing
  BY <1>3, <1>1 DEF Probing
<1>11. BackInv'
  BY <1>1, <1>2, <1>9, BackFrame DEF sessVars
<1>12. ProbeInv'
  BY <1>1, <1>2, <1>9, <1>10, ProbeFrame DEF probeVars
<1> QED
  BY <1>8, <1>11, <1>12 DEF Inv

-----------------------------------------------------------------------------
(* Every step preserves the invariant.                                     *)
LEMMA InvStep ==
  ASSUME Inv, [Next]_vars
  PROVE  Inv'
<1>1. CASE CliStep
  BY <1>1, StepCommand, StepPoll, StepDiscard, StepUnused, StepLoad, StepAddRef, StepInsert, StepLink,
     StepUse, StepRemove, StepDropRef, StepFreed, StepUnlink DEF CliStep, CliCmd, CliRest
<1>2. CASE ProbeStep
  BY <1>2, StepProbe
<1>3. CASE \E s \in Sess : VclUse(s) \/ ConnUse(s)
  BY <1>3, StepRefresh, StepPark, StepRel, StepGet, StepReturn, StepDrop, StepNoConn, StepGetConn,
     StepLoseConn, StepFreed DEF VclUse, ConnUse
<1>4. CASE \E w \in Worker : WorkerExit(w)
  BY <1>4, StepDrop
<1>5. CASE Restart
  <2>1. TypeOK'
    <3>1. /\ probe' \in [pc : ProbePc, vcl : Vcl \cup {None}] /\ pvcls' \in Seq(Vcl)
          /\ cli' \in [pc : CliPc, v : Vcl \cup {None}, reg : Int, todo : SUBSET Vcl, ret : {"idle", "poll"}]
      BY <1>5 DEF Restart, NoProbe, IdleCli, ProbePc, CliPc
    <3>2. /\ vstate' \in [Vcl -> {"none", "avail", "discarded"}]
          /\ uses' \in [Vcl -> {"nothing", "backend", "probe"}] /\ busy' \in [Vcl -> Nat]
      BY <1>5 DEF Restart
    <3>3. /\ wvcl' \in [Worker -> Vcl \cup {None}] /\ spc' \in [Sess -> SessPc]
          /\ sw' \in [Sess -> Worker \cup {None}] /\ svcl' \in [Sess -> Vcl \cup {None}]
          /\ vbc' \in [Sess -> Conn \cup {None}]
      BY <1>5 DEF Restart, SessPc
    <3>4. /\ active' = None /\ balive' = FALSE /\ refcount' = 0 /\ n_conn' = 0 /\ connlist' = {}
          /\ raced' = FALSE /\ healthy' = TRUE /\ stop' = FALSE /\ panic' = None
      BY <1>5 DEF Restart
    <3> QED
      BY <3>1, <3>2, <3>3, <3>4, SmallInts DEF TypeOK
  <2>2. /\ (\A v \in Vcl : vstate[v] = "none" /\ uses[v] = "nothing" /\ busy[v] = 0)'
        /\ (active = None)' /\ (~balive)' /\ (refcount = 0)' /\ (connlist = {})' /\ healthy'
        /\ (pvcls = <<>>)' /\ (probe = NoProbe)' /\ (~stop)' /\ (cli = IdleCli)' /\ (panic = None)'
        /\ (\A w \in Worker : wvcl[w] = None)'
        /\ (\A s \in Sess : spc[s] = "idle" /\ sw[s] = None /\ svcl[s] = None /\ vbc[s] = None)'
    BY <1>5 DEF Restart, NoProbe, IdleCli
  <2> QED
    BY <2>1, <2>2, InvInit, PTL
<1>6. CASE UNCHANGED vars
  <2>1. UNCHANGED <<vclVars, beVars, probeVars, cli, sessVars, panic>>
    BY <1>6 DEF vars
  <2>2. TypeOK'
    BY <2>1 DEF Inv, VclInv, TypeOK, vclVars, beVars, probeVars, sessVars
  <2>3. SessOK'
    BY <2>1 DEF Inv, VclInv, SessOK, vclVars, sessVars
  <2>4. VclInv' /\ ProbeInv'
    BY <2>1, <2>2, <2>3, VclFrame DEF sessVars
  <2>5. BackInv'
    BY <2>1, BackFrame2 DEF vclVars, sessVars
  <2> QED
    BY <2>4, <2>5 DEF Inv
<1> QED
  BY <1>1, <1>2, <1>3, <1>4, <1>5, <1>6 DEF Next

\* The invariant holds throughout.
LEMMA InvAlways == Spec => []Inv
<1>1. Init => Inv
  <2> SUFFICES ASSUME Init PROVE Inv
    OBVIOUS
  <2>1. TypeOK
    <3>1. /\ probe \in [pc : ProbePc, vcl : Vcl \cup {None}] /\ pvcls \in Seq(Vcl)
          /\ cli \in [pc : CliPc, v : Vcl \cup {None}, reg : Int, todo : SUBSET Vcl, ret : {"idle", "poll"}]
      BY SmallInts DEF Init, NoProbe, IdleCli, ProbePc, CliPc
    <3> QED
      BY <3>1, SmallInts DEF Init, TypeOK, SessPc
  <2> QED
    BY <2>1, InvInit DEF Init
<1>2. Inv /\ [Next]_vars => Inv'
  BY InvStep
<1> QED
  BY <1>1, <1>2, PTL DEF Spec

\* For every number of VCLs, threads and sessions, busy counts the holders of
\* a VCL exactly, and a VCL that is held or active is neither freed nor
\* finalized by the CLI thread.
THEOREM VclCorrect == Spec => []VclSound
<1>1. Inv => VclSound
  BY DEF Inv, VclInv, ActiveOK, VclSound
<1> QED
  BY <1>1, InvAlways, PTL

\* The count of connections is exact.  As long as no session changed
\* b->refcount between the load and the store of VBE_AddBackend's unlocked
\* increment, that count is exact too, the backend is alive as long as a
\* session can use it, nobody finds it freed or unreferenced, and no session
\* drops its last reference.
THEOREM BackendCorrect == Spec => []BackendSound
<1>1. Inv => BackendSound
  <2> SUFFICES ASSUME Inv PROVE BackendSound
    OBVIOUS
  <2>1. ~raced => BackendInUseIsAlive
    BY InUse, BackendAssumption DEF BackendInUseIsAlive, Declaring
  <2>2. BackendRefcnt
    BY DEF Inv, BackInv, Counts, BackendRefcnt
  <2>3. ~raced => panic \notin {"last_ref", "no_ref", "freed"}
    BY DEF Inv, BackInv, NoPanic
  <2> QED
    BY <2>1, <2>2, <2>3 DEF BackendSound
<1> QED
  BY <1>1, InvAlways, PTL

\* Whatever is loaded, used and discarded in whatever order, the probe of the
\* active VCL is the first, and a backend nobody probes is healthy.
THEOREM ProbesCorrect == Spec => []ProbesSound
<1>1. Inv => ProbesSound
  BY DEF Inv, ProbeInv, ProbesOK, ProbesSound, ActiveProbeFirst
<1> QED
  BY <1>1, InvAlways, PTL

\* pthread_join waits only for a thread that was told to stop and that no VCL
\* needs, and no thread ends behind the back of a VCL that needs it.
THEOREM JoinCorrect == Spec => []JoinEnds
<1>1. Inv => JoinEnds
  BY DEF Inv, ProbeInv
<1> QED
  BY <1>1, InvAlways, PTL
=============================================================================
