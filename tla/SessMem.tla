------------------------------ MODULE SessMem -------------------------------
(***************************************************************************)
(* Session memory (cache_session.c).  SES_New, which only the acceptor     *)
(* calls, and SES_Delete, which every thread calls, meet on two free       *)
(* lists: the acceptor takes sessions from its list without a lock, the    *)
(* others insert into the other list under ses_mem_mtx, and the acceptor   *)
(* swaps the lists under that lock when its own is empty.  max_sess limits *)
(* the memory and sess_workspace, which can change, its size.              *)
(***************************************************************************)
EXTENDS Integers, FiniteSets

CONSTANTS
  Mem,       \* pieces of memory malloc could return
  Deleters,  \* worker and waiter threads
  MaxSess    \* params->max_sess

ASSUME SessMemAssumption ==
  /\ MaxSess \in Nat \ {0}
  /\ IsFiniteSet(Mem) /\ IsFiniteSet(Deleters)
  /\ "null" \notin Mem /\ {"null", "acceptor"} \cap Deleters = {}
  /\ Cardinality(Mem) > MaxSess + Cardinality(Deleters)

Nil == "null"
Threads == Deleters \cup {"acceptor"}

VARIABLES
  workspace,     \* params->sess_workspace
  mem,           \* workspace size of each piece of memory, 0 when not allocated
  ses_free_mem,  \* the two free lists, as sets
  ses_qp,        \* which list is the acceptor's
  mtx,           \* holder of ses_mem_mtx
  thr,           \* what each thread does, and with which session
  inuse          \* sessions of clients

memvars == <<mem, ses_free_mem, ses_qp, mtx>>
sessmemvars == <<workspace, mem, ses_free_mem, ses_qp, mtx, thr, inuse>>

Allocated == {s \in Mem : mem[s] # 0}

Local == [pc : {"idle", "look", "take", "flip", "new", "alloc", "accepted", "delete",
                "insert", "link", "pre", "prealloc", "insert2", "link2"},
          s : Mem \cup {Nil}, list : 0..1]

SessMemTypeOK ==
  /\ workspace \in 1..2
  /\ mem \in [Mem -> 0..2]
  /\ ses_free_mem \in [0..1 -> SUBSET Mem] /\ ses_qp \in 0..1
  /\ mtx \in Threads \cup {Nil}
  /\ thr \in [Threads -> Local]
  /\ inuse \subseteq Mem

SessMemInit ==
  /\ workspace = 1
  /\ mem = [s \in Mem |-> 0]
  /\ ses_free_mem = [i \in 0..1 |-> {}] /\ ses_qp = 0 /\ mtx = Nil
  /\ thr = [t \in Threads |-> [pc |-> "idle", s |-> Nil, list |-> 0]]
  /\ inuse = {}

At(t, pc) == thr[t].pc = pc
Go(t, pc, s) == thr' = [thr EXCEPT ![t] = [pc |-> pc, s |-> s, list |-> 0]]
GoOn(t, pcs) == \E p \in pcs : Go(t, p, Nil)

-----------------------------------------------------------------------------
\* ses_sm_alloc: the limit is tested without the lock of the counter, which
\* is incremented later
ses_sm_alloc(t, next) ==
  /\ Go(t, IF Cardinality(Allocated) >= MaxSess THEN "idle" ELSE next, Nil)
  /\ UNCHANGED memvars

\* The rest of ses_sm_alloc, and ses_setup
ses_sm_alloc_end(t, next) ==
  LET s == CHOOSE x \in Mem \ Allocated : TRUE
  IN /\ mem' = [mem EXCEPT ![s] = workspace]
     /\ Go(t, next, s)
     /\ UNCHANGED <<ses_free_mem, ses_qp, mtx>>

\* SES_New: an unlocked look at the acceptor's own list ...
SES_New ==
  /\ At("acceptor", "look")
  /\ \/ \E s \in ses_free_mem[ses_qp] : Go("acceptor", "take", s)
     \/ ses_free_mem[ses_qp] = {} /\ Go("acceptor", "flip", Nil)
  /\ UNCHANGED memvars
  /\ UNCHANGED <<workspace, inuse>>

\* The lists are swapped without the lock (mutation)
ses_flip_unlocked ==
  /\ At("acceptor", "flip")
  /\ ses_qp' = 1 - ses_qp
  /\ \/ \E s \in ses_free_mem[1 - ses_qp] : Go("acceptor", "take", s)
     \/ ses_free_mem[1 - ses_qp] = {} /\ Go("acceptor", "new", Nil)
  /\ UNCHANGED <<mem, ses_free_mem, mtx, workspace, inuse>>

\* The lists are never swapped (mutation)
ses_flip_never ==
  /\ At("acceptor", "flip")
  /\ Go("acceptor", "new", Nil)
  /\ UNCHANGED <<mem, ses_free_mem, ses_qp, mtx, workspace, inuse>>

\* ... and then at the other one, which it takes over under the lock
ses_flip ==
  /\ At("acceptor", "flip")
  /\ mtx = Nil
  /\ ses_qp' = 1 - ses_qp
  /\ \/ \E s \in ses_free_mem[1 - ses_qp] : Go("acceptor", "take", s)
     \/ ses_free_mem[1 - ses_qp] = {} /\ Go("acceptor", "new", Nil)
  /\ UNCHANGED <<mem, ses_free_mem, mtx, workspace, inuse>>

ses_take ==
  /\ At("acceptor", "take")
  /\ ses_free_mem' = [ses_free_mem EXCEPT ![ses_qp] = @ \ {thr["acceptor"].s}]
  /\ Go("acceptor", "accepted", thr["acceptor"].s)
  /\ UNCHANGED <<mem, ses_qp, mtx, workspace, inuse>>

\* Both lists were empty; at the limit vca_acct drops the client
ses_new ==
  /\ \/ At("acceptor", "new") /\ ses_sm_alloc("acceptor", "alloc")
     \/ At("acceptor", "alloc") /\ ses_sm_alloc_end("acceptor", "accepted")
  /\ UNCHANGED <<workspace, inuse>>

\* SES_Delete: memory of another size than the one wanted now is freed, other
\* memory is washed for reuse
SES_Delete(t) ==
  /\ At(t, "delete")
  /\ LET s == thr[t].s
     IN IF mem[s] # workspace
        THEN /\ mem' = [mem EXCEPT ![s] = 0]
             /\ GoOn(t, {"pre", "idle"})
        ELSE /\ Go(t, "insert", s)
             /\ UNCHANGED mem
  /\ UNCHANGED <<ses_free_mem, ses_qp, mtx, workspace, inuse>>

\* VTAILQ_INSERT_HEAD into the list that is not the acceptor's: under the lock
\* the list is chosen, then the session is linked.  Whether memory is made in
\* advance after that depends on n_sess, which several threads change without
\* a lock, so that both happen.
ses_insert(t) ==
  /\ \/ /\ thr[t].pc \in {"insert", "insert2"}
        /\ mtx = Nil /\ mtx' = t
        /\ thr' = [thr EXCEPT ![t] =
             [pc |-> IF @.pc = "insert" THEN "link" ELSE "link2", s |-> @.s,
              list |-> 1 - ses_qp]]
        /\ UNCHANGED ses_free_mem
     \/ /\ thr[t].pc \in {"link", "link2"}
        /\ mtx' = Nil
        /\ ses_free_mem' = [ses_free_mem EXCEPT ![thr[t].list] = @ \cup {thr[t].s}]
        /\ GoOn(t, IF thr[t].pc = "link" THEN {"pre", "idle"} ELSE {"idle"})
  /\ UNCHANGED <<mem, ses_qp, workspace, inuse>>

\* One session of memory made in advance
ses_precreate(t) ==
  /\ \/ At(t, "pre") /\ ses_sm_alloc(t, "prealloc")
     \/ At(t, "prealloc") /\ ses_sm_alloc_end(t, "insert2")
  /\ UNCHANGED <<workspace, inuse>>

\* vca_acct has a client, and gives its session to the pools or deletes it
AcceptClient ==
  \/ /\ At("acceptor", "idle")
     /\ Go("acceptor", "look", Nil)
     /\ UNCHANGED memvars /\ UNCHANGED <<workspace, inuse>>
  \/ /\ At("acceptor", "accepted")
     /\ \/ /\ inuse' = inuse \cup {thr["acceptor"].s}
           /\ Go("acceptor", "idle", Nil)
        \/ /\ Go("acceptor", "delete", thr["acceptor"].s)
           /\ UNCHANGED inuse
     /\ UNCHANGED memvars /\ UNCHANGED workspace

\* A worker or the waiter is done with a session
Finish(t) ==
  /\ t \in Deleters /\ At(t, "idle")
  /\ \E s \in inuse :
       /\ inuse' = inuse \ {s}
       /\ Go(t, "delete", s)
  /\ UNCHANGED memvars /\ UNCHANGED workspace

\* param.set sess_workspace
mcf_param_set ==
  /\ workspace' = 3 - workspace
  /\ UNCHANGED <<thr, inuse>> /\ UNCHANGED memvars

Memory(t) == SES_Delete(t) \/ ses_insert(t) \/ ses_precreate(t)
Accept == SES_New \/ ses_flip \/ ses_take \/ ses_new \/ AcceptClient

SessMemNext ==
  \/ Accept
  \/ \E t \in Threads : Memory(t) \/ Finish(t)
  \/ mcf_param_set

SessMemSpec == SessMemInit /\ [][SessMemNext]_sessmemvars

\* The threads run; clients stay as long as they like
SessMemFairSpec ==
  /\ SessMemSpec
  /\ WF_sessmemvars(Accept)
  /\ \A t \in Threads : WF_sessmemvars(Memory(t))

-----------------------------------------------------------------------------
(* Properties *)

\* A session is in one place only: on one free list, in the hands of one
\* thread or of a client; memory that was freed is nowhere.  (The acceptor
\* sees the session it takes off its list there until it has done so.)
MemOwnedOnce ==
  \A s \in Mem :
    LET at == {i \in 1..3 : s \in <<ses_free_mem[0], ses_free_mem[1], inuse>>[i]}
        hands == {t \in Threads : thr[t].s = s /\ thr[t].pc # "take"}
    IN /\ Cardinality(at) + Cardinality(hands) <= 1
       /\ mem[s] = 0 => at = {} /\ hands = {}

\* The acceptor works on its list without the lock: whoever links a session
\* does so on the other list
ListsApart ==
  \A t \in Threads : thr[t].pc \in {"link", "link2"} => thr[t].list # ses_qp

\* max_sess can be exceeded by the allocations that are under way at the same
\* time and by no more, one for every other thread
SessMemBound ==
  Cardinality(Allocated)
    + Cardinality({t \in Threads : thr[t].pc \in {"alloc", "prealloc"}})
      <= MaxSess + Cardinality(Threads) - 1

\* A session that is free, on whichever list, gets a client as long as clients
\* come: SES_New does not go on refusing them
FreeIsUsed == ses_free_mem[0] \cup ses_free_mem[1] # {} ~> thr["acceptor"].pc = "take"

\* Session memory has one owner and is bounded, although the acceptor takes from
\* its list without the lock (SES_New, SES_Delete, ses_sm_alloc).
SessMemSound == SessMemTypeOK /\ MemOwnedOnce /\ ListsApart /\ SessMemBound
=============================================================================
