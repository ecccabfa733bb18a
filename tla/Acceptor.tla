------------------------------ MODULE Acceptor ------------------------------
(***************************************************************************)
(* Sessions between requests: the acceptor thread (cache_acceptor.c) and   *)
(* the thread that waits for the next request of an idle client, in its    *)
(* four implementations (cache_waiter_epoll.c, _kqueue.c, _ports.c and     *)
(* _poll.c).                                                               *)
(*                                                                         *)
(* A session wanders between the acceptor, the worker pools, the pipe to   *)
(* the waiter and the waiter's list without any lock of its own; the       *)
(* kernel delivers events to whatever session a descriptor was registered  *)
(* for, and descriptors and session memory are used again at once.         *)
(* Worker threads are reduced to what they do with a session in the end    *)
(* (Center), the recycling of session memory to one step (SessMem).  The   *)
(* deadline of an idle session may pass at any time: t_open is not in the  *)
(* order of the waiter's list, since workers linger.                       *)
(***************************************************************************)
EXTENDS Integers, Sequences, FiniteSets, SequencesExt

CONSTANTS
  Sessions,  \* session memory, params->max_sess pieces of it
  Fds,       \* file descriptors for clients
  Waiters    \* the waiters the platform offers

ASSUME AcceptorAssumption ==
  /\ Fds \subseteq Nat
  /\ Sessions \cap {"pipe", "null"} = {}
  /\ Waiters \subseteq {"epoll", "kqueue", "ports", "poll"}

Nobody == "null"
NoFd == -1

VARIABLES
  vca_act,    \* the waiter in use
  free,       \* sessions that are not in use
  fd,         \* sp->fd
  expired,    \* has the deadline of the idle session passed
  evptr,      \* epoll: sp->ev.data.ptr is set
  queue,      \* sessions in the worker pools' queues
  work,       \* sessions worker threads have
  pipe,       \* vca_pipes, or the user events of the port
  sesshead,   \* the waiter's list
  round,      \* where the waiter is in its loop
  evs,        \* events of this round not yet handled
  scan,       \* poll: the rest of the list in this round
  dotimer,    \* this round ends with a check for timeouts
  ticked,     \* the timer has something to say
  known,      \* epoll: the fds in the kernel's set
  armed,      \* the session an event on the fd would be delivered for
  ki,         \* kqueue: changes the kernel has not been told yet
  vca_panic   \* an assertion failed

sessvars == <<fd, expired, evptr>>
kernel == <<known, armed, ki>>
loopvars == <<round, evs, scan, dotimer, ticked>>
acceptorvars ==
  <<vca_act, free, fd, expired, evptr, queue, work, pipe, sesshead, round,
    evs, scan, dotimer, ticked, known, armed, ki, vca_panic>>

AcceptorTypeOK ==
  /\ vca_act \in Waiters
  /\ free \subseteq Sessions /\ queue \subseteq Sessions /\ work \subseteq Sessions
  /\ fd \in [Sessions -> Fds \cup {NoFd}]
  /\ expired \in [Sessions -> BOOLEAN] /\ evptr \in [Sessions -> BOOLEAN]
  /\ \A q \in {pipe, sesshead, scan} : Range(q) \subseteq Sessions
  /\ round \in {"wait", "events", "timer"}
  /\ evs \subseteq Sessions \cup {"pipe"}
  /\ known \subseteq Fds
  /\ armed \in [Fds -> Sessions \cup {Nobody}]
  /\ ki \subseteq Fds \X Sessions
  /\ {dotimer, ticked, vca_panic} \subseteq BOOLEAN

AcceptorInit ==
  /\ vca_act \in Waiters
  /\ free = Sessions
  /\ fd = [s \in Sessions |-> NoFd]
  /\ expired = [s \in Sessions |-> FALSE] /\ evptr = [s \in Sessions |-> FALSE]
  /\ queue = {} /\ work = {} /\ pipe = <<>> /\ sesshead = <<>>
  /\ round = "wait" /\ evs = {} /\ scan = <<>>
  /\ dotimer = FALSE /\ ticked = FALSE
  /\ known = {} /\ armed = [f \in Fds |-> Nobody] /\ ki = {}
  /\ vca_panic = FALSE

-----------------------------------------------------------------------------
(* Acceptor and workers *)

\* SES_Delete, with ses_setup, which clears the whole session
SessionFreed(s) ==
  /\ free' = free \cup {s}
  /\ evptr' = [evptr EXCEPT ![s] = FALSE]

\* close(2): the kernel forgets the descriptor; the array of the poll waiter
\* does not
Closed(f) ==
  /\ known' = known \ {f}
  /\ armed' = IF vca_act = "poll" THEN armed ELSE [armed EXCEPT ![f] = Nobody]

\* vca_close_session and SES_Delete
vca_close_session(s) ==
  /\ Closed(fd[s])
  /\ fd' = [fd EXCEPT ![s] = NoFd]
  /\ SessionFreed(s)

\* WRK_QueueSession: the pools may refuse it (WorkerPool)
WRK_QueueSession(s) ==
  \/ /\ queue' = queue \cup {s}
     /\ UNCHANGED <<fd, known, armed, free, evptr>>
  \/ /\ vca_close_session(s)
     /\ UNCHANGED queue

\* vca_acct: accept(2) returned a descriptor and SES_New a session.  Without a
\* session, or when the pools refuse it, the client is dropped and nothing
\* changes.
vca_acct ==
  /\ ~vca_panic
  /\ Fds \ Range(fd) # {}
  /\ \E s \in free :
       /\ free' = free \ {s}
       /\ fd' = [fd EXCEPT ![s] = Min(Fds \ Range(fd))]
       /\ queue' = queue \cup {s}
  /\ UNCHANGED <<vca_act, expired, evptr, work, pipe, sesshead, vca_panic>>
  /\ UNCHANGED kernel /\ UNCHANGED loopvars

\* wrk_do_cnt_sess: a worker thread takes the session from the queue
WorkerTakes(s) ==
  /\ ~vca_panic
  /\ s \in queue
  /\ queue' = queue \ {s}
  /\ work' = work \cup {s}
  /\ UNCHANGED <<vca_act, free, pipe, sesshead, vca_panic>>
  /\ UNCHANGED sessvars /\ UNCHANGED kernel /\ UNCHANGED loopvars

\* cnt_done closes the session
WorkerCloses(s) ==
  /\ ~vca_panic
  /\ s \in work
  /\ work' = work \ {s}
  /\ vca_close_session(s)
  /\ UNCHANGED <<vca_act, expired, queue, pipe, sesshead, ki, vca_panic>>
  /\ UNCHANGED loopvars

\* vca_return_session: the session goes into the pipe.  A socket that cannot
\* be made nonblocking is closed, and nobody has the session any more.
vca_return_session(s) ==
  /\ ~vca_panic
  /\ s \in work
  /\ work' = work \ {s}
  /\ \/ /\ pipe' = Append(pipe, s)
        /\ UNCHANGED <<fd, known, armed>>
     \/ /\ Closed(fd[s])
        /\ fd' = [fd EXCEPT ![s] = NoFd]
        /\ UNCHANGED pipe
  /\ UNCHANGED <<vca_act, free, expired, evptr, queue, sesshead, ki, vca_panic>>
  /\ UNCHANGED loopvars

-----------------------------------------------------------------------------
(* The waiters *)

\* The waiter's thread is at this point of its loop
Waiting(waiters, r) == ~vca_panic /\ vca_act \in waiters /\ round = r

PipeEvent == IF pipe = <<>> THEN {} ELSE {"pipe"}

\* VTAILQ_REMOVE of a session that is on the list at most once
Without(q, s) ==
  IF s \in Range(q)
  THEN LET p == CHOOSE i \in DOMAIN q : q[i] = s
       IN [i \in 1..Len(q) - 1 |-> IF i < p THEN q[i] ELSE q[i + 1]]
  ELSE q

\* The sessions that just came out of the pipe, by descriptor
Arm(ss) ==
  armed' = [f \in Fds |-> IF \E s \in ss : fd[s] = f
                          THEN CHOOSE s \in ss : fd[s] = f ELSE armed[f]]

\* kevent with the changes put aside so far
Applied ==
  [f \in Fds |-> IF \E s \in Sessions : <<f, s>> \in ki
                 THEN CHOOSE s \in Sessions : <<f, s>> \in ki ELSE armed[f]]

\* epoll_wait or kevent: some of the descriptors are ready, the pipe if
\* something is in it, the timer if it ticked.  The events are one-shot.
vca_main_wait ==
  /\ Waiting({"epoll", "kqueue"}, "wait")
  /\ \E ready \in SUBSET (Range(Applied) \ {Nobody}) :
       /\ ready # {} \/ pipe # <<>> \/ ticked
       /\ evs' = ready \cup PipeEvent
       /\ armed' = [f \in Fds |-> IF Applied[f] \in ready THEN Nobody ELSE Applied[f]]
  /\ ki' = {}
  /\ round' = "events"
  /\ dotimer' = ticked /\ ticked' = FALSE
  /\ UNCHANGED <<vca_act, free, queue, work, pipe, sesshead, scan, known, vca_panic>>
  /\ UNCHANGED sessvars

\* The session stays on the list (mutation)
vca_handover_listed(s) ==
  /\ \/ WRK_QueueSession(s)
     \/ vca_close_session(s) /\ UNCHANGED queue
  /\ expired' = [expired EXCEPT ![s] = FALSE]
  /\ UNCHANGED sesshead

\* vca_handover of a session that is off the list: a whole request goes to the
\* worker pools, anything else is closed
vca_handover(s) ==
  /\ \/ WRK_QueueSession(s)
     \/ vca_close_session(s) /\ UNCHANGED queue
  /\ sesshead' = Without(sesshead, s)
  /\ expired' = [expired EXCEPT ![s] = FALSE]

\* vca_cond_modadd: EPOLL_CTL_MOD if sp->ev was used before, EPOLL_CTL_ADD
\* otherwise; the kernel refuses the wrong one
vca_eev_pipe ==
  /\ Waiting({"epoll"}, "events")
  /\ "pipe" \in evs
  /\ LET ss == Range(pipe)
     IN /\ vca_panic' = \E s \in ss : evptr[s] # (fd[s] \in known)
        /\ known' = known \cup {fd[s] : s \in ss}
        /\ Arm(ss)
        /\ evptr' = [s \in Sessions |-> evptr[s] \/ s \in ss]
  /\ sesshead' = sesshead \o pipe
  /\ pipe' = <<>>
  /\ evs' = evs \ {"pipe"}
  /\ UNCHANGED <<vca_act, free, fd, expired, queue, work, round, scan, dotimer, ticked, ki>>

\* An event of a session: it is armed again when the request is not complete,
\* and leaves the list otherwise, as it does on errors and hangups
vca_eev(s) ==
  /\ Waiting({"epoll"}, "events")
  /\ s \in evs
  /\ evs' = evs \ {s}
  /\ \/ /\ armed' = [armed EXCEPT ![fd[s]] = s]
        /\ UNCHANGED <<free, fd, expired, evptr, queue, known, sesshead>>
     \/ vca_handover(s)
  /\ UNCHANGED <<vca_act, work, pipe, round, scan, dotimer, ticked, ki, vca_panic>>

\* One session is taken from what was read, the rest is lost (mutation)
vca_kev_pipe_first ==
  /\ Waiting({"kqueue"}, "events")
  /\ "pipe" \in evs
  /\ ki' = ki \cup {<<fd[Head(pipe)], Head(pipe)>>}
  /\ sesshead' = Append(sesshead, Head(pipe))
  /\ pipe' = <<>>
  /\ evs' = evs \ {"pipe"}
  /\ UNCHANGED <<vca_act, free, queue, work, round, scan, dotimer, ticked, known, armed, vca_panic>>
  /\ UNCHANGED sessvars

\* The same with kqueue: registrations are changes the kernel is told later.
\* An event without data and without EOF leaves the session unarmed.
vca_kev_pipe ==
  /\ Waiting({"kqueue"}, "events")
  /\ "pipe" \in evs
  /\ ki' = ki \cup {<<fd[s], s>> : s \in Range(pipe)}
  /\ sesshead' = sesshead \o pipe
  /\ pipe' = <<>>
  /\ evs' = evs \ {"pipe"}
  /\ UNCHANGED <<vca_act, free, queue, work, round, scan, dotimer, ticked, known, armed, vca_panic>>
  /\ UNCHANGED sessvars

vca_kev(s) ==
  /\ Waiting({"kqueue"}, "events")
  /\ s \in evs
  /\ evs' = evs \ {s}
  /\ \/ /\ ki' \in {ki, ki \cup {<<fd[s], s>>}}
        /\ UNCHANGED <<free, fd, expired, evptr, queue, known, armed, sesshead>>
     \/ vca_handover(s) /\ UNCHANGED ki
  /\ UNCHANGED <<vca_act, work, pipe, round, scan, dotimer, ticked, vca_panic>>

\* The changes are not flushed before descriptors are closed (mutation)
vca_events_unflushed ==
  /\ Waiting({"epoll", "kqueue"}, "events")
  /\ evs = {}
  /\ round' = IF dotimer THEN "timer" ELSE "wait"
  /\ UNCHANGED <<armed, ki>>
  /\ UNCHANGED <<vca_act, free, queue, work, pipe, sesshead, evs, scan, dotimer, ticked,
                 known, vca_panic>>
  /\ UNCHANGED sessvars

\* All events are handled.  Before descriptors are closed, vca_kq_flush tells
\* the kernel the changes.
vca_events_done ==
  /\ Waiting({"epoll", "kqueue"}, "events")
  /\ evs = {}
  /\ round' = IF dotimer THEN "timer" ELSE "wait"
  /\ IF dotimer THEN armed' = Applied /\ ki' = {} ELSE UNCHANGED <<armed, ki>>
  /\ UNCHANGED <<vca_act, free, queue, work, pipe, sesshead, evs, scan, dotimer, ticked,
                 known, vca_panic>>
  /\ UNCHANGED sessvars

\* Sessions at the head of the list whose deadline has passed are closed
vca_timeout ==
  /\ Waiting({"epoll", "kqueue", "ports"}, "timer")
  /\ IF sesshead # <<>> /\ expired[Head(sesshead)]
     THEN /\ vca_close_session(Head(sesshead))
          /\ sesshead' = Tail(sesshead)
          /\ expired' = [expired EXCEPT ![Head(sesshead)] = FALSE]
          /\ UNCHANGED <<round, dotimer>>
     ELSE /\ round' = "wait" /\ dotimer' = FALSE
          /\ UNCHANGED <<free, fd, expired, evptr, sesshead, known, armed>>
  /\ UNCHANGED <<vca_act, queue, work, pipe, evs, scan, ticked, ki, vca_panic>>

\* port_getn: at most one event, whose association is then gone, or a timeout
vca_ports_wait ==
  /\ Waiting({"ports"}, "wait")
  /\ \/ evs' \in {PipeEvent, {}} /\ UNCHANGED armed
     \/ \E f \in Fds : /\ armed[f] # Nobody
                       /\ evs' = {armed[f]}
                       /\ armed' = [armed EXCEPT ![f] = Nobody]
  /\ round' = "events"
  /\ UNCHANGED <<vca_act, free, queue, work, pipe, sesshead, scan, dotimer, ticked,
                 known, ki, vca_panic>>
  /\ UNCHANGED sessvars

\* The event, from a worker or for a descriptor
vca_port_ev ==
  /\ Waiting({"ports"}, "events")
  /\ \/ /\ "pipe" \in evs
        /\ sesshead' = Append(sesshead, Head(pipe))
        /\ pipe' = Tail(pipe)
        /\ Arm({Head(pipe)})
        /\ UNCHANGED <<free, fd, expired, evptr, queue, known>>
     \/ \E s \in evs \ {"pipe"} :
          /\ \/ /\ Arm({s})
                /\ UNCHANGED <<free, fd, expired, evptr, queue, known, sesshead>>
             \/ vca_handover(s)
          /\ UNCHANGED pipe
     \/ evs = {} /\ UNCHANGED <<free, fd, expired, evptr, queue, known, armed, sesshead, pipe>>
  /\ evs' = {}
  /\ round' = "timer"
  /\ UNCHANGED <<vca_act, work, scan, dotimer, ticked, ki, vca_panic>>

\* The poll waiter: poll returns after 100 ms at the latest
vca_poll_wait ==
  /\ Waiting({"poll"}, "wait")
  /\ \E ready \in SUBSET (Range(armed) \ {Nobody}) : evs' = ready \cup PipeEvent
  /\ scan' = sesshead
  /\ round' = "events"
  /\ UNCHANGED <<vca_act, free, queue, work, pipe, sesshead, dotimer, ticked, vca_panic>>
  /\ UNCHANGED sessvars /\ UNCHANGED kernel

\* Off the list and out of the array, then handed over or closed
Unpolled(s) ==
  /\ sesshead' = Without(sesshead, s)
  /\ armed' = [armed EXCEPT ![fd[s]] = Nobody]
  /\ expired' = [expired EXCEPT ![s] = FALSE]

PollClose(s) ==
  /\ fd' = [fd EXCEPT ![s] = NoFd]
  /\ SessionFreed(s)
  /\ UNCHANGED queue

\* One session of its walk over the list: with an event it moves to the front
\* or is handed over; without one it may time out
vca_poll_scan ==
  /\ Waiting({"poll"}, "events")
  /\ scan # <<>>
  /\ evs # {}
  /\ LET s == Head(scan)
     IN /\ evs' = evs \ {s}
        /\ \/ /\ s \in evs
              /\ sesshead' = <<s>> \o Without(sesshead, s)
              /\ UNCHANGED <<free, fd, expired, evptr, queue, armed>>
           \/ /\ s \in evs
              /\ Unpolled(s)
              /\ queue' = queue \cup {s}
              /\ UNCHANGED <<free, fd, evptr>>
           \/ /\ s \in evs \/ expired[s]
              /\ Unpolled(s)
              /\ PollClose(s)
           \/ /\ s \notin evs /\ ~expired[s]
              /\ UNCHANGED <<free, fd, expired, evptr, queue, armed, sesshead>>
  /\ scan' = Tail(scan)
  /\ UNCHANGED <<vca_act, work, pipe, round, dotimer, ticked, known, ki, vca_panic>>

\* The walk ends with the list or with the last event; then comes the pipe.
\* A slot of the array must be unused, and every event must have been found.
vca_poll_end ==
  /\ Waiting({"poll"}, "events")
  /\ scan = <<>> \/ evs = {}
  /\ LET ss == IF "pipe" \in evs THEN Range(pipe) ELSE {}
     IN /\ vca_panic' = \/ evs \ {"pipe"} # {}
                        \/ \E s \in ss : armed[fd[s]] # Nobody
        /\ Arm(ss)
        /\ sesshead' = sesshead \o (IF ss = {} THEN <<>> ELSE pipe)
        /\ pipe' = IF ss = {} THEN pipe ELSE <<>>
  /\ round' = "wait" /\ evs' = {} /\ scan' = <<>>
  /\ UNCHANGED <<vca_act, free, queue, work, dotimer, ticked, known, ki>>
  /\ UNCHANGED sessvars

\* vca_sess_timeout_ticker, or the timer of the kqueue
vca_sess_timeout_ticker ==
  /\ vca_act \in {"epoll", "kqueue"} /\ ~ticked
  /\ ticked' = TRUE
  /\ UNCHANGED <<vca_act, free, queue, work, pipe, sesshead, round, evs, scan, dotimer, vca_panic>>
  /\ UNCHANGED sessvars /\ UNCHANGED kernel

\* Time passes
Expire(s) ==
  /\ s \in Range(sesshead) /\ ~expired[s]
  /\ expired' = [expired EXCEPT ![s] = TRUE]
  /\ UNCHANGED <<vca_act, free, fd, evptr, queue, work, pipe, sesshead, vca_panic>>
  /\ UNCHANGED kernel /\ UNCHANGED loopvars

Work(s) == WorkerTakes(s) \/ WorkerCloses(s) \/ vca_return_session(s)
Wait ==
  \/ vca_main_wait \/ vca_eev_pipe \/ vca_kev_pipe
  \/ \E s \in Sessions : vca_eev(s) \/ vca_kev(s)
  \/ vca_events_done \/ vca_timeout
  \/ vca_ports_wait \/ vca_port_ev
  \/ vca_poll_wait \/ vca_poll_scan \/ vca_poll_end

AcceptorNext ==
  \/ vca_acct
  \/ \E s \in Sessions : Work(s) \/ Expire(s)
  \/ Wait
  \/ vca_sess_timeout_ticker

AcceptorSpec == AcceptorInit /\ [][AcceptorNext]_acceptorvars

\* The waiter runs, the timer ticks and time passes.  Nothing is assumed of
\* the clients.  The port hands out the events of workers although others
\* come, too.
AcceptorFairSpec ==
  /\ AcceptorSpec
  /\ WF_acceptorvars(Wait) /\ WF_acceptorvars(vca_sess_timeout_ticker)
  /\ SF_acceptorvars(vca_ports_wait /\ "pipe" \in evs')
  /\ \A s \in Sessions : WF_acceptorvars(Expire(s))

-----------------------------------------------------------------------------
(* Properties *)

\* A session is in one place only: free, in the pools' queue, with a worker,
\* in the pipe or on the waiter's list, and there only once; a descriptor is
\* open in one session only, and a session that is free has none
OwnedOnce ==
  /\ \A s \in Sessions :
       Cardinality({i \in 1..3 : s \in <<free, queue, work>>[i]})
         + Cardinality({i \in 1..Len(pipe) : pipe[i] = s})
         + Cardinality({i \in 1..Len(sesshead) : sesshead[i] = s}) <= 1
  /\ \A s, t \in Sessions : s # t /\ fd[s] # NoFd => fd[s] # fd[t]
  /\ \A s \in free : fd[s] = NoFd

\* An event is only ever delivered for a session that is on the waiter's list
\* and still owns the descriptor, although descriptors and session memory are
\* used again at once by the other threads
EventsReachIdle ==
  /\ \A f \in Fds : armed[f] # Nobody => fd[armed[f]] = f /\ armed[f] \in Range(sesshead)
  /\ \A c \in ki : fd[c[2]] = c[1] /\ c[2] \in Range(sesshead)
  /\ evs \ {"pipe"} \subseteq Range(sesshead)

\* The assertions hold: EPOLL_CTL_ADD is used for a descriptor the kernel does
\* not know and EPOLL_CTL_MOD for one it does, a slot of the poll array is
\* free when it is taken, and every event that poll counted is found
NoPanic == ~vca_panic

\* An idle client is timed out ("Idle timeout for persistent sessions. If a
\* HTTP request has not been received in this many seconds, the session is
\* closed.", mgt_param.c), by every waiter but poll
IdleTimesOut ==
  \A s \in Sessions :
    vca_act # "poll" /\ s \in Range(sesshead) ~> s \notin Range(sesshead)

\* The same for every waiter
IdleTimesOutAlways ==
  \A s \in Sessions : s \in Range(sesshead) ~> s \notin Range(sesshead)

\* A session that a worker gave back is looked at by the waiter
PipeIsRead == \A s \in Sessions : s \in Range(pipe) ~> s \in Range(sesshead)

\* Sessions and descriptors have one owner, whatever the order of the pipe, the
\* events and the timeouts, and no assertion of a waiter fails (cache_waiter_*.c).
WaiterSound == AcceptorTypeOK /\ OwnedOnce /\ NoPanic

\* No session is forgotten: the pipe is read and idle sessions time out.
NoneForgotten == IdleTimesOut /\ PipeIsRead
=============================================================================
