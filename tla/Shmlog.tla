------------------------------- MODULE Shmlog -------------------------------
(***************************************************************************)
(* The shared memory log: worker threads of the child reserve room for     *)
(* records under vsl_mtx and write them without it, the child may die at   *)
(* any point and is started again on the same segment, and a reader in     *)
(* another process (varnishlog, varnishncsa...) follows the log without    *)
(* any lock.                                                               *)
(*                                                                         *)
(* Sources: bin/varnishd/cache_shmlog.c, include/vsl.h and                 *)
(* lib/libvarnishapi/vsl.c.                                                *)
(*                                                                         *)
(* The log is an array of words.  A record is a header, which holds its    *)
(* length, an identifier and the words of its content; here the header is  *)
(* the number of content words and what the other words say is left out.   *)
(* The reader is never waited for: nothing in the code keeps the writers   *)
(* from lapping it, and nothing tells it that they did.  What a lapped     *)
(* reader sees is arbitrary and outside the model: it is closed here, and  *)
(* may be opened again.  The same holds for a writer that is so slow that  *)
(* the others lap the room it has reserved: what it writes at last falls    *)
(* into their records, and there is no reader until the log begins anew.   *)
(***************************************************************************)
EXTENDS Integers, Sequences

CONSTANTS Writer,     \* the threads of the child that write records
          Worker,     \* the ones among them that have a buffer of their own
          LogWords,   \* the words of the log, the serial number not counted
          Lens,       \* the numbers of content words of a record
          WlbWords,   \* the words of a worker's own buffer (shm_workspace)
          MaxSeq,     \* bound: serial numbers
          MaxCrashes  \* bound: deaths of the child

\* A record and a full buffer fit in a log that starts from the front.
ASSUME LogAssumption ==
    /\ LogWords \in Nat /\ WlbWords \in Nat \ {0} /\ MaxSeq \in Nat \ {0}
    /\ MaxCrashes \in Nat
    /\ Lens \subseteq Nat
    /\ \A l \in Lens : 2 + l < WlbWords
    /\ WlbWords <= LogWords
    /\ Worker \subseteq Writer /\ "none" \notin Writer

VARIABLES
    mem,      \* the words of the log after the serial number
    seq,      \* vsl_start[0], the serial number
    vsl_ptr,  \* where the next record goes
    vsl_mtx,  \* the thread that holds the mutex, or NoWriter
    pc,       \* what each worker is doing
    job,      \* the records each worker is writing
    at,       \* where the room it has reserved begins
    wlb,      \* the records in its own buffer
    alive,    \* what the child is doing
    crashes,  \* its deaths so far
    rd,       \* the reader
    cycle,    \* ghost: the records reserved since the log last began at front
    todo,     \* ghost: the records ahead of the reader, in order
    rold,     \* ghost: the reader has not followed the writers to the front
    spoilt    \* ghost: a writer has been lapped

logVars == <<mem, seq, vsl_ptr>>

writerVars == <<vsl_mtx, pc, job, at, wlb>>

childVars == <<alive, crashes>>

ghostVars == <<cycle, todo, rold, spoilt>>

vars == <<logVars, writerVars, childVars, rd, ghostVars>>

NoWriter == "none"

ENDMARKER == -1

WRAPMARKER == -2

BODY == -3            \* an identifier or content

JUNK == -4            \* whatever an older record left behind

Addr == 1..LogWords

IsHeader(word) == word >= 0

-----------------------------------------------------------------------------
(* Room *)

\* The words of a list of records.
Room(recs) ==
    LET upto[i \in 0..Len(recs)] ==
            IF i = 0 THEN 0 ELSE upto[i - 1] + 2 + recs[i]
    IN  upto[Len(recs)]

\* The places of the records of a list that begins at p.
Places(p, recs) ==
    [i \in DOMAIN recs |->
        [pos |-> p + Room(SubSeq(recs, 1, i - 1)), len |-> recs[i]]]

\* The words of a record.
Span(r) == r.pos..(r.pos + 1 + r.len)

Overlaps(r, S) == Span(r) \cap S # {}

Closed == [st |-> "closed", ptr |-> 1, last |-> 0, t |-> JUNK, d |-> FALSE]

Following == rd.st \notin {"closed", "wild"}

\* The reader is lapped when the words S are overwritten: by then it has read
\* what was there and has followed the writers past the front.
LapsReader(S) ==
    /\ Following
    /\ \/ \E i \in DOMAIN todo : Overlaps(todo[i], S)
       \/ rold /\ rd.ptr \in S

LapsWriter(w, S) ==
    \E v \in Writer \ {w} :
        /\ pc[v] \in {"body", "header"}
        /\ at[v]..(at[v] + Room(job[v]) - 1) \cap S # {}

-----------------------------------------------------------------------------
(* Writers *)

TypeOK ==
    /\ mem \in [Addr -> {ENDMARKER, WRAPMARKER, BODY, JUNK} \cup Lens]
    /\ seq \in 1..MaxSeq
    /\ vsl_ptr \in Addr
    /\ vsl_mtx \in Writer \cup {NoWriter}
    /\ pc \in [Writer -> {"idle", "front", "serial", "mark", "take",
                          "body", "header"}]
    /\ job \in [Writer -> Seq(Lens)]
    /\ at \in [Writer -> Addr]
    /\ wlb \in [Writer -> Seq(Lens)]
    /\ alive \in {"yes", "dead", "serial"}
    /\ crashes \in 0..MaxCrashes
    /\ rd.st \in {"closed", "open", "run", "eval", "wild"}
    /\ rd.ptr \in Addr
    /\ rd.last \in 0..MaxSeq
    /\ rold \in BOOLEAN /\ spoilt \in BOOLEAN

Init ==
    /\ mem = [a \in Addr |-> IF a = 1 THEN ENDMARKER ELSE JUNK]
    /\ seq = 1
    /\ vsl_ptr = 1
    /\ vsl_mtx = NoWriter
    /\ pc = [w \in Writer |-> "idle"]
    /\ job = [w \in Writer |-> <<>>]
    /\ at = [w \in Writer |-> 1]
    /\ wlb = [w \in Writer |-> <<>>]
    /\ alive = "yes"
    /\ crashes = 0
    /\ rd = Closed
    /\ cycle = <<>> /\ todo = <<>>
    /\ rold = FALSE /\ spoilt = FALSE

\* vsl_get: lock, and wrap unless the records and the marker after them fit.
vsl_get(w, recs) ==
    /\ vsl_mtx = NoWriter
    /\ vsl_mtx' = w
    /\ job' = [job EXCEPT ![w] = recs]
    /\ pc' = [pc EXCEPT ![w] =
                IF vsl_ptr + Room(recs) > LogWords THEN "front" ELSE "take"]

\* The body of a running, idle worker's call.
Calls(w) == alive = "yes" /\ pc[w] = "idle"

\* A record without a worker's buffer: VSL and VSLR.
VSLR(w) ==
    /\ Calls(w) /\ w \notin Worker
    /\ \E l \in Lens : vsl_get(w, <<l>>)
    /\ UNCHANGED <<logVars, at, wlb, childVars, rd, ghostVars>>

\* A record for the worker's buffer, which is flushed first if it is full.  A
\* formatted record (WSL) needs room for the longest one.
WSLR(w) ==
    /\ Calls(w) /\ w \in Worker
    /\ \E l \in Lens, need \in Lens :
        /\ need = l \/ \A k \in Lens : k <= need
        /\ IF Room(wlb[w]) + 2 + need >= WlbWords
           THEN /\ vsl_get(w, wlb[w])
                /\ wlb' = [wlb EXCEPT ![w] = <<l>>]
           ELSE /\ wlb' = [wlb EXCEPT ![w] = Append(@, l)]
                /\ UNCHANGED <<vsl_mtx, job, pc>>
    /\ UNCHANGED <<logVars, at, childVars, rd, ghostVars>>

\* The buffer goes to the log; an empty one is left alone.
WSL_Flush(w) ==
    /\ Calls(w)
    /\ wlb[w] # <<>>
    /\ vsl_get(w, wlb[w])
    /\ wlb' = [wlb EXCEPT ![w] = <<>>]
    /\ UNCHANGED <<logVars, at, childVars, rd, ghostVars>>

\* The words S are overwritten, and the records new take their place.
Overwrite(w, S, new) ==
    LET lost == LapsReader(S) \/ LapsWriter(w, S)
    IN  /\ rd' = IF lost THEN Closed ELSE rd
        /\ todo' = IF lost \/ ~Following THEN <<>> ELSE todo \o new
        /\ rold' = (rold /\ ~lost)
        /\ spoilt' = (spoilt \/ LapsWriter(w, S))

\* vsl_wrap, one store after the other, as a reader may see them: the marker
\* at the front...
WrapFront(w) ==
    /\ pc[w] = "front"
    /\ mem' = [mem EXCEPT ![1] = ENDMARKER]
    /\ pc' = [pc EXCEPT ![w] = "serial"]
    /\ Overwrite(w, {1}, <<>>)
    /\ UNCHANGED <<seq, vsl_ptr, vsl_mtx, job, at, wlb, childVars, cycle>>

\* The serial number that follows s.
NextSeq(s) == (s % MaxSeq) + 1

\* ...the serial number...
WrapSerial(w) ==
    /\ pc[w] = "serial"
    /\ seq' = NextSeq(seq)
    /\ pc' = [pc EXCEPT ![w] = "mark"]
    /\ rold' = (Following /\ rd.ptr # 1)
    /\ cycle' = <<>>
    /\ UNCHANGED <<mem, vsl_ptr, vsl_mtx, job, at, wlb, childVars, rd,
                   todo, spoilt>>

\* ...and the marker where the records end.
WrapMark(w) ==
    /\ pc[w] = "mark"
    /\ IF vsl_ptr # 1
       THEN /\ mem' = [mem EXCEPT ![vsl_ptr] = WRAPMARKER]
            /\ vsl_ptr' = 1
       ELSE UNCHANGED <<mem, vsl_ptr>>
    /\ pc' = [pc EXCEPT ![w] = "take"]
    /\ UNCHANGED <<seq, vsl_mtx, job, at, wlb, childVars, rd, ghostVars>>

\* (mutation) No end marker after the room.
TakeNoMarker(w) ==
    LET next == vsl_ptr + Room(job[w])
        S == vsl_ptr..next
        new == Places(vsl_ptr, job[w])
    IN  /\ pc[w] = "take"
        /\ at' = [at EXCEPT ![w] = vsl_ptr]
        /\ vsl_ptr' = next
        /\ UNCHANGED mem
        /\ vsl_mtx' = NoWriter
        /\ pc' = [pc EXCEPT ![w] = "body"]
        /\ cycle' = cycle \o new
        /\ Overwrite(w, S, new)
        /\ UNCHANGED <<seq, job, wlb, childVars>>

\* The rest of vsl_get: the room is the caller's, and the log ends after it.
Take(w) ==
    LET next == vsl_ptr + Room(job[w])
        S == vsl_ptr..next
        new == Places(vsl_ptr, job[w])
    IN  /\ pc[w] = "take"
        /\ at' = [at EXCEPT ![w] = vsl_ptr]
        /\ vsl_ptr' = next
        /\ mem' = [a \in Addr |-> IF a = next THEN ENDMARKER
                                  ELSE IF a \in S \ {at'[w]} THEN JUNK
                                  ELSE mem[a]]
        /\ vsl_mtx' = NoWriter
        /\ pc' = [pc EXCEPT ![w] = "body"]
        /\ cycle' = cycle \o new
        /\ Overwrite(w, S, new)
        /\ UNCHANGED <<seq, job, wlb, childVars>>

\* (mutation) The header is written before the rest.
BodyHeaderFirst(w) ==
    /\ pc[w] = "body"
    /\ mem' = [mem EXCEPT ![at[w]] = job[w][1]]
    /\ pc' = [pc EXCEPT ![w] = "header"]
    /\ UNCHANGED <<seq, vsl_ptr, vsl_mtx, job, at, wlb, childVars, rd,
                   ghostVars>>

\* memcpy() of all but the first header, without the lock.
Body(w) ==
    LET recs == Places(at[w], job[w])
        first == at[w] + 1
        last == at[w] + Room(job[w]) - 1
        HeaderAt(a) == {i \in DOMAIN recs : recs[i].pos = a}
    IN  /\ pc[w] = "body"
        /\ mem' = [a \in Addr |->
                     IF a \notin first..last THEN mem[a]
                     ELSE IF HeaderAt(a) = {} THEN BODY
                     ELSE recs[CHOOSE i \in HeaderAt(a) : TRUE].len]
        /\ pc' = [pc EXCEPT ![w] = "header"]
        /\ UNCHANGED <<seq, vsl_ptr, vsl_mtx, job, at, wlb, childVars, rd,
                       ghostVars>>

\* The first header, behind a memory barrier.
vsl_hdr(w) ==
    /\ pc[w] = "header"
    /\ mem' = [mem EXCEPT ![at[w]] = job[w][1]]
    /\ pc' = [pc EXCEPT ![w] = "idle"]
    /\ job' = [job EXCEPT ![w] = <<>>]
    /\ at' = [at EXCEPT ![w] = 1]
    /\ UNCHANGED <<seq, vsl_ptr, vsl_mtx, wlb, childVars, rd, ghostVars>>

-----------------------------------------------------------------------------
(* The child *)

\* The child dies, its threads wherever they are.
Crash ==
    /\ alive # "dead"
    /\ crashes < MaxCrashes
    /\ crashes' = crashes + 1
    /\ alive' = "dead"
    /\ vsl_mtx' = NoWriter
    /\ pc' = [w \in Writer |-> "idle"]
    /\ job' = [w \in Writer |-> <<>>]
    /\ wlb' = [w \in Writer |-> <<>>]
    /\ at' = [w \in Writer |-> 1]
    /\ UNCHANGED <<logVars, rd, ghostVars>>

\* (mutation) The serial number stays as it was.
InitSameSerial ==
    /\ alive = "serial"
    /\ alive' = "yes"
    /\ UNCHANGED <<seq, mem, vsl_ptr, writerVars, crashes, rd, ghostVars>>

\* VSL_Init in the next child: the log begins at the front again, without a
\* marker where the old records end.  A reader that stands elsewhere may
\* still read the old records that lie ahead of it; one that is about to
\* return the record at the front is lapped.
VSL_Init ==
    LET lost == rd.ptr = 1 /\ IsHeader(rd.t)
    IN  /\ alive = "dead"
        /\ alive' = "serial"
        /\ vsl_ptr' = 1
        /\ mem' = [mem EXCEPT ![1] = ENDMARKER]
        /\ cycle' = <<>>
        /\ rd' = IF lost THEN Closed ELSE rd
        /\ todo' = IF rd.ptr = 1 THEN <<>>
                   ELSE IF rold THEN SubSeq(todo, 1, Len(todo) - Len(cycle))
                   ELSE todo
        /\ rold' = (Following /\ rd.ptr # 1)
        /\ spoilt' = FALSE
        /\ UNCHANGED <<seq, writerVars, crashes>>

VSL_InitSerial ==
    /\ alive = "serial"
    /\ alive' = "yes"
    /\ seq' = NextSeq(seq)
    /\ UNCHANGED <<mem, vsl_ptr, writerVars, crashes, rd, ghostVars>>

-----------------------------------------------------------------------------
(* The reader *)

\* VSL_Open: from the front; without -d, the records there are are skipped
\* one by one.
VSL_Open ==
    /\ rd.st = "closed" /\ ~spoilt
    /\ \E d_opt \in BOOLEAN :
        rd' = [rd EXCEPT !.st = IF d_opt THEN "run" ELSE "open",
                         !.ptr = 1, !.last = seq, !.d = d_opt]
    /\ todo' = cycle
    /\ rold' = FALSE
    /\ UNCHANGED <<logVars, writerVars, childVars, cycle, spoilt>>

\* A tool is closed.
VSL_Close ==
    /\ rd.st # "closed"
    /\ rd' = Closed
    /\ todo' = <<>>
    /\ rold' = FALSE
    /\ UNCHANGED <<logVars, writerVars, childVars, cycle, spoilt>>

\* VSL_NEXT at the reader's place.
VSL_NEXT(a) == a + 2 + mem[a]

\* The loop of VSL_Open.  It does not know the marker of a wrap, whose length
\* takes it anywhere.
OpenSkip ==
    /\ rd.st = "open"
    /\ CASE mem[rd.ptr] = ENDMARKER ->
              /\ rd' = [rd EXCEPT !.st = "run"]
              /\ UNCHANGED todo
         [] mem[rd.ptr] = WRAPMARKER ->
              /\ rd' = [Closed EXCEPT !.st = "wild"]
              /\ todo' = <<>>
         [] OTHER ->
              /\ rd' = [rd EXCEPT !.ptr = VSL_NEXT(rd.ptr)]
              /\ todo' = Tail(todo)
    /\ rold' = (rold /\ rd'.st # "wild")
    /\ UNCHANGED <<logVars, writerVars, childVars, cycle, spoilt>>

\* vsl_nextlog: look at the word...
Load ==
    /\ rd.st = "run"
    /\ rd' = [rd EXCEPT !.st = "eval", !.t = mem[rd.ptr]]
    /\ UNCHANGED <<logVars, writerVars, childVars, ghostVars>>

\* ...to the front, where the records are that the reader has not passed...
ToFront ==
    /\ rd' = [rd EXCEPT !.st = "run", !.ptr = 1, !.t = JUNK]
    /\ todo' = cycle
    /\ rold' = FALSE
    /\ UNCHANGED <<logVars, writerVars, childVars, cycle, spoilt>>

\* ...because the log was wrapped where the reader stands...
SeeWrap ==
    /\ rd.st = "eval"
    /\ rd.t = WRAPMARKER
    /\ ToFront

\* ...or because it stands at a marker and the serial number has changed...
SeeSerial ==
    /\ rd.st = "eval"
    /\ rd.t = ENDMARKER
    /\ rd.ptr # 1 /\ rd.last # seq
    /\ ToFront

\* ...sleep, when there is nothing to read...
Sleep ==
    /\ rd.st = "eval"
    /\ rd.t = ENDMARKER
    /\ rd.ptr = 1 \/ rd.last = seq
    /\ rd' = [rd EXCEPT !.st = "run", !.t = JUNK]
    /\ UNCHANGED <<logVars, writerVars, childVars, ghostVars>>

\* (mutation) The serial number at the front is not remembered.
ReadNoSerial ==
    /\ rd.st = "eval"
    /\ IsHeader(rd.t)
    /\ rd' = [rd EXCEPT !.st = "run", !.t = JUNK, !.ptr = VSL_NEXT(@)]
    /\ todo' = Tail(todo)
    /\ UNCHANGED <<logVars, writerVars, childVars, cycle, rold, spoilt>>

\* ...or return a record.
Read ==
    /\ rd.st = "eval"
    /\ IsHeader(rd.t)
    /\ rd' = [rd EXCEPT !.st = "run", !.t = JUNK,
                        !.last = IF rd.ptr = 1 THEN seq ELSE @,
                        !.ptr = VSL_NEXT(@)]
    /\ todo' = Tail(todo)
    /\ UNCHANGED <<logVars, writerVars, childVars, cycle, rold, spoilt>>

vsl_nextlog == Load \/ SeeWrap \/ SeeSerial \/ Sleep \/ Read

-----------------------------------------------------------------------------
Finish(w) ==
    \/ WrapFront(w) \/ WrapSerial(w) \/ WrapMark(w)
    \/ Take(w) \/ Body(w) \/ vsl_hdr(w)

Next ==
    \/ \E w \in Writer : VSLR(w) \/ WSLR(w) \/ WSL_Flush(w) \/ Finish(w)
    \/ Crash \/ VSL_Init \/ VSL_InitSerial
    \/ VSL_Open \/ VSL_Close \/ OpenSkip \/ vsl_nextlog

\* The threads of the child and the reader are scheduled, and the manager
\* starts a child again.
Fairness ==
    /\ \A w \in Writer : WF_vars(Finish(w))
    /\ WF_vars(VSL_Init) /\ WF_vars(VSL_InitSerial)
    /\ WF_vars(OpenSkip) /\ WF_vars(vsl_nextlog)

Spec == Init /\ [][Next]_vars /\ Fairness

-----------------------------------------------------------------------------
(* Properties *)

\* The record that begins at r.pos is complete.
Whole(r) ==
    /\ mem[r.pos] = r.len
    /\ \A a \in Span(r) \ {r.pos} : mem[a] = BODY

\* A record that vsl_nextlog returns, or that VSL_Open skips, is the next one
\* ahead of the reader and is complete: the header is written last and the
\* room of a record begins with the end marker of the records before it.
ReaderSeesWhole ==
    [][(Read \/ (OpenSkip /\ rd'.st = "open")) =>
        /\ todo # <<>>
        /\ Head(todo).pos = rd.ptr
        /\ Whole(Head(todo))]_vars

\* No record is returned twice: a reader that reads from the front on goes
\* back there only after the writers did.  (Without -d the serial number is
\* kept from VSL_Open until the front is passed again, and one that changed
\* between its two lines brings the reader back to records it has skipped.)
NoRecordTwice ==
    [][(rd.d /\ (SeeWrap \/ SeeSerial)) => rold]_vars

\* The markers a reader relies on: the log ends with one unless a wrap is
\* under way, a reserved record hides behind one until its header is there,
\* and the front, where vsl_nextlog asserts it, never holds a wrap marker.
MarkersInPlace ==
    /\ TypeOK
    /\ ~spoilt =>
        /\ (vsl_mtx = NoWriter /\ alive = "yes") => mem[vsl_ptr] = ENDMARKER
        /\ \A w \in Writer :
             pc[w] \in {"body", "header"} => mem[at[w]] = ENDMARKER
    /\ mem[1] # WRAPMARKER

\* A reader never gets stuck: with records ahead of it, it moves from where it
\* stands, over a wrap, a slow writer and the death of the child with a
\* record half written (the serial number of vsl_wrap and VSL_Init).
ReaderMoves ==
    <>[](rd.st \in {"run", "eval"} /\ todo # <<>>)
        => []<><<SeeWrap \/ SeeSerial \/ Read>>_vars

\* VSL_Open leaves a reader inside the log.
OpenStaysInLog == rd.st # "wild"
=============================================================================
