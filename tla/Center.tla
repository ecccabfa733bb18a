------------------------------- MODULE Center -------------------------------
(***************************************************************************)
(* The session state engine (cache_center.c) with what its steps call:     *)
(* FetchHdr and FetchBody (cache_fetch.c), PipeSession (cache_pipe.c),     *)
(* ved_include (cache_esi_deliver.c), RES_WriteObj and the streaming       *)
(* functions (cache_response.c), HTC_* (cache_httpconn.c) and RFC2616_Body *)
(* (rfc2616.c).                                                            *)
(*                                                                         *)
(* One worker thread serves one session after the other.  The steps of a   *)
(* request communicate through fields of struct sess and of struct worker, *)
(* and the worker's fields outlive the session: what matters is which of   *)
(* them a path through the steps leaves set.  VCL returns any action its   *)
(* compiler admits for the method; backends, clients and storage answer    *)
(* in any way.  A failed assertion panics the child, and the manager       *)
(* starts a new one.                                                       *)
(***************************************************************************)
EXTENDS Integers, Sequences, FiniteSets

CONSTANTS
  MaxRestarts,   \* params->max_restarts
  MaxEsiDepth,   \* params->max_esi_depth
  MaxIncludes,   \* esi:include elements of one object (bound)
  MaxBytes,      \* params->http_req_size, in units of received data
  GzipSupport    \* params->http_gzip_support

ASSUME CenterAssumption ==
  /\ MaxRestarts \in Nat /\ MaxEsiDepth \in Nat /\ MaxIncludes \in Nat
  /\ MaxBytes \in Nat \ {0, 1}
  /\ GzipSupport \in BOOLEAN

VARIABLES
  sp,       \* the session
  w,        \* the worker thread
  frames,   \* what the active calls of ved_include will restore
  panic,    \* why the child died, or "no"
  hist      \* what happened, for the properties; no action reads it

vars == <<sp, w, frames, panic, hist>>

Null == "null"
Steps == {"FIRST", "WAIT", "START", "RECV", "LOOKUP", "MISS", "HIT", "PASS",
          "PIPE", "FETCH", "FETCHBODY", "FETCHBODY2",
          "STREAMBODY", "STREAMING", "PREPRESP", "DELIVER", "WRITING", "ERROR",
          "DONE"}

\* An object: its objcore, has it esidata, is it stored gzip'ed, is it empty
Objects == [oc : {Null, "busy", "live"}, esidata : BOOLEAN, gziped : BOOLEAN,
            empty : BOOLEAN]

\* sp->obj == NULL
NoObj == [oc |-> "none", esidata |-> FALSE, gziped |-> FALSE, empty |-> FALSE]

\* SES_New, ses_setup
NewSess == [at |-> "gone", step |-> "FIRST", fd |-> FALSE, vcl |-> FALSE,
            xid |-> FALSE, objcore |-> Null, obj |-> NoObj, vbc |-> FALSE,
            director |-> FALSE, restarts |-> 0, doclose |-> FALSE,
            wantbody |-> FALSE, todo |-> 0, rx |-> 0]

NewWorker == [run |-> FALSE, vcl |-> FALSE, hcl |-> FALSE, do_close |-> FALSE,
              hint |-> FALSE, vfp |-> Null, do_stream |-> FALSE,
              do_esi |-> FALSE, do_gzip |-> FALSE, do_gunzip |-> FALSE,
              bereq |-> FALSE, beresp |-> FALSE, resp |-> FALSE, res_mode |-> {}]

\* announced: whose length is in the response header the client was sent
NoHist == [spoiled |-> FALSE, outofobjects |-> FALSE, sent |-> "no",
           announced |-> "no"]

esi_level == Len(frames)

TypeOK ==
  /\ sp.at \in {"gone", "worker", "parked", "waiter", "lost"}
  /\ sp.step \in Steps
  /\ sp.objcore \in {Null, "busy"}
  /\ sp.obj \in Objects \cup {NoObj}
  /\ sp.restarts \in 0..MaxRestarts
  /\ sp.todo \in 0..MaxIncludes
  /\ sp.rx \in 0..MaxBytes
  /\ w.vfp \in {Null, "nop", "esi", "gunzip", "gzip", "testgzip"}
  /\ w.res_mode \subseteq {"LEN", "ESI", "ESI_CHILD", "GUNZIP", "CHUNKED", "EOF"}
  /\ esi_level <= MaxEsiDepth
  /\ panic \in {"no", "assert", "incompl", "vfp"}

Init ==
  /\ sp = NewSess
  /\ w = NewWorker
  /\ frames = <<>>
  /\ panic = "no"
  /\ hist = NoHist

-----------------------------------------------------------------------------
(* Helpers *)

\* The flags the steps clear together
ClearFlags(x) ==
  [x EXCEPT !.do_esi = FALSE, !.do_gzip = FALSE, !.do_gunzip = FALSE,
            !.do_stream = FALSE]

FlagsClear(x) == ~(x.do_esi \/ x.do_gzip \/ x.do_gunzip \/ x.do_stream)

\* HTC_Complete: white space alone is thrown away; what follows a complete
\* request is pipelined
HTC_Complete(n) ==
  {[i |-> 0, rx |-> 0], [i |-> 0, rx |-> n]}
    \cup (IF n > 0 THEN {[i |-> 1, rx |-> 0]} ELSE {})

\* HTC_Rx: one byte of the reservation is kept for a NUL
HTC_Rx(n) ==
  LET room == MaxBytes - n - 1
  IN IF room <= 0
     THEN {[i |-> -2, rx |-> n]}
     ELSE {[i |-> -1, rx |-> n]}
            \cup UNION {HTC_Complete(n + k) : k \in 1..room}

\* HTC_Reinit: the pipelined input is at most what was received without a
\* request of at least one unit
HTC_Reinit == UNION {HTC_Complete(n) : n \in 0..(MaxBytes - 2)}

AssertObjCorePassOrBusy(oc) == oc # "live"

\* VDI_CloseFd
VDI_CloseFd(s) == [s EXCEPT !.vbc = FALSE]
DoCloseReset(x) == [x EXCEPT !.do_close = FALSE]

\* FetchHdr: without a connection -1; a write error (of the request or of its
\* body), or a read error before anything was received, can be retried when
\* the connection was a recycled one; other errors are final
FetchHdr ==
  {[ret |-> -1, vbc |-> FALSE], [ret |-> 1, vbc |-> FALSE],
   [ret |-> 0, vbc |-> TRUE]}

\* RFC2616_Body: LENGTH goes with h_content_length, and ZERO is a kept-alive
\* connection
RFC2616_Body(x) ==
  IF x.hcl THEN {"LENGTH"}
  ELSE {"NONE", "CHUNKED", "EOF", "ERROR"}
         \cup (IF x.do_close THEN {} ELSE {"ZERO"})

\* FetchBody's outcome: "ok", "failed", or a panic where an assertion about
\* the filter fails (no storage at ->end, bytes that are not gzip)
FetchBodyOut(x, bs) ==
  CASE bs \in {"NONE", "ZERO"} -> {"ok"}
    [] bs = "ERROR" -> {"failed"}
    [] x.vfp \in {"esi", "gzip", "gunzip"} -> {"ok", "failed", "panic"}
    [] OTHER -> {"ok", "failed"}

\* What a body leaves in the object
Fetched(o, x, empty) ==
  [o EXCEPT !.esidata = x.vfp = "esi" /\ ~empty, !.empty = empty]

\* HSH_Unbusy
Unbusy(o) == IF o.oc = Null THEN o ELSE [o EXCEPT !.oc = "live"]

\* The assertions at the start of the steps and of what they call
Asserted ==
  CASE sp.step = "FIRST" -> ~sp.xid /\ sp.restarts = 0
    [] sp.step = "WAIT" -> ~sp.vcl /\ sp.obj = NoObj /\ ~sp.xid
    [] sp.step = "START" -> sp.restarts = 0 /\ sp.obj = NoObj /\ ~sp.vcl
    [] sp.step = "RECV" -> sp.vcl /\ sp.obj = NoObj /\ ~sp.director
    [] sp.step \in {"LOOKUP", "PIPE"} -> sp.vcl
    [] sp.step = "MISS" -> sp.vcl /\ sp.obj = NoObj /\ sp.objcore # Null
    [] sp.step = "HIT" -> sp.vcl /\ sp.obj # NoObj /\ ~w.do_stream
                          /\ ~w.bereq /\ ~w.beresp
    [] sp.step = "PASS" -> sp.vcl /\ sp.obj = NoObj
    [] sp.step = "FETCH" -> /\ sp.vcl /\ sp.director /\ ~sp.vbc /\ sp.obj = NoObj
                            /\ ~w.hcl /\ ~w.do_close /\ ~w.hint /\ ~w.do_esi
    [] sp.step = "FETCHBODY" -> w.vfp = Null
    [] sp.step = "PREPRESP" -> /\ sp.vcl /\ sp.obj # NoObj
                               /\ w.do_stream => AssertObjCorePassOrBusy(sp.obj.oc)
    [] sp.step = "STREAMBODY" -> sp.wantbody /\ "ESI_CHILD" \notin w.res_mode
    [] sp.step \in {"FETCHBODY2", "STREAMING"} ->
         sp.director /\ sp.vbc /\ AssertObjCorePassOrBusy(sp.obj.oc)
    [] sp.step = "DONE" -> sp.obj = NoObj /\ ~sp.vbc
    [] OTHER -> TRUE

Panic(why) ==
  /\ panic' = why
  /\ UNCHANGED <<sp, w, frames, hist>>

AssertFails ==
  /\ panic = "no"
  /\ sp.at = "worker"
  /\ ~Asserted
  /\ Panic("assert")

Step(step) ==
  /\ panic = "no"
  /\ sp.at = "worker"
  /\ sp.step = step
  /\ Asserted

\* vca_return_session: the session goes to the waiter; when the socket cannot
\* be made nonblocking it is closed and nobody has the session any more
ToWaiter(s) ==
  IF s.fd /\ ~s.vcl /\ s.obj = NoObj
  THEN /\ sp' \in {[s EXCEPT !.at = "waiter"],
                   [s EXCEPT !.at = "lost", !.fd = FALSE]}
       /\ UNCHANGED panic
  ELSE panic' = "assert" /\ UNCHANGED sp

-----------------------------------------------------------------------------
(* The steps *)

cnt_first ==
  /\ Step("FIRST")
  /\ sp' = [sp EXCEPT !.rx = 0, !.step = "WAIT"]
  /\ UNCHANGED <<w, frames, panic, hist>>

cnt_wait ==
  /\ Step("WAIT")
  /\ \E o \in {[i |-> 0, rx |-> sp.rx]} \cup HTC_Rx(sp.rx) :
       LET s == [sp EXCEPT !.rx = o.rx]
       IN IF o.i = 0
          THEN ToWaiter(s)
          ELSE /\ sp' = CASE o.i = 1 -> [s EXCEPT !.step = "START"]
                          [] o.i = -2 -> [s EXCEPT !.fd = FALSE]
                          [] OTHER -> [s EXCEPT !.fd = FALSE, !.step = "DONE"]
               /\ UNCHANGED panic
  /\ UNCHANGED <<w, frames, hist>>

\* The request can be junk, wrong in another way (or expect what we cannot
\* do), or fine
cnt_start ==
  /\ Step("START")
  /\ \E r \in {"junk", "wrong", "ok"}, close \in BOOLEAN :
       sp' = [sp EXCEPT !.xid = TRUE, !.vcl = TRUE, !.wantbody = FALSE,
                        !.doclose = r = "ok" /\ close,
                        !.fd = @ /\ r # "junk",
                        !.step = CASE r = "junk" -> "DONE"
                                   [] r = "wrong" -> "ERROR"
                                   [] OTHER -> "RECV"]
  /\ w' = [w EXCEPT !.vcl = FALSE]
  /\ UNCHANGED <<frames, panic, hist>>

cnt_recv ==
  /\ Step("RECV")
  /\ \E h \in {"lookup", "pipe", "pass", "error"}, body \in BOOLEAN :
       IF sp.restarts >= MaxRestarts
       THEN /\ sp' = [sp EXCEPT !.director = TRUE, !.step = "ERROR"]
            /\ UNCHANGED <<w, panic>>
       ELSE IF h = "pipe" /\ esi_level > 0
       THEN panic' = "incompl" /\ UNCHANGED <<sp, w>>
       ELSE /\ sp' = [sp EXCEPT !.director = TRUE, !.wantbody = body,
                                !.step = CASE h = "lookup" -> "LOOKUP"
                                           [] h = "pipe" -> "PIPE"
                                           [] h = "pass" -> "PASS"
                                           [] OTHER -> "ERROR"]
            /\ w' = ClearFlags(w)
            /\ UNCHANGED panic
  /\ UNCHANGED <<frames, hist>>

\* HSH_Lookup (CacheHash) parks the session, inserts a busy objcore or finds
\* an object.  Inside an ESI include the worker itself waits and tries again.
cnt_lookup ==
  /\ Step("LOOKUP")
  /\ sp' \in {[sp EXCEPT !.objcore = "busy", !.step = "MISS"],
              [sp EXCEPT !.objcore = Null, !.step = "PASS"]}
         \cup {[sp EXCEPT !.obj = o, !.step = "HIT"] :
                 o \in {p \in Objects : p.oc = "live" /\ ~(p.esidata /\ p.empty)}}
         \cup (IF esi_level = 0 THEN {[sp EXCEPT !.at = "parked"]} ELSE {})
  /\ UNCHANGED <<w, frames, panic, hist>>

\* A restart from vcl_hit that keeps the director (mutation)
cnt_hit_keeps_director ==
  /\ Step("HIT")
  /\ LET drop == [sp EXCEPT !.obj = NoObj, !.objcore = Null]
     IN sp' \in {[sp EXCEPT !.step = "PREPRESP"],
                 [drop EXCEPT !.step = "PASS"],
                 [drop EXCEPT !.step = "ERROR"],
                 [drop EXCEPT !.step = "RECV",
                              !.restarts = @ + 1]}
  /\ UNCHANGED <<w, frames, panic, hist>>

cnt_hit ==
  /\ Step("HIT")
  /\ LET drop == [sp EXCEPT !.obj = NoObj, !.objcore = Null]
     IN sp' \in {[sp EXCEPT !.step = "PREPRESP"],
                 [drop EXCEPT !.step = "PASS"],
                 [drop EXCEPT !.step = "ERROR"],
                 [drop EXCEPT !.step = "RECV", !.director = FALSE,
                              !.restarts = @ + 1]}
  /\ UNCHANGED <<w, frames, panic, hist>>

cnt_miss ==
  /\ Step("MISS")
  /\ \E h \in {"error", "pass", "fetch", "restart"} :
       IF h = "restart"
       THEN panic' = "incompl" /\ UNCHANGED <<sp, w>>
       ELSE /\ sp' = [sp EXCEPT !.objcore = IF h = "fetch" THEN @ ELSE Null,
                                !.step = CASE h = "error" -> "ERROR"
                                           [] h = "pass" -> "PASS"
                                           [] OTHER -> "FETCH"]
            /\ w' = [w EXCEPT !.bereq = h # "error"]
            /\ UNCHANGED panic
  /\ UNCHANGED <<frames, hist>>

cnt_pass ==
  /\ Step("PASS")
  /\ \E h \in {"error", "pass", "restart"} :
       IF h = "restart"
       THEN panic' = "incompl" /\ UNCHANGED <<sp, w>>
       ELSE /\ sp' = [sp EXCEPT !.step = IF h = "error" THEN "ERROR" ELSE "FETCH"]
            /\ w' = [w EXCEPT !.bereq = h # "error"]
            /\ UNCHANGED panic
  /\ UNCHANGED <<frames, hist>>

\* PipeSession copies until one end closes; without a backend connection it
\* returns at once
cnt_pipe ==
  /\ Step("PIPE")
  /\ \E h \in {"error", "nobackend", "pipe"} :
       IF h = "error"
       THEN panic' = "incompl" /\ UNCHANGED <<sp, hist>>
       ELSE /\ sp' = [sp EXCEPT !.fd = @ /\ h = "nobackend", !.step = "DONE"]
            /\ hist' = [hist EXCEPT !.sent = IF h = "nobackend" THEN "nopipe" ELSE @]
            /\ UNCHANGED panic
  /\ UNCHANGED <<w, frames>>

\* FetchHdr, retried once; then vcl_fetch, after which nothing of a fetch that
\* is not carried on is left
cnt_fetch ==
  /\ Step("FETCH")
  /\ \E o1 \in FetchHdr :
     \E o2 \in IF o1.ret = 1 THEN FetchHdr ELSE {o1} :
       LET s == [sp EXCEPT !.vbc = o2.vbc]
       IN    \/ /\ o2.ret = 0
                /\ \E hcl, close, st, es, gz, gu \in BOOLEAN :
                     w' = [w EXCEPT !.hcl = hcl, !.do_close = close,
                                    !.do_stream = st, !.do_esi = es,
                                    !.do_gzip = gz, !.do_gunzip = gu,
                                    !.beresp = TRUE]
                /\ sp' = [s EXCEPT !.step = "FETCHBODY"]
             \/ /\ sp' \in {[VDI_CloseFd(s) EXCEPT !.objcore = Null,
                                !.director = FALSE, !.step = "ERROR"]}
                       \cup (IF o2.ret # 0 THEN {} ELSE
                             {[VDI_CloseFd(s) EXCEPT !.objcore = Null,
                                !.director = FALSE, !.restarts = @ + 1,
                                !.step = "RECV"]})
                /\ w' = [DoCloseReset(w) EXCEPT !.bereq = FALSE, !.beresp = FALSE,
                                                !.hcl = FALSE, !.hint = FALSE]
  /\ UNCHANGED <<frames, panic, hist>>

\* Choose the filter, decide on streaming and allocate the object.  The hint
\* is vcl_fetch's, or Transient for a short-lived object.
cnt_fetchbody ==
  /\ Step("FETCHBODY")
  /\ \E ce \in {"gzip", "none", "other"}, hint, cond, alloc \in BOOLEAN :
       LET gunzip == w.do_gunzip /\ GzipSupport /\ ce = "gzip"
           gzip == w.do_gzip /\ GzipSupport /\ ce = "none"
           stream == w.do_stream /\ ~w.do_esi /\ esi_level = 0 /\ sp.wantbody
           x == [w EXCEPT !.do_gunzip = gunzip, !.do_gzip = gzip,
                          !.do_stream = stream,
                          !.vfp = CASE w.do_esi -> "esi"
                                    [] gunzip -> "gunzip"
                                    [] gzip -> "gzip"
                                    [] ce = "gzip" -> "testgzip"
                                    [] OTHER -> Null,
                          !.hint = hint \/ sp.objcore = Null]
       IN IF ~alloc
          THEN /\ sp' = [VDI_CloseFd(sp) EXCEPT !.step = "ERROR"]
               /\ w' = DoCloseReset(x)
               /\ hist' = [hist EXCEPT !.spoiled = TRUE]
          ELSE /\ cond => esi_level = 0
               /\ sp' = [sp EXCEPT !.objcore = Null,
                          !.obj = [oc |-> sp.objcore, esidata |-> FALSE,
                                   gziped |-> gzip \/ (ce = "gzip" /\ ~gunzip),
                                   empty |-> TRUE],
                          !.step = IF stream /\ ~cond THEN "PREPRESP"
                                   ELSE "FETCHBODY2"]
               /\ w' = [x EXCEPT !.hint = FALSE, !.do_stream = stream /\ ~cond]
               /\ UNCHANGED hist
  /\ UNCHANGED <<frames, panic>>

\* What FetchBody leaves of the worker and of the connection, which it closes
\* or recycles
AfterFetchBody(x) ==
  [x EXCEPT !.do_close = FALSE, !.hcl = FALSE, !.bereq = FALSE,
            !.beresp = FALSE, !.vfp = Null]

\* A fetched object that stays busy (mutation)
cnt_fetchbody2_busy ==
  /\ Step("FETCHBODY2")
  /\ \E bs \in RFC2616_Body(w), empty \in BOOLEAN :
     \E out \in FetchBodyOut(w, bs) :
       IF out = "panic"
       THEN panic' = "vfp" /\ UNCHANGED <<sp, w>>
       ELSE /\ bs \in {"NONE", "ZERO"} => empty
            /\ w' = AfterFetchBody(w)
            /\ sp' = IF out = "failed"
                     THEN [sp EXCEPT !.vbc = FALSE, !.obj = NoObj, !.step = "ERROR"]
                     ELSE [sp EXCEPT !.vbc = FALSE, !.step = "PREPRESP",
                                     !.obj = Fetched(@, w, empty)]
            /\ UNCHANGED panic
  /\ UNCHANGED <<frames, hist>>

\* The rest of cnt_fetchbody when the response is not streamed
cnt_fetchbody2 ==
  /\ Step("FETCHBODY2")
  /\ \E bs \in RFC2616_Body(w), empty \in BOOLEAN :
     \E out \in FetchBodyOut(w, bs) :
       IF out = "panic"
       THEN panic' = "vfp" /\ UNCHANGED <<sp, w>>
       ELSE /\ bs \in {"NONE", "ZERO"} => empty
            /\ w' = AfterFetchBody(w)
            /\ sp' = IF out = "failed"
                     THEN [sp EXCEPT !.vbc = FALSE, !.obj = NoObj, !.step = "ERROR"]
                     ELSE [sp EXCEPT !.vbc = FALSE, !.step = "PREPRESP",
                                     !.obj = Unbusy(Fetched(@, w, empty))]
            /\ UNCHANGED panic
  /\ UNCHANGED <<frames, hist>>

\* A length is announced with chunks, too (mutation)
RES_StreamStart_always ==
  /\ Step("STREAMBODY")
  /\ sp' = [sp EXCEPT !.step = "STREAMING"]
  /\ hist' = [hist EXCEPT !.announced = IF w.hcl THEN "backend" ELSE "no"]
  /\ UNCHANGED <<w, frames, panic>>

\* cnt_streambody until RES_StreamStart has sent the header, with the length
\* the backend gave unless chunks are used
RES_StreamStart ==
  /\ Step("STREAMBODY")
  /\ sp' = [sp EXCEPT !.step = "STREAMING"]
  /\ hist' = [hist EXCEPT !.announced =
                 IF "CHUNKED" \notin w.res_mode /\ w.hcl THEN "backend" ELSE "no"]
  /\ UNCHANGED <<w, frames, panic>>

\* A failed stream that does not close (mutation)
cnt_streambody_open ==
  /\ Step("STREAMING")
  /\ \E bs \in RFC2616_Body(w), flushed \in BOOLEAN :
     \E out \in FetchBodyOut(w, bs) :
       IF out = "panic"
       THEN panic' = "vfp" /\ UNCHANGED <<sp, w, hist>>
       ELSE /\ w' = [AfterFetchBody(w) EXCEPT !.resp = FALSE]
            /\ sp' = [sp EXCEPT !.vbc = FALSE, !.obj = NoObj, !.director = FALSE,
                                !.restarts = 0, !.fd = @ /\ flushed,
                                !.doclose = @ \/ sp.obj.oc = Null,
                                !.step = "DONE"]
            /\ hist' = [hist EXCEPT !.sent = IF out = "ok" THEN "whole" ELSE "cut"]
            /\ UNCHANGED panic
  /\ UNCHANGED frames

\* The rest of cnt_streambody
cnt_streambody ==
  /\ Step("STREAMING")
  /\ \E bs \in RFC2616_Body(w), flushed \in BOOLEAN :
     \E out \in FetchBodyOut(w, bs) :
       IF out = "panic"
       THEN panic' = "vfp" /\ UNCHANGED <<sp, w, hist>>
       ELSE /\ w' = [AfterFetchBody(w) EXCEPT !.resp = FALSE]
            /\ sp' = [sp EXCEPT !.vbc = FALSE, !.obj = NoObj, !.director = FALSE,
                                !.restarts = 0, !.fd = @ /\ flushed,
                                !.doclose = @ \/ out # "ok" \/ sp.obj.oc = Null,
                                !.step = "DONE"]
            /\ hist' = [hist EXCEPT !.sent = IF out = "ok" THEN "whole" ELSE "cut"]
            /\ UNCHANGED panic
  /\ UNCHANGED frames

\* A restart from vcl_error that is not counted (mutation)
cnt_error_uncounted ==
  /\ Step("ERROR")
  /\ \E alloc, empty \in BOOLEAN, h \in {"deliver", "restart"} :
       LET x == ClearFlags(w)
           s == [sp EXCEPT !.objcore = Null,
                           !.obj = [oc |-> sp.objcore, esidata |-> FALSE,
                                    gziped |-> FALSE, empty |-> empty]]
       IN IF ~alloc
          THEN /\ sp' = [sp EXCEPT !.doclose = TRUE, !.director = FALSE,
                                   !.step = "DONE"]
               /\ w' = [x EXCEPT !.hcl = FALSE, !.bereq = FALSE, !.beresp = FALSE]
               /\ hist' = [hist EXCEPT !.outofobjects = @ \/ sp.objcore # Null]
          ELSE /\ UNCHANGED hist
               /\ IF h = "restart" /\ sp.restarts < MaxRestarts
                  THEN /\ sp' = [s EXCEPT !.obj = NoObj, !.director = FALSE,
                                          !.step = "RECV"]
                       /\ w' = x
                  ELSE /\ sp' = [s EXCEPT !.doclose = TRUE, !.wantbody = TRUE,
                                          !.step = "PREPRESP"]
                       /\ w' = [x EXCEPT !.bereq = FALSE]
  /\ UNCHANGED <<frames, panic>>

\* An error makes an object, over the objcore of the fetch if it is still there
cnt_error ==
  /\ Step("ERROR")
  /\ \E alloc, empty \in BOOLEAN, h \in {"deliver", "restart"} :
       LET x == ClearFlags(w)
           s == [sp EXCEPT !.objcore = Null,
                           !.obj = [oc |-> sp.objcore, esidata |-> FALSE,
                                    gziped |-> FALSE, empty |-> empty]]
       IN IF ~alloc
          THEN /\ sp' = [sp EXCEPT !.doclose = TRUE, !.director = FALSE,
                                   !.step = "DONE"]
               /\ w' = [x EXCEPT !.hcl = FALSE, !.bereq = FALSE, !.beresp = FALSE]
               /\ hist' = [hist EXCEPT !.outofobjects = @ \/ sp.objcore # Null]
          ELSE /\ UNCHANGED hist
               /\ IF h = "restart" /\ sp.restarts < MaxRestarts
                  THEN /\ sp' = [s EXCEPT !.obj = NoObj, !.director = FALSE,
                                          !.restarts = @ + 1, !.step = "RECV"]
                       /\ w' = x
                  ELSE /\ sp' = [s EXCEPT !.doclose = TRUE, !.wantbody = TRUE,
                                          !.step = "PREPRESP"]
                       /\ w' = [x EXCEPT !.bereq = FALSE]
  /\ UNCHANGED <<frames, panic>>

-----------------------------------------------------------------------------
(* Delivery *)

\* How the client will find the end of the body.  disable_esi, the client's
\* Accept-Encoding and its protocol are read here only.
ResMode(s, x, noesi, gzip, proto11) ==
  LET esi == ~noesi /\ s.obj.esidata
      child == esi_level > 0
      gunzip == GzipSupport /\ s.obj.gziped /\ ~gzip
      len == /\ (x.hcl \/ ~x.do_stream) /\ ~x.do_gzip /\ ~x.do_gunzip
             /\ ~esi /\ ~child /\ ~gunzip
  IN (IF esi THEN {"ESI"} ELSE {})
       \cup (IF child THEN {"ESI_CHILD"} ELSE {})
       \cup (IF gunzip THEN {"GUNZIP"} ELSE {})
       \cup (CASE len \/ (s.obj.empty /\ ~x.do_stream) -> {"LEN"}
               [] ~s.wantbody -> {}
               [] proto11 -> {"CHUNKED"}
               [] OTHER -> {"EOF"})

cnt_prepresp ==
  /\ Step("PREPRESP")
  /\ \E noesi, gzip, proto11 \in BOOLEAN, h \in {"deliver", "restart"} :
       LET rm == ResMode(sp, w, noesi, gzip, proto11)
           close == sp.doclose \/ "EOF" \in rm
       IN IF h = "restart" /\ sp.restarts < MaxRestarts
          THEN /\ sp' = [(IF w.do_stream THEN VDI_CloseFd(sp) ELSE sp)
                           EXCEPT !.obj = NoObj, !.restarts = @ + 1,
                                  !.director = FALSE, !.doclose = close,
                                  !.step = "RECV"]
               /\ w' = [(IF w.do_stream THEN DoCloseReset(w) ELSE w)
                          EXCEPT !.hcl = FALSE, !.bereq = FALSE, !.beresp = FALSE,
                                 !.resp = FALSE, !.res_mode = rm]
               /\ hist' = [hist EXCEPT !.spoiled = @ \/ (w.do_stream /\ w.vfp # Null)]
          ELSE /\ sp' = [sp EXCEPT !.doclose = close,
                           !.step = IF w.do_stream THEN "STREAMBODY" ELSE "DELIVER"]
               /\ w' = [w EXCEPT !.resp = TRUE, !.res_mode = rm]
               /\ UNCHANGED hist
  /\ UNCHANGED <<frames, panic>>

\* cnt_deliver until RES_WriteObj has sent the header, which an included
\* object does not have.  RES_BuildHttp has left the object's length in it when
\* the mode is RES_LEN; an empty object may have none.
cnt_deliver ==
  /\ Step("DELIVER")
  /\ \E cond, length \in BOOLEAN, n \in 0..MaxIncludes :
       LET body == sp.wantbody /\ ~cond
       IN /\ cond => esi_level = 0
          /\ (n > 0) => body /\ ~sp.obj.empty /\ "ESI" \in w.res_mode
          /\ sp' = [sp EXCEPT !.director = FALSE, !.restarts = 0,
                              !.wantbody = body, !.todo = n, !.step = "WRITING"]
          /\ w' = [w EXCEPT !.res_mode = IF body THEN @ ELSE @ \ {"CHUNKED"}]
          /\ length \/ sp.obj.empty
          /\ hist' = IF esi_level > 0 THEN hist
                     ELSE [hist EXCEPT !.announced =
                             IF length /\ ~cond /\ "LEN" \in w.res_mode
                             THEN "object" ELSE "no"]
  /\ UNCHANGED <<frames, panic>>

\* The next esi:include of the object being written
ved_include ==
  /\ Step("WRITING")
  /\ sp.todo > 0
  /\ IF esi_level >= MaxEsiDepth
     THEN sp' = [sp EXCEPT !.todo = @ - 1] /\ UNCHANGED <<w, frames>>
     ELSE /\ frames' = Append(frames, [obj |-> sp.obj, todo |-> sp.todo - 1,
                                       res_mode |-> w.res_mode])
          /\ sp' = [sp EXCEPT !.obj = NoObj, !.director = FALSE, !.todo = 0,
                              !.step = "RECV"]
          /\ w' = ClearFlags(w)
  /\ UNCHANGED <<panic, hist>>

\* An include that leaves its own res_mode (mutation)
ved_include_end_child(s, x) ==
  LET f == frames[esi_level]
  IN /\ frames' = SubSeq(frames, 1, esi_level - 1)
     /\ sp' = [s EXCEPT !.obj = f.obj, !.todo = f.todo, !.xid = TRUE,
                        !.step = "WRITING"]
     /\ w' = x

\* The rest of ved_include when the included request is done
ved_include_end(s, x) ==
  LET f == frames[esi_level]
  IN /\ frames' = SubSeq(frames, 1, esi_level - 1)
     /\ sp' = [s EXCEPT !.obj = f.obj, !.todo = f.todo, !.xid = TRUE,
                        !.step = "WRITING"]
     /\ w' = [x EXCEPT !.res_mode = f.res_mode]

\* The rest of cnt_deliver
cnt_deliver_end ==
  /\ Step("WRITING")
  /\ sp.todo = 0
  /\ \E flushed \in BOOLEAN :
       sp' = [sp EXCEPT !.fd = @ /\ flushed, !.obj = NoObj, !.step = "DONE"]
  /\ w' = [w EXCEPT !.resp = FALSE]
  /\ hist' = [hist EXCEPT !.sent = IF esi_level = 0 THEN "whole" ELSE @]
  /\ UNCHANGED <<frames, panic>>

\* The request is over: back into the include, close, or wait for the next one
cnt_done ==
  /\ Step("DONE")
  /\ LET x == ClearFlags(w)
         s == [sp EXCEPT !.director = FALSE, !.restarts = 0, !.xid = FALSE,
                         !.vcl = @ /\ esi_level > 0]
         y == [x EXCEPT !.vcl = @ \/ (sp.vcl /\ esi_level = 0), !.res_mode = {}]
     IN IF esi_level > 0
        THEN ved_include_end(s, x) /\ UNCHANGED panic
        ELSE /\ w' = y
             /\ UNCHANGED frames
             /\ IF s.doclose \/ ~s.fd
                THEN /\ sp' = NewSess
                     /\ UNCHANGED panic
                ELSE \E o \in HTC_Reinit :
                       LET t == [s EXCEPT !.rx = o.rx]
                       IN \/ /\ sp' = [t EXCEPT !.step = IF o.i = 1 THEN "START"
                                                         ELSE "WAIT"]
                             /\ UNCHANGED panic
                          \/ /\ o.i = 0 /\ o.rx = 0
                             /\ ToWaiter(t)
  /\ hist' = IF esi_level > 0 THEN hist
             ELSE [hist EXCEPT !.sent = "no", !.outofobjects = FALSE,
                          !.announced = "no"]

-----------------------------------------------------------------------------
(* Around the engine *)

\* wrk_thread_real after a work item
wrk_thread_real ==
  /\ panic = "no"
  /\ w.run /\ sp.at # "worker"
  /\ IF w.bereq \/ w.beresp \/ w.resp \/ w.hint \/ ~FlagsClear(w)
     THEN Panic("assert")
     ELSE w' = [w EXCEPT !.run = FALSE] /\ UNCHANGED <<sp, frames, panic, hist>>

\* wrk_do_cnt_sess gets the session from the acceptor, a waiter or a waiting list
wrk_do_cnt_sess(s) ==
  /\ panic = "no"
  /\ ~w.run
  /\ sp' = [s EXCEPT !.at = "worker"]
  /\ w' = [w EXCEPT !.run = TRUE, !.hint = FALSE]
  /\ UNCHANGED <<frames, panic, hist>>

\* vca_acct: the acceptor has a new session
SessionAccepted ==
  /\ sp.at \in {"gone", "lost"}
  /\ wrk_do_cnt_sess([NewSess EXCEPT !.fd = TRUE])

hsh_rush ==
  /\ sp.at = "parked"
  /\ wrk_do_cnt_sess(sp)

\* vca_handover: the waiter receives for the session; it can time out or be
\* dropped
WaiterHandsOver ==
  /\ panic = "no"
  /\ sp.at = "waiter"
  /\ \/ \E o \in HTC_Rx(sp.rx) :
          \/ /\ o.i = 1
             /\ wrk_do_cnt_sess([sp EXCEPT !.step = "START", !.rx = 0])
          \/ /\ o.i # 1
             /\ sp' = IF o.i = 0 THEN [sp EXCEPT !.rx = o.rx] ELSE NewSess
             /\ UNCHANGED <<w, frames, panic, hist>>
     \/ sp' = NewSess /\ UNCHANGED <<w, frames, panic, hist>>

\* The manager starts a new child
mgt_restart ==
  /\ panic # "no"
  /\ sp' = NewSess /\ w' = NewWorker /\ frames' = <<>>
  /\ panic' = "no" /\ hist' = NoHist

Engine ==
  \/ cnt_first \/ cnt_wait \/ cnt_start \/ cnt_recv \/ cnt_lookup \/ cnt_hit
  \/ cnt_miss \/ cnt_pass \/ cnt_pipe \/ cnt_fetch \/ cnt_fetchbody
  \/ cnt_fetchbody2 \/ RES_StreamStart \/ cnt_streambody \/ cnt_error \/ cnt_prepresp
  \/ cnt_deliver \/ ved_include \/ cnt_deliver_end \/ cnt_done

Next ==
  \/ Engine \/ AssertFails \/ wrk_thread_real
  \/ SessionAccepted \/ hsh_rush \/ WaiterHandsOver \/ mgt_restart

Spec == Init /\ [][Next]_vars

\* A worker thread goes on with the session it has, and a parked session is
\* rescheduled (CacheHash); nothing is assumed of clients and backends, whose
\* silence ends in a timeout
FairSpec == Spec /\ WF_vars(Engine \/ AssertFails \/ wrk_thread_real) /\ WF_vars(hsh_rush)

-----------------------------------------------------------------------------
(* Properties *)

\* The assertions of the engine, of the functions it calls and of
\* wrk_thread_real about what earlier steps left behind fail in two situations
\* only: cnt_fetchbody got no object and left vfp, storage_hint,
\* h_content_length and beresp set, or a streamed response with a filter was
\* restarted and left vfp set
AssertionsHold == panic = "assert" => hist.spoiled

\* A busy objcore belongs to a session between its miss and the object that is
\* made for it, and in cnt_error only when cnt_fetchbody got no object: in
\* particular a pass never has one.  The exception is an included request
\* after "Out of objects".
ObjcoreOnlyInFetch ==
  sp.objcore # Null =>
    \/ sp.step \in {"MISS", "FETCH", "FETCHBODY"}
    \/ sp.step = "ERROR" /\ hist.spoiled
    \/ hist.outofobjects

\* A backend connection is held, and an object stays busy, only while its body
\* is fetched: the object a client is sent without streaming is never one that
\* other sessions still wait for, unless it is an error object on the objcore
\* of a fetch that got no storage
FetchInProgress ==
  LET fetching == \/ sp.step \in {"FETCHBODY2", "STREAMBODY", "STREAMING"}
                  \/ sp.step = "PREPRESP" /\ w.do_stream
  IN /\ sp.vbc => (fetching \/ sp.step = "FETCHBODY") /\ sp.director
     /\ sp.obj.oc = "busy" => fetching \/ hist.spoiled
     /\ \A i \in DOMAIN frames : frames[i].obj.oc = "busy" => hist.spoiled

\* A response with a body is being sent, and no include of it is under way
Responding ==
  /\ esi_level = 0 /\ sp.wantbody
  /\ sp.step \in {"DELIVER", "WRITING", "STREAMBODY", "STREAMING"}

\* Something changes the length of the body that was announced on its way to
\* the client
LengthChanged ==
  \/ /\ hist.announced = "object" /\ ~sp.obj.empty
     /\ w.res_mode \cap {"ESI", "GUNZIP"} # {}
  \/ /\ hist.announced = "backend"
     /\ w.do_gzip \/ w.do_gunzip \/ "GUNZIP" \in w.res_mode

\* "If a backend sends a Content-Length header and we are streaming and we are
\* not uncompressing it, send the Content-Length header on" (changes.rst): no
\* length is announced that gzip, gunzip or ESI will change.  RES_StreamStart
\* announces one to a client of HTTP/1.0.
LengthUnchanged == Responding => ~LengthChanged

\* The client can tell where the body ends: by its length, by chunks, or by the
\* end of a connection that will be closed.  A length is announced in RES_LEN,
\* where nothing will change it, and never with chunks; one that is wrong is
\* announced only where RES_StreamStart does so before the connection closes.
\* ESI includes in between do not change it (cnt_prepresp, RES_WriteObj,
\* RES_StreamStart, ved_include).
FramingSound ==
  Responding =>
    /\ Cardinality(w.res_mode \cap {"LEN", "CHUNKED", "EOF"}) = 1
    /\ "EOF" \in w.res_mode => sp.doclose
    /\ "CHUNKED" \in w.res_mode => hist.announced = "no"
    /\ "LEN" \in w.res_mode =>
         \/ hist.announced # "no"
         \/ sp.step \in {"DELIVER", "STREAMBODY"}
         \/ sp.obj.empty /\ ~w.do_stream
    /\ LengthChanged => w.do_stream /\ "EOF" \in w.res_mode
    /\ "ESI_CHILD" \notin w.res_mode

\* In STP_WAIT there is room for more of the request, so that HTC_Rx does not
\* return -2: cnt_wait would close the session and stay in STP_WAIT
WaitHasRoom == (sp.at = "worker" /\ sp.step = "WAIT") => sp.rx < MaxBytes - 1

\* A connection is kept for another request only when the response to this one
\* was sent whole, or nothing at all was sent because a pipe had no backend
ReuseAfterResponse ==
  [][(sp.at = "worker" /\ sp.step = "DONE" /\ esi_level = 0 /\ sp'.fd) =>
       hist.sent \in {"whole", "nopipe"}]_vars

\* A request comes to its end, however often VCL restarts it, unless it is
\* parked over and over again
RequestEnds ==
  []<>(sp.at = "parked")
    \/ (sp.step = "START" ~> (sp.step = "DONE" \/ panic # "no"))

\* "pass has no objcore" (cache_fetch.c)
PassHasNoObjcore == sp.step = "PASS" => sp.objcore = Null

\* No step of the engine is entered in a state it does not expect: its
\* assertions hold and cnt_wait does not spin (cache_center.c).
EngineSound == TypeOK /\ AssertionsHold /\ WaitHasRoom

\* What a fetch needs is held from the miss to the end of the body and no
\* longer (cnt_miss, cnt_fetch, cnt_fetchbody, cnt_error).
FetchSound == ObjcoreOnlyInFetch /\ FetchInProgress
=============================================================================
