------------------------------- MODULE ReqBody -------------------------------
(***************************************************************************)
(* Reading the body of one request: Ctx::req_body_state, Ctx::req_body and *)
(* Ctx::cached_req_body of varnish-sys/src/vcl/ctx.rs, called in client    *)
(* VCL, then in a backend that answers the fetch, then in its retries.     *)
(*                                                                         *)
(* The body comes from the client's connection, once, or from an object    *)
(* that std.cache_req_body filled.  VRB_Iterate and ObjIterate are         *)
(* external: they feed chunks to a callback and keep req_body_status.      *)
(***************************************************************************)
EXTENDS Naturals

CONSTANTS Lengths,     \* lengths of a body, in chunks
          MaxAttempts  \* bound on the fetch and its retries

ASSUME LengthsAssumption == Lengths \subseteq Nat /\ MaxAttempts \in Nat \ {0}

VARIABLES context,  \* client VCL, the attempt of a backend, or over
          total,    \* the length of the body
          status,   \* req.req_body_status
          bo,       \* the busyobj: what it has of the body, and what is noted there
          attempt,  \* the number of the attempt
          doclose,  \* whether req.doclose blames the client's body
          read,     \* the last read: its result, what its writer got, from where
          streams,  \* how many reads took chunks off the connection
          broke     \* why the body could not be read to its end

vars == <<context, total, status, bo, attempt, doclose, read, streams, broke>>

Live     == {"length", "chunked", "eof"}
Statuses == Live \cup {"none", "error", "taken", "cached"}
NoBo     == [cached |-> FALSE, req |-> FALSE, no_retry |-> FALSE, err_code |-> 0]
NoRead   == [res |-> "none", got |-> 0, by |-> "none", from |-> "none"]

Init == /\ context = "client"
        /\ total \in Lengths
        /\ status \in IF total = 0 THEN {"none", "chunked"} ELSE Live
        /\ bo = NoBo
        /\ attempt = 0
        /\ doclose = FALSE
        /\ read = NoRead
        /\ streams = 0
        /\ broke = "no"

-----------------------------------------------------------------------------
(* The state of the body.                                                   *)

\* Mutation: a busyobj is asked for its request only.
BodyStateMut == IF context = "client" \/ bo.req THEN status ELSE "none"

\* req_body_state.
BodyState == IF context = "client" THEN status
             ELSE IF bo.cached THEN "cached"
             ELSE IF bo.req THEN status ELSE "none"

-----------------------------------------------------------------------------
(* External: one iteration.  Its outcome: how many chunks the writer took,   *)
(* what went wrong, and the status it leaves.                               *)

\* A live body: at its end it is taken.  If the writer fails, the status is an
\* error, unless that was on the last chunk.
Streamed == {[got |-> total, wrong |-> "no", status |-> "taken"]} \cup
            {[got |-> g, wrong |-> "stream", status |-> "error"] : g \in 0..total} \cup
            {[got |-> g, wrong |-> "writer",
              status |-> IF g + 1 = total THEN "taken" ELSE "error"] : g \in 0..(total - 1)}

Stored == {[got |-> total, wrong |-> "no", status |-> status]} \cup
          {[got |-> g, wrong |-> w, status |-> status] :
             g \in 0..(total - 1), w \in {"storage", "writer"}}

Refused == {[got |-> 0, wrong |-> "refused", status |-> status]}

Iterate == IF status \in Live THEN Streamed
           ELSE IF status = "cached" THEN Stored ELSE Refused

-----------------------------------------------------------------------------
(* Ctx::req_body.                                                           *)

Read(who, res, it, from) ==
  read' = [res |-> res, got |-> it.got, by |-> who, from |-> from]

Note(it) ==
  /\ status' = it.status
  /\ streams' = IF status \in Live THEN streams + 1 ELSE streams
  /\ broke' = IF broke = "no" /\ it.status = "error" THEN it.wrong ELSE broke

\* No body: Ok(false), and the writer is not called.
ReadNone ==
  /\ context # "over"
  /\ BodyState = "none"
  /\ read' = [res |-> "false", got |-> 0, by |-> context, from |-> "none"]
  /\ UNCHANGED <<context, total, status, bo, attempt, doclose, streams, broke>>

\* Mutation: the result of VRB_Iterate is not looked at.
ReadClientMut ==
  /\ context = "client"
  /\ BodyState # "none"
  /\ \E it \in Iterate :
       /\ Read("client", IF it.wrong = "writer" THEN "err" ELSE "true", it, status)
       /\ Note(it)
  /\ UNCHANGED <<context, total, bo, attempt, doclose>>

\* In client context: an error of the writer, or of the stream, is the result.
ReadClient ==
  /\ context = "client"
  /\ BodyState # "none"
  /\ \E it \in Iterate :
       /\ Read("client", IF it.wrong = "no" THEN "true" ELSE "err", it, status)
       /\ Note(it)
  /\ UNCHANGED <<context, total, bo, attempt, doclose>>

\* Mutation: the bookkeeping of the stream is done for a cached body too.
ReadCachedMut ==
  /\ context = "backend"
  /\ BodyState = "cached"
  /\ \E it \in Stored :
       Read("backend", IF it.wrong = "writer" THEN "err" ELSE "true", it, "cached")
  /\ bo' = [bo EXCEPT !.no_retry = TRUE]
  /\ UNCHANGED <<context, total, status, attempt, doclose, streams, broke>>

\* In a backend, a cached body: only the writer's error is looked at.
ReadCached ==
  /\ context = "backend"
  /\ BodyState = "cached"
  /\ \E it \in Stored :
       Read("backend", IF it.wrong = "writer" THEN "err" ELSE "true", it, "cached")
  /\ UNCHANGED <<context, total, status, bo, attempt, doclose, streams, broke>>

\* Mutation: the fetch is marked only if the read succeeded.
ReadStreamedMut ==
  /\ context = "backend"
  /\ BodyState \notin {"none", "cached"}
  /\ \E it \in Iterate :
       /\ Read("backend", IF it.wrong = "no" THEN "true" ELSE "err", it, status)
       /\ Note(it)
       /\ LET blame == it.wrong # "writer" /\ it.status = "error" IN
          /\ bo' = [bo EXCEPT !.no_retry = @ \/ it.wrong = "no",
                              !.err_code = IF blame THEN 400 ELSE @]
          /\ doclose' = (doclose \/ blame)
  /\ UNCHANGED <<context, total, attempt>>

\* Mutation: the error code is the one of a failed fetch.
ReadStreamed503 ==
  /\ context = "backend"
  /\ BodyState \notin {"none", "cached"}
  /\ \E it \in Iterate :
       /\ Read("backend", IF it.wrong = "no" THEN "true" ELSE "err", it, status)
       /\ Note(it)
       /\ bo' = [bo EXCEPT !.no_retry = TRUE, !.err_code = IF it.wrong = "stream" THEN 503 ELSE @]
       /\ doclose' = (doclose \/ it.wrong = "stream")
  /\ UNCHANGED <<context, total, attempt>>

\* Mutation: the status is looked at before the iteration.
ReadStreamedStale ==
  /\ context = "backend"
  /\ BodyState \notin {"none", "cached"}
  /\ \E it \in Iterate :
       /\ Read("backend", IF it.wrong = "no" THEN "true" ELSE "err", it, status)
       /\ Note(it)
       /\ LET blame == it.wrong # "writer" /\ status = "error" IN
          /\ bo' = [bo EXCEPT !.no_retry = TRUE, !.err_code = IF blame THEN 400 ELSE @]
          /\ doclose' = (doclose \/ blame)
  /\ UNCHANGED <<context, total, attempt>>

\* In a backend, the client's stream: the fetch cannot be retried, and a status
\* of error closes the connection, unless this writer failed.
ReadStreamed ==
  /\ context = "backend"
  /\ BodyState \notin {"none", "cached"}
  /\ \E it \in Iterate :
       /\ Read("backend", IF it.wrong = "no" THEN "true" ELSE "err", it, status)
       /\ Note(it)
       /\ LET blame == it.wrong # "writer" /\ it.status = "error" IN
          /\ bo' = [bo EXCEPT !.no_retry = TRUE, !.err_code = IF blame THEN 400 ELSE @]
          /\ doclose' = (doclose \/ blame)
  /\ UNCHANGED <<context, total, attempt>>

\* Ctx::cached_req_body: the chunks of a cached body, in client VCL.
ReadSlices ==
  /\ context = "client"
  /\ IF status = "cached"
       THEN \E it \in Stored :
              /\ it.wrong # "writer"
              /\ Read("client", IF it.wrong = "no" THEN "true" ELSE "err", it, "cached")
       ELSE Read("client", "err", [got |-> 0], status)
  /\ UNCHANGED <<context, total, status, bo, attempt, doclose, streams, broke>>

-----------------------------------------------------------------------------
(* External: varnishd and std.                                              *)

\* std.cache_req_body, which reads the stream into an object.
Cache ==
  /\ context = "client" /\ attempt = 0
  /\ status \in Live
  /\ \/ status' = "cached" /\ broke' = broke
     \/ status' = "error" /\ broke' = "stream"
  /\ UNCHANGED <<context, total, bo, attempt, doclose, read, streams>>

\* A pass: the busyobj gets the cached body, or the request, which is cleared
\* before vcl_backend_fetch unless bytes of its body are available: a body that
\* was read is like none (test16.vtc:166-179).  Whether a failed one counts as
\* available is left open.
StartFetch ==
  /\ context = "client" /\ attempt = 0
  /\ context' = "backend"
  /\ attempt' = 1
  /\ \E kept \in BOOLEAN :
       /\ status # "error" => (kept <=> status \in Live)
       /\ bo' = [NoBo EXCEPT !.cached = (status = "cached"), !.req = kept]
  /\ read' = NoRead
  /\ UNCHANGED <<total, status, doclose, streams, broke>>

\* return (retry).
Retry ==
  /\ context = "backend" /\ attempt < MaxAttempts
  /\ ~bo.no_retry
  /\ attempt' = attempt + 1
  /\ bo' = [bo EXCEPT !.err_code = 0]
  /\ read' = NoRead
  /\ UNCHANGED <<context, total, status, doclose, streams, broke>>

\* The answer is there: client VCL goes on (vcl_deliver, vcl_synth).
Deliver ==
  /\ context = "backend"
  /\ context' = "client"
  /\ UNCHANGED <<total, status, bo, attempt, doclose, read, streams, broke>>

End ==
  /\ context = "client"
  /\ context' = "over"
  /\ UNCHANGED <<total, status, bo, attempt, doclose, read, streams, broke>>

Next == \/ ReadNone \/ ReadClient \/ ReadCached \/ ReadStreamed \/ ReadSlices
        \/ Cache \/ StartFetch \/ Retry \/ Deliver \/ End

Spec == Init /\ [][Next]_vars

-----------------------------------------------------------------------------
\* The type invariant.
TypeOK == /\ context \in {"client", "backend", "over"}
          /\ total \in Lengths
          /\ status \in Statuses
          /\ bo \in [cached : BOOLEAN, req : BOOLEAN, no_retry : BOOLEAN, err_code : {0, 400}]
          /\ attempt \in 0..MaxAttempts
          /\ doclose \in BOOLEAN
          /\ read \in [res : {"none", "true", "false", "err"}, got : Nat,
                       by : {"none", "client", "backend"}, from : Statuses]
          /\ streams \in Nat
          /\ broke \in {"no", "stream", "writer"}

\* The body is gone, and not by a read of this fetch.
GoneBefore == status \in {"taken", "error"} /\ ~bo.no_retry

\* "Returns Ok(true) once the full body has been copied into writer" -- but for a
\* cached body in a backend, where "a failure [...] is not treated as fatal".
\* Ok(false) comes with nothing written, and a body that could still be read is
\* never passed over; only a backend is told so of a body that there was, and
\* only if it was gone before the fetch (FalseMeansNoBody is what the doc says).
ResultHonest ==
  /\ read.res = "true" /\ ~(read.by = "backend" /\ read.from = "cached") => read.got = total
  /\ read.res = "false" => /\ read.got = 0
                           /\ total = 0 \/ (read.by = "backend" /\ GoneBefore)

\* "Returns Ok(false) without touching writer if there is no body at all": a
\* backend gets it too for a body that client VCL read, whose "later read fails
\* (BodyState::Taken/an error)" (ctx.rs:391-393, 428).  The bodies that broke are left out: what
\* becomes of their fetch is varnishd's, and left open here.
FalseMeansNoBody == read.res = "false" /\ broke = "no" => total = 0

\* "an uncached body can be read exactly once": whoever comes second, across VCL,
\* the fetch and its retries, gets nothing of it and is not told Ok(true): an
\* error if the request is there to ask, and Ok(false) in a fetch that began
\* without it.  A body that std.cache_req_body stored is found again by any
\* number of attempts.
ReadersServed ==
  /\ streams <= 1
  /\ read.got > 0 \/ read.res = "true" => read.from \in Live \cup {"cached"}
  /\ read.from \in {"taken", "error"} => read.res = "err"
  /\ read.by = "backend" /\ read.from = "none" =>
       read.res = "false" /\ ~bo.req /\ ~bo.cached
  /\ status = "cached" /\ context = "backend" =>
       bo.cached /\ ~bo.no_retry /\ bo.err_code = 0 /\ ~doclose

\* "reading it marks the fetch as non-retryable": no attempt follows one that
\* read from the client's connection, whatever came of that read.
RetryReadable ==
  [][attempt > 0 /\ attempt' > attempt =>
       read.by = "none" \/ read.from \in {"none", "cached"}]_vars

\* A stream that broke is the client's fault for every backend that meets it, when
\* it reads or later: 400, and the connection is closed.  Nobody is blamed while
\* nothing broke.
StreamBlamed ==
  context = "backend" => /\ bo.no_retry /\ broke = "stream" => doclose /\ bo.err_code = 400
                         /\ doclose => broke # "no"

\* Both together: what a read tells its caller, and varnishd.
ReadReported == ResultHonest /\ StreamBlamed
=============================================================================
