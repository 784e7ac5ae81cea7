----------------------------- MODULE BackendFetch -----------------------------
(***************************************************************************)
(* One worker's backend fetches through a Rust backend: the C callbacks    *)
(* of varnish-sys/src/vcl/backend/backend_main.rs and the ownership of the *)
(* VclResponse they pass to each other through raw pointers.               *)
(*                                                                         *)
(* wrap_gethdrs boxes the response and leaves the pointer in htc.priv_     *)
(* (bo.htc) and in the priv1 of a fetch processor; vfp_pull reads through  *)
(* the latter; wrap_finish frees it through the former.  varnishd calls    *)
(* them: gethdrs; on 0 possibly getip, then the body, then finish; after a *)
(* failed gethdrs it calls no finish, and may retry or give up.  Pipelines *)
(* composes these actions with the processors of vmods, and has Next.      *)
(***************************************************************************)
EXTENDS Integers

CONSTANTS Responses,  \* the VclResponse objects that get_response may return
          Bytes,      \* body lengths
          Buffers,    \* sizes of the buffers varnishd passes to vfp_pull
          NULL, Garbage

ASSUME DataAssumption == Bytes \subseteq Nat /\ Buffers \subseteq Nat
ASSUME PointerAssumption == NULL # Garbage /\ {NULL, Garbage} \cap Responses = {}

VARIABLES stage,    \* where varnishd is with the fetch
          box,      \* the heap: what became of each response
          htc,      \* bo.htc
          vfe,      \* priv1 of the processor that gethdrs pushed
          left,     \* bytes the current response has not produced yet
          outcome,  \* what the last fetch of a body came to
          crash     \* the panic or the undefined behaviour that ended the process

vars == <<stage, box, htc, vfe, left, outcome, crash>>

Stages  == {"idle", "failed", "hdrs", "fetching", "closed", "crashed"}
Crashes == {"none", "getip", "bad_free", "double_free", "use_after_free", "vdp_fini"}
Conns   == [magic : {"HTTP_CONN"}, priv : Responses \cup {NULL, Garbage},
            status : {"none", "length", "chunked"}, length : Nat \cup {-1}]

ASSUME NullAssumption == NULL \notin Conns

Init == /\ stage = "idle"
        /\ box = [r \in Responses |-> "unborn"]
        /\ htc = NULL
        /\ vfe = NULL
        /\ left = 0
        /\ outcome = "none"
        /\ crash = "none"

-----------------------------------------------------------------------------
(* wrap_gethdrs                                                             *)

\* get_response returns Err: logged, and 1 is returned.
ResponseErr ==
  /\ stage = "idle"
  /\ stage' = "failed"
  /\ UNCHANGED <<box, htc, vfe, left, outcome, crash>>

\* Ok, but the default protocol cannot be set or there is no room for the
\* http_conn: the response is still a local and is dropped on return.
HeadersFail(r) ==
  /\ stage = "idle"
  /\ box[r] = "unborn"
  /\ box' = [box EXCEPT ![r] = "dropped"]
  /\ stage' = "failed"
  /\ UNCHANGED <<htc, vfe, left, outcome, crash>>

\* Ok(None).  priv_ of the fresh http_conn is not assigned: it holds what the
\* workspace memory held.
NoBody ==
  /\ stage = "idle"
  /\ \E stale \in {NULL, Garbage} :
       htc' = [magic |-> "HTTP_CONN", priv |-> stale, status |-> "none", length |-> 0]
  /\ stage' = "hdrs"
  /\ outcome' = "none"
  /\ UNCHANGED <<box, vfe, left, crash>>

\* None is sent chunked, Some(0) has no body, Some(l) has a length.
Status(len) == IF len = NULL THEN "chunked" ELSE IF len = 0 THEN "none" ELSE "length"

\* Mutation: a processor is pushed for an empty body too.
BodyMut(r, len) ==
  /\ stage = "idle"
  /\ box[r] = "unborn"
  /\ box' = [box EXCEPT ![r] = "live"]
  /\ htc' = [magic |-> "HTTP_CONN", priv |-> r, status |-> Status(len),
             length |-> IF len = NULL THEN -1 ELSE len]
  /\ vfe' = r
  /\ left' \in IF len = NULL THEN Bytes ELSE {len}
  /\ stage' = "hdrs"
  /\ outcome' = "none"
  /\ UNCHANGED crash

\* Ok(Some(r)) with r.len() = len: the box goes into priv_ and, unless there
\* is nothing to push, into the priv1 of a new processor.
Body(r, len) ==
  /\ stage = "idle"
  /\ box[r] = "unborn"
  /\ box' = [box EXCEPT ![r] = "live"]
  /\ htc' = [magic |-> "HTTP_CONN", priv |-> r, status |-> Status(len),
             length |-> IF len = NULL THEN -1 ELSE len]
  /\ vfe' = IF Status(len) = "none" THEN NULL ELSE r
  /\ left' \in IF len = NULL THEN Bytes ELSE {len}
  /\ stage' = "hdrs"
  /\ outcome' = "none"
  /\ UNCHANGED crash

\* No room for the vfp or for its name, or VFP_Push fails: the box has been
\* turned into a raw pointer, and the http_conn that holds it is not in bo yet.
BodyFail(r) ==
  /\ stage = "idle"
  /\ box[r] = "unborn"
  /\ box' = [box EXCEPT ![r] = "live"]
  /\ stage' = "failed"
  /\ UNCHANGED <<htc, vfe, left, outcome, crash>>

-----------------------------------------------------------------------------
(* The body.                                                                *)

\* wrap_getip, when VCL reads beresp.backend.ip.
GetIp ==
  /\ stage = "hdrs"
  /\ IF htc.magic # "BUSYOBJ" \/ htc.priv = NULL
       THEN stage' = "crashed" /\ crash' = "getip"
       ELSE UNCHANGED <<stage, crash>>
  /\ UNCHANGED <<box, htc, vfe, left, outcome>>

\* vcl_backend_response returns deliver: varnishd opens the processors.
Deliver ==
  /\ stage = "hdrs"
  /\ stage' = IF htc.status = "none" THEN "closed" ELSE "fetching"
  /\ UNCHANGED <<box, htc, vfe, left, outcome, crash>>

\* Mutation: a response that produces more than it has.
ProducedMut(n) == 0..n
\* What read() may produce into a buffer of n bytes: VclResponse::read returns
\* Ok(0) when, and only when, the body is complete.
Produced(n) == {k \in 0..n : k <= left /\ (k = 0 => left = 0 \/ n = 0)}

\* Mutation: an empty buffer goes to read(), whose Ok(0) ends the body.
PullMut(n) ==
  /\ stage = "fetching"
  /\ \E k \in Produced(n) :
       /\ left' = left - k
       /\ IF k = 0 THEN stage' = "closed" /\ outcome' = "complete"
                   ELSE UNCHANGED <<stage, outcome>>
  /\ UNCHANGED <<box, htc, vfe, crash>>

\* vfp_pull with a buffer of n bytes; an empty one is returned at once.
Pull(n) ==
  /\ stage = "fetching"
  /\ n > 0
  /\ IF box[vfe] # "live"
       THEN stage' = "crashed" /\ crash' = "use_after_free" /\ UNCHANGED <<left, outcome>>
       ELSE /\ \/ stage' = "closed" /\ outcome' = "error" /\ UNCHANGED left
               \/ \E k \in Produced(n) :
                    /\ left' = left - k
                    /\ IF k = 0 THEN stage' = "closed" /\ outcome' = "complete"
                                ELSE UNCHANGED <<stage, outcome>>
            /\ UNCHANGED crash
  /\ UNCHANGED <<box, htc, vfe>>

-----------------------------------------------------------------------------
(* The end of a fetch.                                                      *)

\* Mutation: the pointers are cleared and nothing is dropped.
FinishMut ==
  /\ stage \in {"hdrs", "closed"}
  /\ stage' = "idle"
  /\ htc' = NULL
  /\ vfe' = NULL
  /\ UNCHANGED <<box, left, outcome, crash>>

\* wrap_finish: bo.htc and its priv_ are cleared and the response is dropped,
\* if priv_ is not null.  varnishd has closed the processors; it calls finish
\* when VCL abandons or retries the fetch and when the body is done.
Finish ==
  /\ stage \in {"hdrs", "closed"}
  /\ CASE htc.priv = Garbage -> /\ crash' = "bad_free" /\ stage' = "crashed"
                                /\ UNCHANGED box
       [] htc.priv = NULL    -> stage' = "idle" /\ UNCHANGED <<box, crash>>
       [] OTHER -> /\ IF box[htc.priv] = "live"
                        THEN stage' = "idle" /\ UNCHANGED crash
                        ELSE stage' = "crashed" /\ crash' = "double_free"
                   /\ box' = [box EXCEPT ![htc.priv] = "dropped"]
  /\ htc' = NULL
  /\ vfe' = NULL
  /\ UNCHANGED <<left, outcome>>

\* varnishd gives up on the headers, or tries again: there is no finish.
GiveUp ==
  /\ stage = "failed"
  /\ stage' = "idle"
  /\ UNCHANGED <<box, htc, vfe, left, outcome, crash>>

\* The manager starts a new worker process, with a new heap.
Restart ==
  /\ stage = "crashed"
  /\ stage' = "idle"
  /\ box' = [r \in Responses |-> "unborn"]
  /\ htc' = NULL /\ vfe' = NULL /\ left' = 0 /\ outcome' = "none" /\ crash' = "none"

GetHeaders == \/ ResponseErr \/ NoBody
              \/ \E r \in Responses : \/ HeadersFail(r) \/ BodyFail(r)
                                      \/ \E len \in Bytes \cup {NULL} : Body(r, len)

-----------------------------------------------------------------------------
\* The type invariant.
TypeOK == /\ stage \in Stages
          /\ box \in [Responses -> {"unborn", "live", "dropped"}]
          /\ htc \in Conns \cup {NULL}
          /\ vfe \in Responses \cup {NULL}
          /\ left \in Nat
          /\ outcome \in {"none", "complete", "error"}
          /\ crash \in Crashes

\* While varnishd may pull, the processor's priv1 is a live response, the one
\* that wrap_finish will free, and a processor exists exactly for a body.  No
\* response is read or freed after it has been freed.
ProcessorOwned ==
  /\ stage \in {"hdrs", "fetching"} =>
       /\ htc # NULL
       /\ (vfe # NULL) <=> (htc.status # "none")
       /\ vfe # NULL => htc.priv = vfe /\ box[vfe] = "live"
  /\ crash \notin {"double_free", "use_after_free"}

\* A body that is reported complete has been transferred to its last byte.
CompleteIsWhole == outcome = "complete" => left = 0

\* A response that reached bo.htc is dropped in the end, or the process dies.
EventuallyDropped ==
  \A r \in Responses : (htc # NULL /\ htc.priv = r) ~> (box[r] # "live" \/ stage = "crashed")
=============================================================================
