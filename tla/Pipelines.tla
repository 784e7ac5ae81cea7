------------------------------- MODULE Pipelines -------------------------------
(***************************************************************************)
(* A body on its way from a backend to a client, through processors of     *)
(* vmods: the fetch of BackendFetch with FetchProcessors above the one     *)
(* that the backend pushed, the object in varnishd's storage, and its      *)
(* delivery, during the fetch or after it, through DeliveryProcessors.     *)
(* The callbacks are those of varnish-sys/src/vcl/processor.rs.            *)
(*                                                                         *)
(* A fetch processor hands on what it pulls, as vmod_vfp does, or fails; a *)
(* delivery processor pushes what it gets or, as vmod_vdp does, keeps it   *)
(* until the last push; both may fail.                                     *)
(***************************************************************************)
EXTENDS BackendFetch, Sequences, FiniteSetsExt

CONSTANT MaxProcs    \* bound on the processors of vmods in each pipeline

ASSUME ProcsAssumption == MaxProcs \in Nat

VARIABLES vfps,      \* priv1 of the FetchProcessors, the lowest first
          object,    \* the body in storage: its length, and whether there is more
          vdps,      \* the DeliveryProcessors: what each is, its priv, what it keeps
          delivery,  \* how far the delivery is, and what the client has got
          boxes      \* the processors on the heap

fetch == <<stage, box, htc, vfe, left, outcome, crash>>
pipes == <<vfps, object, vdps, delivery, boxes>>
all   == <<fetch, pipes>>

NoObject   == [len |-> 0, state |-> "none"]
NoDelivery == [state |-> "idle", ret |-> 0, fed |-> 0, got |-> 0, ended |-> FALSE]

\* The results of the processors' init, in order: one that fails is the last.
Opens(good, bad) ==
  {s \in UNION {[1..n -> good \cup bad] : n \in 0..MaxProcs} :
     \A i \in DOMAIN s : i < Len(s) => s[i] \in good}
Failed(s, bad) == s # <<>> /\ s[Len(s)] \in bad

-----------------------------------------------------------------------------
(* Fetch processors.                                                        *)

\* wrap_vfp_init: Ok puts a box into priv1; Err is VFP_ERROR and Pass VFP_END.
InitVfp(result) == IF result = "ok" THEN "live" ELSE "null"

\* varnishd opens the processors from the lowest up.  It takes anything but
\* VFP_OK for a failure, and the fetch fails.
OpenFetch(s) ==
  /\ htc # NULL /\ htc.status # "none"
  /\ vfps' = [i \in DOMAIN s |-> InitVfp(s[i])]
  /\ boxes' = boxes + Quantify(DOMAIN s, LAMBDA i : s[i] = "ok")
  /\ object' = [len |-> 0, state |-> IF Failed(s, {"err", "pass"}) THEN "failed" ELSE "busy"]
  /\ IF Failed(s, {"err", "pass"})
       THEN /\ stage = "hdrs" /\ stage' = "closed" /\ outcome' = "error"
            /\ UNCHANGED <<box, htc, vfe, left, crash>>
       ELSE Deliver
  /\ UNCHANGED <<vdps, delivery>>

\* A body that is empty needs no processors.
DeliverEmpty ==
  /\ htc # NULL /\ htc.status = "none"
  /\ Deliver
  /\ UNCHANGED pipes

\* VFP_Suck and wrap_vfp_pull, from the top down to vfp_pull: what that returns
\* comes up through FetchProcCtx::pull and PullResult, with its length.
PullThrough(n) ==
  /\ \A i \in DOMAIN vfps : vfps[i] = "live"
  /\ Pull(n)
  /\ object' = [len   |-> object.len + (left - left'),
                state |-> IF stage' # "closed" THEN "busy"
                          ELSE IF outcome' = "complete" THEN "complete" ELSE "failed"]
  /\ UNCHANGED <<vfps, vdps, delivery, boxes>>

\* PullResult::Err of a processor, before or after it pulled.
PullFails(n) ==
  /\ stage = "fetching" /\ vfps # <<>>
  /\ \E k \in {0} \cup Produced(n) : left' = left - k
  /\ stage' = "closed" /\ outcome' = "error"
  /\ object' = [object EXCEPT !.state = "failed"]
  /\ UNCHANGED <<box, htc, vfe, crash, vfps, vdps, delivery, boxes>>

\* Mutation: fini leaves the box to nobody when init failed.
CloseFetchLeaks ==
  /\ stage = "closed" /\ vfps # <<>>
  /\ boxes' = IF object.state = "failed" THEN boxes ELSE boxes - Len(vfps)
  /\ vfps' = <<>>
  /\ UNCHANGED <<fetch, object, vdps, delivery>>

\* VFP_Close: wrap_vfp_fini of every entry, those that were not opened included.
CloseFetch ==
  /\ stage = "closed" /\ vfps # <<>>
  /\ boxes' = boxes - Quantify(DOMAIN vfps, LAMBDA i : vfps[i] = "live")
  /\ vfps' = <<>>
  /\ UNCHANGED <<fetch, object, vdps, delivery>>

-----------------------------------------------------------------------------
(* Delivery processors.                                                     *)

\* The processors that stay in the list, each with nothing kept yet.
Staying(s) ==
  LET first[i \in 0..Len(s)] ==
        IF i = 0 THEN <<>> ELSE IF s[i] = "pass" THEN first[i - 1]
                           ELSE Append(first[i - 1], [kind |-> s[i], held |-> 0])
  IN first[Len(s)]

\* gen_vdp_init and VDP_Push: Pass is removed from the list.  After an Err the
\* entry stays there without a box, and when varnishd closes the pipeline,
\* gen_vdp_fini asserts that it has one.
OpenDelivery(s) ==
  /\ stage # "crashed"
  /\ delivery.state = "idle" /\ object.state \in {"busy", "complete"}
  /\ IF Failed(s, {"err"})
       THEN /\ stage' = "crashed" /\ crash' = "vdp_fini"
            /\ UNCHANGED <<box, htc, vfe, left, outcome, pipes>>
       ELSE /\ vdps' = Staying(s)
            /\ delivery' = [NoDelivery EXCEPT !.state = "open"]
            /\ boxes' = boxes + Len(vdps')
            /\ UNCHANGED <<fetch, vfps, object>>

\* What leaves the first i processors when n bytes come in, and what they keep.
Keeps(i, last)  == vdps[i].kind = "hold" /\ ~last
Out(n, last) ==
  LET out[i \in 0..Len(vdps)] ==
        IF i = 0 THEN n ELSE IF Keeps(i, last) THEN 0 ELSE vdps[i].held + out[i - 1]
  IN out

\* varnishd pushes what is in storage, with VDP_END in the last call.
Pushable(n, last) ==
  /\ stage # "crashed"
  /\ delivery.state = "open" /\ delivery.ret = 0 /\ ~delivery.ended
  /\ delivery.fed + n <= object.len
  /\ IF last THEN object.state = "complete" /\ delivery.fed + n = object.len ELSE n > 0

\* gen_vdp_push, down to the client.
Push(n, last) ==
  /\ Pushable(n, last)
  /\ vdps' = [i \in DOMAIN vdps |->
                [vdps[i] EXCEPT !.held = IF Keeps(i, last) THEN @ + Out(n, last)[i - 1] ELSE 0]]
  /\ delivery' = [delivery EXCEPT !.fed = @ + n, !.got = @ + Out(n, last)[Len(vdps)],
                                  !.ended = last]
  /\ UNCHANGED <<fetch, vfps, object, boxes>>

\* Mutation: an error of the processor is logged, and 0 returned.
PushStopsMut(n, last) ==
  /\ Pushable(n, last) /\ vdps # <<>>
  /\ delivery' = [delivery EXCEPT !.fed = @ + n, !.ended = last]
  /\ UNCHANGED <<fetch, vfps, object, vdps, boxes>>

\* PushResult::Err or End of a processor, in which the bytes stop: varnishd keeps
\* the result, and pushes no more.
PushStops(n, last) ==
  /\ Pushable(n, last) /\ vdps # <<>>
  /\ \E ret \in {-1, 1} :
       delivery' = [delivery EXCEPT !.fed = @ + n, !.ret = ret, !.ended = last]
  /\ UNCHANGED <<fetch, vfps, object, vdps, boxes>>

\* VDP_Close, gen_vdp_fini of every entry: at the end, after a failure, or when
\* the fetch has failed.
CloseDelivery ==
  /\ stage # "crashed"
  /\ delivery.state = "open"
  /\ delivery.ended \/ delivery.ret # 0 \/ object.state = "failed"
  /\ boxes' = boxes - Len(vdps)
  /\ vdps' = <<>>
  /\ delivery' = [delivery EXCEPT !.state = "closed"]
  /\ UNCHANGED <<fetch, vfps, object>>

\* The client's task ends; another one may find the object.
EndTask ==
  /\ delivery.state = "closed"
  /\ delivery' = NoDelivery
  /\ UNCHANGED <<fetch, vfps, object, vdps, boxes>>

-----------------------------------------------------------------------------
Start == /\ Init
         /\ vfps = <<>> /\ vdps = <<>> /\ boxes = 0
         /\ object = NoObject /\ delivery = NoDelivery

\* A new fetch comes when nobody uses the last object any more.
NewFetch == /\ delivery.state = "idle"
            /\ GetHeaders
            /\ object' = NoObject
            /\ UNCHANGED <<vfps, vdps, delivery, boxes>>

\* varnishd has closed the processors when it calls finish.
FinishFetch == vfps = <<>> /\ Finish /\ UNCHANGED pipes

RestartAll == /\ Restart
              /\ vfps' = <<>> /\ vdps' = <<>> /\ boxes' = 0
              /\ object' = NoObject /\ delivery' = NoDelivery

OpenSomeFetch == \E s \in Opens({"ok"}, {"err", "pass"}) : OpenFetch(s)
PullSome      == \E n \in Buffers : PullThrough(n) \/ PullFails(n)

Step == \/ NewFetch \/ (GetIp /\ UNCHANGED pipes) \/ (GiveUp /\ UNCHANGED pipes)
        \/ OpenSomeFetch \/ DeliverEmpty
        \/ \E n \in Buffers : PullThrough(n) \/ PullFails(n)
        \/ CloseFetch \/ FinishFetch \/ RestartAll
        \/ \E s \in Opens({"through", "hold", "pass"}, {"err"}) : OpenDelivery(s)
        \/ \E n \in 0..object.len, last \in BOOLEAN : Push(n, last) \/ PushStops(n, last)
        \/ CloseDelivery \/ EndTask

PipeSpec == Start /\ [][Step]_all

\* varnishd drives a fetch that has headers to its end: it opens the processors or
\* finishes, keeps pulling with room in its buffer, closes them and calls finish.
FairPipeSpec == /\ PipeSpec
                /\ WF_all(OpenSomeFetch) /\ WF_all(DeliverEmpty)
                /\ WF_all(PullSome) /\ WF_all(CloseFetch) /\ WF_all(FinishFetch)

-----------------------------------------------------------------------------
\* The type invariant.
PipesTypeOK ==
  /\ TypeOK
  /\ vfps \in Seq({"null", "live"}) /\ Len(vfps) <= MaxProcs
  /\ object \in [len : Nat, state : {"none", "busy", "complete", "failed"}]
  /\ vdps \in Seq([kind : {"through", "hold"}, held : Nat]) /\ Len(vdps) <= MaxProcs
  /\ delivery \in [state : {"idle", "open", "closed"}, ret : {-1, 0, 1}, fed : Nat,
                   got : Nat, ended : BOOLEAN]
  /\ boxes \in Nat

\* The owners of processors: the response that is read is the one that finish
\* frees, and each processor of a vmod is in one open pipeline and dropped when
\* that closes, after an init that failed or passed too.
OwnersRight ==
  /\ ProcessorOwned
  /\ boxes = Len(vdps) + Quantify(DOMAIN vfps, LAMBDA i : vfps[i] = "live")
  /\ stage \in {"idle", "failed", "hdrs"} => vfps = <<>>
  /\ delivery.state # "open" => vdps = <<>>

Held == MapThenSumSet(LAMBDA i : vdps[i].held, DOMAIN vdps)

\* From end to end: a body that is reported complete came to its last byte, and
\* a client for whom the delivery ended without an error has every byte of it,
\* through processors that keep some of them for later; before that, no byte is
\* lost between what was fed, kept and sent.
DeliveredWhole ==
  /\ CompleteIsWhole
  /\ delivery.state = "open" /\ delivery.ret = 0 =>
       delivery.got + Held = delivery.fed
  /\ delivery.ended /\ delivery.ret = 0 => delivery.got = object.len /\ object.state = "complete"
=============================================================================
