---------------------------- MODULE PipelinesProofs ----------------------------
(***************************************************************************)
(* Proofs about BackendFetch and Pipelines, for any responses, bodies and  *)
(* buffers, and pipelines of any length.                                   *)
(***************************************************************************)
EXTENDS Pipelines, Recursion

\* The inductive invariant, in parts: what the fetch has, and that it is alive;
Fetching ==
  /\ stage \in {"hdrs", "fetching", "closed"} =>
       htc # NULL /\ (htc.priv \in Responses => box[htc.priv] = "live")
  /\ stage = "fetching" => htc.status # "none"
  /\ stage \in {"idle", "failed"} => vfe = NULL

FetchInv == TypeOK /\ ProcessorOwned /\ CompleteIsWhole /\ Fetching

\* the types of the pipelines;
Processor == [kind : {"through", "hold"}, held : Nat]
Deliveries == [state : {"idle", "open", "closed"}, ret : {-1, 0, 1}, fed : Nat,
               got : Nat, ended : BOOLEAN]
PipeTypes ==
  /\ vfps \in Seq({"null", "live"}) /\ Len(vfps) <= MaxProcs
  /\ object \in [len : Nat, state : {"none", "busy", "complete", "failed"}]
  /\ vdps \in Seq(Processor) /\ Len(vdps) <= MaxProcs
  /\ delivery \in Deliveries
  /\ boxes \in Nat

\* the heap has what the pipelines own;
Opened == {i \in DOMAIN vfps : vfps[i] = "live"}
Owners ==
  /\ boxes = Len(vdps) + Cardinality(Opened)
  /\ stage \in {"idle", "failed", "hdrs"} => vfps = <<>>
  /\ delivery.state # "open" => vdps = <<>>

\* how far the object is, by the stage of the fetch, and the delivery by that of
\* the object;
Storing ==
  /\ stage = "hdrs" => object.state = "none"
  /\ stage = "fetching" => object.state = "busy"
  /\ delivery.state = "idle" => delivery = NoDelivery
  /\ delivery.state # "idle" => object.state # "none"

\* and where the bytes are that were fed to the delivery.
Conserved ==
  /\ delivery.state = "open" /\ delivery.ret = 0 => delivery.got + Held = delivery.fed
  /\ delivery.ended /\ delivery.ret = 0 =>
       delivery.got = object.len /\ object.state = "complete"

PipeInv == PipeTypes /\ Owners /\ Storing /\ Conserved

IInv == FetchInv /\ PipeInv

-----------------------------------------------------------------------------
(* The fetch.                                                               *)

\* The response's box is with the http_conn.
LEMMA HtcTypes ==
  ASSUME TypeOK, htc # NULL
  PROVE  /\ htc \in Conns /\ htc.priv \in Responses \cup {NULL, Garbage}
         /\ htc.status \in {"none", "length", "chunked"}
BY DEF TypeOK, Conns

LEMMA GetHeadersStep == ASSUME FetchInv, GetHeaders PROVE FetchInv'
<1> USE DEF FetchInv, Stages
<1>1. CASE ResponseErr
  BY <1>1 DEF ResponseErr, TypeOK, ProcessorOwned, CompleteIsWhole, Fetching
<1>2. CASE NoBody
  <2>1. PICK stale \in {NULL, Garbage} :
          htc' = [magic |-> "HTTP_CONN", priv |-> stale, status |-> "none", length |-> 0]
    BY <1>2 DEF NoBody
  <2>2. htc' \in Conns /\ htc' # NULL /\ htc'.status = "none" /\ htc'.priv \notin Responses
    BY <2>1, PointerAssumption, NullAssumption DEF Conns
  <2>3. vfe' = vfe /\ stage' = "hdrs" /\ outcome' = "none" /\ UNCHANGED <<box, left, crash>>
    BY <1>2 DEF NoBody
  <2>4. vfe = NULL
    BY <1>2 DEF NoBody, Fetching
  <2> QED
    BY <2>2, <2>3, <2>4 DEF TypeOK, ProcessorOwned, CompleteIsWhole, Fetching
<1>3. ASSUME NEW r \in Responses, HeadersFail(r) \/ BodyFail(r) PROVE FetchInv'
  BY <1>3 DEF HeadersFail, BodyFail, TypeOK, ProcessorOwned, CompleteIsWhole, Fetching
<1>4. ASSUME NEW r \in Responses, NEW len \in Bytes \cup {NULL}, Body(r, len) PROVE FetchInv'
  <2>1. /\ stage' = "hdrs" /\ outcome' = "none" /\ crash' = crash
        /\ box' = [box EXCEPT ![r] = "live"]
        /\ vfe' = IF Status(len) = "none" THEN NULL ELSE r
    BY <1>4 DEF Body
  <2>2. /\ htc' = [magic |-> "HTTP_CONN", priv |-> r, status |-> Status(len),
                   length |-> IF len = NULL THEN -1 ELSE len]
        /\ Status(len) \in {"none", "length", "chunked"}
        /\ (IF len = NULL THEN -1 ELSE len) \in Nat \cup {-1}
    BY <1>4, DataAssumption DEF Body, Status
  <2>3. htc' \in Conns /\ htc' # NULL /\ htc'.status = Status(len) /\ htc'.priv = r
    BY <2>2, NullAssumption DEF Conns
  <2>4. left' \in Nat
    BY <1>4, DataAssumption DEF Body
  <2>5. r # NULL
    BY PointerAssumption
  <2> QED
    BY <2>1, <2>3, <2>4, <2>5 DEF TypeOK, ProcessorOwned, CompleteIsWhole, Fetching
<1> QED
  BY <1>1, <1>2, <1>3, <1>4 DEF GetHeaders

\* What varnishd and the backend do with a fetch.
LEMMA DriveStep ==
  ASSUME FetchInv, GetIp \/ GiveUp \/ Deliver
  PROVE  FetchInv'
<1> USE DEF FetchInv, Stages, TypeOK, ProcessorOwned, CompleteIsWhole, Fetching
<1>1. CASE GetIp
  BY <1>1 DEF GetIp, Crashes
<1>2. CASE GiveUp
  BY <1>2 DEF GiveUp
<1>3. CASE Deliver
  BY <1>3 DEF Deliver
<1> QED
  BY <1>1, <1>2, <1>3

\* vfp_pull finds a live response, and takes what there is.
LEMMA PullStep ==
  ASSUME FetchInv, NEW n \in Buffers, Pull(n)
  PROVE  /\ FetchInv'
         /\ left' \in 0..left
         /\ stage' \in {"fetching", "closed"}
         /\ UNCHANGED <<box, htc, vfe, crash>>
         /\ stage' = "fetching" => outcome' = outcome
<1> USE DEF FetchInv
<1>1. /\ stage = "fetching" /\ n \in Nat /\ UNCHANGED <<box, htc, vfe>>
      /\ vfe # NULL /\ box[vfe] = "live"
  BY DataAssumption DEF Pull, ProcessorOwned, Fetching
<1>2. crash' = crash
  BY <1>1 DEF Pull
<1>3. CASE stage' = "closed" /\ outcome' = "error" /\ UNCHANGED left
  BY <1>1, <1>2, <1>3 DEF TypeOK, Stages, ProcessorOwned, CompleteIsWhole, Fetching
<1>4. ASSUME NEW k \in Produced(n), left' = left - k,
             IF k = 0 THEN stage' = "closed" /\ outcome' = "complete"
                      ELSE UNCHANGED <<stage, outcome>>
      PROVE  /\ FetchInv' /\ left' \in 0..left /\ stage' \in {"fetching", "closed"}
             /\ stage' = "fetching" => outcome' = outcome
  <2>1. k \in Nat /\ k <= left /\ (k = 0 => left = 0) /\ left \in Nat
    BY <1>1 DEF Produced, TypeOK, Pull
  <2>2. left' \in 0..left /\ left' \in Nat
    BY <1>4, <2>1
  <2>3. CompleteIsWhole'
    BY <1>4, <2>1 DEF CompleteIsWhole
  <2>4. TypeOK' /\ ProcessorOwned' /\ Fetching'
    BY <1>1, <1>2, <1>4, <2>2 DEF TypeOK, Stages, ProcessorOwned, Fetching
  <2> QED
    BY <1>1, <1>4, <2>2, <2>3, <2>4
<1>5. \/ stage' = "closed" /\ outcome' = "error" /\ UNCHANGED left
      \/ \E k \in Produced(n) : /\ left' = left - k
                                /\ IF k = 0 THEN stage' = "closed" /\ outcome' = "complete"
                                            ELSE UNCHANGED <<stage, outcome>>
  BY <1>1 DEF Pull
<1> QED
  BY <1>1, <1>2, <1>3, <1>4, <1>5 DEF TypeOK

\* wrap_finish drops a live response, and a new process has none.
LEMMA FinishStep == ASSUME FetchInv, Finish PROVE FetchInv' /\ stage' \in {"idle", "crashed"}
<1> USE DEF FetchInv
<1>1. /\ stage \in {"hdrs", "closed"} /\ htc # NULL
      /\ htc' = NULL /\ vfe' = NULL /\ UNCHANGED <<left, outcome>>
  BY DEF Finish, Fetching
<1>2. htc.priv \in Responses \cup {NULL, Garbage}
  BY <1>1, HtcTypes
<1>3. /\ stage' \in {"idle", "crashed"} /\ crash' \in {crash, "bad_free"}
      /\ box' \in [Responses -> {"unborn", "live", "dropped"}]
  BY <1>1, <1>2 DEF Finish, Fetching, TypeOK
<1> QED
  BY <1>1, <1>3 DEF TypeOK, Stages, Crashes, ProcessorOwned, CompleteIsWhole, Fetching

LEMMA RestartStep == ASSUME FetchInv, Restart PROVE FetchInv'
BY DEF Restart, FetchInv, TypeOK, Stages, Crashes, ProcessorOwned, CompleteIsWhole, Fetching

-----------------------------------------------------------------------------
(* The bytes that delivery processors keep.                                 *)

HeldOf(v) == MapThenSumSet(LAMBDA i : v[i].held, DOMAIN v)

\* The sums over the first processors.
PartialSums(sum, v) ==
  /\ sum \in [0..Len(v) -> Nat]
  /\ sum[0] = 0
  /\ \A i \in 1..Len(v) : sum[i] = sum[i - 1] + v[i].held

LEMMA ProcessorsAre ==
  ASSUME NEW v \in Seq(Processor)
  PROVE  /\ Len(v) \in Nat /\ DOMAIN v = 1..Len(v)
         /\ \A i \in 1..Len(v) : /\ v[i] \in Processor
                                 /\ v[i].held \in Nat /\ v[i].kind \in {"through", "hold"}
                                 /\ v[i] = [kind |-> v[i].kind, held |-> v[i].held]
<1>1. Len(v) \in Nat /\ DOMAIN v = 1..Len(v) /\ \A i \in 1..Len(v) : v[i] \in Processor
  OBVIOUS
<1> QED
  BY <1>1 DEF Processor

\* What is kept in all is the last of them.
LEMMA HeldSums ==
  ASSUME NEW v \in Seq(Processor)
  PROVE  \E sum : PartialSums(sum, v) /\ HeldOf(v) = sum[Len(v)]
<1> DEFINE n == Len(v)
           w == [i \in 1..n |-> v[i].held]
           P(g) == g = [s \in SUBSET DOMAIN v |->
                          IF s = {} THEN 0
                          ELSE v[CHOOSE x \in s : TRUE].held + g[s \ {CHOOSE x \in s : TRUE}]]
<1>1. n \in Nat /\ DOMAIN v = 1..n /\ w \in [1..n -> Nat]
  BY ProcessorsAre
<1>2. ASSUME NEW g PROVE P(g) <=> SumsUp(g, w, 1..n)
  <2>1. \A s \in SUBSET (1..n) : s # {} => w[OneOf(s)] = v[OneOf(s)].held
    BY OneOfIsMember
  <2> QED
    BY <1>1, <2>1 DEF SumsUp, OneOf
<1>3. IsFiniteSet(1..n)
  BY <1>1, FS_Interval
<1>4. \E g : P(g)
  <2> HIDE DEF P, w, n
  <2> QED
    BY <1>1, <1>2, <1>3, SumExists
<1> DEFINE iter == CHOOSE g : P(g)
<1>5. P(iter)
  <2> HIDE DEF P
  <2> QED
    BY <1>4
<1>6. HeldOf(v) = iter[DOMAIN v]
  BY DEF HeldOf, MapThenSumSet, MapThenFoldSet
<1>7. SumsUp(iter, w, 1..n)
  <2> HIDE DEF P, w, n, iter
  <2> QED
    BY <1>2, <1>5
<1>8. PICK sum \in [0..n -> Nat] : Adding(sum, n, w) /\ iter[1..n] = sum[n]
  <2> HIDE DEF P, w, n, iter
  <2> QED
    BY <1>1, <1>7, SumOfInterval
<1>9. \A i \in 1..n : w[i] = v[i].held
  OBVIOUS
<1> HIDE DEF P, w, iter
<1> QED
  BY <1>1, <1>6, <1>8, <1>9 DEF PartialSums, Adding

\* Processors that keep nothing.
LEMMA HeldNothing ==
  ASSUME NEW v \in Seq(Processor), \A i \in 1..Len(v) : v[i].held = 0
  PROVE  HeldOf(v) = 0
<1>1. PICK sum : PartialSums(sum, v) /\ HeldOf(v) = sum[Len(v)]
  BY HeldSums
<1>2. Len(v) \in Nat
  BY ProcessorsAre
<1> DEFINE D == {i \in 0..Len(v) : sum[i] = 0}
<1>3. 0 \in D
  BY <1>1, <1>2 DEF PartialSums
<1>4. \A i \in 1..Len(v) : i - 1 \in D => i \in D
  BY <1>1, <1>2 DEF PartialSums
<1>5. 0..Len(v) \subseteq D
  <2> HIDE DEF D
  <2> QED
    BY <1>2, <1>3, <1>4, UptoInduction
<1> QED
  BY <1>1, <1>2, <1>5

-----------------------------------------------------------------------------
(* What comes out of delivery processors.                                   *)

LEMMA OutIs ==
  ASSUME PipeTypes, NEW n \in Nat, NEW last \in BOOLEAN
  PROVE  /\ Out(n, last) \in [0..Len(vdps) -> Nat]
         /\ Out(n, last)[0] = n
         /\ \A i \in 1..Len(vdps) :
              Out(n, last)[i] = IF Keeps(i, last) THEN 0 ELSE vdps[i].held + Out(n, last)[i - 1]
<1> DEFINE N == Len(vdps)
           F == [i \in 1..N |-> [x \in Nat |-> IF Keeps(i, last) THEN 0 ELSE vdps[i].held + x]]
           P(g) == g = [i \in 0..N |-> IF i = 0 THEN n ELSE IF Keeps(i, last) THEN 0
                                       ELSE vdps[i].held + g[i - 1]]
<1>1. N \in Nat /\ \A i \in 1..N : vdps[i].held \in Nat
  BY ProcessorsAre DEF PipeTypes
<1>2. F \in [1..N -> [Nat -> Nat]]
  BY <1>1
<1>3. PICK g \in [0..N -> Nat] : Steps(g, N, n, F)
  <2> HIDE DEF F, N
  <2> QED
    BY <1>1, <1>2, PrimitiveRecursion
<1>4. P(g)
  <2>1. ASSUME NEW i \in 1..N
        PROVE  g[i] = IF Keeps(i, last) THEN 0 ELSE vdps[i].held + g[i - 1]
    <3>1. g[i] = F[i][g[i - 1]]
      BY <1>3 DEF Steps
    <3>2. g[i - 1] \in Nat
      <4>1. i - 1 \in 0..N
        BY <1>1
      <4> QED
        BY <4>1
    <3>3. F[i][g[i - 1]] = IF Keeps(i, last) THEN 0 ELSE vdps[i].held + g[i - 1]
      BY <3>2
    <3> QED
      BY <3>1, <3>3
  <2> HIDE DEF F, N
  <2> QED
    BY <1>1, <1>3, <2>1 DEF Steps
<1> DEFINE out == CHOOSE h : P(h)
<1>5. P(out)
  <2> HIDE DEF P
  <2> QED
    BY <1>4
<1>6. Out(n, last) = out
  BY DEF Out
<1>7. /\ out[0] = n
      /\ \A i \in 1..N : out[i] = IF Keeps(i, last) THEN 0 ELSE vdps[i].held + out[i - 1]
      /\ DOMAIN out = 0..N /\ out = [i \in 0..N |-> out[i]]
  <2> HIDE DEF out, F
  <2> QED
    BY <1>1, <1>5
<1> DEFINE D == {i \in 0..N : out[i] \in Nat}
<1>8. 0 \in D
  BY <1>1, <1>7
<1>9. ASSUME NEW i \in 1..N, i - 1 \in D PROVE i \in D
  <2>1. i \in 0..N /\ vdps[i].held \in Nat /\ out[i - 1] \in Nat
    BY <1>1, <1>9
  <2>2. out[i] = IF Keeps(i, last) THEN 0 ELSE vdps[i].held + out[i - 1]
    BY <1>7
  <2> HIDE DEF out
  <2> QED
    BY <2>1, <2>2
<1>10. 0..N \subseteq D
  <2> HIDE DEF D, N, out
  <2> QED
    BY <1>1, <1>8, <1>9, UptoInduction
<1>11. out \in [0..N -> Nat]
  <2> HIDE DEF out
  <2> QED
    BY <1>7, <1>10
<1> HIDE DEF out, P
<1> QED
  BY <1>6, <1>7, <1>11
-----------------------------------------------------------------------------
(* The processors that VDP_Push leaves in the list.                         *)

\* Processors that keep nothing yet.
Fresh == {q \in Seq(Processor) : \A j \in 1..Len(q) : q[j].held = 0}

LEMMA AppendFresh ==
  ASSUME NEW q \in Fresh, NEW kind \in {"through", "hold"}
  PROVE  Append(q, [kind |-> kind, held |-> 0]) \in Fresh
<1> DEFINE e == [kind |-> kind, held |-> 0]
<1>1. e \in Processor /\ e.held = 0
  BY DEF Processor
<1> HIDE DEF e
<1>2. q \in Seq(Processor) /\ \A j \in 1..Len(q) : q[j].held = 0
  BY DEF Fresh
<1>3. Append(q, e) \in Seq(Processor) /\ Len(Append(q, e)) = Len(q) + 1
  BY <1>1, <1>2
<1>4. \A j \in 1..Len(q) + 1 : Append(q, e)[j].held = 0
  BY <1>1, <1>2
<1>5. Append(q, e) \in Fresh
  BY <1>3, <1>4 DEF Fresh
<1> QED
  BY <1>5 DEF e

LEMMA StayingIs ==
  ASSUME NEW s \in Opens({"through", "hold", "pass"}, {"err"}), ~Failed(s, {"err"})
  PROVE  Staying(s) \in Fresh /\ Len(Staying(s)) \in 0..MaxProcs
<1> DEFINE N == Len(s)
           e(i) == [kind |-> s[i], held |-> 0]
           F == [i \in 1..N |-> [q \in Fresh |->
                   IF s[i] = "pass" THEN q ELSE Append(q, e(i))]]
           next(g, i) == IF i = 0 THEN <<>> ELSE IF s[i] = "pass" THEN g[i - 1]
                         ELSE Append(g[i - 1], e(i))
           P(g) == g = [i \in 0..N |-> next(g, i)]
<1>1. N \in 0..MaxProcs /\ \A i \in 1..N : s[i] \in {"through", "hold", "pass"}
  <2>1. PICK n \in 0..MaxProcs : s \in [1..n -> {"through", "hold", "pass"} \cup {"err"}]
    BY DEF Opens
  <2>2. n \in Nat /\ Len(s) = n /\ DOMAIN s = 1..n
    BY <2>1, ProcsAssumption
  <2>3. \A i \in 1..n : i < n => s[i] \in {"through", "hold", "pass"}
    BY <2>2 DEF Opens
  <2>4. n > 0 => s[n] \in {"through", "hold", "pass"}
    BY <2>1, <2>2 DEF Failed
  <2> QED
    BY <2>2, <2>3, <2>4
<1>2. N \in Nat
  BY <1>1, ProcsAssumption
<1>3. <<>> \in Fresh /\ Len(<<>>) = 0
  BY DEF Fresh
<1>4. F \in [1..N -> [Fresh -> Fresh]]
  <2>1. ASSUME NEW i \in 1..N, NEW q \in Fresh
        PROVE  (IF s[i] = "pass" THEN q ELSE Append(q, e(i))) \in Fresh
    BY <1>1, AppendFresh
  <2> HIDE DEF N
  <2> QED
    BY <2>1
<1>5. PICK g \in [0..N -> Fresh] : Steps(g, N, <<>>, F)
  <2> HIDE DEF F, N
  <2> QED
    BY <1>2, <1>3, <1>4, PrimitiveRecursion
<1>6. P(g)
  <2>1. ASSUME NEW i \in 1..N PROVE g[i] = next(g, i)
    <3>1. g[i] = F[i][g[i - 1]]
      BY <1>5 DEF Steps
    <3>2. g[i - 1] \in Fresh
      <4>1. i - 1 \in 0..N
        BY <1>2
      <4> QED
        BY <4>1
    <3> QED
      BY <3>1, <3>2
  <2>2. g[0] = next(g, 0)
    BY <1>5 DEF Steps
  <2> HIDE DEF F, N, next
  <2>3. \A i \in 0..N : g[i] = next(g, i)
    BY <1>2, <2>1, <2>2
  <2> QED
    BY <1>5, <2>3
<1> DEFINE first == CHOOSE h : P(h)
<1>7. P(first)
  <2> HIDE DEF P
  <2> QED
    BY <1>6
<1>8. Staying(s) = first[N]
  BY DEF Staying
<1> HIDE DEF F, N
<1> DEFINE D == {i \in 0..N : first[i] \in Fresh /\ Len(first[i]) \in 0..i}
<1>9. /\ first[0] = <<>>
      /\ \A i \in 1..N : first[i] = IF s[i] = "pass" THEN first[i - 1]
                                     ELSE Append(first[i - 1], e(i))
  <2> HIDE DEF first, next
  <2>1. \A i \in 0..N : first[i] = next(first, i)
    BY <1>7
  <2>2. first[0] = next(first, 0) /\ \A i \in 1..N : first[i] = next(first, i)
    BY <1>2, <2>1
  <2> QED
    BY <2>2 DEF next
<1> HIDE DEF P, first
<1>10. 0 \in D
  BY <1>2, <1>3, <1>9
<1>11. ASSUME NEW i \in 1..N, i - 1 \in D PROVE i \in D
  <2> DEFINE q == first[i - 1]
  <2>1. i \in 0..N /\ q \in Fresh /\ Len(q) \in 0..(i - 1)
    BY <1>2, <1>11
  <2>2. first[i] = IF s[i] = "pass" THEN q ELSE Append(q, e(i))
    BY <1>9
  <2> HIDE DEF q
  <2>3. CASE s[i] = "pass"
    BY <2>1, <2>2, <2>3
  <2>4. CASE s[i] # "pass"
    <3> DEFINE x == e(i)
    <3>1. Append(q, x) \in Fresh
      BY <1>1, <2>1, <2>4, AppendFresh
    <3>2. q \in Seq(Processor)
      BY <2>1 DEF Fresh
    <3> HIDE DEF x
    <3>3. Len(Append(q, x)) \in 0..i
      BY <2>1, <3>2
    <3>4. first[i] = Append(q, x)
      BY <2>2, <2>4 DEF x
    <3> QED
      BY <2>1, <3>1, <3>3, <3>4
  <2> QED
    BY <2>3, <2>4
<1>12. 0..N \subseteq D
  <2> HIDE DEF D
  <2> QED
    BY <1>2, <1>10, <1>11, UptoInduction
<1>13. first[N] \in Fresh /\ Len(first[N]) \in 0..N
  BY <1>2, <1>12
<1> QED
  BY <1>1, <1>8, <1>13, ProcsAssumption

-----------------------------------------------------------------------------
(* A push.                                                                  *)

\* What the processors keep after a push.
After(n, last) ==
  [i \in DOMAIN vdps |->
     [vdps[i] EXCEPT !.held = IF Keeps(i, last) THEN @ + Out(n, last)[i - 1] ELSE 0]]

\* Bytes that come in are kept or go out, and the last push takes everything out.
LEMMA PushConserves ==
  ASSUME PipeTypes, NEW n \in Nat, NEW last \in BOOLEAN
  PROVE  /\ After(n, last) \in Seq(Processor) /\ Len(After(n, last)) = Len(vdps)
         /\ Out(n, last)[Len(vdps)] \in Nat
         /\ HeldOf(After(n, last)) + Out(n, last)[Len(vdps)] = HeldOf(vdps) + n
         /\ HeldOf(vdps) \in Nat /\ HeldOf(After(n, last)) \in Nat
         /\ last => HeldOf(After(n, last)) = 0
<1> DEFINE N == Len(vdps)
           out == Out(n, last)
           v == After(n, last)
<1>1. /\ N \in Nat /\ DOMAIN vdps = 1..N
      /\ \A i \in 1..N : /\ vdps[i].held \in Nat /\ vdps[i].kind \in {"through", "hold"}
                          /\ vdps[i] = [kind |-> vdps[i].kind, held |-> vdps[i].held]
  BY ProcessorsAre DEF PipeTypes
<1>2. /\ out \in [0..N -> Nat] /\ out[0] = n
      /\ \A i \in 1..N : out[i] = IF Keeps(i, last) THEN 0 ELSE vdps[i].held + out[i - 1]
  BY OutIs
<1> HIDE DEF N, out
<1>3. ASSUME NEW i \in 1..N
      PROVE  /\ i - 1 \in 0..N /\ out[i - 1] \in Nat
             /\ v[i] \in Processor
             /\ v[i].held = IF Keeps(i, last) THEN vdps[i].held + out[i - 1] ELSE 0
  <2> DEFINE h == IF Keeps(i, last) THEN vdps[i].held + out[i - 1] ELSE 0
             p == vdps[i]
  <2>1. i - 1 \in 0..N /\ i \in DOMAIN vdps
    BY <1>1
  <2>2. out[i - 1] \in Nat /\ h \in Nat
    BY <1>1, <1>2, <2>1
  <2>3. v[i] = [p EXCEPT !.held = h]
    BY <2>1 DEF After, out
  <2>4. p = [kind |-> p.kind, held |-> p.held] /\ p.kind \in {"through", "hold"}
    BY <1>1
  <2> HIDE DEF h, p, v
  <2>5. v[i] = [kind |-> p.kind, held |-> h]
    BY <2>3, <2>4
  <2>6. v[i] \in Processor /\ v[i].held = h
    BY <2>2, <2>4, <2>5 DEF Processor
  <2> QED
    BY <2>1, <2>2, <2>6 DEF h
<1>4. v \in Seq(Processor) /\ Len(v) = N
  <2>1. \A i \in 1..N : v[i] \in Processor
    BY <1>3
  <2>2. v = [i \in 1..N |-> v[i]]
    BY <1>1 DEF After
  <2> HIDE DEF v
  <2> QED
    BY <1>1, <2>1, <2>2
<1>5. PICK old : PartialSums(old, vdps) /\ HeldOf(vdps) = old[N]
  BY HeldSums DEF PipeTypes, N
<1>6. PICK new : PartialSums(new, v) /\ HeldOf(v) = new[N]
  <2> HIDE DEF v
  <2> QED
    BY <1>4, HeldSums
<1>7. /\ old \in [0..N -> Nat] /\ old[0] = 0 /\ \A i \in 1..N : old[i] = old[i - 1] + vdps[i].held
      /\ new \in [0..N -> Nat] /\ new[0] = 0 /\ \A i \in 1..N : new[i] = new[i - 1] + v[i].held
  BY <1>4, <1>5, <1>6 DEF PartialSums, N
<1> DEFINE D == {i \in 0..N : new[i] + out[i] = old[i] + n}
<1>8. 0 \in D
  BY <1>1, <1>2, <1>7
<1> HIDE DEF v
<1>9. ASSUME NEW i \in 1..N, i - 1 \in D PROVE i \in D
  <2>1. /\ i \in 0..N /\ out[i - 1] \in Nat /\ old[i - 1] \in Nat /\ new[i - 1] \in Nat
        /\ vdps[i].held \in Nat /\ new[i - 1] + out[i - 1] = old[i - 1] + n
    <3>1. i - 1 \in 0..N /\ out[i - 1] \in Nat /\ vdps[i].held \in Nat /\ i \in 0..N
      <4>1. vdps[i].held \in Nat /\ N \in Nat
        BY <1>1
      <4> QED
        BY <1>3, <4>1
    <3>2. old[i - 1] \in Nat /\ new[i - 1] \in Nat
      BY <1>7, <3>1
    <3> QED
      BY <1>9, <3>1, <3>2
  <2>2. /\ old[i] = old[i - 1] + vdps[i].held
        /\ new[i] = new[i - 1] + v[i].held
        /\ out[i] = IF Keeps(i, last) THEN 0 ELSE vdps[i].held + out[i - 1]
    BY <1>2, <1>7
  <2>3. v[i].held = IF Keeps(i, last) THEN vdps[i].held + out[i - 1] ELSE 0
    BY <1>3
  <2>4. new[i] + out[i] = old[i] + n
    BY <2>1, <2>2, <2>3
  <2> QED
    BY <2>1, <2>4
<1>10. 0..N \subseteq D
  <2> HIDE DEF D
  <2> QED
    BY <1>1, <1>8, <1>9, UptoInduction
<1>11. /\ new[N] + out[N] = old[N] + n
       /\ new[N] \in Nat /\ old[N] \in Nat /\ out[N] \in Nat
  BY <1>1, <1>2, <1>7, <1>10
<1>12. ASSUME last PROVE HeldOf(v) = 0
  <2>1. \A i \in 1..N : v[i].held = 0
    BY <1>3, <1>12 DEF Keeps
  <2> QED
    BY <1>4, <2>1, HeldNothing
<1>13. HeldOf(v) + out[N] = HeldOf(vdps) + n
  BY <1>5, <1>6, <1>11
<1> QED
  BY <1>4, <1>5, <1>6, <1>11, <1>12, <1>13 DEF N, out, v
-----------------------------------------------------------------------------
(* The steps of the pipelines.                                              *)

LEMMA HeldIs == Held = HeldOf(vdps) /\ Held' = HeldOf(vdps')
BY DEF Held, HeldOf, MapThenSumSet, MapThenFoldSet

\* The places of s that have x.
Marked(s, x) == {i \in DOMAIN s : s[i] = x}

LEMMA QuantifyIs ==
  ASSUME NEW s, NEW x
  PROVE  Quantify(DOMAIN s, LAMBDA i : s[i] = x) = Cardinality(Marked(s, x))
BY DEF Quantify, Marked

\* The processors that were opened are finite in number.
LEMMA OpenedFinite ==
  ASSUME NEW S, NEW s \in Seq(S), NEW x
  PROVE  /\ Cardinality(Marked(s, x)) \in Nat
         /\ s = <<>> => Cardinality(Marked(s, x)) = 0
<1>1. Len(s) \in Nat /\ DOMAIN s = 1..Len(s)
  OBVIOUS
<1>2. IsFiniteSet(1..Len(s))
  BY <1>1, FS_Interval
<1>3. IsFiniteSet(Marked(s, x))
  BY <1>1, <1>2, FS_Subset DEF Marked
<1>4. s = <<>> => Marked(s, x) = {}
  BY <1>1 DEF Marked
<1> QED
  BY <1>3, <1>4, FS_CardinalityType, FS_EmptySet

\* A delivery, by its fields.
Del(state, ret, fed, got, ended) ==
  [state |-> state, ret |-> ret, fed |-> fed, got |-> got, ended |-> ended]

LEMMA DeliveriesAre ==
  ASSUME NEW d \in Deliveries
  PROVE  /\ d = Del(d.state, d.ret, d.fed, d.got, d.ended)
         /\ d.state \in {"idle", "open", "closed"} /\ d.ret \in {-1, 0, 1}
         /\ d.fed \in Nat /\ d.got \in Nat /\ d.ended \in BOOLEAN
<1>1. d = Del(d.state, d.ret, d.fed, d.got, d.ended)
  BY DEF Deliveries, Del
<1>2. /\ d.state \in {"idle", "open", "closed"} /\ d.ret \in {-1, 0, 1}
      /\ d.fed \in Nat /\ d.got \in Nat /\ d.ended \in BOOLEAN
  BY DEF Deliveries
<1> QED
  BY <1>1, <1>2

LEMMA DelIs ==
  ASSUME NEW state \in {"idle", "open", "closed"}, NEW ret \in {-1, 0, 1}, NEW fed \in Nat,
         NEW got \in Nat, NEW ended \in BOOLEAN
  PROVE  Del(state, ret, fed, got, ended) \in Deliveries
BY DEF Deliveries, Del

LEMMA DelFields ==
  ASSUME NEW state, NEW ret, NEW fed, NEW got, NEW ended,
         NEW d, d = Del(state, ret, fed, got, ended)
  PROVE  d.state = state /\ d.ret = ret /\ d.fed = fed /\ d.got = got /\ d.ended = ended
BY DEF Del

LEMMA NoDeliveryIs ==
  /\ NoDelivery \in Deliveries /\ NoDelivery.state = "idle" /\ NoDelivery.ended = FALSE
  /\ [NoDelivery EXCEPT !.state = "open"] \in Deliveries
BY DEF NoDelivery, Deliveries

\* A delivery after a push, and after one in which a processor stops the bytes.
Fed(d, fed, got, ended)     == [d EXCEPT !.fed = fed, !.got = got, !.ended = ended]
Stopped(d, fed, ret, ended) == [d EXCEPT !.fed = fed, !.ret = ret, !.ended = ended]

LEMMA FedOn ==
  ASSUME NEW d \in Deliveries, NEW fed, NEW got, NEW ended
  PROVE  Fed(d, fed, got, ended) = Del(d.state, d.ret, fed, got, ended)
<1> DEFINE d1 == [d EXCEPT !.fed = fed]
           d2 == [d1 EXCEPT !.got = got]
           d3 == [d2 EXCEPT !.ended = ended]
<1>1. Fed(d, fed, got, ended) = d3
  BY DEF Fed
<1>2. d1 = Del(d.state, d.ret, fed, d.got, d.ended)
  BY DeliveriesAre DEF Del
<1> HIDE DEF d1
<1>3. d2 = Del(d.state, d.ret, fed, got, d.ended)
  BY <1>2 DEF Del
<1> HIDE DEF d2
<1>4. d3 = Del(d.state, d.ret, fed, got, ended)
  BY <1>3 DEF Del
<1> QED
  BY <1>1, <1>4, Zenon

LEMMA FedLast ==
  ASSUME NEW d \in Deliveries, NEW fed, NEW ret, NEW ended
  PROVE  Stopped(d, fed, ret, ended) = Del(d.state, ret, fed, d.got, ended)
<1> DEFINE d1 == [d EXCEPT !.fed = fed]
           d2 == [d1 EXCEPT !.ret = ret]
           d3 == [d2 EXCEPT !.ended = ended]
<1>1. Stopped(d, fed, ret, ended) = d3
  BY DEF Stopped
<1>2. d1 = Del(d.state, d.ret, fed, d.got, d.ended)
  BY DeliveriesAre DEF Del
<1> HIDE DEF d1
<1>3. d2 = Del(d.state, ret, fed, d.got, d.ended)
  BY <1>2 DEF Del
<1> HIDE DEF d2
<1>4. d3 = Del(d.state, ret, fed, d.got, ended)
  BY <1>3 DEF Del
<1> QED
  BY <1>1, <1>4, Zenon

LEMMA Closed ==
  ASSUME NEW d \in Deliveries
  PROVE  [d EXCEPT !.state = "closed"] = Del("closed", d.ret, d.fed, d.got, d.ended)
BY DeliveriesAre DEF Del

\* Steps of the fetch that leave the pipelines alone.
LEMMA FetchAlone ==
  ASSUME PipeInv, UNCHANGED pipes, stage' \notin {"fetching", "failed"},
         stage' = "idle" => vfps = <<>>, stage' = "hdrs" => stage = "hdrs"
  PROVE  PipeInv'
<1> USE DEF PipeInv, pipes
<1>1. Held' = Held
  BY HeldIs
<1>2. PipeTypes' /\ Storing'
  BY DEF PipeTypes, Storing
<1>3. Owners'
  BY DEF Owners, Opened
<1>4. Conserved'
  BY <1>1 DEF Conserved
<1> QED
  BY <1>2, <1>3, <1>4

LEMMA NewFetchStep == ASSUME IInv, NewFetch PROVE IInv'
<1> USE DEF IInv
<1>1. FetchInv'
  BY GetHeadersStep DEF NewFetch
<1>2. stage = "idle" /\ stage' \in {"failed", "hdrs"}
  BY DEF NewFetch, GetHeaders, ResponseErr, NoBody, HeadersFail, Body, BodyFail
<1>3. /\ delivery = NoDelivery /\ object' = NoObject
      /\ UNCHANGED <<vfps, vdps, delivery, boxes>>
  BY DEF NewFetch, PipeInv, Storing
<1>4. PipeTypes' /\ Storing'
  <2>1. object' = [len |-> 0, state |-> "none"] /\ delivery'.state = "idle"
    BY <1>3 DEF NoObject, NoDelivery
  <2>2. PipeTypes'
    BY <1>3, <2>1 DEF PipeInv, PipeTypes
  <2>3. Storing'
    BY <1>2, <1>3, <2>1 DEF Storing
  <2> QED
    BY <2>2, <2>3
<1>5. Owners'
  BY <1>2, <1>3 DEF PipeInv, Owners, Opened
<1>6. Conserved'
  BY <1>3 DEF Conserved, NoDelivery
<1> QED
  BY <1>1, <1>4, <1>5, <1>6 DEF PipeInv

LEMMA OpensAre ==
  ASSUME NEW good, NEW bad, NEW s \in Opens(good, bad)
  PROVE  /\ s \in Seq(good \cup bad) /\ Len(s) \in 0..MaxProcs
         /\ ~Failed(s, bad) => s \in Seq(good)
<1>1. PICK n \in 0..MaxProcs : s \in [1..n -> good \cup bad]
  BY DEF Opens
<1>2. n \in Nat /\ Len(s) = n /\ s \in Seq(good \cup bad) /\ DOMAIN s = 1..n
  BY <1>1, ProcsAssumption
<1>3. \A i \in 1..n : i < n => s[i] \in good
  BY <1>2 DEF Opens
<1>4. ASSUME ~Failed(s, bad) PROVE s \in Seq(good)
  <2>1. n > 0 => s[n] \in good
    BY <1>1, <1>2, <1>4 DEF Failed
  <2>2. \A i \in 1..n : s[i] \in good
    BY <1>2, <1>3, <2>1
  <2> QED
    BY <1>1, <1>2, <2>2
<1> QED
  BY <1>2, <1>4

LEMMA OpenFetchStep ==
  ASSUME IInv, NEW s \in Opens({"ok"}, {"err", "pass"}), OpenFetch(s)
  PROVE  IInv'
<1> DEFINE failed == Failed(s, {"err", "pass"})
           oks == Marked(s, "ok")
<1>1. s \in Seq({"ok", "err", "pass"}) /\ Len(s) \in Nat /\ Len(s) <= MaxProcs
  <2>1. s \in Seq({"ok"} \cup {"err", "pass"}) /\ Len(s) \in 0..MaxProcs
    BY OpensAre
  <2>2. {"ok"} \cup {"err", "pass"} = {"ok", "err", "pass"}
    OBVIOUS
  <2> QED
    BY <2>1, <2>2, ProcsAssumption
<1>2. /\ vfps' = [i \in DOMAIN s |-> InitVfp(s[i])]
      /\ object' = [len |-> 0, state |-> IF failed THEN "failed" ELSE "busy"]
      /\ UNCHANGED <<vdps, delivery>> /\ stage = "hdrs"
      /\ stage' = IF failed THEN "closed" ELSE "fetching"
  BY DEF OpenFetch, Deliver
<1>3. boxes' = boxes + Cardinality(oks)
  BY QuantifyIs DEF OpenFetch
<1>4. FetchInv'
  <2>1. CASE failed
    <3>1. stage = "hdrs" /\ stage' = "closed" /\ outcome' = "error"
          /\ UNCHANGED <<box, htc, vfe, left, crash>>
      BY <2>1 DEF OpenFetch
    <3> QED
      BY <3>1 DEF IInv, FetchInv, TypeOK, Stages, ProcessorOwned, CompleteIsWhole, Fetching
  <2>2. CASE ~failed
    BY <2>2, DriveStep DEF OpenFetch, IInv
  <2> QED
    BY <2>1, <2>2
<1>5. /\ vfps = <<>> /\ boxes = Len(vdps) + Cardinality(Opened)
      /\ delivery = NoDelivery /\ vdps = <<>>
  BY <1>2 DEF IInv, PipeInv, Owners, Storing, NoDelivery
<1>6. Cardinality(Opened) = 0 /\ Cardinality(oks) \in Nat
  <2>1. vfps \in Seq({"null", "live"}) /\ Opened = Marked(vfps, "live")
    BY DEF IInv, PipeInv, PipeTypes, Opened, Marked
  <2> QED
    BY <1>1, <1>5, <2>1, OpenedFinite
<1>7. boxes' = Cardinality(oks)
  BY <1>3, <1>5, <1>6
<1>8. vfps' \in Seq({"null", "live"}) /\ Len(vfps') = Len(s) /\ Opened' = oks
  <2>1. \A i \in DOMAIN s : InitVfp(s[i]) \in {"null", "live"} /\ (InitVfp(s[i]) = "live" <=> s[i] = "ok")
    BY DEF InitVfp
  <2>2. DOMAIN s = 1..Len(s)
    BY <1>1
  <2> QED
    BY <1>1, <1>2, <2>1, <2>2 DEF Opened, Marked
<1>9. PipeTypes'
  BY <1>1, <1>2, <1>5, <1>6, <1>7, <1>8 DEF IInv, PipeInv, PipeTypes, NoDelivery
<1>10. Owners'
  BY <1>2, <1>5, <1>6, <1>7, <1>8 DEF Owners
<1>11. Storing' /\ Conserved'
  BY <1>2, <1>5 DEF Storing, Conserved, NoDelivery
<1> QED
  BY <1>4, <1>9, <1>10, <1>11 DEF IInv, PipeInv

\* A delivery that has ended without an error sees no more of a fetch.
LEMMA ObjectGrows ==
  ASSUME PipeInv, stage = "fetching", UNCHANGED <<vfps, vdps, delivery, boxes>>,
         object' \in [len : Nat, state : {"busy", "complete", "failed"}],
         stage' \in {"fetching", "closed"}, stage' = "fetching" => object'.state = "busy"
  PROVE  PipeInv'
<1>1. object.state = "busy" /\ ~(delivery.ended /\ delivery.ret = 0)
  BY DEF PipeInv, Storing, Conserved
<1>2. Held' = Held
  BY HeldIs
<1>3. PipeTypes' /\ Storing'
  BY DEF PipeInv, PipeTypes, Storing
<1>4. Owners'
  BY DEF PipeInv, Owners, Opened
<1>5. Conserved'
  BY <1>1, <1>2 DEF PipeInv, Conserved
<1> QED
  BY <1>3, <1>4, <1>5 DEF PipeInv

LEMMA PullThroughStep ==
  ASSUME IInv, NEW n \in Buffers, PullThrough(n)
  PROVE  IInv'
<1>1. /\ FetchInv' /\ left' \in 0..left
      /\ stage' \in {"fetching", "closed"}
  BY PullStep DEF IInv, PullThrough
<1>2. stage = "fetching" /\ left \in Nat /\ object.len \in Nat
  BY DEF PullThrough, Pull, IInv, FetchInv, TypeOK, PipeInv, PipeTypes
<1>3. object.len + (left - left') \in Nat
  BY <1>1, <1>2
<1>4. /\ UNCHANGED <<vfps, vdps, delivery, boxes>>
      /\ object' \in [len : Nat, state : {"busy", "complete", "failed"}]
      /\ stage' = "fetching" => object'.state = "busy"
  <2> DEFINE state == IF stage' # "closed" THEN "busy"
                      ELSE IF outcome' = "complete" THEN "complete" ELSE "failed"
  <2>1. /\ object' = [len |-> object.len + (left - left'), state |-> state]
        /\ UNCHANGED <<vfps, vdps, delivery, boxes>>
    BY DEF PullThrough
  <2>2. state \in {"busy", "complete", "failed"} /\ (stage' = "fetching" => state = "busy")
    OBVIOUS
  <2> HIDE DEF state
  <2> QED
    BY <1>3, <2>1, <2>2
<1> QED
  BY <1>1, <1>2, <1>4, ObjectGrows DEF IInv

LEMMA PullFailsStep ==
  ASSUME IInv, NEW n \in Buffers, PullFails(n)
  PROVE  IInv'
<1>1. PICK k \in {0} \cup Produced(n) : left' = left - k
  BY DEF PullFails
<1>2. /\ stage = "fetching" /\ stage' = "closed" /\ outcome' = "error"
      /\ object' = [object EXCEPT !.state = "failed"]
      /\ UNCHANGED <<box, htc, vfe, crash, vfps, vdps, delivery, boxes>>
  BY DEF PullFails
<1>3. left' \in Nat
  <2>1. left \in Nat /\ n \in Nat
    BY DataAssumption DEF IInv, FetchInv, TypeOK
  <2> QED
    BY <1>1, <2>1 DEF Produced
<1>4. FetchInv'
  BY <1>2, <1>3 DEF IInv, FetchInv, TypeOK, Stages, ProcessorOwned, CompleteIsWhole, Fetching
<1>5. object' \in [len : Nat, state : {"busy", "complete", "failed"}]
  BY <1>2 DEF IInv, PipeInv, PipeTypes
<1> QED
  BY <1>2, <1>4, <1>5, ObjectGrows DEF IInv

LEMMA CloseFetchStep == ASSUME IInv, CloseFetch PROVE IInv'
<1>1. stage = "closed" /\ vfps' = <<>> /\ UNCHANGED <<fetch, object, vdps, delivery>>
  BY DEF CloseFetch
<1>2. boxes' = boxes - Cardinality(Opened)
  <2>1. Opened = Marked(vfps, "live")
    BY DEF Opened, Marked
  <2> QED
    BY <2>1, QuantifyIs DEF CloseFetch
<1>3. FetchInv'
  BY <1>1 DEF fetch, IInv, FetchInv, TypeOK, ProcessorOwned, CompleteIsWhole, Fetching
<1>4. Held' = Held
  BY <1>1, HeldIs
<1>5. /\ boxes = Len(vdps) + Cardinality(Opened) /\ Len(vdps) \in Nat
      /\ Cardinality(Opened) \in Nat /\ Cardinality(Opened') = 0
  <2>1. /\ vfps \in Seq({"null", "live"}) /\ Len(vdps) \in Nat
        /\ boxes = Len(vdps) + Cardinality(Opened)
    BY DEF IInv, PipeInv, PipeTypes, Owners
  <2>2. vfps' \in Seq({"null", "live"})
    BY <1>1
  <2>3. Opened = Marked(vfps, "live") /\ Opened' = Marked(vfps', "live")
    BY DEF Opened, Marked
  <2> QED
    BY <1>1, <2>1, <2>2, <2>3, OpenedFinite
<1>6. boxes' = Len(vdps)
  BY <1>2, <1>5
<1>7. PipeTypes'
  BY <1>1, <1>5, <1>6, ProcsAssumption DEF IInv, PipeInv, PipeTypes
<1>8. Owners' /\ Storing'
  BY <1>1, <1>5, <1>6 DEF fetch, IInv, PipeInv, Owners, Storing
<1>9. Conserved'
  BY <1>1, <1>4 DEF IInv, PipeInv, Conserved
<1> QED
  BY <1>3, <1>7, <1>8, <1>9 DEF IInv, PipeInv
LEMMA RestartAllStep == ASSUME IInv, RestartAll PROVE IInv'
<1>1. FetchInv'
  BY RestartStep DEF IInv, RestartAll
<1>2. /\ stage' = "idle" /\ vfps' = <<>> /\ vdps' = <<>> /\ boxes' = 0
      /\ object' = NoObject /\ delivery' = NoDelivery
  BY DEF RestartAll, Restart
<1>3. Opened' = {}
  BY <1>2 DEF Opened
<1>4. PipeTypes'
  BY <1>2, NoDeliveryIs, ProcsAssumption DEF PipeTypes, NoObject
<1>5. Owners'
  BY <1>2, <1>3, FS_EmptySet DEF Owners
<1>6. Storing' /\ Conserved'
  BY <1>2 DEF Storing, Conserved, NoDelivery
<1> QED
  BY <1>1, <1>4, <1>5, <1>6 DEF IInv, PipeInv

LEMMA OpenDeliveryStep ==
  ASSUME IInv, NEW s \in Opens({"through", "hold", "pass"}, {"err"}), OpenDelivery(s)
  PROVE  IInv'
<1>1. CASE Failed(s, {"err"})
  <2>1. /\ stage' = "crashed" /\ crash' = "vdp_fini"
        /\ UNCHANGED <<box, htc, vfe, left, outcome, pipes>>
    BY <1>1 DEF OpenDelivery
  <2>2. FetchInv'
    BY <2>1 DEF IInv, FetchInv, TypeOK, Stages, Crashes, ProcessorOwned, CompleteIsWhole,
                Fetching
  <2> QED
    BY <2>1, <2>2, FetchAlone DEF IInv
<1>2. CASE ~Failed(s, {"err"})
  <2>1. /\ vdps' = Staying(s) /\ boxes' = boxes + Len(vdps')
        /\ delivery' = [NoDelivery EXCEPT !.state = "open"]
        /\ UNCHANGED <<fetch, vfps, object>>
        /\ delivery.state = "idle" /\ object.state \in {"busy", "complete"}
    BY <1>2 DEF OpenDelivery
  <2>2. FetchInv'
    BY <2>1 DEF fetch, IInv, FetchInv, TypeOK, ProcessorOwned, CompleteIsWhole, Fetching
  <2>3. vdps' \in Fresh /\ Len(vdps') \in Nat /\ Len(vdps') <= MaxProcs
    BY <1>2, <2>1, StayingIs, ProcsAssumption
  <2>4. vdps' \in Seq(Processor) /\ HeldOf(vdps') = 0
    BY <2>3, HeldNothing DEF Fresh
  <2>5. delivery' = [state |-> "open", ret |-> 0, fed |-> 0, got |-> 0, ended |-> FALSE]
    BY <2>1 DEF NoDelivery
  <2>6. /\ vdps = <<>> /\ boxes \in Nat /\ boxes = Len(vdps) + Cardinality(Opened)
        /\ stage \in {"idle", "failed", "hdrs"} => vfps = <<>>
    BY <2>1 DEF IInv, PipeInv, Owners, PipeTypes
  <2>7. Opened' = Opened
    BY <2>1 DEF Opened
  <2>8. Cardinality(Opened) = boxes
    <3>1. vfps \in Seq({"null", "live"}) /\ Opened = Marked(vfps, "live")
      BY DEF IInv, PipeInv, PipeTypes, Opened, Marked
    <3>2. Cardinality(Opened) \in Nat
      BY <3>1, OpenedFinite
    <3> QED
      BY <2>6, <3>2
  <2>9. PipeTypes'
    <3>1. boxes' \in Nat
      BY <2>1, <2>3, <2>6
    <3>2. delivery' \in Deliveries
      BY <2>1, NoDeliveryIs
    <3> QED
      BY <2>1, <2>3, <2>4, <3>1, <3>2 DEF IInv, PipeInv, PipeTypes
  <2>10. Owners'
    <3>1. boxes' = Len(vdps') + Cardinality(Opened')
      BY <2>1, <2>3, <2>6, <2>7, <2>8
    <3> QED
      BY <2>1, <2>5, <2>6, <3>1 DEF fetch, Owners
  <2>11. Storing'
    BY <2>1, <2>5 DEF IInv, PipeInv, Storing, fetch
  <2>12. Conserved'
    BY <2>4, <2>5, HeldIs DEF Conserved
  <2> QED
    BY <2>2, <2>9, <2>10, <2>11, <2>12 DEF IInv, PipeInv
<1> QED
  BY <1>1, <1>2

\* Steps of the delivery in which the pipeline stays open.
LEMMA DeliveryGoesOn ==
  ASSUME IInv, UNCHANGED <<fetch, vfps, object, boxes>>,
         vdps' \in Seq(Processor), Len(vdps') = Len(vdps),
         delivery.state = "open", delivery'.state = "open",
         delivery' \in Deliveries,
         Conserved'
  PROVE  IInv'
<1>1. FetchInv'
  BY DEF fetch, IInv, FetchInv, TypeOK, ProcessorOwned, CompleteIsWhole, Fetching
<1>2. PipeTypes'
  BY DEF IInv, PipeInv, PipeTypes
<1>3. Owners'
  BY DEF IInv, PipeInv, Owners, Opened, fetch
<1>4. Storing'
  BY DEF IInv, PipeInv, Storing, fetch
<1> QED
  BY <1>1, <1>2, <1>3, <1>4 DEF IInv, PipeInv

\* Of the last push the bytes that are fed are all there are.
LEMMA PushableBytes ==
  ASSUME IInv, NEW n \in 0..object.len, NEW last \in BOOLEAN, Pushable(n, last)
  PROVE  /\ n \in Nat /\ delivery.fed \in Nat /\ delivery.got \in Nat
         /\ delivery.state = "open" /\ delivery.ret = 0
         /\ delivery.got + HeldOf(vdps) = delivery.fed
         /\ last => object.state = "complete" /\ delivery.fed + n = object.len
<1>1. delivery \in Deliveries /\ object.len \in Nat
  BY DEF IInv, PipeInv, PipeTypes
<1>2. delivery.state = "open" /\ delivery.ret = 0
  BY DEF Pushable
<1>3. delivery.got + HeldOf(vdps) = delivery.fed
  BY <1>2, HeldIs DEF IInv, PipeInv, Conserved
<1>4. last => object.state = "complete" /\ delivery.fed + n = object.len
  BY DEF Pushable
<1> QED
  BY <1>1, <1>2, <1>3, <1>4, DeliveriesAre

LEMMA PushStep ==
  ASSUME IInv, NEW n \in 0..object.len, NEW last \in BOOLEAN, Push(n, last)
  PROVE  IInv'
<1> DEFINE out == Out(n, last)[Len(vdps)]
<1>1. /\ n \in Nat /\ delivery.fed \in Nat /\ delivery.got \in Nat
      /\ delivery.state = "open" /\ delivery.ret = 0
      /\ delivery.got + HeldOf(vdps) = delivery.fed
      /\ last => object.state = "complete" /\ delivery.fed + n = object.len
  BY PushableBytes DEF Push
<1>2. /\ vdps' = After(n, last) /\ UNCHANGED <<fetch, vfps, object, boxes>>
      /\ delivery' = [delivery EXCEPT !.fed = @ + n, !.got = @ + out, !.ended = last]
  BY DEF Push, After
<1>3. /\ vdps' \in Seq(Processor) /\ Len(vdps') = Len(vdps) /\ out \in Nat
      /\ HeldOf(vdps') + out = HeldOf(vdps) + n
      /\ HeldOf(vdps) \in Nat /\ HeldOf(vdps') \in Nat
      /\ last => HeldOf(vdps') = 0
  BY <1>1, <1>2, PushConserves DEF IInv, PipeInv
<1> HIDE DEF out
<1>4. /\ delivery' \in Deliveries
      /\ delivery'.state = "open" /\ delivery'.ret = 0 /\ delivery'.ended = last
      /\ delivery'.fed = delivery.fed + n /\ delivery'.got = delivery.got + out
  <2>1. /\ delivery \in Deliveries /\ delivery.fed + n \in Nat /\ delivery.got + out \in Nat
    BY <1>1, <1>3 DEF IInv, PipeInv, PipeTypes
  <2> DEFINE fed == delivery.fed + n
             got == delivery.got + out
  <2> HIDE DEF fed, got
  <2>2. delivery' = [delivery EXCEPT !.fed = fed, !.got = got, !.ended = last]
    BY <1>2 DEF fed, got
  <2>3. delivery' = Del("open", 0, fed, got, last)
    <3>1. delivery' = Fed(delivery, fed, got, last)
      BY <2>2 DEF Fed
    <3> QED
      BY <1>1, <2>1, <3>1, FedOn
  <2>4. fed \in Nat /\ got \in Nat
    BY <2>1 DEF fed, got
  <2>5. delivery' \in Deliveries
    BY <2>3, <2>4, DelIs
  <2> QED
    BY <2>3, <2>5, DelFields DEF fed, got
<1>5. Conserved'
  <2>1. delivery'.got + HeldOf(vdps') = delivery'.fed
    <3> DEFINE got == delivery.got
               fed == delivery.fed
               held == HeldOf(vdps)
               kept == HeldOf(vdps')
    <3>1. /\ got \in Nat /\ fed \in Nat /\ held \in Nat /\ kept \in Nat /\ out \in Nat
          /\ n \in Nat /\ got + held = fed /\ kept + out = held + n
      BY <1>1, <1>3
    <3>2. delivery'.got = got + out /\ delivery'.fed = fed + n
      BY <1>4
    <3> HIDE DEF got, fed, held, kept
    <3>3. (got + out) + kept = fed + n
      BY <3>1
    <3> QED
      BY <3>2, <3>3 DEF kept
  <2>2. ASSUME last PROVE delivery'.got = object'.len /\ object'.state = "complete"
    <3>1. HeldOf(vdps') = 0 /\ object.state = "complete" /\ delivery.fed + n = object.len
      BY <1>1, <1>3, <2>2
    <3>2. delivery'.got \in Nat /\ delivery'.fed = object.len
      BY <1>1, <1>3, <1>4, <3>1
    <3>3. delivery'.got = object.len
      BY <2>1, <3>1, <3>2
    <3>4. object' = object
      BY <1>2
    <3> QED
      BY <3>1, <3>3, <3>4
  <2> QED
    BY <1>4, <2>1, <2>2, HeldIs DEF Conserved
<1> QED
  BY <1>1, <1>2, <1>3, <1>4, <1>5, DeliveryGoesOn

LEMMA PushStopsStep ==
  ASSUME IInv, NEW n \in 0..object.len, NEW last \in BOOLEAN, PushStops(n, last)
  PROVE  IInv'
<1>1. n \in Nat /\ delivery.fed \in Nat /\ delivery.state = "open"
  BY PushableBytes DEF PushStops
<1>2. PICK ret \in {-1, 1} :
        delivery' = [delivery EXCEPT !.fed = @ + n, !.ret = ret, !.ended = last]
  BY DEF PushStops
<1>3. UNCHANGED <<fetch, vfps, object, vdps, boxes>>
  BY DEF PushStops
<1>4. /\ delivery' \in Deliveries
      /\ delivery'.state = "open" /\ delivery'.ret # 0
  <2>1. delivery \in Deliveries /\ delivery.fed + n \in Nat
    BY <1>1 DEF IInv, PipeInv, PipeTypes
  <2> DEFINE fed == delivery.fed + n
  <2> HIDE DEF fed
  <2>2. delivery' = [delivery EXCEPT !.fed = fed, !.ret = ret, !.ended = last]
    BY <1>2 DEF fed
  <2>3. delivery' = Del("open", ret, fed, delivery.got, last)
    <3>1. delivery' = Stopped(delivery, fed, ret, last)
      BY <2>2 DEF Stopped
    <3> QED
      BY <1>1, <2>1, <3>1, FedLast
  <2>4. fed \in Nat /\ delivery.got \in Nat
    BY <2>1, DeliveriesAre DEF fed
  <2>5. delivery' \in Deliveries
    BY <2>3, <2>4, DelIs
  <2> QED
    BY <2>3, <2>5, DelFields
<1>5. vdps' \in Seq(Processor) /\ Len(vdps') = Len(vdps)
  BY <1>3 DEF IInv, PipeInv, PipeTypes
<1>6. Conserved'
  BY <1>4 DEF Conserved
<1> QED
  BY <1>1, <1>3, <1>4, <1>5, <1>6, DeliveryGoesOn

LEMMA CloseDeliveryStep == ASSUME IInv, CloseDelivery PROVE IInv'
<1>1. /\ boxes' = boxes - Len(vdps) /\ vdps' = <<>> /\ UNCHANGED <<fetch, vfps, object>>
      /\ delivery' = [delivery EXCEPT !.state = "closed"] /\ delivery.state = "open"
  BY DEF CloseDelivery
<1>2. FetchInv'
  BY <1>1 DEF fetch, IInv, FetchInv, TypeOK, ProcessorOwned, CompleteIsWhole, Fetching
<1>3. /\ delivery' \in Deliveries
      /\ delivery'.state = "closed" /\ delivery'.ret = delivery.ret
      /\ delivery'.ended = delivery.ended /\ delivery'.got = delivery.got
  <2>1. delivery \in Deliveries
    BY DEF IInv, PipeInv, PipeTypes
  <2>2. delivery' = Del("closed", delivery.ret, delivery.fed, delivery.got, delivery.ended)
    BY <1>1, <2>1, Closed
  <2>3. delivery' \in Deliveries
    BY <2>1, <2>2, DeliveriesAre, DelIs
  <2> QED
    BY <2>2, <2>3, DelFields
<1>4. /\ Opened' = Opened /\ Len(vdps) \in Nat /\ boxes = Len(vdps) + Cardinality(Opened)
      /\ Cardinality(Opened) \in Nat
  <2>1. vfps \in Seq({"null", "live"}) /\ Opened = Marked(vfps, "live")
    BY DEF IInv, PipeInv, PipeTypes, Opened, Marked
  <2>2. Cardinality(Opened) \in Nat
    BY <2>1, OpenedFinite
  <2>3. Opened' = Opened
    BY <1>1 DEF Opened
  <2> QED
    BY <2>2, <2>3 DEF IInv, PipeInv, PipeTypes, Owners
<1>5. boxes' = Cardinality(Opened)
  BY <1>1, <1>4
<1>6. PipeTypes'
  BY <1>1, <1>3, <1>4, <1>5, ProcsAssumption DEF IInv, PipeInv, PipeTypes
<1>7. Owners'
  BY <1>1, <1>4, <1>5 DEF fetch, IInv, PipeInv, Owners
<1>8. Storing'
  BY <1>1, <1>3 DEF fetch, IInv, PipeInv, Storing
<1>9. Conserved'
  BY <1>1, <1>3 DEF IInv, PipeInv, Conserved
<1> QED
  BY <1>2, <1>6, <1>7, <1>8, <1>9 DEF IInv, PipeInv

LEMMA EndTaskStep == ASSUME IInv, EndTask PROVE IInv'
<1>1. /\ delivery.state = "closed" /\ delivery' = NoDelivery
      /\ UNCHANGED <<fetch, vfps, object, vdps, boxes>>
  BY DEF EndTask
<1>2. FetchInv'
  BY <1>1 DEF fetch, IInv, FetchInv, TypeOK, ProcessorOwned, CompleteIsWhole, Fetching
<1>3. PipeTypes'
  BY <1>1, NoDeliveryIs DEF IInv, PipeInv, PipeTypes
<1>4. Owners'
  BY <1>1 DEF fetch, IInv, PipeInv, Owners, Opened
<1>5. Storing' /\ Conserved'
  BY <1>1 DEF fetch, IInv, PipeInv, Storing, Conserved, NoDelivery
<1> QED
  BY <1>2, <1>3, <1>4, <1>5 DEF IInv, PipeInv
-----------------------------------------------------------------------------
(* The invariant.                                                           *)

LEMMA StartIInv == ASSUME Start PROVE IInv
<1>1. /\ stage = "idle" /\ box = [r \in Responses |-> "unborn"] /\ htc = NULL /\ vfe = NULL
      /\ left = 0 /\ outcome = "none" /\ crash = "none"
      /\ vfps = <<>> /\ vdps = <<>> /\ boxes = 0 /\ object = NoObject /\ delivery = NoDelivery
  BY DEF Start, Init
<1>2. FetchInv
  BY <1>1 DEF FetchInv, TypeOK, Stages, Crashes, ProcessorOwned, CompleteIsWhole, Fetching
<1>3. PipeTypes
  BY <1>1, NoDeliveryIs, ProcsAssumption DEF PipeTypes, NoObject
<1>4. Owners
  <2>1. Opened = {}
    BY <1>1 DEF Opened
  <2> QED
    BY <1>1, <2>1, FS_EmptySet DEF Owners
<1>5. Storing /\ Conserved
  BY <1>1, NoDeliveryIs DEF Storing, Conserved
<1> QED
  BY <1>2, <1>3, <1>4, <1>5 DEF IInv, PipeInv

\* The steps of the fetch.
LEMMA FetchSteps ==
  ASSUME IInv,
         \/ NewFetch \/ (GetIp /\ UNCHANGED pipes) \/ (GiveUp /\ UNCHANGED pipes)
         \/ OpenSomeFetch \/ DeliverEmpty
         \/ \E n \in Buffers : PullThrough(n) \/ PullFails(n)
         \/ CloseFetch \/ FinishFetch \/ RestartAll
  PROVE  IInv'
<1>1. CASE NewFetch
  BY <1>1, NewFetchStep
<1>2. CASE GetIp /\ UNCHANGED pipes
  <2>1. FetchInv' /\ stage = "hdrs" /\ stage' \in {"hdrs", "crashed"}
    BY <1>2, DriveStep DEF IInv, GetIp
  <2> QED
    BY <1>2, <2>1, FetchAlone DEF IInv
<1>3. CASE GiveUp /\ UNCHANGED pipes
  <2>1. FetchInv' /\ stage = "failed" /\ stage' = "idle"
    BY <1>3, DriveStep DEF IInv, GiveUp
  <2>2. vfps = <<>>
    BY <2>1 DEF IInv, PipeInv, Owners
  <2> QED
    BY <1>3, <2>1, <2>2, FetchAlone DEF IInv
<1>4. CASE OpenSomeFetch
  BY <1>4, OpenFetchStep DEF OpenSomeFetch
<1>5. CASE DeliverEmpty
  <2>1. FetchInv' /\ stage' = "closed" /\ UNCHANGED pipes
    BY <1>5, DriveStep DEF IInv, DeliverEmpty, Deliver
  <2> QED
    BY <2>1, FetchAlone DEF IInv
<1>6. ASSUME NEW n \in Buffers, PullThrough(n) \/ PullFails(n) PROVE IInv'
  BY <1>6, PullThroughStep, PullFailsStep
<1>7. CASE CloseFetch
  BY <1>7, CloseFetchStep
<1>8. CASE FinishFetch
  <2>1. FetchInv' /\ stage' \in {"idle", "crashed"} /\ vfps = <<>> /\ UNCHANGED pipes
    BY <1>8, FinishStep DEF IInv, FinishFetch
  <2> QED
    BY <2>1, FetchAlone DEF IInv
<1>9. CASE RestartAll
  BY <1>9, RestartAllStep
<1> QED
  BY <1>1, <1>2, <1>3, <1>4, <1>5, <1>6, <1>7, <1>8, <1>9

LEMMA StepIInv == ASSUME IInv, [Step]_all PROVE IInv'
<1>1. CASE \/ NewFetch \/ (GetIp /\ UNCHANGED pipes) \/ (GiveUp /\ UNCHANGED pipes)
           \/ OpenSomeFetch \/ DeliverEmpty
           \/ \E n \in Buffers : PullThrough(n) \/ PullFails(n)
           \/ CloseFetch \/ FinishFetch \/ RestartAll
  BY <1>1, FetchSteps
<1>2. ASSUME NEW s \in Opens({"through", "hold", "pass"}, {"err"}), OpenDelivery(s)
      PROVE  IInv'
  BY <1>2, OpenDeliveryStep
<1>3. ASSUME NEW n \in 0..object.len, NEW last \in BOOLEAN, Push(n, last) \/ PushStops(n, last)
      PROVE  IInv'
  BY <1>3, PushStep, PushStopsStep
<1>4. CASE CloseDelivery
  BY <1>4, CloseDeliveryStep
<1>5. CASE EndTask
  BY <1>5, EndTaskStep
<1>6. CASE UNCHANGED all
  <2>1. UNCHANGED <<stage, box, htc, vfe, left, outcome, crash>> /\ UNCHANGED pipes
    BY <1>6 DEF all, fetch
  <2>2. FetchInv'
    BY <2>1 DEF IInv, FetchInv, TypeOK, ProcessorOwned, CompleteIsWhole, Fetching
  <2>3. Held' = Held
    BY <2>1, HeldIs DEF pipes
  <2>4. PipeInv'
    BY <2>1, <2>3 DEF pipes, IInv, PipeInv, PipeTypes, Owners, Opened, Storing, Conserved
  <2> QED
    BY <2>2, <2>4 DEF IInv
<1> QED
  BY <1>1, <1>2, <1>3, <1>4, <1>5, <1>6 DEF Step

LEMMA Invariance == PipeSpec => []IInv
<1>1. Start => IInv
  BY StartIInv
<1>2. IInv /\ [Step]_all => IInv'
  BY StepIInv
<1> QED
  BY <1>1, <1>2, PTL DEF PipeSpec

\* The variables of a fetch and of its pipelines have their types.
THEOREM TypeCorrect == PipeSpec => []PipesTypeOK
<1>1. IInv => PipesTypeOK
  BY DEF IInv, FetchInv, PipeInv, PipeTypes, PipesTypeOK, Processor, Deliveries
<1> QED
  BY <1>1, Invariance, PTL

\* Every box is with one owner: the response that is pulled from is live and is the
\* one that wrap_finish frees, and the processors of vmods on the heap are those
\* of the open pipelines, so that none is leaked or freed twice.
THEOREM BoxesOwned == PipeSpec => []OwnersRight
<1>1. Quantify(DOMAIN vfps, LAMBDA i : vfps[i] = "live") = Cardinality(Opened)
  BY QuantifyIs DEF Opened, Marked
<1>2. IInv => OwnersRight
  BY <1>1 DEF IInv, FetchInv, PipeInv, Owners, OwnersRight
<1> QED
  BY <1>2, Invariance, PTL

\* A body that is reported complete was read to its end, no byte is lost between
\* what is fed to the delivery, kept by its processors and sent, and a client whose
\* delivery ended without an error has all of it.
THEOREM BodiesWhole == PipeSpec => []DeliveredWhole
<1>1. IInv => DeliveredWhole
  BY DEF IInv, FetchInv, PipeInv, Conserved, DeliveredWhole
<1> QED
  BY <1>1, Invariance, PTL
===============================================================================
