---------------------------- MODULE RequestProofs ----------------------------
(***************************************************************************)
(* Proofs about ReqBody, for bodies of any lengths and any number of       *)
(* attempts, and about HttpHeaders, for any headers and room for any       *)
(* number of them: the arrays and the compaction in place implement        *)
(* HeaderList.                                                             *)
(***************************************************************************)
EXTENDS ReqBody, HttpHeaders, Recursion

\* The inductive invariant, in parts: what the status says of the reads there
\* were, and of what went wrong;
Consumed ==
  /\ streams \in {0, 1}
  /\ status \in Live \cup {"cached"} => streams = 0
  /\ status = "taken" => streams = 1
  /\ status = "none" => total = 0
  /\ broke = "no" <=> status # "error"
  /\ doclose => status = "error"

\* what the busyobj knows of the body since the fetch began;
Fetching ==
  /\ context = "backend" => attempt > 0
  /\ attempt = 0 => bo = NoBo
  /\ attempt > 0 => (bo.cached <=> status = "cached")
  /\ attempt > 0 /\ ~bo.cached /\ ~bo.req => total = 0 \/ status \in {"taken", "error"}
  /\ bo.req => attempt > 0 /\ ~bo.cached /\ status # "none"
  /\ bo.no_retry => bo.req /\ status \in {"taken", "error"}
  /\ bo.no_retry /\ broke = "stream" => doclose /\ bo.err_code = 400
  /\ bo.err_code = 400 => doclose

\* and what a backend has done with it.
Attempted ==
  context = "backend" =>
    (~bo.no_retry => read.by = "none" \/ read.from \in {"none", "cached"})

\* Whoever comes second gets nothing.
ReadRefused ==
  /\ read.got > 0 \/ read.res = "true" => read.from \in Live \cup {"cached"}
  /\ read.from \in {"taken", "error"} => read.res = "err"
  /\ read.by = "backend" /\ read.from = "none" =>
       read.res = "false" /\ ~bo.req /\ ~bo.cached

Inv == TypeOK /\ Consumed /\ Fetching /\ Attempted /\ ReadRefused /\ ReadReported

\* What one iteration leaves, by the status that it finds.
Iteration(it) ==
  /\ it.got \in Nat /\ it.wrong \in {"no", "stream", "writer", "refused", "storage"}
  /\ it.wrong = "no" => it.got = total
  /\ it.wrong = "stream" => it.status = "error"
  /\ status \in Live => /\ it.status \in {"taken", "error"}
                        /\ it.status = "error" => it.wrong \in {"stream", "writer"}
  /\ status \notin Live => it.status = status /\ it.wrong # "stream"
  /\ status \notin Live \cup {"cached"} => it.got = 0 /\ it.wrong = "refused"

LEMMA IterateIs == TypeOK => \A it \in Iterate : Iteration(it)
<1> SUFFICES ASSUME TypeOK, NEW it \in Iterate PROVE Iteration(it)
  OBVIOUS
<1>1. total \in Nat
  BY LengthsAssumption DEF TypeOK
<1>2. CASE status \in Live
  <2>1. it \in Streamed
    BY <1>2 DEF Iterate
  <2>2. CASE it = [got |-> total, wrong |-> "no", status |-> "taken"]
    BY <1>1, <1>2, <2>2 DEF Iteration, Live
  <2>3. ASSUME NEW g \in 0..total, it = [got |-> g, wrong |-> "stream", status |-> "error"]
        PROVE  Iteration(it)
    BY <1>1, <1>2, <2>3 DEF Iteration, Live
  <2>4. ASSUME NEW g \in 0..(total - 1),
               it = [got |-> g, wrong |-> "writer",
                     status |-> IF g + 1 = total THEN "taken" ELSE "error"]
        PROVE  Iteration(it)
    BY <1>1, <1>2, <2>4 DEF Iteration, Live
  <2> QED
    BY <2>1, <2>2, <2>3, <2>4 DEF Streamed
<1>3. CASE status = "cached"
  <2>1. it \in Stored /\ status \notin Live
    BY <1>3 DEF Iterate, Live
  <2>2. CASE it = [got |-> total, wrong |-> "no", status |-> status]
    BY <1>1, <2>1, <1>3, <2>2 DEF Iteration
  <2>3. ASSUME NEW g \in 0..(total - 1), NEW w \in {"storage", "writer"},
               it = [got |-> g, wrong |-> w, status |-> status]
        PROVE  Iteration(it)
    BY <1>1, <2>1, <1>3, <2>3 DEF Iteration
  <2> QED
    BY <2>1, <2>2, <2>3 DEF Stored
<1>4. CASE status \notin Live \cup {"cached"}
  <2>1. it = [got |-> 0, wrong |-> "refused", status |-> status]
    BY <1>4 DEF Iterate, Refused
  <2> QED
    BY <1>4, <2>1 DEF Iteration
<1> QED
  BY <1>2, <1>3, <1>4

-----------------------------------------------------------------------------
\* Nothing has been read.
LEMMA InitInv == Init => Inv
<1> SUFFICES ASSUME Init PROVE Inv
  OBVIOUS
<1> USE DEF Init
<1>1. TypeOK
  <2>1. bo \in [cached : BOOLEAN, req : BOOLEAN, no_retry : BOOLEAN, err_code : {0, 400}]
    BY DEF NoBo
  <2>2. read \in [res : {"none", "true", "false", "err"}, got : Nat,
                  by : {"none", "client", "backend"}, from : Statuses]
    BY DEF NoRead, Statuses
  <2>3. status \in Statuses /\ attempt \in 0..MaxAttempts /\ streams \in Nat
    BY LengthsAssumption DEF Statuses, Live
  <2> QED
    BY <2>1, <2>2, <2>3 DEF TypeOK
<1>2. Consumed
  BY DEF Consumed, Live
<1>3. Fetching /\ Attempted /\ ReadRefused /\ ReadReported
  BY DEF Fetching, Attempted, ReadRefused, ReadReported, ResultHonest, GoneBefore, StreamBlamed, NoBo, NoRead
<1> QED
  BY <1>1, <1>2, <1>3 DEF Inv

\* A read notes what became of the body.
LEMMA Noted ==
  ASSUME Inv, NEW it \in Iterate, Note(it), UNCHANGED total,
         doclose' => doclose \/ it.status = "error"
  PROVE  /\ Consumed' /\ status' \in Statuses /\ streams' \in Nat
         /\ broke' \in {"no", "stream", "writer"}
         /\ status' = "cached" <=> status = "cached"
         /\ streams' >= streams
         /\ status' = it.status
         /\ broke' = "stream" => broke = "stream" \/ it.wrong = "stream"
         /\ status = "error" => status' = "error" /\ it.wrong = "refused"
         /\ status \notin Live => status' = status /\ broke' = broke
         /\ status \in Live => status' \in {"taken", "error"}
<1> USE DEF Inv, Note, Statuses, Live, Consumed, TypeOK
<1>1. Iteration(it)
  BY IterateIs
<1>2. CASE status \in Live
  BY <1>1, <1>2 DEF Iteration
<1>3. CASE status \notin Live
  BY <1>1, <1>3 DEF Iteration
<1> QED
  BY <1>2, <1>3

LEMMA ReadNoneStep == ASSUME Inv, ReadNone PROVE Inv'
<1> USE DEF Inv, ReadNone
<1>1. TypeOK'
  BY DEF TypeOK, Statuses
<1>2. Consumed' /\ Fetching' /\ Attempted' /\ ReadRefused'
  BY DEF Consumed, Fetching, Attempted, ReadRefused, BodyState, TypeOK
<1>3. total = 0 \/ (context = "backend" /\ GoneBefore)
  BY DEF BodyState, Consumed, Fetching, TypeOK, GoneBefore
<1>4. ReadReported'
  BY <1>3 DEF ReadReported, ResultHonest, GoneBefore, StreamBlamed
<1> QED
  BY <1>1, <1>2, <1>4

LEMMA ReadClientStep == ASSUME Inv, ReadClient PROVE Inv'
<1> USE DEF Inv
<1>1. PICK it \in Iterate :
         /\ Read("client", IF it.wrong = "no" THEN "true" ELSE "err", it, status)
         /\ Note(it)
  BY DEF ReadClient
<1>2. /\ context = "client" /\ status # "none"
      /\ UNCHANGED <<context, total, bo, attempt, doclose>>
  BY DEF ReadClient, BodyState
<1>3. Iteration(it)
  BY IterateIs
<1>4. /\ Consumed' /\ status' \in Statuses /\ streams' \in Nat
      /\ broke' \in {"no", "stream", "writer"}
      /\ status' = "cached" <=> status = "cached"
      /\ streams' >= streams
      /\ status \notin Live => status' = status /\ broke' = broke
      /\ status \in Live => status' \in {"taken", "error"}
  BY <1>1, <1>2, Noted
<1>5. read' = [res |-> IF it.wrong = "no" THEN "true" ELSE "err", got |-> it.got,
               by |-> "client", from |-> status]
  BY <1>1 DEF Read
<1>6. TypeOK'
  BY <1>2, <1>3, <1>4, <1>5 DEF TypeOK, Iteration
<1>7. Fetching' /\ Attempted'
  <2>1. attempt \in Nat
    BY DEF TypeOK
  <2> QED
    BY <1>2, <1>4, <2>1 DEF Fetching, Attempted, Consumed, Live
<1>8. ReadRefused' /\ ReadReported'
  BY <1>2, <1>3, <1>5
     DEF ReadRefused, ReadReported, ResultHonest, GoneBefore, StreamBlamed, Iteration, Live
<1> QED
  BY <1>4, <1>6, <1>7, <1>8

LEMMA ReadCachedStep == ASSUME Inv, ReadCached PROVE Inv'
<1> USE DEF Inv
<1>1. PICK it \in Stored :
         Read("backend", IF it.wrong = "writer" THEN "err" ELSE "true", it, "cached")
  BY DEF ReadCached
<1>2. /\ context = "backend" /\ bo.cached
      /\ UNCHANGED <<context, total, status, bo, attempt, doclose, streams, broke>>
  BY DEF ReadCached, BodyState, Statuses, Live, Consumed, Fetching, TypeOK
<1>3. status = "cached"
  BY <1>2 DEF Fetching
<1>4. it.got \in Nat
  BY <1>3, IterateIs DEF Iterate, Iteration, Live
<1>5. read' = [res |-> IF it.wrong = "writer" THEN "err" ELSE "true", got |-> it.got,
               by |-> "backend", from |-> "cached"]
  BY <1>1 DEF Read
<1>6. TypeOK'
  BY <1>2, <1>4, <1>5 DEF TypeOK, Statuses
<1> QED
  BY <1>2, <1>5, <1>6
     DEF Consumed, Fetching, Attempted, ReadRefused, ReadReported, ResultHonest, GoneBefore, StreamBlamed

LEMMA ReadStreamedStep == ASSUME Inv, ReadStreamed PROVE Inv'
<1> USE DEF Inv
<1>1. PICK it \in Iterate :
         /\ Read("backend", IF it.wrong = "no" THEN "true" ELSE "err", it, status)
         /\ Note(it)
         /\ LET blame == it.wrong # "writer" /\ it.status = "error" IN
            /\ bo' = [bo EXCEPT !.no_retry = TRUE, !.err_code = IF blame THEN 400 ELSE @]
            /\ doclose' = (doclose \/ blame)
  BY DEF ReadStreamed
<1>2. PICK blame \in BOOLEAN : blame = (it.wrong # "writer" /\ it.status = "error")
  OBVIOUS
<1>3. /\ bo' = [bo EXCEPT !.no_retry = TRUE, !.err_code = IF blame THEN 400 ELSE @]
      /\ doclose' = (doclose \/ blame)
  BY <1>1, <1>2
<1>4. /\ context = "backend" /\ ~bo.cached /\ bo.req /\ status # "none" /\ status # "cached"
      /\ UNCHANGED <<context, total, attempt>>
  BY DEF ReadStreamed, BodyState, Fetching, TypeOK
<1>5. Iteration(it)
  BY IterateIs
<1>6. /\ Consumed' /\ status' \in Statuses /\ streams' \in Nat
      /\ broke' \in {"no", "stream", "writer"}
      /\ status' = "cached" <=> status = "cached"
      /\ status' = it.status
      /\ broke' = "stream" => broke = "stream" \/ it.wrong = "stream"
      /\ status = "error" => status' = "error" /\ it.wrong = "refused"
      /\ status \notin Live => status' = status
      /\ status \in Live => status' \in {"taken", "error"}
  BY <1>1, <1>2, <1>3, <1>4, Noted
<1>7. read' = [res |-> IF it.wrong = "no" THEN "true" ELSE "err", got |-> it.got,
               by |-> "backend", from |-> status]
  BY <1>1 DEF Read
<1>8. /\ bo' \in [cached : BOOLEAN, req : BOOLEAN, no_retry : BOOLEAN, err_code : {0, 400}]
      /\ bo'.no_retry /\ bo'.cached = bo.cached /\ bo'.req = bo.req
      /\ bo'.err_code = IF blame THEN 400 ELSE bo.err_code
  <2>1. PICK code \in {0, 400} : code = IF blame THEN 400 ELSE bo.err_code
    BY DEF TypeOK
  <2>2. bo' = [bo EXCEPT !.no_retry = TRUE, !.err_code = code]
    BY <1>3, <2>1
  <2>3. /\ bo = [cached |-> bo.cached, req |-> bo.req, no_retry |-> bo.no_retry,
                 err_code |-> bo.err_code]
        /\ bo.cached \in BOOLEAN /\ bo.req \in BOOLEAN
    BY DEF TypeOK
  <2>4. bo' = [cached |-> bo.cached, req |-> bo.req, no_retry |-> TRUE, err_code |-> code]
    BY <2>2, <2>3
  <2> QED
    BY <2>1, <2>3, <2>4
<1>9. TypeOK'
  BY <1>3, <1>4, <1>5, <1>6, <1>7, <1>8 DEF TypeOK, Iteration
<1>9a. broke' = "stream" => blame
  BY <1>2, <1>5, <1>6 DEF Consumed, Iteration
<1>10. Fetching' /\ Attempted'
  <2>1. bo'.err_code = 400 => doclose'
    BY <1>3, <1>8 DEF Fetching
  <2>2. attempt > 0 /\ attempt # 0
    BY <1>4 DEF Fetching, TypeOK
  <2>3. status' \in {"taken", "error"}
    BY <1>4, <1>6 DEF TypeOK, Statuses
  <2>4. broke' = "stream" => doclose' /\ bo'.err_code = 400
    BY <1>3, <1>8, <1>9a
  <2>5. Fetching'
    BY <1>4, <1>6, <1>8, <2>1, <2>2, <2>3, <2>4 DEF Fetching
  <2> QED
    BY <1>4, <1>8, <2>5 DEF Attempted
<1>11. ReadRefused' /\ ResultHonest'
  BY <1>4, <1>5, <1>7 DEF ReadRefused, ResultHonest, Iteration, Live
<1>12. StreamBlamed'
  <2>2. doclose' => broke' # "no"
    BY <1>6 DEF Consumed
  <2> QED
    BY <1>3, <1>8, <1>9a, <2>2 DEF StreamBlamed
<1> QED
  BY <1>6, <1>9, <1>10, <1>11, <1>12 DEF ReadReported

LEMMA ReadSlicesStep == ASSUME Inv, ReadSlices PROVE Inv'
<1> USE DEF Inv
<1>1. /\ context = "client"
      /\ UNCHANGED <<context, total, status, bo, attempt, doclose, streams, broke>>
  BY DEF ReadSlices
<1>2. /\ read' \in [res : {"true", "err"}, got : Nat, by : {"client"}, from : {status}]
      /\ read'.res = "true" => read'.got = total
      /\ status # "cached" => read'.res = "err" /\ read'.got = 0
  <2>1. CASE status = "cached"
    <3>1. PICK it \in Stored :
             Read("client", IF it.wrong = "no" THEN "true" ELSE "err", it, "cached")
      BY <2>1 DEF ReadSlices
    <3>2. Iteration(it)
      BY <2>1, IterateIs DEF Iterate, Live
    <3> QED
      BY <2>1, <3>1, <3>2 DEF Read, Iteration
  <2>2. CASE status # "cached"
    BY <2>2 DEF ReadSlices, Read
  <2> QED
    BY <2>1, <2>2
<1>3. TypeOK'
  BY <1>1, <1>2 DEF TypeOK
<1> QED
  BY <1>1, <1>2, <1>3
     DEF Consumed, Fetching, Attempted, ReadRefused, ReadReported, ResultHonest, GoneBefore, StreamBlamed

-----------------------------------------------------------------------------
\* What varnishd does: the fetch starts,
LEMMA FetchStarts ==
  ASSUME StartFetch
  PROVE  /\ context = "client" /\ attempt = 0
         /\ context' = "backend" /\ attempt' = 1 /\ read' = NoRead
         /\ UNCHANGED <<total, status, doclose, streams, broke>>
         /\ bo' \in [cached : BOOLEAN, req : BOOLEAN, no_retry : BOOLEAN, err_code : {0, 400}]
         /\ bo'.cached <=> status = "cached"
         /\ status # "error" => (bo'.req <=> status \in Live)
         /\ ~bo'.no_retry /\ bo'.err_code = 0
<1>1. PICK r \in BOOLEAN :
         /\ status # "error" => (r <=> status \in Live)
         /\ bo' = [NoBo EXCEPT !.cached = (status = "cached"), !.req = r]
  BY DEF StartFetch
<1>2. PICK c \in BOOLEAN : c = (status = "cached")
  OBVIOUS
<1>3. bo' = [cached |-> c, req |-> r, no_retry |-> FALSE, err_code |-> 0]
  BY <1>1, <1>2 DEF NoBo
<1>4. /\ context = "client" /\ attempt = 0
      /\ context' = "backend" /\ attempt' = 1 /\ read' = NoRead
      /\ UNCHANGED <<total, status, doclose, streams, broke>>
  BY DEF StartFetch
<1>5. bo'.cached <=> status = "cached"
  BY <1>2, <1>3
<1>6. status # "error" => (bo'.req <=> status \in Live)
  BY <1>1, <1>3
<1> QED
  BY <1>3, <1>4, <1>5, <1>6

\* and the rest.
LEMMA OutsideStep ==
  ASSUME Inv, Cache \/ StartFetch \/ Retry \/ Deliver \/ End PROVE Inv'
<1> USE DEF Inv, TypeOK, Statuses, Live, Consumed, Fetching, Attempted, ReadRefused,
            ReadReported, ResultHonest, GoneBefore, StreamBlamed, NoBo, NoRead
<1>1. CASE Cache
  BY <1>1 DEF Cache
<1>2. CASE StartFetch
  BY <1>2, FetchStarts, LengthsAssumption
<1>3. CASE Retry
  <2>1. /\ bo' \in [cached : BOOLEAN, req : BOOLEAN, no_retry : BOOLEAN, err_code : {0, 400}]
        /\ bo'.cached = bo.cached /\ bo'.req = bo.req
        /\ bo'.no_retry = bo.no_retry /\ bo'.err_code = 0
    BY <1>3 DEF Retry
  <2> QED
    BY <1>3, <2>1, LengthsAssumption DEF Retry
<1>4. CASE Deliver \/ End
  BY <1>4 DEF Deliver, End
<1> QED
  BY <1>1, <1>2, <1>3, <1>4

\* Every step keeps the invariant.
LEMMA StepInv == Inv /\ [Next]_vars => Inv'
<1> SUFFICES ASSUME Inv, [Next]_vars PROVE Inv'
  OBVIOUS
<1>1. CASE ReadNone \/ ReadClient \/ ReadCached \/ ReadStreamed \/ ReadSlices
  BY <1>1, ReadNoneStep, ReadClientStep, ReadCachedStep, ReadStreamedStep, ReadSlicesStep
<1>2. CASE Cache \/ StartFetch \/ Retry \/ Deliver \/ End
  BY <1>2, OutsideStep
<1>3. CASE UNCHANGED vars
  BY <1>3 DEF vars, Inv, TypeOK, Consumed, Fetching, Attempted, ReadRefused,
              ReadReported, ResultHonest, GoneBefore, StreamBlamed
<1> QED
  BY <1>1, <1>2, <1>3 DEF Next

-----------------------------------------------------------------------------
\* The invariant holds in every state the program reaches.
THEOREM Invariance == Spec => []Inv
BY InitInv, StepInv, PTL DEF Spec

\* The types of the state.
THEOREM TypeCorrect == Spec => []TypeOK
<1>1. Inv => TypeOK
  BY DEF Inv
<1> QED
  BY <1>1, Invariance, PTL

\* What a read tells its caller and varnishd, whatever was read before it: all of
\* the body, an error, or Ok(false), which a backend gets also for a body that was
\* gone before its fetch.
THEOREM ReadsAreReported == Spec => []ReadReported
<1>1. Inv => ReadReported
  BY DEF Inv
<1> QED
  BY <1>1, Invariance, PTL

\* An uncached body is read once, by one reader, and those who come after it get
\* nothing; a cached one is found by every attempt.
THEOREM EveryReaderServed == Spec => []ReadersServed
<1>1. Inv => ReadersServed
  BY DEF Inv, TypeOK, Consumed, Fetching, ReadRefused, ReadersServed
<1> QED
  BY <1>1, Invariance, PTL

\* No attempt follows one that took the body from the client's connection.
THEOREM RetriesReadable == Spec => RetryReadable
<1>1. Inv /\ [Next]_vars =>
        [attempt > 0 /\ attempt' > attempt =>
           read.by = "none" \/ read.from \in {"none", "cached"}]_vars
  <2> SUFFICES ASSUME Inv, Next, attempt > 0, attempt' > attempt
               PROVE  read.by = "none" \/ read.from \in {"none", "cached"}
    OBVIOUS
  <2>1. attempt \in Nat
    BY LengthsAssumption DEF Inv, TypeOK
  <2>2. ReadNone \/ ReadClient \/ ReadCached \/ ReadSlices => attempt' = attempt
    BY DEF ReadNone, ReadClient, ReadCached, ReadSlices
  <2>3. ReadStreamed => attempt' = attempt
    BY DEF ReadStreamed
  <2>4. Cache \/ Deliver \/ End => attempt' = attempt
    BY DEF Cache, Deliver, End
  <2>5. ~StartFetch
    BY <2>1, FetchStarts
  <2>6. Retry
    BY <2>1, <2>2, <2>3, <2>4, <2>5 DEF Next
  <2> QED
    BY <2>6 DEF Retry, Inv, Attempted
<1> QED
  BY <1>1, Invariance, PTL DEF Spec, RetryReadable

-----------------------------------------------------------------------------
(* What the loop of unset_header leaves.                                     *)

Slots  == 0..(shd - 1)
Texts  == Headers \cup Lines \cup {Old, NULL}
Tables == [hd : [Slots -> Texts], hdf : [Slots -> {0, 1}], kept : Nat]
Entries == [hdr : Headers, flag : {0, 1}]
Count  == nhd - HDR_FIRST

\* One pass of the loop, over slot i - 1.
Pass(s, name, i) == IF List!Same(s.hd[i - 1], name) THEN s ELSE Keep(s, i - 1)

Passes(loop, name) ==
  /\ loop[HDR_FIRST] = [hd |-> hd, hdf |-> hdf, kept |-> 0]
  /\ \A i \in (HDR_FIRST + 1)..nhd : loop[i] = Pass(loop[i - 1], name, i)

LEMMA Shape ==
  ASSUME HttpTypeOK
  PROVE  /\ nhd \in Nat /\ shd \in Nat /\ 5 <= nhd /\ nhd <= shd /\ Count \in Nat
         /\ hd \in [Slots -> Texts] /\ hdf \in [Slots -> {0, 1}]
BY RoomAssumption DEF HttpTypeOK, shd, HDR_FIRST, Slots, Texts, Count

LEMMA KeepTyped ==
  ASSUME NEW s \in Tables, NEW i \in Slots
  PROVE  /\ Keep(s, i) \in Tables
         /\ Keep(s, i).hd = [s.hd EXCEPT ![HDR_FIRST + s.kept] = s.hd[i]]
         /\ Keep(s, i).hdf = [s.hdf EXCEPT ![HDR_FIRST + s.kept] = s.hdf[i]]
         /\ Keep(s, i).kept = s.kept + 1
<1> DEFINE k == HDR_FIRST + s.kept
           d1 == [s EXCEPT !.hd[k] = s.hd[i]]
           d2 == [d1 EXCEPT !.hdf[k] = s.hdf[i]]
           d3 == [d2 EXCEPT !.kept = @ + 1]
<1>1. Keep(s, i) = d3
  BY DEF Keep
<1>2. s.hd \in [Slots -> Texts] /\ s.hdf \in [Slots -> {0, 1}] /\ s.kept \in Nat
  BY DEF Tables
<1>3. d1 \in Tables /\ d1.hd = [s.hd EXCEPT ![k] = s.hd[i]] /\ d1.hdf = s.hdf /\ d1.kept = s.kept
  BY <1>2 DEF Tables
<1>4. d2 \in Tables /\ d2.hd = d1.hd /\ d2.hdf = [s.hdf EXCEPT ![k] = s.hdf[i]] /\ d2.kept = s.kept
  <2> HIDE DEF d1
  <2> QED
    BY <1>2, <1>3 DEF Tables
<1>5. d3 \in Tables /\ d3.hd = d2.hd /\ d3.hdf = d2.hdf /\ d3.kept = s.kept + 1
  <2> HIDE DEF d2
  <2> QED
    BY <1>2, <1>4 DEF Tables
<1> HIDE DEF d1, d2, d3
<1> QED
  BY <1>1, <1>3, <1>4, <1>5

LEMMA LoopIs ==
  ASSUME HttpTypeOK, NEW name
  PROVE  \E loop \in [HDR_FIRST..nhd -> Tables] :
            Passes(loop, name) /\ UnsetLoop(name) = loop[nhd]
<1> DEFINE start == [hd |-> hd, hdf |-> hdf, kept |-> 0]
           F == [i \in 1..Count |-> [s \in Tables |-> Pass(s, name, HDR_FIRST + i)]]
           next(g, i) == IF i = HDR_FIRST THEN start
                         ELSE IF List!Same(g[i - 1].hd[i - 1], name) THEN g[i - 1]
                         ELSE Keep(g[i - 1], i - 1)
           P(g) == g = [i \in HDR_FIRST..nhd |-> next(g, i)]
<1>1. nhd \in Nat /\ shd \in Nat /\ 5 <= nhd /\ nhd <= shd /\ Count \in Nat /\ nhd = Count + 5
  BY Shape DEF Count, HDR_FIRST
<1>2. start \in Tables
  BY Shape DEF Tables
<1>3. F \in [1..Count -> [Tables -> Tables]]
  <2>1. ASSUME NEW i \in 1..Count, NEW s \in Tables
        PROVE  Pass(s, name, HDR_FIRST + i) \in Tables
    <3>1. (HDR_FIRST + i) - 1 \in Slots
      BY <1>1 DEF HDR_FIRST, Slots
    <3> QED
      BY <3>1, KeepTyped DEF Pass
  <2> QED
    BY <2>1
<1>4. PICK g \in [0..Count -> Tables] : Steps(g, Count, start, F)
  <2> HIDE DEF F, start
  <2> QED
    BY <1>1, <1>2, <1>3, PrimitiveRecursion
<1> DEFINE h == [i \in HDR_FIRST..nhd |-> g[i - HDR_FIRST]]
<1>5. h \in [HDR_FIRST..nhd -> Tables]
  BY <1>1, <1>4 DEF HDR_FIRST
<1>6. P(h)
  <2>1. ASSUME NEW i \in (HDR_FIRST + 1)..nhd PROVE h[i] = next(h, i)
    <3> DEFINE k == i - HDR_FIRST
    <3>1. k \in 1..Count /\ k - 1 \in 0..Count /\ HDR_FIRST + k = i
      BY <1>1 DEF HDR_FIRST
    <3>2. g[k] = F[k][g[k - 1]] /\ g[k - 1] \in Tables
      BY <1>4, <3>1 DEF Steps
    <3>3. F[k][g[k - 1]] = Pass(g[k - 1], name, i)
      BY <3>1, <3>2
    <3>4. h[i] = g[k] /\ h[i - 1] = g[k - 1] /\ i # HDR_FIRST
      BY <1>1, <3>1 DEF HDR_FIRST
    <3> HIDE DEF F, h, k
    <3> QED
      BY <3>2, <3>3, <3>4 DEF Pass
  <2>2. h[HDR_FIRST] = next(h, HDR_FIRST)
    BY <1>1, <1>4 DEF Steps, HDR_FIRST
  <2> HIDE DEF F, h, next
  <2>3. \A i \in HDR_FIRST..nhd : h[i] = next(h, i)
    BY <1>1, <2>1, <2>2 DEF HDR_FIRST
  <2> QED
    BY <1>5, <2>3
<1> DEFINE loop == CHOOSE f : P(f)
<1>7. P(loop)
  <2> HIDE DEF P, h
  <2> QED
    BY <1>6
<1>8. UnsetLoop(name) = loop[nhd]
  BY DEF UnsetLoop
<1> HIDE DEF loop, F, h, start
<1>9. Passes(loop, name)
  <2>1. \A i \in HDR_FIRST..nhd : loop[i] = next(loop, i)
    <3> HIDE DEF next
    <3> QED
      BY <1>7
  <2>2. loop[HDR_FIRST] = start
    BY <1>1, <2>1 DEF HDR_FIRST
  <2>3. ASSUME NEW i \in (HDR_FIRST + 1)..nhd PROVE loop[i] = Pass(loop[i - 1], name, i)
    <3>1. i \in HDR_FIRST..nhd /\ i # HDR_FIRST
      BY <1>1 DEF HDR_FIRST
    <3> QED
      BY <2>1, <3>1 DEF Pass
  <2> QED
    BY <2>2, <2>3 DEF Passes, start
<1>10. loop \in [HDR_FIRST..nhd -> Tables]
  <2> DEFINE D == {i \in 0..Count : loop[HDR_FIRST + i] \in Tables}
  <2>1. 0 \in D
    BY <1>1, <1>2, <1>9 DEF Passes, start, HDR_FIRST
  <2>2. ASSUME NEW i \in 1..Count, i - 1 \in D PROVE i \in D
    <3> DEFINE k == HDR_FIRST + i
    <3>1. k \in (HDR_FIRST + 1)..nhd /\ k - 1 \in Slots /\ k - 1 = HDR_FIRST + (i - 1) /\ i \in 0..Count
      BY <1>1 DEF HDR_FIRST, Slots
    <3>2. loop[k - 1] \in Tables
      BY <2>2, <3>1
    <3>3. loop[k] = Pass(loop[k - 1], name, k)
      BY <1>9, <3>1 DEF Passes
    <3>4. loop[k] \in Tables
      BY <3>1, <3>2, <3>3, KeepTyped DEF Pass
    <3> QED
      BY <3>1, <3>4
  <2>3. 0..Count \subseteq D
    <3> HIDE DEF D
    <3> QED
      BY <1>1, <2>1, <2>2, UptoInduction
  <2>4. ASSUME NEW i \in HDR_FIRST..nhd PROVE loop[i] \in Tables
    <3>1. i - HDR_FIRST \in 0..Count /\ HDR_FIRST + (i - HDR_FIRST) = i
      BY <1>1 DEF HDR_FIRST
    <3> QED
      BY <2>3, <3>1
  <2> HIDE DEF next
  <2> QED
    BY <1>7, <2>4
<1> QED
  BY <1>8, <1>9, <1>10

-----------------------------------------------------------------------------
(* What the promise says is left.                                            *)

Item(h, f, i) == [hdr |-> h[HDR_FIRST + i - 1], flag |-> f[HDR_FIRST + i - 1]]
Listing(h, f, n) == [i \in 1..n |-> Item(h, f, i)]
Listed == Listing(hd, hdf, Count)

Filters(kept, list, name) ==
  /\ kept[0] = <<>>
  /\ \A i \in 1..Len(list) :
       kept[i] = IF List!Same(list[i].hdr, name) THEN kept[i - 1]
                 ELSE Append(kept[i - 1], list[i])

LEMMA ListingTyped ==
  ASSUME NEW h, NEW f \in [Slots -> {0, 1}], NEW n \in Nat, HDR_FIRST + n <= shd,
         shd \in Nat, \A j \in HDR_FIRST..(HDR_FIRST + n - 1) : h[j] \in Headers
  PROVE  /\ Listing(h, f, n) \in Seq(Entries) /\ Len(Listing(h, f, n)) = n
         /\ DOMAIN Listing(h, f, n) = 1..n
         /\ \A i \in 1..n : Listing(h, f, n)[i] = Item(h, f, i)
<1>1. ASSUME NEW i \in 1..n PROVE Item(h, f, i) \in Entries
  <2>1. HDR_FIRST + i - 1 \in HDR_FIRST..(HDR_FIRST + n - 1) /\ HDR_FIRST + i - 1 \in Slots
    BY DEF HDR_FIRST, Slots
  <2> QED
    BY <2>1 DEF Item, Entries
<1> QED
  BY <1>1 DEF Listing

LEMMA ListedTyped ==
  ASSUME HttpTypeOK
  PROVE  /\ Listed \in Seq(Entries) /\ Len(Listed) = Count /\ DOMAIN Listed = 1..Count
         /\ \A i \in 1..Count : Listed[i] = Item(hd, hdf, i)
<1>1. HDR_FIRST + Count = nhd /\ HDR_FIRST + Count <= shd /\ shd \in Nat /\ Count \in Nat
  BY Shape DEF Count, HDR_FIRST
<1>2. \A j \in HDR_FIRST..(HDR_FIRST + Count - 1) : hd[j] \in Headers
  <2>1. HDR_FIRST..(HDR_FIRST + Count - 1) = HDR_FIRST..(nhd - 1)
    BY <1>1, Shape DEF HDR_FIRST
  <2>2. \A j \in HDR_FIRST..(nhd - 1) : hd[j] \in Headers
    BY DEF HttpTypeOK
  <2> QED
    BY <2>1, <2>2
<1>3. hdf \in [Slots -> {0, 1}]
  BY Shape
<1> QED
  BY <1>1, <1>2, <1>3, ListingTyped DEF Listed

LEMMA WithoutIs ==
  ASSUME HttpTypeOK, NEW name
  PROVE  \E kept \in [0..Count -> Seq(Entries)] :
            Filters(kept, Listed, name) /\ List!Without(name) = kept[Count]
<1> DEFINE L == Listed
           N == Len(L)
           F == [i \in 1..N |-> [q \in Seq(Entries) |->
                   IF List!Same(L[i].hdr, name) THEN q ELSE Append(q, L[i])]]
           next(g, i) == IF i = 0 THEN <<>>
                         ELSE IF List!Same(L[i].hdr, name) THEN g[i - 1]
                         ELSE Append(g[i - 1], L[i])
           P(g) == g = [i \in 0..N |-> next(g, i)]
<1>1. N = Count /\ N \in Nat /\ \A i \in 1..N : L[i] \in Entries
  BY Shape, ListedTyped
<1>2. <<>> \in Seq(Entries)
  OBVIOUS
<1>3. F \in [1..N -> [Seq(Entries) -> Seq(Entries)]]
  <2>1. ASSUME NEW i \in 1..N, NEW q \in Seq(Entries)
        PROVE  (IF List!Same(L[i].hdr, name) THEN q ELSE Append(q, L[i])) \in Seq(Entries)
    <3> DEFINE x == L[i]
    <3>1. x \in Entries
      BY <1>1
    <3> HIDE DEF x
    <3>2. Append(q, x) \in Seq(Entries)
      BY <3>1
    <3>3. Append(q, L[i]) \in Seq(Entries)
      BY <3>2 DEF x
    <3> QED
      BY <3>3
  <2> HIDE DEF N, L
  <2> QED
    BY <2>1
<1>4. PICK g \in [0..N -> Seq(Entries)] : Steps(g, N, <<>>, F)
  <2> HIDE DEF F, N
  <2> QED
    BY <1>1, <1>2, <1>3, PrimitiveRecursion
<1>5. P(g)
  <2>1. ASSUME NEW i \in 1..N PROVE g[i] = next(g, i)
    <3>1. g[i] = F[i][g[i - 1]] /\ i - 1 \in 0..N /\ i # 0
      BY <1>1, <1>4 DEF Steps
    <3>2. g[i - 1] \in Seq(Entries)
      BY <3>1
    <3> HIDE DEF N, L
    <3> QED
      BY <3>1, <3>2
  <2>2. g[0] = next(g, 0)
    BY <1>4 DEF Steps
  <2> HIDE DEF F, N, next
  <2>3. \A i \in 0..N : g[i] = next(g, i)
    BY <1>1, <2>1, <2>2
  <2> QED
    BY <1>4, <2>3
<1> DEFINE kept == CHOOSE f : P(f)
<1>6. P(kept)
  <2> HIDE DEF P
  <2> QED
    BY <1>5
<1>7. List!Without(name) = kept[N]
  BY DEF List!Without, Listed, Listing, Item, Count
<1> HIDE DEF kept, F, L, N
<1>8. Filters(kept, L, name)
  <2>1. \A i \in 0..N : kept[i] = next(kept, i)
    <3> HIDE DEF next
    <3> QED
      BY <1>6
  <2>2. kept[0] = <<>>
    BY <1>1, <2>1
  <2>3. ASSUME NEW i \in 1..N PROVE kept[i] = IF List!Same(L[i].hdr, name) THEN kept[i - 1]
                                              ELSE Append(kept[i - 1], L[i])
    <3>1. i \in 0..N /\ i # 0
      BY <1>1
    <3> QED
      BY <2>1, <3>1
  <2> QED
    BY <2>2, <2>3 DEF Filters, N
<1>9. kept \in [0..N -> Seq(Entries)]
  <2> DEFINE D == {i \in 0..N : kept[i] \in Seq(Entries)}
  <2>1. 0 \in D
    <3>1. kept[0] = <<>> /\ 0 \in 0..N
      BY <1>1, <1>8 DEF Filters
    <3> QED
      BY <1>2, <3>1
  <2>2. ASSUME NEW i \in 1..N, i - 1 \in D PROVE i \in D
    <3> DEFINE q == kept[i - 1]
               x == L[i]
    <3>1. q \in Seq(Entries) /\ x \in Entries /\ i \in 0..N
      BY <1>1, <2>2
    <3>2. kept[i] = IF List!Same(L[i].hdr, name) THEN q ELSE Append(q, x)
      BY <1>8 DEF Filters, N
    <3> HIDE DEF q, x
    <3>3. Append(q, x) \in Seq(Entries)
      BY <3>1
    <3> QED
      BY <3>1, <3>2, <3>3
  <2>3. 0..N \subseteq D
    <3> HIDE DEF D
    <3> QED
      BY <1>1, <2>1, <2>2, UptoInduction
  <2>4. \A i \in 0..N : kept[i] \in Seq(Entries)
    BY <2>3
  <2> HIDE DEF next
  <2> QED
    BY <1>6, <2>4
<1>10. Filters(kept, Listed, name)
  BY <1>8 DEF L
<1> QED
  BY <1>1, <1>7, <1>9, <1>10

-----------------------------------------------------------------------------
(* The loop does what the promise says.                                      *)

\* What the loop, with its state s after slots below k, has kept and left.
Compacted(s, k, name, list) ==
  /\ s \in Tables /\ HDR_FIRST + s.kept <= k
  /\ \A j \in HDR_FIRST..(k - 1) : List!Same(hd[j], name) => HDR_FIRST + s.kept < k
  /\ Listing(s.hd, s.hdf, s.kept) = list
  /\ \A j \in Slots : j < HDR_FIRST \/ j >= k => s.hd[j] = hd[j]
  /\ \A j \in Slots : j >= k => s.hdf[j] = hdf[j]
  /\ \A j \in HDR_FIRST..(k - 1) : s.hd[j] \in Headers

\* A listing that gets one longer.
LEMMA Lengthens ==
  ASSUME NEW s \in Tables, shd \in Nat, NEW h, NEW f \in {0, 1},
         HDR_FIRST + s.kept < shd,
         \A j \in HDR_FIRST..(HDR_FIRST + s.kept - 1) : s.hd[j] \in Headers, h \in Headers,
         NEW n, n = HDR_FIRST + s.kept
  PROVE  Listing([s.hd EXCEPT ![n] = h], [s.hdf EXCEPT ![n] = f], s.kept + 1)
           = Append(Listing(s.hd, s.hdf, s.kept), [hdr |-> h, flag |-> f])
<1> DEFINE c == s.kept
           e == [hdr |-> h, flag |-> f]
           old == Listing(s.hd, s.hdf, c)
           h2 == [s.hd EXCEPT ![n] = h]
           f2 == [s.hdf EXCEPT ![n] = f]
           new == Listing(h2, f2, c + 1)
<1>1. s.hd \in [Slots -> Texts] /\ s.hdf \in [Slots -> {0, 1}] /\ c \in Nat /\ n \in Slots
  BY DEF Tables, HDR_FIRST, Slots
<1>2. old \in Seq(Entries) /\ Len(old) = c /\ \A i \in 1..c : old[i] = Item(s.hd, s.hdf, i)
  BY <1>1, ListingTyped DEF HDR_FIRST
<1>3. /\ h2[n] = h /\ f2[n] = f
      /\ \A j \in Slots : j # n => h2[j] = s.hd[j] /\ f2[j] = s.hdf[j]
      /\ f2 \in [Slots -> {0, 1}]
  BY <1>1
<1> HIDE DEF h2, f2
<1>4. \A j \in HDR_FIRST..(HDR_FIRST + (c + 1) - 1) : h2[j] \in Headers
  <2> SUFFICES ASSUME NEW j \in HDR_FIRST..(HDR_FIRST + (c + 1) - 1) PROVE h2[j] \in Headers
    OBVIOUS
  <2>1. j = n \/ (j # n /\ j \in HDR_FIRST..(HDR_FIRST + s.kept - 1) /\ j \in Slots)
    BY <1>1 DEF HDR_FIRST, Slots
  <2> QED
    BY <1>3, <2>1
<1>5. new \in Seq(Entries) /\ Len(new) = c + 1 /\ \A i \in 1..(c + 1) : new[i] = Item(h2, f2, i)
  <2>1. c + 1 \in Nat /\ HDR_FIRST + (c + 1) <= shd
    BY <1>1 DEF HDR_FIRST
  <2> HIDE DEF c
  <2> QED
    BY <1>3, <1>4, <2>1, ListingTyped
<1>6. \A i \in 1..c : new[i] = old[i]
  <2> SUFFICES ASSUME NEW i \in 1..c PROVE new[i] = old[i]
    OBVIOUS
  <2>1. HDR_FIRST + i - 1 \in Slots /\ HDR_FIRST + i - 1 # n /\ i \in 1..(c + 1)
    BY <1>1 DEF HDR_FIRST, Slots
  <2>2. Item(h2, f2, i) = Item(s.hd, s.hdf, i)
    BY <1>3, <2>1 DEF Item
  <2> QED
    BY <1>2, <1>5, <2>1, <2>2
<1>7. new[c + 1] = e
  <2>1. HDR_FIRST + (c + 1) - 1 = n /\ c + 1 \in 1..(c + 1)
    BY <1>1 DEF HDR_FIRST
  <2> QED
    BY <1>3, <1>5, <2>1 DEF Item
<1>8. e \in Entries
  BY DEF Entries
<1> HIDE DEF new, old, e, c
<1>9. new = Append(old, e)
  <2>1. Append(old, e) \in Seq(Entries) /\ Len(Append(old, e)) = c + 1
    BY <1>1, <1>2, <1>8
  <2>2. \A i \in 1..(c + 1) : new[i] = Append(old, e)[i]
    BY <1>1, <1>2, <1>6, <1>7, <1>8
  <2> QED
    BY <1>1, <1>5, <2>1, <2>2
<1> QED
  BY <1>9 DEF new, old, e, c, h2, f2

\* One pass does to the tables what the promise does to the list.
LEMMA PassKeeps ==
  ASSUME HttpTypeOK, NEW name, NEW s, NEW i \in 1..Count, NEW list,
         Compacted(s, HDR_FIRST + (i - 1), name, list)
  PROVE  Compacted(Pass(s, name, HDR_FIRST + i), HDR_FIRST + i, name,
                   IF List!Same(Listed[i].hdr, name) THEN list ELSE Append(list, Listed[i]))
<1> DEFINE k == HDR_FIRST + (i - 1)
           t == Keep(s, k)
           n == HDR_FIRST + s.kept
<1>1. /\ k \in Slots /\ k \in HDR_FIRST..(nhd - 1) /\ (HDR_FIRST + i) - 1 = k
      /\ HDR_FIRST + i = k + 1 /\ shd \in Nat /\ HDR_FIRST + i - 1 = k
  BY Shape DEF Count, Slots, HDR_FIRST
<1>2. s \in Tables /\ n <= k /\ Listing(s.hd, s.hdf, s.kept) = list /\ s.kept \in Nat
  BY DEF Compacted, Tables
<1>3. s.hd[k] = hd[k] /\ s.hdf[k] = hdf[k] /\ hd[k] \in Headers /\ hdf[k] \in {0, 1}
  BY <1>1, Shape DEF Compacted, HttpTypeOK
<1>4. Listed[i] = [hdr |-> hd[k], flag |-> hdf[k]]
  BY <1>1, ListedTyped DEF Item
<1>5. \A j \in HDR_FIRST..(HDR_FIRST + i - 1) : s.hd[j] \in Headers
  BY <1>1, <1>3 DEF Compacted, HDR_FIRST
<1>6. CASE List!Same(hd[k], name)
  <2>1. Compacted(s, k + 1, name, list)
    <3>1. /\ HDR_FIRST + s.kept <= k + 1 /\ HDR_FIRST + s.kept < k + 1
          /\ \A j \in Slots : j >= k + 1 => j >= k
          /\ \A j \in HDR_FIRST..((k + 1) - 1) : j \in HDR_FIRST..(HDR_FIRST + i - 1)
      BY <1>1, <1>2 DEF HDR_FIRST, Slots
    <3> HIDE DEF k
    <3> QED
      BY <1>2, <1>5, <3>1 DEF Compacted, k
  <2>2. Pass(s, name, HDR_FIRST + i) = s /\ Listed[i].hdr = hd[k]
    BY <1>1, <1>3, <1>4, <1>6 DEF Pass
  <2> QED
    BY <1>1, <1>6, <2>1, <2>2
<1>7. CASE ~List!Same(hd[k], name)
  <2>1. /\ t \in Tables /\ t.kept = s.kept + 1
        /\ t.hd = [s.hd EXCEPT ![n] = hd[k]] /\ t.hdf = [s.hdf EXCEPT ![n] = hdf[k]]
    BY <1>1, <1>2, <1>3, KeepTyped
  <2>2. Listing(t.hd, t.hdf, t.kept) = Append(list, Listed[i])
    <3>1. \A j \in HDR_FIRST..(HDR_FIRST + s.kept - 1) : s.hd[j] \in Headers
      BY <1>1, <1>2, <1>5 DEF HDR_FIRST
    <3>2. HDR_FIRST + s.kept < shd
      BY <1>1, <1>2 DEF Slots, HDR_FIRST
    <3>3. Listing([s.hd EXCEPT ![n] = hd[k]], [s.hdf EXCEPT ![n] = hdf[k]], s.kept + 1)
            = Append(Listing(s.hd, s.hdf, s.kept), [hdr |-> hd[k], flag |-> hdf[k]])
      BY <1>1, <1>2, <1>3, <3>1, <3>2, Lengthens
    <3> HIDE DEF t, n, k
    <3> QED
      BY <1>2, <1>4, <2>1, <3>3
  <2>3. s.hd \in [Slots -> Texts] /\ s.hdf \in [Slots -> {0, 1}] /\ n \in HDR_FIRST..k
    BY <1>1, <1>2 DEF Tables, HDR_FIRST
  <2>4. \A j \in Slots : j # n => t.hd[j] = s.hd[j] /\ t.hdf[j] = s.hdf[j]
    <3> HIDE DEF t, n
    <3> QED
      BY <2>1, <2>3
  <2>5. \A j \in Slots : j < HDR_FIRST \/ j >= k + 1 => t.hd[j] = hd[j]
    <3> HIDE DEF t, n
    <3> QED
      BY <1>1, <2>3, <2>4 DEF Compacted, HDR_FIRST, Slots
  <2>6. \A j \in Slots : j >= k + 1 => t.hdf[j] = hdf[j]
    <3> HIDE DEF t, n
    <3> QED
      BY <1>1, <2>3, <2>4 DEF Compacted, HDR_FIRST, Slots
  <2>7. \A j \in HDR_FIRST..((k + 1) - 1) : t.hd[j] \in Headers
    <3> SUFFICES ASSUME NEW j \in HDR_FIRST..((k + 1) - 1) PROVE t.hd[j] \in Headers
      OBVIOUS
    <3>1. j \in Slots /\ j \in HDR_FIRST..(HDR_FIRST + i - 1) /\ n \in Slots
      BY <1>1, <2>3 DEF HDR_FIRST, Slots
    <3>2. CASE j = n
      <4>1. t.hd[n] = hd[k]
        BY <2>1, <2>3, <3>1
      <4> QED
        BY <1>3, <3>2, <4>1
    <3>3. CASE j # n
      BY <1>5, <2>4, <3>1, <3>3
    <3> QED
      BY <3>2, <3>3
  <2>8. HDR_FIRST + t.kept <= k + 1
    BY <1>1, <1>2, <2>1 DEF HDR_FIRST
  <2>9. \A j \in HDR_FIRST..((k + 1) - 1) : List!Same(hd[j], name) => HDR_FIRST + t.kept < k + 1
    <3> SUFFICES ASSUME NEW j \in HDR_FIRST..((k + 1) - 1), List!Same(hd[j], name)
                 PROVE  HDR_FIRST + t.kept < k + 1
      OBVIOUS
    <3>1. j # k
      BY <1>7
    <3>2. j \in HDR_FIRST..(k - 1)
      BY <1>1, <3>1 DEF HDR_FIRST, Slots
    <3>3. HDR_FIRST + s.kept < k
      BY <3>2 DEF Compacted
    <3> QED
      BY <1>1, <1>2, <2>1, <3>3 DEF HDR_FIRST
  <2>10. Compacted(t, k + 1, name, Append(list, Listed[i]))
    <3> HIDE DEF t, n, k
    <3> QED
      BY <2>1, <2>2, <2>5, <2>6, <2>7, <2>8, <2>9 DEF Compacted
  <2>11. Pass(s, name, HDR_FIRST + i) = t /\ Listed[i].hdr = hd[k]
    BY <1>1, <1>3, <1>4, <1>7 DEF Pass
  <2> QED
    BY <1>1, <1>7, <2>10, <2>11
<1> QED
  BY <1>6, <1>7

\* unset_header: what is kept, and its order, is what the promise says.
LEMMA UnsetCompacts ==
  ASSUME HttpTypeOK, NEW name
  PROVE  Compacted(UnsetLoop(name), nhd, name, List!Without(name))
<1>1. PICK loop \in [HDR_FIRST..nhd -> Tables] :
        Passes(loop, name) /\ UnsetLoop(name) = loop[nhd]
  BY LoopIs
<1>2. PICK kept \in [0..Count -> Seq(Entries)] :
        Filters(kept, Listed, name) /\ List!Without(name) = kept[Count]
  BY WithoutIs
<1>3. Count \in Nat /\ Len(Listed) = Count /\ nhd = HDR_FIRST + Count /\ shd \in Nat
  BY Shape, ListedTyped DEF Count, HDR_FIRST
<1> DEFINE D == {i \in 0..Count : Compacted(loop[HDR_FIRST + i], HDR_FIRST + i, name, kept[i])}
<1>4. 0 \in D
  <2> DEFINE s == [hd |-> hd, hdf |-> hdf, kept |-> 0]
  <2>1. loop[HDR_FIRST + 0] = s /\ kept[0] = <<>> /\ HDR_FIRST + 0 = HDR_FIRST
    BY <1>1, <1>2 DEF Passes, Filters, HDR_FIRST
  <2>2. s \in Tables
    BY Shape DEF Tables
  <2>3. Listing(hd, hdf, 0) = <<>>
    BY DEF Listing
  <2>4. Compacted(s, HDR_FIRST, name, <<>>)
    BY <2>2, <2>3 DEF Compacted, HDR_FIRST
  <2> QED
    BY <1>3, <2>1, <2>4
<1>5. ASSUME NEW i \in 1..Count, i - 1 \in D PROVE i \in D
  <2> DEFINE k == HDR_FIRST + i
  <2>1. k \in (HDR_FIRST + 1)..nhd /\ k - 1 = HDR_FIRST + (i - 1) /\ i \in 0..Count
    BY <1>3 DEF HDR_FIRST
  <2>2. loop[k] = Pass(loop[k - 1], name, k)
    BY <1>1, <2>1 DEF Passes
  <2>3. kept[i] = IF List!Same(Listed[i].hdr, name) THEN kept[i - 1]
                  ELSE Append(kept[i - 1], Listed[i])
    BY <1>2, <1>3 DEF Filters
  <2>4. Compacted(loop[k - 1], HDR_FIRST + (i - 1), name, kept[i - 1])
    BY <1>5, <2>1
  <2>5. Compacted(loop[k], k, name, kept[i])
    BY <2>2, <2>3, <2>4, PassKeeps
  <2> QED
    BY <2>1, <2>5
<1>6. 0..Count \subseteq D
  <2> HIDE DEF D
  <2> QED
    BY <1>3, <1>4, <1>5, UptoInduction
<1> QED
  BY <1>1, <1>2, <1>3, <1>6

-----------------------------------------------------------------------------
(* What the promise sees of the first line.                                  *)

Top(h) == [f \in List!Fields |-> h[Slot[f]]]

-----------------------------------------------------------------------------
(* The type invariant.                                                       *)

LEMMA TypedInit == HttpInit => HttpTypeOK
<1> SUFFICES ASSUME HttpInit PROVE HttpTypeOK
  OBVIOUS
<1>1. PICK hs \in [HDR_FIRST..(nhd - 1) -> Headers], kind \in {List!Request, List!Response} :
        hd = [i \in 0..(shd - 1) |->
                CASE i \in {Slot[f] : f \in kind}  -> Old
                  [] HDR_FIRST <= i /\ i < nhd     -> hs[i]
                  [] OTHER                         -> NULL]
  BY DEF HttpInit
<1>2. \A i \in {Slot[f] : f \in kind} : i \in 0..4
  BY DEF Slot, List!Request, List!Response
<1>3. nhd \in HDR_FIRST..shd /\ shd \in Nat /\ nhd \in Nat /\ 5 <= nhd
  BY RoomAssumption DEF HttpInit, shd, HDR_FIRST
<1>4. \A i \in 0..(HDR_FIRST - 1) : hd[i] \in {Old, NULL}
  BY <1>1, <1>3 DEF HDR_FIRST
<1>5. \A i \in HDR_FIRST..(nhd - 1) : hd[i] \in Headers
  <2> SUFFICES ASSUME NEW i \in HDR_FIRST..(nhd - 1) PROVE hd[i] \in Headers
    OBVIOUS
  <2>1. i \in 0..(shd - 1) /\ HDR_FIRST <= i /\ i < nhd /\ i \notin 0..4
    BY <1>3 DEF HDR_FIRST
  <2>2. hd[i] = hs[i]
    BY <1>1, <1>2, <2>1
  <2> QED
    BY <2>2
<1>6. \A i \in nhd..(shd - 1) : hd[i] = NULL
  <2> SUFFICES ASSUME NEW i \in nhd..(shd - 1) PROVE hd[i] = NULL
    OBVIOUS
  <2>1. i \in 0..(shd - 1) /\ ~(i < nhd) /\ i \notin 0..4
    BY <1>3
  <2> QED
    BY <1>1, <1>2, <2>1
<1>7. hd \in [0..(shd - 1) -> Headers \cup Lines \cup {Old, NULL}]
  <2>1. \A i \in 0..(shd - 1) : hd[i] \in Headers \cup Lines \cup {Old, NULL}
    <3> SUFFICES ASSUME NEW i \in 0..(shd - 1)
                 PROVE hd[i] \in Headers \cup Lines \cup {Old, NULL}
      OBVIOUS
    <3>1. i \in 0..(HDR_FIRST - 1) \/ i \in HDR_FIRST..(nhd - 1) \/ i \in nhd..(shd - 1)
      BY <1>3 DEF HDR_FIRST
    <3> QED
      BY <1>4, <1>5, <1>6, <3>1
  <2> QED
    BY <1>1, <2>1
<1>8. protover \in {0, 9, 10, 11, 20}
  BY LinesAssumption DEF HttpInit
<1>9. hdf \in [0..(shd - 1) -> {0, 1}]
  BY DEF HttpInit
<1> QED
  BY <1>3, <1>4, <1>5, <1>6, <1>7, <1>8, <1>9 DEF HttpTypeOK

\* The slots, without the protocol's version.
Shaped(h, f, n) ==
  /\ n \in HDR_FIRST..shd
  /\ f \in [Slots -> {0, 1}] /\ h \in [Slots -> Texts]
  /\ \A i \in 0..(HDR_FIRST - 1) : h[i] \in Lines \cup {Old, NULL}
  /\ \A i \in HDR_FIRST..(n - 1) : h[i] \in Headers
  /\ \A i \in n..(shd - 1) : h[i] \in Headers \cup {NULL}

LEMMA TypeIsShape ==
  /\ HttpTypeOK <=> Shaped(hd, hdf, nhd) /\ protover \in {0, 9, 10, 11, 20}
  /\ HttpTypeOK' <=> Shaped(hd', hdf', nhd') /\ protover' \in {0, 9, 10, 11, 20}
BY DEF HttpTypeOK, Shaped, Slots, Texts

LEMMA ShapedIs ==
  ASSUME NEW h, NEW f, NEW n, Shaped(h, f, n)
  PROVE  /\ shd \in Nat /\ n \in Nat /\ 5 <= n /\ n <= shd /\ n - HDR_FIRST \in Nat
         /\ Listing(h, f, n - HDR_FIRST) \in Seq(Entries)
         /\ Len(Listing(h, f, n - HDR_FIRST)) = n - HDR_FIRST
         /\ \A i \in 1..(n - HDR_FIRST) : Listing(h, f, n - HDR_FIRST)[i] = Item(h, f, i)
<1> DEFINE c == n - HDR_FIRST
<1>1. shd \in Nat /\ n \in Nat /\ 5 <= n /\ n <= shd /\ c \in Nat /\ HDR_FIRST + c <= shd
  BY RoomAssumption DEF Shaped, shd, HDR_FIRST
<1>2. HDR_FIRST..(HDR_FIRST + c - 1) = HDR_FIRST..(n - 1)
  BY <1>1 DEF HDR_FIRST
<1>3. f \in [Slots -> {0, 1}] /\ \A j \in HDR_FIRST..(HDR_FIRST + c - 1) : h[j] \in Headers
  BY <1>2 DEF Shaped
<1> HIDE DEF c
<1>4. /\ Listing(h, f, c) \in Seq(Entries) /\ Len(Listing(h, f, c)) = c
      /\ \A i \in 1..c : Listing(h, f, c)[i] = Item(h, f, i)
  BY <1>1, <1>3, ListingTyped
<1> QED
  BY <1>1, <1>4 DEF c

\* A copy into the slot after the last one.
Extends(h2, f2, h, f, n, x) ==
  /\ Shaped(h2, f2, n + 1)
  /\ Listing(h2, f2, (n + 1) - HDR_FIRST)
       = Append(Listing(h, f, n - HDR_FIRST), List!Entry(x))
  /\ Top(h2) = Top(h)

LEMMA Appended ==
  ASSUME NEW h, NEW f, NEW n, Shaped(h, f, n), n < shd, NEW x \in Headers
  PROVE  Extends([h EXCEPT ![n] = x], [f EXCEPT ![n] = 0], h, f, n, x)
<1> DEFINE h2 == [h EXCEPT ![n] = x]
           f2 == [f EXCEPT ![n] = 0]
<1>1. /\ n \in Slots /\ n + 1 \in HDR_FIRST..shd /\ n \in Nat /\ shd \in Nat /\ 5 <= n
      /\ n - HDR_FIRST \in Nat /\ HDR_FIRST + (n - HDR_FIRST) = n
      /\ (n + 1) - HDR_FIRST = (n - HDR_FIRST) + 1
  BY ShapedIs DEF Slots, HDR_FIRST
<1>2. h \in [Slots -> Texts] /\ f \in [Slots -> {0, 1}]
  BY DEF Shaped
<1>3. /\ h2 \in [Slots -> Texts] /\ f2 \in [Slots -> {0, 1}] /\ h2[n] = x
      /\ \A i \in Slots : i # n => h2[i] = h[i]
  BY <1>1, <1>2 DEF Texts
<1>4. h2 = [h EXCEPT ![n] = x] /\ f2 = [f EXCEPT ![n] = 0]
  OBVIOUS
<1> HIDE DEF h2, f2
<1>5. \A i \in 0..(HDR_FIRST - 1) : i \in Slots /\ i # n /\ h2[i] = h[i]
  BY <1>1, <1>3 DEF HDR_FIRST, Slots
<1>6. \A i \in HDR_FIRST..((n + 1) - 1) : h2[i] \in Headers
  <2> SUFFICES ASSUME NEW i \in HDR_FIRST..((n + 1) - 1) PROVE h2[i] \in Headers
    OBVIOUS
  <2>1. i = n \/ (i # n /\ i \in Slots /\ i \in HDR_FIRST..(n - 1))
    BY <1>1 DEF HDR_FIRST, Slots
  <2> QED
    BY <1>3, <2>1 DEF Shaped
<1>7. \A i \in (n + 1)..(shd - 1) : h2[i] \in Headers \cup {NULL}
  <2> SUFFICES ASSUME NEW i \in (n + 1)..(shd - 1) PROVE h2[i] \in Headers \cup {NULL}
    OBVIOUS
  <2>1. i # n /\ i \in Slots /\ i \in n..(shd - 1)
    BY <1>1 DEF Slots
  <2> QED
    BY <1>3, <2>1 DEF Shaped
<1>8. Shaped(h2, f2, n + 1)
  BY <1>1, <1>3, <1>5, <1>6, <1>7 DEF Shaped
<1>9. Top(h2) = Top(h)
  <2>1. \A g \in List!Fields : Slot[g] \in 0..(HDR_FIRST - 1)
    BY DEF Slot, List!Fields, List!Request, List!Response, HDR_FIRST
  <2> QED
    BY <1>5, <2>1 DEF Top
<1>10. Listing(h2, f2, (n + 1) - HDR_FIRST) = Append(Listing(h, f, n - HDR_FIRST), List!Entry(x))
  <2> DEFINE s == [hd |-> h, hdf |-> f, kept |-> n - HDR_FIRST]
  <2>1. /\ s \in Tables /\ s.hd = h /\ s.hdf = f /\ s.kept = n - HDR_FIRST
        /\ HDR_FIRST + s.kept = n
    BY <1>1, <1>2 DEF Tables
  <2>2. \A j \in HDR_FIRST..(n - 1) : s.hd[j] \in Headers
    BY DEF Shaped
  <2>3. HDR_FIRST..(HDR_FIRST + s.kept - 1) = HDR_FIRST..(n - 1)
    BY <1>1, <2>1 DEF HDR_FIRST
  <2> HIDE DEF s
  <2>4. Listing([s.hd EXCEPT ![n] = x], [s.hdf EXCEPT ![n] = 0], s.kept + 1)
          = Append(Listing(s.hd, s.hdf, s.kept), [hdr |-> x, flag |-> 0])
    BY <1>1, <2>1, <2>2, <2>3, Lengthens
  <2> QED
    BY <1>4, <1>1, <2>1, <2>4 DEF List!Entry
<1> QED
  BY <1>4, <1>8, <1>9, <1>10 DEF Extends

\* What is left after unset_header.
LEMMA UnsetLeaves ==
  ASSUME HttpTypeOK, NEW name, NEW s, s = UnsetLoop(name)
  PROVE  /\ Shaped(s.hd, s.hdf, HDR_FIRST + s.kept)
         /\ Listing(s.hd, s.hdf, (HDR_FIRST + s.kept) - HDR_FIRST) = List!Without(name)
         /\ Top(s.hd) = Top(hd)
         /\ Matches(name) # {} => HDR_FIRST + s.kept < shd
<1>1. Compacted(s, nhd, name, List!Without(name))
  BY UnsetCompacts
<1>2. /\ shd \in Nat /\ nhd \in Nat /\ 5 <= nhd /\ nhd <= shd /\ Shaped(hd, hdf, nhd)
  BY Shape, TypeIsShape
<1>3. s \in Tables /\ s.hd \in [Slots -> Texts] /\ s.hdf \in [Slots -> {0, 1}] /\ s.kept \in Nat
  BY <1>1 DEF Compacted, Tables
<1>4. HDR_FIRST + s.kept <= nhd /\ HDR_FIRST + s.kept \in HDR_FIRST..shd
      /\ (HDR_FIRST + s.kept) - HDR_FIRST = s.kept
  BY <1>1, <1>2, <1>3 DEF Compacted, HDR_FIRST
<1>5. \A i \in 0..(HDR_FIRST - 1) : s.hd[i] = hd[i]
  BY <1>1, <1>2 DEF Compacted, HDR_FIRST, Slots
<1>6. \A i \in HDR_FIRST..((HDR_FIRST + s.kept) - 1) : s.hd[i] \in Headers
  <2>1. \A i \in HDR_FIRST..((HDR_FIRST + s.kept) - 1) : i \in HDR_FIRST..(nhd - 1)
    BY <1>2, <1>3, <1>4 DEF HDR_FIRST
  <2> QED
    BY <1>1, <2>1 DEF Compacted
<1>7. \A i \in (HDR_FIRST + s.kept)..(shd - 1) : s.hd[i] \in Headers \cup {NULL}
  <2> SUFFICES ASSUME NEW i \in (HDR_FIRST + s.kept)..(shd - 1)
               PROVE s.hd[i] \in Headers \cup {NULL}
    OBVIOUS
  <2>1. i \in Slots /\ (i \in HDR_FIRST..(nhd - 1) \/ (i >= nhd /\ i \in nhd..(shd - 1)))
    BY <1>2, <1>3 DEF HDR_FIRST, Slots
  <2>2. CASE i \in HDR_FIRST..(nhd - 1)
    BY <1>1, <2>2 DEF Compacted
  <2>3. CASE i >= nhd /\ i \in nhd..(shd - 1)
    <3>1. s.hd[i] = hd[i]
      BY <1>1, <2>1, <2>3 DEF Compacted
    <3> QED
      BY <1>2, <2>3, <3>1 DEF Shaped
  <2> QED
    BY <2>1, <2>2, <2>3
<1>8. Shaped(s.hd, s.hdf, HDR_FIRST + s.kept)
  <2>1. \A i \in 0..(HDR_FIRST - 1) : s.hd[i] \in Lines \cup {Old, NULL}
    BY <1>2, <1>5 DEF Shaped
  <2> QED
    BY <1>3, <1>4, <1>6, <1>7, <2>1 DEF Shaped
<1>9. Listing(s.hd, s.hdf, (HDR_FIRST + s.kept) - HDR_FIRST) = List!Without(name)
  BY <1>1, <1>4 DEF Compacted
<1>10. Top(s.hd) = Top(hd)
  <2>1. \A g \in List!Fields : Slot[g] \in 0..(HDR_FIRST - 1)
    BY DEF Slot, List!Fields, List!Request, List!Response, HDR_FIRST
  <2> QED
    BY <1>5, <2>1 DEF Top
<1>11. Matches(name) # {} => HDR_FIRST + s.kept < shd
  <2> SUFFICES ASSUME NEW j \in Matches(name) PROVE HDR_FIRST + s.kept < shd
    OBVIOUS
  <2>1. HDR_FIRST + s.kept < nhd
    BY <1>1 DEF Compacted, Matches
  <2> QED
    BY <1>2, <1>3, <2>1 DEF HDR_FIRST
<1> QED
  BY <1>8, <1>9, <1>10, <1>11

-----------------------------------------------------------------------------
(* A step of the arrays is one of the promise.                               *)

\* The list and the first line, in this state and the next.
Now  == [i \in 1..(nhd - HDR_FIRST) |->
           [hdr |-> hd[HDR_FIRST + i - 1], flag |-> hdf[HDR_FIRST + i - 1]]]
Line == [f \in DOMAIN Slot |-> Field(f)]

LEMMA Seen ==
  /\ Now = Listing(hd, hdf, nhd - HDR_FIRST)
  /\ Now' = Listing(hd', hdf', nhd' - HDR_FIRST)
  /\ Shaped(hd, hdf, nhd) => Line = Top(hd)
  /\ Shaped(hd', hdf', nhd') => Line' = Top(hd')
<1>1. DOMAIN Slot = List!Fields /\ \A f \in List!Fields : Slot[f] \in 0..4
  BY DEF Slot, List!Fields, List!Request, List!Response
<1>2. ASSUME Shaped(hd, hdf, nhd) PROVE Line = Top(hd)
  <2>1. nhd \in Nat /\ 5 <= nhd
    BY <1>2, ShapedIs
  <2>2. \A f \in List!Fields : Field(f) = hd[Slot[f]]
    BY <1>1, <2>1 DEF Field
  <2> QED
    BY <1>1, <2>2 DEF Line, Top
<1>3. ASSUME Shaped(hd', hdf', nhd') PROVE Line' = Top(hd')
  <2>1. nhd' \in Nat /\ 5 <= nhd'
    BY <1>3, ShapedIs
  <2>2. \A f \in List!Fields : Field(f)' = hd'[Slot[f]]
    BY <1>1, <2>1 DEF Field
  <2> QED
    BY <1>1, <2>2 DEF Line, Top
<1> QED
  BY <1>2, <1>3 DEF Now, Listing, Item


LEMMA SetHeaderIs ==
  ASSUME HttpTypeOK, SetHeader
  PROVE  HttpTypeOK' /\ \E h \in Headers : List!Set(h)
<1>1. PICK h \in Headers : SetRaw(h)
  BY DEF SetHeader
<1>2. Shaped(hd, hdf, nhd) /\ protover' = protover /\ op' = "set" /\ protover \in {0, 9, 10, 11, 20}
  BY TypeIsShape DEF SetHeader
<1>3. CASE UNCHANGED <<hd, hdf, nhd>>
  <2>1. Now' = Now /\ Line' = Line
    BY <1>3 DEF Now, Line, Field
  <2> QED
    BY <1>2, <1>3, <2>1, TypeIsShape DEF List!Set, Now, Line
<1>4. CASE nhd < shd /\ Change(nhd, h) /\ nhd' = nhd + 1
  <2>1. /\ Shaped(hd', hdf', nhd')
        /\ Listing(hd', hdf', nhd' - HDR_FIRST)
             = Append(Listing(hd, hdf, nhd - HDR_FIRST), List!Entry(h))
        /\ Top(hd') = Top(hd)
    <3>1. Extends([hd EXCEPT ![nhd] = h], [hdf EXCEPT ![nhd] = 0], hd, hdf, nhd, h)
      BY <1>2, <1>4, Appended
    <3>2. Extends(hd', hdf', hd, hdf, nhd, h)
      BY <1>4, <3>1 DEF Change
    <3> QED
      BY <1>4, <3>2 DEF Extends
  <2>2. Now' = Append(Now, List!Entry(h)) /\ Line' = Line
    BY <1>2, <2>1, Seen
  <2> QED
    BY <1>2, <2>1, <2>2, TypeIsShape DEF List!Set, Now, Line
<1> QED
  BY <1>1, <1>3, <1>4 DEF SetRaw

LEMMA UnsetHeaderIs ==
  ASSUME HttpTypeOK, UnsetHeader
  PROVE  HttpTypeOK' /\ \E n \in Names : List!Unset(n)
<1>1. PICK name \in Names : LET s == UnsetLoop(name)
                            IN hd' = s.hd /\ hdf' = s.hdf /\ nhd' = HDR_FIRST + s.kept
  BY DEF UnsetHeader
<1> DEFINE s == UnsetLoop(name)
<1>2. Shaped(hd, hdf, nhd) /\ protover' = protover /\ op' = "unset" /\ protover \in {0, 9, 10, 11, 20}
  BY TypeIsShape DEF UnsetHeader
<1>3. /\ Shaped(hd', hdf', nhd')
      /\ Listing(hd', hdf', nhd' - HDR_FIRST) = List!Without(name)
      /\ Top(hd') = Top(hd)
  BY <1>1, UnsetLeaves
<1>4. Now' = List!Without(name) /\ Line' = Line
  BY <1>2, <1>3, Seen
<1> QED
  BY <1>2, <1>3, <1>4, TypeIsShape DEF List!Unset, Now, Line

\* header: the first match of the slots is the first one of the list.
LEMMA FirstIs ==
  ASSUME HttpTypeOK
  PROVE  /\ List!Etags = {} <=> Matches(Etag) = {}
         /\ Matches(Etag) # {} =>
              /\ Header(Etag) = List!First
              /\ [name |-> Etag, value |-> Header(Etag).value, weak |-> TRUE] \in Headers
<1> DEFINE M == Matches(Etag)
           E == List!Etags
<1>1. nhd \in Nat /\ 5 <= nhd /\ Count \in Nat /\ nhd - HDR_FIRST = Count /\ nhd = Count + 5
  BY Shape DEF Count, HDR_FIRST
<1>2. DOMAIN Now = 1..Count /\ \A i \in 1..Count : Now[i].hdr = hd[i + 4]
  BY <1>1 DEF Now, HDR_FIRST
<1>3. E = {i \in 1..Count : List!Same(Now[i].hdr, Etag)}
  <2>1. E = {i \in DOMAIN Now : List!Same(Now[i].hdr, Etag)}
    BY DEF List!Etags, Now
  <2> QED
    BY <1>2, <2>1
<1>4. \A i \in 1..Count : i \in E <=> i + 4 \in M
  BY <1>1, <1>2, <1>3 DEF Matches, HDR_FIRST
<1>5. M \subseteq Nat /\ \A i \in M : i - 4 \in 1..Count /\ (i - 4) + 4 = i /\ hd[i] \in Headers
  BY <1>1 DEF Matches, HDR_FIRST, HttpTypeOK
<1>6. E = {} <=> M = {}
  BY <1>3, <1>4, <1>5
<1>7. ASSUME M # {}
      PROVE  /\ Header(Etag) = List!First
             /\ [name |-> Etag, value |-> Header(Etag).value, weak |-> TRUE] \in Headers
  <2> HIDE DEF M, E
  <2>1. PICK m \in M : \A j \in M : m <= j
    BY <1>5, <1>7, LeastMember
  <2>2. \A i \in M : (\A j \in M : i <= j) => i = m
    BY <1>5, <2>1
  <2>3. (CHOOSE i \in M : \A j \in M : i <= j) = m
    BY <2>1, <2>2
  <2>4. m - 4 \in E /\ \A j \in E : m - 4 <= j
    BY <1>3, <1>4, <1>5, <2>1
  <2>5. \A i \in E : (\A j \in E : i <= j) => i = m - 4
    BY <1>3, <1>5, <2>1, <2>4
  <2>6. (CHOOSE i \in E : \A j \in E : i <= j) = m - 4
    BY <2>4, <2>5
  <2>7. Header(Etag) = hd[m]
    BY <2>3 DEF Header, M
  <2>8. List!First = Now[m - 4].hdr
    BY <2>6 DEF List!First, E, Now
  <2>9. Now[m - 4].hdr = hd[m]
    BY <1>2, <1>5, <2>1
  <2>10. hd[m] \in Headers /\ Fold[hd[m].name] = Fold[Etag]
    BY <1>5, <2>1 DEF M, Matches, List!Same
  <2> QED
    BY <2>7, <2>8, <2>9, <2>10, HeadersAssumption
<1> QED
  BY <1>6, <1>7

LEMMA WeakenEtagIs ==
  ASSUME HttpTypeOK, WeakenEtag
  PROVE  HttpTypeOK' /\ List!Weaken
<1>1. Shaped(hd, hdf, nhd) /\ protover' = protover /\ op' = "weaken" /\ protover \in {0, 9, 10, 11, 20}
  BY TypeIsShape DEF WeakenEtag
<1>2. CASE ~(Matches(Etag) # {} /\ ~Header(Etag).weak)
  <2>1. UNCHANGED <<hd, hdf, nhd>>
    BY <1>2 DEF WeakenEtag
  <2>2. Now' = Now /\ Line' = Line
    BY <2>1 DEF Now, Line, Field
  <2>3. ~(List!Etags # {} /\ ~List!First.weak)
    BY <1>2, FirstIs
  <2> QED
    BY <1>1, <2>1, <2>2, <2>3, TypeIsShape DEF List!Weaken, Now, Line
<1>3. CASE Matches(Etag) # {} /\ ~Header(Etag).weak
  <2> DEFINE s == UnsetLoop(Etag)
             h == [name |-> Etag, value |-> Header(Etag).value, weak |-> TRUE]
             idx == HDR_FIRST + s.kept
  <2>1. List!Etags # {} /\ ~List!First.weak /\ h \in Headers /\ h = List!Weak
    BY <1>3, FirstIs DEF List!Weak
  <2>2. /\ Shaped(s.hd, s.hdf, idx) /\ idx < shd
        /\ Listing(s.hd, s.hdf, idx - HDR_FIRST) = List!Without(Etag)
        /\ Top(s.hd) = Top(hd)
    BY <1>3, UnsetLeaves
  <2>3. \/ hd' = [s.hd EXCEPT ![idx] = h] /\ hdf' = [s.hdf EXCEPT ![idx] = 0] /\ nhd' = idx + 1
        \/ hd' = s.hd /\ hdf' = s.hdf /\ nhd' = idx
    BY <1>3 DEF WeakenEtag, Replace
  <2> HIDE DEF s, h, idx
  <2>4. CASE hd' = s.hd /\ hdf' = s.hdf /\ nhd' = idx
    <3>1. Now' = List!Without(Etag) /\ Line' = Line /\ Shaped(hd', hdf', nhd')
      BY <1>1, <2>2, <2>4, Seen
    <3> QED
      BY <1>1, <2>1, <3>1, TypeIsShape DEF List!Weaken, Now, Line
  <2>5. CASE hd' = [s.hd EXCEPT ![idx] = h] /\ hdf' = [s.hdf EXCEPT ![idx] = 0] /\ nhd' = idx + 1
    <3>1. Extends([s.hd EXCEPT ![idx] = h], [s.hdf EXCEPT ![idx] = 0], s.hd, s.hdf, idx, h)
      BY <2>1, <2>2, Appended
    <3>2. Extends(hd', hdf', s.hd, s.hdf, idx, h)
      BY <2>5, <3>1
    <3>3. Now' = Append(List!Without(Etag), List!Entry(List!Weak)) /\ Line' = Line
          /\ Shaped(hd', hdf', nhd')
      BY <1>1, <2>1, <2>2, <2>5, <3>2, Seen DEF Extends
    <3> QED
      BY <1>1, <2>1, <3>3, TypeIsShape DEF List!Weaken, Now, Line
  <2> QED
    BY <2>3, <2>4, <2>5
<1> QED
  BY <1>2, <1>3

\* A field is set: the headers and their flags stay.
FieldSets(h2, h, f, n, g, line) ==
  /\ Shaped(h2, f, n)
  /\ Listing(h2, f, n - HDR_FIRST) = Listing(h, f, n - HDR_FIRST)
  /\ Top(h2) = [Top(h) EXCEPT ![g] = line]

LEMMA FieldSet ==
  ASSUME NEW h, NEW f, NEW n, Shaped(h, f, n), NEW g \in List!Fields, NEW line \in Lines
  PROVE  FieldSets([h EXCEPT ![Slot[g]] = line], h, f, n, g, line)
<1> DEFINE p == Slot[g]
           h2 == [h EXCEPT ![p] = line]
           c == n - HDR_FIRST
<1>1. /\ shd \in Nat /\ n \in Nat /\ 5 <= n /\ n <= shd /\ c \in Nat /\ n = c + 5
      /\ n \in HDR_FIRST..shd
  BY ShapedIs DEF HDR_FIRST
<1>2. \A k \in List!Fields : Slot[k] \in 0..4 /\ (Slot[k] = p => k = g)
  BY DEF Slot, List!Fields, List!Request, List!Response
<1>3. p \in Slots /\ p \in 0..4
  BY <1>1, <1>2 DEF Slots
<1>4. h \in [Slots -> Texts]
  BY DEF Shaped
<1> HIDE DEF p
<1>5. h2 \in [Slots -> Texts] /\ h2[p] = line /\ \A i \in Slots : i # p => h2[i] = h[i]
  BY <1>3, <1>4 DEF Texts
<1>6. h2 = [h EXCEPT ![Slot[g]] = line]
  BY DEF p
<1> HIDE DEF h2
<1>7. \A i \in 0..(HDR_FIRST - 1) : h2[i] \in Lines \cup {Old, NULL}
  <2>1. \A i \in 0..(HDR_FIRST - 1) : i \in Slots
    BY <1>1 DEF Slots, HDR_FIRST
  <2> QED
    BY <1>5, <2>1 DEF Shaped
<1>8. \A i \in HDR_FIRST..(n - 1) : h2[i] = h[i]
  BY <1>1, <1>3, <1>5 DEF Slots, HDR_FIRST
<1>9. \A i \in n..(shd - 1) : h2[i] = h[i]
  BY <1>1, <1>3, <1>5 DEF Slots
<1>10. Shaped(h2, f, n)
  BY <1>5, <1>7, <1>8, <1>9 DEF Shaped
<1>11. Listing(h2, f, c) = Listing(h, f, c)
  <2>1. \A i \in 1..c : HDR_FIRST + i - 1 \in HDR_FIRST..(n - 1)
    BY <1>1 DEF HDR_FIRST
  <2>2. \A i \in 1..c : Item(h2, f, i) = Item(h, f, i)
    BY <1>8, <2>1 DEF Item
  <2> HIDE DEF c
  <2> QED
    BY <2>2 DEF Listing
<1>12. Top(h2) = [Top(h) EXCEPT ![g] = line]
  <2>1. \A k \in List!Fields : h2[Slot[k]] = IF k = g THEN line ELSE h[Slot[k]]
    <3> SUFFICES ASSUME NEW k \in List!Fields
                 PROVE  h2[Slot[k]] = IF k = g THEN line ELSE h[Slot[k]]
      OBVIOUS
    <3>1. Slot[k] \in Slots
      BY <1>1, <1>2 DEF Slots
    <3>2. k = g => Slot[k] = p
      BY DEF p
    <3> QED
      BY <1>2, <1>5, <3>1, <3>2
  <2> QED
    BY <2>1 DEF Top
<1> QED
  BY <1>6, <1>10, <1>11, <1>12 DEF FieldSets

FlagSets(f2, h, f, n) ==
  Shaped(h, f2, n) /\ Listing(h, f2, n - HDR_FIRST) = Listing(h, f, n - HDR_FIRST)

LEMMA FlagSet ==
  ASSUME NEW h, NEW f, NEW n, Shaped(h, f, n), NEW p \in 0..4
  PROVE  FlagSets([f EXCEPT ![p] = 0], h, f, n)
<1> DEFINE f2 == [f EXCEPT ![p] = 0]
           c == n - HDR_FIRST
<1>1. shd \in Nat /\ n \in Nat /\ 5 <= n /\ n <= shd /\ c \in Nat /\ n = c + 5
  BY ShapedIs DEF HDR_FIRST
<1>2. f \in [Slots -> {0, 1}]
  BY DEF Shaped
<1>3. f2 \in [Slots -> {0, 1}] /\ \A i \in Slots : i # p => f2[i] = f[i]
  BY <1>2
<1>4. f2 = [f EXCEPT ![p] = 0]
  OBVIOUS
<1> HIDE DEF f2
<1>5. Shaped(h, f2, n)
  BY <1>3 DEF Shaped
<1>6. Listing(h, f2, c) = Listing(h, f, c)
  <2>1. \A i \in 1..c : HDR_FIRST + i - 1 \in Slots /\ HDR_FIRST + i - 1 # p
    BY <1>1 DEF HDR_FIRST, Slots
  <2>2. \A i \in 1..c : Item(h, f2, i) = Item(h, f, i)
    BY <1>3, <2>1 DEF Item
  <2> HIDE DEF c
  <2> QED
    BY <2>2 DEF Listing
<1> QED
  BY <1>4, <1>5, <1>6 DEF FlagSets

LEMMA SetFieldIs ==
  ASSUME HttpTypeOK, SetField
  PROVE  HttpTypeOK' /\ \E line \in Lines, f \in List!Fields : List!SetField(f, line)
<1>1. PICK f \in {"url", "proto", "reason"}, line \in Lines :
        /\ protover' = IF f = "proto" THEN Version[line] ELSE protover
        /\ Change(Slot[f], line) \/ UNCHANGED <<hd, hdf>>
  BY DEF SetField
<1>2. /\ Shaped(hd, hdf, nhd) /\ nhd' = nhd /\ op' = "field"
      /\ protover' \in {0, 9, 10, 11, 20}
  BY <1>1, TypeIsShape, LinesAssumption DEF SetField
<1>3. f \in List!Fields /\ Slot[f] \in 0..4
  BY DEF List!Fields, List!Request, List!Response, Slot
<1>4. CASE UNCHANGED <<hd, hdf>>
  <2>1. Now' = Now /\ Line' = Line
    BY <1>2, <1>4 DEF Now, Line, Field
  <2> QED
    BY <1>1, <1>2, <1>3, <1>4, <2>1, TypeIsShape DEF List!SetField, Now, Line
<1>5. CASE Change(Slot[f], line)
  <2>1. FieldSets([hd EXCEPT ![Slot[f]] = line], hd, hdf, nhd, f, line)
    BY <1>2, <1>3, FieldSet
  <2>2. FieldSets(hd', hd, hdf, nhd, f, line)
    BY <1>5, <2>1 DEF Change
  <2>3. FlagSets([hdf EXCEPT ![Slot[f]] = 0], hd', hdf, nhd)
    BY <1>3, <2>2, FlagSet DEF FieldSets
  <2>4. FlagSets(hdf', hd', hdf, nhd)
    BY <1>5, <2>3 DEF Change
  <2>5. /\ Shaped(hd', hdf', nhd') /\ Top(hd') = [Top(hd) EXCEPT ![f] = line]
        /\ Listing(hd', hdf', nhd' - HDR_FIRST) = Listing(hd, hdf, nhd - HDR_FIRST)
    BY <1>2, <2>2, <2>4 DEF FieldSets, FlagSets
  <2>6. Now' = Now /\ Line' = [Line EXCEPT ![f] = line]
    BY <1>2, <2>5, Seen
  <2> QED
    BY <1>1, <1>2, <1>3, <2>5, <2>6, TypeIsShape DEF List!SetField, Now, Line
<1> QED
  BY <1>1, <1>4, <1>5

LEMMA SetStatusIs ==
  ASSUME HttpTypeOK, SetStatus
  PROVE  HttpTypeOK' /\ \E line \in Lines : List!SetStatus(line)
<1>1. PICK line \in Lines : hd' = [hd EXCEPT ![Slot.status] = line, ![Slot.reason] = line]
  BY DEF SetStatus
<1>2. /\ Shaped(hd, hdf, nhd) /\ nhd' = nhd /\ hdf' = hdf /\ op' = "status"
      /\ protover' = protover /\ protover \in {0, 9, 10, 11, 20}
  BY TypeIsShape DEF SetStatus
<1>3. "status" \in List!Fields /\ "reason" \in List!Fields
  BY DEF List!Fields, List!Response
<1> DEFINE h1 == [hd EXCEPT ![Slot["status"]] = line]
<1>4. FieldSets(h1, hd, hdf, nhd, "status", line)
  BY <1>2, <1>3, FieldSet
<1>5. hd' = [h1 EXCEPT ![Slot["reason"]] = line]
  BY <1>1
<1> HIDE DEF h1
<1>6. FieldSets([h1 EXCEPT ![Slot["reason"]] = line], h1, hdf, nhd, "reason", line)
  <2>1. Shaped(h1, hdf, nhd)
    BY <1>4 DEF FieldSets
  <2> QED
    BY <1>3, <2>1, FieldSet
<1>7. FieldSets(hd', h1, hdf, nhd, "reason", line)
  BY <1>5, <1>6
<1>8. /\ Shaped(hd', hdf', nhd')
      /\ Top(hd') = [[Top(hd) EXCEPT !["status"] = line] EXCEPT !["reason"] = line]
      /\ Listing(hd', hdf', nhd' - HDR_FIRST) = Listing(hd, hdf, nhd - HDR_FIRST)
  BY <1>2, <1>4, <1>7 DEF FieldSets
<1>9. Now' = Now /\ Line' = [[Line EXCEPT !["status"] = line] EXCEPT !["reason"] = line]
  BY <1>2, <1>8, Seen
<1> QED
  BY <1>1, <1>2, <1>8, <1>9, TypeIsShape DEF List!SetStatus, Now, Line

LEMMA MarkIs ==
  ASSUME HttpTypeOK, Mark
  PROVE  HttpTypeOK' /\ List!Mark
<1>1. PICK i \in HDR_FIRST..(nhd - 1) : hdf' = [hdf EXCEPT ![i] = 1]
  BY DEF Mark
<1>2. /\ Shaped(hd, hdf, nhd) /\ nhd' = nhd /\ hd' = hd /\ op' = "mark"
      /\ protover' = protover /\ protover \in {0, 9, 10, 11, 20}
  BY TypeIsShape DEF Mark
<1>3. /\ shd \in Nat /\ nhd \in Nat /\ 5 <= nhd /\ nhd <= shd /\ nhd - HDR_FIRST \in Nat
      /\ hdf \in [Slots -> {0, 1}]
  BY <1>2, ShapedIs DEF Shaped
<1>4. i \in Slots /\ i - 4 \in 1..(nhd - HDR_FIRST) /\ HDR_FIRST + (i - 4) - 1 = i
  BY <1>3 DEF Slots, HDR_FIRST
<1>5. /\ hdf' \in [Slots -> {0, 1}] /\ hdf'[i] = 1
      /\ \A j \in Slots : j # i => hdf'[j] = hdf[j]
  BY <1>1, <1>3, <1>4
<1>6. Shaped(hd', hdf', nhd')
  BY <1>2, <1>5 DEF Shaped
<1> DEFINE c == nhd - HDR_FIRST
           k == i - 4
           e == [Now[k] EXCEPT !.flag = 1]
<1>7. Now' = [j \in 1..c |-> IF j = k THEN e ELSE Now[j]]
  <2>1. ASSUME NEW j \in 1..c
        PROVE  Item(hd, hdf', j) = IF j = k THEN e ELSE Item(hd, hdf, j)
    <3>1. HDR_FIRST + j - 1 \in Slots /\ (HDR_FIRST + j - 1 = i <=> j = k)
      BY <1>3, <1>4 DEF Slots, HDR_FIRST
    <3>2. CASE j = k
      <4>1. Item(hd, hdf', j) = [hdr |-> hd[i], flag |-> 1] /\ Item(hd, hdf, j) = [hdr |-> hd[i], flag |-> hdf[i]]
        BY <1>5, <3>1, <3>2 DEF Item
      <4>2. Now[k] = Item(hd, hdf, k)
        BY <1>4 DEF Now, Item
      <4> QED
        BY <3>2, <4>1, <4>2
    <3>3. CASE j # k
      BY <1>5, <3>1, <3>3 DEF Item
    <3> QED
      BY <3>2, <3>3
  <2>2. Now = [j \in 1..c |-> Item(hd, hdf, j)] /\ Now' = [j \in 1..c |-> Item(hd, hdf', j)]
    BY <1>2 DEF Now, Item
  <2>3. \A j \in 1..c : Now[j] = Item(hd, hdf, j)
    BY <2>2
  <2> HIDE DEF c, k, e
  <2> QED
    BY <2>1, <2>2, <2>3
<1>8. k \in DOMAIN Now /\ Now' = [Now EXCEPT ![k].flag = 1]
  <2>1. DOMAIN Now = 1..c /\ Now = [j \in 1..c |-> Now[j]]
    BY DEF Now
  <2>2. [Now EXCEPT ![k].flag = 1] = [Now EXCEPT ![k] = e]
    OBVIOUS
  <2> HIDE DEF c, k, e
  <2>3. [Now EXCEPT ![k] = e] = [j \in 1..c |-> IF j = k THEN e ELSE Now[j]]
    BY <2>1
  <2> QED
    BY <1>4, <1>7, <2>1, <2>2, <2>3 DEF c, k
<1>9. Line' = Line
  BY <1>2 DEF Line, Field
<1> HIDE DEF k
<1> QED
  BY <1>2, <1>6, <1>8, <1>9, TypeIsShape DEF List!Mark, Now, Line

-----------------------------------------------------------------------------
(* The theorems.                                                             *)

\* Each step is one of the promise, and none takes the slots out of shape.
LEMMA HttpStep == HttpTypeOK /\ HttpNext => HttpTypeOK' /\ List!Next
<1> SUFFICES ASSUME HttpTypeOK, HttpNext PROVE HttpTypeOK' /\ List!Next
  OBVIOUS
<1>1. CASE SetField
  BY <1>1, SetFieldIs DEF List!Next
<1>2. CASE SetStatus
  <2>1. HttpTypeOK' /\ \E line \in Lines : List!SetStatus(line)
    BY <1>2, SetStatusIs
  <2> QED
    BY <2>1 DEF List!Next
<1>3. CASE SetHeader
  BY <1>3, SetHeaderIs DEF List!Next
<1>4. CASE UnsetHeader
  BY <1>4, UnsetHeaderIs DEF List!Next
<1>5. CASE WeakenEtag
  BY <1>5, WeakenEtagIs DEF List!Next
<1>6. CASE Mark
  BY <1>6, MarkIs DEF List!Next
<1> QED
  BY <1>1, <1>2, <1>3, <1>4, <1>5, <1>6 DEF HttpNext

LEMMA HttpStutter ==
  ASSUME UNCHANGED httpVars
  PROVE  /\ HttpTypeOK => HttpTypeOK'
         /\ Now' = Now /\ Line' = Line /\ protover' = protover /\ op' = op
BY DEF httpVars, HttpTypeOK, Now, Line, Field

\* What varnishd has parsed is a list as the promise has it.
LEMMA InitIsList == HttpInit => List!Init
<1> SUFFICES ASSUME HttpInit PROVE List!Init
  OBVIOUS
<1>1. HttpTypeOK /\ Shaped(hd, hdf, nhd)
  BY TypedInit, TypeIsShape
<1>2. PICK hs \in [HDR_FIRST..(nhd - 1) -> Headers], kind \in {List!Request, List!Response} :
        hd = [i \in 0..(shd - 1) |->
                CASE i \in {Slot[f] : f \in kind}  -> Old
                  [] HDR_FIRST <= i /\ i < nhd     -> hs[i]
                  [] OTHER                         -> NULL]
  BY DEF HttpInit
<1> DEFINE c == nhd - HDR_FIRST
           S == {List!Entry(h) : h \in Headers}
<1>3. shd \in Nat /\ nhd \in Nat /\ 5 <= nhd /\ nhd <= shd /\ c \in Nat
  BY <1>1, ShapedIs
<1>4. Now \in Seq(S)
  <2>1. ASSUME NEW i \in 1..c PROVE Item(hd, hdf, i) \in S
    <3>1. HDR_FIRST + i - 1 \in HDR_FIRST..(nhd - 1) /\ HDR_FIRST + i - 1 \in 0..(shd - 1)
      BY <1>3 DEF HDR_FIRST
    <3>2. hd[HDR_FIRST + i - 1] \in Headers /\ hdf[HDR_FIRST + i - 1] = 0
      BY <1>1, <3>1 DEF HttpTypeOK, HttpInit
    <3> QED
      BY <3>2 DEF Item, List!Entry
  <2>2. Now = [i \in 1..c |-> Item(hd, hdf, i)]
    BY DEF Now, Item
  <2> HIDE DEF c, S
  <2> QED
    BY <1>3, <2>1, <2>2
<1>5. Line = [f \in List!Fields |-> IF f \in kind THEN Old ELSE NULL]
  <2>1. ASSUME NEW f \in List!Fields PROVE hd[Slot[f]] = IF f \in kind THEN Old ELSE NULL
    <3>1. Slot[f] \in 0..(shd - 1) /\ Slot[f] \in 0..4
      BY <1>3 DEF Slot, List!Fields, List!Request, List!Response
    <3>2. f \in kind <=> Slot[f] \in {Slot[g] : g \in kind}
      BY DEF Slot, List!Fields, List!Request, List!Response
    <3>3. ~(HDR_FIRST <= Slot[f])
      BY <3>1 DEF HDR_FIRST
    <3> QED
      BY <1>2, <3>1, <3>2, <3>3
  <2>2. Line = Top(hd)
    BY <1>1, Seen
  <2> QED
    BY <2>1, <2>2 DEF Top
<1>6. protover = Version[Old] /\ op = "none"
  BY DEF HttpInit
<1> QED
  BY <1>2, <1>4, <1>5, <1>6 DEF List!Init, Now, Line

\* The slots of headers hold headers, and nhd stays between the first line and
\* the end of the arrays.
THEOREM HttpTyped == HttpSpec => []HttpTypeOK
<1>1. HttpInit => HttpTypeOK
  BY TypedInit
<1>2. HttpTypeOK /\ [HttpNext]_httpVars => HttpTypeOK'
  BY HttpStep, HttpStutter
<1> QED
  BY <1>1, <1>2, PTL DEF HttpSpec

\* The arrays and the compaction in place implement the list of the methods'
\* words: HttpHeaders refines HeaderList.
THEOREM ListImplemented == HttpSpec => ImplementsList
<1>1. HttpInit => List!Init
  BY InitIsList
<1>2. HttpTypeOK /\ [HttpNext]_httpVars => [List!Next]_<<Now, Line, protover, op>>
  BY HttpStep, HttpStutter
<1>3. HttpSpec => []HttpTypeOK
  BY HttpTyped
<1> QED
  BY <1>1, <1>2, <1>3, PTL DEF HttpSpec, ImplementsList, List!Spec, Now, Line
=============================================================================
