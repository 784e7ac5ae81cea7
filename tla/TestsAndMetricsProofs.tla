------------------------- MODULE TestsAndMetricsProofs -------------------------
(***************************************************************************)
(* Proofs about the two parts that are not in varnishd's process: the      *)
(* tests, and the reader of the metrics.                                   *)
(*                                                                         *)
(* TestSlots and VtcTests, for any finite set of tests, any cap, any       *)
(* number of threads, and any files, names and order: the slots are        *)
(* conserved, the cap holds and no wake-up is lost; the test binary of     *)
(* run_vtc_tests! is an instance of this, with one test for each file.     *)
(*                                                                         *)
(* Metrics, for any fields, segments and values and any width of the       *)
(* words: the client's map is the segments that it was told of, and what   *)
(* it reads of a metric is what was added to it.                           *)
(***************************************************************************)
EXTENDS VtcTests, Metrics, Recursion, SequenceTheorems

\* A test of run_all_tests never enters the semaphore.
DirectApart == \A t \in Direct : pc[t] \in {"queued", "running", "done"}

IInv == /\ TypeOK
        /\ DirectApart
        /\ SlotConservation
        /\ NoLostWakeup

\* The files of run_all_tests are tests.
LEMMA DirectFacts ==
  /\ Len(Globbed) \in Nat /\ DOMAIN Globbed = 1..Len(Globbed)
  /\ \A i \in DOMAIN Globbed : Globbed[i] \in Direct
  /\ Direct \subseteq Tests
BY GlobbedAssumption DEF Direct

\* The sets of tests the invariant counts are finite.
LEMMA FiniteSubset ==
  ASSUME NEW S \in SUBSET Tests
  PROVE  IsFiniteSet(S) /\ Cardinality(S) \in Nat
BY TestsAssumption, FS_Subset, FS_CardinalityType

\* What one thread's move does to the set of threads at the places P.
LEMMA MoveOne ==
  ASSUME pc \in [Tests -> PCs], NEW t \in Tests, NEW v \in PCs, NEW P,
         pc' = [pc EXCEPT ![t] = v]
  PROVE  In(P)' = IF v \in P THEN In(P) \cup {t} ELSE In(P) \ {t}
BY DEF In

\* A move that neither takes nor gives back a slot, and does not touch the
\* sleeping and the woken threads, keeps the invariant.
LEMMA NeutralMove ==
  ASSUME IInv, NEW t \in Tests, NEW v \in PCs,
         pc' = [pc EXCEPT ![t] = v], UNCHANGED <<available, caller>>,
         t \in Direct => v \in {"queued", "running", "done"},
         Holders' = Holders, Waiting' = Waiting, Woken' = Woken
  PROVE  IInv'
BY DEF IInv, TypeOK, DirectApart, SlotConservation, NoLostWakeup, caller

\* The inductive invariant holds initially.
LEMMA InitIInv == Init => IInv
<1> SUFFICES ASSUME Init PROVE IInv
  OBVIOUS
<1>1. TypeOK /\ DirectApart
  <2>1. pc \in [Tests -> PCs] /\ DirectApart
    BY DirectFacts DEF Init, DirectApart, PCs
  <2>2. available \in 0..Max /\ at \in 0..(Len(Globbed) + 1)
    BY DirectFacts, MaxAssumption DEF Init
  <2> QED
    BY <2>1, <2>2 DEF Init, TypeOK
<1>2. Holders = {} /\ Waiting = {}
  BY DEF Init, Holders, Waiting, In
<1>3. SlotConservation
  BY <1>2, FS_EmptySet, MaxAssumption DEF SlotConservation, Init
<1> QED
  BY <1>1, <1>2, <1>3 DEF IInv, NoLostWakeup

\* Every step of the semaphore keeps the inductive invariant.
LEMMA StepIInv == IInv /\ [Next]_vars => IInv'
<1> SUFFICES ASSUME IInv, [Next]_vars PROVE IInv'
  OBVIOUS
<1> USE DEF IInv
<1>0. pc \in [Tests -> PCs] /\ available \in 0..Max /\ Max \in Nat
  BY MaxAssumption DEF TypeOK
<1>1. ASSUME NEW t \in Tests, Start(t), UNCHANGED caller PROVE IInv'
  <2>1. Holders' = Holders /\ Waiting' = Waiting /\ Woken' = Woken
    BY <1>0, <1>1 DEF Start, Holders, Waiting, Woken, In
  <2> QED
    BY <1>0, <1>1, <2>1, NeutralMove DEF Start, PCs
<1>2. ASSUME NEW t \in Tests, Take(t), UNCHANGED caller PROVE IInv'
  <2>1. t \notin Direct /\ t \notin Holders
    BY <1>2 DEF Take, DirectApart, Holders, In
  <2>2. Holders' = Holders \cup {t} /\ Waiting' = Waiting /\ Woken' = Woken \ {t}
    BY <1>0, <1>2, <2>1 DEF Take, Holders, Waiting, Woken, In
  <2>3. Cardinality(Holders') = Cardinality(Holders) + 1
    <3>1. IsFiniteSet(Holders)
      BY FiniteSubset DEF Holders, In
    <3> QED
      BY <2>1, <2>2, <3>1, FS_AddElement
  <2>4. TypeOK' /\ DirectApart'
    BY <1>0, <1>2, <2>1 DEF TypeOK, DirectApart, Take, PCs, caller
  <2>5. SlotConservation'
    <3>1. Cardinality(Holders) \in Nat
      BY FiniteSubset DEF Holders, In
    <3> QED
      BY <1>0, <1>2, <2>3, <3>1 DEF SlotConservation, Take
  <2>6. NoLostWakeup'
    <3>1. IsFiniteSet(Woken) /\ Cardinality(Woken) \in Nat
      BY FiniteSubset DEF Woken, In
    <3>2. Cardinality(Woken \ {t}) >= Cardinality(Woken) - 1
      BY <3>1, FS_RemoveElement
    <3>3. Cardinality(Woken \ {t}) \in Nat
      BY FiniteSubset DEF Woken, In
    <3> QED
      BY <1>0, <1>2, <2>2, <3>1, <3>2, <3>3 DEF NoLostWakeup, Take
  <2> QED
    BY <2>4, <2>5, <2>6
<1>3. ASSUME NEW t \in Tests, Sleep(t), UNCHANGED caller PROVE IInv'
  <2>1. t \notin Direct /\ t \notin Holders
    BY <1>3 DEF Sleep, DirectApart, Holders, In
  <2>2. Holders' = Holders /\ available' = 0 /\ available = 0
    BY <1>0, <1>3, <2>1 DEF Sleep, Holders, In
  <2>3. TypeOK' /\ DirectApart'
    BY <1>0, <1>3, <2>1 DEF TypeOK, DirectApart, Sleep, PCs, caller
  <2>4. Cardinality(Woken') \in Nat
    BY FiniteSubset DEF Woken, In
  <2> QED
    BY <2>2, <2>3, <2>4 DEF SlotConservation, NoLostWakeup
<1>4. ASSUME NEW t \in Tests, SpuriousWakeup(t), UNCHANGED caller PROVE IInv'
  <2>1. t \notin Direct /\ t \notin Holders /\ t \notin Woken
    BY <1>4 DEF SpuriousWakeup, DirectApart, Holders, Woken, In
  <2>2. Holders' = Holders /\ Woken' = Woken \cup {t} /\ Waiting' \subseteq Waiting
    BY <1>0, <1>4, <2>1 DEF SpuriousWakeup, Holders, Woken, Waiting, In
  <2>3. TypeOK' /\ DirectApart'
    BY <1>0, <1>4, <2>1 DEF TypeOK, DirectApart, SpuriousWakeup, PCs, caller
  <2>4. IsFiniteSet(Woken) /\ Cardinality(Woken) \in Nat
    BY FiniteSubset DEF Woken, In
  <2>5. Cardinality(Woken') = Cardinality(Woken) + 1
    BY <2>1, <2>2, <2>4, FS_AddElement
  <2> QED
    BY <1>0, <1>4, <2>2, <2>3, <2>4, <2>5
       DEF SlotConservation, NoLostWakeup, SpuriousWakeup
<1>5. ASSUME NEW t \in Tests, LibFound(t) \/ LibMissing(t) \/ Exit(t), UNCHANGED caller
      PROVE  IInv'
  <2>1. Holders' = Holders /\ Waiting' = Waiting /\ Woken' = Woken
    BY <1>0, <1>5 DEF LibFound, LibMissing, Exit, Holders, Waiting, Woken, In
  <2>2. t \notin Direct
    BY <1>5 DEF LibFound, LibMissing, Exit, DirectApart
  <2> QED
    BY <1>0, <1>5, <2>1, <2>2, NeutralMove DEF LibFound, LibMissing, Exit, PCs
<1>6. ASSUME NEW t \in Tests, Release(t), UNCHANGED caller PROVE IInv'
  <2>1. t \notin Direct /\ t \in Holders /\ t \notin Waiting
    BY <1>6 DEF Release, DirectApart, Holders, Waiting, In
  <2>2. IsFiniteSet(Holders) /\ Cardinality(Holders) \in Nat
    BY FiniteSubset DEF Holders, In
  <2>3. IsFiniteSet(Woken) /\ Cardinality(Woken) \in Nat
    BY FiniteSubset DEF Woken, In
  <2>4. Holders' = Holders \ {t}
    BY <1>0, <1>6, <2>1 DEF Release, Holders, Waiting, In
  <2>5. Cardinality(Holders') = Cardinality(Holders) - 1
    BY <2>1, <2>2, <2>4, FS_RemoveElement
  <2>5a. Cardinality(Holders') \in Nat
    BY FiniteSubset DEF Holders, In
  <2>6. SlotConservation'
    BY <1>0, <1>6, <2>2, <2>5 DEF SlotConservation, Release
  <2>7. available' \in 0..Max
    BY <1>0, <1>6, <2>5a, <2>6 DEF SlotConservation, Release
  <2>8. CASE Waiting = {} /\ pc' = [pc EXCEPT ![t] = "done"]
    <3>1. Waiting' = {}
      BY <1>0, <2>8 DEF Waiting, In
    <3> QED
      BY <1>0, <1>6, <2>1, <2>6, <2>7, <2>8, <3>1
         DEF TypeOK, DirectApart, NoLostWakeup, PCs, caller
  <2>9. ASSUME NEW w \in Waiting, pc' = [pc EXCEPT ![t] = "done", ![w] = "woken"]
        PROVE  IInv'
    <3>1. w \in Tests /\ w # t /\ w \notin Woken /\ w \notin Direct /\ t \notin Woken
      BY <1>6, <2>1, <2>9 DEF Waiting, Woken, In, DirectApart, Release
    <3>2. Woken' = Woken \cup {w} /\ Waiting' \subseteq Waiting
      BY <1>0, <2>9, <3>1 DEF Woken, Waiting, In
    <3>3. Cardinality(Woken') = Cardinality(Woken) + 1
      BY <2>3, <3>1, <3>2, FS_AddElement
    <3>4. NoLostWakeup'
      BY <1>0, <1>6, <2>3, <3>3, <2>9 DEF NoLostWakeup, Release
    <3>5. TypeOK'
      BY <1>0, <1>6, <2>7, <2>9 DEF TypeOK, PCs, caller
    <3>6. DirectApart'
      BY <1>0, <2>1, <2>9, <3>1, DirectFacts DEF DirectApart
    <3> QED
      BY <2>6, <3>4, <3>5, <3>6
  <2> QED
    BY <1>6, <2>8, <2>9 DEF Release
<1>7. ASSUME NEW t \in Direct, NEW v \in {"running", "done"},
             pc[t] \in {"queued", "running"}, pc' = [pc EXCEPT ![t] = v],
             UNCHANGED available, at' \in 0..(Len(Globbed) + 1), failed' \in BOOLEAN,
             UNCHANGED outcome
      PROVE  IInv'
  <2>1. Holders' = Holders /\ Waiting' = Waiting /\ Woken' = Woken
    BY <1>0, <1>7, DirectFacts DEF Holders, Waiting, Woken, In
  <2>2. TypeOK' /\ DirectApart'
    BY <1>0, <1>7, DirectFacts DEF TypeOK, DirectApart, PCs
  <2> QED
    BY <1>7, <2>1, <2>2 DEF SlotConservation, NoLostWakeup
<1>8. CASE RunDirect
  BY <1>0, <1>7, <1>8, DirectFacts DEF RunDirect, Looping, caller, TypeOK
<1>9. ASSUME NEW ok \in BOOLEAN, ExitDirect(ok) PROVE IInv'
  <2>1. at' \in 0..(Len(Globbed) + 1) /\ failed' \in BOOLEAN
    BY <1>9, DirectFacts DEF ExitDirect, Looping, TypeOK
  <2> QED
    BY <1>7, <1>9, <2>1, DirectFacts DEF ExitDirect, Looping
<1>10. CASE Open \/ PathFails \/ Return
  <2>1. TypeOK' /\ pc' = pc /\ available' = available
    BY <1>10, DirectFacts DEF Open, PathFails, Return, Looping, TypeOK
  <2> QED
    BY <2>1 DEF DirectApart, SlotConservation, NoLostWakeup, Holders, Woken, Waiting, In
<1>11. CASE UNCHANGED vars
  BY <1>11 DEF vars, caller, TypeOK, DirectApart, SlotConservation, NoLostWakeup,
               Holders, Woken, Waiting, In
<1>12. ASSUME NEW t \in Tests, Step(t) PROVE IInv'
  BY <1>1, <1>2, <1>3, <1>5, <1>6, <1>12 DEF Step
<1>13. ASSUME NEW t \in Tests, Wakeup(t) PROVE IInv'
  BY <1>4, <1>13 DEF Wakeup
<1>14. CASE RunAllTests
  BY <1>8, <1>9, <1>10, <1>14 DEF RunAllTests
<1> QED
  BY <1>11, <1>12, <1>13, <1>14 DEF Next, Finished

\* The inductive invariant holds in every state of every behaviour.
THEOREM Invariance == Spec => []IInv
BY InitIInv, StepIInv, PTL DEF Spec

\* Type correctness of the semaphore: in particular `*available -= 1' never
\* underflows and the counter never exceeds MAX_CONCURRENT_TESTS.
THEOREM TypeCorrect == Spec => []TypeOK
BY Invariance, PTL DEF IInv

\* TestSlot::acquire and its Drop neither lose nor mint a slot.
THEOREM SlotsConserved == Spec => []SlotConservation
BY Invariance, PTL DEF IInv

\* A sleeping thread is never stranded with a free slot.
THEOREM WakeupsNotLost == Spec => []NoLostWakeup
BY Invariance, PTL DEF IInv

\* A step from a state of the invariant is a step of the abstract semaphore,
\* or none.
LEMMA SemaphoreStep == IInv /\ [Next]_vars => [Sem!Next]_(Running \ Direct)
<1> DEFINE Inside == Running \ Direct
<1> SUFFICES ASSUME IInv, [Next]_vars PROVE [Sem!Next]_Inside
  OBVIOUS
<1>0. pc \in [Tests -> PCs]
  BY DEF IInv, TypeOK
<1>1. ASSUME NEW t \in Tests, LibFound(t) PROVE Sem!Next
  <2>1. t \in Tests \ Direct
    BY <1>1 DEF IInv, DirectApart, LibFound
  <2>2. t \notin Inside /\ Inside' = Inside \cup {t}
    BY <1>0, <1>1, <2>1 DEF LibFound, Running, In
  <2>3. IsFiniteSet(Inside) /\ Cardinality(Inside) \in Nat
    BY FiniteSubset DEF Running, In
  <2>4. Cardinality(Inside \cup {t}) = Cardinality(Inside) + 1
    BY <2>2, <2>3, FS_AddElement
  <2>5. IsFiniteSet(Holders) /\ Cardinality(Holders) \in Nat
    BY FiniteSubset DEF Holders, In
  <2>6. Inside \cup {t} \subseteq Holders
    BY <1>1, <2>1 DEF LibFound, Running, Holders, In
  <2>7. Cardinality(Inside \cup {t}) <= Cardinality(Holders)
    BY <2>5, <2>6, FS_Subset
  <2>8. Cardinality(Inside) < Max
    BY <2>3, <2>4, <2>5, <2>7, MaxAssumption DEF IInv, TypeOK, SlotConservation
  <2>9. Sem!Cardinality(Inside) < Max
    BY <2>8 DEF Sem!Cardinality, Cardinality
  <2> QED
    BY <2>1, <2>2, <2>9 DEF Sem!Next, Sem!Enter
<1>2. ASSUME NEW t \in Tests, Exit(t) PROVE Sem!Next
  <2>1. t \in Tests \ Direct /\ t \in Inside /\ Inside' = Inside \ {t}
    BY <1>0, <1>2 DEF Exit, Running, In
  <2> QED
    BY <2>1 DEF Sem!Next, Sem!Leave
<1>3. ASSUME NEW t \in Tests,
             \/ Start(t) \/ Take(t) \/ Sleep(t) \/ SpuriousWakeup(t) \/ LibMissing(t)
      PROVE  Inside' = Inside
  BY <1>0, <1>3 DEF Start, Take, Sleep, SpuriousWakeup, LibMissing, Running, In
<1>4. ASSUME NEW t \in Tests, Release(t) PROVE Inside' = Inside
  BY <1>0, <1>4 DEF Release, Waiting, Running, In
<1>5. CASE UNCHANGED vars
  BY <1>5 DEF vars, Running, In
<1>6. CASE RunAllTests
  BY <1>0, <1>6, DirectFacts
     DEF RunAllTests, Open, PathFails, RunDirect, ExitDirect, Return, Looping, Running, In
<1> QED
  BY <1>1, <1>2, <1>3, <1>4, <1>5, <1>6 DEF Next, Step, Wakeup, Finished

\* The slots implement a semaphore: the children of run_one_test start and end
\* one by one, and never more than MAX_CONCURRENT_TESTS are alive.
THEOREM SlotsAreASemaphore == Spec => ImplementsSemaphore
<1>1. Init => Sem!Init
  BY DEF Init, Sem!Init, Running, In
<1> QED
  BY <1>1, Invariance, SemaphoreStep, PTL DEF Spec, ImplementsSemaphore, Sem!Spec

-----------------------------------------------------------------------------
(* The test binary.                                                         *)

\* The initial state is one of the slots.
LEMMA InitSlots == VtcInit => Init
BY DEF VtcInit

\* A step of the macro leaves the slots alone, one of the binary is theirs.
LEMMA StepSlots == [VtcNext]_vtcVars => [Next]_vars
<1> SUFFICES ASSUME [VtcNext]_vtcVars PROVE [Next]_vars
  OBVIOUS
<1>1. ASSUME Expand PROVE UNCHANGED vars
  BY <1>1 DEF Expand, GlobFails, Glob, PassOver, NameFails, Name, Compile, Following
<1>2. ASSUME NEW t \in Tests, RunStep(t) \/ Awake(t) PROVE Next
  BY <1>2 DEF RunStep, Awake, Next
<1>4. CASE CallerStep
  BY <1>4 DEF CallerStep, Next
<1>3. CASE Over \/ UNCHANGED vtcVars
  BY <1>3 DEF Over, vtcVars
<1> QED
  BY <1>1, <1>2, <1>3, <1>4 DEF VtcNext

\* Whatever the macro finds, the binary it generates runs as TestSlots says.
THEOREM BinaryImplementsSlots == VtcSpec => Spec
BY InitSlots, StepSlots, PTL DEF VtcSpec, Spec

\* Hence its children are those of a semaphore of MAX_CONCURRENT_TESTS.
THEOREM BinaryIsCapped == VtcSpec => ImplementsSemaphore
BY BinaryImplementsSlots, SlotsAreASemaphore, PTL

-----------------------------------------------------------------------------
\* The files that the loop of `generate' has been through.
Passed == {Order[i] : i \in {j \in DOMAIN Order : j < next}}

\* What the loop keeps while the build has not failed.
LoopInv ==
  /\ build \in {"expanding", "error", "empty", "duplicate", "ok"}
  /\ matched \subseteq Files
  /\ next \in 0..(Len(Order) + 1)
  /\ next = 0 => build \in {"expanding", "error"}
  /\ build \in {"duplicate", "ok"} => next = Len(Order) + 1
  /\ used \in [{Base(t) : t \in Files} -> Nat]
  /\ \A b \in {Base(t) : t \in Files} : used[b] < next \/ used[b] = 0
  /\ IsFiniteSet(entries)
  /\ build # "error" => Named = matched \cap Passed
  /\ Named \subseteq matched
  /\ \A e \in entries : e = <<e[1], e[2]>> /\ e[2] \in Passed
  /\ \A d, e \in entries : d[2] = e[2] => d = e
  /\ build = "ok" => Cardinality(Names) = Cardinality(entries)

\* The order is a sequence of files without repetition.
LEMMA OrderFacts ==
  /\ Len(Order) \in Nat /\ DOMAIN Order = 1..Len(Order)
  /\ \A i \in 1..Len(Order) : Order[i] \in Tests \ Direct /\ Order[i] \in Files
  /\ \A i, j \in 1..Len(Order) : Order[i] = Order[j] => i = j
BY OrderAssumption DEF Files

\* As many names as tests means one name each.
LEMMA NamesApart ==
  ASSUME NEW E, IsFiniteSet(E),
         NEW N, N = {e[1] : e \in E}, Cardinality(N) = Cardinality(E),
         NEW d \in E, NEW e \in E, d[1] = e[1]
  PROVE  d = e
<1> DEFINE f == [x \in E |-> x[1]]
<1>1. f \in Surjection(E, N)
  BY DEF Surjection
<1>2. f \in Injection(E, N)
  BY <1>1, FS_Surjection
<1> QED
  BY <1>2 DEF Injection, IsInjective

\* The loop starts with nothing named.
LEMMA InitLoop == VtcInit => LoopInv
<1> SUFFICES ASSUME VtcInit PROVE LoopInv
  OBVIOUS
<1>1. IsFiniteSet(entries)
  BY FS_EmptySet DEF VtcInit
<1> QED
  BY <1>1, OrderFacts DEF VtcInit, LoopInv, Named, Passed

\* Going to the next file passes exactly that one.
LEMMA PassOne ==
  ASSUME LoopInv, Following
  PROVE  /\ Passed' = Passed \cup {Order[next]}
         /\ Order[next] \notin Passed /\ Order[next] \in Files
         /\ next \in 1..Len(Order) /\ next' = next + 1 /\ matched' = matched
         /\ build = "expanding"
BY OrderFacts DEF LoopInv, Following, Passed

\* Every step of the expansion, and of the binary, keeps the invariant.
LEMMA StepLoop == LoopInv /\ [VtcNext]_vtcVars => LoopInv'
<1> SUFFICES ASSUME LoopInv, [VtcNext]_vtcVars PROVE LoopInv'
  OBVIOUS
<1>1. CASE GlobFails
  BY <1>1, OrderFacts DEF GlobFails, LoopInv, Named, Passed
<1>2. ASSUME NEW ms \in SUBSET Files, Glob(ms) PROVE LoopInv'
  <2>1. Passed = {} /\ Passed' = {} /\ entries = {} /\ entries' = {}
    BY <1>2, OrderFacts DEF Glob, LoopInv, Passed
  <2> QED
    BY <1>2, <2>1, OrderFacts DEF Glob, LoopInv, Named, Names
<1>3. CASE PassOver
  <2>1. Following
    BY <1>3 DEF PassOver
  <2> QED
    BY <1>3, <2>1, PassOne, OrderFacts DEF PassOver, LoopInv, Named, Names
<1>4. CASE NameFails
  <2>1. Following
    BY <1>4 DEF NameFails
  <2> QED
    BY <1>4, <2>1, PassOne, OrderFacts DEF NameFails, LoopInv, Named, Names
<1>5. CASE Name
  <2> DEFINE t == Order[next]
             b == Base(t)
  <2>0. PICK x : x = <<b \o Suffix(used[b]), t>>
    OBVIOUS
  <2>1. Following
    BY <1>5 DEF Name
  <2>2. /\ entries' = entries \cup {x} /\ used' = [used EXCEPT ![b] = @ + 1]
        /\ t \in matched /\ build' = build
    BY <1>5, <2>0 DEF Name
  <2>3. IsFiniteSet(entries')
    BY <2>2, FS_AddElement DEF LoopInv
  <2>4. /\ used' \in [{Base(u) : u \in Files} -> Nat]
        /\ \A c \in {Base(u) : u \in Files} : used'[c] < next' \/ used'[c] = 0
    BY <2>1, <2>2, PassOne, OrderFacts DEF LoopInv
  <2>5. x = <<x[1], x[2]>> /\ x[2] = t
    BY <2>0
  <2>6. Named' = Named \cup {t}
    BY <2>2, <2>5 DEF Named
  <2>7. \A e \in entries' : e = <<e[1], e[2]>> /\ e[2] \in Passed'
    BY <2>1, <2>2, <2>5, PassOne DEF LoopInv
  <2>8. \A d, e \in entries' : d[2] = e[2] => d = e
    <3>1. \A e \in entries : e[2] # t
      BY <2>1, PassOne DEF LoopInv
    <3> QED
      BY <2>2, <2>5, <3>1 DEF LoopInv
  <2>9. Named' = matched' \cap Passed' /\ Named' \subseteq matched'
    BY <2>1, <2>2, <2>6, PassOne DEF LoopInv
  <2> QED
    BY <2>1, <2>2, <2>3, <2>4, <2>7, <2>8, <2>9, PassOne, OrderFacts DEF LoopInv
<1>6. CASE Compile
  <2>1. Passed' = Passed /\ Named' = Named /\ Names' = Names
    BY <1>6 DEF Compile, Passed, Named, Names
  <2> QED
    BY <1>6, <2>1, OrderFacts DEF Compile, LoopInv
<1>7. CASE UNCHANGED macroVars
  BY <1>7 DEF macroVars, LoopInv, Named, Names, Passed
<1>8. ASSUME \/ CallerStep
             \/ \E t \in Tests : RunStep(t) \/ Awake(t)
      PROVE  UNCHANGED macroVars
  BY <1>8 DEF RunStep, Awake, CallerStep
<1> QED
  BY <1>1, <1>2, <1>3, <1>4, <1>5, <1>6, <1>7, <1>8 DEF VtcNext, Expand, Over, vtcVars

\* The invariant of the loop holds throughout.
THEOREM LoopInvariance == VtcSpec => []LoopInv
BY InitLoop, StepLoop, PTL DEF VtcSpec

\* A test binary that builds has one test for each of the files that matched,
\* whatever their names have in common.
THEOREM TestsAreFiles == VtcSpec => []EachFileOnce
<1>1. LoopInv => EachFileOnce
  <2> SUFFICES ASSUME LoopInv, build = "ok" PROVE EachFileOnce
    BY DEF EachFileOnce
  <2>1. Passed = Files
    BY OrderFacts DEF LoopInv, Passed, Files
  <2>2. Named = matched
    BY <2>1 DEF LoopInv
  <2>3. ASSUME NEW d \in entries, NEW e \in entries
        PROVE  (d[1] = e[1]) <=> (d[2] = e[2])
    <3>1. ASSUME d[1] = e[1] PROVE d = e
      BY <3>1, NamesApart DEF LoopInv, Names
    <3> QED
      BY <3>1 DEF LoopInv
  <2> QED
    BY <2>2, <2>3 DEF EachFileOnce
<1> QED
  BY <1>1, LoopInvariance, PTL

\* Type correctness of the macro and the binary together.
THEOREM VtcTypeCorrect == VtcSpec => []VtcTypeOK
<1>1. TypeOK /\ LoopInv => VtcTypeOK
  <2> SUFFICES ASSUME TypeOK, LoopInv PROVE VtcTypeOK
    OBVIOUS
  <2>1. \A b \in DOMAIN used : used[b] \in 0..Len(Order)
    BY OrderFacts DEF LoopInv
  <2>2. \A e \in entries : e[2] \in matched
    BY DEF LoopInv, Named
  <2> QED
    BY <2>1, <2>2 DEF VtcTypeOK, LoopInv
<1> QED
  BY <1>1, LoopInvariance, BinaryImplementsSlots, TypeCorrect, PTL

-----------------------------------------------------------------------------
(* The names of the tests.                                                  *)

\* The bases of the files, and those whose test has a base.
FileBases == {Base(t) : t \in Files}
NamedLike(b) == {t \in Named : Base(t) = b}

\* What an identifier is made of.
Underscore == "_"
Char  == Letters \cup DigitChars \cup {Underscore}
Stems == Seq(Char)

LEMMA DigitsFacts ==
  /\ Len(Digits) \in Nat /\ DOMAIN Digits = 1..Len(Digits) /\ Len(Order) < Len(Digits)
  /\ \A i, j \in DOMAIN Digits : Digits[i] = Digits[j] => i = j
BY DigitsAssumption, LenProperties


\* A sequence and what follows it.
LEMMA Joined ==
  ASSUME NEW S, NEW p \in Seq(S), NEW q \in Seq(S)
  PROVE  /\ p \o q \in Seq(S) /\ Len(p \o q) = Len(p) + Len(q) /\ Len(p) \in Nat /\ Len(q) \in Nat
         /\ \A i \in 1..Len(p) : (p \o q)[i] = p[i]
         /\ \A i \in 1..Len(q) : (p \o q)[Len(p) + i] = q[i]
         /\ q = <<>> => p \o q = p
BY ConcatProperties, EmptySeq, ConcatEmptySeq

LEMMA BaseIsStem == \A t \in Files : Base(t) \in Stems
<1> SUFFICES ASSUME NEW t \in Files PROVE Base(t) \in Stems
  OBVIOUS
<1> DEFINE stem == Stem[t]
           ch(i) == IF stem[i] \in Letters \cup DigitChars THEN stem[i] ELSE "_"
           out == [i \in DOMAIN stem |-> ch(i)]
<1>1. stem \in Seq(STRING) /\ Underscore \in Char
  BY StemAssumption DEF Files, Char
<1> HIDE DEF stem
<1>2. DOMAIN stem = 1..Len(stem) /\ Len(stem) \in Nat /\ \A i \in DOMAIN stem : ch(i) \in Char
  BY <1>1, LenProperties DEF Char, Underscore
<1> HIDE DEF ch
<1>3. out \in Seq(Char)
  BY <1>2
<1>4. <<Underscore>> \in Seq(Char)
  BY <1>1
<1> HIDE DEF out
<1>5. <<Underscore>> \o out \in Seq(Char)
  BY <1>3, <1>4, Joined
<1> QED
  BY <1>3, <1>5 DEF Base, Sanitize, Stems, out, stem, ch, Underscore

LEMMA SuffixIs ==
  ASSUME NEW n \in 0..Len(Order)
  PROVE  /\ Suffix(n) \in Stems /\ Len(Suffix(n)) = IF n = 0 THEN 0 ELSE 2
         /\ n = 0 => Suffix(n) = <<>>
         /\ n # 0 => Suffix(n)[2] = Digits[n + 1] /\ n + 1 \in DOMAIN Digits
<1>1. /\ Len(Order) \in Nat /\ Len(Digits) \in Nat /\ DOMAIN Digits = 1..Len(Digits)
      /\ Len(Order) < Len(Digits)
  BY OrderFacts, DigitsFacts
<1>2. n # 0 => n + 1 \in DOMAIN Digits /\ Digits[n + 1] \in Char
  BY <1>1 DEF Char, DigitChars
<1>3. Underscore \in Char
  BY DEF Char
<1>4. CASE n = 0
  BY <1>4 DEF Suffix, Stems
<1>5. CASE n # 0
  <2>1. Suffix(n) = <<Underscore, Digits[n + 1]>>
    BY <1>5 DEF Suffix, Underscore
  <2>2. Suffix(n) \in Seq(Char)
    BY <1>2, <1>3, <1>5, <2>1
  <2> QED
    BY <1>2, <1>5, <2>1, <2>2 DEF Stems
<1> QED
  BY <1>4, <1>5

LEMMA NameIs ==
  ASSUME NEW b \in Stems, NEW n \in 0..Len(Order)
  PROVE  /\ b \o Suffix(n) \in Stems
         /\ Len(b \o Suffix(n)) = Len(b) + Len(Suffix(n)) /\ Len(b) \in Nat
         /\ n = 0 => b \o Suffix(n) = b
         /\ n # 0 => (b \o Suffix(n))[Len(b) + 2] = Digits[n + 1]
         /\ \A i \in 1..Len(b) : (b \o Suffix(n))[i] = b[i]
<1> DEFINE s == Suffix(n)
<1>1. /\ s \in Seq(Char) /\ b \in Seq(Char) /\ Len(s) = (IF n = 0 THEN 0 ELSE 2)
      /\ n = 0 => s = <<>>
      /\ n # 0 => s[2] = Digits[n + 1]
  BY SuffixIs DEF Stems
<1> HIDE DEF s
<1>2. /\ b \o s \in Seq(Char) /\ Len(b \o s) = Len(b) + Len(s) /\ Len(b) \in Nat
      /\ \A i \in 1..Len(b) : (b \o s)[i] = b[i]
      /\ \A i \in 1..Len(s) : (b \o s)[Len(b) + i] = s[i]
      /\ s = <<>> => b \o s = b
  <2> HIDE DEF s
  <2>1. s \in Seq(Char) /\ b \in Seq(Char)
    BY <1>1
  <2> QED
    BY <2>1, Joined
<1>3. n # 0 => 2 \in 1..Len(s)
  BY <1>1
<1> QED
  BY <1>1, <1>2, <1>3 DEF s, Stems

\* Two numbered names are one only if base and number are, or one of them is
\* a base that ends like a number of the other.
LEMMA NamesMeet ==
  ASSUME NEW b \in Stems, NEW c \in Stems, NEW n \in 0..Len(Order), NEW m \in 0..Len(Order),
         b \o Suffix(n) = c \o Suffix(m)
  PROVE  /\ b = c <=> n = m
         /\ b = c \/ n = 0 \/ m = 0
<1> DEFINE x == b \o Suffix(n)
           y == c \o Suffix(m)
<1>1. /\ Len(x) = Len(b) + Len(Suffix(n)) /\ Len(y) = Len(c) + Len(Suffix(m))
      /\ Len(b) \in Nat /\ Len(c) \in Nat /\ x = y
      /\ Len(Suffix(n)) = (IF n = 0 THEN 0 ELSE 2) /\ Len(Suffix(m)) = (IF m = 0 THEN 0 ELSE 2)
      /\ n = 0 => x = b
      /\ m = 0 => y = c
      /\ n # 0 => x[Len(b) + 2] = Digits[n + 1] /\ n + 1 \in DOMAIN Digits
      /\ m # 0 => y[Len(c) + 2] = Digits[m + 1] /\ m + 1 \in DOMAIN Digits
      /\ \A i \in 1..Len(b) : x[i] = b[i]
      /\ \A i \in 1..Len(c) : y[i] = c[i]
  BY NameIs, SuffixIs
<1> HIDE DEF x, y
<1>2. Len(b) = Len(c) => b = c
  <2> SUFFICES ASSUME Len(b) = Len(c) PROVE b = c
    OBVIOUS
  <2>1. \A i \in 1..Len(b) : b[i] = c[i]
    BY <1>1
  <2>2. b = [i \in 1..Len(b) |-> b[i]] /\ c = [i \in 1..Len(c) |-> c[i]]
    BY DEF Stems
  <2> QED
    BY <2>1, <2>2
<1>3. b = c => n = m
  <2> SUFFICES ASSUME b = c PROVE n = m
    OBVIOUS
  <2>1. Len(b) = Len(c)
    OBVIOUS
  <2>2. n = 0 <=> m = 0
    BY <1>1, <2>1
  <2>3. n # 0 => Digits[n + 1] = Digits[m + 1]
    BY <1>1, <2>1, <2>2
  <2>4. n # 0 => n + 1 = m + 1
    BY <1>1, <2>2, <2>3, DigitsFacts
  <2> QED
    BY <2>2, <2>4, OrderFacts
<1>4. n = m => b = c
  BY <1>1, <1>2
<1>5. n # 0 /\ m # 0 => b = c
  BY <1>1, <1>2
<1> QED
  BY <1>3, <1>4, <1>5

\* The tests of a base are numbered from 0, and `used' counts them; a build
\* that was refused has two tests of one name.
Numbered ==
  /\ \A e \in entries : \E n \in 0..(used[Base(e[2])] - 1) : e[1] = Base(e[2]) \o Suffix(n)
  /\ \A b \in FileBases : \A n \in 0..(used[b] - 1) :
       \E e \in entries : Base(e[2]) = b /\ e[1] = b \o Suffix(n)
  /\ \A d, e \in entries : Base(d[2]) = Base(e[2]) /\ d[1] = e[1] => d = e
  /\ \A b \in FileBases : IsFiniteSet(NamedLike(b)) /\ used[b] = Cardinality(NamedLike(b))
  /\ build = "duplicate" => Cardinality(Names) # Cardinality(entries)

LEMMA InitNumbered == VtcInit => Numbered
<1> SUFFICES ASSUME VtcInit PROVE Numbered
  OBVIOUS
<1>1. entries = {} /\ Named = {} /\ build = "expanding"
  BY DEF VtcInit, Named
<1>2. \A b \in FileBases : used[b] = 0 /\ NamedLike(b) = {}
  BY <1>1 DEF VtcInit, FileBases, NamedLike
<1>3. IsFiniteSet({}) /\ Cardinality({}) = 0
  BY FS_EmptySet
<1> QED
  BY <1>1, <1>2, <1>3 DEF Numbered

\* A step names a file, or leaves the names and their numbers alone.
LEMMA NamesOrNot ==
  ASSUME [VtcNext]_vtcVars
  PROVE  \/ Name
         \/ /\ UNCHANGED <<entries, used>>
            /\ build' = "duplicate" /\ build # "duplicate" => Compile
<1>1. CASE Expand
  <2>1. CASE Name
    BY <2>1
  <2>2. CASE Compile
    BY <2>2 DEF Compile
  <2>3. CASE GlobFails \/ PassOver \/ NameFails \/ \E ms \in SUBSET Files : Glob(ms)
    BY <2>3 DEF GlobFails, PassOver, NameFails, Glob, Following
  <2> QED
    BY <1>1, <2>1, <2>2, <2>3 DEF Expand
<1>2. CASE Over \/ UNCHANGED vtcVars
  BY <1>2 DEF Over, vtcVars, macroVars
<1>3. ASSUME \/ CallerStep
             \/ \E t \in Tests : RunStep(t) \/ Awake(t)
      PROVE  UNCHANGED macroVars
  BY <1>3 DEF RunStep, Awake, CallerStep
<1> QED
  BY <1>1, <1>2, <1>3 DEF VtcNext, macroVars

LEMMA NameNumbered ==
  ASSUME LoopInv, Numbered, Name
  PROVE  Numbered'
<1> DEFINE t == Order[next]
           b == Base(t)
           k == used[b]
<1>0. PICK x : x = <<b \o Suffix(k), t>>
  OBVIOUS
<1>1. /\ entries' = entries \cup {x} /\ used' = [used EXCEPT ![b] = @ + 1]
      /\ build' = "expanding" /\ Following
  BY <1>0 DEF Name, Following
<1>2. /\ t \in Files /\ t \notin Passed /\ next \in 1..Len(Order)
      /\ Len(Order) \in Nat
  BY <1>1, PassOne, OrderFacts
<1>3. b \in FileBases /\ b \in Stems /\ used \in [FileBases -> Nat]
  BY <1>2, BaseIsStem DEF FileBases, LoopInv
<1>4. \A c \in FileBases : used[c] \in Nat /\ used[c] <= Len(Order)
  BY <1>2, <1>3 DEF LoopInv, FileBases
<1>5. x[1] = b \o Suffix(k) /\ x[2] = t
  BY <1>0
<1>6. /\ k \in Nat /\ k <= Len(Order) /\ used' \in [FileBases -> Nat] /\ used'[b] = k + 1
      /\ \A c \in FileBases : c # b => used'[c] = used[c]
  BY <1>1, <1>3, <1>4
<1>7. \A e \in entries : e[2] \in Passed /\ e[2] # t /\ Base(e[2]) \in FileBases
  BY <1>2 DEF LoopInv, FileBases, Passed, Files, Following
<1> HIDE DEF t, b, k
<1>8. \A e \in entries' : \E n \in 0..(used'[Base(e[2])] - 1) : e[1] = Base(e[2]) \o Suffix(n)
  <2>1. ASSUME NEW e \in entries
        PROVE  \E n \in 0..(used'[Base(e[2])] - 1) : e[1] = Base(e[2]) \o Suffix(n)
    <3> DEFINE c == Base(e[2])
    <3>1. PICK n \in 0..(used[c] - 1) : e[1] = c \o Suffix(n)
      BY DEF Numbered
    <3>2. c \in FileBases /\ used[c] \in Nat /\ used'[c] \in Nat /\ used[c] <= used'[c]
      BY <1>3, <1>4, <1>6, <1>7 DEF k
    <3> HIDE DEF c
    <3>3. n \in 0..(used'[c] - 1)
      BY <3>2
    <3> QED
      BY <3>1, <3>3 DEF c
  <2>2. \E n \in 0..(used'[Base(x[2])] - 1) : x[1] = Base(x[2]) \o Suffix(n)
    <3>1. Base(x[2]) = b /\ k \in 0..(used'[b] - 1)
      BY <1>5, <1>6 DEF b
    <3> QED
      BY <1>5, <3>1
  <2> QED
    BY <1>1, <2>1, <2>2
<1>9. ASSUME NEW c \in FileBases, NEW n \in 0..(used'[c] - 1)
      PROVE  \E e \in entries' : Base(e[2]) = c /\ e[1] = c \o Suffix(n)
  <2>1. CASE c = b /\ n = k
    <3>1. x \in entries' /\ Base(x[2]) = c /\ x[1] = c \o Suffix(n)
      BY <1>1, <1>5, <2>1 DEF b
    <3> QED
      BY <3>1
  <2>2. CASE ~(c = b /\ n = k)
    <3>1. n \in 0..(used[c] - 1)
      BY <1>3, <1>4, <1>6, <2>2 DEF k
    <3>2. PICK e \in entries : Base(e[2]) = c /\ e[1] = c \o Suffix(n)
      BY <3>1 DEF Numbered
    <3> QED
      BY <1>1, <3>2
  <2> QED
    BY <2>1, <2>2
<1>10. ASSUME NEW e \in entries, Base(e[2]) = b PROVE e[1] # x[1]
  <2>1. PICK n \in 0..(k - 1) : e[1] = b \o Suffix(n)
    BY <1>10 DEF Numbered, k
  <2>2. n \in 0..Len(Order) /\ k \in 0..Len(Order) /\ n # k
    BY <1>2, <1>6
  <2>3. b \o Suffix(n) # b \o Suffix(k)
    BY <1>3, <2>2, NamesMeet
  <2> QED
    BY <1>5, <2>1, <2>3
<1>11. \A d, e \in entries' : Base(d[2]) = Base(e[2]) /\ d[1] = e[1] => d = e
  <2>1. Base(x[2]) = b
    BY <1>5 DEF b
  <2> QED
    BY <1>1, <1>10, <2>1 DEF Numbered
<1>12. ASSUME NEW c \in FileBases
       PROVE  IsFiniteSet(NamedLike(c))' /\ used'[c] = Cardinality(NamedLike(c)')
  <2>1. Named' = Named \cup {t} /\ t \notin Named
    BY <1>1, <1>5, <1>7 DEF Named
  <2>2. IsFiniteSet(NamedLike(c)) /\ used[c] = Cardinality(NamedLike(c))
    BY DEF Numbered
  <2>3. CASE c = b
    <3>1. NamedLike(c)' = NamedLike(c) \cup {t} /\ t \notin NamedLike(c)
      BY <2>1, <2>3 DEF NamedLike, b
    <3> QED
      BY <1>6, <2>2, <2>3, <3>1, FS_AddElement DEF k
  <2>4. CASE c # b
    <3>1. NamedLike(c)' = NamedLike(c)
      BY <2>1, <2>4 DEF NamedLike, b
    <3> QED
      BY <1>6, <2>2, <2>4, <3>1
  <2> QED
    BY <2>3, <2>4
<1> QED
  BY <1>1, <1>8, <1>9, <1>11, <1>12 DEF Numbered

LEMMA StepNumbered == LoopInv /\ Numbered /\ [VtcNext]_vtcVars => Numbered'
<1> SUFFICES ASSUME LoopInv, Numbered, [VtcNext]_vtcVars PROVE Numbered'
  OBVIOUS
<1>1. CASE Name
  BY <1>1, NameNumbered
<1>2. CASE /\ UNCHANGED <<entries, used>>
           /\ build' = "duplicate" /\ build # "duplicate" => Compile
  <2>1. Named' = Named /\ Names' = Names /\ \A b : NamedLike(b)' = NamedLike(b)
    BY <1>2 DEF Named, Names, NamedLike
  <2>2. build' = "duplicate" => Cardinality(Names') # Cardinality(entries')
    BY <1>2, <2>1 DEF Compile, Numbered
  <2> QED
    BY <1>2, <2>1, <2>2 DEF Numbered
<1> QED
  BY <1>1, <1>2, NamesOrNot

\* Fewer names than tests means that two tests share one.
LEMMA NamesShared ==
  ASSUME NEW E, IsFiniteSet(E),
         NEW N, N = {e[1] : e \in E}, Cardinality(N) # Cardinality(E)
  PROVE  \E d, e \in E : d # e /\ d[1] = e[1]
<1> DEFINE f == [x \in E |-> x[1]]
<1>1. f \in Surjection(E, N)
  BY DEF Surjection
<1>2. f \notin Injection(E, N)
  BY <1>1, FS_Surjection
<1>3. f \in [E -> N] /\ \A x \in E : f[x] = x[1]
  OBVIOUS
<1> HIDE DEF f
<1> QED
  BY <1>2, <1>3 DEF Injection, IsInjective

LEMMA NumberedCollide ==
  ASSUME LoopInv, Numbered, build \in {"ok", "duplicate"}
  PROVE  Cardinality(Names) # Cardinality(entries) <=> NamesCollide
<1>1. Passed = Files /\ Named = matched
  <2>1. Passed = Files
    BY OrderFacts DEF LoopInv, Passed, Files
  <2> QED
    BY <2>1 DEF LoopInv
<1>2. \A b : Twins(b) = NamedLike(b)
  BY <1>1 DEF Twins, NamedLike
<1>3. \A t \in matched : t \in Files /\ Base(t) \in FileBases /\ Base(t) \in Stems
  BY BaseIsStem DEF LoopInv, FileBases
<1>4. \A b \in FileBases : used[b] \in Nat /\ used[b] <= Len(Order) /\ used[b] = Cardinality(Twins(b))
  BY <1>2, OrderFacts DEF LoopInv, Numbered, FileBases
<1>5. IsFiniteSet(entries) /\ Len(Order) \in Nat /\ \A e \in entries : e[2] \in matched
  BY OrderFacts DEF LoopInv, Named
<1>6. ASSUME NamesCollide PROVE Cardinality(Names) # Cardinality(entries)
  <2>1. PICK t \in matched, u \in matched, n \in 1..Len(Order) :
          Base(u) = Base(t) \o Suffix(n) /\ Cardinality(Twins(Base(t))) > n
    BY <1>6 DEF NamesCollide
  <2> DEFINE b == Base(t)
             c == Base(u)
  <2>2. b \in FileBases /\ c \in FileBases /\ b \in Stems /\ c \in Stems
    BY <1>3
  <2>3. n \in 0..(used[b] - 1)
    BY <1>4, <1>5, <2>1, <2>2
  <2>4. 0 \in 0..(used[c] - 1)
    <3>1. u \in NamedLike(c) /\ IsFiniteSet(NamedLike(c))
      BY <1>1, <2>2 DEF NamedLike, Numbered
    <3>2. Cardinality(NamedLike(c)) # 0
      BY <3>1, FS_EmptySet
    <3> QED
      BY <1>2, <1>4, <2>2, <3>2
  <2> HIDE DEF b, c
  <2>5. PICK d \in entries : Base(d[2]) = b /\ d[1] = b \o Suffix(n)
    BY <2>2, <2>3 DEF Numbered
  <2>6. PICK e \in entries : Base(e[2]) = c /\ e[1] = c \o Suffix(0)
    BY <2>2, <2>4 DEF Numbered
  <2>7. n \in 0..Len(Order) /\ 0 \in 0..Len(Order) /\ n # 0
    BY <1>5
  <2>8. c \o Suffix(0) = c /\ c = b \o Suffix(n)
    BY <2>1, <2>2, <2>7, NameIs DEF b, c
  <2>9. b # c
    BY <2>2, <2>7, <2>8, NamesMeet
  <2>10. d # e /\ d[1] = e[1]
    BY <2>5, <2>6, <2>8, <2>9
  <2> QED
    BY <1>5, <2>10, NamesApart DEF Names
<1>7. ASSUME Cardinality(Names) # Cardinality(entries) PROVE NamesCollide
  <2>1. PICK d \in entries, e \in entries : d # e /\ d[1] = e[1]
    BY <1>5, <1>7, NamesShared DEF Names
  <2> DEFINE b == Base(d[2])
             c == Base(e[2])
  <2>2. b \in FileBases /\ b \in Stems /\ c \in FileBases /\ c \in Stems
    BY <1>3, <1>5
  <2>3. PICK n \in 0..(used[b] - 1) : d[1] = b \o Suffix(n)
    BY DEF Numbered
  <2>4. PICK m \in 0..(used[c] - 1) : e[1] = c \o Suffix(m)
    BY DEF Numbered
  <2>5. b # c
    BY <2>1 DEF Numbered
  <2> HIDE DEF b, c
  <2>6. n \in 0..Len(Order) /\ m \in 0..Len(Order) /\ n < used[b] /\ m < used[c]
    BY <1>4, <1>5, <2>2
  <2>7. n # m /\ (n = 0 \/ m = 0) /\ b \o Suffix(n) = c \o Suffix(m)
    <3>1. b \o Suffix(n) = c \o Suffix(m)
      BY <2>1, <2>3, <2>4
    <3>2. n \in 0..Len(Order) /\ m \in 0..Len(Order)
      BY <2>6
    <3>3. (b = c <=> n = m) /\ (b = c \/ n = 0 \/ m = 0)
      BY ONLY <2>2, <3>1, <3>2, NamesMeet
    <3> QED
      BY <2>5, <3>1, <3>3
  <2>8. CASE n = 0
    <3>1. b = c \o Suffix(m) /\ m \in 1..Len(Order) /\ Cardinality(Twins(c)) > m
      <4>1. b \o Suffix(n) = b
        BY <2>2, <2>6, <2>8, NameIs
      <4>2. m \in 1..Len(Order) /\ Cardinality(Twins(c)) > m
        BY <1>4, <1>5, <2>2, <2>6, <2>7, <2>8
      <4> QED
        BY <2>7, <4>1, <4>2
    <3> QED
      BY <1>5, <3>1 DEF NamesCollide, b, c
  <2>9. CASE m = 0
    <3>1. c = b \o Suffix(n) /\ n \in 1..Len(Order) /\ Cardinality(Twins(b)) > n
      <4>1. c \o Suffix(m) = c
        BY <2>2, <2>6, <2>9, NameIs
      <4>2. n \in 1..Len(Order) /\ Cardinality(Twins(b)) > n
        BY <1>4, <1>5, <2>2, <2>6, <2>7, <2>9
      <4> QED
        BY <2>7, <4>1, <4>2
    <3> QED
      BY <1>5, <3>1 DEF NamesCollide, b, c
  <2> QED
    BY <2>7, <2>8, <2>9
<1> QED
  BY <1>6, <1>7

\* Every file of the pattern is one test of its own name, and the build is
\* refused for the names exactly when a file is called like a numbered test of
\* another.
THEOREM OneTestForEachFile == VtcSpec => []OneTestPerFile
<1>1. LoopInv /\ Numbered => FailsForNames
  <2> SUFFICES ASSUME LoopInv, Numbered, build \in {"ok", "duplicate"}
               PROVE  build = "duplicate" <=> NamesCollide
    BY DEF FailsForNames
  <2>1. Cardinality(Names) # Cardinality(entries) <=> NamesCollide
    BY NumberedCollide
  <2> QED
    BY <2>1 DEF LoopInv, Numbered
<1>2. VtcSpec => []Numbered
  BY InitNumbered, StepNumbered, LoopInvariance, PTL DEF VtcSpec
<1>3. EachFileOnce /\ FailsForNames => OneTestPerFile
  BY DEF OneTestPerFile
<1> QED
  BY <1>1, <1>2, <1>3, LoopInvariance, TestsAreFiles, PTL

-----------------------------------------------------------------------------
(* Metrics: the inductive invariant, in parts.                              *)

\* The words of a segment hold what was added to its fields, modulo 2 * Half;
Word(n) == IF n < 0 THEN n + 2 * Half ELSE n
WordsRight ==
  \A s \in Segs, f \in Fields : /\ mem[s][Offset(f)] = Word(net[s][f])
                                /\ shm[s] = "none" => net[s][f] = 0

\* the reader's handles are alive until it is gone;
Handles == phase # "gone" => vsc = "live" /\ internal = "live"

\* arrays of points do not overlap, and the map has all points of all of them;
Taken == {s \in Segs : mapped[s] # NULL}
Mapped ==
  /\ \A s, t \in Taken : mapped[s] = mapped[t] => s = t
  /\ \A s \in Taken, f \in Fields : /\ <<mapped[s], f>> \in DOMAIN points
                                    /\ points[<<mapped[s], f>>] = Metric(s, f)
  /\ \A k \in DOMAIN points : \E s \in Taken : k \in Keys(mapped[s])
  /\ faults = {}

\* and what the client takes a key for is right, but for the segments that this
\* update has mapped and for keys that it has deleted.
Updating ==
  /\ fresh \subseteq Taken
  /\ phase # "iter" => fresh = {}
  /\ phase \notin {"iter", "drop", "gone"} => added = {} /\ deleted = {}
  /\ seen = [k \in DOMAIN seen |-> seen[k]]
  /\ phase \notin {"drop", "gone"} =>
       /\ \A k \in added : \E s \in fresh : k \in Keys(mapped[s])
       /\ \A s \in fresh : Keys(mapped[s]) \subseteq added
       /\ \A s \in Taken \ fresh : \A k \in Keys(mapped[s]) :
            k \in DOMAIN seen /\ k \notin deleted /\ seen[k] = s
       /\ \A k \in DOMAIN seen \ deleted : \E s \in Taken \ fresh : k \in Keys(mapped[s])

MetricsInv == MetricsTypeOK /\ WordsRight /\ Handles /\ Mapped /\ Updating

LEMMA FieldsAre ==
  /\ Len(Declared) \in Nat /\ DOMAIN Declared = 1..Len(Declared)
  /\ \A f \in Fields : Position(f) \in 1..Len(Declared) /\ Declared[Position(f)] = f
<1>1. Len(Declared) \in Nat /\ DOMAIN Declared = 1..Len(Declared)
  BY FieldsAssumption
<1>2. \A f \in Fields : Position(f) \in DOMAIN Declared /\ Declared[Position(f)] = f
  BY DEF Fields, Position
<1> QED
  BY <1>1, <1>2

\* Fields of one size do not overlap.
LEMMA OffsetsApart ==
  /\ \A f, g \in Fields : Offset(f) = Offset(g) => f = g
  /\ \A f \in Fields : Offset(f) \in Offsets
<1>1. ASSUME NEW f \in Fields, NEW g \in Fields, Offset(f) = Offset(g) PROVE f = g
  <2>1. Position(f) \in Int /\ Position(g) \in Int
    BY FieldsAre
  <2>2. Position(f) = Position(g)
    BY <1>1, <2>1 DEF Offset, WordSize
  <2> QED
    BY <2>2, FieldsAre
<1>2. \A f \in Fields : Offset(f) \in Offsets
  BY DEF Offsets
<1> QED
  BY <1>1, <1>2

\* The index that generate_metrics counts is the offset that the compiler gives
\* the field.
LEMMA IndexIsOffset == \A f \in Fields : Index(f) = Offset(f)
<1> DEFINE N == Len(Declared)
           follows(h, i) == IF i = 1 THEN 0 ELSE h[i - 1] + WordSize
           P(h) == h = [i \in 1..N |-> follows(h, i)]
           closed == [i \in 1..N |-> WordSize * (i - 1)]
<1>1. N \in Nat
  BY FieldsAre
<1>2. P(closed)
  <2>1. ASSUME NEW i \in 1..N PROVE closed[i] = follows(closed, i)
    <3>1. CASE i = 1
      BY <3>1 DEF WordSize
    <3>2. CASE i # 1
      <4>1. i - 1 \in 1..N
        BY <1>1, <3>2
      <4> QED
        BY <3>2, <4>1 DEF WordSize
    <3> QED
      BY <3>1, <3>2
  <2> HIDE DEF follows, N
  <2> QED
    BY <2>1
<1> DEFINE offset == CHOOSE h : P(h)
<1>3. P(offset)
  <2> HIDE DEF P
  <2> QED
    BY <1>2
<1>4. \A f \in Fields : Index(f) = offset[Position(f)]
  BY DEF Index
<1> HIDE DEF offset, N
<1> DEFINE D == {i \in 0..N : i = 0 \/ offset[i] = WordSize * (i - 1)}
<1>5. 0 \in D
  BY <1>1
<1>6. ASSUME NEW i \in 1..N, i - 1 \in D PROVE i \in D
  <2>1. offset[i] = follows(offset, i)
    <3> HIDE DEF follows
    <3> QED
      BY <1>3
  <2>2. CASE i = 1
    BY <2>1, <2>2, <1>1 DEF WordSize
  <2>3. CASE i # 1
    BY <2>1, <2>3, <1>1, <1>6 DEF WordSize
  <2> QED
    BY <2>2, <2>3
<1>7. 0..N \subseteq D
  <2> HIDE DEF D
  <2> QED
    BY <1>1, <1>5, <1>6, UptoInduction
<1>8. \A i \in 1..N : offset[i] = WordSize * (i - 1)
  BY <1>1, <1>7
<1> QED
  BY <1>4, <1>8, FieldsAre DEF Offset, N

LEMMA MetricIs ==
  ASSUME NEW s \in Segs, NEW f \in Fields
  PROVE  /\ Metric(s, f) = [seg |-> s, index |-> Offset(f), semantics |-> Kind[f]]
         /\ Kind[f] \in {"counter", "gauge", "bitmap"}
<1>1. Kind[f] \in {"counter", "gauge", "bitmap"}
  BY FieldsAssumption
<1>2. Semantics(Code(f)) = Kind[f]
  BY <1>1 DEF Semantics, Code
<1> QED
  BY <1>1, <1>2, IndexIsOffset DEF Metric

\* Arithmetic modulo 2 * Half, one up or down.
LEMMA WordChanges ==
  ASSUME NEW x \in -Bound..Bound, NEW n \in {-1, 1}, x + n \in -Bound..Bound
  PROVE  /\ (Word(x) + n) % (2 * Half) = Word(x + n)
         /\ Word(x + n) \in Words
BY HalfAssumption DEF Word, Words

LEMMA KeysAre ==
  ASSUME NEW base
  PROVE  /\ \A f \in Fields : <<base, f>> \in Keys(base)
         /\ \A k \in Keys(base) : k[1] = base /\ k[2] \in Fields /\ k = <<base, k[2]>>
         /\ base \in Bases => Keys(base) \subseteq AllKeys
BY DEF Keys, AllKeys

\* The words that stand for the values of a field,
Fits(n, f) == /\ Word(n) \in Words
              /\ IF Kind[f] = "bitmap" THEN Word(n) = n
                 ELSE (IF Word(n) < Half THEN Word(n) ELSE 0) = (IF n < 0 THEN 0 ELSE n)

LEMMA WordFits == ASSUME NEW f \in Fields, NEW n \in Values(f) PROVE Fits(n, f)
<1>1. CASE Kind[f] = "bitmap"
  BY <1>1, HalfAssumption DEF Values, Words, Word, Fits
<1>2. CASE Kind[f] # "bitmap"
  BY <1>2, HalfAssumption DEF Values, Words, Word, Fits
<1> QED
  BY <1>1, <1>2

\* and a step that writes one of them, with the word that stands for it.
LEMMA WriteOne ==
  ASSUME MetricsInv, NEW s \in Segs, NEW f \in Fields, NEW n \in Values(f), n \in Int,
         Word(n) \in Words, shm[s] = "live",
         net' = [net EXCEPT ![s][f] = n],
         mem' = [mem EXCEPT ![s][Offset(f)] = Word(n)]
  PROVE  /\ mem' \in [Segs -> [Offsets -> Words]] /\ net' \in [Segs -> [Fields -> Int]]
         /\ \A t \in Segs, g \in Fields : net'[t][g] \in Values(g)
         /\ shm' = shm => WordsRight'
<1>1. /\ mem \in [Segs -> [Offsets -> Words]] /\ net \in [Segs -> [Fields -> Int]]
      /\ \A t \in Segs, g \in Fields : net[t][g] \in Values(g)
  BY DEF MetricsInv, MetricsTypeOK
<1>2. \A g \in Fields : Offset(g) \in Offsets /\ (Offset(g) = Offset(f) => g = f)
  BY OffsetsApart
<1>3. mem' \in [Segs -> [Offsets -> Words]] /\ net' \in [Segs -> [Fields -> Int]]
  BY <1>1, <1>2
<1>4. ASSUME NEW t \in Segs, NEW g \in Fields
      PROVE  /\ net'[t][g] = IF t = s /\ g = f THEN n ELSE net[t][g]
             /\ mem'[t][Offset(g)] = IF t = s /\ g = f THEN Word(n) ELSE mem[t][Offset(g)]
  BY <1>1, <1>2
<1>5. \A t \in Segs, g \in Fields : net'[t][g] \in Values(g)
  BY <1>1, <1>4
<1>6. ASSUME shm' = shm, NEW t \in Segs, NEW g \in Fields
      PROVE  mem'[t][Offset(g)] = Word(net'[t][g]) /\ (shm'[t] = "none" => net'[t][g] = 0)
  <2>1. mem[t][Offset(g)] = Word(net[t][g]) /\ (shm[t] = "none" => net[t][g] = 0)
    BY DEF MetricsInv, WordsRight
  <2> QED
    BY <1>4, <1>6, <2>1
<1> QED
  BY <1>3, <1>5, <1>6 DEF WordsRight

\* Steps of the writer do not concern what the reader knows.
LEMMA WriterStep ==
  ASSUME MetricsInv,
         \/ \E s \in Segs : Publish(s) \/ Retire(s)
         \/ \E s \in Segs, f \in Fields, n \in {-1, 1} : Change(s, f, n)
         \/ \E s \in Segs, f \in Fields, w \in Stored : Store(s, f, w)
  PROVE  MetricsInv'
<1>1. UNCHANGED reader
  BY DEF Publish, Retire, Change, Store
<1>2. Handles' /\ Mapped' /\ Updating'
  BY <1>1 DEF reader, MetricsInv, Handles, Mapped, Updating, Taken
<1>3. \A f \in Fields : Offset(f) \in Offsets
  BY OffsetsApart
<1>4. /\ mem \in [Segs -> [Offsets -> Words]] /\ net \in [Segs -> [Fields -> Int]]
      /\ \A t \in Segs, g \in Fields : net[t][g] \in Values(g)
  BY DEF MetricsInv, MetricsTypeOK
<1>5. ASSUME shm' \in [Segs -> {"none", "live", "gone"}],
             mem' \in [Segs -> [Offsets -> Words]], net' \in [Segs -> [Fields -> Int]],
             \A t \in Segs, g \in Fields : net'[t][g] \in Values(g), WordsRight'
      PROVE  MetricsInv'
  BY <1>1, <1>2, <1>5 DEF reader, MetricsInv, MetricsTypeOK
<1>6. ASSUME NEW s \in Segs, Publish(s) PROVE MetricsInv'
  <2>1. /\ shm[s] = "none" /\ shm' = [shm EXCEPT ![s] = "live"] /\ net' = net
        /\ mem' = [mem EXCEPT ![s] = [o \in Offsets |-> 0]]
    BY <1>6 DEF Publish
  <2>2. shm' \in [Segs -> {"none", "live", "gone"}] /\ shm \in [Segs -> {"none", "live", "gone"}]
    BY <2>1 DEF MetricsInv, MetricsTypeOK
  <2>3. [o \in Offsets |-> 0] \in [Offsets -> Words]
    <3>1. 0 \in Words
      BY HalfAssumption DEF Words
    <3> QED
      BY <3>1
  <2>4. mem' \in [Segs -> [Offsets -> Words]]
    BY <1>4, <2>1, <2>3
  <2>5. WordsRight'
    <3> SUFFICES ASSUME NEW t \in Segs, NEW g \in Fields
                 PROVE  mem'[t][Offset(g)] = Word(net'[t][g]) /\ (shm'[t] = "none" => net'[t][g] = 0)
      BY DEF WordsRight
    <3>1. mem[t][Offset(g)] = Word(net[t][g]) /\ (shm[t] = "none" => net[t][g] = 0)
      BY DEF MetricsInv, WordsRight
    <3>2. CASE t = s
      BY <1>3, <1>4, <2>1, <2>2, <3>1, <3>2 DEF Word
    <3>3. CASE t # s
      BY <1>4, <2>1, <2>2, <3>1, <3>3
    <3> QED
      BY <3>2, <3>3
  <2> QED
    BY <1>4, <1>5, <2>1, <2>2, <2>4, <2>5
<1>7. ASSUME NEW s \in Segs, Retire(s) PROVE MetricsInv'
  <2>1. shm' \in [Segs -> {"none", "live", "gone"}] /\ net' = net /\ mem' = mem
    BY <1>7 DEF Retire, MetricsInv, MetricsTypeOK
  <2>2. \A t \in Segs : shm'[t] = "none" => shm[t] = "none"
    BY <1>7 DEF Retire, MetricsInv, MetricsTypeOK
  <2>3. WordsRight'
    BY <2>1, <2>2 DEF MetricsInv, WordsRight
  <2> QED
    BY <1>4, <1>5, <2>1, <2>3
<1>8. ASSUME NEW s \in Segs, NEW f \in Fields, NEW n \in {-1, 1}, Change(s, f, n)
      PROVE  MetricsInv'
  <2>1. /\ Kind[f] # "bitmap" /\ net[s][f] + n \in -Bound..Bound
        /\ net' = [net EXCEPT ![s][f] = net[s][f] + n]
        /\ mem' = [mem EXCEPT ![s][Offset(f)] = (mem[s][Offset(f)] + n) % (2 * Half)]
        /\ shm[s] = "live" /\ shm' = shm
    BY <1>4, <1>8 DEF Change
  <2>2. Values(f) = -Bound..Bound /\ net[s][f] \in Values(f)
    BY <1>4, <2>1 DEF Values
  <2>3. mem[s][Offset(f)] = Word(net[s][f])
    BY DEF MetricsInv, WordsRight
  <2>4. mem' = [mem EXCEPT ![s][Offset(f)] = Word(net[s][f] + n)] /\ Word(net[s][f] + n) \in Words
    BY <2>1, <2>2, <2>3, WordChanges
  <2>5. PICK m \in Values(f) : m = net[s][f] + n
    BY <2>1, <2>2
  <2>6. m \in Int
    BY <2>2, HalfAssumption
  <2>7. /\ mem' \in [Segs -> [Offsets -> Words]] /\ net' \in [Segs -> [Fields -> Int]]
        /\ \A t \in Segs, g \in Fields : net'[t][g] \in Values(g)
        /\ WordsRight'
    BY <2>1, <2>4, <2>5, <2>6, WriteOne
  <2> QED
    BY <1>5, <2>1, <2>7 DEF MetricsInv, MetricsTypeOK
<1>9. ASSUME NEW s \in Segs, NEW f \in Fields, NEW w \in Stored, Store(s, f, w)
      PROVE  MetricsInv'
  <2>1. /\ Kind[f] = "bitmap" /\ net' = [net EXCEPT ![s][f] = w]
        /\ mem' = [mem EXCEPT ![s][Offset(f)] = w] /\ shm[s] = "live" /\ shm' = shm
    BY <1>9 DEF Store
  <2>2. w \in Words /\ w \in Int /\ Word(w) = w /\ w \in Values(f)
    BY <2>1, StoredAssumption, HalfAssumption DEF Words, Word, Values
  <2>3. /\ mem' \in [Segs -> [Offsets -> Words]] /\ net' \in [Segs -> [Fields -> Int]]
        /\ \A t \in Segs, g \in Fields : net'[t][g] \in Values(g)
        /\ WordsRight'
    BY <2>1, <2>2, WriteOne
  <2> QED
    BY <1>5, <2>1, <2>3 DEF MetricsInv, MetricsTypeOK
<1> QED
  BY <1>6, <1>7, <1>8, <1>9

\* A segment is unmapped, in an update or in a drop.
LEMMA Unmapped ==
  ASSUME MetricsInv, NEW s \in Taken, phase # "gone", DelPoints(mapped[s]),
         mapped' = [mapped EXCEPT ![s] = NULL]
  PROVE  /\ Mapped' /\ Taken' = Taken \ {s} /\ \A t \in Taken' : mapped'[t] = mapped[t]
         /\ mapped' \in [Segs -> Bases \cup {NULL}] /\ deleted' \subseteq AllKeys
         /\ deleted' = deleted \cup Keys(mapped[s])
         /\ DOMAIN points' \subseteq AllKeys
         /\ \A k \in DOMAIN points' : points'[k] \in
              [seg : Segs, index : Offsets, semantics : {"counter", "gauge", "bitmap"}]
         /\ \A t \in Taken' : Keys(mapped[t]) \cap Keys(mapped[s]) = {}
<1> DEFINE b == mapped[s]
<1>1. /\ s \in Segs /\ b \in Bases /\ mapped \in [Segs -> Bases \cup {NULL}]
      /\ deleted \subseteq AllKeys /\ DOMAIN points \subseteq AllKeys
      /\ \A k \in DOMAIN points : points[k] \in
           [seg : Segs, index : Offsets, semantics : {"counter", "gauge", "bitmap"}]
  BY DEF MetricsInv, MetricsTypeOK, Taken
<1>2. Keys(b) \subseteq AllKeys
  BY <1>1, KeysAre
<1>3. Taken' = Taken \ {s} /\ \A t \in Taken' : mapped'[t] = mapped[t]
  BY <1>1 DEF Taken
<1>4. /\ \A t, u \in Taken : mapped[t] = mapped[u] => t = u
      /\ \A t \in Taken, f \in Fields : /\ <<mapped[t], f>> \in DOMAIN points
                                        /\ points[<<mapped[t], f>>] = Metric(t, f)
      /\ \A k \in DOMAIN points : \E t \in Taken : k \in Keys(mapped[t])
      /\ faults = {}
  BY DEF MetricsInv, Mapped
<1>5. /\ points' = [k \in DOMAIN points \ Keys(b) |-> points[k]]
      /\ deleted' = deleted \cup Keys(b)
  BY DEF DelPoints
<1>6. Keys(b) \subseteq DOMAIN points
  BY <1>4, KeysAre
<1>7. faults' = {}
  BY <1>4, <1>6 DEF DelPoints, Uses, MetricsInv, Handles
<1>8. \A t \in Taken' : Keys(mapped[t]) \cap Keys(b) = {}
  BY <1>3, <1>4, KeysAre
<1> HIDE DEF b
<1>9. Mapped'
  <2>1. \A t, u \in Taken' : mapped'[t] = mapped'[u] => t = u
    BY <1>3, <1>4
  <2>2. ASSUME NEW t \in Taken', NEW f \in Fields
        PROVE  /\ <<mapped'[t], f>> \in DOMAIN points'
               /\ points'[<<mapped'[t], f>>] = Metric(t, f)
    <3>1. <<mapped[t], f>> \in Keys(mapped[t]) /\ t \in Taken /\ mapped'[t] = mapped[t]
      BY <1>3, KeysAre
    <3>2. <<mapped[t], f>> \in DOMAIN points \ Keys(b)
      BY <1>4, <1>8, <3>1
    <3> QED
      BY <1>4, <1>5, <3>1, <3>2
  <2>3. ASSUME NEW k \in DOMAIN points' PROVE \E t \in Taken' : k \in Keys(mapped'[t])
    <3>1. k \in DOMAIN points /\ k \notin Keys(b)
      BY <1>5
    <3>2. PICK t \in Taken : k \in Keys(mapped[t])
      BY <1>4, <3>1
    <3>3. t \in Taken'
      BY <1>3, <3>1, <3>2 DEF b
    <3> QED
      BY <1>3, <3>2, <3>3
  <2> QED
    BY <1>7, <2>1, <2>2, <2>3 DEF Mapped, Taken
<1>10. mapped' \in [Segs -> Bases \cup {NULL}]
  BY <1>1
<1> QED
  BY <1>1, <1>2, <1>3, <1>5, <1>8, <1>9, <1>10 DEF b

LEMMA UnmapStep == ASSUME MetricsInv, NEW s \in Segs, Unmap(s) PROVE MetricsInv'
<1>1. /\ s \in Taken /\ s \notin fresh /\ phase = "iter" /\ DelPoints(mapped[s])
      /\ mapped' = [mapped EXCEPT ![s] = NULL]
      /\ UNCHANGED <<writer, phase, vsc, vsm, internal, fresh, added, seen>>
  BY DEF Unmap, Taken
<1>2. /\ Mapped' /\ Taken' = Taken \ {s} /\ \A t \in Taken' : mapped'[t] = mapped[t]
      /\ mapped' \in [Segs -> Bases \cup {NULL}] /\ deleted' \subseteq AllKeys
      /\ deleted' = deleted \cup Keys(mapped[s])
      /\ DOMAIN points' \subseteq AllKeys
      /\ \A k \in DOMAIN points' : points'[k] \in
           [seg : Segs, index : Offsets, semantics : {"counter", "gauge", "bitmap"}]
      /\ \A t \in Taken' : Keys(mapped[t]) \cap Keys(mapped[s]) = {}
  BY <1>1, Unmapped
<1>3. MetricsTypeOK'
  BY <1>1, <1>2 DEF writer, MetricsInv, MetricsTypeOK, Mapped
<1>4. WordsRight' /\ Handles'
  BY <1>1 DEF writer, MetricsInv, WordsRight, Handles
<1>5. Updating'
  <2>1. fresh' \subseteq Taken' /\ phase' = "iter" /\ seen' = [k \in DOMAIN seen' |-> seen'[k]]
    BY <1>1, <1>2 DEF MetricsInv, Updating
  <2>2. /\ \A k \in added' : \E t \in fresh' : k \in Keys(mapped'[t])
        /\ \A t \in fresh' : Keys(mapped'[t]) \subseteq added'
    BY <1>1, <1>2, <2>1 DEF MetricsInv, Updating
  <2>3. ASSUME NEW t \in Taken' \ fresh', NEW k \in Keys(mapped'[t])
        PROVE  k \in DOMAIN seen' /\ k \notin deleted' /\ seen'[k] = t
    <3>1. t \in Taken \ fresh /\ k \in Keys(mapped[t]) /\ k \notin Keys(mapped[s])
      BY <1>1, <1>2
    <3>2. k \in DOMAIN seen /\ k \notin deleted /\ seen[k] = t
      BY <1>1, <3>1 DEF MetricsInv, Updating
    <3> QED
      BY <1>1, <1>2, <3>1, <3>2
  <2>4. ASSUME NEW k \in DOMAIN seen' \ deleted'
        PROVE  \E t \in Taken' \ fresh' : k \in Keys(mapped'[t])
    <3>1. k \in DOMAIN seen \ deleted /\ k \notin Keys(mapped[s])
      BY <1>1, <1>2
    <3>2. PICK t \in Taken \ fresh : k \in Keys(mapped[t])
      BY <1>1, <3>1 DEF MetricsInv, Updating
    <3>3. t \in Taken' \ fresh' /\ mapped'[t] = mapped[t]
      BY <1>1, <1>2, <3>1, <3>2
    <3> QED
      BY <3>2, <3>3
  <2> QED
    BY <2>1, <2>2, <2>3, <2>4 DEF Updating
<1> QED
  BY <1>2, <1>3, <1>4, <1>5 DEF MetricsInv
\* A segment is mapped, at an address that no mapped segment has.
LEMMA MapStep ==
  ASSUME MetricsInv, NEW s \in Segs, NEW base \in Bases, Map(s, base)
  PROVE  MetricsInv'
<1>1. /\ phase = "iter" /\ s \notin Taken /\ \A t \in Segs : mapped[t] # base
      /\ AddPoints(s, base) /\ mapped' = [mapped EXCEPT ![s] = base]
      /\ fresh' = fresh \cup {s}
      /\ UNCHANGED <<writer, phase, vsc, vsm, internal, deleted, seen>>
  BY DEF Map, Taken
<1>2. /\ mapped \in [Segs -> Bases \cup {NULL}] /\ added \subseteq AllKeys
      /\ DOMAIN points \subseteq AllKeys
      /\ \A k \in DOMAIN points : points[k] \in
           [seg : Segs, index : Offsets, semantics : {"counter", "gauge", "bitmap"}]
  BY DEF MetricsInv, MetricsTypeOK
<1>3. /\ Taken' = Taken \cup {s} /\ mapped'[s] = base
      /\ \A t \in Taken : mapped'[t] = mapped[t] /\ t # s
      /\ mapped' \in [Segs -> Bases \cup {NULL}]
  BY <1>1, <1>2, NullAssumption DEF Taken
<1>4. /\ \A t, u \in Taken : mapped[t] = mapped[u] => t = u
      /\ \A t \in Taken, f \in Fields : /\ <<mapped[t], f>> \in DOMAIN points
                                        /\ points[<<mapped[t], f>>] = Metric(t, f)
      /\ \A k \in DOMAIN points : \E t \in Taken : k \in Keys(mapped[t])
      /\ faults = {}
  BY DEF MetricsInv, Mapped
<1>5. /\ points' = [k \in DOMAIN points \cup Keys(base) |->
                     IF k \in Keys(base) THEN Metric(s, k[2]) ELSE points[k]]
      /\ added' = added \cup Keys(base)
  BY <1>1 DEF AddPoints
<1>6. \A t \in Taken : Keys(mapped[t]) \cap Keys(base) = {}
  BY <1>1, KeysAre DEF Taken
<1>7. faults' = {}
  <2>1. Keys(base) \cap DOMAIN points = {}
    BY <1>4, <1>6
  <2> QED
    BY <1>1, <1>4, <2>1 DEF AddPoints, Uses, MetricsInv, Handles
<1>8. Mapped'
  <2>1. \A t, u \in Taken' : mapped'[t] = mapped'[u] => t = u
    BY <1>1, <1>3, <1>4 DEF Taken
  <2>2. ASSUME NEW t \in Taken', NEW f \in Fields
        PROVE  /\ <<mapped'[t], f>> \in DOMAIN points'
               /\ points'[<<mapped'[t], f>>] = Metric(t, f)
    <3>1. CASE t = s
      <4>1. <<base, f>> \in Keys(base) /\ <<base, f>>[2] = f
        BY KeysAre
      <4> QED
        BY <1>3, <1>5, <3>1, <4>1
    <3>2. CASE t # s
      <4>1. t \in Taken /\ mapped'[t] = mapped[t] /\ <<mapped[t], f>> \in Keys(mapped[t])
        BY <1>3, <3>2, KeysAre
      <4>2. <<mapped[t], f>> \in DOMAIN points /\ <<mapped[t], f>> \notin Keys(base)
        BY <1>4, <1>6, <4>1
      <4> QED
        BY <1>4, <1>5, <4>1, <4>2
    <3> QED
      BY <3>1, <3>2
  <2>3. ASSUME NEW k \in DOMAIN points' PROVE \E t \in Taken' : k \in Keys(mapped'[t])
    BY <1>3, <1>4, <1>5
  <2> QED
    BY <1>7, <2>1, <2>2, <2>3 DEF Mapped, Taken
<1>9. MetricsTypeOK'
  <2>1. Keys(base) \subseteq AllKeys
    BY KeysAre
  <2>2. ASSUME NEW k \in DOMAIN points'
        PROVE  points'[k] \in [seg : Segs, index : Offsets, semantics : {"counter", "gauge", "bitmap"}]
    <3>1. CASE k \in Keys(base)
      <4>1. k[2] \in Fields
        BY <3>1, KeysAre
      <4>2. /\ Metric(s, k[2]) = [seg |-> s, index |-> Offset(k[2]), semantics |-> Kind[k[2]]]
            /\ Kind[k[2]] \in {"counter", "gauge", "bitmap"} /\ Offset(k[2]) \in Offsets
        BY <4>1, MetricIs, OffsetsApart
      <4>3. points'[k] = Metric(s, k[2])
        BY <1>5, <3>1
      <4> QED
        BY <4>2, <4>3
    <3>2. CASE k \notin Keys(base)
      BY <1>2, <1>5, <3>2
    <3> QED
      BY <3>1, <3>2
  <2>3. added' \subseteq AllKeys /\ DOMAIN points' \subseteq AllKeys /\ fresh' \subseteq Segs
    BY <1>1, <1>2, <1>5, <2>1 DEF MetricsInv, MetricsTypeOK
  <2> QED
    BY <1>1, <1>3, <1>7, <2>2, <2>3 DEF writer, MetricsInv, MetricsTypeOK
<1>10. WordsRight' /\ Handles'
  BY <1>1 DEF writer, MetricsInv, WordsRight, Handles
<1>11. Updating'
  <2>1. fresh' \subseteq Taken' /\ phase' = "iter" /\ seen' = [k \in DOMAIN seen' |-> seen'[k]]
    BY <1>1, <1>3 DEF MetricsInv, Updating
  <2>2. /\ \A k \in added : \E t \in fresh : k \in Keys(mapped[t])
        /\ \A t \in fresh : Keys(mapped[t]) \subseteq added
        /\ fresh \subseteq Taken
    BY <1>1 DEF MetricsInv, Updating
  <2>3. \A k \in added' : \E t \in fresh' : k \in Keys(mapped'[t])
    BY <1>1, <1>3, <1>5, <2>2
  <2>4. \A t \in fresh' : Keys(mapped'[t]) \subseteq added'
    BY <1>1, <1>3, <1>5, <2>2
  <2>5. \A t \in Taken' \ fresh' : t \in Taken \ fresh /\ mapped'[t] = mapped[t]
    BY <1>1, <1>3
  <2>6. ASSUME NEW t \in Taken' \ fresh', NEW k \in Keys(mapped'[t])
        PROVE  k \in DOMAIN seen' /\ k \notin deleted' /\ seen'[k] = t
    BY <1>1, <2>5 DEF MetricsInv, Updating
  <2>7. ASSUME NEW k \in DOMAIN seen' \ deleted'
        PROVE  \E t \in Taken' \ fresh' : k \in Keys(mapped'[t])
    <3>1. PICK t \in Taken \ fresh : k \in Keys(mapped[t])
      BY <1>1 DEF MetricsInv, Updating
    <3>2. t \in Taken' \ fresh' /\ mapped'[t] = mapped[t]
      BY <1>1, <1>3, <3>1
    <3> QED
      BY <3>1, <3>2
  <2> QED
    BY <2>1, <2>3, <2>4, <2>6, <2>7 DEF Updating
<1> QED
  BY <1>8, <1>9, <1>10, <1>11 DEF MetricsInv

\* After an update what the client has is what the map has.
LEMMA FollowIs ==
  ASSUME MetricsInv, phase \notin {"drop", "gone"}
  PROVE  Follow(added, deleted) = [k \in DOMAIN points |-> points[k].seg]
<1>1. /\ \A k \in added : \E s \in fresh : k \in Keys(mapped[s])
      /\ \A s \in fresh : Keys(mapped[s]) \subseteq added
      /\ \A s \in Taken \ fresh : \A k \in Keys(mapped[s]) :
           k \in DOMAIN seen /\ k \notin deleted /\ seen[k] = s
      /\ \A k \in DOMAIN seen \ deleted : \E s \in Taken \ fresh : k \in Keys(mapped[s])
      /\ fresh \subseteq Taken
  BY DEF MetricsInv, Updating
<1>2. /\ \A s \in Taken : \A k \in Keys(mapped[s]) : k \in DOMAIN points /\ points[k].seg = s
      /\ \A k \in DOMAIN points : \E s \in Taken : k \in Keys(mapped[s])
  <2>1. ASSUME NEW s \in Taken, NEW k \in Keys(mapped[s])
        PROVE  k \in DOMAIN points /\ points[k].seg = s
    <3>1. k[2] \in Fields /\ k = <<mapped[s], k[2]>>
      BY KeysAre
    <3>2. k \in DOMAIN points /\ points[k] = Metric(s, k[2])
      BY <3>1 DEF MetricsInv, Mapped
    <3> QED
      BY <3>2 DEF Metric
  <2> QED
    BY <2>1 DEF MetricsInv, Mapped
<1>3. (DOMAIN seen \ deleted) \cup added = DOMAIN points
  <2>1. \A k \in added : k \in DOMAIN points
    BY <1>1, <1>2
  <2>2. \A k \in DOMAIN seen \ deleted : k \in DOMAIN points
    BY <1>1, <1>2
  <2>3. ASSUME NEW k \in DOMAIN points PROVE k \in (DOMAIN seen \ deleted) \cup added
    <3>1. PICK s \in Taken : k \in Keys(mapped[s])
      BY <1>2
    <3>2. CASE s \in fresh
      BY <1>1, <3>1, <3>2
    <3>3. CASE s \notin fresh
      BY <1>1, <3>1, <3>3
    <3> QED
      BY <3>2, <3>3
  <2> QED
    BY <2>1, <2>2, <2>3
<1>4. ASSUME NEW k \in DOMAIN points
      PROVE  (IF k \in added THEN (IF k \in DOMAIN points THEN points[k].seg ELSE NULL) ELSE seen[k])
               = points[k].seg
  <2>1. PICK s \in Taken : k \in Keys(mapped[s])
    BY <1>2
  <2>2. points[k].seg = s
    BY <1>2, <2>1
  <2>3. CASE s \in fresh
    BY <1>1, <2>1, <2>3
  <2>4. CASE s \notin fresh
    BY <1>1, <2>1, <2>2, <2>4
  <2> QED
    BY <2>3, <2>4
<1> QED
  BY <1>3, <1>4 DEF Follow
LEMMA UpdateEndStep == ASSUME MetricsInv, UpdateEnd PROVE MetricsInv'
<1>1. /\ phase = "iter" /\ phase' = "idle" /\ seen' = Follow(added, deleted)
      /\ added' = {} /\ deleted' = {} /\ fresh' = {}
      /\ UNCHANGED <<writer, vsc, vsm, internal, mapped, points, faults>>
  BY DEF UpdateEnd
<1>2. seen' = [k \in DOMAIN points |-> points[k].seg]
  BY <1>1, FollowIs
<1>3. Mapped' /\ Taken' = Taken
  BY <1>1 DEF MetricsInv, Mapped, Taken
<1>4. MetricsTypeOK'
  BY <1>1, <1>2 DEF writer, MetricsInv, MetricsTypeOK
<1>5. WordsRight' /\ Handles'
  BY <1>1 DEF writer, MetricsInv, WordsRight, Handles
<1>6. Updating'
  <2>1. ASSUME NEW s \in Taken', NEW k \in Keys(mapped'[s])
        PROVE  k \in DOMAIN seen' /\ seen'[k] = s
    <3>1. s \in Taken /\ k[2] \in Fields /\ k = <<mapped[s], k[2]>>
      BY <1>1, <1>3, KeysAre
    <3>2. k \in DOMAIN points /\ points[k] = Metric(s, k[2])
      BY <3>1 DEF MetricsInv, Mapped
    <3> QED
      BY <1>2, <3>2 DEF Metric
  <2>2. ASSUME NEW k \in DOMAIN seen' PROVE \E s \in Taken' : k \in Keys(mapped'[s])
    <3>1. PICK s \in Taken : k \in Keys(mapped[s])
      BY <1>2 DEF MetricsInv, Mapped
    <3> QED
      BY <1>1, <1>3, <3>1
  <2>3. seen' = [k \in DOMAIN seen' |-> seen'[k]]
    BY <1>2
  <2> QED
    BY <1>1, <2>1, <2>2, <2>3 DEF Updating
<1> QED
  BY <1>3, <1>4, <1>5, <1>6 DEF MetricsInv

LEMMA DropUnmapStep == ASSUME MetricsInv, NEW s \in Segs, DropUnmap(s) PROVE MetricsInv'
<1>1. /\ s \in Taken /\ phase = "drop" /\ DelPoints(mapped[s])
      /\ mapped' = [mapped EXCEPT ![s] = NULL]
      /\ UNCHANGED <<writer, phase, vsc, vsm, internal, fresh, added, seen>>
  BY DEF DropUnmap, Taken
<1>2. /\ Mapped' /\ Taken' = Taken \ {s} /\ mapped' \in [Segs -> Bases \cup {NULL}]
      /\ deleted' \subseteq AllKeys /\ DOMAIN points' \subseteq AllKeys
      /\ \A k \in DOMAIN points' : points'[k] \in
           [seg : Segs, index : Offsets, semantics : {"counter", "gauge", "bitmap"}]
  BY <1>1, Unmapped
<1>3. MetricsTypeOK'
  BY <1>1, <1>2 DEF writer, MetricsInv, MetricsTypeOK, Mapped
<1>4. WordsRight' /\ Handles'
  BY <1>1 DEF writer, MetricsInv, WordsRight, Handles
<1>5. Updating'
  BY <1>1, <1>2 DEF MetricsInv, Updating
<1> QED
  BY <1>2, <1>3, <1>4, <1>5 DEF MetricsInv

\* The steps of the reader's life.
LEMMA LifeStep ==
  ASSUME MetricsInv, Build \/ BuilderDropped \/ Update \/ Drop \/ Dropped
  PROVE  MetricsInv'
<1>1. /\ phase # "gone" /\ vsc = "live" /\ vsm = "live" /\ internal = "live"
  BY DEF Build, BuilderDropped, Update, Drop, Dropped, MetricsInv, MetricsTypeOK, Handles
<1>2. /\ UNCHANGED <<writer, vsm, mapped, points, fresh, added, deleted, seen, faults>>
      /\ phase' \in {"idle", "iter", "drop", "gone"}
      /\ vsc' \in {"live", "destroyed"} /\ internal' \in {"live", "freed"}
      /\ phase' # "gone" => vsc' = "live" /\ internal' = "live"
      /\ phase # "iter" /\ (phase' \in {"idle", "iter"} => phase \in {"builder", "idle"})
  BY <1>1 DEF Build, BuilderDropped, Update, Drop, Dropped, MetricsInv, Mapped
<1>3. MetricsTypeOK'
  BY <1>2 DEF writer, MetricsInv, MetricsTypeOK
<1>4. WordsRight' /\ Handles' /\ Mapped'
  BY <1>2 DEF writer, MetricsInv, WordsRight, Handles, Mapped, Taken
<1>5. Updating'
  BY <1>2 DEF MetricsInv, Updating, Taken
<1> QED
  BY <1>3, <1>4, <1>5 DEF MetricsInv

LEMMA MetricsStart == ASSUME MetricsInit PROVE MetricsInv
<1>1. /\ shm = [s \in Segs |-> "none"] /\ mem = [s \in Segs |-> [o \in Offsets |-> 0]]
      /\ net = [s \in Segs |-> [f \in Fields |-> 0]] /\ mapped = [s \in Segs |-> NULL]
      /\ phase = "builder" /\ vsc = "live" /\ vsm = "live" /\ internal = "live"
      /\ fresh = {} /\ points = <<>> /\ added = {} /\ deleted = {} /\ seen = <<>> /\ faults = {}
  BY DEF MetricsInit
<1>2. DOMAIN points = {} /\ DOMAIN seen = {} /\ seen = [k \in DOMAIN seen |-> seen[k]]
  BY <1>1
<1>3. MetricsTypeOK
  <2>1. 0 \in Words /\ \A f \in Fields : 0 \in Values(f)
    BY HalfAssumption DEF Words, Values
  <2>2. /\ mem \in [Segs -> [Offsets -> Words]] /\ net \in [Segs -> [Fields -> Int]]
        /\ \A s \in Segs, f \in Fields : net[s][f] \in Values(f)
    BY <1>1, <2>1
  <2> QED
    BY <1>1, <1>2, <2>2 DEF MetricsTypeOK
<1>4. WordsRight
  BY <1>1, OffsetsApart DEF WordsRight, Word
<1>5. Taken = {}
  BY <1>1 DEF Taken
<1>6. Handles /\ Mapped /\ Updating
  BY <1>1, <1>2, <1>5 DEF Handles, Mapped, Updating
<1> QED
  BY <1>3, <1>4, <1>6 DEF MetricsInv

LEMMA MetricsInvariance == MetricsSpec => []MetricsInv
<1>1. MetricsInit => MetricsInv
  BY MetricsStart
<1>2. ASSUME MetricsInv, [MetricsNext]_metricsVars PROVE MetricsInv'
  <2>1. CASE \/ \E s \in Segs : Publish(s) \/ Retire(s)
             \/ \E s \in Segs, f \in Fields, n \in {-1, 1} : Change(s, f, n)
             \/ \E s \in Segs, f \in Fields, w \in Stored : Store(s, f, w)
    BY <1>2, <2>1, WriterStep
  <2>2. CASE Build \/ BuilderDropped \/ Update \/ Drop \/ Dropped
    BY <1>2, <2>2, LifeStep
  <2>3. CASE UpdateEnd
    BY <1>2, <2>3, UpdateEndStep
  <2>4. ASSUME NEW s \in Segs, Unmap(s) \/ DropUnmap(s) \/ \E base \in Bases : Map(s, base)
        PROVE  MetricsInv'
    BY <1>2, <2>4, UnmapStep, DropUnmapStep, MapStep
  <2>5. CASE UNCHANGED metricsVars
    BY <1>2, <2>5 DEF metricsVars, writer, reader, MetricsInv, MetricsTypeOK, WordsRight, Handles,
                      Mapped, Updating, Taken
  <2> QED
    BY <1>2, <2>1, <2>2, <2>3, <2>4, <2>5 DEF MetricsNext
<1> QED
  BY <1>1, <1>2, PTL DEF MetricsSpec

\* The variables of the counters and of their reader have their types: a word stays
\* within an AtomicU64.
THEOREM MetricsTyped == MetricsSpec => []MetricsTypeOK
<1>1. MetricsInv => MetricsTypeOK
  BY DEF MetricsInv
<1> QED
  BY <1>1, MetricsInvariance, PTL

\* The reader's map has exactly the points of the segments that are mapped, under
\* addresses that may come back, and nothing is used after it is gone.
THEOREM MapExact == MetricsSpec => []PointsExact
<1>1. MetricsInv => PointsExact
  <2> SUFFICES ASSUME MetricsInv PROVE PointsExact
    OBVIOUS
  <2>1. ASSUME NEW s \in Taken, NEW k \in Keys(mapped[s])
        PROVE  k \in DOMAIN points /\ points[k].seg = s
    <3>1. k[2] \in Fields /\ k = <<mapped[s], k[2]>>
      BY KeysAre
    <3>2. k \in DOMAIN points /\ points[k] = Metric(s, k[2])
      BY <3>1 DEF MetricsInv, Mapped
    <3> QED
      BY <3>2 DEF Metric
  <2>2. \A k \in DOMAIN points : \E s \in Taken : k \in Keys(mapped[s])
    BY DEF MetricsInv, Mapped
  <2>3. DOMAIN points = UNION {Keys(mapped[s]) : s \in Taken}
    <3>1. ASSUME NEW k \in UNION {Keys(mapped[s]) : s \in Taken} PROVE k \in DOMAIN points
      <4>1. PICK s \in Taken : k \in Keys(mapped[s])
        OBVIOUS
      <4> QED
        BY <2>1, <4>1
    <3>2. ASSUME NEW k \in DOMAIN points PROVE k \in UNION {Keys(mapped[s]) : s \in Taken}
      BY <2>2
    <3> QED
      BY <3>1, <3>2
  <2> QED
    BY <2>1, <2>3 DEF PointsExact, Taken, MetricsInv, Mapped
<1> QED
  BY <1>1, MetricsInvariance, PTL

\* A client that follows the two vectors of each update knows what every key is.
THEOREM ClientsFollow == MetricsSpec => []ClientExact
<1>1. MetricsInv => ClientExact
  <2> SUFFICES ASSUME MetricsInv, phase = "idle"
               PROVE  seen = [k \in DOMAIN points |-> points[k].seg]
    BY DEF ClientExact
  <2>1. added = {} /\ deleted = {} /\ seen = [k \in DOMAIN seen |-> seen[k]]
    BY DEF MetricsInv, Updating
  <2>2. Follow(added, deleted) = seen
    BY <2>1 DEF Follow
  <2> QED
    BY <2>2, FollowIs
<1> QED
  BY <1>1, MetricsInvariance, PTL

\* What the reader shows under a field's name is the field's value, through the
\* index that generate_metrics counts, which is the offset of the field in a struct
\* of AtomicU64s, the one type that the macro accepts: the clamped value of a
\* counter or a gauge that stays within half the range of a u64, and the raw value
\* of a bitmap with any bits.
THEOREM ReadersRight == MetricsSpec => []ValuesRight
<1>1. MetricsInv => ValuesRight
  <2> SUFFICES ASSUME MetricsInv, NEW k \in DOMAIN points
               PROVE  /\ points[k].semantics = Kind[k[2]]
                      /\ IF Kind[k[2]] = "bitmap" THEN Raw(points[k]) = net[points[k].seg][k[2]]
                         ELSE Clamped(points[k]) = IF net[points[k].seg][k[2]] < 0 THEN 0
                                                   ELSE net[points[k].seg][k[2]]
    BY DEF ValuesRight
  <2>1. PICK s \in Taken : k \in Keys(mapped[s])
    BY DEF MetricsInv, Mapped
  <2>2. s \in Segs /\ k[2] \in Fields /\ k = <<mapped[s], k[2]>>
    BY <2>1, KeysAre DEF Taken
  <2>3. points[k] = [seg |-> s, index |-> Offset(k[2]), semantics |-> Kind[k[2]]]
    BY <2>1, <2>2, MetricIs DEF MetricsInv, Mapped
  <2> DEFINE x == net[s][k[2]]
  <2>4. Raw(points[k]) = Word(x) /\ x \in Values(k[2])
    BY <2>2, <2>3 DEF Raw, MetricsInv, WordsRight, MetricsTypeOK
  <2> HIDE DEF x
  <2>5. Fits(x, k[2])
    BY <2>2, <2>4, WordFits
  <2>6. IF Kind[k[2]] = "bitmap" THEN Raw(points[k]) = x
        ELSE Clamped(points[k]) = IF x < 0 THEN 0 ELSE x
    BY <2>4, <2>5 DEF Clamped, Fits
  <2> QED
    BY <2>3, <2>6 DEF x
<1> QED
  BY <1>1, MetricsInvariance, PTL
=============================================================================
