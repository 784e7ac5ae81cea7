------------------------------ MODULE TestSlots ------------------------------
(***************************************************************************)
(* The counting semaphore that caps concurrent varnishtest processes       *)
(* inside one cargo test binary (varnish/src/varnishtest.rs).              *)
(*                                                                         *)
(* Every #[test] generated by run_vtc_tests! calls run_one_test, which     *)
(* holds a TestSlot while the varnishtest child runs.  The pub functions   *)
(* run_all_tests and run_varnish_test start the child without a slot: one  *)
(* caller of run_all_tests runs the files of its pattern that way, in the  *)
(* order of glob, beside the harness.                                      *)
(*                                                                         *)
(* `available' is only touched under the mutex, so one action stands for   *)
(* one critical section; Condvar::wait releases the mutex and sleeps in    *)
(* one step, and has to lock it again before it returns.                   *)
(***************************************************************************)
EXTENDS Naturals, FiniteSets, Sequences

CONSTANTS Tests,    \* the tests of the binary
          Globbed,  \* those run through run_all_tests, in glob's order
          Max,      \* MAX_CONCURRENT_TESTS
          Threads   \* worker threads of the test harness

ASSUME TestsAssumption   == IsFiniteSet(Tests)
ASSUME GlobbedAssumption == /\ Globbed \in Seq(Tests)
                            /\ \A i, j \in DOMAIN Globbed :
                                 Globbed[i] = Globbed[j] => i = j
ASSUME MaxAssumption     == Max \in Nat \ {0}
ASSUME ThreadsAssumption == Threads \in Nat \ {0}

VARIABLES available,   \* the Mutex<usize> of TEST_SLOTS
          pc,          \* where each test's thread is
          at,          \* run_all_tests: 0, then index in Globbed of its file
          failed,      \* run_all_tests: some file of the loop failed
          outcome      \* run_all_tests: what it has returned, if it has

caller == <<at, failed, outcome>>
vars   == <<available, pc, caller>>

Direct == {Globbed[i] : i \in DOMAIN Globbed}

In(S) == {t \in Tests : pc[t] \in S}

Waiting == In({"waiting"})            \* asleep in Condvar::wait
Woken   == In({"woken"})              \* notified, about to lock the mutex again
Running == In({"running"})            \* the varnishtest child is alive
Holders == In({"acquired", "running", "leaving"}) \ Direct

Init == /\ available = Max
        /\ pc = [t \in Tests |-> "queued"]
        /\ at = 0 /\ failed = FALSE /\ outcome = "none"

-----------------------------------------------------------------------------
(* The harness starts a test when a worker thread is free. *)
Start(t) ==
  /\ pc[t] = "queued"
  /\ t \notin Direct
  /\ Cardinality(In({"entering", "waiting", "woken", "acquired", "running", "leaving"})) < Threads
  /\ pc' = [pc EXCEPT ![t] = "entering"]
  /\ UNCHANGED available

(* Mutation: a woken thread takes a slot without looking again (if for while). *)
TakeUnchecked(t) ==
  /\ pc[t] \in {"entering", "woken"}
  /\ pc[t] = "entering" => available # 0
  /\ available' = IF available = 0 THEN 0 ELSE available - 1
  /\ pc' = [pc EXCEPT ![t] = "acquired"]

(* TestSlot::acquire, from lock() or from the return of wait(): take a slot. *)
Take(t) ==
  /\ pc[t] \in {"entering", "woken"}
  /\ available # 0
  /\ available' = available - 1
  /\ pc' = [pc EXCEPT ![t] = "acquired"]

(* TestSlot::acquire finds no slot and sleeps in Condvar::wait. *)
Sleep(t) ==
  /\ pc[t] \in {"entering", "woken"}
  /\ available = 0
  /\ pc' = [pc EXCEPT ![t] = "waiting"]
  /\ UNCHANGED available

(* Condvar::wait may return without a notification. *)
SpuriousWakeup(t) ==
  /\ pc[t] = "waiting"
  /\ pc' = [pc EXCEPT ![t] = "woken"]
  /\ UNCHANGED available

(* find_vmod_lib: without the library the `?' leaves before any child runs. *)
LibFound(t) ==
  /\ pc[t] = "acquired"
  /\ pc' = [pc EXCEPT ![t] = "running"]
  /\ UNCHANGED available

\* Mutation: the slot is not a guard, so the early return leaks it.
LibMissingKeeps(t) ==
  /\ pc[t] = "acquired"
  /\ pc' = [pc EXCEPT ![t] = "done"]
  /\ UNCHANGED available

LibMissing(t) ==
  /\ pc[t] = "acquired"
  /\ pc' = [pc EXCEPT ![t] = "leaving"]
  /\ UNCHANGED available

(* The child exits (VARNISHTEST_DURATION bounds its life) or cannot be      *)
(* spawned; either way run_one_test returns and drops its slot.             *)
Exit(t) ==
  /\ pc[t] = "running"
  /\ t \notin Direct
  /\ pc' = [pc EXCEPT ![t] = "leaving"]
  /\ UNCHANGED available

(* Mutation: the slot is returned without a notification. *)
ReleaseSilently(t) ==
  /\ pc[t] = "leaving"
  /\ available' = available + 1
  /\ pc' = [pc EXCEPT ![t] = "done"]

(* The Drop of TestSlot: give the slot back, notify_one. *)
Release(t) ==
  /\ pc[t] = "leaving"
  /\ available' = available + 1
  /\ \/ /\ Waiting = {}
        /\ pc' = [pc EXCEPT ![t] = "done"]
     \/ \E w \in Waiting : pc' = [pc EXCEPT ![t] = "done", ![w] = "woken"]

-----------------------------------------------------------------------------
(* run_all_tests: find_vmod_lib, then glob; the `?' of either returns.     *)
Open ==
  /\ at = 0 /\ outcome = "none"
  /\ \/ at' = 1 /\ UNCHANGED outcome
     \/ outcome' = "err" /\ UNCHANGED at
  /\ UNCHANGED <<available, pc, failed>>

Looping == at \in DOMAIN Globbed /\ outcome = "none"

\* Mutation: a path that cannot be read is passed over.
PathSkipped ==
  /\ Looping /\ pc[Globbed[at]] = "queued"
  /\ at' = at + 1
  /\ UNCHANGED <<available, pc, failed, outcome>>

(* The next path cannot be read: the `?' returns, whatever is left.        *)
PathFails ==
  /\ Looping /\ pc[Globbed[at]] = "queued"
  /\ outcome' = "err"
  /\ UNCHANGED <<available, pc, at, failed>>

(* The child of the next file, started without a slot. *)
RunDirect ==
  /\ Looping /\ pc[Globbed[at]] = "queued"
  /\ pc' = [pc EXCEPT ![Globbed[at]] = "running"]
  /\ UNCHANGED <<available, caller>>

(* It ends, well or not: either way the loop goes on. *)
ExitDirect(ok) ==
  /\ Looping /\ pc[Globbed[at]] = "running"
  /\ pc' = [pc EXCEPT ![Globbed[at]] = "done"]
  /\ at' = at + 1
  /\ failed' = (failed \/ ~ok)
  /\ UNCHANGED <<available, outcome>>

(* The loop is over: an error if it found no file, or if one failed. *)
Return ==
  /\ at = Len(Globbed) + 1 /\ outcome = "none"
  /\ outcome' = IF Globbed = <<>> \/ failed THEN "err" ELSE "ok"
  /\ UNCHANGED <<available, pc, at, failed>>

RunAllTests == \/ Open \/ PathFails \/ RunDirect \/ Return
               \/ \E ok \in BOOLEAN : ExitDirect(ok)

-----------------------------------------------------------------------------
Finished == /\ In({"done"}) \cup Direct = Tests /\ outcome # "none"
            /\ UNCHANGED vars

Step(t) == /\ \/ Start(t) \/ Take(t) \/ Sleep(t) \/ LibFound(t) \/ LibMissing(t)
              \/ Exit(t) \/ Release(t)
           /\ UNCHANGED caller

Wakeup(t) == SpuriousWakeup(t) /\ UNCHANGED caller

Next == \/ \E t \in Tests : Step(t) \/ Wakeup(t)
        \/ RunAllTests \/ Finished

Spec == Init /\ [][Next]_vars

-----------------------------------------------------------------------------
PCs == {"queued", "entering", "waiting", "woken", "acquired", "running", "leaving", "done"}

\* The type invariant of the semaphore and of the caller of run_all_tests.
TypeOK == /\ available \in 0..Max
          /\ pc \in [Tests -> PCs]
          /\ at \in 0..(Len(Globbed) + 1)
          /\ failed \in BOOLEAN /\ outcome \in {"none", "ok", "err"}

\* No slot is lost or minted, whatever way a test leaves run_one_test: the
\* counter and the live TestSlot values always add up to the cap.
SlotConservation == available + Cardinality(Holders) = Max

\* The children that run_one_test starts, seen without the counter, the mutex
\* and the condition variable, are those of a semaphore of
\* MAX_CONCURRENT_TESTS: they start and end one by one, never too many at once.
Sem == INSTANCE Semaphore WITH Procs <- Tests \ Direct, inside <- Running \ Direct
ImplementsSemaphore == Sem!Spec

\* notify_one never strands a sleeper: while a thread sleeps, each free slot
\* has a thread of its own on the way to it, even when late-comers barge in.
NoLostWakeup == Waiting # {} => Cardinality(Woken) >= available

=============================================================================
