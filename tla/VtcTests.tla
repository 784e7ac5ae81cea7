------------------------------- MODULE VtcTests -------------------------------
(***************************************************************************)
(* run_vtc_tests! (varnish-macros/src/vtc_tests.rs) together with the test *)
(* binary it ends up in.  While the crate is compiled, the macro looks for *)
(* the .vtc files of its pattern and generates one #[test] for each, named *)
(* after the file; when the compiler accepts them, the harness runs them,  *)
(* by TestSlots.  The elements of Tests are the files.                     *)
(***************************************************************************)
EXTENDS TestSlots

CONSTANTS Order,     \* the files of the macro's pattern, sorted by path
          Stem,      \* the file stem of each, as a sequence of characters
          NotUtf8,   \* those whose stem or path is not valid UTF-8
          Letters,   \* the ASCII letters in use
          Digits     \* "0", "1", ... as a sequence

ASSUME OrderAssumption == /\ Order \in Seq(Tests \ Direct)
                          /\ \A i, j \in DOMAIN Order : Order[i] = Order[j] => i = j
ASSUME StemAssumption == Stem \in [{Order[i] : i \in DOMAIN Order} -> Seq(STRING)]
ASSUME DigitsAssumption == /\ Digits \in Seq(STRING)
                           /\ Len(Order) < Len(Digits)  \* the bound of a suffix
                           /\ \A i, j \in DOMAIN Digits : Digits[i] = Digits[j] => i = j

VARIABLES build,    \* where the compilation of the test binary is
          matched,  \* the files found, as a set, for good from `glob' on
          next,     \* index in Order of the next file to be named
          used,     \* used: the number of files per base
          entries   \* the generated tests: pairs of name and file

macroVars == <<build, matched, next, used, entries>>
vtcVars   == <<vars, macroVars>>

DigitChars == {Digits[i] : i \in DOMAIN Digits}
Suffix(n)  == IF n = 0 THEN <<>> ELSE <<"_", Digits[n + 1]>>

(* sanitize_ident *)
Sanitize(stem) ==
  LET out == [i \in DOMAIN stem |->
                IF stem[i] \in Letters \cup DigitChars THEN stem[i] ELSE "_"]
  IN IF out # <<>> /\ out[1] \in DigitChars THEN <<"_">> \o out ELSE out

Base(t)  == Sanitize(Stem[t])
Files    == {Order[i] : i \in DOMAIN Order}
Names    == {e[1] : e \in entries}
Named    == {e[2] : e \in entries}

VtcInit == /\ Init
           /\ build = "expanding"
           /\ matched = {} /\ next = 0 /\ entries = {}
           /\ used = [b \in {Base(t) : t \in Files} |-> 0]

-----------------------------------------------------------------------------
(* The pattern, CARGO_MANIFEST_DIR or a directory cannot be read: the macro *)
(* becomes a compile error.                                                 *)
GlobFails ==
  /\ build = "expanding" /\ next = 0
  /\ build' = "error"
  /\ UNCHANGED <<vars, matched, next, used, entries>>

(* The pattern matches some files; with none, the only test is              *)
(* vtc_no_files_found, which panics and takes no slot.                      *)
Glob(ms) ==
  /\ build = "expanding" /\ next = 0
  /\ ms \in SUBSET Files
  /\ matched' = ms
  /\ build' = IF ms = {} THEN "empty" ELSE "expanding"
  /\ next' = 1
  /\ UNCHANGED <<vars, used, entries>>

Following == /\ build = "expanding" /\ next \in DOMAIN Order
             /\ next' = next + 1
             /\ UNCHANGED <<vars, matched>>

(* A file of Order that is not there, or not matched. *)
PassOver == /\ Following
            /\ Order[next] \notin matched
            /\ UNCHANGED <<build, used, entries>>

(* A stem or a path that is not a Rust string: a compile error. *)
NameFails == /\ Following
             /\ Order[next] \in matched \cap NotUtf8
             /\ build' = "error"
             /\ UNCHANGED <<used, entries>>

\* Mutation: the files of a base are not counted.
NameUncounted ==
  /\ Following
  /\ Order[next] \in matched \ NotUtf8
  /\ LET b == Base(Order[next]) IN
     /\ entries' = entries \cup {<<b \o Suffix(used[b]), Order[next]>>}
  /\ UNCHANGED <<build, used>>

(* The next file gets the name of its base, and a number but for the first. *)
Name ==
  /\ Following
  /\ Order[next] \in matched \ NotUtf8
  /\ LET b == Base(Order[next]) IN
     /\ entries' = entries \cup {<<b \o Suffix(used[b]), Order[next]>>}
     /\ used' = [used EXCEPT ![b] = @ + 1]
  /\ UNCHANGED build

(* rustc takes the generated tests, unless two have one name. *)
Compile ==
  /\ build = "expanding" /\ next > Len(Order)
  /\ build' = IF Cardinality(Names) = Cardinality(entries) THEN "ok" ELSE "duplicate"
  /\ UNCHANGED <<vars, matched, next, used, entries>>

Expand == \/ GlobFails \/ PassOver \/ NameFails \/ Name \/ Compile
          \/ \E ms \in SUBSET Files : Glob(ms)

-----------------------------------------------------------------------------
(* The binary runs: the harness has the generated tests, and someone calls  *)
(* run_all_tests once.                                                      *)
Built == build \in {"ok", "empty"}

RunStep(t) == Built /\ t \in Named /\ Step(t) /\ UNCHANGED macroVars

Awake(t) == Wakeup(t) /\ UNCHANGED macroVars

CallerStep == Built /\ RunAllTests /\ UNCHANGED macroVars

Over == /\ \/ build \in {"error", "duplicate"}
           \/ /\ Built /\ outcome # "none"
              /\ \A t \in Named : pc[t] = "done"
        /\ UNCHANGED vtcVars

VtcNext == \/ Expand \/ Over \/ CallerStep
           \/ \E t \in Tests : RunStep(t) \/ Awake(t)

VtcSpec == VtcInit /\ [][VtcNext]_vtcVars

(* The compiler goes on, the scheduler runs every thread, and the child's   *)
(* time limit ends every varnishtest.  Nothing is assumed of spurious       *)
(* wake-ups, nor that the mutex or notify_one are fair.                     *)
FairSpec == /\ VtcSpec
            /\ WF_vtcVars(Expand)
            /\ WF_vtcVars(CallerStep)
            /\ \A t \in Tests : WF_vtcVars(RunStep(t))

-----------------------------------------------------------------------------
\* The type invariant: of the semaphore, the compilation and the names.
VtcTypeOK ==
  /\ TypeOK
  /\ build \in {"expanding", "error", "empty", "duplicate", "ok"}
  /\ matched \subseteq Files /\ next \in 0..(Len(Order) + 1)
  /\ \A b \in DOMAIN used : used[b] \in 0..Len(Order)
  /\ \A e \in entries : e[2] \in matched

\* A build that fails for its names has a file called like the numbered test
\* of another one, say a_1.vtc beside two files a.vtc; files that only share
\* their names, or differ in characters that no identifier has, get along.
Twins(b) == {t \in matched : Base(t) = b}
NamesCollide ==
  \E t, u \in matched, n \in 1..Len(Order) :
    Base(u) = Base(t) \o Suffix(n) /\ Cardinality(Twins(Base(t))) > n

\* If the build succeeds, every file that the macro found is one test, with a
\* name of its own: none is dropped, overwritten or run twice.
EachFileOnce ==
  build = "ok" => /\ Named = matched
                  /\ \A d, e \in entries : (d[1] = e[1]) <=> (d[2] = e[2])

\* The build fails for a duplicate name exactly where the files call for it.
FailsForNames ==
  build \in {"ok", "duplicate"} => (build = "duplicate" <=> NamesCollide)

\* Both together: what run_vtc_tests! makes of the files that it matches.
OneTestPerFile == EachFileOnce /\ FailsForNames

\* run_all_tests has returned, with no child of its own left, and tells the
\* truth: Ok exactly if it ran all its files and none failed.  The files it ran
\* are the first ones: those after an unreadable path never get their turn.
CallerToldRight ==
  /\ outcome # "none" /\ Running \cap Direct = {}
  /\ (outcome = "ok") <=> /\ Direct # {} /\ ~failed
                          /\ \A t \in Direct : pc[t] = "done"
  /\ \A i, j \in DOMAIN Globbed :
       i < j /\ pc[Globbed[j]] = "done" => pc[Globbed[i]] = "done"

\* If the test binary builds, each file of the macro's pattern gets its turn
\* and finishes, with no fairness among the threads contending for the mutex,
\* and run_all_tests returns, whichever of its early exits it takes; a build
\* that does not, says so for good.
AllFinish ==
  <>[](\/ build \in {"error", "duplicate"}
       \/ (\A t \in matched : pc[t] = "done") /\ CallerToldRight)
=============================================================================
