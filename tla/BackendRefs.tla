----------------------------- MODULE BackendRefs -----------------------------
(***************************************************************************)
(* Who keeps a backend or a director alive: the Rust owner of its methods  *)
(* and its implementation (Backend and Director,                           *)
(* varnish-sys/src/vcl/backend/backend_main.rs and director.rs), the       *)
(* reference count in varnishd's vcldir, and the BackendRefs               *)
(* (backend_ref.rs) that director implementations store, as the one of     *)
(* examples/vmod_round_robin does.                                         *)
(*                                                                         *)
(* varnishd's side (VRT_AddDirector, VRT_DelDirector, VRT_Assign_Backend)  *)
(* is external: the last dereference frees the vcldir, and looks in the    *)
(* methods for destroy first.                                              *)
(***************************************************************************)
EXTENDS Naturals, FiniteSets

CONSTANTS Backends,   \* backends implemented in Rust
          Directors,  \* directors implemented in Rust
          Native,     \* backends that NativeBackendBuilder builds
          Static,     \* backends declared in VCL: VDIR_FLG_NOREFCNT
          Tasks,      \* client and backend tasks
          NULL

Rust == Backends \cup Directors   \* those with an implementation
Made == Rust \cup Native          \* those with an owner
Dirs == Made \cup Static

ASSUME DirsAssumption == /\ Backends \cap Directors = {} /\ Rust \cap Native = {}
                         /\ Made \cap Static = {}
                         /\ IsFiniteSet(Dirs) /\ IsFiniteSet(Tasks)
ASSUME NullAssumption == NULL \notin Dirs

VARIABLES owner,   \* the Rust owner of each director: its methods and inner box
          refcnt,  \* vdir.refcnt
          vdir,    \* the vcldir that a VCL_BACKEND leads to
          stored,  \* the BackendRefs in the implementation of each director
          tref,    \* the director that a task has a reference to
          traw,    \* a VCL_BACKEND that a wrapper returned and varnishd has not assigned
          faults,  \* failed assertions, and memory used after it was freed
          hasty    \* history: owners dropped while somebody referred to what they own

vars == <<owner, refcnt, vdir, stored, tref, traw, faults, hasty>>

Init == /\ owner = [d \in Dirs |-> IF d \in Made THEN "unmade" ELSE "static"]
        /\ refcnt = [d \in Dirs |-> 0]
        /\ vdir = [d \in Dirs |-> IF d \in Made THEN "unmade" ELSE "live"]
        /\ stored = [d \in Dirs |-> {}]
        /\ tref = [t \in Tasks |-> NULL]
        /\ traw = [t \in Tasks |-> NULL]
        /\ faults = {}
        /\ hasty = {}

Add(new) == faults' = faults \cup new

\* The owner has the methods and the implementation; those of a native backend
\* are varnishd's, and its vrt_backend is read by VRT_new_backend alone.
Hollow(d) == owner[d] = "dropped" /\ d \notin Native

\* What is wrong with a use of d, and with taking a reference to it.
UseFaults(d) == (IF vdir[d] = "freed" THEN {"vdir"} ELSE {}) \cup
                (IF Hollow(d) THEN {"methods"} ELSE {})
RefFaults(d) == IF d \in Static \/ refcnt[d] > 0 THEN {} ELSE {"assert"}

\* The directors whose last reference is in ds.
Retired(ds) == {d \in ds \cap Made : refcnt[d] = 1}

\* Mutation: the count of a static backend is decremented as well.
DropRefsStatic(ds) ==
  /\ refcnt' = [d \in Dirs |-> IF d \in ds THEN refcnt[d] - 1 ELSE refcnt[d]]
  /\ vdir' = [d \in Dirs |-> IF d \in Retired(ds) THEN "freed" ELSE vdir[d]]
  /\ Add(UNION {RefFaults(d) : d \in ds})

\* The references in ds are dropped, once each: Drop for BackendRef, which is
\* VRT_Assign_Backend(&bep, NULL).  The last one retires the vcldir.
DropRefs(ds) ==
  /\ refcnt' = [d \in Dirs |-> IF d \in ds \cap Made /\ refcnt[d] > 0 THEN refcnt[d] - 1
                               ELSE refcnt[d]]
  /\ vdir' = [d \in Dirs |-> IF d \in Retired(ds) THEN "freed" ELSE vdir[d]]
  /\ Add((IF \E d \in Retired(ds) : Hollow(d) THEN {"methods"} ELSE {})
                    \cup UNION {RefFaults(d) : d \in ds})

-----------------------------------------------------------------------------
(* The owner.                                                               *)

\* A vcldir of one reference, and the owner's backend_ref, which counts none
\* (new_without_refcount).  An error, of a name or of varnishd, leaves nothing.
Born(d) ==
  /\ owner[d] = "unmade"
  /\ owner' = [owner EXCEPT ![d] = "live"]
  /\ refcnt' = [refcnt EXCEPT ![d] = 1]
  /\ vdir' = [vdir EXCEPT ![d] = "live"]
  /\ UNCHANGED <<stored, tref, traw, faults, hasty>>

\* Backend::new: VRT_AddDirector with the callbacks below.
NewBackend(d) == d \in Backends /\ Born(d)

\* Director::new, likewise with those of a director.
NewDirector(d) == d \in Directors /\ Born(d)

\* NativeBackendBuilder::build: VRT_new_backend adds the director.
Build(d) == d \in Native /\ Born(d)

\* Who may still go to d: a director with a reference, a task that runs through d,
\* or one whose wrapper returned d.
Referred(d) == \/ \E h \in Dirs : d \in stored[h]
               \/ \E t \in Tasks : d \in {tref[t], traw[t]}

\* Drop for Backend and Director: VRT_DelDirector gives up the first reference;
\* then the fields are dropped, the implementation with the references in it.
\* VRT_delete_backend does the same for a native backend.  Nothing in the code
\* keeps a vmod from dropping an owner at any time: between a wrapper's return and
\* varnishd's assignment, and with tasks running, too.
Drop(d) ==
  /\ owner[d] = "live"
  /\ DropRefs({d} \cup stored[d])
  /\ owner' = [owner EXCEPT ![d] = "dropped"]
  /\ stored' = [stored EXCEPT ![d] = {}]
  /\ hasty' = hasty \cup {e \in {d} : Referred(e)}
  /\ UNCHANGED <<tref, traw>>

-----------------------------------------------------------------------------
(* References that a director's implementation stores.                      *)

\* The VCL can name a backend of its own, or one whose vmod object exists.
Nameable(d) == owner[d] \in {"static", "live"}

\* Mutation: clone copies the pointer and counts nothing.
StoreUncounted(h, d) ==
  /\ h \in Rust /\ owner[h] = "live"
  /\ Nameable(d) /\ d # h
  /\ d \notin stored[h]
  /\ stored' = [stored EXCEPT ![h] = @ \cup {d}]
  /\ UNCHANGED <<owner, refcnt, vdir, tref, traw, faults, hasty>>

\* A vmod method is called with d and keeps the argument: BackendRef::new, which
\* asserts that the count is positive and increments it, unless d is static.
Store(h, d) ==
  /\ h \in Rust /\ owner[h] = "live"
  /\ Nameable(d) /\ d # h
  /\ d \notin stored[h]
  /\ stored' = [stored EXCEPT ![h] = @ \cup {d}]
  /\ refcnt' = IF d \in Static THEN refcnt ELSE [refcnt EXCEPT ![d] = @ + 1]
  /\ Add(RefFaults(d))
  /\ UNCHANGED <<owner, vdir, tref, traw, hasty>>

\* The implementation drops one of the references.
Remove(h, d) ==
  /\ owner[h] = "live" /\ d \in stored[h]
  /\ stored' = [stored EXCEPT ![h] = @ \ {d}]
  /\ DropRefs({d})
  /\ UNCHANGED <<owner, tref, traw, hasty>>

\* The implementation probes a stored reference: VRT_Healthy goes through the
\* vcldir to the methods.
Probe(h, d) ==
  /\ owner[h] = "live" /\ d \in stored[h]
  /\ Add(UseFaults(d))
  /\ UNCHANGED <<owner, refcnt, vdir, stored, tref, traw, hasty>>

-----------------------------------------------------------------------------
(* The callbacks, which varnishd reaches through the vcldir of every        *)
(* director that is in its list.                                            *)

Listed(d) == d \in Rust /\ vdir[d] = "live"

\* wrap_event, wrap_list and wrap_panic of a backend: the CLI changes the VCL's
\* temperature or asks for a report, or varnishd panics.
CallBackend(d) ==
  /\ d \in Backends /\ Listed(d)
  /\ Add(UseFaults(d))
  /\ UNCHANGED <<owner, refcnt, vdir, stored, tref, traw, hasty>>

\* wrap_director_healthy and wrap_director_list: probe, and the report that calls
\* it, may probe every reference that the implementation stores.
CallDirector(h) ==
  /\ h \in Directors /\ Listed(h)
  /\ \E probed \in SUBSET stored[h] : Add(UNION {UseFaults(d) : d \in {h} \cup probed})
  /\ UNCHANGED <<owner, refcnt, vdir, stored, tref, traw, hasty>>

\* wrap_pipe, for a task that runs through d.
Pipe(t) ==
  /\ tref[t] \in Backends /\ traw[t] = NULL
  /\ Add(UseFaults(tref[t]))
  /\ UNCHANGED <<owner, refcnt, vdir, stored, tref, traw, hasty>>

-----------------------------------------------------------------------------
(* Tasks.                                                                   *)

\* req.backend_hint = object.backend(): the wrapper clones the BackendRef, and
\* into_vcl drops the clone and leaves a bare pointer.
Hint(t, d) ==
  /\ Nameable(d) /\ traw[t] = NULL
  /\ traw' = [traw EXCEPT ![t] = d]
  /\ Add(RefFaults(d))
  /\ UNCHANGED <<owner, refcnt, vdir, stored, tref, hasty>>

\* Mutation: the clone that resolve returned is forgotten, not dropped.
ResolveKeeps(t, d) ==
  /\ tref[t] \in Directors /\ traw[t] = NULL
  /\ d \in stored[tref[t]]
  /\ traw' = [traw EXCEPT ![t] = d]
  /\ refcnt' = IF d \in Static THEN refcnt ELSE [refcnt EXCEPT ![d] = @ + 1]
  /\ Add(UseFaults(tref[t]) \cup RefFaults(d))
  /\ UNCHANGED <<owner, vdir, stored, tref, hasty>>

\* wrap_director_resolve: likewise for the BackendRef that resolve returns, a
\* clone of one that the implementation stores.
Resolve(t, d) ==
  /\ tref[t] \in Directors /\ traw[t] = NULL
  /\ d \in stored[tref[t]]
  /\ traw' = [traw EXCEPT ![t] = d]
  /\ Add(UseFaults(tref[t]) \cup RefFaults(d))
  /\ UNCHANGED <<owner, refcnt, vdir, stored, tref, hasty>>

\* varnishd assigns the pointer: VRT_Assign_Backend(&task.director, d).
Assign(t) ==
  /\ traw[t] # NULL
  /\ LET d == traw[t]
         old == {tref[t]} \ {NULL}
     IN  /\ IF d \in old THEN /\ Add(RefFaults(d))
                              /\ UNCHANGED <<refcnt, vdir>>
            ELSE /\ refcnt' = [e \in Dirs |->
                                 IF e \in Static THEN 0
                                 ELSE IF e = d THEN refcnt[e] + 1
                                 ELSE IF e \in old THEN refcnt[e] - 1 ELSE refcnt[e]]
                 /\ vdir' = [e \in Dirs |-> IF e \in Retired(old) THEN "freed" ELSE vdir[e]]
                 /\ Add(UseFaults(d) \cup RefFaults(d) \cup
                                   (UNION {RefFaults(e) : e \in old}) \cup
                                   IF \E e \in Retired(old) : Hollow(e)
                                     THEN {"methods"} ELSE {})
         /\ tref' = [tref EXCEPT ![t] = d]
  /\ traw' = [traw EXCEPT ![t] = NULL]
  /\ UNCHANGED <<owner, stored, hasty>>

\* The task is over.
Done(t) ==
  /\ tref[t] # NULL /\ traw[t] = NULL
  /\ DropRefs({tref[t]})
  /\ tref' = [tref EXCEPT ![t] = NULL]
  /\ UNCHANGED <<owner, stored, traw, hasty>>

Next == \/ \E d \in Dirs : NewBackend(d) \/ NewDirector(d) \/ Build(d) \/ Drop(d)
        \/ \E d \in Dirs : CallBackend(d) \/ CallDirector(d)
        \/ \E h, d \in Dirs : Store(h, d) \/ Remove(h, d) \/ Probe(h, d)
        \/ \E t \in Tasks : Assign(t) \/ Done(t) \/ Pipe(t) \/ \E d \in Dirs : Hint(t, d) \/ Resolve(t, d)

Spec == Init /\ [][Next]_vars

-----------------------------------------------------------------------------
\* The type invariant.
TypeOK == /\ owner \in [Dirs -> {"unmade", "live", "dropped", "static"}]
          /\ refcnt \in [Dirs -> Nat]
          /\ vdir \in [Dirs -> {"unmade", "live", "freed"}]
          /\ stored \in [Dirs -> SUBSET Dirs]
          /\ tref \in [Tasks -> Dirs \cup {NULL}]
          /\ traw \in [Tasks -> Dirs \cup {NULL}]
          /\ faults \subseteq {"assert", "methods", "vdir"}
          /\ hasty \subseteq Made

References(d) == Cardinality({h \in Dirs : d \in stored[h]})
                   + Cardinality({t \in Tasks : tref[t] = d})

\* A vcldir that was freed has been used: what the memory holds is arbitrary.
Corrupt == "vdir" \in faults

\* The count of a director made in Rust is its owner and its references, one
\* for each BackendRef that is stored and each task that runs through it, and
\* its vcldir exists exactly while there is one: neither leaked nor freed under
\* somebody, with all the references that wrappers take and drop in between.
RefsExact ==
  ~Corrupt => \A d \in Made :
    /\ refcnt[d] = (IF owner[d] = "live" THEN 1 ELSE 0) + References(d)
    /\ vdir[d] = "live" <=> refcnt[d] > 0

\* "you don't want to drop it until after all the transfers are done"
\* (backend_main.rs:59): that, and to drop no owner before the references that
\* directors store, is also enough.  No assertion of BackendRef::new fails then,
\* and no use of a director reads memory that was freed, although no reference
\* covers the pointer that a wrapper returns until varnishd assigns it.
NoFault == hasty = {} => faults = {}
=============================================================================
