------------------------------- MODULE VclState -------------------------------
(***************************************************************************)
(* The per-VCL state of one vmod over the life of the VCLs that import it: *)
(* PerVclState (varnish-sys/src/vcl/ctx.rs), the wrappers of event         *)
(* functions and object constructors that take it out of the PRIV_VCL slot *)
(* and put it back (varnish-macros/src/gen_func.rs), the filter registries *)
(* that such a function may change (varnish-sys/src/vcl/processor.rs) and  *)
(* on_fini_per_vcl (varnish-sys/src/extensions.rs); and the objects that   *)
(* vcl_init makes with the vmod's constructors.                            *)
(*                                                                         *)
(* All of it runs on varnishd's CLI thread, one call at a time; varnishd   *)
(* keeps raw pointers to the registered filters and hands them to the      *)
(* workers for as long as they are registered.                             *)
(***************************************************************************)
EXTENDS Naturals, FiniteSets

CONSTANTS Vcls,      \* VCL programs
          Fetch,     \* the vmod's FetchProcessor types
          Delivery,  \* its DeliveryProcessor types
          Boxes,     \* addresses of boxes: filters, user data, objects
          NULL

ASSUME KindsAssumption == Fetch \cap Delivery = {}

VARIABLES temp,     \* temperature of each VCL
          slot,     \* its PRIV_VCL: NULL or a PerVclState
          call,     \* the wrapper that runs: NULL, or the VCL, the call, what it took
          type,     \* the processor type of the filter at each address
          objs,     \* the objects of each VCL
          live,     \* the boxes that are allocated
          known,    \* the filters that varnishd has registered for each VCL
          refused   \* history: those that VRT_AddFilter refused, which nobody asks

vars == <<temp, slot, call, type, objs, live, known, refused>>

States == [filters : SUBSET Boxes, data : Boxes \cup {NULL}]
Empty  == [filters |-> {}, data |-> NULL]
Events == {"load", "new", "warm", "cold", "discard"}
Running == [vcl : Vcls, ev : Events, state : States]

ASSUME NullAssumption == NULL \notin Boxes \cup States \cup Running

Init == /\ temp = [v \in Vcls |-> "absent"]
        /\ slot = [v \in Vcls |-> NULL]
        /\ call = NULL
        /\ type = [b \in Boxes |-> NULL]
        /\ objs = [v \in Vcls |-> {}]
        /\ live = {}
        /\ known = [v \in Vcls |-> {}]
        /\ refused = {}

-----------------------------------------------------------------------------
(* The wrappers.                                                            *)

\* When varnishd makes each call: "new" is an object constructor of vcl_init.
Calls(v) == CASE temp[v] = "absent" -> {"load"}
              [] temp[v] = "init"   -> {"new"}
              [] temp[v] = "cold"   -> {"warm", "discard"}
              [] temp[v] = "warm"   -> {"cold"}
              [] temp[v] = "failed" -> {"discard"}
              [] OTHER              -> {}

\* Mutation: take without the default state.
EnterNoDefault(v, ev) ==
  /\ call = NULL
  /\ ev \in Calls(v)
  /\ call' = [vcl |-> v, ev |-> ev, state |-> slot[v]]
  /\ slot' = [slot EXCEPT ![v] = NULL]
  /\ UNCHANGED <<temp, type, objs, live, known, refused>>

\* take_per_vcl: the state, or a default one.
Enter(v, ev) ==
  /\ call = NULL
  /\ ev \in Calls(v)
  /\ call' = [vcl |-> v, ev |-> ev, state |-> IF slot[v] = NULL THEN Empty ELSE slot[v]]
  /\ slot' = [slot EXCEPT ![v] = NULL]
  /\ UNCHANGED <<temp, type, objs, live, known, refused>>

\* What varnishd makes of the wrapper's result.
Outcome(t, ev, ok) ==
  CASE ev \in {"load", "new"} -> IF ok THEN "init" ELSE "failed"
    [] ev = "warm"            -> IF ok THEN "warm" ELSE "cold"
    [] ev = "cold"            -> "cold"
    [] ev = "discard"         -> "dead"

\* Mutation: the box is made before the error is looked at.
MakeObjectEarly(ok) ==
  IF call.ev = "new"
    THEN \E b \in Boxes \ live :
           /\ live' = live \cup {b}
           /\ type' = [type EXCEPT ![b] = NULL]
           /\ objs' = [objs EXCEPT ![call.vcl] = IF ok THEN @ \cup {b} ELSE @]
    ELSE UNCHANGED <<live, type, objs>>

\* *objp = Box::into_raw(..) for a constructor that returns an object.
MakeObject(ok) ==
  IF ok /\ call.ev = "new"
    THEN \E b \in Boxes \ live :
           /\ live' = live \cup {b}
           /\ type' = [type EXCEPT ![b] = NULL]
           /\ objs' = [objs EXCEPT ![call.vcl] = @ \cup {b}]
    ELSE UNCHANGED <<live, type, objs>>

\* Mutation: an error returns before the state is put back.
ReturnErr ==
  /\ call # NULL
  /\ \E ok \in BOOLEAN :
       /\ MakeObject(ok)
       /\ temp' = [temp EXCEPT ![call.vcl] = Outcome(@, call.ev, ok)]
       /\ IF ok THEN slot' = [slot EXCEPT ![call.vcl] = call.state] ELSE UNCHANGED slot
  /\ call' = NULL
  /\ UNCHANGED <<known, refused>>

\* The user's function returns; the state is put back whatever it returned.
Return ==
  /\ call # NULL
  /\ \E ok \in BOOLEAN : /\ MakeObject(ok)
                         /\ temp' = [temp EXCEPT ![call.vcl] = Outcome(@, call.ev, ok)]
  /\ slot' = [slot EXCEPT ![call.vcl] = call.state]
  /\ call' = NULL
  /\ UNCHANGED <<known, refused>>

\* vcl_init is over.
Loaded(v) ==
  /\ call = NULL
  /\ temp[v] = "init"
  /\ temp' = [temp EXCEPT ![v] = "cold"]
  /\ UNCHANGED <<slot, call, type, objs, live, known, refused>>

-----------------------------------------------------------------------------
(* What the user's function does with its arguments.                        *)

Find(t) == {b \in call.state.filters : type[b] = t}

\* VRT_AddFilter with the address of a box: varnishd takes it or refuses it.
AddFilter(v, b) ==
  \/ /\ known' = [known EXCEPT ![v] = @ \cup {b}]
     /\ UNCHANGED refused
  \/ /\ refused' = refused \cup {b}
     /\ UNCHANGED known

\* Mutation: register without the search.
RegisterTwice(t) ==
  /\ call # NULL
  /\ \E b \in Boxes \ live :
       /\ type' = [type EXCEPT ![b] = t]
       /\ live' = live \cup {b}
       /\ AddFilter(call.vcl, b)
       /\ call' = [call EXCEPT !.state.filters = @ \cup {b}]
  /\ UNCHANGED <<temp, slot, objs>>

\* register::<T>: VRT_AddFilter with a new box, which the vector keeps whatever
\* varnishd says; nothing if the type is there already.
Register(t) ==
  /\ call # NULL
  /\ Find(t) = {}
  /\ \E b \in Boxes \ live :
       /\ type' = [type EXCEPT ![b] = t]
       /\ live' = live \cup {b}
       /\ AddFilter(call.vcl, b)
       /\ call' = [call EXCEPT !.state.filters = @ \cup {b}]
  /\ UNCHANGED <<temp, slot, objs>>

\* Mutation: the box is removed from the vector and dropped, and no more.
UnregisterQuiet(t) ==
  /\ call # NULL
  /\ \E b \in Find(t) :
       /\ call' = [call EXCEPT !.state.filters = @ \ {b}]
       /\ live' = live \ {b}
       /\ refused' = refused \ {b}
  /\ UNCHANGED <<temp, slot, type, objs, known>>

\* unregister::<T>: removed from the vector and from varnishd, then dropped.
Unregister(t) ==
  /\ call # NULL
  /\ \E b \in Find(t) :
       /\ call' = [call EXCEPT !.state.filters = @ \ {b}]
       /\ known' = [known EXCEPT ![call.vcl] = @ \ {b}]
       /\ live' = live \ {b}
       /\ refused' = refused \ {b}
  /\ UNCHANGED <<temp, slot, type, objs>>

\* *shared = Some(Box::new(..)), which drops the value before it.
SetData(b) ==
  /\ call # NULL /\ b \notin live
  /\ live' = (live \ {call.state.data}) \cup {b}
  /\ type' = [type EXCEPT ![b] = NULL]
  /\ call' = [call EXCEPT !.state.data = b]
  /\ UNCHANGED <<temp, slot, objs, known, refused>>

-----------------------------------------------------------------------------

\* The destructor of an object: drop(Box::from_raw(*objp)).  VCL calls one for
\* each object that it has, those of a vcl_init that failed later included.
Destroy(v, b) ==
  /\ call = NULL
  /\ temp[v] \in {"failed", "dead"}
  /\ b \in objs[v]
  /\ objs' = [objs EXCEPT ![v] = @ \ {b}]
  /\ live' = live \ {b}
  /\ UNCHANGED <<temp, slot, call, type, known, refused>>

\* Mutation: the user's data is left behind.
FiniData(v) ==
  /\ call = NULL
  /\ temp[v] \in {"failed", "dead"}
  /\ slot[v] # NULL /\ objs[v] = {}
  /\ known' = [known EXCEPT ![v] = @ \ slot[v].filters]
  /\ refused' = refused \ slot[v].filters
  /\ live' = live \ slot[v].filters
  /\ slot' = [slot EXCEPT ![v] = NULL]
  /\ temp' = [temp EXCEPT ![v] = "absent"]
  /\ UNCHANGED <<call, type, objs>>

\* on_fini_per_vcl, when varnishd unloads a VCL that failed or was discarded:
\* the filters of both registries are unregistered, then the data is dropped.
\* Its address may be reused by a later load.
Fini(v) ==
  /\ call = NULL
  /\ temp[v] \in {"failed", "dead"}
  /\ slot[v] # NULL /\ objs[v] = {}
  /\ known' = [known EXCEPT ![v] = @ \ slot[v].filters]
  /\ refused' = refused \ slot[v].filters
  /\ live' = live \ (slot[v].filters \cup {slot[v].data})
  /\ slot' = [slot EXCEPT ![v] = NULL]
  /\ temp' = [temp EXCEPT ![v] = "absent"]
  /\ UNCHANGED <<call, type, objs>>

Next == \/ \E v \in Vcls : Loaded(v) \/ Fini(v) \/ \E ev \in Events : Enter(v, ev)
        \/ \E t \in Fetch \cup Delivery : Register(t) \/ Unregister(t)
        \/ \E b \in Boxes : SetData(b) \/ \E v \in Vcls : Destroy(v, b)
        \/ Return

Spec == Init /\ [][Next]_vars

-----------------------------------------------------------------------------
\* The type invariant.
TypeOK == /\ temp \in [Vcls -> {"absent", "init", "cold", "warm", "failed", "dead"}]
          /\ slot \in [Vcls -> States \cup {NULL}]
          /\ call \in Running \cup {NULL}
          /\ type \in [Boxes -> Fetch \cup Delivery \cup {NULL}]
          /\ live \subseteq Boxes /\ objs \in [Vcls -> SUBSET Boxes]
          /\ known \in [Vcls -> SUBSET Boxes] /\ refused \subseteq Boxes

\* The states of v: in its slot, or taken by the call that runs.
StatesOf(v) == {s \in {slot[v]} : s # NULL} \cup
               {c.state : c \in {d \in {call} : d # NULL /\ d.vcl = v}}
Filters(v)  == UNION {s.filters : s \in StatesOf(v)}
Data(v)     == {s.data : s \in StatesOf(v)} \ {NULL}

\* varnishd calls only filters that still exist: each one it knows is a live
\* box that the vmod has, and it knows every one that it did not refuse, in calls
\* that failed and in VCLs that never finished loading too.  The vmod has one
\* filter of a type at most, refused or not.
FiltersAgree ==
  \A v \in Vcls :
    /\ known[v] = Filters(v) \ refused
    /\ Filters(v) \subseteq live
    /\ \A b, c \in Filters(v) : type[b] = type[c] => b = c

\* A live box belongs to one VCL, as a filter, as its data or as an object: none
\* is lost when a call fails, is replaced or outlives its VCL, and no filter or
\* value has the address of an object that VCL still uses.  The state that the
\* load event left is there for every later call and reader, and for
\* on_fini_per_vcl, whatever the calls in between returned.
Owned(v) == Filters(v) \cup Data(v) \cup objs[v]
NothingLost ==
  /\ live = UNION {Owned(v) : v \in Vcls}
  /\ \A v, w \in Vcls : v # w => Owned(v) \cap Owned(w) = {}
  /\ \A v \in Vcls : Cardinality(Owned(v)) =
       Cardinality(Filters(v)) + Cardinality(Data(v)) + Cardinality(objs[v])
  /\ \A v \in Vcls : Cardinality(Data(v)) <= 1
  /\ \A v \in Vcls : temp[v] # "absent" => StatesOf(v) # {}
=============================================================================
