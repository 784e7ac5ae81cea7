---------------------------- MODULE VclStateProofs ----------------------------
(***************************************************************************)
(* Proofs about VclState, for any VCLs, processor types and boxes.         *)
(***************************************************************************)
EXTENDS VclState, FiniteSetTheorems, TLAPS

\* The state of v, wherever it is; a VCL that has none is as one with nothing.
Taken(v) == call # NULL /\ call.vcl = v
State(v) == IF Taken(v) THEN call.state ELSE IF slot[v] # NULL THEN slot[v] ELSE Empty
Held(v)  == State(v).filters \cup ({State(v).data} \ {NULL}) \cup objs[v]

\* The inductive invariant, in parts: a state is in one place; the heap is what
\* the VCLs hold, each box once; varnishd knows the filters that
\* it did not refuse, and there is one of each type.
InOnePlace ==
  /\ call # NULL => slot[call.vcl] = NULL
  /\ \A v \in Vcls : temp[v] # "absent" => slot[v] # NULL \/ Taken(v)
HeapHeld ==
  /\ IsFiniteSet(live)
  /\ \A b \in Boxes : b \in live <=> \E v \in Vcls : b \in Held(v)
  /\ \A v, w \in Vcls : v # w => Held(v) \cap Held(w) = {}
  /\ \A v \in Vcls : /\ State(v).data \notin State(v).filters \cup objs[v]
                     /\ State(v).filters \cap objs[v] = {}
Registered ==
  /\ \A v \in Vcls : /\ known[v] = State(v).filters \ refused
                     /\ \A b, c \in State(v).filters : type[b] = type[c] => b = c
  /\ \A b \in refused : \E v \in Vcls : b \in State(v).filters

Inv == TypeOK /\ InOnePlace /\ HeapHeld /\ Registered

\* A state is one, empty or not, and what is held are boxes.
LEMMA StateTypes ==
  ASSUME TypeOK, NEW v \in Vcls
  PROVE  /\ State(v) \in States /\ State(v).filters \subseteq Boxes
         /\ State(v).data \in Boxes \cup {NULL}
         /\ Held(v) \subseteq Boxes
<1>1. Empty \in States
  BY DEF Empty, States
<1>2. State(v) \in States
  BY <1>1 DEF TypeOK, State, Taken, Running
<1> QED
  BY <1>2 DEF States, Held, TypeOK

\* The filters and the data of a VCL are those of its state.
LEMMA StateIsIt ==
  ASSUME TypeOK, InOnePlace, NEW v \in Vcls
  PROVE  /\ Filters(v) = State(v).filters
         /\ Data(v) = {State(v).data} \ {NULL}
         /\ Owned(v) = Held(v)
<1>1. StatesOf(v) = IF Taken(v) THEN {call.state}
                    ELSE IF slot[v] # NULL THEN {slot[v]} ELSE {}
  <2>1. CASE Taken(v)
    BY <2>1 DEF StatesOf, Taken, InOnePlace
  <2>2. CASE ~Taken(v)
    BY <2>2 DEF StatesOf, Taken
  <2> QED
    BY <2>1, <2>2
<1>2. Filters(v) = State(v).filters /\ Data(v) = {State(v).data} \ {NULL}
  BY <1>1 DEF Filters, Data, State, Empty
<1> QED
  BY <1>2 DEF Owned, Held

\* Sets that have nothing in common.
LEMMA DisjointCount ==
  ASSUME NEW S, NEW T, IsFiniteSet(S), IsFiniteSet(T), S \cap T = {}
  PROVE  /\ IsFiniteSet(S \cup T)
         /\ Cardinality(S \cup T) = Cardinality(S) + Cardinality(T)
<1>1. Cardinality(S \cap T) = 0
  BY FS_EmptySet
<1>2. Cardinality(S) \in Nat /\ Cardinality(T) \in Nat
  BY FS_CardinalityType
<1>3. /\ IsFiniteSet(S \cup T)
      /\ Cardinality(S \cup T) = Cardinality(S) + Cardinality(T) - Cardinality(S \cap T)
  BY FS_Union
<1> QED
  BY <1>1, <1>2, <1>3

\* The invariant gives both properties that the run checks.
LEMMA InvImplies == Inv => FiltersAgree /\ NothingLost
<1> SUFFICES ASSUME Inv PROVE FiltersAgree /\ NothingLost
  OBVIOUS
<1> USE DEF Inv
<1>1. \A v \in Vcls : /\ Filters(v) = State(v).filters
                      /\ Data(v) = {State(v).data} \ {NULL}
                      /\ Owned(v) = Held(v)
  BY StateIsIt
<1>2. \A v \in Vcls : Held(v) \subseteq live
  BY StateTypes DEF HeapHeld
<1>3. FiltersAgree
  <2>1. \A v \in Vcls : State(v).filters \subseteq live
    BY <1>2 DEF Held
  <2> QED
    BY <1>1, <2>1 DEF FiltersAgree, Registered
<1>4. live = UNION {Owned(v) : v \in Vcls}
  BY <1>1, StateTypes DEF HeapHeld, TypeOK
<1>5. ASSUME NEW v \in Vcls
      PROVE  /\ Cardinality(Owned(v)) =
                  Cardinality(Filters(v)) + Cardinality(Data(v)) + Cardinality(objs[v])
             /\ Cardinality(Data(v)) <= 1
  <2>1. IsFiniteSet(Filters(v)) /\ IsFiniteSet(Data(v)) /\ IsFiniteSet(objs[v])
    <3>1. Filters(v) \subseteq live /\ Data(v) \subseteq live /\ objs[v] \subseteq live
      BY <1>1, <1>2 DEF Held
    <3> QED
      BY <3>1, FS_Subset DEF HeapHeld
  <2>2. /\ Filters(v) \cap Data(v) = {}
        /\ (Filters(v) \cup Data(v)) \cap objs[v] = {}
    BY <1>1 DEF HeapHeld
  <2>3. /\ IsFiniteSet(Filters(v) \cup Data(v))
        /\ Cardinality(Filters(v) \cup Data(v)) = Cardinality(Filters(v)) + Cardinality(Data(v))
    BY <2>1, <2>2, DisjointCount
  <2>4. Cardinality(Owned(v)) = Cardinality(Filters(v) \cup Data(v)) + Cardinality(objs[v])
    BY <2>1, <2>2, <2>3, DisjointCount DEF Owned
  <2>5. Cardinality(Data(v)) <= 1
    <3>1. CASE State(v).data = NULL
      BY <1>1, <3>1, FS_EmptySet
    <3>2. CASE State(v).data # NULL
      <4>1. Data(v) = {State(v).data}
        BY <1>1, <3>2
      <4>2. Cardinality({State(v).data}) = 1
        BY FS_Singleton
      <4> QED
        BY <4>1, <4>2
    <3> QED
      BY <3>1, <3>2
  <2> QED
    BY <2>3, <2>4, <2>5
<1>6. \A v \in Vcls : temp[v] # "absent" => StatesOf(v) # {}
  BY DEF InOnePlace, StatesOf, Taken
<1> QED
  BY <1>1, <1>3, <1>4, <1>5, <1>6 DEF NothingLost, HeapHeld

-----------------------------------------------------------------------------
\* Nothing is held before the first load.
LEMMA InitInv == Init => Inv
<1> SUFFICES ASSUME Init PROVE Inv
  OBVIOUS
<1>1. TypeOK
  BY DEF Init, TypeOK
<1>2. \A v \in Vcls : ~Taken(v) /\ State(v) = Empty /\ Held(v) = {}
  BY DEF Init, Taken, State, Held, Empty
<1>3. IsFiniteSet(live)
  BY FS_EmptySet DEF Init
<1> QED
  BY <1>1, <1>2, <1>3, NullAssumption DEF Init, Inv, InOnePlace, HeapHeld, Registered, Empty

\* A step that leaves every state, the objects and the heap alone, or moves a
\* state between slot and call, keeps what is said of the heap and of varnishd.
LEMMA SameStates ==
  ASSUME Inv, \A v \in Vcls : State(v)' = State(v), UNCHANGED <<objs, live, known, type, refused>>
  PROVE  HeapHeld' /\ Registered'
<1>1. \A v \in Vcls : Held(v)' = Held(v)
  BY DEF Held
<1> QED
  BY <1>1 DEF Inv, HeapHeld, Registered

\* take_per_vcl moves the state, or an empty one, into the call.
LEMMA EnterStep ==
  ASSUME Inv, NEW v \in Vcls, NEW ev \in Events, Enter(v, ev)
  PROVE  Inv'
<1> USE DEF Inv
<1> DEFINE c == [vcl |-> v, ev |-> ev, state |-> IF slot[v] = NULL THEN Empty ELSE slot[v]]
<1>1. /\ call = NULL /\ call' = c /\ slot' = [slot EXCEPT ![v] = NULL]
      /\ UNCHANGED <<temp, type, objs, live, known, refused>>
  BY DEF Enter
<1>2. c \in Running
  BY DEF TypeOK, Running, Empty, States
<1>3. call' # NULL
  BY <1>1, <1>2, NullAssumption
<1>4. TypeOK'
  BY <1>1, <1>2 DEF TypeOK
<1>5. \A w \in Vcls : State(w)' = State(w)
  BY <1>1, <1>3 DEF State, Taken, TypeOK
<1>6. InOnePlace'
  BY <1>1, <1>3 DEF InOnePlace, Taken, TypeOK
<1> QED
  BY <1>1, <1>4, <1>5, <1>6, SameStates

\* A box that was free becomes one of v's, in place of those in gone.
LEMMA HeapChange ==
  ASSUME Inv, TypeOK', NEW v \in Vcls, NEW new, NEW gone,
         new \subseteq Boxes \ live, IsFiniteSet(new), gone \subseteq Held(v),
         live' = (live \ gone) \cup new,
         Held(v)' = (Held(v) \ gone) \cup new,
         \A w \in Vcls \ {v} : State(w)' = State(w) /\ objs'[w] = objs[w],
         State(v).data' \notin State(v).filters' \cup objs'[v],
         State(v).filters' \cap objs'[v] = {}
  PROVE  HeapHeld'
<1> USE DEF Inv
<1>1. \A w \in Vcls \ {v} : Held(w)' = Held(w)
  BY DEF Held
<1>2. \A w \in Vcls : Held(w) \subseteq live
  BY StateTypes DEF HeapHeld
<1>3. IsFiniteSet(live')
  <2>1. IsFiniteSet(live \ gone)
    BY FS_Subset DEF HeapHeld
  <2> QED
    BY <2>1, FS_Union
<1>4. \A b \in Boxes : b \in live' <=> \E w \in Vcls : b \in Held(w)'
  <2> SUFFICES ASSUME NEW b \in Boxes PROVE b \in live' <=> \E w \in Vcls : b \in Held(w)'
    OBVIOUS
  <2>1. CASE b \in Held(v) \cup new
    BY <2>1, <1>1, <1>2 DEF HeapHeld
  <2>2. CASE b \notin Held(v) \cup new
    BY <2>2, <1>1 DEF HeapHeld
  <2> QED
    BY <2>1, <2>2
<1>5. \A w, u \in Vcls : w # u => Held(w)' \cap Held(u)' = {}
  BY <1>1, <1>2 DEF HeapHeld
<1>6. \A w \in Vcls : /\ State(w).data' \notin State(w).filters' \cup objs'[w]
                      /\ State(w).filters' \cap objs'[w] = {}
  BY DEF HeapHeld
<1> QED
  BY <1>3, <1>4, <1>5, <1>6 DEF HeapHeld

\* put gives the state back, and a constructor that returned has an object.
LEMMA ReturnStep ==
  ASSUME Inv, Return PROVE Inv'
<1> USE DEF Inv
<1>0. PICK v : v = call.vcl
  OBVIOUS
<1>1. /\ call # NULL /\ call' = NULL /\ slot' = [slot EXCEPT ![v] = call.state]
      /\ UNCHANGED <<known, refused>>
  BY <1>0 DEF Return
<1>2. call \in Running /\ v \in Vcls /\ call.state \in States /\ call.ev \in Events
  BY <1>0, <1>1 DEF TypeOK, Running
<1>3. PICK ok \in BOOLEAN : /\ MakeObject(ok)
                           /\ temp' = [temp EXCEPT ![v] = Outcome(@, call.ev, ok)]
  BY <1>0 DEF Return
<1>4. Outcome(temp[v], call.ev, ok) \in {"absent", "init", "cold", "warm", "failed", "dead"}
  BY <1>2 DEF Outcome, Events
<1>5. TypeOK'
  <2>1. temp' \in [Vcls -> {"absent", "init", "cold", "warm", "failed", "dead"}]
    BY <1>3, <1>4 DEF TypeOK
  <2>2. slot' \in [Vcls -> States \cup {NULL}]
    BY <1>1, <1>2 DEF TypeOK
  <2>3. /\ type' \in [Boxes -> Fetch \cup Delivery \cup {NULL}]
        /\ live' \subseteq Boxes /\ objs' \in [Vcls -> SUBSET Boxes]
    BY <1>0, <1>2, <1>3 DEF TypeOK, MakeObject
  <2> QED
    BY <1>1, <2>1, <2>2, <2>3 DEF TypeOK
<1>6. call.state # NULL
  BY <1>2, NullAssumption
<1>7. \A w \in Vcls : State(w)' = State(w)
  BY <1>0, <1>1, <1>2, <1>6 DEF State, Taken, TypeOK, InOnePlace
<1>8. InOnePlace'
  BY <1>0, <1>1, <1>2, <1>3, <1>6 DEF InOnePlace, Taken, TypeOK
<1>9. CASE ok /\ call.ev = "new"
  <2>1. PICK b \in Boxes \ live : /\ live' = live \cup {b}
                                  /\ type' = [type EXCEPT ![b] = NULL]
                                  /\ objs' = [objs EXCEPT ![v] = @ \cup {b}]
    BY <1>0, <1>3, <1>9 DEF MakeObject
  <2>2. Held(v)' = (Held(v) \ {}) \cup {b}
    BY <1>2, <1>7, <2>1 DEF Held, TypeOK
  <2>3. Held(v) \subseteq live /\ \A w \in Vcls : State(w).filters \subseteq live
    BY <1>2, StateTypes DEF HeapHeld, Held
  <2>4. /\ State(v).data' \notin State(v).filters' \cup objs'[v]
        /\ State(v).filters' \cap objs'[v] = {}
    BY <1>2, <1>7, <2>1, <2>3, NullAssumption DEF HeapHeld, TypeOK, Held
  <2>5. HeapHeld'
    <3>1. IsFiniteSet({b})
      BY FS_Singleton
    <3>2. \A w \in Vcls \ {v} : State(w)' = State(w) /\ objs'[w] = objs[w]
      BY <1>7, <2>1 DEF TypeOK
    <3>3. live' = (live \ {}) \cup {b}
      BY <2>1
    <3>4. {b} \subseteq Boxes \ live /\ {} \subseteq Held(v)
      OBVIOUS
    <3> HIDE DEF Inv
    <3>5. Inv
      OBVIOUS
    <3> QED
      BY <1>2, <1>5, <2>2, <2>4, <3>1, <3>2, <3>3, <3>4, <3>5, HeapChange
  <2>6. Registered'
    BY <1>1, <1>7, <2>1, <2>3 DEF Registered, TypeOK
  <2> QED
    BY <1>5, <1>8, <2>5, <2>6
<1>10. CASE ~(ok /\ call.ev = "new")
  BY <1>1, <1>3, <1>5, <1>7, <1>8, <1>10, SameStates DEF MakeObject
<1> QED
  BY <1>9, <1>10

\* The end of vcl_init is one of varnishd.
LEMMA LoadedStep ==
  ASSUME Inv, NEW v \in Vcls, Loaded(v) PROVE Inv'
<1>1. TypeOK' /\ InOnePlace'
  BY DEF Inv, Loaded, TypeOK, InOnePlace, Taken
<1>2. \A w \in Vcls : State(w)' = State(w)
  BY DEF Loaded, State, Taken
<1> QED
  BY <1>1, <1>2, SameStates DEF Inv, Loaded

\* What holds while a wrapper runs, of the state that it took.
LEMMA InCall ==
  ASSUME Inv, call # NULL, NEW v, v = call.vcl
  PROVE  /\ v \in Vcls /\ call \in Running /\ Taken(v) /\ State(v) = call.state
         /\ call.state \in States
         /\ Held(v) \subseteq live
         /\ \A w \in Vcls \ {v} : ~Taken(w)
BY StateTypes DEF Inv, TypeOK, Running, Taken, State, HeapHeld

\* A wrapper that changes its state changes no other one, nor the place of any.
LEMMA StateChange ==
  ASSUME Inv, call # NULL, NEW v, v = call.vcl, NEW s \in States,
         call' = [call EXCEPT !.state = s], UNCHANGED <<temp, slot>>
  PROVE  /\ call' \in Running /\ State(v)' = s
         /\ \A w \in Vcls \ {v} : State(w)' = State(w)
         /\ InOnePlace'
<1>1. call' \in Running /\ call' # NULL /\ call'.vcl = v /\ call'.state = s
  BY InCall, NullAssumption DEF Running
<1> QED
  BY <1>1, InCall DEF State, Taken, InOnePlace, Inv

\* A new filter has a type that no other filter of the VCL has.
LEMMA RegisterStep ==
  ASSUME Inv, NEW t \in Fetch \cup Delivery, Register(t) PROVE Inv'
<1>0. PICK v : v = call.vcl
  OBVIOUS
<1>1. PICK b \in Boxes \ live :
         /\ type' = [type EXCEPT ![b] = t]
         /\ live' = live \cup {b}
         /\ AddFilter(v, b)
         /\ call' = [call EXCEPT !.state.filters = @ \cup {b}]
  BY <1>0 DEF Register
<1>2. call # NULL /\ Find(t) = {} /\ UNCHANGED <<temp, slot, objs>>
  BY DEF Register
<1>3. /\ v \in Vcls /\ call \in Running /\ State(v) = call.state /\ call.state \in States
      /\ Held(v) \subseteq live
  BY <1>0, <1>2, InCall
<1>4. PICK s : s = [call.state EXCEPT !.filters = @ \cup {b}]
  OBVIOUS
<1>5. /\ s \in States /\ s.filters = State(v).filters \cup {b} /\ s.data = State(v).data
      /\ call' = [call EXCEPT !.state = s]
  BY <1>1, <1>3, <1>4 DEF States, Running
<1>6. /\ call' \in Running /\ State(v)' = s /\ InOnePlace'
      /\ \A w \in Vcls \ {v} : State(w)' = State(w)
  BY <1>0, <1>2, <1>5, StateChange
<1>7. TypeOK'
  <2>1. known' \in [Vcls -> SUBSET Boxes] /\ refused' \subseteq Boxes
    BY <1>1, <1>3 DEF AddFilter, Inv, TypeOK
  <2> QED
    BY <1>1, <1>2, <1>3, <1>6, <2>1 DEF Inv, TypeOK
<1>8. HeapHeld'
  <2>1. /\ Held(v)' = (Held(v) \ {}) \cup {b} /\ live' = (live \ {}) \cup {b}
        /\ \A w \in Vcls \ {v} : State(w)' = State(w) /\ objs'[w] = objs[w]
    BY <1>1, <1>2, <1>5, <1>6 DEF Held
  <2>2. /\ State(v).data' \notin State(v).filters' \cup objs'[v]
        /\ State(v).filters' \cap objs'[v] = {}
    BY <1>1, <1>2, <1>3, <1>5, <1>6, NullAssumption DEF Held, HeapHeld, Inv
  <2>3. IsFiniteSet({b}) /\ {b} \subseteq Boxes \ live /\ {} \subseteq Held(v)
    BY FS_Singleton
  <2> QED
    BY <1>3, <1>7, <2>1, <2>2, <2>3, HeapChange
<1>9. Registered'
  <2>1. \A w \in Vcls : State(w).filters \subseteq live /\ State(w).filters \subseteq Boxes
    BY StateTypes DEF Inv, HeapHeld, Held
  <2>2. \A c \in State(v).filters : type[c] # t
    BY <1>2, <1>3 DEF Find
  <2>3. type'[b] = t /\ \A c \in Boxes \ {b} : type'[c] = type[c]
    BY <1>1 DEF Inv, TypeOK
  <2>4. b \notin refused /\ refused' \subseteq refused \cup {b}
    BY <1>1, <2>1 DEF AddFilter, Inv, Registered
  <2>5. \A w \in Vcls : known'[w] = State(w).filters' \ refused'
    <3>1. CASE known' = [known EXCEPT ![v] = @ \cup {b}] /\ UNCHANGED refused
      BY <1>3, <1>5, <1>6, <2>4, <3>1 DEF Inv, Registered, TypeOK
    <3>2. CASE refused' = refused \cup {b} /\ UNCHANGED known
      BY <1>1, <1>5, <1>6, <2>1, <3>2 DEF Inv, Registered
    <3> QED
      BY <1>1, <3>1, <3>2 DEF AddFilter
  <2>6. \A c, d \in State(v).filters' : type'[c] = type'[d] => c = d
    <3>1. State(v).filters' = State(v).filters \cup {b}
      BY <1>5, <1>6
    <3>2. \A c \in State(v).filters : c \in Boxes \ {b} /\ type'[c] # t
      BY <1>3, <2>1, <2>2, <2>3
    <3>3. \A c, d \in State(v).filters : type'[c] = type'[d] => c = d
      BY <1>3, <2>3, <3>2 DEF Inv, Registered
    <3> QED
      BY <2>3, <3>1, <3>2, <3>3
  <2>7. \A w \in Vcls \ {v} : \A c, d \in State(w).filters' : type'[c] = type'[d] => c = d
    BY <1>1, <1>6, <2>1, <2>3 DEF Inv, Registered
  <2>8. \A c \in refused' : \E w \in Vcls : c \in State(w).filters'
    BY <1>3, <1>5, <1>6, <2>4 DEF Inv, Registered
  <2> QED
    BY <2>5, <2>6, <2>7, <2>8 DEF Registered
<1> QED
  BY <1>6, <1>7, <1>8, <1>9 DEF Inv

\* A filter that is unregistered is gone on both sides.
LEMMA UnregisterStep ==
  ASSUME Inv, NEW t \in Fetch \cup Delivery, Unregister(t) PROVE Inv'
<1>0. PICK v : v = call.vcl
  OBVIOUS
<1>1. PICK b \in Find(t) :
         /\ call' = [call EXCEPT !.state.filters = @ \ {b}]
         /\ known' = [known EXCEPT ![v] = @ \ {b}]
         /\ live' = live \ {b}
         /\ refused' = refused \ {b}
  BY <1>0 DEF Unregister
<1>2. call # NULL /\ UNCHANGED <<temp, slot, type, objs>>
  BY DEF Unregister
<1>3. /\ v \in Vcls /\ call \in Running /\ State(v) = call.state /\ call.state \in States
      /\ Held(v) \subseteq live
  BY <1>0, <1>2, InCall
<1>4. PICK s : s = [call.state EXCEPT !.filters = @ \ {b}]
  OBVIOUS
<1>5. /\ s \in States /\ s.filters = State(v).filters \ {b} /\ s.data = State(v).data
      /\ call' = [call EXCEPT !.state = s] /\ b \in State(v).filters
  BY <1>1, <1>3, <1>4 DEF States, Running, Find
<1>6. /\ call' \in Running /\ State(v)' = s /\ InOnePlace'
      /\ \A w \in Vcls \ {v} : State(w)' = State(w)
  BY <1>0, <1>2, <1>5, StateChange
<1>7. TypeOK'
  BY <1>1, <1>2, <1>3, <1>6 DEF Inv, TypeOK
<1>8. HeapHeld'
  <2>1. State(v).data \notin State(v).filters \cup objs[v] /\ State(v).filters \cap objs[v] = {}
    BY <1>3 DEF Inv, HeapHeld
  <2>2. /\ Held(v)' = (Held(v) \ {b}) \cup {} /\ live' = (live \ {b}) \cup {}
        /\ \A w \in Vcls \ {v} : State(w)' = State(w) /\ objs'[w] = objs[w]
    BY <1>1, <1>2, <1>5, <1>6, <2>1 DEF Held
  <2>3. /\ State(v).data' \notin State(v).filters' \cup objs'[v]
        /\ State(v).filters' \cap objs'[v] = {}
    BY <1>2, <1>5, <1>6, <2>1
  <2>4. IsFiniteSet({}) /\ {} \subseteq Boxes \ live /\ {b} \subseteq Held(v)
    BY <1>5, FS_EmptySet DEF Held
  <2> QED
    BY <1>3, <1>7, <2>2, <2>3, <2>4, HeapChange
<1>9. Registered'
  <2>1. \A w \in Vcls \ {v} : b \notin State(w).filters
    BY <1>3, <1>5 DEF Inv, HeapHeld, Held
  <2>2. known'[v] = known[v] \ {b} /\ \A w \in Vcls \ {v} : known'[w] = known[w]
    BY <1>1, <1>3 DEF Inv, TypeOK
  <2>3. State(v).filters' = State(v).filters \ {b}
    BY <1>5, <1>6
  <2>4. \A w \in Vcls : known'[w] = State(w).filters' \ refused'
    BY <1>1, <1>6, <2>1, <2>2, <2>3 DEF Inv, Registered
  <2>5. \A w \in Vcls : \A c, d \in State(w).filters' : type'[c] = type'[d] => c = d
    BY <1>2, <1>6, <2>3 DEF Inv, Registered
  <2>6. \A c \in refused' : \E w \in Vcls : c \in State(w).filters'
    BY <1>1, <1>6, <2>3 DEF Inv, Registered
  <2> QED
    BY <2>4, <2>5, <2>6 DEF Registered
<1> QED
  BY <1>6, <1>7, <1>8, <1>9 DEF Inv

\* The data that is replaced goes when the new one comes.
LEMMA SetDataStep ==
  ASSUME Inv, NEW b \in Boxes, SetData(b) PROVE Inv'
<1>0. PICK v : v = call.vcl
  OBVIOUS
<1>1. /\ call # NULL /\ b \notin live
      /\ live' = (live \ {call.state.data}) \cup {b}
      /\ type' = [type EXCEPT ![b] = NULL]
      /\ call' = [call EXCEPT !.state.data = b]
      /\ UNCHANGED <<temp, slot, objs, known, refused>>
  BY DEF SetData
<1>3. /\ v \in Vcls /\ call \in Running /\ State(v) = call.state /\ call.state \in States
      /\ Held(v) \subseteq live
  BY <1>0, <1>1, InCall
<1>4. PICK s : s = [call.state EXCEPT !.data = b]
  OBVIOUS
<1>5. /\ s \in States /\ s.filters = State(v).filters /\ s.data = b
      /\ call' = [call EXCEPT !.state = s]
  BY <1>1, <1>3, <1>4 DEF States, Running
<1>6. /\ call' \in Running /\ State(v)' = s /\ InOnePlace'
      /\ \A w \in Vcls \ {v} : State(w)' = State(w)
  BY <1>0, <1>1, <1>5, StateChange
<1>7. TypeOK'
  BY <1>1, <1>3, <1>6 DEF Inv, TypeOK
<1>8. HeapHeld'
  <2>1. State(v).data \notin State(v).filters \cup objs[v] /\ State(v).filters \cap objs[v] = {}
    BY <1>3 DEF Inv, HeapHeld
  <2>2. PICK gone : gone = {State(v).data} \ {NULL}
    OBVIOUS
  <2>3. live' = (live \ gone) \cup {b}
    BY <1>1, <1>3, <2>2, NullAssumption DEF Inv, TypeOK
  <2>4. Held(v)' = (Held(v) \ gone) \cup {b}
    BY <1>1, <1>5, <1>6, <2>1, <2>2, NullAssumption DEF Held
  <2>5. \A w \in Vcls \ {v} : State(w)' = State(w) /\ objs'[w] = objs[w]
    BY <1>1, <1>6
  <2>6. /\ State(v).data' \notin State(v).filters' \cup objs'[v]
        /\ State(v).filters' \cap objs'[v] = {}
    BY <1>1, <1>3, <1>5, <1>6, <2>1 DEF Held
  <2>7. IsFiniteSet({b}) /\ {b} \subseteq Boxes \ live /\ gone \subseteq Held(v)
    BY <1>1, <2>2, FS_Singleton DEF Held
  <2> QED
    BY <1>3, <1>7, <2>3, <2>4, <2>5, <2>6, <2>7, HeapChange
<1>9. Registered'
  <2>1. \A w \in Vcls : State(w).filters \subseteq live
    BY StateTypes DEF Inv, HeapHeld, Held
  <2>2. \A c \in live : type'[c] = type[c]
    BY <1>1 DEF Inv, TypeOK
  <2>3. \A w \in Vcls : State(w).filters' = State(w).filters
    BY <1>5, <1>6
  <2> QED
    BY <1>1, <2>1, <2>2, <2>3 DEF Inv, Registered
<1> QED
  BY <1>6, <1>7, <1>8, <1>9 DEF Inv

\* The destructor of an object leaves the state of its VCL where it is.
LEMMA DestroyStep ==
  ASSUME Inv, NEW v \in Vcls, NEW b \in Boxes, Destroy(v, b) PROVE Inv'
<1>1. /\ b \in objs[v] /\ objs' = [objs EXCEPT ![v] = @ \ {b}] /\ live' = live \ {b}
      /\ UNCHANGED <<temp, slot, call, type, known, refused>>
  BY DEF Destroy
<1>2. TypeOK' /\ InOnePlace'
  BY <1>1 DEF Inv, TypeOK, InOnePlace, Taken
<1>3. \A w \in Vcls : State(w)' = State(w)
  BY <1>1 DEF State, Taken
<1>4. HeapHeld'
  <2>1. State(v).data \notin State(v).filters \cup objs[v] /\ State(v).filters \cap objs[v] = {}
    BY DEF Inv, HeapHeld
  <2>2. objs'[v] = objs[v] \ {b} /\ \A w \in Vcls \ {v} : objs'[w] = objs[w]
    BY <1>1 DEF Inv, TypeOK
  <2>3. Held(v)' = (Held(v) \ {b}) \cup {} /\ live' = (live \ {b}) \cup {}
    BY <1>1, <1>3, <2>1, <2>2 DEF Held
  <2>4. /\ State(v).data' \notin State(v).filters' \cup objs'[v]
        /\ State(v).filters' \cap objs'[v] = {}
    BY <1>3, <2>1, <2>2
  <2>5. IsFiniteSet({}) /\ {} \subseteq Boxes \ live /\ {b} \subseteq Held(v)
    BY <1>1, FS_EmptySet DEF Held
  <2>6. \A w \in Vcls \ {v} : State(w)' = State(w) /\ objs'[w] = objs[w]
    BY <1>3, <2>2
  <2> QED
    BY <1>2, <2>6, <2>3, <2>4, <2>5, HeapChange
<1>5. Registered'
  BY <1>1, <1>3 DEF Inv, Registered
<1> QED
  BY <1>2, <1>4, <1>5 DEF Inv

\* on_fini_per_vcl leaves a VCL with nothing.
LEMMA FiniStep ==
  ASSUME Inv, NEW v \in Vcls, Fini(v) PROVE Inv'
<1>1. /\ call = NULL /\ slot[v] # NULL /\ objs[v] = {}
      /\ known' = [known EXCEPT ![v] = @ \ slot[v].filters]
      /\ live' = live \ (slot[v].filters \cup {slot[v].data})
      /\ refused' = refused \ slot[v].filters
      /\ slot' = [slot EXCEPT ![v] = NULL]
      /\ temp' = [temp EXCEPT ![v] = "absent"]
      /\ UNCHANGED <<call, type, objs>>
  BY DEF Fini
<1>2. /\ \A w \in Vcls : ~Taken(w) /\ ~Taken(w)'
      /\ State(v) = slot[v] /\ State(v)' = Empty
      /\ \A w \in Vcls \ {v} : State(w)' = State(w)
  BY <1>1 DEF State, Taken, Inv, TypeOK
<1>3. TypeOK'
  BY <1>1 DEF Inv, TypeOK
<1>4. InOnePlace'
  BY <1>1, <1>2 DEF Inv, TypeOK, InOnePlace
<1>5. HeapHeld'
  <2>1. /\ State(v).filters \subseteq Boxes /\ State(v).data \in Boxes \cup {NULL}
        /\ Held(v) \subseteq live
    BY StateTypes DEF Inv, HeapHeld
  <2>2. PICK gone : gone = Held(v)
    OBVIOUS
  <2>3. gone = State(v).filters \cup ({State(v).data} \ {NULL})
    BY <1>1, <2>2 DEF Held
  <2>4. live' = (live \ gone) \cup {}
    BY <1>1, <1>2, <2>3, NullAssumption DEF Inv, TypeOK
  <2>5. Held(v)' = (Held(v) \ gone) \cup {}
    BY <1>1, <1>2, <2>2 DEF Held, Empty
  <2>6. /\ State(v).data' \notin State(v).filters' \cup objs'[v]
        /\ State(v).filters' \cap objs'[v] = {}
    BY <1>1, <1>2 DEF Empty
  <2>7. IsFiniteSet({}) /\ {} \subseteq Boxes \ live /\ gone \subseteq Held(v)
    BY <2>2, FS_EmptySet
  <2>8. \A w \in Vcls \ {v} : State(w)' = State(w) /\ objs'[w] = objs[w]
    BY <1>1, <1>2
  <2> QED
    BY <1>3, <2>4, <2>5, <2>6, <2>7, <2>8, HeapChange
<1>6. Registered'
  <2>1. known'[v] = {} /\ \A w \in Vcls \ {v} : known'[w] = known[w]
    BY <1>1, <1>2 DEF Inv, Registered, TypeOK
  <2>2. State(v).filters' = {}
    BY <1>2 DEF Empty
  <2>3. \A w \in Vcls \ {v} : State(w).filters \cap State(v).filters = {}
    BY DEF Inv, HeapHeld, Held
  <2>4. refused' = refused \ State(v).filters
    BY <1>1, <1>2
  <2>5. \A w \in Vcls : known'[w] = State(w).filters' \ refused'
    BY <1>2, <2>1, <2>2, <2>3, <2>4 DEF Inv, Registered
  <2>6. \A w \in Vcls : \A c, d \in State(w).filters' : type'[c] = type'[d] => c = d
    BY <1>1, <1>2, <2>2 DEF Inv, Registered
  <2>7. \A c \in refused' : \E w \in Vcls : c \in State(w).filters'
    BY <1>2, <2>4 DEF Inv, Registered
  <2> QED
    BY <2>5, <2>6, <2>7 DEF Registered
<1> QED
  BY <1>3, <1>4, <1>5, <1>6 DEF Inv

\* Every step keeps the invariant.
LEMMA StepInv == Inv /\ [Next]_vars => Inv'
<1> SUFFICES ASSUME Inv, [Next]_vars PROVE Inv'
  OBVIOUS
<1>1. ASSUME NEW v \in Vcls, Loaded(v) PROVE Inv'
  BY <1>1, LoadedStep
<1>2. ASSUME NEW v \in Vcls, Fini(v) PROVE Inv'
  BY <1>2, FiniStep
<1>3. ASSUME NEW v \in Vcls, NEW ev \in Events, Enter(v, ev) PROVE Inv'
  BY <1>3, EnterStep
<1>4. ASSUME NEW t \in Fetch \cup Delivery, Register(t) PROVE Inv'
  BY <1>4, RegisterStep
<1>5. ASSUME NEW t \in Fetch \cup Delivery, Unregister(t) PROVE Inv'
  BY <1>5, UnregisterStep
<1>6. ASSUME NEW b \in Boxes, SetData(b) PROVE Inv'
  BY <1>6, SetDataStep
<1>7. ASSUME NEW b \in Boxes, NEW v \in Vcls, Destroy(v, b) PROVE Inv'
  BY <1>7, DestroyStep
<1>8. ASSUME Return PROVE Inv'
  BY <1>8, ReturnStep
<1>9. ASSUME UNCHANGED vars PROVE Inv'
  BY <1>9 DEF vars, Inv, TypeOK, InOnePlace, HeapHeld, Registered, Held, State, Taken
<1> QED
  BY <1>1, <1>2, <1>3, <1>4, <1>5, <1>6, <1>7, <1>8, <1>9 DEF Next

-----------------------------------------------------------------------------
\* The invariant holds in every state the program reaches.
THEOREM Invariance == Spec => []Inv
BY InitInv, StepInv, PTL DEF Spec

\* The types of the state: what the wrapper took is a state, and of a VCL.
THEOREM TypeCorrect == Spec => []TypeOK
<1>1. Inv => TypeOK
  BY DEF Inv
<1> QED
  BY <1>1, Invariance, PTL

\* The raw pointers that varnishd keeps are to filters that exist, and it has
\* every filter that the vmod registered, whatever the calls returned.
THEOREM FiltersAlwaysAgree == Spec => []FiltersAgree
BY InvImplies, Invariance, PTL

\* Every box has one owner and is dropped with it, and a VCL's state is always
\* somewhere, in calls that fail and in loads that fail too.
THEOREM NothingEverLost == Spec => []NothingLost
BY InvImplies, Invariance, PTL
=============================================================================
