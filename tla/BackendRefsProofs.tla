--------------------------- MODULE BackendRefsProofs ---------------------------
(***************************************************************************)
(* Proofs about BackendRefs, for any backends, directors and tasks.        *)
(***************************************************************************)
EXTENDS BackendRefs, FiniteSetTheorems, TLAPS

Holders(d) == {h \in Dirs : d \in stored[h]}
Users(d)   == {t \in Tasks : tref[t] = d}
Bit(p)     == IF p THEN 1 ELSE 0

\* The inductive invariant, in parts: a static backend is always there, a made
\* one has a vcldir from its birth on, and only what was born is referred to;
Shape ==
  /\ \A d \in Static : owner[d] = "static" /\ refcnt[d] = 0 /\ vdir[d] = "live"
  /\ \A d \in Made : owner[d] # "static" /\ (owner[d] = "unmade" <=> vdir[d] = "unmade")
  /\ \A h \in Dirs : \A d \in stored[h] : d # h /\ owner[d] # "unmade"
  /\ \A t \in Tasks : /\ tref[t] # NULL => owner[tref[t]] # "unmade"
                      /\ traw[t] # NULL => owner[traw[t]] # "unmade"

\* the count is exact, also after memory was used that is free;
Counted == \A d \in Made :
  refcnt[d] = Bit(owner[d] = "live") + Cardinality(Holders(d)) + Cardinality(Users(d))
Placed == ~Corrupt => \A d \in Made : vdir[d] = "live" <=> refcnt[d] > 0

\* and while no owner was hasty, whatever is referred to has its owner.
Owned == hasty = {} =>
  /\ faults = {}
  /\ \A h \in Dirs : \A d \in stored[h] : Nameable(d)
  /\ \A t \in Tasks : /\ tref[t] # NULL => Nameable(tref[t])
                      /\ traw[t] # NULL => Nameable(traw[t])

Inv == TypeOK /\ Shape /\ Counted /\ Placed /\ Owned

\* Made, static: a director is one or the other.
LEMMA Kinds == /\ Dirs = Made \cup Static /\ Made \cap Static = {}
               /\ Backends \subseteq Made /\ Directors \subseteq Made /\ Native \subseteq Made
               /\ \A d \in Rust : d \in Made /\ d \notin Native
BY DirsAssumption DEF Dirs, Made, Rust

\* The references to a director can be counted.
LEMMA Counts ==
  ASSUME NEW d
  PROVE  /\ IsFiniteSet(Holders(d)) /\ IsFiniteSet(Users(d))
         /\ Cardinality(Holders(d)) \in Nat /\ Cardinality(Users(d)) \in Nat
<1>1. Holders(d) \subseteq Dirs /\ Users(d) \subseteq Tasks
  BY DEF Holders, Users
<1>2. IsFiniteSet(Holders(d)) /\ IsFiniteSet(Users(d))
  BY <1>1, DirsAssumption, FS_Subset
<1> QED
  BY <1>2, FS_CardinalityType

\* The invariant gives both properties that the run checks.
LEMMA InvImplies == Inv => RefsExact /\ NoFault
<1> SUFFICES ASSUME Inv PROVE RefsExact /\ NoFault
  OBVIOUS
<1>1. ASSUME NEW d \in Made
      PROVE  refcnt[d] = (IF owner[d] = "live" THEN 1 ELSE 0) + References(d)
  <2>1. References(d) = Cardinality(Holders(d)) + Cardinality(Users(d))
    BY DEF References, Holders, Users
  <2>2. refcnt[d] = Bit(owner[d] = "live") + Cardinality(Holders(d)) + Cardinality(Users(d))
    BY DEF Inv, Counted
  <2>3. Cardinality(Holders(d)) \in Nat /\ Cardinality(Users(d)) \in Nat
    BY Counts
  <2> QED
    BY <2>1, <2>2, <2>3 DEF Bit
<1>2. RefsExact
  BY <1>1 DEF Inv, Placed, RefsExact
<1>3. NoFault
  BY DEF Inv, Owned, NoFault
<1> QED
  BY <1>2, <1>3

\* A change of what one director stores counts for what it changes.
LEMMA HoldersChange ==
  ASSUME NEW h \in Dirs, \A g \in Dirs \ {h} : stored'[g] = stored[g], NEW d
  PROVE  Cardinality(Holders(d))' =
           Cardinality(Holders(d)) + Bit(d \in stored'[h]) - Bit(d \in stored[h])
<1>1. IsFiniteSet(Holders(d)) /\ Cardinality(Holders(d)) \in Nat
  BY Counts
<1>2. CASE d \in stored[h] /\ d \in stored'[h]
  <2>1. Holders(d)' = Holders(d)
    BY <1>2 DEF Holders
  <2> QED
    BY <1>1, <1>2, <2>1 DEF Bit
<1>3. CASE d \in stored[h] /\ d \notin stored'[h]
  <2>1. Holders(d)' = Holders(d) \ {h} /\ h \in Holders(d)
    BY <1>3 DEF Holders
  <2>2. Cardinality(Holders(d) \ {h}) = Cardinality(Holders(d)) - 1
    BY <1>1, <2>1, FS_RemoveElement
  <2> QED
    BY <1>1, <1>3, <2>1, <2>2 DEF Bit
<1>4. CASE d \notin stored[h] /\ d \in stored'[h]
  <2>1. Holders(d)' = Holders(d) \cup {h} /\ h \notin Holders(d)
    BY <1>4 DEF Holders
  <2>2. Cardinality(Holders(d) \cup {h}) = Cardinality(Holders(d)) + 1
    BY <1>1, <2>1, FS_AddElement
  <2> QED
    BY <1>1, <1>4, <2>1, <2>2 DEF Bit
<1>5. CASE d \notin stored[h] /\ d \notin stored'[h]
  <2>1. Holders(d)' = Holders(d)
    BY <1>5 DEF Holders
  <2> QED
    BY <1>1, <1>5, <2>1 DEF Bit
<1> QED
  BY <1>2, <1>3, <1>4, <1>5

\* So does a change of what one task runs through.
LEMMA UsersChange ==
  ASSUME NEW t \in Tasks, \A u \in Tasks \ {t} : tref'[u] = tref[u], NEW d
  PROVE  Cardinality(Users(d))' = Cardinality(Users(d)) + Bit(tref'[t] = d) - Bit(tref[t] = d)
<1>1. IsFiniteSet(Users(d)) /\ Cardinality(Users(d)) \in Nat
  BY Counts
<1>2. CASE tref[t] = d /\ tref'[t] = d
  <2>1. Users(d)' = Users(d)
    BY <1>2 DEF Users
  <2> QED
    BY <1>1, <1>2, <2>1 DEF Bit
<1>3. CASE tref[t] = d /\ tref'[t] # d
  <2>1. Users(d)' = Users(d) \ {t} /\ t \in Users(d)
    BY <1>3 DEF Users
  <2>2. Cardinality(Users(d) \ {t}) = Cardinality(Users(d)) - 1
    BY <1>1, <2>1, FS_RemoveElement
  <2> QED
    BY <1>1, <1>3, <2>1, <2>2 DEF Bit
<1>4. CASE tref[t] # d /\ tref'[t] = d
  <2>1. Users(d)' = Users(d) \cup {t} /\ t \notin Users(d)
    BY <1>4 DEF Users
  <2>2. Cardinality(Users(d) \cup {t}) = Cardinality(Users(d)) + 1
    BY <1>1, <2>1, FS_AddElement
  <2> QED
    BY <1>1, <1>4, <2>1, <2>2 DEF Bit
<1>5. CASE tref[t] # d /\ tref'[t] # d
  <2>1. Users(d)' = Users(d)
    BY <1>5 DEF Users
  <2> QED
    BY <1>1, <1>5, <2>1 DEF Bit
<1> QED
  BY <1>2, <1>3, <1>4, <1>5

\* Whoever is referred to, or has an owner, has a count, and a vcldir unless
\* memory was used that is free.
LEMMA Positive ==
  ASSUME Inv, NEW d \in Made,
         owner[d] = "live" \/ (\E h \in Dirs : d \in stored[h]) \/ \E t \in Tasks : tref[t] = d
  PROVE  refcnt[d] > 0 /\ (~Corrupt => vdir[d] = "live")
<1>1. CASE owner[d] = "live"
  BY <1>1, Counts DEF Inv, Counted, Placed, Bit
<1>2. CASE \E h \in Dirs : d \in stored[h]
  <2>1. Holders(d) # {}
    BY <1>2 DEF Holders
  <2>2. Cardinality(Holders(d)) # 0
    BY <2>1, Counts, FS_EmptySet
  <2> QED
    BY <2>2, Counts DEF Inv, Counted, Placed, Bit
<1>3. CASE \E t \in Tasks : tref[t] = d
  <2>1. Users(d) # {}
    BY <1>3 DEF Users
  <2>2. Cardinality(Users(d)) # 0
    BY <2>1, Counts, FS_EmptySet
  <2> QED
    BY <2>2, Counts DEF Inv, Counted, Placed, Bit
<1> QED
  BY <1>1, <1>2, <1>3

\* A use of a director that has its owner is no fault.
LEMMA NoUseFault ==
  ASSUME Inv, hasty = {}, NEW d \in Dirs, Nameable(d)
  PROVE  UseFaults(d) = {} /\ RefFaults(d) = {} /\ ~Hollow(d)
<1>1. ~Corrupt
  BY DEF Inv, Owned, Corrupt
<1>2. CASE d \in Made
  <2>1. owner[d] = "live"
    BY <1>2 DEF Inv, Shape, Nameable
  <2> QED
    BY <1>1, <1>2, <2>1, Positive DEF UseFaults, RefFaults, Hollow
<1>3. CASE d \in Static
  BY <1>3 DEF Inv, Shape, UseFaults, RefFaults, Hollow
<1> QED
  BY <1>2, <1>3, Kinds

-----------------------------------------------------------------------------
\* Only the static backends are there at the start.
LEMMA InitInv == Init => Inv
<1> SUFFICES ASSUME Init PROVE Inv
  OBVIOUS
<1>1. TypeOK
  BY DEF Init, TypeOK
<1>2. Shape
  BY Kinds DEF Init, Shape
<1>3. Counted /\ Placed
  <2>1. ASSUME NEW d \in Made PROVE Holders(d) = {} /\ Users(d) = {}
    BY <2>1, Kinds, NullAssumption DEF Init, Holders, Users
  <2>2. \A d \in Made : Cardinality(Holders(d)) = 0 /\ Cardinality(Users(d)) = 0
    BY <2>1, FS_EmptySet
  <2> QED
    BY <2>2, Kinds DEF Init, Counted, Placed, Bit
<1>4. Owned
  BY DEF Init, Owned
<1> QED
  BY <1>1, <1>2, <1>3, <1>4 DEF Inv

\* What a step leaves that only looks at directors, or notes one to assign.
LEMMA LookStep ==
  ASSUME Inv, UNCHANGED <<owner, refcnt, vdir, stored, tref, hasty>>,
         NEW new \in SUBSET {"assert", "methods", "vdir"}, Add(new), hasty = {} => new = {},
         traw' \in [Tasks -> Dirs \cup {NULL}],
         \A t \in Tasks : traw'[t] # NULL =>
            /\ owner[traw'[t]] # "unmade"
            /\ hasty = {} => Nameable(traw'[t])
  PROVE  Inv'
<1>1. TypeOK'
  BY DEF Inv, TypeOK, Add
<1>2. Shape'
  BY DEF Inv, Shape
<1>3. \A d : Holders(d)' = Holders(d) /\ Users(d)' = Users(d)
  BY DEF Holders, Users
<1>4. Counted' /\ Placed'
  BY <1>3 DEF Inv, Counted, Placed, Corrupt, Add
<1>5. Owned'
  BY DEF Inv, Owned, Nameable, Add
<1> QED
  BY <1>1, <1>2, <1>4, <1>5 DEF Inv

\* What can be wrong is of three kinds.
LEMMA FaultKinds ==
  ASSUME NEW d \in Dirs
  PROVE  /\ UseFaults(d) \in SUBSET {"assert", "methods", "vdir"}
         /\ RefFaults(d) \in SUBSET {"assert", "methods", "vdir"}
BY DEF UseFaults, RefFaults

\* The callbacks.
LEMMA CallsInv ==
  ASSUME Inv, NEW d \in Dirs, NEW h \in Dirs, CallBackend(d) \/ CallDirector(d) \/ Probe(h, d)
  PROVE  Inv'
<1>1. ASSUME NEW e \in Rust, hasty = {}, vdir[e] = "live" PROVE Nameable(e)
  <2>1. e \in Made /\ refcnt[e] > 0
    BY <1>1, Kinds DEF Inv, Placed, Owned, Corrupt
  <2>2. CASE owner[e] = "live"
    BY <2>2 DEF Nameable
  <2>3. CASE Holders(e) # {} \/ Users(e) # {}
    BY <1>1, <2>1, <2>3, Kinds, NullAssumption DEF Inv, Owned, Holders, Users
  <2>4. CASE owner[e] # "live" /\ Holders(e) = {} /\ Users(e) = {}
    <3>1. Cardinality(Holders(e)) = 0 /\ Cardinality(Users(e)) = 0
      BY <2>4, FS_EmptySet
    <3> QED
      BY <2>1, <2>4, <3>1 DEF Inv, Counted, Bit
  <2> QED
    BY <2>2, <2>3, <2>4
<1>2. CASE CallBackend(d)
  <2>1. /\ d \in Rust /\ vdir[d] = "live" /\ Add(UseFaults(d))
        /\ UNCHANGED <<owner, refcnt, vdir, stored, tref, traw, hasty>>
    BY <1>2 DEF CallBackend, Listed
  <2>2. hasty = {} => UseFaults(d) = {}
    BY <1>1, <2>1, NoUseFault
  <2> QED
    BY FaultKinds, <2>1, <2>2, LookStep DEF Inv, TypeOK, Shape, Owned
<1>3. CASE CallDirector(d)
  <2>1. PICK probed \in SUBSET stored[d] : Add(UNION {UseFaults(e) : e \in {d} \cup probed})
    BY <1>3 DEF CallDirector
  <2>2. PICK new : new = UNION {UseFaults(e) : e \in {d} \cup probed}
    OBVIOUS
  <2>3. /\ d \in Rust /\ vdir[d] = "live" /\ probed \subseteq Dirs
        /\ UNCHANGED <<owner, refcnt, vdir, stored, tref, traw, hasty>>
    BY <1>3 DEF CallDirector, Listed, Inv, TypeOK
  <2>4. new \in SUBSET {"assert", "methods", "vdir"}
    BY FaultKinds, <2>2, <2>3
  <2>5. hasty = {} => new = {}
    <3>1. hasty = {} => \A e \in {d} \cup probed : Nameable(e)
      BY <1>1, <2>3 DEF Inv, Owned
    <3> QED
      BY <2>2, <2>3, <3>1, NoUseFault
  <2> QED
    BY <2>1, <2>2, <2>3, <2>4, <2>5, LookStep DEF Inv, TypeOK, Shape, Owned
<1>4. CASE Probe(h, d)
  <2>1. /\ d \in stored[h] /\ Add(UseFaults(d))
        /\ UNCHANGED <<owner, refcnt, vdir, stored, tref, traw, hasty>>
    BY <1>4 DEF Probe
  <2>2. hasty = {} => UseFaults(d) = {}
    BY <2>1, NoUseFault DEF Inv, Owned
  <2> QED
    BY FaultKinds, <2>1, <2>2, LookStep DEF Inv, TypeOK, Shape, Owned
<1> QED
  BY <1>2, <1>3, <1>4

\* The tasks that use a director, or ask for one.
LEMMA TasksInv ==
  ASSUME Inv, NEW t \in Tasks, Pipe(t) \/ \E d \in Dirs : Hint(t, d) \/ Resolve(t, d)
  PROVE  Inv'
<1>5. CASE Pipe(t)
  <2>1. /\ tref[t] \in Dirs /\ Add(UseFaults(tref[t]))
        /\ UNCHANGED <<owner, refcnt, vdir, stored, tref, traw, hasty>>
    BY <1>5, Kinds DEF Pipe
  <2>2. hasty = {} => UseFaults(tref[t]) = {}
    BY <2>1, NoUseFault, NullAssumption DEF Inv, Owned
  <2> QED
    BY FaultKinds, <2>1, <2>2, LookStep DEF Inv, TypeOK, Shape, Owned
<1>6. ASSUME NEW d \in Dirs, Hint(t, d) PROVE Inv'
  <2>1. /\ Nameable(d) /\ traw' = [traw EXCEPT ![t] = d] /\ Add(RefFaults(d))
        /\ UNCHANGED <<owner, refcnt, vdir, stored, tref, hasty>>
    BY <1>6 DEF Hint
  <2>2. hasty = {} => RefFaults(d) = {}
    BY <2>1, NoUseFault
  <2>3. /\ traw' \in [Tasks -> Dirs \cup {NULL}]
        /\ \A u \in Tasks : traw'[u] = IF u = t THEN d ELSE traw[u]
    BY <2>1 DEF Inv, TypeOK
  <2>4. \A u \in Tasks : traw'[u] # NULL => /\ owner[traw'[u]] # "unmade"
                                            /\ hasty = {} => Nameable(traw'[u])
    BY <2>1, <2>3 DEF Inv, Shape, Owned, Nameable
  <2> QED
    BY FaultKinds, <2>1, <2>2, <2>3, <2>4, LookStep
<1>7. ASSUME NEW d \in Dirs, Resolve(t, d) PROVE Inv'
  <2>1. /\ tref[t] \in Dirs /\ d \in stored[tref[t]] /\ traw' = [traw EXCEPT ![t] = d]
        /\ Add(UseFaults(tref[t]) \cup RefFaults(d))
        /\ UNCHANGED <<owner, refcnt, vdir, stored, tref, hasty>>
    BY <1>7, Kinds DEF Resolve
  <2>2. hasty = {} => UseFaults(tref[t]) \cup RefFaults(d) = {} /\ Nameable(d)
    BY <2>1, NoUseFault, NullAssumption DEF Inv, Owned
  <2>3. /\ traw' \in [Tasks -> Dirs \cup {NULL}]
        /\ \A u \in Tasks : traw'[u] = IF u = t THEN d ELSE traw[u]
    BY <2>1 DEF Inv, TypeOK
  <2>4. \A u \in Tasks : traw'[u] # NULL => /\ owner[traw'[u]] # "unmade"
                                            /\ hasty = {} => Nameable(traw'[u])
    BY <2>1, <2>2, <2>3 DEF Inv, Shape, Owned
  <2>5. UseFaults(tref[t]) \cup RefFaults(d) \in SUBSET {"assert", "methods", "vdir"}
    BY FaultKinds, <2>1
  <2> QED
    BY <2>1, <2>2, <2>3, <2>4, <2>5, LookStep
<1> QED
  BY <1>5, <1>6, <1>7

-----------------------------------------------------------------------------
\* A director is born with one reference, which is its owner's.
LEMMA BornStep == ASSUME Inv, NEW d \in Made, Born(d) PROVE Inv'
<1>1. /\ owner[d] = "unmade" /\ d \in Dirs
      /\ owner' = [owner EXCEPT ![d] = "live"] /\ refcnt' = [refcnt EXCEPT ![d] = 1]
      /\ vdir' = [vdir EXCEPT ![d] = "live"]
      /\ UNCHANGED <<stored, tref, traw, faults, hasty>>
  BY Kinds DEF Born
<1>2. /\ owner'[d] = "live" /\ refcnt'[d] = 1 /\ vdir'[d] = "live"
      /\ \A e \in Dirs \ {d} : owner'[e] = owner[e] /\ refcnt'[e] = refcnt[e] /\ vdir'[e] = vdir[e]
  BY <1>1 DEF Inv, TypeOK
<1>3. TypeOK'
  BY <1>1 DEF Inv, TypeOK
<1>4. \A e : Holders(e)' = Holders(e) /\ Users(e)' = Users(e)
  BY <1>1 DEF Holders, Users
<1>5. Holders(d) = {} /\ Users(d) = {}
  BY <1>1, NullAssumption DEF Inv, Shape, Holders, Users
<1>6. Shape'
  <2>1. \A e \in Dirs : owner[e] # "unmade" => owner'[e] # "unmade"
    BY <1>2
  <2>2. \A e \in Static : owner'[e] = "static" /\ refcnt'[e] = 0 /\ vdir'[e] = "live"
    BY <1>2, Kinds DEF Inv, Shape
  <2>3. \A e \in Made : owner'[e] # "static" /\ (owner'[e] = "unmade" <=> vdir'[e] = "unmade")
    BY <1>2, Kinds DEF Inv, Shape
  <2>4. \A h \in Dirs : \A e \in stored[h] : e # h /\ owner'[e] # "unmade"
    BY <2>1 DEF Inv, Shape, TypeOK
  <2>5. \A t \in Tasks : /\ tref[t] # NULL => owner'[tref[t]] # "unmade"
                         /\ traw[t] # NULL => owner'[traw[t]] # "unmade"
    BY <2>1 DEF Inv, Shape, TypeOK
  <2> QED
    BY <1>1, <2>2, <2>3, <2>4, <2>5 DEF Shape
<1>7. Counted'
  <2>1. Cardinality(Holders(d)) = 0 /\ Cardinality(Users(d)) = 0
    BY <1>5, FS_EmptySet
  <2>2. refcnt'[d] = Bit(owner'[d] = "live") + Cardinality(Holders(d)) + Cardinality(Users(d))
    BY <1>2, <2>1 DEF Bit
  <2>3. \A e \in Made \ {d} :
          refcnt'[e] = Bit(owner'[e] = "live") + Cardinality(Holders(e)) + Cardinality(Users(e))
    BY <1>2, Kinds DEF Inv, Counted
  <2> QED
    BY <1>4, <2>2, <2>3 DEF Counted
<1>8. Placed'
  BY <1>1, <1>2, Kinds DEF Inv, Placed, Corrupt
<1>9. Owned'
  <2>1. \A e \in Dirs : Nameable(e) => Nameable(e)'
    BY <1>2 DEF Nameable
  <2> QED
    BY <1>1, <2>1 DEF Inv, Owned, TypeOK
<1> QED
  BY <1>3, <1>6, <1>7, <1>8, <1>9 DEF Inv

\* A vmod method stores a reference that counts one.
LEMMA StoreStep == ASSUME Inv, NEW h \in Dirs, NEW d \in Dirs, Store(h, d) PROVE Inv'
<1>1. /\ Nameable(d) /\ d # h /\ d \notin stored[h]
      /\ stored' = [stored EXCEPT ![h] = @ \cup {d}]
      /\ refcnt' = IF d \in Static THEN refcnt ELSE [refcnt EXCEPT ![d] = @ + 1]
      /\ Add(RefFaults(d)) /\ UNCHANGED <<owner, vdir, tref, traw, hasty>>
  BY DEF Store
<1>2. /\ stored'[h] = stored[h] \cup {d} /\ \A g \in Dirs \ {h} : stored'[g] = stored[g]
      /\ \A e \in Dirs : refcnt'[e] = refcnt[e] + Bit(e = d /\ d \notin Static)
  BY <1>1 DEF Inv, TypeOK, Bit
<1>3. TypeOK'
  <2>1. stored' \in [Dirs -> SUBSET Dirs] /\ refcnt' \in [Dirs -> Nat]
    BY <1>1 DEF Inv, TypeOK
  <2>2. RefFaults(d) \subseteq {"assert", "methods", "vdir"}
    BY DEF RefFaults
  <2> QED
    BY <1>1, <2>1, <2>2 DEF Inv, TypeOK, Add
<1>4. owner[d] # "unmade"
  BY <1>1 DEF Nameable
<1>5. Shape'
  BY <1>1, <1>2, <1>4, Kinds DEF Inv, Shape, Bit
<1>6. Counted'
  <2>1. ASSUME NEW e \in Made
        PROVE  refcnt'[e] = Bit(owner[e] = "live") + Cardinality(Holders(e))' + Cardinality(Users(e))
    <3>1. Cardinality(Holders(e))' =
            Cardinality(Holders(e)) + Bit(e \in stored'[h]) - Bit(e \in stored[h])
      BY <1>2, HoldersChange
    <3>2. Bit(e \in stored'[h]) - Bit(e \in stored[h]) = Bit(e = d /\ d \notin Static)
      BY <1>1, <1>2, Kinds DEF Bit
    <3> QED
      BY <1>2, <3>1, <3>2, Counts, Kinds DEF Inv, Counted, Bit
  <2>2. \A e : Users(e)' = Users(e)
    BY <1>1 DEF Users
  <2> QED
    BY <1>1, <2>1, <2>2 DEF Counted
<1>7. Placed'
  <2>1. Corrupt' => Corrupt
    BY <1>1 DEF Add, RefFaults, Corrupt
  <2>2. Corrupt => Corrupt'
    BY <1>1 DEF Add, Corrupt
  <2>3. d \in Made => refcnt[d] > 0
    BY <1>1, Positive DEF Nameable, Inv, Shape
  <2> QED
    BY <1>1, <1>2, <2>1, <2>2, <2>3, Kinds DEF Inv, Placed, TypeOK, Bit
<1>8. Owned'
  <2>1. hasty = {} => RefFaults(d) = {}
    BY <1>1, NoUseFault
  <2>3. hasty = {} => \A g \in Dirs : \A e \in stored'[g] : Nameable(e)
    BY <1>1, <1>2 DEF Inv, Owned
  <2>4. hasty = {} => faults' = {}
    BY <1>1, <2>1 DEF Inv, Owned, Add
  <2>5. hasty = {} => \A t \in Tasks : /\ tref[t] # NULL => Nameable(tref[t])
                                       /\ traw[t] # NULL => Nameable(traw[t])
    BY DEF Inv, Owned
  <2>6. \A e : Nameable(e)' = Nameable(e)
    BY <1>1 DEF Nameable
  <2> QED
    BY <1>1, <2>3, <2>4, <2>5, <2>6 DEF Owned
<1> QED
  BY <1>3, <1>5, <1>6, <1>7, <1>8 DEF Inv

\* What is dropped counts one less, and its vcldir goes with the last.
LEMMA Dropping ==
  ASSUME Inv, NEW ds \in SUBSET Dirs, DropRefs(ds),
         \A d \in ds : owner[d] # "unmade" /\ RefFaults(d) = {}
  PROVE  /\ \A d \in Dirs : refcnt'[d] = refcnt[d] - Bit(d \in ds /\ d \in Made)
         /\ refcnt' \in [Dirs -> Nat] /\ vdir' \in [Dirs -> {"unmade", "live", "freed"}]
         /\ \A d \in Dirs : vdir'[d] = IF d \in Retired(ds) THEN "freed" ELSE vdir[d]
         /\ \A d \in Made : vdir'[d] = "unmade" <=> vdir[d] = "unmade"
         /\ \A d \in Static : vdir'[d] = "live" /\ refcnt'[d] = 0
         /\ \A d \in Made : refcnt[d] > 0 /\ refcnt'[d] = 0 <=> d \in Retired(ds)
         /\ faults' \subseteq {"assert", "methods", "vdir"} /\ (Corrupt' <=> Corrupt)
         /\ (\A d \in ds : ~Hollow(d)) => faults' = faults
         /\ Placed'
<1>1. \A d \in ds \cap Made : refcnt[d] > 0
  BY Kinds DEF RefFaults
<1>2. refcnt \in [Dirs -> Nat] /\ vdir \in [Dirs -> {"unmade", "live", "freed"}]
  BY DEF Inv, TypeOK
<1>3. /\ refcnt' = [d \in Dirs |-> IF d \in ds \cap Made /\ refcnt[d] > 0 THEN refcnt[d] - 1
                                   ELSE refcnt[d]]
      /\ vdir' = [d \in Dirs |-> IF d \in Retired(ds) THEN "freed" ELSE vdir[d]]
  BY DEF DropRefs
<1>4. \A d \in Dirs : refcnt'[d] = refcnt[d] - Bit(d \in ds /\ d \in Made)
  BY <1>1, <1>2, <1>3 DEF Bit
<1>5. refcnt' \in [Dirs -> Nat] /\ vdir' \in [Dirs -> {"unmade", "live", "freed"}]
  BY <1>2, <1>3
<1>6. \A d \in Made : vdir'[d] = "unmade" <=> vdir[d] = "unmade"
  BY <1>3, Kinds DEF Inv, Shape, Retired
<1>7. \A d \in Static : vdir'[d] = "live" /\ refcnt'[d] = 0
  BY <1>3, Kinds DEF Inv, Shape, Retired
<1>8. \A d \in Made : refcnt[d] > 0 /\ refcnt'[d] = 0 <=> d \in Retired(ds)
  BY <1>2, <1>4, Kinds DEF Retired, Bit
<1>9. UNION {RefFaults(d) : d \in ds} = {}
  OBVIOUS
<1>10. faults' = faults \cup (IF \E d \in Retired(ds) : Hollow(d) THEN {"methods"} ELSE {})
  BY <1>9 DEF DropRefs, Add
<1>11. faults' \subseteq {"assert", "methods", "vdir"} /\ (Corrupt' <=> Corrupt)
  BY <1>10 DEF Inv, TypeOK, Corrupt
<1>12. (\A d \in ds : ~Hollow(d)) => faults' = faults
  BY <1>10 DEF Retired
<1>13. Placed'
  <2>1. ASSUME NEW d \in Made, ~Corrupt PROVE vdir'[d] = "live" <=> refcnt'[d] > 0
    <3>1. d \in Dirs /\ refcnt[d] \in Nat /\ refcnt'[d] \in Nat
      BY <1>2, <1>5, Kinds
    <3>2. vdir[d] = "live" <=> refcnt[d] > 0
      BY <2>1 DEF Inv, Placed
    <3>3. CASE d \in Retired(ds)
      <4>1. vdir'[d] = "freed" /\ refcnt'[d] = 0
        BY <1>3, <1>8, <3>1, <3>3
      <4> QED
        BY <4>1
    <3>4. CASE d \notin Retired(ds)
      <4>1. vdir'[d] = vdir[d]
        BY <1>3, <3>1, <3>4
      <4>2. refcnt[d] > 0 <=> refcnt'[d] > 0
        <5>1. ~(refcnt[d] > 0 /\ refcnt'[d] = 0)
          BY <1>8, <3>4
        <5>2. refcnt'[d] <= refcnt[d]
          BY <1>4, <3>1 DEF Bit
        <5> QED
          BY <3>1, <5>1, <5>2
      <4> QED
        BY <3>2, <4>1, <4>2
    <3> QED
      BY <3>3, <3>4
  <2> QED
    BY <1>11, <2>1 DEF Placed
<1> QED
  BY <1>3, <1>4, <1>5, <1>6, <1>7, <1>8, <1>11, <1>12, <1>13

\* The reference that a director or a task has to d can be dropped.
LEMMA Droppable ==
  ASSUME Inv, NEW d \in Dirs,
         owner[d] = "live" \/ (\E h \in Dirs : d \in stored[h]) \/ \E t \in Tasks : tref[t] = d
  PROVE  owner[d] # "unmade" /\ RefFaults(d) = {}
<1>1. owner[d] # "unmade"
  BY NullAssumption DEF Inv, Shape
<1>2. d \in Made => refcnt[d] > 0
  BY Positive
<1> QED
  BY <1>1, <1>2, Kinds DEF RefFaults

\* An implementation drops a reference that it stored.
LEMMA RemoveStep == ASSUME Inv, NEW h \in Dirs, NEW d \in Dirs, Remove(h, d) PROVE Inv'
<1>0. PICK ds : ds = {d}
  OBVIOUS
<1>1. /\ d \in stored[h] /\ stored' = [stored EXCEPT ![h] = @ \ {d}] /\ DropRefs(ds)
      /\ UNCHANGED <<owner, tref, traw, hasty>>
  BY <1>0 DEF Remove
<1>2. /\ stored'[h] = stored[h] \ {d} /\ \A g \in Dirs \ {h} : stored'[g] = stored[g]
      /\ stored' \in [Dirs -> SUBSET Dirs]
  BY <1>1 DEF Inv, TypeOK
<1>3. ds \in SUBSET Dirs /\ \A e \in ds : owner[e] # "unmade" /\ RefFaults(e) = {}
  BY <1>0, <1>1, Droppable
<1>4. /\ \A e \in Dirs : refcnt'[e] = refcnt[e] - Bit(e \in ds /\ e \in Made)
      /\ refcnt' \in [Dirs -> Nat] /\ vdir' \in [Dirs -> {"unmade", "live", "freed"}]
      /\ \A e \in Dirs : vdir'[e] = IF e \in Retired(ds) THEN "freed" ELSE vdir[e]
      /\ \A e \in Made : vdir'[e] = "unmade" <=> vdir[e] = "unmade"
      /\ \A e \in Static : vdir'[e] = "live" /\ refcnt'[e] = 0
      /\ \A e \in Made : refcnt[e] > 0 /\ refcnt'[e] = 0 <=> e \in Retired(ds)
      /\ faults' \subseteq {"assert", "methods", "vdir"} /\ (Corrupt' <=> Corrupt)
      /\ (\A e \in ds : ~Hollow(e)) => faults' = faults
      /\ Placed'
  BY <1>1, <1>3, Dropping
<1>5. TypeOK'
  BY <1>1, <1>2, <1>4 DEF Inv, TypeOK
<1>6. Shape'
  BY <1>1, <1>2, <1>4 DEF Inv, Shape
<1>7. Counted'
  <2>1. ASSUME NEW e \in Made
        PROVE  refcnt'[e] = Bit(owner[e] = "live") + Cardinality(Holders(e))' + Cardinality(Users(e))
    <3>1. Cardinality(Holders(e))' =
            Cardinality(Holders(e)) + Bit(e \in stored'[h]) - Bit(e \in stored[h])
      BY <1>2, HoldersChange
    <3>2. Bit(e \in stored[h]) - Bit(e \in stored'[h]) = Bit(e \in ds /\ e \in Made)
      BY <1>0, <1>1, <1>2 DEF Bit
    <3>3. refcnt[e] = Bit(owner[e] = "live") + Cardinality(Holders(e)) + Cardinality(Users(e))
      BY DEF Inv, Counted
    <3>4. refcnt'[e] = refcnt[e] - Bit(e \in ds /\ e \in Made)
      BY <1>4, Kinds
    <3> QED
      BY <3>1, <3>2, <3>3, <3>4, Counts DEF Bit
  <2>2. \A e : Users(e)' = Users(e)
    BY <1>1 DEF Users
  <2> QED
    BY <1>1, <2>1, <2>2 DEF Counted
<1>9. Owned'
  <2>1. hasty = {} => faults' = {}
    BY <1>0, <1>1, <1>4, NoUseFault DEF Inv, Owned
  <2>2. \A e : Nameable(e)' = Nameable(e)
    BY <1>1 DEF Nameable
  <2> QED
    BY <1>1, <1>2, <2>1, <2>2 DEF Inv, Owned
<1> QED
  BY <1>4, <1>5, <1>6, <1>7, <1>9 DEF Inv

\* A task ends, and drops the reference to its director.
LEMMA DoneStep == ASSUME Inv, NEW t \in Tasks, Done(t) PROVE Inv'
<1>0. PICK d, ds : d = tref[t] /\ ds = {d}
  OBVIOUS
<1>1. /\ d \in Dirs /\ tref' = [tref EXCEPT ![t] = NULL] /\ DropRefs(ds)
      /\ UNCHANGED <<owner, stored, traw, hasty>>
  BY <1>0 DEF Done, Inv, TypeOK
<1>2. /\ tref'[t] = NULL /\ \A u \in Tasks \ {t} : tref'[u] = tref[u]
      /\ tref' \in [Tasks -> Dirs \cup {NULL}]
  BY <1>1 DEF Inv, TypeOK
<1>3. ds \in SUBSET Dirs /\ \A e \in ds : owner[e] # "unmade" /\ RefFaults(e) = {}
  BY <1>0, <1>1, Droppable
<1>4. /\ \A e \in Dirs : refcnt'[e] = refcnt[e] - Bit(e \in ds /\ e \in Made)
      /\ refcnt' \in [Dirs -> Nat] /\ vdir' \in [Dirs -> {"unmade", "live", "freed"}]
      /\ \A e \in Dirs : vdir'[e] = IF e \in Retired(ds) THEN "freed" ELSE vdir[e]
      /\ \A e \in Made : vdir'[e] = "unmade" <=> vdir[e] = "unmade"
      /\ \A e \in Static : vdir'[e] = "live" /\ refcnt'[e] = 0
      /\ \A e \in Made : refcnt[e] > 0 /\ refcnt'[e] = 0 <=> e \in Retired(ds)
      /\ faults' \subseteq {"assert", "methods", "vdir"} /\ (Corrupt' <=> Corrupt)
      /\ (\A e \in ds : ~Hollow(e)) => faults' = faults
      /\ Placed'
  BY <1>1, <1>3, Dropping
<1>5. TypeOK'
  BY <1>1, <1>2, <1>4 DEF Inv, TypeOK
<1>6. Shape'
  BY <1>1, <1>2, <1>4 DEF Inv, Shape
<1>7. Counted'
  <2>1. ASSUME NEW e \in Made
        PROVE  refcnt'[e] = Bit(owner[e] = "live") + Cardinality(Holders(e)) + Cardinality(Users(e))'
    <3>1. Cardinality(Users(e))' = Cardinality(Users(e)) + Bit(tref'[t] = e) - Bit(tref[t] = e)
      BY <1>2, UsersChange
    <3>2. Bit(tref[t] = e) - Bit(tref'[t] = e) = Bit(e \in ds /\ e \in Made)
      BY <1>0, <1>2, Kinds, NullAssumption DEF Bit
    <3> QED
      BY <1>4, <3>1, <3>2, Counts, Kinds DEF Inv, Counted, Bit
  <2>2. \A e : Holders(e)' = Holders(e)
    BY <1>1 DEF Holders
  <2> QED
    BY <1>1, <2>1, <2>2 DEF Counted
<1>9. Owned'
  <2>1. hasty = {} => faults' = {}
    BY <1>0, <1>1, <1>4, NoUseFault, NullAssumption DEF Inv, Owned
  <2>2. \A e : Nameable(e)' = Nameable(e)
    BY <1>1 DEF Nameable
  <2> QED
    BY <1>1, <1>2, <2>1, <2>2 DEF Inv, Owned
<1> QED
  BY <1>4, <1>5, <1>6, <1>7, <1>9 DEF Inv

\* The owner goes, with what it stores.
LEMMA DropStep == ASSUME Inv, NEW d \in Dirs, Drop(d) PROVE Inv'
<1>0. PICK ds : ds = {d} \cup stored[d]
  OBVIOUS
<1>1. /\ owner[d] = "live" /\ d \in Made
      /\ DropRefs(ds)
      /\ owner' = [owner EXCEPT ![d] = "dropped"] /\ stored' = [stored EXCEPT ![d] = {}]
      /\ hasty' = hasty \cup {e \in {d} : Referred(e)}
      /\ UNCHANGED <<tref, traw>>
  BY <1>0, Kinds DEF Drop, Inv, Shape
<1>2. /\ stored'[d] = {} /\ \A g \in Dirs \ {d} : stored'[g] = stored[g]
      /\ stored' \in [Dirs -> SUBSET Dirs]
      /\ owner'[d] = "dropped" /\ \A e \in Dirs \ {d} : owner'[e] = owner[e]
  BY <1>1 DEF Inv, TypeOK
<1>3. ds \in SUBSET Dirs /\ \A e \in ds : owner[e] # "unmade" /\ RefFaults(e) = {}
  <2>1. ds \in SUBSET Dirs
    BY <1>0 DEF Inv, TypeOK
  <2> QED
    BY <1>0, <1>1, <2>1, Droppable
<1>4. /\ \A e \in Dirs : refcnt'[e] = refcnt[e] - Bit(e \in ds /\ e \in Made)
      /\ refcnt' \in [Dirs -> Nat] /\ vdir' \in [Dirs -> {"unmade", "live", "freed"}]
      /\ \A e \in Dirs : vdir'[e] = IF e \in Retired(ds) THEN "freed" ELSE vdir[e]
      /\ \A e \in Made : vdir'[e] = "unmade" <=> vdir[e] = "unmade"
      /\ \A e \in Static : vdir'[e] = "live" /\ refcnt'[e] = 0
      /\ \A e \in Made : refcnt[e] > 0 /\ refcnt'[e] = 0 <=> e \in Retired(ds)
      /\ faults' \subseteq {"assert", "methods", "vdir"} /\ (Corrupt' <=> Corrupt)
      /\ (\A e \in ds : ~Hollow(e)) => faults' = faults
      /\ Placed'
  BY <1>1, <1>3, Dropping
<1>5. TypeOK'
  <2>1. owner' \in [Dirs -> {"unmade", "live", "dropped", "static"}] /\ hasty' \subseteq Made
    BY <1>1 DEF Inv, TypeOK
  <2> QED
    BY <1>1, <1>2, <1>4, <2>1 DEF Inv, TypeOK
<1>6. Shape'
  <2>1. \A e \in Dirs : owner'[e] = "unmade" <=> owner[e] = "unmade"
    BY <1>1, <1>2
  <2>2. \A e \in Static : owner'[e] = "static"
    BY <1>1, <1>2, Kinds DEF Inv, Shape
  <2>3. \A e \in Made : owner'[e] # "static" /\ (owner'[e] = "unmade" <=> vdir'[e] = "unmade")
    BY <1>2, <1>4, <2>1, Kinds DEF Inv, Shape
  <2>4. \A h \in Dirs : \A e \in stored'[h] : e # h /\ owner'[e] # "unmade"
    BY <1>2, <2>1 DEF Inv, Shape, TypeOK
  <2>5. \A t \in Tasks : /\ tref'[t] # NULL => owner'[tref'[t]] # "unmade"
                         /\ traw'[t] # NULL => owner'[traw'[t]] # "unmade"
    BY <1>1, <2>1 DEF Inv, Shape, TypeOK
  <2> QED
    BY <1>4, <2>2, <2>3, <2>4, <2>5 DEF Shape
<1>7. Counted'
  <2>1. ASSUME NEW e \in Made
        PROVE  refcnt'[e] = Bit(owner'[e] = "live") + Cardinality(Holders(e))' + Cardinality(Users(e))
    <3>1. Cardinality(Holders(e))' =
            Cardinality(Holders(e)) + Bit(e \in stored'[d]) - Bit(e \in stored[d])
      BY <1>2, HoldersChange
    <3>2. d \notin stored[d]
      BY DEF Inv, Shape
    <3>3. Bit(e \in ds /\ e \in Made) = Bit(owner[e] = "live") - Bit(owner'[e] = "live")
                                          + Bit(e \in stored[d])
      <4>1. CASE e = d
        BY <1>0, <1>1, <1>2, <3>2, <4>1 DEF Bit
      <4>2. CASE e # d
        BY <1>0, <1>2, <4>2, Kinds DEF Bit
      <4> QED
        BY <4>1, <4>2
    <3>4. refcnt[e] = Bit(owner[e] = "live") + Cardinality(Holders(e)) + Cardinality(Users(e))
      BY DEF Inv, Counted
    <3>5. refcnt'[e] = refcnt[e] - Bit(e \in ds /\ e \in Made)
      BY <1>4, Kinds
    <3>6. Bit(e \in stored'[d]) = 0
      BY <1>2 DEF Bit
    <3> QED
      BY <3>1, <3>3, <3>4, <3>5, <3>6, Counts DEF Bit
  <2>2. \A e : Users(e)' = Users(e)
    BY <1>1 DEF Users
  <2> QED
    BY <2>1, <2>2 DEF Counted
<1>9. Owned'
  <2>1. SUFFICES ASSUME hasty' = {} PROVE Owned'
    BY DEF Owned
  <2>2. /\ hasty = {} /\ \A h \in Dirs : d \notin stored[h]
        /\ \A t \in Tasks : tref[t] # d /\ traw[t] # d
    BY <1>1, <2>1 DEF Referred
  <2>3. faults' = {}
    <3>1. \A e \in ds : Nameable(e)
      BY <1>0, <1>1, <2>2 DEF Inv, Owned, Nameable
    <3> QED
      BY <1>3, <1>4, <2>2, <3>1, NoUseFault DEF Inv, Owned
  <2>4. \A e \in Dirs \ {d} : Nameable(e)' <=> Nameable(e)
    BY <1>2 DEF Nameable
  <2>5. \A h \in Dirs : \A e \in stored'[h] : Nameable(e)'
    BY <1>2, <2>2, <2>4 DEF Inv, Owned, TypeOK
  <2>6. \A t \in Tasks : /\ tref'[t] # NULL => owner'[tref'[t]] \in {"static", "live"}
                         /\ traw'[t] # NULL => owner'[traw'[t]] \in {"static", "live"}
    BY <1>1, <1>2, <2>2 DEF Inv, Owned, Nameable, TypeOK
  <2>7. \A h \in Dirs : \A e \in stored'[h] : owner'[e] \in {"static", "live"}
    BY <2>5 DEF Nameable
  <2> QED
    BY <2>3, <2>6, <2>7 DEF Owned, Nameable
<1> QED
  BY <1>4, <1>5, <1>6, <1>7, <1>9 DEF Inv

\* varnishd assigns a pointer: the task has a reference to d instead of its last.
LEMMA AssignStep == ASSUME Inv, NEW t \in Tasks, Assign(t) PROVE Inv'
<1>0. PICK d, old : d = traw[t] /\ old = {tref[t]} \ {NULL}
  OBVIOUS
<1>1. /\ d \in Dirs /\ d # NULL /\ owner[d] # "unmade" /\ old \subseteq Dirs
      /\ tref' = [tref EXCEPT ![t] = d] /\ traw' = [traw EXCEPT ![t] = NULL]
      /\ UNCHANGED <<owner, stored, hasty>>
  BY <1>0 DEF Assign, Inv, TypeOK, Shape
<1>2. hasty = {} => /\ Nameable(d) /\ UseFaults(d) = {} /\ RefFaults(d) = {}
                    /\ \A e \in old : ~Hollow(e)
  BY <1>0, <1>1, NoUseFault DEF Inv, Owned
<1>3. /\ tref'[t] = d /\ \A u \in Tasks \ {t} : tref'[u] = tref[u]
      /\ traw'[t] = NULL /\ \A u \in Tasks \ {t} : traw'[u] = traw[u]
      /\ tref' \in [Tasks -> Dirs \cup {NULL}] /\ traw' \in [Tasks -> Dirs \cup {NULL}]
  BY <1>1 DEF Inv, TypeOK
<1>4. CASE d \in old
  <2>1. Add(RefFaults(d)) /\ UNCHANGED <<refcnt, vdir>>
    BY <1>0, <1>4 DEF Assign
  <2>2. tref' = tref
    BY <1>0, <1>1, <1>4 DEF Inv, TypeOK
  <2>3. RefFaults(d) \in SUBSET {"assert", "methods", "vdir"}
    BY DEF RefFaults
  <2>4. \A u \in Tasks : traw'[u] # NULL => /\ owner[traw'[u]] # "unmade"
                                            /\ hasty = {} => Nameable(traw'[u])
    BY <1>3 DEF Inv, Shape, Owned
  <2> QED
    BY <1>1, <1>2, <1>3, <2>1, <2>2, <2>3, <2>4, LookStep
<1>5. CASE d \notin old
  <2>0. PICK gone, lost : /\ gone = IF \E e \in Retired(old) : Hollow(e) THEN {"methods"} ELSE {}
                          /\ lost = UNION {RefFaults(e) : e \in old}
    OBVIOUS
  <2>1. /\ refcnt' = [e \in Dirs |-> IF e \in Static THEN 0
                                     ELSE IF e = d THEN refcnt[e] + 1
                                     ELSE IF e \in old THEN refcnt[e] - 1 ELSE refcnt[e]]
        /\ vdir' = [e \in Dirs |-> IF e \in Retired(old) THEN "freed" ELSE vdir[e]]
        /\ Add(UseFaults(d) \cup RefFaults(d) \cup lost \cup gone)
    BY <1>0, <1>5, <2>0 DEF Assign
  <2>2. \A e \in old : owner[e] # "unmade" /\ RefFaults(e) = {} /\ (e \in Made => refcnt[e] > 0)
    BY <1>0, <1>1, Droppable, Positive
  <2>3. lost = {}
    BY <2>2, <2>0
  <2>5. faults' = faults \cup UseFaults(d) \cup RefFaults(d) \cup gone
    BY <2>1, <2>3 DEF Add
  <2>6. UseFaults(d) \cup RefFaults(d) \cup gone \subseteq {"assert", "methods", "vdir"}
    BY <2>0 DEF UseFaults, RefFaults
  <2>7. /\ \A e \in Static : refcnt'[e] = 0 /\ vdir'[e] = "live"
        /\ \A e \in Made : /\ refcnt'[e] = refcnt[e] + Bit(e = d) - Bit(e \in old)
                           /\ vdir'[e] = IF e \in Retired(old) THEN "freed" ELSE vdir[e]
    <3>1. \A e \in Static : refcnt'[e] = 0 /\ vdir'[e] = "live"
      BY <2>1, Kinds DEF Retired, Inv, Shape
    <3>2. ASSUME NEW e \in Made PROVE refcnt'[e] = refcnt[e] + Bit(e = d) - Bit(e \in old)
      <4>1. e \in Dirs /\ e \notin Static /\ refcnt[e] \in Nat
        BY Kinds DEF Inv, TypeOK
      <4> QED
        BY <1>5, <2>1, <4>1 DEF Bit
    <3> QED
      BY <2>1, <3>1, <3>2, Kinds
  <2>8. TypeOK'
    <3>1. vdir' \in [Dirs -> {"unmade", "live", "freed"}]
      BY <2>1 DEF Inv, TypeOK
    <3>2. ASSUME NEW e \in Dirs PROVE refcnt'[e] \in Nat
      <4>1. refcnt[e] \in Nat
        BY DEF Inv, TypeOK
      <4> QED
        BY <2>2, <2>7, <4>1, Kinds DEF Bit
    <3>3. refcnt' \in [Dirs -> Nat]
      BY <2>1, <3>2
    <3>4. faults' \subseteq {"assert", "methods", "vdir"}
      BY <2>5, <2>6 DEF Inv, TypeOK
    <3> QED
      BY <1>1, <1>3, <3>1, <3>3, <3>4 DEF Inv, TypeOK
  <2>9. Shape'
    <3>1. \A e \in Made : vdir'[e] = "unmade" <=> vdir[e] = "unmade"
      BY <2>2, <2>7 DEF Inv, Shape, Retired
    <3>2. \A u \in Tasks : /\ tref'[u] # NULL => owner[tref'[u]] # "unmade"
                           /\ traw'[u] # NULL => owner[traw'[u]] # "unmade"
      BY <1>1, <1>3 DEF Inv, Shape
    <3> QED
      BY <1>1, <2>7, <3>1, <3>2 DEF Inv, Shape
  <2>10. Counted'
    <3>1. ASSUME NEW e \in Made
          PROVE  refcnt'[e] = Bit(owner[e] = "live") + Cardinality(Holders(e)) + Cardinality(Users(e))'
      <4>1. Cardinality(Users(e))' = Cardinality(Users(e)) + Bit(tref'[t] = e) - Bit(tref[t] = e)
        BY <1>3, UsersChange
      <4>2. Bit(tref'[t] = e) = Bit(e = d) /\ Bit(tref[t] = e) = Bit(e \in old)
        BY <1>0, <1>3, Kinds, NullAssumption DEF Bit
      <4>3. refcnt[e] = Bit(owner[e] = "live") + Cardinality(Holders(e)) + Cardinality(Users(e))
        BY DEF Inv, Counted
      <4>4. refcnt'[e] = refcnt[e] + Bit(e = d) - Bit(e \in old)
        BY <2>7
      <4> QED
        BY <4>1, <4>2, <4>3, <4>4, Counts DEF Bit
    <3>2. \A e : Holders(e)' = Holders(e)
      BY <1>1 DEF Holders
    <3> QED
      BY <1>1, <3>1, <3>2 DEF Counted
  <2>11. Placed'
    <3>1. ASSUME ~Corrupt', NEW e \in Made PROVE vdir'[e] = "live" <=> refcnt'[e] > 0
      <4>1. ~Corrupt /\ vdir[d] # "freed"
        BY <2>5, <3>1 DEF Corrupt, UseFaults
      <4>2. refcnt[e] \in Nat /\ (vdir[e] = "live" <=> refcnt[e] > 0)
        BY <4>1, Kinds DEF Inv, TypeOK, Placed
      <4>3. /\ refcnt'[e] = refcnt[e] + Bit(e = d) - Bit(e \in old)
            /\ vdir'[e] = IF e \in Retired(old) THEN "freed" ELSE vdir[e]
        BY <2>7
      <4>4. CASE e = d
        <5>1. vdir[e] = "live"
          BY <1>1, <4>1, <4>4 DEF Inv, Shape, TypeOK
        <5>2. vdir'[e] = "live" /\ refcnt'[e] = refcnt[e] + 1
          BY <1>5, <4>2, <4>3, <4>4, <5>1 DEF Retired, Bit
        <5> QED
          BY <4>2, <5>2
      <4>5. CASE e # d /\ e \in old
        <5>1. refcnt'[e] = refcnt[e] - 1 /\ refcnt[e] > 0
          BY <2>2, <4>2, <4>3, <4>5 DEF Bit
        <5>2. vdir'[e] = IF refcnt[e] = 1 THEN "freed" ELSE vdir[e]
          BY <4>3, <4>5 DEF Retired
        <5> QED
          BY <4>2, <5>1, <5>2
      <4>6. CASE e # d /\ e \notin old
        BY <4>2, <4>3, <4>6 DEF Retired, Bit
      <4> QED
        BY <4>4, <4>5, <4>6
    <3> QED
      BY <3>1 DEF Placed
  <2>12. Owned'
    <3>1. hasty = {} => faults' = {}
      BY <1>2, <2>0, <2>5 DEF Inv, Owned, Retired
    <3>2. \A e : Nameable(e)' = Nameable(e)
      BY <1>1 DEF Nameable
    <3>3. hasty = {} => \A u \in Tasks : /\ tref'[u] # NULL => Nameable(tref'[u])
                                         /\ traw'[u] # NULL => Nameable(traw'[u])
      BY <1>2, <1>3 DEF Inv, Owned
    <3> QED
      BY <1>1, <3>1, <3>2, <3>3 DEF Inv, Owned
  <2> QED
    BY <2>8, <2>9, <2>10, <2>11, <2>12 DEF Inv
<1> QED
  BY <1>4, <1>5

-----------------------------------------------------------------------------
\* Every step keeps the invariant.
LEMMA StepInv == Inv /\ [Next]_vars => Inv'
<1> SUFFICES ASSUME Inv, [Next]_vars PROVE Inv'
  OBVIOUS
<1>1. CASE \E d \in Dirs : NewBackend(d) \/ NewDirector(d) \/ Build(d)
  BY <1>1, BornStep, Kinds DEF NewBackend, NewDirector, Build
<1>2. CASE \E d \in Dirs : Drop(d)
  BY <1>2, DropStep
<1>3. CASE \E h, d \in Dirs : Store(h, d) \/ Remove(h, d)
  BY <1>3, StoreStep, RemoveStep
<1>4. CASE \E d \in Dirs : CallBackend(d) \/ CallDirector(d)
  BY <1>4, CallsInv
<1>5. CASE \E h, d \in Dirs : Probe(h, d)
  BY <1>5, CallsInv
<1>6. CASE \E t \in Tasks : Assign(t) \/ Done(t)
  BY <1>6, AssignStep, DoneStep
<1>7. CASE \E t \in Tasks : Pipe(t) \/ \E d \in Dirs : Hint(t, d) \/ Resolve(t, d)
  BY <1>7, TasksInv
<1>8. CASE UNCHANGED vars
  <2>1. UNCHANGED <<owner, refcnt, vdir, stored, tref, traw, faults, hasty>>
    BY <1>8 DEF vars
  <2>2. faults' = faults \cup {}
    BY <2>1
  <2> QED
    BY <2>1, <2>2, LookStep DEF Inv, TypeOK, Shape, Owned, Add
<1> QED
  BY <1>1, <1>2, <1>3, <1>4, <1>5, <1>6, <1>7, <1>8 DEF Next

\* The invariant holds in every state the program reaches.
LEMMA Invariance == Spec => []Inv
BY InitInv, StepInv, PTL DEF Spec

\* What the state says of owners, counts, vcldirs and references is of its type,
\* after every step of backend_main.rs, director.rs and backend_ref.rs.
THEOREM TypeCorrect == Spec => []TypeOK
<1>1. Inv => TypeOK
  BY DEF Inv
<1> QED
  BY <1>1, Invariance, PTL

\* For any backends, directors and tasks, the count of every director made in
\* Rust is its owner and the references to it, and its vcldir exists exactly
\* while there is one (BackendRef::new, its Clone and Drop, Backend and Director).
THEOREM CountsAreExact == Spec => []RefsExact
BY InvImplies, Invariance, PTL

\* No assertion of BackendRef::new fails and no freed director is used, unless an
\* owner was dropped while a director stored a reference to it.
THEOREM NoFaultWithoutHaste == Spec => []NoFault
BY InvImplies, Invariance, PTL
=============================================================================
