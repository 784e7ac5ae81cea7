-------------------------------- MODULE VmodProofs ------------------------------
(***************************************************************************)
(* Proofs about what #[vmod] accepts and what the wrappers that it         *)
(* generates do: VmodPriv and VmodCalls, for any vmods, boxes, functions   *)
(* and subroutines, any nesting of calls and any workspace; and VmodParser *)
(* and VmodWrappers, for any functions with any arguments.                 *)
(***************************************************************************)
EXTENDS VmodCalls, VmodWrappers, FiniteSetTheorems, SequenceTheorems, Recursion, TLAPS

Holds(i) == calls[i].form = "mut" /\ calls[i].obj # NULL

\* The inductive invariant, in parts: a slot has methods with its object;
Slots == \A v \in Vmods : methods[v] <=> priv[v] # NULL

\* no two owners have the same object;
Single ==
  /\ \A v, w \in Vmods : priv[v] # NULL /\ priv[v] = priv[w] => v = w
  /\ \A i, j \in DOMAIN calls : Holds(i) /\ Holds(j) /\ calls[i].obj = calls[j].obj => i = j
  /\ \A v \in Vmods, i \in DOMAIN calls : Holds(i) => priv[v] # calls[i].obj

\* and what they have is allocated.
Owned == /\ \A v \in Vmods : priv[v] # NULL => priv[v] \in live
         /\ \A i \in DOMAIN calls : Holds(i) => calls[i].obj \in live

\* No call outlives the task.
Over == task = "over" => calls = <<>>

Inv == TypeOK /\ Slots /\ Single /\ Owned /\ Over

\* What a step does with the owners, and with the references.
Owner(o) == \/ \E v \in Vmods : priv[v] = o
            \/ \E i \in DOMAIN calls : Holds(i) /\ calls[i].obj = o
Kept == \A o \in live \cap live' :
          Owner(o) => Owner(o)' \/ \E v \in Vmods : priv[v] = o /\ PutBack(v)
Referred ==
  \A i \in DOMAIN calls' :
    /\ i \notin DOMAIN calls /\ Refers(i)' => InPlace(i)'
    /\ i \in DOMAIN calls /\ Refers(i) /\ InPlace(i) => InPlace(i)' \/ MutBelow(i) \/ MutBelow(i)'
Moves == Kept /\ Referred

\* The calls are a sequence, and each has a vmod, a form and an object or none.
LEMMA CallsAre ==
  ASSUME TypeOK
  PROVE  /\ Len(calls) \in Nat /\ DOMAIN calls = 1..Len(calls)
         /\ calls # <<>> => Len(calls) \in DOMAIN calls /\ Len(calls) > 0
         /\ \A i \in DOMAIN calls : /\ calls[i] \in Call
                                    /\ calls[i].vmod \in Vmods
                                    /\ calls[i].form \in {"ref", "mut", "refcell"}
                                    /\ calls[i].obj \in Objects \cup {NULL}
<1>1. calls \in Seq(Call)
  BY DEF TypeOK
<1>2. Len(calls) \in Nat /\ DOMAIN calls = 1..Len(calls) /\ \A i \in DOMAIN calls : calls[i] \in Call
  BY <1>1, LenProperties, ElementOfSeq
<1>3. calls # <<>> => Len(calls) > 0
  BY <1>1, EmptySeq
<1> QED
  BY <1>2, <1>3 DEF Call

\* Owner says who owns, before a step and after it.
LEMMA OwnersAre ==
  ASSUME NEW o \in Objects
  PROVE  (Owners(o) # {} <=> Owner(o)) /\ (Owners(o)' # {} <=> Owner(o)')
<1>0. o # NULL
  BY NullAssumption
<1>1. Owners(o) # {} => Owner(o)
  BY <1>0, SMT DEF Owners, Owner, Holds
<1>2. ASSUME NEW v \in Vmods, priv[v] = o PROVE Owners(o) # {}
  <2>1. <<"slot", v>> \in Owners(o)
    BY <1>2, SMT DEF Owners
  <2> QED
    BY <2>1
<1>3. ASSUME NEW i \in DOMAIN calls, Holds(i), calls[i].obj = o PROVE Owners(o) # {}
  <2>1. <<"call", i>> \in Owners(o)
    BY <1>3, SMT DEF Owners, Holds
  <2> QED
    BY <2>1
<1>4. Owners(o)' # {} => Owner(o)'
  BY <1>0, SMT DEF Owners, Owner, Holds
<1>5. ASSUME NEW v \in Vmods, priv'[v] = o PROVE Owners(o)' # {}
  <2>1. <<"slot", v>> \in Owners(o)'
    BY <1>5, SMT DEF Owners
  <2> QED
    BY <2>1, SMT
<1>6. ASSUME NEW i \in DOMAIN calls', Holds(i)', calls'[i].obj = o PROVE Owners(o)' # {}
  <2>1. <<"call", i>> \in Owners(o)'
    BY <1>6, SMT DEF Owners, Holds
  <2> QED
    BY <2>1, SMT
<1>7. Owner(o) => Owners(o) # {}
  BY <1>2, <1>3, SMT DEF Owner
<1>8. Owner(o)' => Owners(o)' # {}
  BY <1>5, <1>6, SMT DEF Owner
<1> QED
  BY <1>1, <1>4, <1>7, <1>8

\* An object has one owner, if the invariant holds.
LEMMA InvImplies == Inv => SoleOwner
<1> SUFFICES ASSUME Inv, NEW o \in Objects
             PROVE  Cardinality(Owners(o)) <= 1 /\ (Owners(o) # {} => o \in live)
  BY SMT DEF SoleOwner
<1> USE DEF Inv
<1>0. o # NULL
  BY NullAssumption
<1>1. CASE Owners(o) = {}
  BY <1>1, FS_EmptySet
<1>2. CASE Owners(o) # {}
  <2>1. PICK x : x \in Owners(o)
    BY <1>2
  <2>2. \A y \in Owners(o) : y = x
    BY <1>0, <2>1, SMT DEF Single, Owners, Holds
  <2>3. Owners(o) = {x}
    BY <2>1, <2>2
  <2>4. Cardinality(Owners(o)) = 1
    BY <2>3, FS_Singleton
  <2> QED
    BY <1>0, <1>2, <2>4, OwnersAre, SMT DEF Owner, Owned
<1> QED
  BY <1>1, <1>2

-----------------------------------------------------------------------------
\* Nothing is stored before the first task, nor in a new worker process.
LEMMA InitInv == Init => Inv
<1> SUFFICES ASSUME Init PROVE Inv
  OBVIOUS
<1>1. calls = <<>> /\ DOMAIN calls = {} /\ calls \in Seq(Call) /\ Len(calls) = 0
  BY EmptySeq DEF Init
<1>2. TypeOK
  BY <1>1, BoundAssumption DEF Init, TypeOK
<1> QED
  BY <1>1, <1>2, NullAssumption DEF Init, Inv, Slots, Single, Owned, Over

\* A call that is entered is the last, on top of those that were there.
LEMMA Pushed ==
  ASSUME TypeOK, Len(calls) < Depth, NEW c \in Call, calls' = Append(calls, c)
  PROVE  /\ calls' \in Seq(Call) /\ Len(calls') <= Depth
         /\ Len(calls') = Len(calls) + 1 /\ Len(calls') > Len(calls)
         /\ DOMAIN calls' = DOMAIN calls \cup {Len(calls) + 1}
         /\ Len(calls) + 1 \notin DOMAIN calls
         /\ \A i \in DOMAIN calls : calls'[i] = calls[i]
         /\ calls'[Len(calls) + 1] = c
<1>1. calls \in Seq(Call) /\ Len(calls) \in Nat /\ DOMAIN calls = 1..Len(calls)
  BY CallsAre DEF TypeOK
<1>2. /\ calls' \in Seq(Call) /\ Len(calls') = Len(calls) + 1
      /\ \A i \in 1..Len(calls) : calls'[i] = calls[i]
      /\ calls'[Len(calls) + 1] = c
  BY <1>1, AppendProperties
<1>3. DOMAIN calls' = 1..(Len(calls) + 1)
  BY <1>2, LenProperties
<1> QED
  BY <1>1, <1>2, <1>3, BoundAssumption

\* Option<&T>.
LEMMA EnterRefStep ==
  ASSUME Inv, NEW v \in Vmods, EnterRef(v) PROVE Inv' /\ Moves
<1> USE DEF Inv
<1>0. PICK n : n = Len(calls) + 1
  OBVIOUS
<1> DEFINE c == [vmod |-> v, form |-> "ref", obj |-> priv[v]]
<1>1. /\ calls' = Append(calls, c) /\ Len(calls) < Depth /\ task = "running"
      /\ UNCHANGED <<priv, methods, live, task>>
  BY DEF EnterRef, MayCall, Push
<1>2. c \in Call
  BY DEF Call, TypeOK
<1>3. /\ calls' \in Seq(Call) /\ Len(calls') <= Depth
      /\ DOMAIN calls' = DOMAIN calls \cup {n} /\ n \notin DOMAIN calls
      /\ \A i \in DOMAIN calls : calls'[i] = calls[i]
      /\ calls'[n] = c
  BY <1>0, <1>1, <1>2, Pushed
<1>4. TypeOK'
  BY <1>1, <1>3 DEF TypeOK
<1>5. \A i \in DOMAIN calls' : Holds(i)' <=> i \in DOMAIN calls /\ Holds(i)
  BY <1>3 DEF Holds
<1>6. Slots' /\ Single' /\ Owned' /\ Over'
  BY <1>1, <1>3, <1>5 DEF Slots, Single, Owned, Over
<1>7. Kept
  BY <1>1, <1>3, <1>5, SMT DEF Kept, Owner
<1>8. Referred
  <2>1. Refers(n)' => InPlace(n)'
    BY <1>1, <1>3, SMT DEF Refers, InPlace, Owned
  <2>2. ASSUME NEW i \in DOMAIN calls, InPlace(i) PROVE InPlace(i)'
    BY <1>1, <1>3, <2>2, SMT DEF InPlace
  <2> QED
    BY <1>3, <2>1, <2>2, SMT DEF Referred
<1> QED
  BY <1>4, <1>6, <1>7, <1>8, SMT DEF Moves

\* &mut Option<Box<T>>: the object moves from the slot to the call.
LEMMA EnterMutStep ==
  ASSUME Inv, NEW v \in Vmods, EnterMut(v) PROVE Inv' /\ Moves
<1> USE DEF Inv
<1>0. PICK n : n = Len(calls) + 1
  OBVIOUS
<1> DEFINE c == [vmod |-> v, form |-> "mut", obj |-> priv[v]]
<1>1. /\ calls' = Append(calls, c) /\ Len(calls) < Depth /\ task = "running"
      /\ priv' = [priv EXCEPT ![v] = NULL] /\ methods' = [methods EXCEPT ![v] = FALSE]
      /\ UNCHANGED <<live, task>>
  BY DEF EnterMut, MayCall, Push
<1>2. c \in Call
  BY DEF Call, TypeOK
<1>3. /\ calls' \in Seq(Call) /\ Len(calls') <= Depth
      /\ DOMAIN calls' = DOMAIN calls \cup {n} /\ n \notin DOMAIN calls
      /\ \A i \in DOMAIN calls : calls'[i] = calls[i]
      /\ calls'[n] = c
  BY <1>0, <1>1, <1>2, Pushed
<1>4. TypeOK'
  BY <1>1, <1>3 DEF TypeOK
<1>5. /\ \A i \in DOMAIN calls : Holds(i)' <=> Holds(i)
      /\ Holds(n)' <=> priv[v] # NULL
  BY <1>3 DEF Holds
<1>6. /\ priv'[v] = NULL /\ ~methods'[v]
      /\ \A w \in Vmods \ {v} : priv'[w] = priv[w] /\ methods'[w] = methods[w]
  BY <1>1 DEF TypeOK
<1>7. Slots' /\ Owned' /\ Over'
  BY <1>1, <1>3, <1>5, <1>6 DEF Slots, Owned, Over
<1>8. Single'
  <2>1. /\ \A i \in DOMAIN calls : Holds(i) => calls[i].obj # priv[v]
        /\ calls'[n].obj = priv[v]
    BY <1>3 DEF Single
  <2>2. \A u, w \in Vmods : priv'[u] # NULL /\ priv'[u] = priv'[w] => u = w
    BY <1>6 DEF Single
  <2>3. ASSUME NEW i \in DOMAIN calls', NEW j \in DOMAIN calls', Holds(i)', Holds(j)',
               calls'[i].obj = calls'[j].obj
        PROVE  i = j
    BY <1>3, <1>5, <2>1, <2>3 DEF Single
  <2>4. ASSUME NEW w \in Vmods, NEW i \in DOMAIN calls', Holds(i)'
        PROVE  priv'[w] # calls'[i].obj
    <3>1. calls'[i].obj # NULL
      BY <2>4 DEF Holds
    <3>2. CASE w = v
      BY <1>6, <3>1, <3>2
    <3>3. CASE w # v /\ i = n
      BY <1>5, <1>6, <2>1, <2>4, <3>3 DEF Single
    <3>4. CASE w # v /\ i # n
      BY <1>3, <1>5, <1>6, <2>4, <3>4 DEF Single
    <3> QED
      BY <3>2, <3>3, <3>4
  <2> QED
    BY <2>2, <2>3, <2>4 DEF Single
<1>9. Kept
  <2>1. ASSUME NEW o \in live, NEW w \in Vmods, priv[w] = o PROVE Owner(o)'
    <3>0. o # NULL
      BY NullAssumption DEF TypeOK
    <3>1. CASE w = v
      BY <1>3, <1>5, <2>1, <3>0, <3>1, SMT DEF Owner
    <3>2. CASE w # v
      BY <1>6, <2>1, <3>2, SMT DEF Owner
    <3> QED
      BY <3>1, <3>2
  <2>2. ASSUME NEW o \in live, NEW i \in DOMAIN calls, Holds(i), calls[i].obj = o
        PROVE  Owner(o)'
    BY <1>3, <1>5, <2>2, SMT DEF Owner
  <2> QED
    BY <2>1, <2>2, SMT DEF Kept, Owner
<1>10. Referred
  <2>1. ~ Refers(n)'
    BY <1>3, SMT DEF Refers
  <2>2. \A i \in DOMAIN calls : n > i
    BY <1>0, CallsAre
  <2>3. ASSUME NEW i \in DOMAIN calls, calls[i].vmod = v PROVE MutBelow(i)'
    BY <1>3, <2>2, <2>3, SMT DEF MutBelow
  <2>4. ASSUME NEW i \in DOMAIN calls, calls[i].vmod # v, InPlace(i) PROVE InPlace(i)'
    BY <1>1, <1>3, <1>6, <2>4, CallsAre, SMT DEF InPlace
  <2> QED
    BY <1>3, <2>1, <2>3, <2>4, SMT DEF Referred
<1> QED
  BY <1>4, <1>7, <1>8, <1>9, <1>10, SMT DEF Moves

\* A slot that is empty is given a new object, by a call or by none.
LEMMA PutStep ==
  ASSUME Inv, NEW v \in Vmods, priv[v] = NULL, NEW o \in Objects \ live,
         priv' = [priv EXCEPT ![v] = o], methods' = [methods EXCEPT ![v] = TRUE],
         live' = live \cup {o}, UNCHANGED <<calls, task>>
  PROVE  Inv' /\ Moves
<1> USE DEF Inv
<1>1. TypeOK'
  BY DEF TypeOK
<1>2. /\ priv'[v] = o /\ methods'[v]
      /\ \A w \in Vmods \ {v} : priv'[w] = priv[w] /\ methods'[w] = methods[w]
  BY DEF TypeOK
<1>3. \A i \in DOMAIN calls : Holds(i)' <=> Holds(i)
  BY DEF Holds
<1>4. o # NULL /\ \A w \in Vmods : priv[w] # o
  BY NullAssumption DEF Owned
<1>5. Slots' /\ Over'
  BY <1>2, <1>4 DEF Slots, Over
<1>6. Single'
  BY <1>2, <1>3, <1>4 DEF Single, Owned
<1>7. Owned'
  BY <1>2, <1>3 DEF Owned
<1>8. \A p \in live : p # NULL
  BY NullAssumption DEF TypeOK
<1>9. Kept
  BY <1>2, <1>3, <1>8, SMT DEF Kept, Owner
<1>10. Referred
  BY <1>2, <1>8, CallsAre, SMT DEF Referred, Refers, InPlace
<1> QED
  BY <1>1, <1>5, <1>6, <1>7, <1>9, <1>10, SMT DEF Moves

\* The call finds the object in its slot, or a default that was put there.
LEMMA EnterRefCellStep ==
  ASSUME Inv, NEW v \in Vmods, EnterRefCell(v) PROVE Inv' /\ Moves
<1> USE DEF Inv
<1>0. PICK n : n = Len(calls) + 1
  OBVIOUS
<1>1. Len(calls) < Depth /\ task = "running" /\ UNCHANGED task
  BY DEF EnterRefCell, MayCall
<1>2. PICK o \in Objects :
         /\ calls' = Append(calls, [vmod |-> v, form |-> "refcell", obj |-> o])
         /\ priv' = [priv EXCEPT ![v] = o] /\ methods' = [methods EXCEPT ![v] = TRUE]
         /\ live' = live \cup {o}
         /\ priv[v] # NULL => priv[v] = o
         /\ priv[v] = NULL => o \notin live
  <2>1. CASE priv[v] # NULL
    <3>1. priv[v] \in Objects /\ methods[v] /\ priv[v] \in live
      BY <2>1 DEF TypeOK, Slots, Owned
    <3>2. methods[v] = TRUE
      BY <3>1 DEF TypeOK
    <3>3. UNCHANGED <<priv, methods, live>> /\ Push(v, "refcell", priv[v])
      BY <2>1 DEF EnterRefCell
    <3>4. priv' = [priv EXCEPT ![v] = priv[v]] /\ methods' = [methods EXCEPT ![v] = TRUE]
      BY <3>2, <3>3 DEF TypeOK
    <3> QED
      BY <2>1, <3>1, <3>3, <3>4 DEF Push
  <2>2. CASE priv[v] = NULL
    BY <2>2 DEF EnterRefCell, Push
  <2> QED
    BY <2>1, <2>2
<1>3. /\ calls' \in Seq(Call) /\ Len(calls') <= Depth
      /\ DOMAIN calls' = DOMAIN calls \cup {n} /\ n \notin DOMAIN calls
      /\ \A i \in DOMAIN calls : calls'[i] = calls[i]
      /\ calls'[n] = [vmod |-> v, form |-> "refcell", obj |-> o]
  <2>1. [vmod |-> v, form |-> "refcell", obj |-> o] \in Call
    BY DEF Call
  <2> QED
    BY <1>0, <1>1, <1>2, <2>1, Pushed
<1>4. TypeOK'
  BY <1>1, <1>2, <1>3 DEF TypeOK
<1>5. \A i \in DOMAIN calls' : Holds(i)' <=> i \in DOMAIN calls /\ Holds(i)
  BY <1>3 DEF Holds
<1>6. /\ priv'[v] = o /\ methods'[v]
      /\ \A w \in Vmods \ {v} : priv'[w] = priv[w] /\ methods'[w] = methods[w]
  BY <1>2 DEF TypeOK
<1>7. o # NULL /\ \A w \in Vmods \ {v} : priv[w] # o
  BY <1>2, NullAssumption DEF Owned, Single
<1>8. \A p \in live : p # NULL
  BY NullAssumption DEF TypeOK
<1>9. Slots' /\ Owned' /\ Over'
  BY <1>1, <1>2, <1>3, <1>5, <1>6, <1>7 DEF Slots, Owned, Over
<1>10. Single'
  <2>1. \A i \in DOMAIN calls : Holds(i) => calls[i].obj # o
    BY <1>2 DEF Single, Owned
  <2> QED
    BY <1>3, <1>5, <1>6, <1>7, <2>1 DEF Single
<1>11. Kept
  <2>1. ASSUME NEW p \in live, NEW w \in Vmods, priv[w] = p PROVE priv'[w] = p
    BY <1>2, <1>6, <1>8, <2>1
  <2>2. ASSUME NEW i \in DOMAIN calls, Holds(i)
        PROVE  i \in DOMAIN calls' /\ Holds(i)' /\ calls'[i].obj = calls[i].obj
    BY <1>3, <1>5, <2>2
  <2> QED
    BY <2>1, <2>2, SMT DEF Kept, Owner
<1>12. Referred
  <2>1. InPlace(n)'
    BY <1>2, <1>3, <1>6, SMT DEF InPlace
  <2>2. ASSUME NEW i \in DOMAIN calls, Refers(i), InPlace(i) PROVE InPlace(i)'
    <3>1. calls[i].obj # NULL /\ priv[calls[i].vmod] = calls[i].obj /\ calls[i].obj \in live
      BY <2>2, SMT DEF Refers, InPlace
    <3>2. calls'[i] = calls[i] /\ calls[i].vmod \in Vmods
      BY <1>3, CallsAre
    <3>3. priv'[calls[i].vmod] = calls[i].obj
      BY <1>2, <1>6, <3>1, <3>2
    <3> QED
      BY <1>2, <3>1, <3>2, <3>3, SMT DEF InPlace
  <2> QED
    BY <1>3, <2>1, <2>2, SMT DEF Referred
<1> QED
  BY <1>4, <1>9, <1>10, <1>11, <1>12, SMT DEF Moves

\* A step that leaves slots, calls and boxes as they are.
LEMMA SameStep ==
  ASSUME Inv, task' \in {"running", task}, UNCHANGED <<priv, methods, calls, live>>
  PROVE  Inv' /\ Moves
<1>1. Inv'
  BY DEF Inv, TypeOK, Slots, Single, Owned, Over, Holds
<1>2. Kept
  BY SMT DEF Kept, Owner, Holds
<1>3. Referred
  BY SMT DEF Referred, InPlace
<1> QED
  BY <1>1, <1>2, <1>3, SMT DEF Moves

\* A wrapper that bounces leaves at most a default value.
LEMMA BounceStep ==
  ASSUME Inv, NEW v \in Vmods, NEW form \in Forms[v], Bounce(v, form) PROVE Inv' /\ Moves
<1>1. CASE form = "refcell" /\ priv[v] = NULL
  <2>1. PICK o \in Objects \ live :
           /\ priv' = [priv EXCEPT ![v] = o] /\ methods' = [methods EXCEPT ![v] = TRUE]
           /\ live' = live \cup {o} /\ UNCHANGED <<calls, task>>
    BY <1>1 DEF Bounce
  <2> QED
    BY <1>1, <2>1, PutStep
<1>2. CASE ~(form = "refcell" /\ priv[v] = NULL)
  BY <1>2, SameStep DEF Bounce
<1> QED
  BY <1>1, <1>2

-----------------------------------------------------------------------------
LEMMA StaysInPlace ==
  ASSUME NEW i, calls'[i] = calls[i], UNCHANGED priv, InPlace(i), calls[i].obj \in live'
  PROVE  InPlace(i)'
BY SMT DEF InPlace

\* What the top call of the stack holds is replaced, by a new object or none.
LEMMA TopStep ==
  ASSUME Inv, calls # <<>>, Top.form = "mut", NEW o \in (Objects \ live) \cup {NULL},
         calls' = [calls EXCEPT ![Len(calls)].obj = o],
         live' = (live \ {Top.obj}) \cup ({o} \ {NULL}),
         UNCHANGED <<priv, methods, task>>
  PROVE  Inv' /\ Moves
<1> USE DEF Inv
<1>0. PICK n : n = Len(calls)
  OBVIOUS
<1>1. n \in DOMAIN calls /\ calls[n].form = "mut" /\ Top.obj = calls[n].obj
  BY <1>0, CallsAre DEF Top
<1>2. PICK c : c = [calls[n] EXCEPT !.obj = o]
  OBVIOUS
<1>3. c \in Call /\ c.vmod = calls[n].vmod /\ c.form = "mut" /\ c.obj = o
  BY <1>1, <1>2, CallsAre DEF Call
<1>4. calls' = [calls EXCEPT ![n] = c]
  BY <1>0, <1>2
<1>5. /\ calls' \in Seq(Call) /\ Len(calls') = Len(calls) /\ DOMAIN calls' = DOMAIN calls
      /\ calls'[n] = c /\ \A i \in DOMAIN calls \ {n} : calls'[i] = calls[i]
  <2>1. calls \in Seq(Call) /\ DOMAIN calls = 1..Len(calls)
    BY CallsAre DEF TypeOK
  <2>2. /\ calls' \in Seq(Call) /\ Len(calls') = Len(calls)
        /\ \A i \in 1..Len(calls) : calls'[i] = IF i = n THEN c ELSE calls[i]
    BY <1>1, <1>3, <1>4, <2>1, ExceptSeq
  <2> QED
    BY <1>1, <1>4, <2>1, <2>2
<1>6. TypeOK' /\ Slots' /\ Over'
  BY <1>5 DEF TypeOK, Slots, Over
<1>7. /\ \A i \in DOMAIN calls \ {n} : Holds(i)' <=> Holds(i)
      /\ Holds(n)' <=> o # NULL
  BY <1>3, <1>5 DEF Holds
<1>8. calls'[n].obj = o /\ \A i \in DOMAIN calls \ {n} : calls'[i].obj = calls[i].obj
  BY <1>3, <1>5
\* What others own stays.
<1>9. /\ \A v \in Vmods : priv[v] # NULL => priv[v] \in live'
      /\ \A i \in DOMAIN calls \ {n} : Holds(i) => calls[i].obj \in live'
  <2>1. CASE Top.obj = NULL
    BY <2>1, NullAssumption DEF Owned, Holds
  <2>2. CASE Top.obj # NULL
    <3>1. Holds(n)
      BY <1>1, <2>2 DEF Holds
    <3> QED
      BY <1>1, <3>1 DEF Owned, Single
  <2> QED
    BY <2>1, <2>2
<1>10. Owned'
  BY <1>5, <1>7, <1>8, <1>9 DEF Owned
<1>11. Single'
  <2>1. o # NULL => /\ \A v \in Vmods : priv[v] # o
                    /\ \A i \in DOMAIN calls : Holds(i) => calls[i].obj # o
    BY DEF Owned
  <2>2. ASSUME NEW i \in DOMAIN calls, NEW j \in DOMAIN calls, Holds(i)', Holds(j)',
               calls'[i].obj = calls'[j].obj
        PROVE  i = j
    <3>1. CASE i # n /\ j # n
      BY <1>7, <1>8, <2>2, <3>1 DEF Single
    <3>2. CASE i = n \/ j = n
      BY <1>7, <1>8, <2>1, <2>2, <3>2
    <3> QED
      BY <3>1, <3>2
  <2>3. ASSUME NEW v \in Vmods, NEW i \in DOMAIN calls, Holds(i)'
        PROVE  priv[v] # calls'[i].obj
    <3>1. CASE i = n
      BY <1>7, <1>8, <2>1, <2>3, <3>1
    <3>2. CASE i # n
      BY <1>7, <1>8, <2>3, <3>2 DEF Single
    <3> QED
      BY <3>1, <3>2
  <2>4. \A v, w \in Vmods : priv[v] # NULL /\ priv[v] = priv[w] => v = w
    BY DEF Single
  <2> QED
    BY <1>5, <2>2, <2>3, <2>4 DEF Single
<1>12. Kept
  <2>1. ASSUME NEW p \in live \cap live', NEW i \in DOMAIN calls, Holds(i), calls[i].obj = p
        PROVE  i # n
    BY <1>1, <2>1 DEF TypeOK
  <2> QED
    BY <1>5, <1>7, <1>8, <2>1, SMT DEF Kept, Owner
<1>13. Referred
  <2>1. ASSUME NEW i \in DOMAIN calls, Refers(i), InPlace(i) PROVE InPlace(i)'
    <3>1. i # n
      BY <1>1, <2>1 DEF Refers
    <3>2. priv[calls[i].vmod] = calls[i].obj /\ calls[i].obj # NULL /\ calls[i].vmod \in Vmods
      BY <2>1, CallsAre, SMT DEF Refers, InPlace
    <3>3. calls[i].obj \in live'
      BY <1>9, <3>2
    <3>4. i \in DOMAIN calls \ {n}
      BY <3>1
    <3>5. calls'[i] = calls[i]
      BY <1>5, <3>4
    <3> QED
      BY <2>1, <3>3, <3>5, StaysInPlace
  <2> QED
    BY <1>5, <2>1, SMT DEF Referred
<1> QED
  BY <1>6, <1>10, <1>11, <1>12, <1>13, SMT DEF Moves

LEMMA StoreStep == ASSUME Inv, NEW o \in Objects, Store(o) PROVE Inv' /\ Moves
<1>1. live' = (live \ {Top.obj}) \cup ({o} \ {NULL})
  BY NullAssumption DEF Store
<1> QED
  BY <1>1, TopStep DEF Store

LEMMA ClearStep == ASSUME Inv, Clear PROVE Inv' /\ Moves
<1>1. live' = (live \ {Top.obj}) \cup ({NULL} \ {NULL})
  BY DEF Clear
<1> QED
  BY <1>1, TopStep DEF Clear

\* The top call returns, and its object goes to the slot.
LEMMA LeaveStep == ASSUME Inv, Leave PROVE Inv' /\ Moves
<1> USE DEF Inv
<1>0. PICK n : n = Len(calls)
  OBVIOUS
<1>1. /\ n \in DOMAIN calls /\ Top = calls[n] /\ calls' = SubSeq(calls, 1, n - 1)
      /\ UNCHANGED <<live, task>>
  BY <1>0, CallsAre DEF Leave, Top, Pop
<1>2. PICK v : v = calls[n].vmod
  OBVIOUS
<1>3. v \in Vmods /\ calls[n].obj \in Objects \cup {NULL}
  BY <1>1, <1>2, CallsAre
<1>4. /\ calls' \in Seq(Call) /\ Len(calls') <= Depth /\ Len(calls') < Len(calls)
      /\ DOMAIN calls' = DOMAIN calls \ {n}
      /\ \A i \in DOMAIN calls \ {n} : calls'[i] = calls[i]
  <2>1. n \in Nat /\ n > 0 /\ DOMAIN calls = 1..n /\ \A i \in 1..(n - 1) : calls[i] \in Call
    BY <1>0, <1>1, CallsAre
  <2>2. /\ calls' \in Seq(Call) /\ Len(calls') = n - 1
        /\ \A i \in 1..(n - 1) : calls'[i] = calls[i]
    BY <1>1, <2>1, SubSeqProperties
  <2>3. DOMAIN calls' = 1..(n - 1)
    BY <2>2, LenProperties
  <2>4. Len(calls) <= Depth
    BY DEF TypeOK
  <2> QED
    BY <1>0, <2>1, <2>2, <2>3, <2>4, BoundAssumption
<1>5. \A i \in DOMAIN calls' : Holds(i)' <=> Holds(i)
  BY <1>4 DEF Holds
<1>6. Over'
  BY <1>1 DEF Over
<1>7. CASE Holds(n)
  <2>1. /\ priv' = [priv EXCEPT ![v] = calls[n].obj]
        /\ methods' = [methods EXCEPT ![v] = TRUE]
    BY <1>1, <1>2, <1>7 DEF Leave, Holds
  <2>2. calls[n].form = "mut" /\ calls[n].obj # NULL /\ calls[n].obj \in live
    BY <1>1, <1>7 DEF Holds, Owned
  <2>3. /\ priv'[v] = calls[n].obj /\ methods'[v]
        /\ \A w \in Vmods \ {v} : priv'[w] = priv[w] /\ methods'[w] = methods[w]
    BY <1>3, <2>1 DEF TypeOK
  <2>4. TypeOK'
    BY <1>1, <1>3, <1>4, <2>1, <2>2 DEF TypeOK
  <2>5. Slots' /\ Owned'
    BY <1>1, <1>4, <1>5, <2>2, <2>3 DEF Slots, Owned
  <2>6. Single'
    <3>1. \A w \in Vmods : priv[w] # calls[n].obj
      BY <1>1, <1>7 DEF Single
    <3>2. \A i \in DOMAIN calls \ {n} : Holds(i) => calls[i].obj # calls[n].obj
      BY <1>1, <1>7 DEF Single
    <3>3. \A u, w \in Vmods : priv'[u] # NULL /\ priv'[u] = priv'[w] => u = w
      BY <2>3, <3>1 DEF Single
    <3>4. ASSUME NEW w \in Vmods, NEW i \in DOMAIN calls', Holds(i)'
          PROVE  priv'[w] # calls'[i].obj
      <4>1. i \in DOMAIN calls \ {n} /\ Holds(i) /\ calls'[i] = calls[i]
        BY <1>4, <1>5, <3>4
      <4>2. CASE w = v
        BY <2>3, <3>2, <4>1, <4>2
      <4>3. CASE w # v
        BY <2>3, <4>1, <4>3 DEF Single
      <4> QED
        BY <4>2, <4>3
    <3>5. \A i, j \in DOMAIN calls' :
            Holds(i)' /\ Holds(j)' /\ calls'[i].obj = calls'[j].obj => i = j
      BY <1>4, <1>5 DEF Single
    <3> QED
      BY <3>3, <3>4, <3>5 DEF Single
  \* What was in the slot of v loses its owner.
  <2>7. Kept
    <3>1. PutBack(v)
      BY <1>1, <1>2, <1>4, <2>2, EmptySeq, SMT DEF PutBack
    <3>2. ASSUME NEW o \in live, NEW w \in Vmods, priv[w] = o, w # v PROVE Owner(o)'
      BY <2>3, <3>2, SMT DEF Owner
    <3>3. ASSUME NEW o \in live, NEW i \in DOMAIN calls, Holds(i), calls[i].obj = o
          PROVE  Owner(o)'
      <4>1. CASE i = n
        BY <1>3, <2>3, <3>3, <4>1, SMT DEF Owner
      <4>2. CASE i # n
        BY <1>4, <1>5, <3>3, <4>2, SMT DEF Owner
      <4> QED
        BY <4>1, <4>2
    <3> QED
      BY <1>3, <3>1, <3>2, <3>3, SMT DEF Kept, Owner
  \* A reference to it is that of a call above.
  <2>8. Referred
    <3>1. ASSUME NEW i \in DOMAIN calls', calls[i].vmod = v PROVE MutBelow(i)
      <4>1. i \in DOMAIN calls /\ n > i
        BY <1>0, <1>4, CallsAre
      <4> QED
        BY <1>1, <1>2, <2>2, <3>1, <4>1, SMT DEF MutBelow
    <3>2. ASSUME NEW i \in DOMAIN calls', calls[i].vmod # v, InPlace(i) PROVE InPlace(i)'
      BY <1>1, <1>4, <2>3, <3>2, CallsAre, SMT DEF InPlace
    <3> QED
      BY <1>4, <3>1, <3>2, SMT DEF Referred
  <2> QED
    BY <1>6, <2>4, <2>5, <2>6, <2>7, <2>8 DEF Moves
<1>8. CASE ~Holds(n)
  <2>1. UNCHANGED <<priv, methods>>
    BY <1>1, <1>8 DEF Leave, Holds
  <2>2. TypeOK'
    BY <1>1, <1>4, <2>1 DEF TypeOK
  <2>3. Slots' /\ Single' /\ Owned'
    BY <1>1, <1>4, <1>5, <1>8, <2>1 DEF Slots, Single, Owned
  <2>4. Kept
    BY <1>4, <1>5, <1>8, <2>1, SMT DEF Kept, Owner
  <2>5. Referred
    BY <1>1, <1>4, <2>1, SMT DEF Referred, InPlace
  <2> QED
    BY <1>6, <2>2, <2>3, <2>4, <2>5 DEF Moves
<1> QED
  BY <1>7, <1>8

\* A task that is over leaves no owners.
LEMMA TaskEndStep == ASSUME Inv, TaskEnd PROVE Inv' /\ Moves
<1> USE DEF Inv
<1>1. /\ calls = <<>> /\ calls' = <<>> /\ DOMAIN calls = {}
      /\ priv' = [v \in Vmods |-> NULL] /\ methods' = [v \in Vmods |-> FALSE]
      /\ live' = live \ {priv[v] : v \in {w \in Vmods : methods[w]}}
      /\ task' = "over"
  BY DEF TaskEnd
<1>2. TypeOK'
  BY <1>1 DEF TypeOK
<1>3. Slots' /\ Single' /\ Owned' /\ Over'
  BY <1>1 DEF Slots, Single, Owned, Over, Holds
<1>4. \A o \in live \cap live', v \in Vmods : priv[v] # o
  <2>1. \A o \in live : o # NULL
    BY NullAssumption DEF TypeOK
  <2> QED
    BY <1>1, <2>1 DEF Slots
<1>5. Kept
  BY <1>1, <1>4, SMT DEF Kept, Owner
<1>6. Referred
  BY <1>1, SMT DEF Referred
<1> QED
  BY <1>2, <1>3, <1>5, <1>6 DEF Moves

LEMMA TaskBeginStep == ASSUME Inv, TaskBegin PROVE Inv' /\ Moves
BY SameStep DEF TaskBegin

\* Every step keeps the invariant, and does with owners and references what it may.
LEMMA StepInv == Inv /\ [Next]_vars => Inv' /\ Moves
<1> SUFFICES ASSUME Inv, [Next]_vars PROVE Inv' /\ Moves
  OBVIOUS
<1>1. ASSUME NEW v \in Vmods, Enter(v) PROVE Inv' /\ Moves
  BY <1>1, EnterRefStep, EnterMutStep, EnterRefCellStep DEF Enter
<1>2. ASSUME NEW v \in Vmods, NEW form \in Forms[v], Bounce(v, form) PROVE Inv' /\ Moves
  BY <1>2, BounceStep
<1>3. ASSUME NEW o \in Objects, Store(o) PROVE Inv' /\ Moves
  BY <1>3, StoreStep
<1>4. CASE Clear \/ Leave \/ TaskEnd \/ TaskBegin
  BY <1>4, ClearStep, LeaveStep, TaskEndStep, TaskBeginStep
<1>5. CASE UNCHANGED vars
  BY <1>5, SameStep DEF vars
<1> QED
  BY <1>1, <1>2, <1>3, <1>4, <1>5 DEF Next

\* What the action properties say of such a step.
LEMMA MovesAre ==
  ASSUME TypeOK, Moves
  PROVE    /\ \A o \in live \cap live' :
                Owners(o) # {} /\ Owners(o)' = {} => \E v \in Vmods : priv[v] = o /\ PutBack(v)
           /\ Referred
BY OwnersAre DEF TypeOK, Moves, Kept

-----------------------------------------------------------------------------
(* Calls of functions and subroutines.                                      *)

Passed    == UNION {VclValues(ty) : ty \in Types}
Converted == {FromVcl(ty, v).val : ty \in Types, v \in Passed}

Given == Passed \cup {Gone}
Got   == Converted \cup {Gone}
Frame == [fn : Functions, vcl : Given, arg : Got, sub : DOMAIN Subs \cup {NULL}]

\* The frames go with the calls of VmodPriv: all but the last run a subroutine.
Framed ==
  /\ frames \in Seq(Frame)
  /\ Len(frames) = Len(calls)
  /\ \A i \in DOMAIN frames : /\ frames[i].fn.vmod = calls[i].vmod
                              /\ frames[i].fn.form = calls[i].form
                              /\ i < Len(frames) => frames[i].sub # NULL

Scalars == /\ method \in Methods /\ handling \in {"none", "handled", "fail"}
           /\ room \in 0..MaxRoom /\ crashed \in BOOLEAN

\* The inductive invariant.
CallsInv == Inv /\ Framed /\ Scalars /\ OnlyWhereAllowed

\* The frames are a sequence, with a function, an argument and a subroutine each.
LEMMA FramesAre ==
  ASSUME Framed
  PROVE  /\ Len(frames) \in Nat /\ DOMAIN frames = 1..Len(frames)
         /\ frames # <<>> => Len(frames) \in DOMAIN frames
         /\ \A i \in DOMAIN frames : /\ frames[i] \in Frame
                                     /\ frames[i].fn \in Functions
                                     /\ frames[i].sub \in DOMAIN Subs \cup {NULL}
<1>1. frames \in Seq(Frame)
  BY DEF Framed
<1>2. Len(frames) \in Nat /\ DOMAIN frames = 1..Len(frames) /\ \A i \in DOMAIN frames : frames[i] \in Frame
  BY <1>1, LenProperties, ElementOfSeq
<1>3. frames # <<>> => Len(frames) > 0
  BY <1>1, EmptySeq
<1> QED
  BY <1>2, <1>3 DEF Frame

LEMMA CallsInvTypes == CallsInv => CallsTypeOK
<1> SUFFICES ASSUME CallsInv PROVE CallsTypeOK
  OBVIOUS
<1>1. DOMAIN frames = DOMAIN calls
  BY FramesAre, CallsAre DEF CallsInv, Inv, Framed
<1> QED
  BY <1>1, FramesAre DEF CallsInv, Inv, Framed, Scalars, CallsTypeOK

\* A step of the shared objects does what is said of them above.
LEMMA SharedKept ==
  ASSUME Inv,
         \/ \E f \in Functions : EnterForm(f) \/ Bounce(f.vmod, f.form)
         \/ Clear \/ (\E o \in Objects : Store(o)) \/ Leave \/ TaskEnd \/ TaskBegin
         \/ UNCHANGED vars
  PROVE  Inv' /\ Moves
<1>1. ASSUME NEW f \in Functions, EnterForm(f) PROVE Inv' /\ Moves
  <2>1. f.vmod \in Vmods
    BY FunctionsAssumption
  <2> QED
    BY <1>1, <2>1, EnterRefStep, EnterMutStep, EnterRefCellStep DEF EnterForm
<1>2. ASSUME NEW f \in Functions, Bounce(f.vmod, f.form) PROVE Inv' /\ Moves
  <2>1. f.vmod \in Vmods /\ f.form \in Forms[f.vmod]
    BY FunctionsAssumption
  <2> QED
    BY <1>2, <2>1, BounceStep
<1>3. CASE Clear \/ (\E o \in Objects : Store(o)) \/ Leave \/ TaskEnd \/ TaskBegin \/ UNCHANGED vars
  BY <1>3, StepInv DEF Next
<1> QED
  BY <1>1, <1>2, <1>3

-----------------------------------------------------------------------------
\* A worker process begins with nothing.
LEMMA BeginInv == Init /\ Scalars /\ frames = <<>> => CallsInv
<1> SUFFICES ASSUME Init, Scalars, frames = <<>> PROVE CallsInv
  OBVIOUS
<1>1. calls = <<>> /\ DOMAIN frames = {} /\ frames \in Seq(Frame)
  BY EmptySeq DEF Init
<1>2. Framed /\ OnlyWhereAllowed
  BY <1>1 DEF Framed, OnlyWhereAllowed
<1> QED
  BY <1>2, InitInv DEF CallsInv

\* A step that changes no frame, nor the method.
LEMMA SameFrames ==
  ASSUME CallsInv, Inv', Len(calls') = Len(calls),
         \A i \in DOMAIN calls : calls'[i].vmod = calls[i].vmod /\ calls'[i].form = calls[i].form,
         UNCHANGED <<frames, method>>
  PROVE  Framed' /\ OnlyWhereAllowed'
<1>1. DOMAIN frames = DOMAIN calls
  BY FramesAre, CallsAre DEF CallsInv, Inv, Framed
<1> QED
  BY <1>1 DEF CallsInv, Framed, OnlyWhereAllowed

\* The mask of a restriction is what its methods and groups say.
LEMMA MaskIs ==
  ASSUME NEW f \in Functions, Allowed(f)
  PROVE  \/ f.restrict = {} \/ method \in f.restrict
         \/ \E g \in f.restrict \ Methods : method \in Groups[g]
<1>1. CASE method \in Mask(f.restrict)
  <2>1. PICK s \in f.restrict : method \in IF s \in DOMAIN Groups THEN Groups[s] ELSE {s}
    BY <1>1 DEF Mask
  <2> QED
    BY <2>1, MethodsAssumption
<1> QED
  BY <1>1 DEF Allowed

\* The wrapper gets as far as the user's function.
LEMMA CallUserStep ==
  ASSUME CallsInv, NEW f \in Functions, NEW v \in VclValues(f.ty), CallUser(f, v)
  PROVE  CallsInv'
<1> USE DEF CallsInv
<1>0. PICK n : n = Len(frames) + 1
  OBVIOUS
<1>1. PICK c : c = [fn |-> f, vcl |-> v, arg |-> FromVcl(f.ty, v).val, sub |-> NULL]
  OBVIOUS
<1>2. /\ frames' = Append(frames, c) /\ Allowed(f) /\ EnterForm(f)
      /\ frames # <<>> => frames[Len(frames)].sub # NULL
      /\ UNCHANGED <<method, handling, room, crashed>>
  BY <1>1 DEF CallUser, VclCalls, InVcl, TopFrame
<1>3. c \in Frame /\ c.fn = f /\ c.sub = NULL
  <2>1. f.ty \in Types /\ v \in Passed
    BY FunctionsAssumption DEF Passed
  <2>2. FromVcl(f.ty, v).val \in Got /\ v \in Given
    BY <2>1 DEF Given, Got, Converted
  <2> QED
    BY <1>1, <2>1, <2>2 DEF Frame
<1>4. Inv'
  BY <1>2, SharedKept
<1>5. /\ frames' \in Seq(Frame) /\ Len(frames') = n /\ frames'[n] = c
      /\ \A i \in DOMAIN frames : frames'[i] = frames[i]
      /\ DOMAIN frames' = DOMAIN frames \cup {n} /\ n \notin DOMAIN frames
  <2>1. frames \in Seq(Frame) /\ Len(frames) \in Nat /\ DOMAIN frames = 1..Len(frames)
    BY FramesAre DEF Framed
  <2>2. /\ frames' \in Seq(Frame) /\ Len(frames') = Len(frames) + 1
        /\ \A i \in 1..Len(frames) : frames'[i] = frames[i]
        /\ frames'[Len(frames) + 1] = c
    BY <1>2, <1>3, <2>1, AppendProperties
  <2>3. DOMAIN frames' = 1..(Len(frames) + 1)
    BY <2>2, LenProperties
  <2> QED
    BY <1>0, <2>1, <2>2, <2>3
<1>6. /\ Len(calls') = n /\ calls'[n].vmod = f.vmod /\ calls'[n].form = f.form
      /\ \A i \in DOMAIN frames : calls'[i] = calls[i]
  <2>1. PICK o \in Objects \cup {NULL} :
           /\ calls' = Append(calls, [vmod |-> f.vmod, form |-> f.form, obj |-> o])
           /\ f.form = "refcell" => o \in Objects
    BY <1>2, FunctionsAssumption
       DEF EnterForm, EnterRef, EnterMut, EnterRefCell, Push, Inv, TypeOK
  <2>2. [vmod |-> f.vmod, form |-> f.form, obj |-> o] \in Call
    BY <1>2, <2>1, FunctionsAssumption DEF Call, EnterForm
  <2>3. /\ Len(calls') = Len(calls) + 1
        /\ \A i \in 1..Len(calls) : calls'[i] = calls[i]
        /\ calls'[Len(calls) + 1] = [vmod |-> f.vmod, form |-> f.form, obj |-> o]
    BY <2>1, <2>2, AppendProperties DEF Inv, TypeOK
  <2>4. DOMAIN frames = 1..Len(calls) /\ n = Len(calls) + 1
    BY <1>0, FramesAre DEF Framed
  <2> QED
    BY <2>3, <2>4
<1>7. Framed'
  <2>1. ASSUME NEW i \in DOMAIN frames', i < Len(frames') PROVE frames'[i].sub # NULL
    <3>1. i \in DOMAIN frames /\ frames'[i] = frames[i] /\ i <= Len(frames) /\ frames # <<>>
      BY <1>0, <1>5, <2>1, FramesAre DEF Framed
    <3>2. CASE i = Len(frames)
      BY <1>2, <3>1, <3>2
    <3>3. CASE i < Len(frames)
      BY <3>1, <3>3 DEF Framed
    <3> QED
      BY <3>1, <3>2, <3>3, FramesAre
  <2> QED
    BY <1>3, <1>5, <1>6, <2>1 DEF Framed
<1>8. OnlyWhereAllowed'
  BY <1>2, <1>3, <1>5, MaskIs DEF OnlyWhereAllowed
<1>9. Scalars'
  BY <1>2 DEF Scalars
<1> QED
  BY <1>4, <1>7, <1>8, <1>9

\* The subroutine that the top frame runs is another, or none.
LEMMA TopSubStep ==
  ASSUME CallsInv, frames # <<>>, NEW c, c \in Frame, c.fn = TopFrame.fn,
         c.sub # NULL => Callable(c.sub),
         frames' = [frames EXCEPT ![Len(frames)] = c], UNCHANGED <<vars, method>>
  PROVE  Framed' /\ OnlyWhereAllowed'
<1> USE DEF CallsInv
<1>0. PICK n : n = Len(frames)
  OBVIOUS
<1>1. /\ n \in DOMAIN frames /\ frames \in Seq(Frame) /\ DOMAIN frames = 1..Len(frames)
      /\ c.fn = frames[n].fn /\ frames' = [frames EXCEPT ![n] = c]
  BY <1>0, FramesAre DEF Framed, TopFrame
<1>2. /\ frames' \in Seq(Frame) /\ Len(frames') = Len(frames)
      /\ \A i \in DOMAIN frames : frames'[i] = IF i = n THEN c ELSE frames[i]
  BY <1>1, ExceptSeq
<1>3. DOMAIN frames' = DOMAIN frames
  BY <1>1
<1>4. Framed'
  <2>1. Len(frames) = Len(calls) /\ UNCHANGED calls
    BY DEF Framed, vars
  <2>2. \A i \in DOMAIN frames' : frames'[i].fn = frames[i].fn
    BY <1>1, <1>2, <1>3
  <2>3. \A i \in DOMAIN frames' : i < Len(frames') => frames'[i].sub # NULL
    BY <1>0, <1>1, <1>2, <1>3 DEF Framed
  <2> QED
    BY <1>2, <1>3, <2>1, <2>2, <2>3 DEF Framed
<1>5. OnlyWhereAllowed'
  <2>1. \A i \in DOMAIN frames' : frames'[i].fn = frames[i].fn
    BY <1>1, <1>2, <1>3
  <2>2. c.sub # NULL => /\ method \in Subs[c.sub]
                        /\ \A i \in DOMAIN frames : frames[i].sub # c.sub
    BY DEF Callable
  <2>3. \A i \in DOMAIN frames' : frames'[i].sub # NULL => method \in Subs[frames'[i].sub]
    BY <1>2, <1>3, <2>2 DEF OnlyWhereAllowed
  <2>4. \A i, j \in DOMAIN frames' :
          i # j /\ frames'[i].sub # NULL => frames'[i].sub # frames'[j].sub
    BY <1>2, <1>3, <2>2 DEF OnlyWhereAllowed
  <2> QED
    BY <1>3, <2>1, <2>3, <2>4 DEF OnlyWhereAllowed
<1> QED
  BY <1>4, <1>5

\* The top frame goes with the top call.
LEMMA PopStep ==
  ASSUME CallsInv, frames # <<>>, Leave, PopFrame, UNCHANGED method
  PROVE  Framed' /\ OnlyWhereAllowed'
<1> USE DEF CallsInv
<1>0. PICK n : n = Len(frames)
  OBVIOUS
<1>1. /\ n \in Nat /\ n > 0 /\ DOMAIN frames = 1..n /\ n = Len(calls)
      /\ \A i \in 1..(n - 1) : frames[i] \in Frame /\ calls[i] \in Call
  BY <1>0, FramesAre, CallsAre DEF Framed, Inv
<1>2. frames' = SubSeq(frames, 1, n - 1) /\ calls' = SubSeq(calls, 1, n - 1)
  BY <1>0, <1>1 DEF PopFrame, Leave, Pop
<1>3. /\ frames' \in Seq(Frame) /\ Len(frames') = n - 1
      /\ \A i \in 1..(n - 1) : frames'[i] = frames[i]
  BY <1>1, <1>2, SubSeqProperties
<1>4. Len(calls') = n - 1 /\ \A i \in 1..(n - 1) : calls'[i] = calls[i]
  BY <1>1, <1>2, SubSeqProperties
<1>5. DOMAIN frames' = 1..(n - 1)
  BY <1>3, LenProperties
<1>6. \A i \in DOMAIN frames' : i \in DOMAIN frames /\ i < n /\ frames'[i] = frames[i]
  BY <1>1, <1>3, <1>5
<1>7. \A i \in DOMAIN frames' : calls'[i] = calls[i]
  BY <1>4, <1>5
<1>8. Framed'
  <2>1. \A i \in DOMAIN frames' : frames'[i].sub # NULL
    BY <1>0, <1>6 DEF Framed
  <2> QED
    BY <1>3, <1>4, <1>6, <1>7, <2>1 DEF Framed
<1>9. OnlyWhereAllowed'
  BY <1>6 DEF OnlyWhereAllowed
<1> QED
  BY <1>8, <1>9

\* No result takes more of the workspace than there is.
LEMMA UsesRoom ==
  ASSUME NEW ty \in Types, NEW r, NEW n \in Nat
  PROVE  IntoVcl(ty, r, n).used \in 0..n
<1>1. ASSUME NEW s PROVE CopyText(s, n).used \in 0..n
  BY DEF CopyText, Made
<1>2. IntoVclTime(r).used \in 0..n /\ IntoVclIp(r, n).used \in 0..n /\ CopyBlob(r, n).used \in 0..n
  BY DEF IntoVclTime, IntoVclIp, CopyBlob, Made
<1>3. IntoVclProbe(r, n).used \in 0..n
  BY DEF IntoVclProbe, CopyText, Made, Ok, Err
<1>4. CASE ty \in Strings
  BY <1>1, <1>4 DEF IntoVcl, Made, Strings
<1>5. CASE ty \in {"time", "blob", "ip", "probe"}
  <2>1. CASE ty = "time"
    BY <1>2, <2>1 DEF IntoVcl, Strings
  <2>2. CASE ty = "blob"
    BY <1>2, <2>2 DEF IntoVcl, Strings
  <2>3. CASE ty = "ip"
    BY <1>2, <2>3 DEF IntoVcl, Strings
  <2>4. CASE ty = "probe"
    BY <1>3, <2>4 DEF IntoVcl, Strings
  <2> QED
    BY <1>5, <2>1, <2>2, <2>3, <2>4
<1>6. CASE ty \in {"acl", "sub", "bool", "duration", "backend"}
  <2>1. ty \notin Strings /\ ty # "time" /\ ty # "blob" /\ ty # "ip" /\ ty # "probe"
    BY <1>6 DEF Strings
  <2>2. IntoVcl(ty, r, n) = Made(Ok(r), 0)
    BY <2>1 DEF IntoVcl
  <2> QED
    BY <2>2 DEF Made
<1> QED
  BY <1>4, <1>5, <1>6 DEF Types, Pointers

-----------------------------------------------------------------------------
\* An error fails the task.
LEMMA Failed ==
  ASSUME Scalars, Fail \/ UNCHANGED handling,
         method' \in Methods, room' \in 0..MaxRoom, crashed' \in BOOLEAN
  PROVE  Scalars'
<1>1. CASE Fail
  BY <1>1 DEF Fail, Scalars
<1>2. CASE UNCHANGED handling
  BY <1>2 DEF Scalars
<1> QED
  BY <1>1, <1>2

\* A call that does not get to the user's function.
LEMMA StoppedStep ==
  ASSUME CallsInv, NEW f \in Functions, NEW v,
         Refuse(f) \/ BadArgument(f, v) \/ Panic(f, v)
  PROVE  CallsInv'
<1>1. UNCHANGED vars \/ Bounce(f.vmod, f.form)
  BY DEF Refuse, BadArgument, Panic
<1>2. UNCHANGED <<frames, method, room>> /\ (Fail \/ UNCHANGED handling)
      /\ crashed' \in BOOLEAN
  BY DEF Refuse, BadArgument, Panic, CallsInv, Scalars
<1>3. UNCHANGED calls
  BY <1>1 DEF vars, Bounce
<1>4. Inv'
  BY <1>1, SharedKept DEF CallsInv
<1>5. Framed' /\ OnlyWhereAllowed'
  BY <1>2, <1>3, <1>4, SameFrames
<1>6. room' \in 0..MaxRoom /\ method' \in Methods
  BY <1>2 DEF CallsInv, Scalars
<1>7. Scalars'
  BY <1>2, <1>6, Failed DEF CallsInv
<1> QED
  BY <1>4, <1>5, <1>7 DEF CallsInv

LEMMA SetSharedStep == ASSUME CallsInv, SetShared PROVE CallsInv'
<1>1. (Clear \/ \E o \in Objects : Store(o)) /\ UNCHANGED taskVars
  BY DEF SetShared
<1>2. Inv'
  BY <1>1, SharedKept DEF CallsInv
<1>3. /\ Len(calls') = Len(calls)
      /\ \A i \in DOMAIN calls : calls'[i].vmod = calls[i].vmod /\ calls'[i].form = calls[i].form
  <2>1. PICK o \in Objects \cup {NULL} :
           calls # <<>> /\ calls' = [calls EXCEPT ![Len(calls)].obj = o] /\ Top.form = "mut"
    BY <1>1 DEF Clear, Store
  <2>2. PICK n : n = Len(calls)
    OBVIOUS
  <2>3. PICK c : c = [calls[n] EXCEPT !.obj = o]
    OBVIOUS
  <2>4. /\ n \in 1..Len(calls) /\ DOMAIN calls = 1..Len(calls) /\ calls[n] \in Call
        /\ calls[n].form = "mut" /\ calls \in Seq(Call)
    BY <2>1, <2>2, CallsAre DEF CallsInv, Inv, TypeOK, Top
  <2>5. c \in Call /\ c.vmod = calls[n].vmod /\ c.form = calls[n].form
    BY <2>3, <2>4 DEF Call
  <2>6. calls' = [calls EXCEPT ![n] = c]
    BY <2>1, <2>2, <2>3
  <2>7. /\ Len(calls') = Len(calls)
        /\ \A i \in 1..Len(calls) : calls'[i] = IF i = n THEN c ELSE calls[i]
    BY <2>4, <2>5, <2>6, ExceptSeq
  <2> QED
    BY <2>4, <2>5, <2>7
<1>4. Framed' /\ OnlyWhereAllowed'
  BY <1>1, <1>2, <1>3, SameFrames DEF taskVars
<1> QED
  BY <1>1, <1>2, <1>4 DEF CallsInv, taskVars, Scalars

LEMMA CallSubStep == ASSUME CallsInv, NEW s \in DOMAIN Subs, CallSub(s) PROVE CallsInv'
<1>1. /\ frames # <<>> /\ Callable(s) /\ UNCHANGED <<vars, method, room, crashed>>
  BY DEF CallSub, InUser, Run
<1>2. Inv'
  BY <1>1 DEF CallsInv, Inv, vars, TypeOK, Slots, Single, Owned, Over, Holds
<1>3. Scalars'
  BY <1>1 DEF CallSub, Run, CallsInv, Scalars
<1>4. CASE handling = "none"
  <2>1. PICK c : c = [fn |-> TopFrame.fn, vcl |-> Gone, arg |-> Gone, sub |-> s]
    OBVIOUS
  <2>2. frames' = [frames EXCEPT ![Len(frames)] = c]
    BY <1>4, <2>1 DEF CallSub, Run, TopFrame
  <2>3. c \in Frame /\ c.fn = TopFrame.fn /\ c.sub = s
    <3>1. Gone \in Given /\ Gone \in Got
      BY DEF Given, Got
    <3>2. TopFrame.fn \in Functions
      BY <1>1, FramesAre DEF TopFrame, CallsInv
    <3> QED
      BY <2>1, <3>1, <3>2 DEF Frame
  <2>4. Framed' /\ OnlyWhereAllowed'
    BY <1>1, <2>2, <2>3, TopSubStep
  <2> QED
    BY <1>2, <1>3, <2>4 DEF CallsInv
<1>5. CASE handling # "none"
  <2>1. UNCHANGED frames
    BY <1>5 DEF CallSub, Run
  <2>2. Framed' /\ OnlyWhereAllowed'
    BY <1>1, <1>2, <2>1, SameFrames DEF vars
  <2> QED
    BY <1>2, <1>3, <2>2 DEF CallsInv
<1> QED
  BY <1>4, <1>5

LEMMA EndSubStep == ASSUME CallsInv, EndSub PROVE CallsInv'
<1>1. /\ frames # <<>> /\ UNCHANGED <<vars, method, room, crashed>>
  BY DEF EndSub
<1>2. Inv'
  BY <1>1 DEF CallsInv, Inv, vars, TypeOK, Slots, Single, Owned, Over, Holds
<1>3. Scalars'
  BY <1>1 DEF EndSub, CallsInv, Scalars
<1>4. PICK c : c = [TopFrame EXCEPT !.sub = NULL]
  OBVIOUS
<1>5. frames' = [frames EXCEPT ![Len(frames)] = c]
  BY <1>4 DEF EndSub, TopFrame
<1>6. c \in Frame /\ c.fn = TopFrame.fn /\ c.sub = NULL
  BY <1>1, <1>4, FramesAre DEF Frame, TopFrame, CallsInv
<1>7. Framed' /\ OnlyWhereAllowed'
  BY <1>1, <1>5, <1>6, TopSubStep
<1> QED
  BY <1>2, <1>3, <1>7 DEF CallsInv

\* Every way for a function to return.
LEMMA ReturnStep ==
  ASSUME CallsInv, ReturnErr \/ ReturnArgument \/ ReturnOther PROVE CallsInv'
<1>1. /\ frames # <<>> /\ Leave /\ PopFrame /\ UNCHANGED <<method, crashed>>
      /\ Fail \/ UNCHANGED handling
  BY DEF ReturnErr, ReturnArgument, ReturnOther, ReturnValue, InUser
<1>2. room' \in 0..MaxRoom
  <2>1. TopFrame.fn.ty \in Types /\ room \in 0..MaxRoom /\ room \in Nat
    BY <1>1, FramesAre, FunctionsAssumption, RoomAssumption DEF TopFrame, CallsInv, Scalars
  <2>2. CASE ReturnErr
    BY <2>1, <2>2 DEF ReturnErr
  <2>3. ASSUME NEW r, NEW echo, ReturnValue(r, echo) PROVE room' \in 0..MaxRoom
    <3>1. room' = room - IntoVcl(TopFrame.fn.ty, r, room).used
      BY <2>3 DEF ReturnValue
    <3>2. IntoVcl(TopFrame.fn.ty, r, room).used \in 0..room
      BY <2>1, UsesRoom
    <3> QED
      BY <2>1, <3>1, <3>2, RoomAssumption
  <2> QED
    BY <2>2, <2>3 DEF ReturnArgument, ReturnOther
<1>3. Inv'
  BY <1>1, SharedKept DEF CallsInv
<1>4. Framed' /\ OnlyWhereAllowed'
  BY <1>1, PopStep
<1>5. method' \in Methods /\ crashed' \in BOOLEAN
  BY <1>1 DEF CallsInv, Scalars
<1>6. Scalars'
  BY <1>1, <1>2, <1>5, Failed DEF CallsInv
<1> QED
  BY <1>3, <1>4, <1>6 DEF CallsInv

\* The tasks, and the worker process, come and go.
LEMMA TaskStep ==
  ASSUME CallsInv, EndTask \/ BeginTask \/ Restart PROVE CallsInv'
<1>1. CASE EndTask
  <2>1. Inv'
    BY <1>1, SharedKept DEF EndTask, CallsInv
  <2>2. UNCHANGED calls /\ UNCHANGED taskVars
    BY <1>1 DEF EndTask, TaskEnd
  <2>3. Framed' /\ OnlyWhereAllowed'
    BY <2>1, <2>2, SameFrames DEF taskVars
  <2> QED
    BY <2>1, <2>2, <2>3 DEF CallsInv, taskVars, Scalars
<1>2. CASE BeginTask
  <2>1. Inv'
    BY <1>2, SharedKept DEF BeginTask, CallsInv
  <2>2. Len(frames) = 0 /\ DOMAIN frames = {} /\ UNCHANGED <<calls, frames>>
    <3>1. calls = <<>> /\ UNCHANGED <<calls, frames>>
      BY <1>2 DEF BeginTask, TaskBegin, CallsInv, Inv, Over
    <3> QED
      BY <3>1, FramesAre, EmptySeq DEF CallsInv, Framed
  <2>3. Framed' /\ OnlyWhereAllowed'
    BY <2>2 DEF CallsInv, Framed, OnlyWhereAllowed
  <2> QED
    BY <1>2, <2>1, <2>3 DEF BeginTask, CallsInv, Scalars
<1>3. CASE Restart
  <2>1. Init' /\ frames' = <<>>
    BY <1>3 DEF Restart, Init
  <2>2. Scalars'
    BY <1>3 DEF Restart, Scalars
  <2>3. Inv'
    BY <2>1, InitInv, PTL
  <2>4. calls' = <<>> /\ DOMAIN frames' = {} /\ frames' \in Seq(Frame)
    BY <2>1, EmptySeq DEF Init
  <2>5. Framed' /\ OnlyWhereAllowed'
    BY <2>1, <2>4 DEF Framed, OnlyWhereAllowed
  <2> QED
    BY <2>2, <2>3, <2>5 DEF CallsInv
<1> QED
  BY <1>1, <1>2, <1>3

\* Every step keeps the invariant.
LEMMA CallsStep == CallsInv /\ [CallsNext]_allVars => CallsInv'
<1> SUFFICES ASSUME CallsInv, [CallsNext]_allVars PROVE CallsInv'
  OBVIOUS
<1>1. ASSUME NEW f \in Functions, Refuse(f) PROVE CallsInv'
  BY <1>1, StoppedStep
<1>2. ASSUME NEW f \in Functions, NEW v \in VclValues(f.ty), BadArgument(f, v) \/ Panic(f, v)
      PROVE  CallsInv'
  BY <1>2, StoppedStep
<1>3. ASSUME NEW f \in Functions, NEW v \in VclValues(f.ty), CallUser(f, v) PROVE CallsInv'
  BY <1>3, CallUserStep
<1>4. ASSUME NEW s \in DOMAIN Subs, CallSub(s) PROVE CallsInv'
  BY <1>4, CallSubStep
<1>5. CASE SetShared \/ EndSub \/ ReturnErr \/ ReturnArgument \/ ReturnOther
  BY <1>5, SetSharedStep, EndSubStep, ReturnStep
<1>6. CASE EndTask \/ BeginTask \/ Restart
  BY <1>6, TaskStep
<1>7. CASE UNCHANGED allVars
  BY <1>7 DEF allVars, vars, taskVars, CallsInv, Inv, TypeOK, Slots, Single, Owned, Over,
              Holds, Framed, Scalars, OnlyWhereAllowed
<1> QED
  BY <1>1, <1>2, <1>3, <1>4, <1>5, <1>6, <1>7 DEF CallsNext

\* And it does with owners and references what it may.
LEMMA CallsMoves == CallsInv /\ [CallsNext]_allVars => Moves
<1> SUFFICES ASSUME CallsInv, [CallsNext]_allVars PROVE Moves
  OBVIOUS
<1>0. Inv
  BY DEF CallsInv
<1>1. CASE Restart
  <2>1. live' = {} /\ calls' = <<>>
    BY <1>1 DEF Restart
  <2> QED
    BY <2>1, SMT DEF Moves, Kept, Referred
<1>2. ASSUME NEW f \in Functions, NEW v,
             Refuse(f) \/ BadArgument(f, v) \/ Panic(f, v) \/ CallUser(f, v)
      PROVE  Moves
  <2>1. UNCHANGED vars \/ Bounce(f.vmod, f.form) \/ EnterForm(f)
    BY <1>2 DEF Refuse, BadArgument, Panic, CallUser
  <2> QED
    BY <1>0, <2>1, SharedKept
<1>3. ASSUME NEW s \in DOMAIN Subs, CallSub(s) PROVE Moves
  BY <1>0, <1>3, SharedKept DEF CallSub, Run
<1>4. CASE SetShared
  BY <1>0, <1>4, SharedKept DEF SetShared
<1>5. CASE EndSub \/ EndTask \/ BeginTask
  BY <1>0, <1>5, SharedKept DEF EndSub, EndTask, BeginTask
<1>6. CASE ReturnErr \/ ReturnArgument \/ ReturnOther
  <2>1. Leave
    BY <1>6 DEF ReturnErr, ReturnArgument, ReturnOther, ReturnValue
  <2> QED
    BY <1>0, <2>1, SharedKept
<1>7. CASE UNCHANGED allVars
  BY <1>0, <1>7, SharedKept DEF allVars
<1> QED
  BY <1>1, <1>2, <1>3, <1>4, <1>5, <1>6, <1>7 DEF CallsNext

LEMMA CallsBegin == CallsInit => CallsInv
BY BeginInv DEF CallsInit, Scalars

-----------------------------------------------------------------------------
(* What VCL gets for what the user's function returned.                      *)

\* Neither of the two values outside VCL's has a name or is a probe.
LEMMA Outside == /\ NULL # ABSENT /\ ABSENT \notin RawProbe /\ NULL \notin RawProbe
                 /\ NULL \notin Named /\ ABSENT \notin Named
BY AbsentAssumption, GoneAssumption

\* The types, one by one.
LEMMA StringTypes ==
  ASSUME NEW ty \in Strings
  PROVE  /\ ty \notin Pointers /\ ty \in Types
         /\ ty # "backend" /\ ty # "bool" /\ ty # "duration" /\ ty # "time"
         /\ ty # "blob" /\ ty # "ip" /\ ty # "probe"
         /\ ty \notin UseTryFrom => ty = "cstr" \/ ty = "opt_cstr"
BY DEF Strings, Pointers, Types, UseTryFrom

\* What VCL passes for a string, and what becomes of it.
LEMMA StringValues ==
  ASSUME NEW ty \in Strings, NEW v \in VclValues(ty), v # ABSENT
  PROVE  v \in {NULL, "empty", "text", "latin1"}
BY StringTypes DEF VclValues

LEMMA StringFrom ==
  ASSUME NEW ty \in Strings, NEW v \in {NULL, "empty", "text", "latin1"}, v # ABSENT,
         FromVcl(ty, v).out = "ok"
  PROVE  FromVcl(ty, v).val = IF ty \in {"str", "cstr"} /\ v = NULL THEN "empty" ELSE v
<1>1. CASE ty \in UseTryFrom
  <2>1. FromVcl(ty, v) = Str(ty, v)
    BY <1>1, StringTypes DEF FromVcl, UseTryFrom
  <2> QED
    BY <1>1, <2>1 DEF Str, CStr, Ok, Err, UseTryFrom
<1>2. CASE ty = "cstr"
  <2>1. FromVcl(ty, v) = Ok(CStr(v))
    BY <1>2 DEF FromVcl, UseTryFrom, Pointers
  <2> QED
    BY <1>2, <2>1 DEF CStr, Ok
<1>3. CASE ty = "opt_cstr"
  <2>1. FromVcl(ty, v) = Ok(v)
    BY <1>3 DEF FromVcl, UseTryFrom, Pointers
  <2> QED
    BY <1>3, <2>1 DEF Ok
<1> QED
  BY <1>1, <1>2, <1>3, StringTypes

LEMMA StringInto ==
  ASSUME NEW ty \in Strings, NEW r, NEW n
  PROVE  IntoVcl(ty, r, n) = IF r = NULL THEN Made(Ok(NULL), 0) ELSE CopyText(r, n)
BY StringTypes DEF IntoVcl

LEMMA TextInto ==
  ASSUME NEW s, NEW n, CopyText(s, n).out # "err"
  PROVE  s # "nul_inside" /\ CopyText(s, n).val = IF s = "nul_last" THEN "text" ELSE s
BY DEF CopyText, Made, Ok, Err

\* A string comes back as it is, and the null string of an Option stays null.
LEMMA StringEchoes ==
  ASSUME NEW ty \in Strings, NEW v \in VclValues(ty), NEW n,
         FromVcl(ty, v).out = "ok",
         IntoVcl(ty, FromVcl(ty, v).val, n).out # "err"
  PROVE  Echoes(ty, v, IntoVcl(ty, FromVcl(ty, v).val, n).val)
<1>1. CASE v = ABSENT
  <2>1. FromVcl(ty, v).val = NULL
    BY <1>1 DEF FromVcl, Ok
  <2>2. IntoVcl(ty, NULL, n).val = NULL
    BY StringInto DEF Made, Ok
  <2>3. Canonical(ty, v) = NULL
    BY <1>1 DEF Canonical
  <2> QED
    BY <2>1, <2>2, <2>3, StringTypes DEF Echoes, Alike
<1>2. CASE v # ABSENT
  <2>1. v \in {NULL, "empty", "text", "latin1"}
    BY <1>2, StringValues
  <2> DEFINE s == FromVcl(ty, v).val
  <2>2. s = IF ty \in {"str", "cstr"} /\ v = NULL THEN "empty" ELSE v
    BY <1>2, <2>1, StringFrom
  <2>3. Canonical(ty, v) = IF ty \in {"str", "cstr"} /\ v = NULL THEN "empty" ELSE v
    BY <1>2, <2>1, StringTypes DEF Canonical
  <2> HIDE DEF s
  <2>4. s \in {NULL, "empty", "text", "latin1"} /\ s # "nul_last"
    BY <2>1, <2>2, Outside DEF Named
  <2>5. IntoVcl(ty, s, n).val = s
    <3>1. CASE s = NULL
      BY <3>1, StringInto DEF Made, Ok
    <3>2. CASE s # NULL
      <4>1. IntoVcl(ty, s, n) = CopyText(s, n)
        BY <3>2, StringInto
      <4>2. CopyText(s, n).out # "err"
        BY <4>1 DEF s
      <4> QED
        BY <2>4, <4>1, <4>2, TextInto
    <3> QED
      BY <3>1, <3>2
  <2> QED
    BY <2>2, <2>3, <2>5, StringTypes DEF Echoes, Alike, s
<1> QED
  BY <1>1, <1>2

\* A string that a function makes is read back, but for a NUL at its end.
LEMMA StringReads ==
  ASSUME NEW ty \in Strings, NEW r \in RustValues(ty), NEW n, IntoVcl(ty, r, n).out # "err"
  PROVE  ReadsBack(ty, r, IntoVcl(ty, r, n).val)
<1>1. /\ r \in {NULL, "empty", "text", "latin1", "nul_inside", "nul_last"}
      /\ r = NULL => ty \in {"opt_str", "opt_cstr"}
      /\ r = "latin1" => ty \notin UseTryFrom
  BY StringTypes, Outside DEF RustValues, Strings, UseTryFrom, Named
<1> DEFINE got == IntoVcl(ty, r, n).val
<1>2. got = IF r = "nul_last" THEN "text" ELSE r
  <2>1. CASE r = NULL
    BY <2>1, Outside, StringInto DEF Made, Ok, Named
  <2>2. CASE r # NULL
    BY <2>2, StringInto, TextInto
  <2> QED
    BY <2>1, <2>2
<1>3. r # "nul_inside"
  BY <1>1, Outside, StringInto, TextInto DEF Named
<1> HIDE DEF got
<1>4. /\ got \in {NULL, "empty", "text", "latin1"} /\ got # ABSENT
      /\ got = NULL => ty \in {"opt_str", "opt_cstr"}
      /\ got = "latin1" => ty \notin UseTryFrom
  BY <1>1, <1>2, <1>3, Outside DEF Named
<1>5. FromVcl(ty, got).out = "ok"
  <2>1. CASE ty \in UseTryFrom
    <3>1. FromVcl(ty, got) = Str(ty, got)
      BY <1>4, <2>1, StringTypes DEF FromVcl, UseTryFrom
    <3> QED
      BY <1>4, <2>1, <3>1 DEF Str, Ok
  <2>2. CASE ty = "cstr" \/ ty = "opt_cstr"
    BY <1>4, <2>2, StringTypes DEF FromVcl, UseTryFrom, Ok
  <2> QED
    BY <2>1, <2>2, StringTypes
<1>6. FromVcl(ty, got).val = got
  BY <1>4, <1>5, StringFrom
<1> QED
  BY <1>2, <1>5, <1>6, StringTypes DEF ReadsBack, Alike, got

\* A probe comes back with its request and its window.
LEMMA ProbeInto ==
  ASSUME NEW r, NEW n, IntoVclProbe(r, n).out # "err"
  PROVE  /\ CopyText(r.text, n - 1).out # "err"
         /\ r.url => IntoVclProbe(r, n).val =
                       [url |-> CopyText(r.text, n - 1).val, request |-> NULL,
                        window |-> r.window, threshold |-> 0]
         /\ ~r.url => IntoVclProbe(r, n).val =
                        [url |-> NULL, request |-> CopyText(r.text, n - 1).val,
                         window |-> r.window, threshold |-> 0]
BY DEF IntoVclProbe, Made, Ok, Err

\* from_vcl_probe_inner, which panics unless there is one request.
LEMMA ProbeFrom ==
  ASSUME NEW v, v # NULL, FromVclProbe(v).out = "ok"
  PROVE  /\ v.url = NULL => /\ v.request # NULL
                            /\ FromVclProbe(v).val = Probe(FALSE, Lossy(v.request), v)
         /\ v.url # NULL => /\ v.request = NULL
                            /\ FromVclProbe(v).val = Probe(TRUE, Lossy(v.url), v)
<1>1. ASSUME (v.url = NULL) <=> (v.request = NULL) PROVE FALSE
  <2>1. FromVclProbe(v) = Abort
    BY <1>1, Zenon DEF FromVclProbe
  <2> QED
    BY <2>1 DEF Abort
<1>2. ASSUME v.url = NULL, v.request # NULL
      PROVE  FromVclProbe(v) = Ok(Probe(FALSE, Lossy(v.request), v))
  BY <1>2, Zenon DEF FromVclProbe
<1>3. ASSUME v.url # NULL, v.request = NULL
      PROVE  FromVclProbe(v) = Ok(Probe(TRUE, Lossy(v.url), v))
  BY <1>3, Zenon DEF FromVclProbe
<1>0. ASSUME NEW x PROVE Ok(x).val = x
  BY DEF Ok
<1>4. CASE v.url = NULL
  <2>1. v.request # NULL
    BY <1>1, <1>4
  <2> QED
    BY <1>0, <1>2, <1>4, <2>1, Zenon
<1>5. CASE v.url # NULL
  <2>1. v.request = NULL
    BY <1>1, <1>5
  <2> QED
    BY <1>0, <1>3, <1>5, <2>1, Zenon
<1> QED
  BY <1>4, <1>5

\* What a probe is worth with its threshold left out.
LEMMA ProbeCanonical ==
  ASSUME NEW v \in RawProbe, NEW u, NEW q, u = Lossy(v.url), q = Lossy(v.request)
  PROVE  [Canonical("probe", v) EXCEPT !.threshold = 0]
           = [url |-> u, request |-> q, window |-> v.window, threshold |-> 0]
<1>1. Canonical("probe", v) = [v EXCEPT !.url = Lossy(@), !.request = Lossy(@)]
  BY Outside DEF Canonical
<1>2. PICK w : w = [v EXCEPT !.url = u]
  OBVIOUS
<1>3. w = [url |-> u, request |-> v.request, window |-> v.window, threshold |-> v.threshold]
  BY <1>2 DEF RawProbe
<1>4. [v EXCEPT !.url = u, !.request = q] = [w EXCEPT !.request = q]
  BY <1>2
<1>5. [w EXCEPT !.request = q] =
      [url |-> u, request |-> q, window |-> v.window, threshold |-> v.threshold]
  BY <1>3
<1>6. Canonical("probe", v) =
      [url |-> u, request |-> q, window |-> v.window, threshold |-> v.threshold]
  BY <1>1, <1>4, <1>5
<1> QED
  BY <1>6

LEMMA ProbeEchoes ==
  ASSUME NEW v \in VclValues("probe"), NEW n,
         FromVcl("probe", v).out = "ok", FromVcl("probe", v).val # NULL,
         IntoVcl("probe", FromVcl("probe", v).val, n).out # "err"
  PROVE  Echoes("probe", v, IntoVcl("probe", FromVcl("probe", v).val, n).val)
<1>1. v # ABSENT
  BY DEF FromVcl, Ok
<1>2. FromVcl("probe", v) = FromVclProbe(v)
  BY <1>1 DEF FromVcl, UseTryFrom, Pointers
<1>3. v # NULL
  <2>1. FromVclProbe(NULL) = Ok(NULL)
    BY Zenon DEF FromVclProbe
  <2> QED
    BY <1>2, <2>1 DEF Ok
<1>4. v \in RawProbe /\ v.url # "lossy" /\ v.request # "lossy"
  BY <1>1, <1>3 DEF VclValues, Strings, Pointers, Optional, MustBeOptional
<1>5. PICK p : p = FromVcl("probe", v).val
  OBVIOUS
<1>6. PICK got : got = IntoVclProbe(p, n).val
  OBVIOUS
<1>7. /\ IntoVcl("probe", p, n) = IntoVclProbe(p, n) /\ IntoVclProbe(p, n).out # "err"
      /\ got = IntoVcl("probe", p, n).val
  BY <1>5, <1>6 DEF IntoVcl, Strings
<1>8. /\ Lossy(NULL) = NULL
      /\ \A t \in {"text", "latin1"} : Lossy(t) # "nul_last"
      /\ v.url \in {NULL, "text", "latin1"} /\ v.request \in {NULL, "text", "latin1"}
  BY <1>4, Outside DEF RawProbe, Lossy, Named
<1>9. CopyText(p.text, n - 1).out # "err"
  BY <1>7, ProbeInto
<1>10. got = [url |-> Lossy(v.url), request |-> Lossy(v.request), window |-> v.window,
              threshold |-> 0]
  <2>1. CASE v.url = NULL
    <3>1. v.request # NULL /\ p = Probe(FALSE, Lossy(v.request), v)
      BY <1>2, <1>3, <1>5, <2>1, ProbeFrom
    <3>2. ~p.url /\ p.text = Lossy(v.request) /\ p.window = v.window
      BY <3>1 DEF Probe
    <3>3. CopyText(p.text, n - 1).val = p.text
      BY <1>8, <1>9, <3>1, <3>2, TextInto
    <3>4. got = [url |-> NULL, request |-> CopyText(p.text, n - 1).val, window |-> p.window,
                 threshold |-> 0]
      BY <1>6, <1>7, <3>2, ProbeInto
    <3> QED
      BY <1>8, <2>1, <3>2, <3>3, <3>4
  <2>2. CASE v.url # NULL
    <3>1. v.request = NULL /\ p = Probe(TRUE, Lossy(v.url), v)
      BY <1>2, <1>3, <1>5, <2>2, ProbeFrom
    <3>2. p.url /\ p.text = Lossy(v.url) /\ p.window = v.window
      BY <3>1 DEF Probe
    <3>3. CopyText(p.text, n - 1).val = p.text
      BY <1>8, <1>9, <2>2, <3>2, TextInto
    <3>4. got = [url |-> CopyText(p.text, n - 1).val, request |-> NULL, window |-> p.window,
                 threshold |-> 0]
      BY <1>6, <1>7, <3>2, ProbeInto
    <3> QED
      BY <1>8, <3>1, <3>2, <3>3, <3>4
  <2> QED
    BY <2>1, <2>2
<1>11. [got EXCEPT !.threshold = 0] = got
  BY <1>10
<1>12. [Canonical("probe", v) EXCEPT !.threshold = 0] = got
  BY <1>4, <1>10, ProbeCanonical
<1> QED
  BY <1>5, <1>7, <1>11, <1>12 DEF Echoes, Alike

LEMMA ProbeReads ==
  ASSUME NEW r \in RustValues("probe"), NEW n, IntoVcl("probe", r, n).out # "err"
  PROVE  ReadsBack("probe", r, IntoVcl("probe", r, n).val)
<1>1. PICK u \in BOOLEAN, t \in {"text", "nul_inside"}, p \in [window : {1}, threshold : 0..1] :
        r = Probe(u, t, p)
  BY DEF RustValues, Strings, Pointers
<1>2. r = [url |-> u, text |-> t, window |-> 1, threshold |-> p.threshold]
  BY <1>1 DEF Probe
<1>3. PICK got : got = IntoVcl("probe", r, n).val
  OBVIOUS
<1>4. IntoVcl("probe", r, n) = IntoVclProbe(r, n) /\ IntoVclProbe(r, n).out # "err"
  BY DEF IntoVcl, Strings
<1>5. r.text = "text" /\ t = "text" /\ CopyText(r.text, n - 1).val = "text"
  <2>1. CopyText(r.text, n - 1).out # "err"
    BY <1>4, ProbeInto
  <2>2. r.text # "nul_inside" /\ r.text = t
    BY <1>2, <2>1, TextInto
  <2> QED
    BY <1>1, <2>1, <2>2, TextInto
<1>6. "text" # NULL /\ Lossy("text") = "text" /\ Lossy(NULL) = NULL
  BY Outside DEF Named, Lossy
<1>7. got \in RawProbe /\ FromVclProbe(got) = Ok(Probe(u, "text", got)) /\ got.window = 1
  <2>1. CASE u
    <3>0. r.url /\ r.window = 1
      BY <1>2, <2>1
    <3>1. got = [url |-> "text", request |-> NULL, window |-> 1, threshold |-> 0]
      <4>1. got = [url |-> CopyText(r.text, n - 1).val, request |-> NULL, window |-> r.window,
                   threshold |-> 0]
        BY <1>3, <1>4, <3>0, ProbeInto
      <4> QED
        BY <1>5, <3>0, <4>1
    <3>2. got \in RawProbe
      BY <3>1 DEF RawProbe
    <3>3. got.url = "text" /\ got.url # NULL /\ got.request = NULL /\ got # NULL /\ u = TRUE
      BY <1>1, <1>6, <2>1, <3>1, <3>2, Outside
    <3>4. FromVclProbe(got) = Ok(Probe(TRUE, Lossy(got.url), got))
      BY <3>3, Zenon DEF FromVclProbe
    <3> QED
      BY <1>6, <3>1, <3>2, <3>3, <3>4
  <2>2. CASE ~u
    <3>0. ~r.url /\ r.window = 1
      BY <1>2, <2>2
    <3>1. got = [url |-> NULL, request |-> "text", window |-> 1, threshold |-> 0]
      <4>1. got = [url |-> NULL, request |-> CopyText(r.text, n - 1).val, window |-> r.window,
                   threshold |-> 0]
        BY <1>3, <1>4, <3>0, ProbeInto
      <4> QED
        BY <1>5, <3>0, <4>1
    <3>2. got \in RawProbe
      BY <3>1 DEF RawProbe
    <3>3. got.request = "text" /\ got.request # NULL /\ got.url = NULL /\ got # NULL /\ u = FALSE
      BY <1>1, <1>6, <2>2, <3>1, <3>2, Outside
    <3>4. FromVclProbe(got) = Ok(Probe(FALSE, Lossy(got.request), got))
      BY <3>3, Zenon DEF FromVclProbe
    <3> QED
      BY <1>6, <3>1, <3>2, <3>3, <3>4
  <2> QED
    BY <2>1, <2>2
<1>8. got # ABSENT
  BY <1>7, Outside
<1>9. FromVcl("probe", got) = FromVclProbe(got)
  BY <1>8 DEF FromVcl, UseTryFrom, Pointers
<1>10. FromVcl("probe", got).out = "ok" /\ FromVcl("probe", got).val = Probe(u, "text", got)
  BY <1>7, <1>9 DEF Ok
<1>11. Probe(u, "text", got) = [url |-> u, text |-> "text", window |-> 1, threshold |-> got.threshold]
  BY <1>7 DEF Probe
<1>12. [r EXCEPT !.threshold = 0] = [url |-> u, text |-> "text", window |-> 1, threshold |-> 0]
  BY <1>2, <1>5
<1>13. [Probe(u, "text", got) EXCEPT !.threshold = 0]
         = [url |-> u, text |-> "text", window |-> 1, threshold |-> 0]
  BY <1>11
<1> QED
  BY <1>3, <1>10, <1>12, <1>13 DEF ReadsBack, Alike, Strings

-----------------------------------------------------------------------------
\* The types whose values are neither strings nor probes.
Plain == Types \ (Strings \cup {"probe"})

LEMMA PlainEchoes ==
  ASSUME NEW ty \in Plain, NEW v \in VclValues(ty), NEW n,
         FromVcl(ty, v).out = "ok", FromVcl(ty, v).val = NULL => ty # "ip",
         IntoVcl(ty, FromVcl(ty, v).val, n).out # "err"
  PROVE  Echoes(ty, v, IntoVcl(ty, FromVcl(ty, v).val, n).val)
<1>1. CASE ty \in Pointers
  <2>1. v \in {NULL, "it"} /\ v # ABSENT
    BY <1>1, Outside DEF VclValues, Strings, Pointers, Optional, MustBeOptional, Named
  <2>2. FromVcl(ty, v) = Ok(v)
    BY <1>1, <2>1 DEF FromVcl, UseTryFrom, Pointers, Abort
  <2>3. IntoVcl(ty, v, n).val = v
    BY <1>1 DEF IntoVcl, Made, Ok, Strings, Pointers
  <2> QED
    BY <1>1, <2>1, <2>2, <2>3 DEF Ok, Echoes, Alike, Canonical, Pointers
<1>2. CASE ty = "backend"
  <2>1. FromVcl(ty, v).val = IF v = ABSENT THEN NULL ELSE v
    BY <1>2 DEF FromVcl, UseTryFrom, Pointers, Ok
  <2>2. IntoVcl(ty, FromVcl(ty, v).val, n).val = FromVcl(ty, v).val
    BY <1>2 DEF IntoVcl, Made, Ok, Strings
  <2> QED
    BY <1>2, <2>1, <2>2 DEF Echoes, Alike, Canonical
<1>3. CASE ty = "bool"
  <2>1. v \in {"0", "1", "2"} /\ v # ABSENT
    BY <1>3, Outside DEF VclValues, Strings, Pointers, Optional, MustBeOptional, Named
  <2>2. FromVcl(ty, v).val = IF v = "0" THEN "0" ELSE "1"
    BY <1>3, <2>1 DEF FromVcl, UseTryFrom, Pointers, Ok
  <2>3. IntoVcl(ty, FromVcl(ty, v).val, n).val = FromVcl(ty, v).val
    BY <1>3 DEF IntoVcl, Made, Ok, Strings
  <2>4. Canonical(ty, v) = IF v = "0" THEN "0" ELSE "1"
    BY <1>3, <2>1 DEF Canonical
  <2> QED
    BY <1>3, <2>2, <2>3, <2>4 DEF Echoes, Alike
<1>4. CASE ty = "duration"
  <2>1. v # ABSENT
    BY <1>4, Outside DEF VclValues, Strings, Pointers, Optional, MustBeOptional, Named
  <2>2. FromVcl(ty, v).val = v
    BY <1>4, <2>1 DEF FromVcl, UseTryFrom, Pointers, Ok, Duration, Abort
  <2>3. IntoVcl(ty, v, n).val = v
    BY <1>4 DEF IntoVcl, Made, Ok, Strings
  <2> QED
    BY <1>4, <2>1, <2>2, <2>3 DEF Echoes, Alike, Canonical
<1>5. CASE ty = "time"
  <2>1. v # ABSENT
    BY <1>5, Outside DEF VclValues, Strings, Pointers, Optional, MustBeOptional, Named
  <2>2. FromVcl(ty, v).val = SystemTime(v)
    BY <1>5, <2>1 DEF FromVcl, UseTryFrom, Pointers, Ok
  <2>3. IntoVcl(ty, SystemTime(v), n).val = SystemTime(v)
    BY <1>5, <2>2 DEF IntoVcl, IntoVclTime, Made, Ok, Err, Strings
  <2> QED
    BY <1>5, <2>1, <2>2, <2>3 DEF Echoes, Alike, Canonical, SystemTime
<1>6. CASE ty = "blob"
  <2>1. v \in {NULL, "empty", "bytes"} /\ v # ABSENT
    BY <1>6, Outside DEF VclValues, Strings, Pointers, Optional, MustBeOptional, Named
  <2>2. FromVcl(ty, v).val = Bytes(v)
    BY <1>6, <2>1 DEF FromVcl, UseTryFrom, Pointers, Ok
  <2>3. IntoVcl(ty, Bytes(v), n) = CopyBlob(Bytes(v), n)
    BY <1>6 DEF IntoVcl, Strings
  <2>4. Bytes(v) # "empty" /\ CopyBlob(Bytes(v), n).val = Bytes(v)
    BY <2>2, <2>3 DEF CopyBlob, Made, Ok, Err
  <2> QED
    BY <1>6, <2>1, <2>2, <2>3, <2>4 DEF Echoes, Alike, Canonical, Bytes
<1>7. CASE ty = "ip"
  <2>1. v # ABSENT
    BY <1>7 DEF FromVcl, Ok
  <2>2. FromVcl(ty, v).val = SocketAddr(v)
    BY <1>7, <2>1 DEF FromVcl, UseTryFrom, Pointers, Ok
  <2>3. SocketAddr(v) = v
    BY <1>7, <2>2 DEF SocketAddr
  <2>4. IntoVcl(ty, v, n).val = v
    BY <1>7, <2>2, <2>3 DEF IntoVcl, IntoVclIp, Made, Ok, Err, Strings
  <2> QED
    BY <1>7, <2>1, <2>2, <2>3, <2>4 DEF Echoes, Alike, Canonical
<1> QED
  BY <1>1, <1>2, <1>3, <1>4, <1>5, <1>6, <1>7 DEF Plain, Types

LEMMA PlainReads ==
  ASSUME NEW ty \in Plain, NEW r \in RustValues(ty), NEW n, IntoVcl(ty, r, n).out # "err"
  PROVE  ReadsBack(ty, r, IntoVcl(ty, r, n).val)
<1>1. /\ ty \notin Strings /\ ty # "probe" /\ r # ABSENT
      /\ IntoVcl(ty, r, n).val = r
  <2>1. CASE ty \in Pointers \cup {"bool", "duration", "backend"}
    <3>1. IntoVcl(ty, r, n).val = r
      BY <2>1 DEF IntoVcl, Made, Ok, Strings, Pointers
    <3>2. r # ABSENT
      BY <2>1, Outside DEF RustValues, Strings, Pointers, Named
    <3> QED
      BY <2>1, <3>1, <3>2 DEF Strings, Pointers
  <2>2. CASE ty = "time"
    <3>1. r # ABSENT
      BY <2>2, Outside DEF RustValues, Strings, Pointers, Named
    <3> QED
      BY <2>2, <3>1 DEF IntoVcl, IntoVclTime, Made, Ok, Err, Strings
  <2>3. CASE ty = "blob"
    <3>1. r # ABSENT
      BY <2>3, Outside DEF RustValues, Strings, Pointers, Named
    <3>2. IntoVcl(ty, r, n) = CopyBlob(r, n)
      BY <2>3 DEF IntoVcl, Strings
    <3>3. CopyBlob(r, n).val = r
      BY <3>2 DEF CopyBlob, Made, Ok, Err
    <3> QED
      BY <2>3, <3>1, <3>2, <3>3 DEF Strings
  <2>4. CASE ty = "ip"
    <3>1. r # ABSENT
      BY <2>4, Outside DEF RustValues, Strings, Pointers, Named
    <3> QED
      BY <2>4, <3>1 DEF IntoVcl, IntoVclIp, Made, Ok, Err, Strings
  <2> QED
    BY <2>1, <2>2, <2>3, <2>4 DEF Plain, Types
<1>2. FromVcl(ty, r) = Ok(r)
  <2>1. CASE ty \in Pointers
    <3>1. r = "it" /\ r # NULL
      BY <2>1, Outside DEF RustValues, Strings, Pointers, Named
    <3> QED
      BY <1>1, <2>1, <3>1 DEF FromVcl, UseTryFrom, Pointers
  <2>2. CASE ty = "backend"
    BY <1>1, <2>2 DEF FromVcl, UseTryFrom, Pointers
  <2>3. CASE ty = "bool"
    <3>1. r \in {"0", "1"}
      BY <2>3 DEF RustValues, Strings, Pointers
    <3> QED
      BY <1>1, <2>3, <3>1 DEF FromVcl, UseTryFrom, Pointers
  <2>4. CASE ty = "duration"
    <3>1. r \in {"zero", "plus"}
      BY <2>4 DEF RustValues, Strings, Pointers
    <3> QED
      BY <1>1, <2>4, <3>1 DEF FromVcl, UseTryFrom, Pointers, Duration
  <2>5. CASE ty = "time"
    <3>1. r \in {"minus", "zero", "plus"}
      BY <2>5 DEF RustValues, Strings, Pointers
    <3> QED
      BY <1>1, <2>5, <3>1 DEF FromVcl, UseTryFrom, Pointers, SystemTime
  <2>6. CASE ty = "blob"
    <3>1. r \in {"empty", "bytes"} /\ r # NULL
      BY <2>6, Outside DEF RustValues, Strings, Pointers, Named
    <3> QED
      BY <1>1, <2>6, <3>1 DEF FromVcl, UseTryFrom, Pointers, Bytes
  <2>7. CASE ty = "ip"
    <3>1. r \in {"v4", "v6"}
      BY <2>7 DEF RustValues, Strings, Pointers
    <3> QED
      BY <1>1, <2>7, <3>1 DEF FromVcl, UseTryFrom, Pointers, SocketAddr
  <2> QED
    BY <2>1, <2>2, <2>3, <2>4, <2>5, <2>6, <2>7 DEF Plain, Types
<1> QED
  BY <1>1, <1>2 DEF ReadsBack, Alike, Ok

\* What a function returns of its argument, and what it returns of its own.
LEMMA ArgumentEchoes ==
  ASSUME NEW ty \in Types, NEW v \in VclValues(ty), NEW n, NEW a,
         FromVcl(ty, v).out = "ok", a = FromVcl(ty, v).val,
         a = NULL => ty \notin {"ip", "probe"}, IntoVcl(ty, a, n).out # "err"
  PROVE  Echoes(ty, v, IntoVcl(ty, a, n).val)
<1>1. CASE ty \in Strings
  BY <1>1, StringEchoes
<1>2. CASE ty = "probe"
  BY <1>2, ProbeEchoes
<1>3. CASE ty \in Plain
  BY <1>3, PlainEchoes
<1> QED
  BY <1>1, <1>2, <1>3 DEF Plain

LEMMA OwnReads ==
  ASSUME NEW ty \in Types, NEW r \in RustValues(ty), NEW n, IntoVcl(ty, r, n).out # "err"
  PROVE  ReadsBack(ty, r, IntoVcl(ty, r, n).val)
<1>1. CASE ty \in Strings
  BY <1>1, StringReads
<1>2. CASE ty = "probe"
  BY <1>2, ProbeReads
<1>3. CASE ty \in Plain
  BY <1>3, PlainReads
<1> QED
  BY <1>1, <1>2, <1>3 DEF Plain

\* An argument that a function still has is the converted value that VCL passed.
Converts(c) == c.arg # Gone =>
  /\ c.vcl \in VclValues(c.fn.ty)
  /\ FromVcl(c.fn.ty, c.vcl).out = "ok" /\ c.arg = FromVcl(c.fn.ty, c.vcl).val
ArgsRight == \A i \in DOMAIN frames : Converts(frames[i])

\* The frames after a call are those before it, one more, or one less.
LEMMA CallUserArgs ==
  ASSUME CallsInv, ArgsRight, NEW f \in Functions, NEW v \in VclValues(f.ty), CallUser(f, v)
  PROVE  ArgsRight'
<1>1. PICK c : c = [fn |-> f, vcl |-> v, arg |-> FromVcl(f.ty, v).val, sub |-> NULL]
  OBVIOUS
<1>2. frames' = Append(frames, c) /\ FromVcl(f.ty, v).out = "ok"
  BY <1>1 DEF CallUser
<1>3. Converts(c)
  BY <1>1, <1>2 DEF Converts
<1>4. frames \in Seq(Frame) /\ Len(frames) \in Nat /\ DOMAIN frames = 1..Len(frames)
  BY FramesAre DEF CallsInv, Framed
<1>5. DOMAIN frames' = 1..(Len(frames) + 1)
  BY <1>2, <1>4
<1>6. \A i \in DOMAIN frames' : frames'[i] = IF i = Len(frames) + 1 THEN c ELSE frames[i]
  BY <1>2, <1>4, <1>5
<1>7. \A i \in DOMAIN frames' : i # Len(frames) + 1 => i \in DOMAIN frames
  BY <1>4, <1>5
<1> QED
  BY <1>3, <1>6, <1>7 DEF ArgsRight

LEMMA SubArgs ==
  ASSUME CallsInv, ArgsRight, (\E s \in DOMAIN Subs : CallSub(s)) \/ EndSub
  PROVE  ArgsRight'
<1>0. frames # <<>>
  BY DEF CallSub, InUser, EndSub
<1>1. Len(frames) \in DOMAIN frames
  BY <1>0, FramesAre DEF CallsInv
<1>2. ASSUME NEW c, Converts(c), frames' = [frames EXCEPT ![Len(frames)] = c] PROVE ArgsRight'
  BY <1>1, <1>2 DEF ArgsRight
<1>3. ASSUME NEW s \in DOMAIN Subs, CallSub(s) PROVE ArgsRight'
  <2>1. CASE handling = "none"
    <3>1. PICK c : c = [fn |-> TopFrame.fn, vcl |-> Gone, arg |-> Gone, sub |-> s]
      OBVIOUS
    <3>2. frames' = [frames EXCEPT ![Len(frames)] = c]
      BY <1>3, <2>1, <3>1 DEF CallSub, Run, TopFrame
    <3>3. Converts(c)
      BY <3>1 DEF Converts
    <3> QED
      BY <1>2, <3>2, <3>3
  <2>2. CASE handling # "none"
    BY <1>3, <2>2 DEF CallSub, Run, ArgsRight
  <2> QED
    BY <2>1, <2>2
<1>4. CASE EndSub
  <2>1. PICK c : c = [TopFrame EXCEPT !.sub = NULL]
    OBVIOUS
  <2>2. frames' = [frames EXCEPT ![Len(frames)] = c]
    BY <1>4, <2>1 DEF EndSub, TopFrame
  <2>3. TopFrame \in Frame /\ Converts(TopFrame)
    BY <1>0, <1>1, FramesAre DEF TopFrame, ArgsRight, CallsInv
  <2>4. c.fn = TopFrame.fn /\ c.vcl = TopFrame.vcl /\ c.arg = TopFrame.arg
    BY <2>1, <2>3 DEF Frame
  <2>5. Converts(c)
    BY <2>3, <2>4 DEF Converts
  <2> QED
    BY <1>2, <2>2, <2>5
<1> QED
  BY <1>3, <1>4

LEMMA PopArgs == ASSUME CallsInv, ArgsRight, frames # <<>>, PopFrame PROVE ArgsRight'
<1>1. PICK n : n = Len(frames)
  OBVIOUS
<1>2. /\ n \in Nat /\ n > 0 /\ DOMAIN frames = 1..n
      /\ \A i \in 1..(n - 1) : frames[i] \in Frame
  BY <1>1, FramesAre DEF CallsInv
<1>3. /\ frames' \in Seq(Frame) /\ Len(frames') = n - 1
      /\ \A i \in 1..(n - 1) : frames'[i] = frames[i]
  BY <1>1, <1>2, SubSeqProperties DEF PopFrame
<1>4. DOMAIN frames' = 1..(n - 1)
  BY <1>3, LenProperties
<1>5. \A i \in DOMAIN frames' : i \in DOMAIN frames /\ frames'[i] = frames[i]
  BY <1>2, <1>3, <1>4
<1> QED
  BY <1>5 DEF ArgsRight

\* A value that a function returns is faithful if it comes from its argument,
\* which it still has, or is one that it may make.
LEMMA ReturnFaithful ==
  ASSUME CallsInv, ArgsRight, ReturnArgument \/ ReturnOther, given' # given
  PROVE  ValueFaithful'
<1>1. frames # <<>> /\ InUser
  BY DEF ReturnArgument, ReturnOther, InUser
<1>2. PICK fr : fr = TopFrame
  OBVIOUS
<1>3. fr \in Frame /\ fr.fn.ty \in Types /\ Converts(fr)
  BY <1>1, <1>2, FramesAre, FunctionsAssumption DEF TopFrame, ArgsRight, CallsInv
<1>4. ASSUME NEW r, NEW echo \in BOOLEAN, ReturnValue(r, echo),
             echo => /\ fr.arg # Gone /\ r = fr.arg
                     /\ r = NULL => fr.fn.ty \notin {"ip", "probe"},
             ~echo => r \in RustValues(fr.fn.ty)
      PROVE  ValueFaithful'
  <2>1. PICK result : result = IntoVcl(fr.fn.ty, r, room)
    OBVIOUS
  <2>2. CASE result.out = "err"
    <3>1. given' = Default
      BY <1>2, <1>4, <2>1, <2>2 DEF ReturnValue, Fail
    <3> QED
      BY <3>1 DEF ValueFaithful, Default
  <2>3. CASE result.out # "err"
    <3>1. given' = [out |-> "value", ty |-> fr.fn.ty, echo |-> echo,
                    of |-> IF echo THEN fr.vcl ELSE r, val |-> result.val]
      BY <1>2, <1>4, <2>1, <2>3 DEF ReturnValue
    <3>2. CASE echo
      <4>1. /\ fr.vcl \in VclValues(fr.fn.ty) /\ FromVcl(fr.fn.ty, fr.vcl).out = "ok"
            /\ r = FromVcl(fr.fn.ty, fr.vcl).val
        BY <1>3, <1>4, <3>2 DEF Converts
      <4>2. Echoes(fr.fn.ty, fr.vcl, result.val)
        BY <1>3, <1>4, <2>1, <2>3, <3>2, <4>1, ArgumentEchoes
      <4>3. given'.echo /\ given'.ty = fr.fn.ty /\ given'.of = fr.vcl /\ given'.val = result.val
        BY <3>1, <3>2
      <4> QED
        BY <4>2, <4>3 DEF ValueFaithful
    <3>3. CASE ~echo
      <4>1. ReadsBack(fr.fn.ty, r, result.val)
        BY <1>3, <1>4, <2>1, <2>3, <3>3, OwnReads
      <4>2. ~given'.echo /\ given'.ty = fr.fn.ty /\ given'.of = r /\ given'.val = result.val
        BY <3>1, <3>3
      <4> QED
        BY <4>1, <4>2 DEF ValueFaithful
    <3> QED
      BY <3>2, <3>3
  <2> QED
    BY <2>2, <2>3
<1>5. CASE ReturnArgument
  BY <1>2, <1>4, <1>5 DEF ReturnArgument
<1>6. CASE ReturnOther
  BY <1>2, <1>4, <1>6 DEF ReturnOther
<1> QED
  BY <1>5, <1>6

Faithful == ArgsRight /\ ValueFaithful

LEMMA StepFaithful == CallsInv /\ Faithful /\ [CallsNext]_allVars => Faithful'
<1> SUFFICES ASSUME CallsInv, Faithful, [CallsNext]_allVars PROVE Faithful'
  OBVIOUS
<1>0. ASSUME given' \in {given, Default} PROVE ValueFaithful'
  <2>1. CASE given' = given
    BY <2>1 DEF Faithful, ValueFaithful
  <2>2. CASE given' = Default
    BY <2>2 DEF ValueFaithful, Default
  <2> QED
    BY <1>0, <2>1, <2>2
<1>1. ASSUME UNCHANGED frames \/ frames' = <<>> PROVE ArgsRight'
  BY <1>1 DEF Faithful, ArgsRight
<1>2. ASSUME NEW f \in Functions, Refuse(f) PROVE Faithful'
  BY <1>0, <1>1, <1>2 DEF Refuse, Fail, Faithful
<1>3. ASSUME NEW f \in Functions, NEW v \in VclValues(f.ty), BadArgument(f, v) \/ Panic(f, v)
      PROVE  Faithful'
  BY <1>0, <1>1, <1>3 DEF BadArgument, Panic, Fail, Faithful
<1>4. ASSUME NEW f \in Functions, NEW v \in VclValues(f.ty), CallUser(f, v) PROVE Faithful'
  <2>1. ArgsRight'
    BY <1>4, CallUserArgs DEF Faithful
  <2> QED
    BY <1>0, <1>4, <2>1 DEF CallUser, Faithful
<1>5. ASSUME (\E s \in DOMAIN Subs : CallSub(s)) \/ EndSub PROVE Faithful'
  <2>1. ArgsRight'
    BY <1>5, SubArgs DEF Faithful
  <2> QED
    BY <1>0, <1>5, <2>1 DEF CallSub, Run, EndSub, Faithful
<1>6. CASE ReturnErr
  <2>1. ArgsRight'
    BY <1>6, PopArgs DEF ReturnErr, InUser, Faithful
  <2> QED
    BY <1>0, <1>6, <2>1 DEF ReturnErr, Fail, Faithful
<1>7. CASE ReturnArgument \/ ReturnOther
  <2>1. ArgsRight'
    BY <1>7, PopArgs DEF ReturnArgument, ReturnOther, ReturnValue, InUser, Faithful
  <2>2. ValueFaithful'
    BY <1>0, <1>7, ReturnFaithful DEF Faithful
  <2> QED
    BY <2>1, <2>2 DEF Faithful
<1>8. CASE SetShared \/ EndTask \/ BeginTask \/ Restart \/ UNCHANGED allVars
  BY <1>0, <1>1, <1>8 DEF SetShared, EndTask, BeginTask, Restart, allVars, taskVars, Faithful
<1> QED
  BY <1>2, <1>3, <1>4, <1>5, <1>6, <1>7, <1>8 DEF CallsNext

-----------------------------------------------------------------------------
\* The invariant holds in every state the program reaches.
THEOREM Invariance == CallsSpec => []CallsInv
<1>1. CallsInv /\ [CallsNext]_allVars => CallsInv'
  BY CallsStep
<1> QED
  BY <1>1, CallsBegin, PTL DEF CallsSpec

\* The types of the state, and that the frames are those of the calls.
THEOREM CallsTypeCorrect == CallsSpec => []CallsTypeOK
BY Invariance, CallsInvTypes, PTL

\* A shared object never has two owners, and the slot or the call that owns it
\* finds it allocated, with any nesting of calls, errors and panics of wrappers.
THEOREM AlwaysSoleOwner == CallsSpec => []SoleOwner
<1>1. CallsInv => SoleOwner
  BY InvImplies DEF CallsInv
<1> QED
  BY <1>1, Invariance, PTL

\* An object loses its owner in one way only: put overwrites what a call below
\* has left in the slot.
THEOREM LostOnlyWhereOverwritten == CallsSpec => LostOnlyInPut
<1>1. CallsInv /\ [CallsNext]_allVars =>
        [\A o \in live \cap live' :
           Owners(o) # {} /\ Owners(o)' = {} => \E v \in Vmods : priv[v] = o /\ PutBack(v)]_vars
  BY CallsMoves, MovesAre DEF CallsInv, Inv
<1> QED
  BY <1>1, Invariance, PTL DEF CallsSpec, LostOnlyInPut

\* A reference that a function has got stays valid while it runs, unless a function
\* of the same vmod that mutates is called below it.
THEOREM RefsLostOnlyWhereTaken == CallsSpec => RefsLostOnlyToMut
<1>1. CallsInv /\ [CallsNext]_allVars => [Referred]_vars
  BY CallsMoves DEF Moves
<1>2. [Referred]_vars =>
        [\A i \in DOMAIN calls' :
           /\ i \notin DOMAIN calls /\ Refers(i)' => InPlace(i)'
           /\ i \in DOMAIN calls /\ Refers(i) /\ InPlace(i) =>
                InPlace(i)' \/ MutBelow(i) \/ MutBelow(i)']_vars
  BY SMT DEF Referred
<1> QED
  BY <1>1, <1>2, Invariance, PTL DEF CallsSpec, RefsLostOnlyToMut

\* Functions and subroutines run only where their restrictions let them.
THEOREM RestrictionsHold == CallsSpec => []OnlyWhereAllowed
<1>1. CallsInv => OnlyWhereAllowed
  BY DEF CallsInv
<1> QED
  BY <1>1, Invariance, PTL

\* What VCL gets from a call is what the user's function returned, for every type
\* of argument and result and whatever room the workspace has, in the sense of
\* Canonical and Alike: but for a probe's threshold, which is lost, and its text,
\* which is made UTF-8.
THEOREM ValuesAreFaithful == CallsSpec => []ValueFaithful
<1>1. CallsInit => Faithful
  BY DEF CallsInit, Faithful, ArgsRight, ValueFaithful, Default
<1>2. Faithful => ValueFaithful
  BY DEF Faithful
<1> QED
  BY <1>1, <1>2, StepFaithful, Invariance, PTL DEF CallsSpec

-----------------------------------------------------------------------------
(* What is accepted, and the types behind the pointers.                      *)

Func    == [type : FuncTypes, head : Heads, args : Seq(Args)]
Flagged == {"task", "vcl", "ctx", "event", "fetch", "delivery", "name"}

\* LegalFunc, with the kinds that may come once told by their positions.
Fair(f) ==
  /\ HeadOk(f.head) /\ ResultOk(f.head)
  /\ \A i \in DOMAIN f.args : ArgAllowed(f.args[i], f.type, i)
  /\ \A i, j \in DOMAIN f.args : f.args[i].kind = f.args[j].kind /\ f.args[i].kind \in Flagged => i = j

\* The shared arguments of a function have the stored types.
Matches(f) == \A i \in DOMAIN f.args : /\ f.args[i].kind = "task" => f.args[i].ty = perTask
                                       /\ f.args[i].kind = "vcl"  => f.args[i].ty = perVcl

\* What breaks a module whatever comes after it.
Broken == \/ \E i \in DOMAIN source : ~Fair(source[i])
          \/ ~OneType("task") \/ ~OneType("vcl")

\* The inductive invariant, in parts: the types; a stored type comes from some
\* argument; the functions in the model, and the one that is read, agree with the
\* stored types, and the flags are those of its arguments; and an error, of this
\* function or an earlier one, is one that the rules name.
ParserTypes ==
  /\ source \in Seq(Func) /\ funcs \in Seq(Func)
  /\ stage \in {"between", "in", "done"}
  /\ status \subseteq Flagged
  /\ failed \in BOOLEAN /\ errors \in BOOLEAN
  /\ perTask \in Shared \cup {None} /\ perVcl \in SharedTypes \cup {None}
  /\ verdict \in {"none", "accepted", "rejected"}
  /\ stage = "in" => source # <<>>
Stored ==
  /\ perTask # None => \E a \in AllArgs(source) : a.kind = "task" /\ a.ty = perTask
  /\ perVcl # None  => \E a \in AllArgs(source) : a.kind = "vcl" /\ a.ty = perVcl
Modelled ==
  /\ \A i \in DOMAIN funcs : Fair(funcs[i]) /\ Matches(funcs[i])
  /\ ~errors => source = IF stage = "in" THEN Append(funcs, Current) ELSE funcs
Reading ==
  stage = "in" /\ ~failed =>
    /\ Fair(Current) /\ Matches(Current)
    /\ \A kind \in Flagged : kind \in status <=> \E i \in DOMAIN Current.args : Current.args[i].kind = kind
Blamed == errors \/ (stage = "in" /\ failed) => Broken
Decided == verdict # "none" =>
  /\ stage = "done"
  /\ verdict = "accepted" <=> ~errors /\ ObjectValid /\ Valid
ParserInv == ParserTypes /\ Stored /\ Modelled /\ Reading /\ Blamed /\ Decided

\* The arguments, by kind.
LEMMA ArgIs ==
  ASSUME NEW a \in Args
  PROVE  /\ a.kind = "task" => a.ty \in Shared
         /\ a.kind = "vcl" => a.ty \in SharedTypes
         /\ a.kind \in Flagged \cup {"self", "value", "combined"}
<1>1. \A t \in SharedTypes : Cell(t) \in Shared /\ t \in Shared
  BY DEF Shared
<1> QED
  BY <1>1 DEF Args, Flagged

\* A stored type is not the absence of one.
LEMMA NoneIsNot == /\ None \notin Shared /\ None \notin SharedTypes /\ None \notin Names
                   /\ SharedTypes \subseteq Shared
BY NoneAssumption DEF Shared

\* The arguments of several functions.
LEMMA AllArgsAre ==
  ASSUME NEW fs
  PROVE  \A a : a \in AllArgs(fs) <=> \E i \in DOMAIN fs : \E j \in DOMAIN fs[i].args : a = fs[i].args[j]
BY DEF AllArgs, ArgsOf

\* A function of the module has arguments.
LEMMA FuncIs ==
  ASSUME NEW f \in Func
  PROVE  /\ f.args \in Seq(Args) /\ f.type \in FuncTypes /\ f.head \in Heads
         /\ Len(f.args) \in Nat /\ DOMAIN f.args = 1..Len(f.args)
         /\ \A i \in DOMAIN f.args : f.args[i] \in Args
<1>1. f.args \in Seq(Args) /\ f.type \in FuncTypes /\ f.head \in Heads
  BY DEF Func
<1> QED
  BY <1>1

LEMMA FuncsAre ==
  ASSUME NEW fs \in Seq(Func)
  PROVE  /\ Len(fs) \in Nat /\ DOMAIN fs = 1..Len(fs)
         /\ \A i \in DOMAIN fs : fs[i] \in Func
         /\ fs # <<>> => Len(fs) \in DOMAIN fs
BY EmptySeq

\* A set has at most one element if any two of its elements are the same.
LEMMA AtMostOne ==
  ASSUME NEW S, IsFiniteSet(S)
  PROVE  Cardinality(S) <= 1 <=> \A x, y \in S : x = y
<1>1. ASSUME Cardinality(S) <= 1, NEW x \in S, NEW y \in S, x # y PROVE FALSE
  <2>1. IsFiniteSet(S \ {x}) /\ Cardinality(S \ {x}) = Cardinality(S) - 1
    BY FS_RemoveElement
  <2>2. Cardinality(S \ {x}) \in Nat /\ Cardinality(S) \in Nat
    BY <2>1, FS_CardinalityType
  <2>3. Cardinality(S \ {x}) = 0
    BY <1>1, <2>1, <2>2
  <2> QED
    BY <1>1, <2>1, <2>3, FS_EmptySet
<1>2. ASSUME \A x, y \in S : x = y PROVE Cardinality(S) <= 1
  <2>1. CASE S = {}
    BY <2>1, FS_EmptySet
  <2>2. ASSUME NEW x \in S PROVE Cardinality(S) <= 1
    <3>1. S = {x}
      BY <1>2
    <3> QED
      BY <3>1, FS_Singleton
  <2> QED
    BY <2>1, <2>2
<1> QED
  BY <1>1, <1>2

\* Some positions of a sequence.
LEMMA PositionsFinite ==
  ASSUME NEW n \in Nat, NEW S, S \subseteq 1..n
  PROVE  IsFiniteSet(S)
<1>1. IsFiniteSet(1..n)
  BY FS_Interval
<1> QED
  BY <1>1, FS_Subset

\* The count of a kind is told by its positions.
LEMMA FairIsLegal == ASSUME NEW f \in Func PROVE Fair(f) <=> LegalFunc(f)
<1>1. ASSUME NEW kind PROVE Count(f, kind) <= 1 <=>
        \A i, j \in DOMAIN f.args : f.args[i].kind = kind /\ f.args[j].kind = kind => i = j
  <2> DEFINE S == {i \in DOMAIN f.args : f.args[i].kind = kind}
  <2>1. IsFiniteSet(S)
    BY FuncIs, PositionsFinite
  <2> HIDE DEF S
  <2>2. Cardinality(S) <= 1 <=> \A x, y \in S : x = y
    BY <2>1, AtMostOne
  <2> QED
    BY <2>2 DEF Count, S
<1>2. (\A kind \in Flagged : Count(f, kind) <= 1) <=>
      \A i, j \in DOMAIN f.args : f.args[i].kind = f.args[j].kind /\ f.args[i].kind \in Flagged => i = j
  BY <1>1
<1> QED
  BY <1>2 DEF Fair, LegalFunc, Flagged

-----------------------------------------------------------------------------
(* The module grows by a function, or by an argument of its last one.        *)

\* A function with one argument more.
WithArg(f, a) == [f EXCEPT !.args = Append(f.args, a)]

LEMMA WithArgIs ==
  ASSUME NEW f \in Func, NEW a \in Args
  PROVE  /\ WithArg(f, a) \in Func
         /\ WithArg(f, a).head = f.head /\ WithArg(f, a).type = f.type
         /\ DOMAIN WithArg(f, a).args = DOMAIN f.args \cup {Len(f.args) + 1}
         /\ Len(f.args) + 1 \notin DOMAIN f.args
         /\ WithArg(f, a).args[Len(f.args) + 1] = a
         /\ \A i \in DOMAIN f.args : WithArg(f, a).args[i] = f.args[i]
<1>1. PICK s : s = Append(f.args, a)
  OBVIOUS
<1>2. /\ f.args \in Seq(Args) /\ Len(f.args) \in Nat /\ DOMAIN f.args = 1..Len(f.args)
  BY FuncIs
<1>3. /\ s \in Seq(Args) /\ Len(s) = Len(f.args) + 1 /\ s[Len(f.args) + 1] = a
      /\ \A i \in 1..Len(f.args) : s[i] = f.args[i]
  BY <1>1, <1>2, AppendProperties
<1>4. DOMAIN s = 1..(Len(f.args) + 1)
  BY <1>3, LenProperties
<1>5. WithArg(f, a) = [f EXCEPT !.args = s]
  BY <1>1 DEF WithArg
<1>6. /\ WithArg(f, a) \in Func /\ WithArg(f, a).args = s
      /\ WithArg(f, a).head = f.head /\ WithArg(f, a).type = f.type
  BY <1>3, <1>5 DEF Func
<1> QED
  BY <1>2, <1>3, <1>4, <1>6

\* An argument may come next: it is allowed in its place, and no second of a
\* kind that comes once.
MayFollow(f, a) ==
  /\ ArgAllowed(a, f.type, Len(f.args) + 1)
  /\ a.kind \in Flagged => \A i \in DOMAIN f.args : f.args[i].kind # a.kind

LEMMA FairWithArg ==
  ASSUME NEW f \in Func, NEW a \in Args
  PROVE  Fair(WithArg(f, a)) <=> Fair(f) /\ MayFollow(f, a)
<1>1. PICK g \in Func : g = WithArg(f, a)
  BY WithArgIs
<1>2. PICK n : n = Len(f.args) + 1
  OBVIOUS
<1>3. /\ g.head = f.head /\ g.type = f.type /\ DOMAIN g.args = DOMAIN f.args \cup {n}
      /\ n \notin DOMAIN f.args /\ g.args[n] = a /\ \A i \in DOMAIN f.args : g.args[i] = f.args[i]
  BY <1>1, <1>2, WithArgIs
<1>4. ASSUME Fair(g) PROVE Fair(f) /\ MayFollow(f, a)
  <2>1. Fair(f) /\ ArgAllowed(a, f.type, n)
    BY <1>3, <1>4 DEF Fair
  <2>2. ASSUME a.kind \in Flagged, NEW i \in DOMAIN f.args, f.args[i].kind = a.kind PROVE FALSE
    BY <1>3, <1>4, <2>2 DEF Fair
  <2> QED
    BY <1>2, <2>1, <2>2 DEF MayFollow
<1>5. ASSUME Fair(f), MayFollow(f, a) PROVE Fair(g)
  BY <1>2, <1>3, <1>5 DEF Fair, MayFollow
<1> QED
  BY <1>1, <1>4, <1>5

\* What Arg makes of the source.
LEMMA ArgSource ==
  ASSUME ParserInv, NEW a \in Menu, Arg(a)
  PROVE  /\ a \in Args /\ Current \in Func
         /\ source' \in Seq(Func) /\ source' # <<>> /\ Len(source') = Len(source)
         /\ DOMAIN source' = DOMAIN source /\ Len(source) \in DOMAIN source
         /\ Current' = WithArg(Current, a)
         /\ \A i \in DOMAIN source :
              source'[i] = IF i = Len(source) THEN WithArg(Current, a) ELSE source[i]
<1>1. PICK n : n = Len(source)
  OBVIOUS
<1>2. /\ source \in Seq(Func) /\ n \in DOMAIN source /\ DOMAIN source = 1..n /\ n \in Nat
      /\ source[n] \in Func /\ Current = source[n]
  BY <1>1, FuncsAre DEF ParserInv, ParserTypes, Arg, Current
<1>3. a \in Args
  BY MenuAssumption
<1>4. PICK g \in Func : g = WithArg(source[n], a)
  BY <1>2, <1>3, WithArgIs
<1>5. source' = [source EXCEPT ![n] = g]
  BY <1>1, <1>4 DEF Arg, WithArg
<1>6. /\ source' \in Seq(Func) /\ Len(source') = Len(source)
      /\ \A i \in 1..Len(source) : source'[i] = IF i = n THEN g ELSE source[i]
  BY <1>1, <1>2, <1>4, <1>5, ExceptSeq
<1>7. DOMAIN source' = DOMAIN source
  BY <1>5
<1>8. Current' = g
  BY <1>1, <1>2, <1>6 DEF Current
<1>9. source' # <<>>
  BY <1>2, <1>7
<1> QED
  BY <1>1, <1>2, <1>3, <1>4, <1>6, <1>7, <1>8, <1>9

\* And of its arguments.
LEMMA ArgSourceArgs ==
  ASSUME ParserInv, NEW a \in Menu, Arg(a)
  PROVE  AllArgs(source)' = AllArgs(source) \cup {a}
<1>1. PICK n : n = Len(source)
  OBVIOUS
<1>2. PICK m : m = Len(Current.args) + 1
  OBVIOUS
<1>3. PICK g : g = WithArg(Current, a)
  OBVIOUS
<1>4. /\ n \in DOMAIN source /\ DOMAIN source' = DOMAIN source /\ Current = source[n]
      /\ \A i \in DOMAIN source : source'[i] = IF i = n THEN g ELSE source[i]
      /\ DOMAIN g.args = DOMAIN Current.args \cup {m} /\ g.args[m] = a
      /\ \A i \in DOMAIN Current.args : g.args[i] = Current.args[i]
      /\ m \notin DOMAIN Current.args
  BY <1>1, <1>2, <1>3, ArgSource, WithArgIs DEF Current
<1>5. ASSUME NEW x PROVE x \in AllArgs(source)' <=> x \in AllArgs(source) \cup {a}
  <2>1. x \in AllArgs(source)' <=>
        \E i \in DOMAIN source' : \E j \in DOMAIN source'[i].args : x = source'[i].args[j]
    BY DEF AllArgs, ArgsOf
  <2>2. x \in AllArgs(source) <=>
        \E i \in DOMAIN source : \E j \in DOMAIN source[i].args : x = source[i].args[j]
    BY AllArgsAre
  <2>3. ASSUME NEW i \in DOMAIN source, NEW j \in DOMAIN source[i].args, x = source[i].args[j]
        PROVE  x \in AllArgs(source)'
    BY <1>4, <2>1, <2>3
  <2>4. a \in AllArgs(source)'
    BY <1>4, <2>1 DEF AllArgs, ArgsOf
  <2>5. ASSUME NEW i \in DOMAIN source', NEW j \in DOMAIN source'[i].args, x = source'[i].args[j]
        PROVE  x \in AllArgs(source) \cup {a}
    <3>1. CASE i = n
      BY <1>4, <2>2, <2>5, <3>1
    <3>2. CASE i # n
      BY <1>4, <2>2, <2>5, <3>2
    <3> QED
      BY <3>1, <3>2
  <2> QED
    BY <2>1, <2>2, <2>3, <2>4, <2>5
<1> QED
  BY <1>5

-----------------------------------------------------------------------------
(* One argument.                                                             *)

\* An argument goes on with a stored type, or stores its own.
LEMMA StoreKeeps ==
  ASSUME ParserInv, NEW a \in Args, StoreShared(a),
         a.kind = "task" => Agrees(perTask, a.ty), a.kind = "vcl" => Agrees(perVcl, a.ty)
  PROVE  /\ perTask # None => perTask' = perTask
         /\ perVcl # None => perVcl' = perVcl
         /\ a.kind = "task" => perTask' = a.ty
         /\ a.kind = "vcl" => perVcl' = a.ty
         /\ a.kind # "task" => perTask' = perTask
         /\ a.kind # "vcl" => perVcl' = perVcl
BY DEF StoreShared, Agrees

\* What an argument is refused for, and what becomes of it otherwise.
Refused(a) == \/ ~ArgAllowed(a, Current.type, Len(Current.args) + 1)
              \/ Flags(a) \cap status # {}
              \/ a.kind = "task" /\ ~Agrees(perTask, a.ty)
              \/ a.kind = "vcl" /\ ~Agrees(perVcl, a.ty)

LEMMA ParseArgIs ==
  ASSUME NEW a \in Args, ParseArg(a)
  PROVE  /\ failed' = IF Refused(a) THEN TRUE ELSE failed
         /\ ~Refused(a) => status' = status \cup Flags(a) /\ StoreShared(a)
         /\ status' \in {status, status \cup Flags(a)}
         /\ \/ UNCHANGED <<perTask, perVcl>>
            \/ /\ StoreShared(a)
               /\ a.kind = "task" => Agrees(perTask, a.ty)
               /\ a.kind = "vcl" => Agrees(perVcl, a.ty)
<1>1. CASE ~ArgAllowed(a, Current.type, Len(Current.args) + 1)
  BY <1>1 DEF ParseArg, RefuseArg, Refused
<1>2. CASE ArgAllowed(a, Current.type, Len(Current.args) + 1) /\ a.kind = "vcl"
  BY <1>2 DEF ParseArg, RefuseArg, Refused
<1>3. CASE ArgAllowed(a, Current.type, Len(Current.args) + 1) /\ a.kind # "vcl"
  BY <1>3 DEF ParseArg, RefuseArg, Refused
<1> QED
  BY <1>1, <1>2, <1>3

\* A function that agrees with the stored types goes on to do so.
LEMMA MatchesStays ==
  ASSUME NEW f \in Func, Matches(f), perTask # None => perTask' = perTask,
         perVcl # None => perVcl' = perVcl
  PROVE  Matches(f)'
<1>1. \A i \in DOMAIN f.args : /\ f.args[i].kind = "task" => f.args[i].ty # None
                               /\ f.args[i].kind = "vcl" => f.args[i].ty # None
  BY FuncIs, ArgIs, NoneIsNot
<1> QED
  BY <1>1 DEF Matches

\* What was broken remains so when there is another argument.
LEMMA ArgBroken ==
  ASSUME ParserInv, NEW a \in Menu, Arg(a), Broken
  PROVE  Broken'
<1>1. AllArgs(source)' = AllArgs(source) \cup {a}
  BY ArgSourceArgs
<1>2. CASE ~OneType("task")
  BY <1>1, <1>2 DEF OneType, Broken
<1>3. CASE ~OneType("vcl")
  BY <1>1, <1>3 DEF OneType, Broken
<1>4. ASSUME NEW i \in DOMAIN source, ~Fair(source[i]) PROVE Broken'
  <2>1. CASE i = Len(source)
    <3>1. Current = source[i]
      BY <2>1 DEF Current
    <3>2. ~Fair(WithArg(Current, a))
      BY <1>4, <3>1, ArgSource, FairWithArg
    <3> QED
      BY <2>1, <3>2, ArgSource DEF Broken, Fair
  <2>2. CASE i # Len(source)
    BY <1>4, <2>2, ArgSource DEF Broken, Fair
  <2> QED
    BY <2>1, <2>2
<1> QED
  BY <1>2, <1>3, <1>4 DEF Broken

\* Whatever an argument is refused for breaks the module.
LEMMA RefusedBroken ==
  ASSUME ParserInv, NEW a \in Menu, Arg(a), ~failed, Refused(a)
  PROVE  Broken'
<1>0. /\ a \in Args /\ Current \in Func /\ stage = "in" /\ Fair(Current)
      /\ \A kind \in Flagged : kind \in status <=>
           \E i \in DOMAIN Current.args : Current.args[i].kind = kind
  BY ArgSource DEF ParserInv, Reading, Arg
<1>1. ASSUME ~MayFollow(Current, a) PROVE Broken'
  <2>1. ~Fair(WithArg(Current, a))
    BY <1>0, <1>1, FairWithArg
  <2>2. /\ Len(source) \in DOMAIN source' /\ source'[Len(source)] = WithArg(Current, a)
    BY ArgSource
  <2> QED
    BY <2>1, <2>2 DEF Broken, Fair
<1>2. CASE ~ArgAllowed(a, Current.type, Len(Current.args) + 1)
  BY <1>1, <1>2 DEF MayFollow
<1>3. CASE Flags(a) \cap status # {}
  <2>1. a.kind \in status /\ a.kind \in Flagged
    BY <1>0, <1>3, ArgIs DEF Flags
  <2> QED
    BY <1>0, <1>1, <2>1 DEF MayFollow
<1>4. CASE a.kind = "task" /\ ~Agrees(perTask, a.ty)
  <2>1. \E b \in AllArgs(source) : b.kind = "task" /\ b.ty = perTask /\ b.ty # a.ty
    BY <1>4 DEF ParserInv, Stored, Agrees
  <2> QED
    BY <1>4, <2>1, ArgSourceArgs DEF Broken, OneType
<1>5. CASE a.kind = "vcl" /\ ~Agrees(perVcl, a.ty)
  <2>1. \E b \in AllArgs(source) : b.kind = "vcl" /\ b.ty = perVcl /\ b.ty # a.ty
    BY <1>5 DEF ParserInv, Stored, Agrees
  <2> QED
    BY <1>5, <2>1, ArgSourceArgs DEF Broken, OneType
<1> QED
  BY <1>2, <1>3, <1>4, <1>5 DEF Refused

\* What becomes of the flags, the stored types and the function.
LEMMA ArgOutcome ==
  ASSUME ParserInv, NEW a \in Menu, Arg(a)
  PROVE  /\ failed' \in BOOLEAN /\ status' \subseteq Flagged
         /\ failed => failed'
         /\ failed' /\ ~failed => Refused(a)
         /\ ~failed' => ~Refused(a) /\ status' = status \cup Flags(a) /\ StoreShared(a)
         /\ perTask # None => perTask' = perTask
         /\ perVcl # None => perVcl' = perVcl
         /\ perTask' = perTask \/ (a.kind = "task" /\ perTask' = a.ty)
         /\ perVcl' = perVcl \/ (a.kind = "vcl" /\ perVcl' = a.ty)
<1>1. /\ a \in Args /\ failed \in BOOLEAN /\ status \subseteq Flagged /\ stage = "in"
  BY ArgSource DEF ParserInv, ParserTypes, Arg
<1>2. Flags(a) \subseteq Flagged
  BY <1>1, ArgIs DEF Flags
<1>3. CASE ~ResultOk(Current.head)
  <2>1. failed
    BY <1>1, <1>3 DEF ParserInv, Reading, Fair
  <2>2. UNCHANGED <<status, failed, perTask, perVcl>>
    BY <1>3 DEF Arg
  <2> QED
    BY <1>1, <2>1, <2>2
<1>4. CASE ResultOk(Current.head)
  <2>1. ParseArg(a)
    BY <1>4 DEF Arg
  <2>2. /\ failed' = IF Refused(a) THEN TRUE ELSE failed
        /\ ~Refused(a) => status' = status \cup Flags(a) /\ StoreShared(a)
        /\ status' \in {status, status \cup Flags(a)}
    BY <1>1, <2>1, ParseArgIs
  <2>3. \/ UNCHANGED <<perTask, perVcl>>
        \/ /\ StoreShared(a)
           /\ a.kind = "task" => Agrees(perTask, a.ty)
           /\ a.kind = "vcl" => Agrees(perVcl, a.ty)
    BY <1>1, <2>1, ParseArgIs
  <2>4. CASE UNCHANGED <<perTask, perVcl>>
    BY <1>1, <1>2, <2>2, <2>4
  <2>5. CASE /\ StoreShared(a)
             /\ a.kind = "task" => Agrees(perTask, a.ty)
             /\ a.kind = "vcl" => Agrees(perVcl, a.ty)
    <3>1. /\ perTask # None => perTask' = perTask
          /\ perVcl # None => perVcl' = perVcl
          /\ a.kind = "task" => perTask' = a.ty
          /\ a.kind = "vcl" => perVcl' = a.ty
          /\ a.kind # "task" => perTask' = perTask
          /\ a.kind # "vcl" => perVcl' = perVcl
      BY <1>1, <2>5, StoreKeeps
    <3> QED
      BY <1>1, <1>2, <2>2, <3>1
  <2> QED
    BY <2>3, <2>4, <2>5
<1> QED
  BY <1>3, <1>4

LEMMA ArgStep ==
  ASSUME ParserInv, NEW a \in Menu, Arg(a)
  PROVE  ParserInv'
<1>0. /\ a \in Args /\ Current \in Func /\ stage = "in" /\ stage' = "in" /\ funcs' = funcs
      /\ errors' = errors /\ verdict' = verdict /\ Current' = WithArg(Current, a)
  BY ArgSource DEF Arg
<1>1. ParserTypes'
  <2>1. source' \in Seq(Func) /\ source' # <<>>
    BY ArgSource
  <2>2. perTask' \in Shared \cup {None} /\ perVcl' \in SharedTypes \cup {None}
    BY <1>0, ArgOutcome, ArgIs DEF ParserInv, ParserTypes
  <2> QED
    BY <1>0, <2>1, <2>2, ArgOutcome DEF ParserInv, ParserTypes
<1>2. Stored'
  BY ArgOutcome, ArgSourceArgs DEF ParserInv, Stored
<1>3. Modelled'
  <2>1. ASSUME NEW i \in DOMAIN funcs PROVE Fair(funcs[i]) /\ Matches(funcs[i])'
    <3>1. funcs[i] \in Func /\ Fair(funcs[i]) /\ Matches(funcs[i])
      BY FuncsAre DEF ParserInv, ParserTypes, Modelled
    <3>2. PICK f \in Func : f = funcs[i]
      BY <3>1
    <3>3. Matches(f)'
      BY <3>1, <3>2, ArgOutcome, MatchesStays
    <3> QED
      BY <1>0, <3>1, <3>2, <3>3 DEF Matches
  <2>2. ASSUME ~errors PROVE source' = Append(funcs, Current')
    <3>1. source = Append(funcs, Current)
      BY <1>0, <2>2 DEF ParserInv, Modelled
    <3>2. PICK g \in Func : g = WithArg(Current, a)
      BY <1>0, WithArgIs
    <3>3. funcs \in Seq(Func) /\ Len(funcs) \in Nat
      BY FuncsAre DEF ParserInv, ParserTypes
    <3>4. PICK t : t = Append(funcs, g)
      OBVIOUS
    <3>5. /\ t \in Seq(Func) /\ Len(t) = Len(funcs) + 1 /\ t[Len(funcs) + 1] = g
          /\ \A i \in 1..Len(funcs) : t[i] = funcs[i]
      BY <3>2, <3>3, <3>4, AppendProperties
    <3>6. /\ Len(source) = Len(funcs) + 1 /\ \A i \in 1..Len(funcs) : source[i] = funcs[i]
      BY <1>0, <3>1, <3>3, AppendProperties
    <3>7. /\ source' \in Seq(Func) /\ Len(source') = Len(funcs) + 1
          /\ DOMAIN source = 1..(Len(funcs) + 1)
          /\ \A i \in DOMAIN source : source'[i] = IF i = Len(source) THEN g ELSE source[i]
      BY <3>2, <3>6, ArgSource, FuncsAre DEF ParserInv, ParserTypes
    <3>8. \A i \in 1..Len(source') : source'[i] = t[i]
      BY <3>3, <3>5, <3>6, <3>7
    <3>9. source' = t
      BY <3>5, <3>7, <3>8, SeqEqual
    <3> QED
      BY <1>0, <3>2, <3>4, <3>9
  <2> QED
    BY <1>0, <2>1, <2>2 DEF Modelled, Matches, Fair
<1>4. Reading'
  <2> SUFFICES ASSUME ~failed'
               PROVE  /\ Fair(Current') /\ Matches(Current)'
                      /\ \A kind \in Flagged :
                           kind \in status' <=> \E i \in DOMAIN Current'.args : Current'.args[i].kind = kind
    BY DEF Reading, Fair
  <2>1. /\ ~failed /\ ~Refused(a) /\ status' = status \cup Flags(a) /\ StoreShared(a)
    BY ArgOutcome DEF ParserInv, ParserTypes
  <2>2. /\ Fair(Current) /\ Matches(Current)
        /\ \A kind \in Flagged : kind \in status <=>
             \E i \in DOMAIN Current.args : Current.args[i].kind = kind
    BY <1>0, <2>1 DEF ParserInv, Reading
  <2>3. a.kind \in Flagged => Flags(a) = {a.kind}
    BY DEF Flags, Flagged
  <2>4. MayFollow(Current, a)
    BY <2>1, <2>2, <2>3 DEF MayFollow, Refused
  <2>5. Fair(Current')
    BY <1>0, <2>2, <2>4, FairWithArg
  <2>6. PICK f \in Func : f = Current
    BY <1>0
  <2>7. PICK g : g = WithArg(f, a)
    OBVIOUS
  <2>8. PICK m : m = Len(f.args) + 1
    OBVIOUS
  <2>9. /\ DOMAIN g.args = DOMAIN f.args \cup {m} /\ g.args[m] = a
        /\ \A i \in DOMAIN f.args : g.args[i] = f.args[i]
    BY <1>0, <2>7, <2>8, WithArgIs
  <2>10. Matches(f)'
    BY <2>2, <2>6, ArgOutcome, MatchesStays
  <2>11. (a.kind = "task" => perTask' = a.ty) /\ (a.kind = "vcl" => perVcl' = a.ty)
    BY <2>1 DEF StoreShared
  <2>12. Current' = g
    BY <1>0, <2>6, <2>7
  <2>13. Matches(Current)'
    BY <2>9, <2>10, <2>11, <2>12 DEF Matches
  <2>14. ASSUME NEW kind \in Flagged
         PROVE  kind \in status' <=> \E i \in DOMAIN Current'.args : Current'.args[i].kind = kind
    <3>1. kind \in Flags(a) <=> kind = a.kind
      BY DEF Flags, Flagged
    <3> QED
      BY <2>1, <2>2, <2>6, <2>9, <2>12, <3>1
  <2> QED
    BY <2>5, <2>13, <2>14
<1>5. Blamed'
  BY <1>0, ArgOutcome, ArgBroken, RefusedBroken DEF ParserInv, Blamed
<1>6. Decided'
  BY <1>0 DEF ParserInv, Decided
<1> QED
  BY <1>1, <1>2, <1>3, <1>4, <1>5, <1>6 DEF ParserInv

-----------------------------------------------------------------------------
(* The other steps, and the theorems.                                        *)

\* What is read of a function before its arguments.
LEMMA BeginStep ==
  ASSUME ParserInv, NEW h \in Heads, Begin(h)
  PROVE  ParserInv'
<1>1. PICK f : f = [type |-> FuncType(h), head |-> h, args |-> <<>>]
  OBVIOUS
<1>2. FuncType(h) \in FuncTypes
  BY DEF FuncType, FuncTypes
<1>3. /\ f \in Func /\ f.head = h /\ DOMAIN f.args = {} /\ f.args = <<>>
  <2>1. <<>> \in Seq(Args) /\ DOMAIN <<>> = {}
    OBVIOUS
  <2> QED
    BY <1>1, <1>2, <2>1 DEF Func
<1>4. PICK n : n = Len(source) + 1
  OBVIOUS
<1>5. /\ source \in Seq(Func) /\ Len(source) \in Nat /\ DOMAIN source = 1..Len(source)
      /\ source' = Append(source, f)
  BY <1>1, FuncsAre DEF ParserInv, ParserTypes, Begin
<1>6. /\ source' \in Seq(Func) /\ source' # <<>> /\ DOMAIN source' = DOMAIN source \cup {n}
      /\ source'[n] = f /\ \A i \in DOMAIN source : source'[i] = source[i]
      /\ n \notin DOMAIN source /\ Len(source') = n
  BY <1>3, <1>4, <1>5, AppendProperties, LenProperties
<1>7. Current' = f
  BY <1>6 DEF Current
<1>8. /\ stage = "between" /\ stage' = "in" /\ status' = {} /\ funcs' = funcs /\ errors' = errors
      /\ verdict' = verdict /\ perTask' = perTask /\ perVcl' = perVcl
      /\ failed' = ~(HeadOk(h) /\ ResultOk(h))
  BY DEF Begin
<1>9. AllArgs(source)' = AllArgs(source)
  <2>1. \A x : x \in AllArgs(source)' <=>
               \E i \in DOMAIN source' : \E j \in DOMAIN source'[i].args : x = source'[i].args[j]
    BY DEF AllArgs, ArgsOf
  <2>2. \A x : x \in AllArgs(source)' <=> x \in AllArgs(source)
    BY <1>3, <1>6, <2>1, AllArgsAre
  <2> QED
    BY <2>2
<1>10. Fair(f) <=> ~failed'
  BY <1>3, <1>8 DEF Fair
<1>11. ParserTypes'
  BY <1>6, <1>8 DEF ParserInv, ParserTypes
<1>12. Stored'
  BY <1>8, <1>9 DEF ParserInv, Stored
<1>13. Modelled'
  <2>1. ~errors => source' = Append(funcs, Current')
    BY <1>5, <1>7, <1>8 DEF ParserInv, Modelled
  <2>2. \A i \in DOMAIN funcs : (Fair(funcs[i]) /\ Matches(funcs[i]))'
    BY <1>8 DEF ParserInv, Modelled, Matches, Fair
  <2> QED
    BY <1>8, <2>1, <2>2 DEF Modelled
<1>14. Reading'
  BY <1>3, <1>7, <1>8, <1>10 DEF Reading, Fair, Matches
<1>15. Broken => Broken'
  <2>1. OneType("task")' = OneType("task") /\ OneType("vcl")' = OneType("vcl")
    BY <1>9 DEF OneType
  <2> QED
    BY <1>6, <2>1 DEF Broken, Fair
<1>16. failed' => Broken'
  BY <1>6, <1>10 DEF Broken, Fair
<1>17. Blamed'
  BY <1>8, <1>15, <1>16 DEF ParserInv, Blamed
<1>18. Decided'
  BY <1>8 DEF ParserInv, Decided
<1> QED
  BY <1>11, <1>12, <1>13, <1>14, <1>17, <1>18 DEF ParserInv

\* The function goes into the model, or is an error.
LEMMA EndStep == ASSUME ParserInv, End PROVE ParserInv'
<1>1. /\ stage = "in" /\ stage' = "between" /\ UNCHANGED <<source, status, failed, perTask, perVcl, verdict>>
      /\ failed \in BOOLEAN /\ errors \in BOOLEAN
  BY DEF End, ParserInv, ParserTypes
<1>2. PICK f \in Func : f = Current
  BY <1>1, FuncsAre DEF ParserInv, ParserTypes, Current
<1>3. /\ funcs \in Seq(Func) /\ Len(funcs) \in Nat /\ DOMAIN funcs = 1..Len(funcs)
  BY FuncsAre DEF ParserInv, ParserTypes
<1>4. CASE failed
  <2>1. errors' /\ funcs' = funcs /\ Broken
    BY <1>1, <1>4 DEF End, ParserInv, Blamed
  <2>2. Broken'
    BY <1>1, <2>1 DEF Broken, OneType
  <2>3. ParserTypes' /\ Stored' /\ Reading' /\ Blamed' /\ Decided'
    BY <1>1, <1>4, <2>1, <2>2 DEF End, ParserInv, ParserTypes, Stored, Reading, Blamed, Decided
  <2>4. Modelled'
    BY <1>1, <2>1 DEF ParserInv, Modelled, Matches
  <2> QED
    BY <2>3, <2>4 DEF ParserInv
<1>5. CASE ~failed
  <2>1. errors' = errors /\ funcs' = Append(funcs, f) /\ Fair(f) /\ Matches(f)
    BY <1>1, <1>2, <1>5 DEF End, ParserInv, Reading
  <2>2. PICK n : n = Len(funcs) + 1
    OBVIOUS
  <2>3. /\ funcs' \in Seq(Func) /\ DOMAIN funcs' = DOMAIN funcs \cup {n}
        /\ funcs'[n] = f /\ \A i \in DOMAIN funcs : funcs'[i] = funcs[i]
    BY <1>3, <2>1, <2>2, AppendProperties, LenProperties
  <2>4. errors => Broken'
    BY <1>1 DEF ParserInv, Blamed, Broken, OneType
  <2>5. ParserTypes' /\ Stored' /\ Reading' /\ Blamed' /\ Decided'
    BY <1>1, <2>1, <2>3, <2>4 DEF ParserInv, ParserTypes, Stored, Reading, Blamed, Decided
  <2>6. \A i \in DOMAIN funcs' : Fair(funcs'[i]) /\ Matches(funcs'[i])
    BY <2>1, <2>3 DEF ParserInv, Modelled
  <2>7. ~errors => source = Append(funcs, f)
    BY <1>1, <1>2 DEF ParserInv, Modelled
  <2>8. Modelled'
    BY <1>1, <2>1, <2>6, <2>7 DEF Modelled, Matches
  <2> QED
    BY <2>5, <2>8 DEF ParserInv
<1> QED
  BY <1>1, <1>4, <1>5

\* The verdict.
LEMMA FinishStep == ASSUME ParserInv, Finish PROVE ParserInv'
<1>1. /\ stage = "between" /\ stage' = "done"
      /\ UNCHANGED <<source, status, failed, perTask, perVcl, funcs, errors>>
      /\ verdict' = IF ~errors /\ ObjectValid /\ Valid THEN "accepted" ELSE "rejected"
  BY DEF Finish
<1>2. ObjectValid' = ObjectValid /\ Valid' = Valid
  BY <1>1 DEF ObjectValid, Valid
<1>3. ParserTypes' /\ Stored' /\ Reading'
  BY <1>1 DEF ParserInv, ParserTypes, Stored, Reading
<1>4. Modelled' /\ Blamed'
  BY <1>1 DEF ParserInv, Modelled, Matches, Blamed, Broken, OneType
<1>5. Decided'
  BY <1>1, <1>2 DEF Decided
<1> QED
  BY <1>3, <1>4, <1>5 DEF ParserInv

LEMMA ParserStep == ParserInv /\ [ParserNext]_parserVars => ParserInv'
<1> SUFFICES ASSUME ParserInv, [ParserNext]_parserVars PROVE ParserInv'
  OBVIOUS
<1>1. ASSUME NEW h \in Heads, Begin(h) PROVE ParserInv'
  BY <1>1, BeginStep
<1>2. ASSUME NEW a \in Menu, Arg(a) PROVE ParserInv'
  BY <1>2, ArgStep
<1>3. CASE End
  BY <1>3, EndStep
<1>4. CASE Finish
  BY <1>4, FinishStep
<1>5. CASE UNCHANGED parserVars
  <2>1. UNCHANGED <<source, stage, status, failed, perTask, perVcl, funcs, errors, verdict>>
    BY <1>5 DEF parserVars
  <2>2. ParserTypes' /\ Stored' /\ Reading' /\ Blamed'
    BY <2>1 DEF ParserInv, ParserTypes, Stored, Reading, Blamed, Broken, OneType, Current, Matches
  <2>3. Modelled' /\ Decided'
    BY <2>1 DEF ParserInv, Modelled, Matches, Current, Decided, ObjectValid, Valid
  <2> QED
    BY <2>2, <2>3 DEF ParserInv
<1> QED
  BY <1>1, <1>2, <1>3, <1>4, <1>5 DEF ParserNext

LEMMA ParserStart == ParserInit => ParserInv
<1> SUFFICES ASSUME ParserInit PROVE ParserInv
  OBVIOUS
<1>1. source = <<>> /\ funcs = <<>> /\ DOMAIN <<>> = {} /\ <<>> \in Seq(Func)
  BY DEF ParserInit
<1>2. ParserTypes /\ Stored /\ Modelled
  BY <1>1 DEF ParserInit, ParserTypes, Stored, Modelled
<1>3. Reading /\ Blamed /\ Decided
  BY <1>1 DEF ParserInit, Reading, Blamed, Decided
<1> QED
  BY <1>2, <1>3 DEF ParserInv

LEMMA ParserKeepsInv == ParserSpec => []ParserInv
BY ParserStart, ParserStep, PTL DEF ParserSpec

\* The type of a shared argument in the model is the stored one.
LEMMA TypesStored ==
  ASSUME ParserInv, NEW a \in AllArgs(funcs)
  PROVE  /\ a \in Args
         /\ a.kind = "task" => a.ty = perTask /\ perTask \in Shared
         /\ a.kind = "vcl" => a.ty = perVcl /\ perVcl \in SharedTypes
<1>1. PICK i \in DOMAIN funcs : \E j \in DOMAIN funcs[i].args : a = funcs[i].args[j]
  BY AllArgsAre
<1>2. PICK j \in DOMAIN funcs[i].args : a = funcs[i].args[j]
  BY <1>1
<1>3. funcs[i] \in Func /\ Matches(funcs[i])
  BY FuncsAre DEF ParserInv, ParserTypes, Modelled
<1>4. a \in Args
  BY <1>2, <1>3, FuncIs
<1>5. (a.kind = "task" => a.ty = perTask) /\ (a.kind = "vcl" => a.ty = perVcl)
  BY <1>2, <1>3 DEF Matches
<1> QED
  BY <1>4, <1>5, ArgIs

\* What the parser keeps is well-formed, and it knows the types of what it put
\* into the model (parser.rs, SharedTypes and FuncInfo).
THEOREM ParserTyped == ParserSpec => []ParserTypeOK
<1>1. ParserInv => ParserTypeOK
  <2> SUFFICES ASSUME ParserInv PROVE ParserTypeOK
    OBVIOUS
  <2>1. ParserTypes
    BY DEF ParserInv
  <2>2. (\E a \in AllArgs(funcs) : a.kind = "task") => perTask # None
    BY TypesStored, NoneIsNot
  <2>3. (\E a \in AllArgs(funcs) : a.kind = "vcl") => perVcl # None
    BY TypesStored, NoneIsNot
  <2> QED
    BY <2>1, <2>2, <2>3 DEF ParserTypes, ParserTypeOK, Func, Flagged
<1> QED
  BY <1>1, ParserKeepsInv, PTL

\* The generated wrappers and destructors cast a slot's pointer to one type only.
THEOREM OneTypeBehindEachPointer == ParserSpec => []SlotTyped
<1>1. ASSUME NEW S, NEW x, S \subseteq {x} PROVE Cardinality(S) <= 1
  <2>1. IsFiniteSet({x}) /\ Cardinality({x}) = 1
    BY FS_Singleton
  <2> QED
    BY <1>1, <2>1, FS_Subset
<1>2. ParserInv => SlotTyped
  <2> SUFFICES ASSUME ParserInv PROVE Cardinality(TaskCasts) <= 1 /\ Cardinality(VclCasts) <= 1
    BY DEF SlotTyped
  <2>1. TaskCasts \subseteq {perTask}
    BY TypesStored DEF TaskCasts
  <2>2. VclCasts \subseteq {PerVclTy}
    BY TypesStored, NoneIsNot DEF VclCasts, PerVclTy
  <2> QED
    BY <1>1, <2>1, <2>2
<1> QED
  BY <1>2, ParserKeepsInv, PTL

\* The names that are given once, by name and by position.
LEMMA NamesAre ==
  ASSUME NEW fs \in Seq(Func)
  PROVE  NamesApart(fs) <=> \A n \in Names :
           Cardinality({i \in DOMAIN fs : fs[i].head.name = n} \ OfType(fs, "method")) <= 1
<1>1. \A i \in DOMAIN fs : fs[i].head.name \in Names \cup {None}
  <2>1. \A i \in DOMAIN fs : fs[i].head \in AllHeads
    BY FuncsAre, FuncIs, MenuAssumption
  <2> QED
    BY <2>1 DEF AllHeads
<1>2. ASSUME NEW n
      PROVE  Cardinality({i \in DOMAIN fs : fs[i].head.name = n} \ OfType(fs, "method")) <= 1 <=>
             \A i, j \in {k \in DOMAIN fs : fs[k].type # "method"} :
               fs[i].head.name = n /\ fs[j].head.name = n => i = j
  <2> DEFINE S == {i \in DOMAIN fs : fs[i].head.name = n} \ OfType(fs, "method")
  <2>1. IsFiniteSet(S)
    <3>1. Len(fs) \in Nat /\ S \subseteq 1..Len(fs)
      BY FuncsAre
    <3> QED
      BY <3>1, PositionsFinite
  <2>2. \A i : i \in S <=> i \in DOMAIN fs /\ fs[i].type # "method" /\ fs[i].head.name = n
    BY DEF OfType
  <2> HIDE DEF S
  <2>3. Cardinality(S) <= 1 <=> \A x, y \in S : x = y
    BY <2>1, AtMostOne
  <2> QED
    BY <2>2, <2>3 DEF S
<1> DEFINE Open == {k \in DOMAIN fs : fs[k].type # "method"}
           Name(i) == fs[i].head.name
<1>3. NamesApart(fs) <=> \A i, j \in Open : i # j => Name(i) = None \/ Name(i) # Name(j)
  BY DEF NamesApart
<1>4. \A i \in Open : Name(i) \in Names \cup {None}
  BY <1>1
<1> HIDE DEF Open, Name
<1>5. (\A i, j \in Open : i # j => Name(i) = None \/ Name(i) # Name(j)) <=>
      \A n \in Names : \A i, j \in Open : Name(i) = n /\ Name(j) = n => i = j
  BY <1>4, NoneIsNot
<1> QED
  BY <1>2, <1>3, <1>5 DEF Open, Name

\* The parser's flags, stored types and checks at the end accept the modules that
\* the rules allow, for every vmod and every order of its functions and arguments
\* (parser.rs, parser_args.rs).
THEOREM AcceptsTheLegal == ParserSpec => []AcceptsLegal
<1>1. ParserInv => AcceptsLegal
  <2> SUFFICES ASSUME ParserInv, verdict # "none" PROVE verdict = "accepted" <=> Legal
    BY DEF AcceptsLegal
  <2>1. /\ stage = "done" /\ (verdict = "accepted" <=> ~errors /\ ObjectValid /\ Valid)
        /\ source \in Seq(Func) /\ errors \in BOOLEAN
    BY DEF ParserInv, Decided, ParserTypes
  <2>2. \A i \in DOMAIN source : Fair(source[i]) <=> LegalFunc(source[i])
    BY <2>1, FuncsAre, FairIsLegal
  <2>3. CASE errors
    BY <2>1, <2>2, <2>3 DEF ParserInv, Blamed, Broken, Legal
  <2>4. CASE ~errors
    <3>1. source = funcs
      BY <2>1, <2>4 DEF ParserInv, Modelled
    <3>2. \A i \in DOMAIN source : LegalFunc(source[i])
      BY <2>2, <3>1 DEF ParserInv, Modelled
    <3>3. OneType("task") /\ OneType("vcl")
      BY <3>1, TypesStored DEF OneType
    <3>4. NamesApart(source) <=> \A n \in Names :
            LET called == {i \in DOMAIN source : source[i].head.name = n}
            IN Cardinality(called \ OfType(source, "method")) <= 1
      BY <2>1, NamesAre
    <3> QED
      BY <2>1, <2>4, <3>1, <3>2, <3>3, <3>4 DEF Legal, ObjectValid, Valid
  <2> QED
    BY <2>1, <2>3, <2>4
<1> QED
  BY <1>1, ParserKeepsInv, PTL

-----------------------------------------------------------------------------
(* Sequences one after the other.                                            *)

\* Sequences of a sequence put together one by one.
Joins(u, q) == u[0] = <<>> /\ \A i \in 1..Len(q) : u[i] = u[i - 1] \o q[i]

\* FlattenSeq, which starts with the first one, does that.
LEMMA FlattenIs ==
  ASSUME NEW S, NEW q \in Seq(Seq(S))
  PROVE  \E u \in [0..Len(q) -> Seq(S)] : Joins(u, q) /\ FlattenSeq(q) = u[Len(q)]
<1>1. Len(q) \in Nat /\ <<>> \in Seq(S) /\ \A i \in 1..Len(q) : q[i] \in Seq(S)
  BY ElementOfSeq
<1>2. PICK N \in Nat : N = Len(q)
  BY <1>1
<1> DEFINE F == [i \in 1..N |-> [s \in Seq(S) |-> s \o q[i]]]
<1>3. F \in [1..N -> [Seq(S) -> Seq(S)]]
  <2>1. ASSUME NEW i \in 1..N, NEW s \in Seq(S) PROVE s \o q[i] \in Seq(S)
    BY <1>1, <1>2, ConcatProperties
  <2> QED
    BY <2>1
<1>4. PICK u \in [0..N -> Seq(S)] : Steps(u, N, <<>>, F)
  <2> HIDE DEF F
  <2> QED
    BY <1>1, <1>3, PrimitiveRecursion
<1>5. u[0] = <<>> /\ \A i \in 1..N : u[i] = u[i - 1] \o q[i]
  <2>1. ASSUME NEW i \in 1..N PROVE u[i] = u[i - 1] \o q[i]
    <3>0. i - 1 \in 0..N
      OBVIOUS
    <3>1. u[i] = F[i][u[i - 1]] /\ i - 1 \in 0..N
      <4> HIDE DEF F
      <4> QED
        BY <1>4, <3>0 DEF Steps
    <3>2. u[i - 1] \in Seq(S)
      BY <3>1
    <3> QED
      BY <3>1, <3>2
  <2>2. u[0] = <<>>
    BY <1>4 DEF Steps
  <2> QED
    BY <2>1, <2>2
<1> DEFINE next(g, i) == IF i = 1 THEN q[i] ELSE g[i - 1] \o q[i]
           R(g) == g = [i \in 1..N |-> next(g, i)]
           w == [i \in 1..N |-> u[i]]
           flat == CHOOSE g : R(g)
<1>6. ASSUME NEW g, R(g), NEW i \in 0..N PROVE i > 0 => g[i] = u[i]
  <2> DEFINE D == {j \in 0..N : j > 0 => g[j] = u[j]}
  <2>1. 0 \in D
    BY <1>2
  <2>2. ASSUME NEW j \in 1..N, j - 1 \in D PROVE j \in D
    <3>1. g[j] = next(g, j)
      BY <1>6
    <3>2. CASE j = 1
      <4>1. 1 \in 1..N /\ 1 \in 1..Len(q) /\ 1 - 1 = 0
        BY <1>2, <3>2
      <4>2. u[1] = <<>> \o q[1] /\ q[1] \in Seq(S)
        BY <1>1, <1>5, <4>1
      <4>3. u[1] = q[1]
        BY <4>2, ConcatEmptySeq
      <4> QED
        BY <3>1, <3>2, <4>3
    <3>3. CASE j # 1
      <4>1. g[j - 1] = u[j - 1]
        BY <2>2, <3>3
      <4>2. g[j] = g[j - 1] \o q[j]
        BY <3>1, <3>3
      <4>3. u[j] = u[j - 1] \o q[j]
        BY <1>5
      <4>4. g[j] = u[j]
        BY <4>1, <4>2, <4>3, Zenon
      <4> QED
        BY <4>4
    <3> QED
      BY <3>2, <3>3
  <2>3. 0..N \subseteq D
    <3> HIDE DEF D
    <3> QED
      BY <2>1, <2>2, UptoInduction
  <2> QED
    BY <2>3
<1>7. R(w)
  <2>1. ASSUME NEW i \in 1..N PROVE w[i] = next(w, i)
    <3>1. CASE i = 1
      <4>1. 1 \in 1..N /\ 1 \in 1..Len(q) /\ 1 - 1 = 0
        BY <1>2, <3>1
      <4>2. u[1] = <<>> \o q[1] /\ q[1] \in Seq(S)
        BY <1>1, <1>5, <4>1
      <4>3. u[1] = q[1]
        BY <4>2, ConcatEmptySeq
      <4> QED
        BY <3>1, <4>3
    <3>2. CASE i # 1
      <4>1. i - 1 \in 1..N
        BY <3>2
      <4> QED
        BY <1>5, <3>2, <4>1
    <3> QED
      BY <3>1, <3>2
  <2> HIDE DEF next
  <2>2. \A i \in 1..N : w[i] = next(w, i)
    BY <2>1
  <2> QED
    BY <2>2
<1>8. R(flat)
  <2> HIDE DEF R
  <2> QED
    BY <1>7
<1>9. FlattenSeq(q) = IF N = 0 THEN q ELSE flat[N]
  BY <1>2 DEF FlattenSeq
<1> HIDE DEF flat, R, w, next, F
<1>10. FlattenSeq(q) = u[N]
  <2>1. CASE N = 0
    <3>1. q = <<>>
      BY <1>2, <2>1, EmptySeq
    <3> QED
      BY <1>5, <1>9, <2>1, <3>1
  <2>2. CASE N # 0
    <3>1. N \in 0..N /\ N > 0
      BY <2>2
    <3> QED
      BY <1>6, <1>8, <1>9, <2>2, <3>1
  <2> QED
    BY <2>1, <2>2
<1>11. Joins(u, q)
  BY <1>2, <1>5 DEF Joins
<1> QED
  BY <1>2, <1>10, <1>11

\* The elements of a sequence, and of two.
LEMMA ConcatRange ==
  ASSUME NEW S, NEW s \in Seq(S), NEW t \in Seq(S)
  PROVE  s \o t \in Seq(S) /\ Range(s \o t) = Range(s) \cup Range(t)
<1>1. PICK c : c = s \o t
  OBVIOUS
<1>2. /\ c \in Seq(S) /\ Len(c) = Len(s) + Len(t) /\ Len(s) \in Nat /\ Len(t) \in Nat
      /\ DOMAIN c = 1..(Len(s) + Len(t)) /\ DOMAIN s = 1..Len(s) /\ DOMAIN t = 1..Len(t)
      /\ \A i \in 1..(Len(s) + Len(t)) : c[i] = IF i <= Len(s) THEN s[i] ELSE t[i - Len(s)]
  BY <1>1, ConcatProperties, LenProperties
<1>3. ASSUME NEW i \in DOMAIN s PROVE s[i] \in Range(c)
  <2>1. i \in DOMAIN c /\ c[i] = s[i]
    BY <1>2
  <2> QED
    BY <2>1 DEF Range
<1>4. ASSUME NEW i \in DOMAIN t PROVE t[i] \in Range(c)
  <2>1. /\ i + Len(s) \in DOMAIN c /\ ~(i + Len(s) <= Len(s)) /\ (i + Len(s)) - Len(s) = i
    BY <1>2
  <2>2. c[i + Len(s)] = t[i]
    BY <1>2, <2>1
  <2> QED
    BY <2>1, <2>2 DEF Range
<1>5. ASSUME NEW i \in DOMAIN c PROVE c[i] \in Range(s) \cup Range(t)
  <2>1. CASE i <= Len(s)
    <3>1. i \in DOMAIN s /\ c[i] = s[i]
      BY <1>2, <2>1
    <3> QED
      BY <3>1 DEF Range
  <2>2. CASE ~(i <= Len(s))
    <3>1. i - Len(s) \in DOMAIN t /\ c[i] = t[i - Len(s)]
      BY <1>2, <2>2
    <3> QED
      BY <3>1 DEF Range
  <2> QED
    BY <2>1, <2>2
<1>6. Range(c) = Range(s) \cup Range(t)
  BY <1>3, <1>4, <1>5 DEF Range
<1> QED
  BY <1>1, <1>2, <1>6

\* The elements of all of them.
LEMMA FlattenRange ==
  ASSUME NEW S, NEW q \in Seq(Seq(S))
  PROVE  /\ FlattenSeq(q) \in Seq(S)
         /\ \A x : x \in Range(FlattenSeq(q)) <=> \E i \in DOMAIN q : x \in Range(q[i])
<1>1. PICK u \in [0..Len(q) -> Seq(S)] : Joins(u, q) /\ FlattenSeq(q) = u[Len(q)]
  BY FlattenIs
<1>2. /\ Len(q) \in Nat /\ DOMAIN q = 1..Len(q) /\ \A i \in 1..Len(q) : q[i] \in Seq(S)
  BY ElementOfSeq
<1> DEFINE Until(i) == {x \in UNION {Range(q[j]) : j \in 1..Len(q)} :
                          \E j \in 1..Len(q) : j <= i /\ x \in Range(q[j])}
           D == {i \in 0..Len(q) : Range(u[i]) = Until(i)}
<1>3. 0 \in D
  <2>1. u[0] = <<>> /\ Range(<<>>) = {}
    BY <1>1 DEF Joins, Range
  <2> QED
    BY <1>2, <2>1
<1>4. ASSUME NEW i \in 1..Len(q), i - 1 \in D PROVE i \in D
  <2>0. i - 1 \in 0..Len(q) /\ i \in 0..Len(q)
    BY <1>2
  <2>1. u[i - 1] \in Seq(S) /\ q[i] \in Seq(S) /\ u[i] = u[i - 1] \o q[i]
    <3>1. u[i - 1] \in Seq(S)
      BY <1>1, <2>0, Zenon
    <3> QED
      BY <1>1, <1>2, <3>1 DEF Joins
  <2>2. Range(u[i]) = Until(i - 1) \cup Range(q[i])
    <3>1. Range(u[i - 1] \o q[i]) = Range(u[i - 1]) \cup Range(q[i])
      BY ONLY <2>1, ConcatRange
    <3>2. Range(u[i - 1]) = Until(i - 1)
      BY <1>4
    <3> HIDE DEF Until
    <3> QED
      BY <2>1, <3>1, <3>2
  <2>3. \A j \in 1..Len(q) : j <= i <=> j <= i - 1 \/ j = i
    BY <1>2
  <2>4. Until(i) = Until(i - 1) \cup Range(q[i])
    BY <2>3
  <2>5. Range(u[i]) = Until(i)
    BY <2>2, <2>4, Zenon
  <2> HIDE DEF Until
  <2> QED
    BY <2>0, <2>5
<1>5. 0..Len(q) \subseteq D
  <2> HIDE DEF D
  <2> QED
    BY <1>2, <1>3, <1>4, UptoInduction
<1>6. Range(u[Len(q)]) = Until(Len(q))
  BY <1>2, <1>5
<1>7. \A x : x \in Until(Len(q)) <=> \E i \in DOMAIN q : x \in Range(q[i])
  BY <1>2
<1> HIDE DEF Until
<1> QED
  BY <1>1, <1>2, <1>6, <1>7

\* What the VCL compiler passes for the entries of the JSON, one by one.
Whats    == {"priv", "VCL_BOOL", "VCL_REAL", "VCL_INT", "VCL_STRING", "VCL_PROBE", "VCL_BLOB"}
Params   == Nat \X (Whats \cup {"valid"})
Entries  == [arg : Nat, what : DOMAIN PassedAs \ {"BACKEND", "VOID"}, optional : BOOLEAN]
ParamOf(e) == <<e.arg, PassedAs[e.what]>>
Image(s) == [n \in DOMAIN s |-> ParamOf(s[n])]

LEMMA ParamIs == ASSUME NEW e \in Entries PROVE ParamOf(e) \in Params
<1>1. PassedAs[e.what] \in Whats
  BY DEF Entries, PassedAs, Whats
<1> QED
  BY <1>1 DEF Entries, ParamOf, Params

LEMMA ImageIs ==
  ASSUME NEW s \in Seq(Entries)
  PROVE  /\ Image(s) \in Seq(Params) /\ Len(Image(s)) = Len(s) /\ DOMAIN Image(s) = DOMAIN s
         /\ \A i \in 1..Len(s) : Image(s)[i] = ParamOf(s[i])
<1>1. Len(s) \in Nat /\ DOMAIN s = 1..Len(s) /\ \A i \in 1..Len(s) : s[i] \in Entries
  BY ElementOfSeq
<1>2. \A i \in 1..Len(s) : ParamOf(s[i]) \in Params
  BY <1>1, ParamIs
<1> QED
  BY <1>1, <1>2 DEF Image

LEMMA ImageConcat ==
  ASSUME NEW s \in Seq(Entries), NEW t \in Seq(Entries)
  PROVE  Image(s \o t) = Image(s) \o Image(t)
<1>1. PICK c : c = s \o t
  OBVIOUS
<1>2. PICK a : a = Image(s)
  OBVIOUS
<1>3. PICK b : b = Image(t)
  OBVIOUS
<1>4. PICK d : d = Image(c)
  OBVIOUS
<1>5. PICK e : e = a \o b
  OBVIOUS
<1>6. /\ c \in Seq(Entries) /\ Len(c) = Len(s) + Len(t) /\ Len(s) \in Nat /\ Len(t) \in Nat
      /\ \A i \in 1..(Len(s) + Len(t)) : c[i] = IF i <= Len(s) THEN s[i] ELSE t[i - Len(s)]
  BY <1>1, ConcatProperties
<1>7. /\ a \in Seq(Params) /\ Len(a) = Len(s) /\ \A i \in 1..Len(s) : a[i] = ParamOf(s[i])
  BY <1>2, ImageIs
<1>8. /\ b \in Seq(Params) /\ Len(b) = Len(t) /\ \A i \in 1..Len(t) : b[i] = ParamOf(t[i])
  BY <1>3, ImageIs
<1>9. /\ d \in Seq(Params) /\ Len(d) = Len(c) /\ \A i \in 1..Len(c) : d[i] = ParamOf(c[i])
  BY <1>4, <1>6, ImageIs
<1>10. /\ e \in Seq(Params) /\ Len(e) = Len(a) + Len(b)
       /\ \A i \in 1..(Len(a) + Len(b)) : e[i] = IF i <= Len(a) THEN a[i] ELSE b[i - Len(a)]
  BY <1>5, <1>7, <1>8, ConcatProperties
<1>11. ASSUME NEW i \in 1..Len(d) PROVE d[i] = e[i]
  <2>0. d[i] = ParamOf(c[i]) /\ i \in 1..(Len(s) + Len(t)) /\ i \in 1..(Len(a) + Len(b))
    BY <1>6, <1>7, <1>8, <1>9
  <2>1. CASE i <= Len(s)
    <3>1. i \in 1..Len(s) /\ c[i] = s[i] /\ e[i] = a[i]
      BY <1>6, <1>7, <1>10, <2>0, <2>1
    <3> QED
      BY <1>7, <2>0, <3>1
  <2>2. CASE ~(i <= Len(s))
    <3>1. i - Len(s) \in 1..Len(t)
      BY <1>6, <2>0, <2>2
    <3>2. c[i] = t[i - Len(s)] /\ e[i] = b[i - Len(s)]
      BY <1>6, <1>7, <1>10, <2>0, <2>2
    <3> QED
      BY <1>8, <2>0, <3>1, <3>2
  <2> QED
    BY <2>1, <2>2
<1>12. d = e
  BY <1>6, <1>7, <1>8, <1>9, <1>10, <1>11, SeqEqual
<1> QED
  BY <1>1, <1>2, <1>3, <1>4, <1>5, <1>12

LEMMA ImageFlatten ==
  ASSUME NEW q \in Seq(Seq(Entries)), NEW r \in Seq(Seq(Params)),
         Len(r) = Len(q), \A i \in 1..Len(q) : r[i] = Image(q[i])
  PROVE  FlattenSeq(r) = Image(FlattenSeq(q))
<1>1. PICK u \in [0..Len(q) -> Seq(Entries)] : Joins(u, q) /\ FlattenSeq(q) = u[Len(q)]
  BY FlattenIs
<1>2. PICK v \in [0..Len(q) -> Seq(Params)] : Joins(v, r) /\ FlattenSeq(r) = v[Len(q)]
  BY FlattenIs
<1>3. /\ Len(q) \in Nat /\ \A i \in 1..Len(q) : q[i] \in Seq(Entries)
  BY ElementOfSeq
<1> DEFINE D == {i \in 0..Len(q) : v[i] = Image(u[i])}
<1>4. 0 \in D
  <2>1. u[0] = <<>> /\ v[0] = <<>> /\ Image(<<>>) = <<>>
    BY <1>1, <1>2 DEF Joins, Image
  <2> QED
    BY <1>3, <2>1
<1>5. ASSUME NEW i \in 1..Len(q), i - 1 \in D PROVE i \in D
  <2>1. q[i] \in Seq(Entries) /\ u[i] = u[i - 1] \o q[i]
    BY <1>1, <1>3 DEF Joins
  <2>2. u[i - 1] \in Seq(Entries)
    <3>1. i - 1 \in 0..Len(q)
      BY <1>3
    <3> QED
      BY <1>1, <3>1, Zenon
  <2>3. v[i] = Image(u[i - 1]) \o Image(q[i])
    BY <1>2, <1>5 DEF Joins
  <2>4. v[i] = Image(u[i])
    BY <2>1, <2>2, <2>3, ImageConcat
  <2>5. i \in 0..Len(q)
    BY <1>3
  <2> QED
    BY <2>4, <2>5
<1>6. 0..Len(q) \subseteq D
  <2> HIDE DEF D
  <2> QED
    BY <1>3, <1>4, <1>5, UptoInduction
<1> QED
  BY <1>1, <1>2, <1>3, <1>6

-----------------------------------------------------------------------------
(* The descriptions of one function.                                         *)

\* What is known of a function that is exported.
Known(f) == /\ f.args \in Seq(Args) /\ f.type \in FuncTypes \cup {"destructor"}
            /\ \A i \in DOMAIN f.args : ArgAllowed(f.args[i], f.type, i)
            /\ f.head.result \in ValueTypes \cup {"()", "Self", "VCL_BACKEND"}

DeclSeqs(f) == [i \in DOMAIN f.args |-> Decl(f.args[i], i)]
JsonSeqs(f) == [i \in DOMAIN f.args |-> Json(f.args[i], i)]

\* An argument's kind is allowed in its function.
LEMMA KnownArgs ==
  ASSUME NEW f, Known(f)
  PROVE  /\ Len(f.args) \in Nat /\ DOMAIN f.args = 1..Len(f.args)
         /\ \A i \in DOMAIN f.args :
              /\ f.args[i] \in Args /\ f.args[i] \in ArgsOf(f) /\ i \in Nat
              /\ f.args[i].kind = "event" => f.type = "event"
              /\ f.args[i].kind = "name" => f.type = "constructor"
              /\ f.args[i].kind = "self" => f.type = "method"
              /\ f.type = "event" => /\ f.args[i].kind \notin {"task", "value"}
                                     /\ f.args[i].kind = "vcl" => f.args[i].form = "mut"
<1>1. Len(f.args) \in Nat /\ DOMAIN f.args = 1..Len(f.args)
  BY LenProperties DEF Known
<1>2. ASSUME NEW i \in DOMAIN f.args
      PROVE  f.args[i] \in Args /\ f.args[i] \in ArgsOf(f) /\ i \in Nat /\ ArgAllowed(f.args[i], f.type, i)
  BY <1>1 DEF Known, ArgsOf
<1>3. ASSUME NEW a, NEW i, NEW type, ArgAllowed(a, type, i)
      PROVE  /\ a.kind = "event" => type = "event"
             /\ a.kind = "name" => type = "constructor"
             /\ a.kind = "self" => type = "method"
             /\ type = "event" => a.kind \notin {"task", "value"}
             /\ type = "event" /\ a.kind = "vcl" => a.form = "mut"
  <2>1. CASE a.kind = "task"
    BY <1>3, <2>1 DEF ArgAllowed
  <2>2. CASE a.kind = "vcl"
    BY <1>3, <2>2 DEF ArgAllowed
  <2>3. CASE a.kind = "name"
    BY <1>3, <2>3 DEF ArgAllowed
  <2>4. CASE a.kind = "event"
    BY <1>3, <2>4 DEF ArgAllowed
  <2>5. CASE a.kind = "self"
    BY <1>3, <2>5 DEF ArgAllowed
  <2>6. CASE a.kind = "value"
    BY <1>3, <2>6 DEF ArgAllowed
  <2> QED
    BY <2>1, <2>2, <2>3, <2>4, <2>5, <2>6
<1> QED
  BY <1>1, <1>2, <1>3

\* The type of a value in Rust and C is that by which VCL passes it.
LEMMA TypesAgree ==
  ASSUME NEW ty \in ValueTypes
  PROVE  /\ VccType[ty] \in DOMAIN PassedAs \ {"BACKEND", "VOID"} /\ VccType[ty] # "priv"
         /\ PassedAs[VccType[ty]] = CType[ty] /\ CType[ty] \in Whats
BY DEF ValueTypes, VccType, PassedAs, CType, Whats

\* One argument in the three descriptions: a slot, a value, or nothing.
Slotted(a) == a.kind = "task" \/ (a.kind = "vcl" /\ a.form = "ref")

LEMMA SlottedArg ==
  ASSUME NEW a \in Args, NEW i \in Nat, Slotted(a)
  PROVE  /\ Decl(a, i) = <<<<i, "priv">>>>
         /\ Json(a, i) = <<[arg |-> i, what |-> "priv", optional |-> FALSE]>>
BY DEF Slotted, Decl, Json

LEMMA ValueArg ==
  ASSUME NEW a \in Args, NEW i \in Nat, a.kind = "value"
  PROVE  /\ Decl(a, i) = IF a.form = "optional" THEN <<<<i, "valid">>, <<i, CType[a.ty]>>>>
                                                ELSE <<<<i, CType[a.ty]>>>>
         /\ Json(a, i) = <<[arg |-> i, what |-> VccType[a.ty], optional |-> a.form = "optional"]>>
         /\ a.ty \in ValueTypes
<1>1. a.ty \in ValueTypes
  BY DEF Args
<1>2. Json(a, i) = <<[arg |-> i, what |-> VccType[a.ty], optional |-> a.form = "optional"]>>
  BY DEF Json
<1>3. Decl(a, i) = When(a.form = "optional", <<<<i, "valid">>>>) \o <<<<i, CType[a.ty]>>>>
  BY DEF Decl
<1>4. PICK v : v = <<i, "valid">>
  OBVIOUS
<1>5. PICK p : p = <<i, CType[a.ty]>>
  OBVIOUS
<1>6. <<>> \o <<p>> = <<p>> /\ <<v>> \o <<p>> = <<v, p>>
  <2>1. <<p>> \in Seq({v, p}) /\ <<v>> \in Seq({v, p}) /\ p \in {v, p}
    OBVIOUS
  <2>2. <<>> \o <<p>> = <<p>>
    BY <2>1, ConcatEmptySeq
  <2>3. PICK c : c = <<v>> \o <<p>>
    OBVIOUS
  <2>4. /\ c \in Seq({v, p}) /\ Len(c) = 2
        /\ c[1] = v /\ c[2] = p
    <3>1. Len(<<v>>) = 1 /\ Len(<<p>>) = 1 /\ <<v>>[1] = v /\ <<p>>[1] = p
      OBVIOUS
    <3>2. /\ c \in Seq({v, p}) /\ Len(c) = Len(<<v>>) + Len(<<p>>)
          /\ \A n \in 1..(Len(<<v>>) + Len(<<p>>)) :
               c[n] = IF n <= Len(<<v>>) THEN <<v>>[n] ELSE <<p>>[n - Len(<<v>>)]
      BY ONLY <2>1, <2>3, ConcatProperties
    <3>3. \A n \in 1..2 : c[n] = IF n <= 1 THEN <<v>>[n] ELSE <<p>>[n - 1]
      BY <3>1, <3>2
    <3> QED
      BY <3>1, <3>2, <3>3
  <2>5. PICK d : d = <<v, p>>
    OBVIOUS
  <2>6. d \in Seq({v, p}) /\ Len(d) = 2 /\ d[1] = v /\ d[2] = p
    BY <2>5
  <2>7. c = d
    BY <2>4, <2>6, SeqEqual
  <2> QED
    BY <2>2, <2>3, <2>5, <2>7
<1> QED
  BY <1>1, <1>2, <1>3, <1>4, <1>5, <1>6 DEF When

LEMMA OtherArg ==
  ASSUME NEW a \in Args, NEW i \in Nat, ~Slotted(a), a.kind # "value"
  PROVE  Decl(a, i) = <<>> /\ (a.kind # "event" => Json(a, i) = <<>>)
BY DEF Slotted, Decl, Json

\* An argument in JSON is its parameter, and its flag when it is optional.
Flag(e)   == <<e.arg, "valid">>
FromJson(js) == {ParamOf(e) : e \in js} \cup {Flag(e) : e \in {x \in js : x.optional}}

LEMMA ArgAgrees ==
  ASSUME NEW a \in Args, NEW i \in Nat
  PROVE  /\ Decl(a, i) \in Seq(Params)
         /\ a.kind # "event" => /\ Json(a, i) \in Seq(Entries)
                                /\ Range(Decl(a, i)) = FromJson(Range(Json(a, i)))
         /\ a.kind # "event" /\ ~(a.kind = "value" /\ a.form = "optional") =>
              /\ Decl(a, i) = Image(Json(a, i))
              /\ \A e \in Range(Json(a, i)) : ~e.optional
<1>1. \A w \in Whats \cup {"valid"} : <<i, w>> \in Params
  BY DEF Params
<1>2. ASSUME NEW w \in DOMAIN PassedAs \ {"BACKEND", "VOID"}, NEW b \in BOOLEAN
      PROVE  /\ [arg |-> i, what |-> w, optional |-> b] \in Entries
             /\ ParamOf([arg |-> i, what |-> w, optional |-> b]) = <<i, PassedAs[w]>>
             /\ Flag([arg |-> i, what |-> w, optional |-> b]) = <<i, "valid">>
  BY DEF Entries, ParamOf, Flag
<1>3. ASSUME NEW x PROVE Range(<<x>>) = {x} /\ Image(<<x>>) = <<ParamOf(x)>>
  BY DEF Range, Image
<1>4. ASSUME NEW x, NEW y PROVE Range(<<x, y>>) = {x, y}
  BY DEF Range
<1>5. Range(<<>>) = {} /\ Image(<<>>) = <<>> /\ FromJson({}) = {}
  BY DEF Range, Image, FromJson
<1>6. ASSUME NEW w \in DOMAIN PassedAs \ {"BACKEND", "VOID"}, NEW b \in BOOLEAN, NEW p, p = <<i, PassedAs[w]>>,
             NEW e, e = [arg |-> i, what |-> w, optional |-> b]
      PROVE  FromJson({e}) = IF b THEN {<<i, "valid">>, p} ELSE {p}
  <2>1. ParamOf(e) = p /\ Flag(e) = <<i, "valid">> /\ e.optional = b
    BY <1>2, <1>6
  <2> QED
    BY <2>1 DEF FromJson
<1>7. CASE Slotted(a)
  <2>1. PICK e : e = [arg |-> i, what |-> "priv", optional |-> FALSE]
    OBVIOUS
  <2>2. PICK p : p = <<i, "priv">>
    OBVIOUS
  <2>3. "priv" \in DOMAIN PassedAs \ {"BACKEND", "VOID"} /\ PassedAs["priv"] = "priv" /\ "priv" \in Whats
    BY DEF PassedAs, Whats
  <2>4. e \in Entries /\ p \in Params /\ ParamOf(e) = p /\ ~e.optional /\ FromJson({e}) = {p}
    BY <1>1, <1>2, <1>6, <2>1, <2>2, <2>3
  <2>5. Decl(a, i) = <<p>> /\ Json(a, i) = <<e>> /\ ~(a.kind = "value")
    BY <1>7, <2>1, <2>2, SlottedArg DEF Slotted
  <2>6. Range(<<e>>) = {e} /\ Range(<<p>>) = {p} /\ Image(<<e>>) = <<ParamOf(e)>>
    BY <1>3
  <2>7. /\ Range(Decl(a, i)) = {p} /\ Range(Json(a, i)) = {e} /\ Image(Json(a, i)) = <<p>>
        /\ Decl(a, i) \in Seq(Params) /\ Json(a, i) \in Seq(Entries)
    BY <2>4, <2>5, <2>6
  <2> QED
    BY <2>4, <2>5, <2>7
<1>8. CASE a.kind = "value"
  <2>1. PICK e : e = [arg |-> i, what |-> VccType[a.ty], optional |-> a.form = "optional"]
    OBVIOUS
  <2>2. PICK p : p = <<i, CType[a.ty]>>
    OBVIOUS
  <2>3. PICK v : v = <<i, "valid">>
    OBVIOUS
  <2>4. /\ VccType[a.ty] \in DOMAIN PassedAs \ {"BACKEND", "VOID"} /\ PassedAs[VccType[a.ty]] = CType[a.ty]
        /\ CType[a.ty] \in Whats /\ (a.form = "optional") \in BOOLEAN
    BY <1>8, ValueArg, TypesAgree
  <2>5. /\ e \in Entries /\ p \in Params /\ v \in Params /\ ParamOf(e) = p
        /\ e.optional = (a.form = "optional")
    BY <1>1, <1>2, <2>1, <2>2, <2>3, <2>4
  <2>6. FromJson({e}) = IF a.form = "optional" THEN {v, p} ELSE {p}
    <3>1. PICK b \in BOOLEAN : b = (a.form = "optional")
      OBVIOUS
    <3>2. PICK w \in DOMAIN PassedAs \ {"BACKEND", "VOID"} : w = VccType[a.ty]
      BY <2>4
    <3>3. e = [arg |-> i, what |-> w, optional |-> b] /\ p = <<i, PassedAs[w]>>
      BY <2>1, <2>2, <2>4, <3>1, <3>2
    <3>4. FromJson({e}) = IF b THEN {<<i, "valid">>, p} ELSE {p}
      BY <1>6, <3>3
    <3> QED
      BY <2>3, <3>1, <3>4
  <2>7. Decl(a, i) = (IF a.form = "optional" THEN <<v, p>> ELSE <<p>>) /\ Json(a, i) = <<e>>
    BY <1>8, <2>1, <2>2, <2>3, ValueArg
  <2>8. CASE a.form = "optional"
    BY <1>3, <1>4, <1>8, <2>5, <2>6, <2>7, <2>8
  <2>9. CASE a.form # "optional"
    <3>1. Decl(a, i) = <<p>> /\ Json(a, i) = <<e>> /\ FromJson({e}) = {p} /\ ~e.optional
      BY <2>5, <2>6, <2>7, <2>9
    <3>2. Range(Json(a, i)) = {e} /\ Range(Decl(a, i)) = {p} /\ Image(Json(a, i)) = <<p>>
      BY <1>3, <2>5, <3>1
    <3> QED
      BY <2>5, <3>1, <3>2
  <2> QED
    BY <2>8, <2>9
<1>9. CASE ~Slotted(a) /\ a.kind # "value"
  <2>1. Decl(a, i) = <<>> /\ (a.kind # "event" => Json(a, i) = <<>>)
    BY <1>9, OtherArg
  <2>2. <<>> \in Seq(Params) /\ <<>> \in Seq(Entries)
    OBVIOUS
  <2> QED
    BY <1>5, <2>1, <2>2
<1> QED
  BY <1>7, <1>8, <1>9

\* The arguments of a function, before they are put one after the other.
LEMMA SeqsAre ==
  ASSUME NEW f, Known(f)
  PROVE  /\ DeclSeqs(f) \in Seq(Seq(Params)) /\ DOMAIN DeclSeqs(f) = DOMAIN f.args
         /\ \A i \in DOMAIN f.args : DeclSeqs(f)[i] = Decl(f.args[i], i)
         /\ f.type # "event" => /\ JsonSeqs(f) \in Seq(Seq(Entries)) /\ DOMAIN JsonSeqs(f) = DOMAIN f.args
                                /\ \A i \in DOMAIN f.args : JsonSeqs(f)[i] = Json(f.args[i], i)
<1>1. Len(f.args) \in Nat /\ DOMAIN f.args = 1..Len(f.args)
  BY KnownArgs
<1>2. \A i \in 1..Len(f.args) : Decl(f.args[i], i) \in Seq(Params)
  BY <1>1, KnownArgs, ArgAgrees
<1>3. ASSUME f.type # "event" PROVE \A i \in 1..Len(f.args) : Json(f.args[i], i) \in Seq(Entries)
  <2>1. ASSUME NEW i \in 1..Len(f.args) PROVE Json(f.args[i], i) \in Seq(Entries)
    <3>1. f.args[i] \in Args /\ i \in Nat /\ f.args[i].kind # "event"
      BY <1>1, <1>3, KnownArgs
    <3> QED
      BY <3>1, ArgAgrees
  <2> QED
    BY <2>1
<1> QED
  BY <1>1, <1>2, <1>3 DEF DeclSeqs, JsonSeqs

\* The slot that stands ahead of the arguments.
Ahead(f) == When(UsesPerVcl(f), <<[arg |-> 0, what |-> "priv", optional |-> FALSE]>>)

LEMMA AheadIs ==
  ASSUME NEW f
  PROVE  /\ PerVclSlot(f) \in Seq(Params) /\ Ahead(f) \in Seq(Entries)
         /\ PerVclSlot(f) = Image(Ahead(f))
         /\ Range(PerVclSlot(f)) = FromJson(Range(Ahead(f)))
         /\ \A e \in Range(Ahead(f)) : ~e.optional
         /\ UsesPerVcl(f) => <<0, "priv">> \in Range(PerVclSlot(f))
<1>1. PICK e : e = [arg |-> 0, what |-> "priv", optional |-> FALSE]
  OBVIOUS
<1>2. PICK p : p = <<0, "priv">>
  OBVIOUS
<1>3. e \in Entries /\ p \in Params /\ ParamOf(e) = p /\ ~e.optional
  BY <1>1, <1>2 DEF Entries, Params, Whats, ParamOf, PassedAs
<1>4. CASE UsesPerVcl(f)
  <2>1. Ahead(f) = <<e>> /\ PerVclSlot(f) = <<p>>
    BY <1>1, <1>2, <1>4 DEF Ahead, PerVclSlot, When, Own
  <2>2. Range(<<e>>) = {e} /\ Range(<<p>>) = {p} /\ Image(<<e>>) = <<ParamOf(e)>>
    BY DEF Range, Image
  <2>3. FromJson({e}) = {p}
    BY <1>3 DEF FromJson
  <2> QED
    BY <1>2, <1>3, <2>1, <2>2, <2>3
<1>5. CASE ~UsesPerVcl(f)
  <2>1. Ahead(f) = <<>> /\ PerVclSlot(f) = <<>>
    BY <1>5 DEF Ahead, PerVclSlot, When
  <2>2. Range(<<>>) = {} /\ Image(<<>>) = <<>> /\ FromJson({}) = {}
    BY DEF Range, Image, FromJson
  <2>3. <<>> \in Seq(Params) /\ <<>> \in Seq(Entries)
    OBVIOUS
  <2> QED
    BY <1>5, <2>1, <2>2, <2>3
<1> QED
  BY <1>4, <1>5

LEMMA FromJsonUnion == ASSUME NEW A, NEW B PROVE FromJson(A \cup B) = FromJson(A) \cup FromJson(B)
BY DEF FromJson

\* The parameters and the JSON of a function that is no event: the same
\* parameters and flags, and in the same order when there are no flags.
LEMMA FuncAgrees ==
  ASSUME NEW f, Known(f), f.type # "event"
  PROVE  /\ Decls(f) \in Seq(Params) /\ ArgsJson(f) \in Seq(Entries)
         /\ Range(Decls(f)) = FromJson(Range(ArgsJson(f)))
         /\ ~HasOptional(f) => /\ Decls(f) = Image(ArgsJson(f))
                               /\ \A e \in Range(ArgsJson(f)) : ~e.optional
         /\ UsesPerVcl(f) => <<0, "priv">> \in Range(Decls(f))
         /\ \A i \in DOMAIN f.args : Range(Decl(f.args[i], i)) \subseteq Range(Decls(f))
<1>1. PICK ds : ds = DeclSeqs(f)
  OBVIOUS
<1>2. PICK js : js = JsonSeqs(f)
  OBVIOUS
<1>3. /\ ds \in Seq(Seq(Params)) /\ DOMAIN ds = DOMAIN f.args
      /\ js \in Seq(Seq(Entries)) /\ DOMAIN js = DOMAIN f.args
      /\ \A i \in DOMAIN f.args : ds[i] = Decl(f.args[i], i) /\ js[i] = Json(f.args[i], i)
  BY <1>1, <1>2, SeqsAre
<1>4. \A i \in DOMAIN f.args : f.args[i] \in Args /\ i \in Nat /\ f.args[i].kind # "event"
  BY KnownArgs
<1>5. \A i \in DOMAIN f.args : Range(ds[i]) = FromJson(Range(js[i]))
  BY <1>3, <1>4, ArgAgrees
<1>6. PICK d : d = FlattenSeq(ds)
  OBVIOUS
<1>7. PICK j : j = FlattenSeq(js)
  OBVIOUS
<1>8. d \in Seq(Params) /\ \A x : x \in Range(d) <=> \E i \in DOMAIN ds : x \in Range(ds[i])
  BY <1>3, <1>6, FlattenRange
<1>9. j \in Seq(Entries) /\ \A x : x \in Range(j) <=> \E i \in DOMAIN js : x \in Range(js[i])
  BY <1>3, <1>7, FlattenRange
<1>10. Decls(f) = PerVclSlot(f) \o d
  BY <1>1, <1>6 DEF Decls, OverArgs, DeclSeqs
<1>11. ArgsJson(f) = Ahead(f) \o j
  BY <1>2, <1>7 DEF ArgsJson, OverArgs, JsonSeqs, Ahead
<1>12. /\ PerVclSlot(f) \in Seq(Params) /\ Ahead(f) \in Seq(Entries)
       /\ PerVclSlot(f) = Image(Ahead(f))
       /\ Range(PerVclSlot(f)) = FromJson(Range(Ahead(f)))
       /\ \A e \in Range(Ahead(f)) : ~e.optional
       /\ UsesPerVcl(f) => <<0, "priv">> \in Range(PerVclSlot(f))
  BY AheadIs
<1>13. Decls(f) \in Seq(Params) /\ Range(Decls(f)) = Range(PerVclSlot(f)) \cup Range(d)
  BY <1>8, <1>10, <1>12, ConcatRange
<1>14. ArgsJson(f) \in Seq(Entries) /\ Range(ArgsJson(f)) = Range(Ahead(f)) \cup Range(j)
  BY <1>9, <1>11, <1>12, ConcatRange
<1>15. Range(d) = FromJson(Range(j))
  <2>1. \A x : x \in FromJson(Range(j)) <=> \E i \in DOMAIN js : x \in FromJson(Range(js[i]))
    BY <1>9 DEF FromJson
  <2>2. ASSUME NEW x PROVE x \in Range(d) <=> x \in FromJson(Range(j))
    <3>1. x \in Range(d) <=> \E i \in DOMAIN f.args : x \in Range(ds[i])
      BY <1>3, <1>8
    <3>2. x \in FromJson(Range(j)) <=> \E i \in DOMAIN f.args : x \in FromJson(Range(js[i]))
      BY <1>3, <2>1
    <3> QED
      BY <1>5, <3>1, <3>2, Zenon
  <2> QED
    BY <2>2, Zenon
<1>16. Range(Decls(f)) = FromJson(Range(ArgsJson(f)))
  <2>1. FromJson(Range(ArgsJson(f))) = FromJson(Range(Ahead(f))) \cup FromJson(Range(j))
    BY <1>14, FromJsonUnion
  <2> QED
    BY <1>12, <1>13, <1>15, <2>1
<1>17. ASSUME ~HasOptional(f)
       PROVE  Decls(f) = Image(ArgsJson(f)) /\ \A e \in Range(ArgsJson(f)) : ~e.optional
  <2>1. ASSUME NEW i \in DOMAIN f.args
        PROVE  ds[i] = Image(js[i]) /\ \A e \in Range(js[i]) : ~e.optional
    <3>1. f.args[i] \in ArgsOf(f)
      BY DEF ArgsOf
    <3>2. ~(f.args[i].kind = "value" /\ f.args[i].form = "optional")
      BY <1>17, <3>1 DEF HasOptional
    <3> QED
      BY <1>3, <1>4, <3>2, ArgAgrees
  <2>2. d = Image(j)
    <3>1. Len(ds) = Len(js) /\ DOMAIN js = 1..Len(js)
      BY <1>3, ElementOfSeq
    <3>2. \A i \in 1..Len(js) : ds[i] = Image(js[i])
      BY <1>3, <2>1, <3>1
    <3> QED
      BY <1>3, <1>6, <1>7, <3>1, <3>2, ImageFlatten
  <2>3. Decls(f) = Image(ArgsJson(f))
    <3>1. Image(Ahead(f) \o j) = Image(Ahead(f)) \o Image(j)
      BY <1>9, <1>12, ImageConcat
    <3> QED
      BY <1>10, <1>11, <1>12, <2>2, <3>1
  <2>4. \A e \in Range(j) : ~e.optional
    BY <1>3, <1>9, <2>1
  <2> QED
    BY <1>12, <1>14, <2>3, <2>4
<1>18. \A i \in DOMAIN f.args : Range(Decl(f.args[i], i)) \subseteq Range(Decls(f))
  BY <1>3, <1>8, <1>13
<1> QED
  BY <1>12, <1>13, <1>14, <1>16, <1>17, <1>18

\* What the generator adds for a type of function, and nothing for an event in
\* another order than in the prototype.
Added == {"ctx", "objp", "vcl_name", "obj", "vp", "ev"}

LEMMA FixedIs ==
  ASSUME NEW type \in FuncTypes \cup {"destructor"}
  PROVE  /\ Fixed(type) \in Seq(Nat \X Added)
         /\ type = "constructor" => <<0, "vcl_name">> \in Range(Fixed(type))
         /\ type = "method" => <<0, "obj">> \in Range(Fixed(type))
         /\ type = "event" => <<0, "ev">> \in Range(Fixed(type)) /\ <<0, "vp">> \in Range(Fixed(type))
         /\ type \in {"constructor", "destructor"} => <<0, "objp">> \in Range(Fixed(type))
         /\ type = "event" => Fixed(type) = Own("ctx") \o Own("vp") \o Own("ev")
<1>0. PICK S : S = Nat \X Added
  OBVIOUS
<1>1. ASSUME NEW w \in Added PROVE Own(w) \in Seq(S) /\ Range(Own(w)) = {<<0, w>>}
  BY <1>0 DEF Own, Range
<1>2. <<>> \in Seq(S)
  OBVIOUS
<1>3. /\ "ctx" \in Added /\ "objp" \in Added /\ "vcl_name" \in Added
      /\ "obj" \in Added /\ "vp" \in Added /\ "ev" \in Added
  BY DEF Added
<1>4. PICK ve : ve = Own("vp") \o Own("ev")
  OBVIOUS
<1>5. ve \in Seq(S) /\ <<0, "vp">> \in Range(ve) /\ <<0, "ev">> \in Range(ve)
  <2>1. PICK v : v = Own("vp")
    OBVIOUS
  <2>2. PICK w : w = Own("ev")
    OBVIOUS
  <2>3. v \in Seq(S) /\ w \in Seq(S) /\ Range(v) = {<<0, "vp">>} /\ Range(w) = {<<0, "ev">>}
    BY <1>1, <1>3, <2>1, <2>2
  <2>4. v \o w \in Seq(S) /\ Range(v \o w) = Range(v) \cup Range(w)
    BY <2>3, ConcatRange
  <2>5. ve = v \o w
    BY <1>4, <2>1, <2>2
  <2> QED
    BY <2>3, <2>4, <2>5
<1>6. PICK a : a = When(type # "destructor", Own("ctx"))
  OBVIOUS
<1>7. PICK b : b = When(type \in {"constructor", "destructor"}, Own("objp"))
  OBVIOUS
<1>8. PICK c : c = When(type = "constructor", Own("vcl_name"))
  OBVIOUS
<1>9. PICK d : d = When(type = "method", Own("obj"))
  OBVIOUS
<1>10. PICK e : e = When(type = "event", ve)
  OBVIOUS
<1>11. /\ a \in Seq(S) /\ b \in Seq(S) /\ c \in Seq(S) /\ d \in Seq(S) /\ e \in Seq(S)
       /\ type # "destructor" => a = Own("ctx")
       /\ type \in {"constructor", "destructor"} => b = Own("objp")
       /\ type = "constructor" => c = Own("vcl_name")
       /\ type = "method" => d = Own("obj")
       /\ type = "event" => e = ve
  <2>1. a \in Seq(S) /\ (type # "destructor" => a = Own("ctx"))
    <3>1. CASE type # "destructor"
      BY <1>1, <1>3, <1>5, <1>6, <3>1 DEF When
    <3>2. CASE ~(type # "destructor")
      BY <1>2, <1>6, <3>2 DEF When
    <3> QED
      BY <3>1, <3>2
  <2>2. b \in Seq(S) /\ (type \in {"constructor", "destructor"} => b = Own("objp"))
    <3>1. CASE type \in {"constructor", "destructor"}
      BY <1>1, <1>3, <1>5, <1>7, <3>1 DEF When
    <3>2. CASE ~(type \in {"constructor", "destructor"})
      BY <1>2, <1>7, <3>2 DEF When
    <3> QED
      BY <3>1, <3>2
  <2>3. c \in Seq(S) /\ (type = "constructor" => c = Own("vcl_name"))
    <3>1. CASE type = "constructor"
      BY <1>1, <1>3, <1>5, <1>8, <3>1 DEF When
    <3>2. CASE ~(type = "constructor")
      BY <1>2, <1>8, <3>2 DEF When
    <3> QED
      BY <3>1, <3>2
  <2>4. d \in Seq(S) /\ (type = "method" => d = Own("obj"))
    <3>1. CASE type = "method"
      BY <1>1, <1>3, <1>5, <1>9, <3>1 DEF When
    <3>2. CASE ~(type = "method")
      BY <1>2, <1>9, <3>2 DEF When
    <3> QED
      BY <3>1, <3>2
  <2>5. e \in Seq(S) /\ (type = "event" => e = ve)
    <3>1. CASE type = "event"
      BY <1>1, <1>3, <1>5, <1>10, <3>1 DEF When
    <3>2. CASE ~(type = "event")
      BY <1>2, <1>10, <3>2 DEF When
    <3> QED
      BY <3>1, <3>2
  <2> QED
    BY <2>1, <2>2, <2>3, <2>4, <2>5
<1>20. /\ type \in {"constructor", "destructor"} => <<0, "objp">> \in Range(b)
       /\ type = "constructor" => <<0, "vcl_name">> \in Range(c)
       /\ type = "method" => <<0, "obj">> \in Range(d)
       /\ type = "event" => <<0, "vp">> \in Range(e) /\ <<0, "ev">> \in Range(e)
  BY <1>1, <1>3, <1>5, <1>11
<1>21. Fixed(type) = (((a \o b) \o c) \o d) \o e
  BY <1>4, <1>6, <1>7, <1>8, <1>9, <1>10 DEF Fixed
<1>12. PICK ab : ab = a \o b
  OBVIOUS
<1>13. PICK abc : abc = ab \o c
  OBVIOUS
<1>14. PICK abcd : abcd = abc \o d
  OBVIOUS
<1>15. ab \in Seq(S) /\ Range(ab) = Range(a) \cup Range(b)
  BY <1>11, <1>12, ConcatRange
<1>16. abc \in Seq(S) /\ Range(abc) = Range(ab) \cup Range(c)
  BY <1>11, <1>13, <1>15, ConcatRange
<1>17. abcd \in Seq(S) /\ Range(abcd) = Range(abc) \cup Range(d)
  BY <1>11, <1>14, <1>16, ConcatRange
<1>18. /\ Fixed(type) \in Seq(S) /\ Fixed(type) = abcd \o e
       /\ Range(Fixed(type)) = Range(abcd) \cup Range(e)
  <2>1. Fixed(type) = abcd \o e
    BY <1>12, <1>13, <1>14, <1>21
  <2> QED
    BY <1>11, <1>17, <2>1, ConcatRange
<1>19. ASSUME type = "event" PROVE Fixed(type) = Own("ctx") \o Own("vp") \o Own("ev")
  <2>1. /\ a = Own("ctx") /\ b = <<>> /\ c = <<>> /\ d = <<>> /\ e = Own("vp") \o Own("ev")
    BY <1>4, <1>6, <1>7, <1>8, <1>9, <1>10, <1>19 DEF When
  <2>2. ab = a /\ abc = a /\ abcd = a
    BY <1>11, <1>12, <1>13, <1>14, <2>1, ConcatEmptySeq
  <2>3. Own("ctx") \o (Own("vp") \o Own("ev")) = (Own("ctx") \o Own("vp")) \o Own("ev")
    <3>1. PICK x \in Seq(S) : x = Own("ctx")
      BY <1>1, <1>3
    <3>2. PICK y \in Seq(S) : y = Own("vp")
      BY <1>1, <1>3
    <3>3. PICK z \in Seq(S) : z = Own("ev")
      BY <1>1, <1>3
    <3>4. (x \o y) \o z = x \o (y \o z)
      BY ONLY ConcatAssociative
    <3> QED
      BY <3>1, <3>2, <3>3, <3>4
  <2> QED
    BY <1>18, <2>1, <2>2, <2>3
<1> QED
  BY <1>0, <1>15, <1>16, <1>17, <1>18, <1>19, <1>20

\* An event has no values.
LEMMA EventPlain ==
  ASSUME NEW f, Known(f), f.type = "event"
  PROVE  ~HasOptional(f) /\ \A i \in DOMAIN f.args : Decl(f.args[i], i) = <<>>
<1>1. ASSUME NEW i \in DOMAIN f.args
      PROVE  f.args[i].kind # "value" /\ Decl(f.args[i], i) = <<>>
  <2>1. /\ f.args[i] \in Args /\ i \in Nat
        /\ f.args[i].kind \notin {"task", "value"}
        /\ f.args[i].kind = "vcl" => f.args[i].form = "mut"
    BY KnownArgs
  <2>2. ~Slotted(f.args[i])
    BY <2>1 DEF Slotted
  <2> QED
    BY <2>1, <2>2, OtherArg
<1> QED
  BY <1>1 DEF HasOptional, ArgsOf

\* Rust and C, but for the result.
LEMMA RustIsC ==
  ASSUME NEW f, Known(f)
  PROVE  /\ Rust(f).params = C(f).params /\ Rust(f).struct = C(f).struct
         /\ f.type = "event" => C(f).params = Fixed("event") /\ C(f).struct = <<>>
         /\ f.type # "event" /\ HasOptional(f) =>
              C(f).params = Fixed(f.type) \o Own("args") /\ C(f).struct = Decls(f)
         /\ f.type # "event" /\ ~HasOptional(f) =>
              C(f).params = Fixed(f.type) \o Decls(f) /\ C(f).struct = <<>>
<1>1. f.type \in FuncTypes \cup {"destructor"}
  BY DEF Known
<1>2. CASE f.type = "event"
  <2>1. ~HasOptional(f)
    BY <1>2, EventPlain
  <2>2. Fixed("event") = Own("ctx") \o Own("vp") \o Own("ev") /\ Fixed("event") \in Seq(Nat \X Added)
    BY <1>1, <1>2, FixedIs
  <2>3. Fixed("event") \o <<>> = Fixed("event")
    BY <2>2, ConcatEmptySeq
  <2>4. Rust(f).params = Fixed("event") \o <<>> /\ Rust(f).struct = <<>>
    BY <1>2, <2>1 DEF Rust, When
  <2>5. C(f).params = Own("ctx") \o Own("vp") \o Own("ev") /\ C(f).struct = <<>>
    BY <1>2, <2>1 DEF C
  <2> QED
    BY <1>2, <2>2, <2>3, <2>4, <2>5
<1>3. CASE f.type # "event"
  <2>1. CASE HasOptional(f)
    BY <1>3, <2>1 DEF Rust, C, When
  <2>2. CASE ~HasOptional(f)
    BY <1>3, <2>2 DEF Rust, C, When
  <2> QED
    BY <1>3, <2>1, <2>2
<1> QED
  BY <1>2, <1>3

\* The result.
LEMMA ResultIsOne ==
  ASSUME NEW f, Known(f)
  PROVE  /\ f.type # "event" => Rust(f).result = C(f).result
         /\ VccExpects(f) = C(f).result
<1>1. CASE f.type = "event"
  <2>1. C(f).result = "int"
    BY <1>1, EventPlain DEF C
  <2>2. VccExpects(f) = "int"
    BY <1>1 DEF VccExpects
  <2> QED
    BY <1>1, <2>1, <2>2
<1>2. CASE f.type # "event"
  <2>0. Output(f) = CResult(f.head)
    BY <1>2 DEF Output
  <2>1. Rust(f).result = CResult(f.head) /\ C(f).result = CResult(f.head)
    <3>1. Rust(f).result = Output(f)
      BY DEF Rust
    <3>2. CASE HasOptional(f)
      BY <1>2, <2>0, <3>1, <3>2 DEF C
    <3>3. CASE ~HasOptional(f)
      BY <1>2, <2>0, <3>1, <3>3 DEF C
    <3> QED
      BY <3>2, <3>3
  <2>2. VccExpects(f) = PassedAs[VccResult(f.head)]
    <3>1. FuncJson(f).result = VccResult(f.head)
      BY <1>2 DEF FuncJson
    <3> QED
      BY <1>2, <3>1 DEF VccExpects
  <2>3. DOMAIN CType = ValueTypes /\ DOMAIN VccType = ValueTypes
    BY DEF CType, VccType, ValueTypes
  <2>4. CASE f.head.result \in ValueTypes
    <3>0. f.head.result \notin {"()", "Self"}
      BY <2>4 DEF ValueTypes
    <3>1. CResult(f.head) = CType[f.head.result]
      BY <2>3, <2>4, <3>0 DEF CResult
    <3>2. VccResult(f.head) = VccType[f.head.result]
      BY <2>3, <2>4, <3>0 DEF VccResult
    <3> QED
      BY <2>1, <2>2, <2>4, <3>1, <3>2, TypesAgree
  <2>5. CASE f.head.result \in {"()", "Self"}
    <3>1. f.head.result \notin ValueTypes
      BY <2>5 DEF ValueTypes
    <3>2. CResult(f.head) = "VCL_VOID"
      BY <2>3, <2>5, <3>1 DEF CResult
    <3>3. VccResult(f.head) = "VOID"
      BY <2>3, <2>5, <3>1 DEF VccResult
    <3> QED
      BY <2>1, <2>2, <3>2, <3>3 DEF PassedAs
  <2>6. CASE f.head.result = "VCL_BACKEND"
    <3>1. f.head.result \notin ValueTypes
      BY <2>6 DEF ValueTypes
    <3>2. CResult(f.head) = "VCL_BACKEND"
      BY <2>3, <2>6, <3>1 DEF CResult
    <3>3. VccResult(f.head) = "BACKEND"
      BY <2>3, <2>6, <3>1 DEF VccResult
    <3> QED
      BY <2>1, <2>2, <3>2, <3>3 DEF PassedAs
  <2> QED
    BY <1>2, <2>4, <2>5, <2>6 DEF Known
<1> QED
  BY <1>1, <1>2

\* The VCL compiler's call.
LEMMA VccIsC ==
  ASSUME NEW f, Known(f)
  PROVE  VccPasses(f).params = C(f).params /\ VccPasses(f).fields = Range(C(f).struct)
<1> DEFINE json  == FuncJson(f).args
           plain == [n \in DOMAIN json |-> <<json[n].arg, PassedAs[json[n].what]>>]
           flags == {<<json[n].arg, "valid">> : n \in {m \in DOMAIN json : json[m].optional}}
<1>1. VccPasses(f) = IF FuncJson(f).struct
                       THEN [params |-> Fixed(f.type) \o Own("args"), fields |-> Range(plain) \cup flags]
                       ELSE [params |-> Fixed(f.type) \o plain, fields |-> flags]
  BY DEF VccPasses
<1>2. plain = Image(json)
  BY DEF Image, ParamOf
<1>3. Range(plain) = {ParamOf(e) : e \in Range(json)}
  BY DEF Range, ParamOf
<1>4. flags = {Flag(e) : e \in {x \in Range(json) : x.optional}}
  BY DEF Range, Flag
<1>5. Range(plain) \cup flags = FromJson(Range(json))
  BY <1>3, <1>4 DEF FromJson
<1>6. CASE f.type = "event"
  <2>1. json = <<>> /\ FuncJson(f).struct = FALSE
    BY <1>6 DEF FuncJson
  <2>2. plain = <<>> /\ flags = {}
    BY <2>1
  <2>3. C(f).params = Fixed("event") /\ C(f).struct = <<>>
    BY <1>6, RustIsC
  <2>4. Fixed("event") \o <<>> = Fixed("event")
    <3>1. Fixed("event") \in Seq(Nat \X Added)
      BY FixedIs DEF FuncTypes
    <3> QED
      BY <3>1, ConcatEmptySeq
  <2>5. Range(<<>>) = {}
    BY DEF Range
  <2> HIDE DEF plain, flags
  <2> QED
    BY <1>1, <1>6, <2>1, <2>2, <2>3, <2>4, <2>5
<1>7. CASE f.type # "event"
  <2>1. json = ArgsJson(f) /\ (FuncJson(f).struct <=> HasOptional(f))
    BY <1>7 DEF FuncJson
  <2>2. CASE HasOptional(f)
    <3>1. C(f).params = Fixed(f.type) \o Own("args") /\ C(f).struct = Decls(f)
      BY <1>7, <2>2, RustIsC
    <3>2. Range(Decls(f)) = FromJson(Range(ArgsJson(f)))
      BY <1>7, FuncAgrees
    <3> HIDE DEF json, plain, flags
    <3> QED
      BY <1>1, <1>5, <2>1, <2>2, <3>1, <3>2
  <2>3. CASE ~HasOptional(f)
    <3>1. C(f).params = Fixed(f.type) \o Decls(f) /\ C(f).struct = <<>>
      BY <1>7, <2>3, RustIsC
    <3>2. Decls(f) = Image(ArgsJson(f)) /\ \A e \in Range(ArgsJson(f)) : ~e.optional
      BY <1>7, <2>3, FuncAgrees
    <3> HIDE DEF json, plain
    <3>3. flags = {}
      BY <1>4, <2>1, <3>2
    <3>4. Range(<<>>) = {}
      BY DEF Range
    <3> HIDE DEF flags
    <3> QED
      BY <1>1, <1>2, <2>1, <2>3, <3>1, <3>2, <3>3, <3>4
  <2> QED
    BY <2>2, <2>3
<1> QED
  BY <1>6, <1>7

LEMMA SeqWider == ASSUME NEW A, NEW B, A \subseteq B, NEW s \in Seq(A) PROVE s \in Seq(B)
<1>1. Len(s) \in Nat /\ DOMAIN s = 1..Len(s) /\ s \in [1..Len(s) -> A]
  BY LenProperties
<1>2. s \in [1..Len(s) -> B]
  BY <1>1
<1> QED
  BY <1>1, <1>2, SeqDef

\* What can be read in the signature of the wrapper, and where the arguments are.
Place(f) == IF HasOptional(f) THEN "struct" ELSE "params"

LEMMA WhereThingsAre ==
  ASSUME NEW f, Known(f)
  PROVE  /\ Range(Fixed(f.type)) \subseteq Range(Rust(f)["params"])
         /\ f.type # "event" => Range(Decls(f)) \subseteq Range(Rust(f)[Place(f)])
<1>0. Rust(f)["params"] = Rust(f).params /\ Rust(f)["struct"] = Rust(f).struct
  BY DEF Rust
<1>1. PICK S : S = (Nat \X (Added \cup {"args"})) \cup Params
  OBVIOUS
<1>2. PICK x : x = Fixed(f.type)
  OBVIOUS
<1>3. x \in Seq(S)
  <2>1. x \in Seq(Nat \X Added)
    BY <1>2, FixedIs DEF Known
  <2>2. Nat \X Added \subseteq S
    BY <1>1
  <2> QED
    BY <2>1, <2>2, SeqWider
<1>4. Own("args") \in Seq(S)
  BY <1>1 DEF Own
<1>5. CASE f.type = "event"
  <2>1. Rust(f)["params"] = x
    BY <1>0, <1>2, <1>5, RustIsC
  <2> QED
    BY <1>2, <1>5, <2>1
<1>6. CASE f.type # "event"
  <2>1. PICK d : d = Decls(f)
    OBVIOUS
  <2>2. d \in Seq(S)
    <3>1. d \in Seq(Params)
      BY <1>6, <2>1, FuncAgrees
    <3>2. Params \subseteq S
      BY <1>1
    <3> QED
      BY <3>1, <3>2, SeqWider
  <2>3. CASE HasOptional(f)
    <3>1. Rust(f)["params"] = x \o Own("args") /\ Rust(f)["struct"] = d
      BY <1>0, <1>2, <1>6, <2>1, <2>3, RustIsC
    <3>2. Range(x \o Own("args")) = Range(x) \cup Range(Own("args"))
      BY <1>3, <1>4, ConcatRange
    <3> QED
      BY <1>2, <2>1, <2>3, <3>1, <3>2 DEF Place
  <2>4. CASE ~HasOptional(f)
    <3>1. Rust(f)["params"] = x \o d
      BY <1>0, <1>2, <1>6, <2>1, <2>4, RustIsC
    <3>2. Range(x \o d) = Range(x) \cup Range(d)
      BY <1>3, <2>2, ConcatRange
    <3>3. PICK p : p = x \o d
      OBVIOUS
    <3>4. Rust(f)["params"] = p
      BY <3>1, <3>3
    <3>5. Place(f) = "params"
      BY <2>4 DEF Place
    <3>6. Range(p) = Range(x) \cup Range(d)
      BY <3>2, <3>3
    <3> QED
      BY <1>2, <2>1, <3>4, <3>5, <3>6
  <2> QED
    BY <2>3, <2>4
<1> QED
  BY <1>5, <1>6

\* What the body of the wrapper reads is there.
LEMMA ReadsAreThere ==
  ASSUME NEW f, Known(f), NEW r \in Reads(f)
  PROVE  r[2] \in Range(Rust(f)[r[1]])
<1> DEFINE place == IF HasOptional(f) THEN "struct" ELSE "params"
           Read(a, i) ==
             CASE a.kind = "name"  -> <<<<"params", <<0, "vcl_name">>>>>>
               [] a.kind = "self"  -> <<<<"params", <<0, "obj">>>>>>
               [] a.kind = "event" -> <<<<"params", <<0, "ev">>>>>>
               [] OTHER            -> [n \in DOMAIN Decl(a, i) |-> <<place, Decl(a, i)[n]>>]
           slot == IF f.type = "event" THEN <<"params", <<0, "vp">>>> ELSE <<place, <<0, "priv">>>>
           seqs == [i \in DOMAIN f.args |-> Read(f.args[i], i)]
           Found(x) == x[2] \in Range(Rust(f)[x[1]])
<1>1. Reads(f) = Range(FlattenSeq(seqs)) \cup {s \in {slot} : UsesPerVcl(f)}
                   \cup {<<"params", <<0, "objp">>>> : t \in {f.type} \cap {"constructor", "destructor"}}
  BY DEF Reads, OverArgs
<1>2. place = Place(f)
  BY DEF Place
<1>3. PICK T : T = {"params", "struct"} \X ((Nat \X Added) \cup Params)
  OBVIOUS
<1>4. /\ Len(f.args) \in Nat /\ DOMAIN f.args = 1..Len(f.args)
      /\ \A i \in DOMAIN f.args :
           /\ f.args[i] \in Args /\ i \in Nat
           /\ f.args[i].kind = "event" => f.type = "event"
           /\ f.args[i].kind = "name" => f.type = "constructor"
           /\ f.args[i].kind = "self" => f.type = "method"
  BY KnownArgs
<1>5. /\ f.type = "constructor" => <<0, "vcl_name">> \in Range(Rust(f)["params"])
      /\ f.type = "method" => <<0, "obj">> \in Range(Rust(f)["params"])
      /\ f.type = "event" => /\ <<0, "ev">> \in Range(Rust(f)["params"])
                             /\ <<0, "vp">> \in Range(Rust(f)["params"])
      /\ f.type \in {"constructor", "destructor"} => <<0, "objp">> \in Range(Rust(f)["params"])
  BY FixedIs, WhereThingsAre DEF Known
<1>6. /\ <<"params", <<0, "vcl_name">>>> \in T /\ <<"params", <<0, "obj">>>> \in T
      /\ <<"params", <<0, "ev">>>> \in T
  BY <1>3 DEF Added
<1>7. ASSUME NEW i \in DOMAIN f.args
      PROVE  Read(f.args[i], i) \in Seq(T) /\ \A x \in Range(Read(f.args[i], i)) : Found(x)
  <2>1. ASSUME NEW x \in T PROVE <<x>> \in Seq(T) /\ Range(<<x>>) = {x}
    BY DEF Range
  <2>2. CASE f.args[i].kind = "name"
    <3>1. Read(f.args[i], i) = <<<<"params", <<0, "vcl_name">>>>>>
      BY <2>2
    <3> QED
      BY <1>4, <1>5, <1>6, <2>1, <2>2, <3>1
  <2>3. CASE f.args[i].kind = "self"
    <3>1. Read(f.args[i], i) = <<<<"params", <<0, "obj">>>>>>
      BY <2>3
    <3> QED
      BY <1>4, <1>5, <1>6, <2>1, <2>3, <3>1
  <2>4. CASE f.args[i].kind = "event"
    <3>1. Read(f.args[i], i) = <<<<"params", <<0, "ev">>>>>>
      BY <2>4
    <3> QED
      BY <1>4, <1>5, <1>6, <2>1, <2>4, <3>1
  <2>5. CASE f.args[i].kind \notin {"name", "self", "event"}
    <3>1. PICK d : d = Decl(f.args[i], i)
      OBVIOUS
    <3>2. PICK s : s = [n \in DOMAIN d |-> <<place, d[n]>>]
      OBVIOUS
    <3>3. Read(f.args[i], i) = s
      BY <2>5, <3>1, <3>2
    <3>4. d \in Seq(Params)
      BY <1>4, <3>1, ArgAgrees
    <3>5. Len(d) \in Nat /\ DOMAIN d = 1..Len(d) /\ \A n \in DOMAIN d : d[n] \in Params
      BY <3>4, ElementOfSeq
    <3>6. \A n \in 1..Len(d) : <<place, d[n]>> \in T
      BY <1>3, <3>5
    <3>7. s \in Seq(T)
      BY <3>2, <3>5, <3>6
    <3>8. ASSUME NEW x \in Range(s) PROVE Found(x)
      <4>1. PICK n \in DOMAIN d : x = <<place, d[n]>>
        BY <3>2, <3>8 DEF Range
      <4>2. x[1] = Place(f) /\ x[2] = d[n] /\ d[n] \in Range(d)
        BY <1>2, <4>1 DEF Range
      <4>3. CASE f.type = "event"
        <5>1. d = <<>>
          BY <3>1, <4>3, EventPlain
        <5> QED
          BY <4>1, <5>1
      <4>4. CASE f.type # "event"
        <5>1. Range(d) \subseteq Range(Decls(f))
          BY <3>1, <4>4, FuncAgrees
        <5>2. Range(Decls(f)) \subseteq Range(Rust(f)[Place(f)])
          BY <4>4, WhereThingsAre
        <5> QED
          BY <4>2, <5>1, <5>2
      <4> QED
        BY <4>3, <4>4
    <3> HIDE DEF Read, Found
    <3> QED
      BY <3>3, <3>7, <3>8
  <2> QED
    BY <2>2, <2>3, <2>4, <2>5
<1>8. ASSUME NEW x \in Range(FlattenSeq(seqs)) PROVE Found(x)
  <2> HIDE DEF Read, Found
  <2>1. \A i \in 1..Len(f.args) : Read(f.args[i], i) \in Seq(T)
    BY <1>4, <1>7
  <2>2. /\ seqs \in Seq(Seq(T)) /\ DOMAIN seqs = DOMAIN f.args
        /\ \A i \in DOMAIN f.args : seqs[i] = Read(f.args[i], i)
    BY <1>4, <2>1
  <2> HIDE DEF seqs
  <2>3. PICK i \in DOMAIN seqs : x \in Range(seqs[i])
    BY <1>8, <2>2, FlattenRange
  <2> QED
    BY <1>7, <2>2, <2>3
<1>9. ASSUME UsesPerVcl(f) PROVE Found(slot)
  <2>1. CASE f.type = "event"
    <3>1. slot[1] = "params" /\ slot[2] = <<0, "vp">>
      BY <2>1
    <3> QED
      BY <1>5, <2>1, <3>1
  <2>2. CASE f.type # "event"
    <3>1. slot[1] = Place(f) /\ slot[2] = <<0, "priv">>
      BY <1>2, <2>2
    <3>2. <<0, "priv">> \in Range(Decls(f)) /\ Range(Decls(f)) \subseteq Range(Rust(f)[Place(f)])
      BY <1>9, <2>2, FuncAgrees, WhereThingsAre
    <3> QED
      BY <3>1, <3>2
  <2> QED
    BY <2>1, <2>2
<1>10. ASSUME f.type \in {"constructor", "destructor"} PROVE Found(<<"params", <<0, "objp">>>>)
  BY <1>5, <1>10
<1> HIDE DEF seqs, slot, place, Read, Found
<1>11. Found(r)
  BY <1>1, <1>8, <1>9, <1>10
<1> QED
  BY <1>11 DEF Found

\* The functions that are exported are those of the model, and a destructor.
LEMMA ExportedAre ==
  ASSUME NEW fs \in Seq(Func), NEW f \in Range(Exported(fs))
  PROVE  f = Destructor \/ \E i \in DOMAIN fs : f = fs[i]
<1> DEFINE T == Func \cup {Destructor}
           Part(types) == [i \in DOMAIN fs |-> When(fs[i].type \in types, <<fs[i]>>)]
           Of(types) == FlattenSeq(Part(types))
           Good(x) == x = Destructor \/ \E i \in DOMAIN fs : x = fs[i]
<1>1. Len(fs) \in Nat /\ DOMAIN fs = 1..Len(fs) /\ \A i \in DOMAIN fs : fs[i] \in T
  BY ElementOfSeq
<1>2. <<>> \in Seq(T) /\ Range(<<>>) = {}
  BY DEF Range
<1>3. ASSUME NEW x \in T PROVE <<x>> \in Seq(T) /\ Range(<<x>>) = {x}
  BY DEF Range
<1>4. ASSUME NEW types PROVE Of(types) \in Seq(T) /\ \A x \in Range(Of(types)) : Good(x)
  <2>1. ASSUME NEW i \in DOMAIN fs
        PROVE  /\ When(fs[i].type \in types, <<fs[i]>>) \in Seq(T)
               /\ \A x \in Range(When(fs[i].type \in types, <<fs[i]>>)) : x = fs[i]
    <3> HIDE DEF T
    <3> QED
      BY <1>1, <1>2, <1>3 DEF When
  <2>2. PICK q : q = Part(types)
    OBVIOUS
  <2>3. /\ q \in Seq(Seq(T)) /\ DOMAIN q = DOMAIN fs
        /\ \A i \in DOMAIN fs : q[i] = When(fs[i].type \in types, <<fs[i]>>)
    <3> HIDE DEF T
    <3> QED
      BY <1>1, <2>1, <2>2
  <2>4. Of(types) = FlattenSeq(q)
    BY <2>2
  <2> HIDE DEF T, Of, Part
  <2>5. FlattenSeq(q) \in Seq(T) /\ \A x : x \in Range(FlattenSeq(q)) <=> \E i \in DOMAIN q : x \in Range(q[i])
    BY <2>3, FlattenRange
  <2> QED
    BY <2>1, <2>3, <2>4, <2>5
<1>5. PICK a : a = Of({"function", "event"})
  OBVIOUS
<1>6. PICK b : b = Of({"constructor"})
  OBVIOUS
<1>7. PICK c : c = When(OfType(fs, "constructor") # {}, <<Destructor>>)
  OBVIOUS
<1>8. PICK d : d = Of({"method"})
  OBVIOUS
<1>9. Exported(fs) = ((a \o b) \o c) \o d
  BY <1>5, <1>6, <1>7, <1>8 DEF Exported
<1>10. c \in Seq(T) /\ \A x \in Range(c) : Good(x)
  <2>1. Destructor \in T
    OBVIOUS
  <2> HIDE DEF T
  <2> QED
    BY <1>2, <1>3, <1>7, <2>1 DEF When
<1> HIDE DEF T, Of, Part, Good
<1>11. PICK ab : ab = a \o b
  OBVIOUS
<1>12. PICK abc : abc = ab \o c
  OBVIOUS
<1>13. /\ a \in Seq(T) /\ b \in Seq(T) /\ d \in Seq(T)
       /\ \A x \in Range(a) : Good(x)
       /\ \A x \in Range(b) : Good(x)
       /\ \A x \in Range(d) : Good(x)
  BY <1>4, <1>5, <1>6, <1>8
<1>14. ab \in Seq(T) /\ Range(ab) = Range(a) \cup Range(b)
  BY <1>11, <1>13, ConcatRange
<1>15. abc \in Seq(T) /\ Range(abc) = Range(ab) \cup Range(c)
  BY <1>10, <1>12, <1>14, ConcatRange
<1>16. Range(abc \o d) = Range(abc) \cup Range(d)
  BY <1>13, <1>15, ConcatRange
<1>17. Good(f)
  BY <1>9, <1>10, <1>11, <1>12, <1>13, <1>14, <1>15, <1>16
<1> QED
  BY <1>17 DEF Good

LEMMA ExportedKnown ==
  ASSUME ParserTypes, Modelled, NEW f \in Range(Exported(funcs))
  PROVE  Known(f)
<1>1. funcs \in Seq(Func)
  BY DEF ParserTypes
<1>2. f = Destructor \/ \E i \in DOMAIN funcs : f = funcs[i]
  BY <1>1, ExportedAre
<1>3. CASE f = Destructor
  <2>1. f.args = <<>> /\ f.type = "destructor" /\ f.head.result = "()"
    BY <1>3 DEF Destructor
  <2> QED
    BY <2>1 DEF Known
<1>4. ASSUME NEW i \in DOMAIN funcs, f = funcs[i] PROVE Known(f)
  <2>1. f \in Func /\ Fair(f)
    BY <1>1, <1>4, ElementOfSeq DEF Modelled
  <2>2. f.args \in Seq(Args) /\ f.type \in FuncTypes /\ f.head \in Heads
    BY <2>1 DEF Func
  <2>3. f.head.result \in Results /\ f.head.result # "other"
    <3>1. f.head \in AllHeads
      BY <2>2, MenuAssumption
    <3>2. f.head.result # "other"
      BY <2>1 DEF Fair, ResultOk
    <3> QED
      BY <3>1, <3>2 DEF AllHeads
  <2>4. f.head.result \in ValueTypes \cup {"()", "Self", "VCL_BACKEND"}
    BY <2>3 DEF Results
  <2> QED
    BY <2>1, <2>2, <2>4 DEF Known, Fair
<1> QED
  BY <1>2, <1>3, <1>4

\* For any functions and arguments, optional or not, in any order and number, the
\* wrapper, the prototype and the JSON of every exported function agree, so that
\* the compiled VCL puts each parameter where the wrapper reads it and takes the
\* result for what it is, the event's apart (gen_func.rs).
THEOREM DescriptionsAgree == ParserSpec => []AbiAgrees
<1>1. ParserInv => AbiAgrees
  <2> SUFFICES ASSUME ParserInv, NEW f \in Range(Exported(funcs))
               PROVE  /\ Rust(f).params = C(f).params /\ Rust(f).struct = C(f).struct
                      /\ f.type # "event" => Rust(f).result = C(f).result
                      /\ VccPasses(f).params = C(f).params
                      /\ VccPasses(f).fields = Range(C(f).struct)
                      /\ VccExpects(f) = C(f).result
                      /\ \A r \in Reads(f) : r[2] \in Range(Rust(f)[r[1]])
    BY DEF AbiAgrees
  <2>1. Known(f)
    BY ExportedKnown DEF ParserInv
  <2> QED
    BY <2>1, RustIsC, ResultIsOne, VccIsC, ReadsAreThere
<1> QED
  BY <1>1, ParserKeepsInv, PTL
=============================================================================
