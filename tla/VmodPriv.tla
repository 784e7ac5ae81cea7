------------------------------- MODULE VmodPriv -------------------------------
(***************************************************************************)
(* The #[shared_per_task] storage of vmods: the wrappers that the vmod     *)
(* macro generates (varnish-macros/src/gen_func.rs) over the vmod_priv     *)
(* methods of varnish-sys/src/extensions.rs, during one task.              *)
(*                                                                         *)
(* A wrapper gives the user's function the object that the PRIV_TASK slot  *)
(* of its vmod points to: "ref" as an Option<&T>, "mut" as a               *)
(* &mut Option<Box<T>> that is taken out of the slot and put back after    *)
(* the call, "refcell" as a &RefCell<..> that stays in the slot.  A        *)
(* function may call a VCL subroutine (Ctx::call_sub), from which vmod     *)
(* functions are called again: the calls of a task form a stack.           *)
(***************************************************************************)
EXTENDS Naturals, Sequences, FiniteSets

CONSTANTS Vmods,      \* the vmods that the VCL imports
          Forms,      \* the forms of the shared argument in each vmod's functions
          Objects,    \* addresses of boxed values
          Depth,      \* bound on the nesting of calls
          NULL

ASSUME FormsAssumption == Forms \in [Vmods -> SUBSET {"ref", "mut", "refcell"}]
ASSUME BoundAssumption == Depth \in Nat \ {0}
ASSUME NullAssumption == NULL \notin Objects

VARIABLES priv,     \* vmod_priv.priv_ of each vmod's slot
          methods,  \* whether vmod_priv.methods is set
          calls,    \* the stack of running calls, innermost last
          live,     \* the boxes that are allocated
          task      \* whether the task runs

vars == <<priv, methods, calls, live, task>>

\* A "refcell" call always has an object.
Call == [vmod : Vmods, form : {"ref", "mut"}, obj : Objects \cup {NULL}]
          \cup [vmod : Vmods, form : {"refcell"}, obj : Objects]

Init == /\ priv = [v \in Vmods |-> NULL]
        /\ methods = [v \in Vmods |-> FALSE]
        /\ calls = <<>>
        /\ live = {}
        /\ task = "running"

\* VCL may call a function of v whose shared argument has this form, whatever
\* calls of v are running already.
MayCall(v, form) ==
  /\ task = "running"
  /\ form \in Forms[v]
  /\ Len(calls) < Depth

Push(v, form, o) == calls' = Append(calls, [vmod |-> v, form |-> form, obj |-> o])
Top == calls[Len(calls)]

-----------------------------------------------------------------------------
(* Entering a call.                                                         *)

\* Option<&T>: get_ref.
EnterRef(v) ==
  /\ MayCall(v, "ref")
  /\ Push(v, "ref", priv[v])
  /\ UNCHANGED <<priv, methods, live, task>>

\* Mutation: the pointer is copied and the slot keeps it.
EnterMutMut(v) ==
  /\ MayCall(v, "mut")
  /\ Push(v, "mut", priv[v])
  /\ UNCHANGED <<priv, methods, live, task>>

\* &mut Option<Box<T>>: take, which clears both fields of the slot.
EnterMut(v) ==
  /\ MayCall(v, "mut")
  /\ Push(v, "mut", priv[v])
  /\ priv' = [priv EXCEPT ![v] = NULL]
  /\ methods' = [methods EXCEPT ![v] = FALSE]
  /\ UNCHANGED <<live, task>>

\* Mutation: no default is put.
EnterRefCellNone(v) ==
  /\ MayCall(v, "refcell")
  /\ Push(v, "refcell", priv[v])
  /\ UNCHANGED <<priv, methods, live, task>>

\* Mutation: the default is put on every call.
EnterRefCellMut(v) ==
  /\ MayCall(v, "refcell")
  /\ \E o \in Objects \ live :
       /\ priv' = [priv EXCEPT ![v] = o]
       /\ methods' = [methods EXCEPT ![v] = TRUE]
       /\ live' = live \cup {o}
       /\ Push(v, "refcell", o)
  /\ UNCHANGED task

\* &RefCell<Option<T>>: a default is put if there is none; then get_ref.
EnterRefCell(v) ==
  /\ MayCall(v, "refcell")
  /\ \/ /\ priv[v] # NULL
        /\ Push(v, "refcell", priv[v])
        /\ UNCHANGED <<priv, methods, live>>
     \/ /\ priv[v] = NULL
        /\ \E o \in Objects \ live :
             /\ priv' = [priv EXCEPT ![v] = o]
             /\ methods' = [methods EXCEPT ![v] = TRUE]
             /\ live' = live \cup {o}
             /\ Push(v, "refcell", o)
  /\ UNCHANGED task

\* A wrapper that leaves before it has called the user's function: what take
\* took is put back, and the default value of a "refcell" stays.
Bounce(v, form) ==
  /\ MayCall(v, form)
  /\ IF form = "refcell" /\ priv[v] = NULL
       THEN \E o \in Objects \ live :
              /\ priv' = [priv EXCEPT ![v] = o]
              /\ methods' = [methods EXCEPT ![v] = TRUE]
              /\ live' = live \cup {o}
       ELSE UNCHANGED <<priv, methods, live>>
  /\ UNCHANGED <<calls, task>>

-----------------------------------------------------------------------------
(* The user's function, between its calls of subroutines.                   *)

\* *arg = Some(Box::new(..)), which drops what was there.
Store(o) ==
  /\ calls # <<>> /\ Top.form = "mut"
  /\ o \notin live
  /\ live' = (live \ {Top.obj}) \cup {o}
  /\ calls' = [calls EXCEPT ![Len(calls)].obj = o]
  /\ UNCHANGED <<priv, methods, task>>

\* *arg = None.
Clear ==
  /\ calls # <<>> /\ Top.form = "mut" /\ Top.obj # NULL
  /\ live' = live \ {Top.obj}
  /\ calls' = [calls EXCEPT ![Len(calls)].obj = NULL]
  /\ UNCHANGED <<priv, methods, task>>

-----------------------------------------------------------------------------
(* Leaving it.                                                              *)

Pop == calls' = SubSeq(calls, 1, Len(calls) - 1)

\* Mutation: an error of the user's function skips the put.
LeaveErr ==
  /\ calls # <<>>
  /\ \E ok \in BOOLEAN :
       IF ok /\ Top.form = "mut" /\ Top.obj # NULL
         THEN /\ priv' = [priv EXCEPT ![Top.vmod] = Top.obj]
              /\ methods' = [methods EXCEPT ![Top.vmod] = TRUE]
         ELSE UNCHANGED <<priv, methods>>
  /\ Pop
  /\ UNCHANGED <<live, task>>

\* The function returns, Ok or Err: what a "mut" call holds is put back, over
\* whatever a call below it has left in the slot.
Leave ==
  /\ calls # <<>>
  /\ IF Top.form = "mut" /\ Top.obj # NULL
       THEN /\ priv' = [priv EXCEPT ![Top.vmod] = Top.obj]
            /\ methods' = [methods EXCEPT ![Top.vmod] = TRUE]
       ELSE UNCHANGED <<priv, methods>>
  /\ Pop
  /\ UNCHANGED <<live, task>>

\* varnishd ends the task: on_fini drops the object of every slot that has
\* methods.
TaskEnd ==
  /\ task = "running" /\ calls = <<>>
  /\ live' = live \ {priv[v] : v \in {w \in Vmods : methods[w]}}
  /\ priv' = [v \in Vmods |-> NULL]
  /\ methods' = [v \in Vmods |-> FALSE]
  /\ task' = "over"
  /\ UNCHANGED calls

\* The next task of the worker, with slots of its own.
TaskBegin ==
  /\ task = "over"
  /\ task' = "running"
  /\ UNCHANGED <<priv, methods, calls, live>>

Enter(v) == EnterRef(v) \/ EnterMut(v) \/ EnterRefCell(v)

Next == \/ \E v \in Vmods : Enter(v) \/ \E form \in Forms[v] : Bounce(v, form)
        \/ \E o \in Objects : Store(o)
        \/ Clear \/ Leave \/ TaskEnd \/ TaskBegin

Spec == Init /\ [][Next]_vars

-----------------------------------------------------------------------------
\* The type invariant; a call with the RefCell form always finds its cell.
TypeOK == /\ priv \in [Vmods -> Objects \cup {NULL}]
          /\ methods \in [Vmods -> BOOLEAN]
          /\ calls \in Seq(Call) /\ Len(calls) <= Depth
          /\ live \subseteq Objects
          /\ task \in {"running", "over"}

Owners(o) ==
  {<<"slot", v>> : v \in {w \in Vmods : priv[w] = o}}
    \cup {<<"call", i>> : i \in {j \in DOMAIN calls : calls[j].form = "mut" /\ calls[j].obj = o}}

\* take and put move an object between the slot and the call that mutates it,
\* however calls are nested: no object has two owners, which would drop it twice,
\* and what a slot or a call owns is allocated.
SoleOwner == \A o \in Objects : /\ Cardinality(Owners(o)) <= 1
                               /\ Owners(o) # {} => o \in live

\* The wrapper of v's function returns from the last call, a "mut" one.
PutBack(v) == /\ calls # <<>> /\ Top.form = "mut" /\ Top.vmod = v
              /\ Len(calls') < Len(calls)

\* No allocated object loses its owner, through errors and nested calls, but in
\* one way: put finds that a call below has left an object in the slot (it was
\* empty when the call began), and overwrites it.
LostOnlyInPut ==
  [][\A o \in live \cap live' :
       Owners(o) # {} /\ Owners(o)' = {} => \E v \in Vmods : priv[v] = o /\ PutBack(v)]_vars

Refers(i)  == calls[i].form # "mut" /\ calls[i].obj # NULL
InPlace(i) == priv[calls[i].vmod] = calls[i].obj /\ calls[i].obj \in live

\* A "mut" call of the same vmod runs below the call i.
MutBelow(i) == \E j \in DOMAIN calls : /\ j > i /\ calls[j].vmod = calls[i].vmod
                                       /\ calls[j].form = "mut"

\* A reference is valid when a function gets it, and the object stays allocated
\* and in its slot while the function runs, but for one way to lose it: a "mut"
\* call of the same vmod below.  So the RefCell form, which "stays in storage for
\* reentrant sub calls" (gen_func.rs:295), is safe in a vmod without that one.
RefsLostOnlyToMut ==
  [][\A i \in DOMAIN calls' :
       /\ i \notin DOMAIN calls /\ Refers(i)' => InPlace(i)'
       /\ i \in DOMAIN calls /\ Refers(i) /\ InPlace(i) =>
            InPlace(i)' \/ MutBelow(i) \/ MutBelow(i)']_vars

\* get_ref: "`take()` must not be called on the same `vmod_priv` object until
\* the returned reference is dropped".
RefsStay == \A i \in DOMAIN calls : Refers(i) => InPlace(i)
=============================================================================
