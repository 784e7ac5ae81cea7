-------------------------------- MODULE MCVmod --------------------------------
(* A vmod when it is compiled, and when it is called: the modules that the    *)
(* macro may be given (MCVmodParser), and two vmods in a task, one whose       *)
(* functions use the RefCell form and one with all three, with a function for *)
(* every type, most of them in the second.  Nothing tells the objects apart.  *)
EXTENDS MCVmodParser, VmodCalls, TLC
CONSTANTS cell, mutating, each, later

MCForms == (cell :> {"ref", "refcell"}) @@ (mutating :> {"ref", "mut", "refcell"})
MCGroups == ("client" :> {"vcl_recv", "vcl_deliver"}) @@ ("backend" :> {"vcl_backend_fetch"})
Fn(v, form, ty, restrict) == [vmod |-> v, form |-> form, ty |-> ty, restrict |-> restrict]
MCFunctions ==
  {Fn(cell, "refcell", "str", {"client"}),
   Fn(mutating, "mut", "sub", {}), Fn(mutating, "ref", "sub", {}),
   Fn(mutating, "refcell", "sub", {}),
   Fn(mutating, "mut", "probe", {"vcl_recv", "backend"}), Fn(mutating, "ref", "opt_str", {})}
    \cup {Fn(mutating, "ref", ty, {}) : ty \in Types \ {"str", "sub", "opt_str", "probe", "time"}}
    \cup {Fn(cell, "ref", "time", {})}
MCSymmetry == Permutations(Objects)
MCSubs == (each :> {"vcl_recv"}) @@ (later :> {"vcl_recv", "vcl_deliver"})

\* The compiler and a task share no state, and each property is about one of
\* them: one of them moves while the other is at its start.
NotCalled   == CallsInit /\ method = "vcl_recv" /\ room = 0
NotCompiled == ParserInit

VmodInit == CallsInit /\ ParserInit

MacroStep == NotCalled /\ ParserNext /\ UNCHANGED allVars
TaskStep  == NotCompiled /\ CallsNext /\ UNCHANGED parserVars
Compiled  == verdict # "none" /\ UNCHANGED <<allVars, parserVars>>

VmodSpec == VmodInit /\ [][MacroStep \/ TaskStep \/ Compiled]_<<allVars, parserVars>>
=============================================================================
