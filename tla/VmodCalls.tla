------------------------------ MODULE VmodCalls ------------------------------
(***************************************************************************)
(* The calls of vmod functions in a task, as VCL sees them: the wrapper    *)
(* checks #[restrict], takes the shared argument (VmodPriv), converts the  *)
(* argument (Conversions), calls the user's function, converts its result, *)
(* gives the shared argument back, and turns every error into Ctx::fail    *)
(* and a default value (gen_func.rs).  The user's function may call a VCL  *)
(* subroutine (Ctx::call_sub), in which VCL calls vmod functions again.    *)
(*                                                                         *)
(* A panic in a wrapper aborts the worker process.                         *)
(***************************************************************************)
EXTENDS VmodPriv

CONSTANTS ABSENT,    \* an optional argument that VCL left out
          Methods,   \* the values of vrt_ctx.method: one per built-in subroutine
          Groups,    \* client, backend, housekeeping: their methods
          Functions, \* the vmods' functions
          Subs,      \* the methods that each custom subroutine may be called from
          MaxRoom    \* bound on the allocations that the workspace has room for

INSTANCE Conversions

ASSUME AbsentAssumption ==
  \A v \in {ABSENT, NULL} : v \notin Named /\ v \notin RawProbe
ASSUME GoneAssumption == ABSENT # NULL
ASSUME MethodsAssumption == /\ \A g \in DOMAIN Groups : Groups[g] \subseteq Methods
                            /\ Methods \cap DOMAIN Groups = {}
ASSUME RoomAssumption == MaxRoom \in Nat
ASSUME FunctionsAssumption ==
  \A f \in Functions : /\ f.vmod \in Vmods /\ f.form \in Forms[f.vmod] /\ f.ty \in Types
                       /\ f.restrict \subseteq Methods \cup DOMAIN Groups
ASSUME SubsAssumption == \A s \in DOMAIN Subs : Subs[s] \subseteq Methods

VARIABLES method,    \* vrt_ctx.method
          handling,  \* what has been decided for the task: none, handled, fail
          frames,    \* for each running call: function, argument, subroutine it is in
          room,      \* allocations that still fit into the workspace
          given,     \* what the last call gave to VCL
          crashed    \* the worker process has aborted

taskVars == <<method, handling, frames, room, given, crashed>>
allVars  == <<vars, taskVars>>

Gone    == ABSENT   \* the argument of a call that made another call meanwhile
Default == [out |-> "default"]

CallsInit == /\ Init
             /\ method \in Methods /\ handling = "none" /\ frames = <<>>
             /\ room \in 0..MaxRoom
             /\ given = Default /\ crashed = FALSE

TopFrame == frames[Len(frames)]
InUser   == ~crashed /\ frames # <<>> /\ TopFrame.sub = NULL
InVcl    == ~crashed /\ (frames # <<>> => TopFrame.sub # NULL)

-----------------------------------------------------------------------------
(* The wrapper, up to the user's function.                                  *)

\* gen_restrict_check: the scopes are or-ed.
Mask(scopes) == UNION {IF s \in DOMAIN Groups THEN Groups[s] ELSE {s} : s \in scopes}
Allowed(f) == f.restrict = {} \/ method \in Mask(f.restrict)

\* Ctx::fail, and Default::default() for VCL.
Fail == given' = Default /\ handling' = "fail"

\* VCL stops at the next statement when the task is handled or failed; the
\* arguments of one statement are still evaluated after one of them failed.
VclCalls(f) ==
  /\ InVcl
  /\ handling # "handled"
  /\ MayCall(f.vmod, f.form)

\* Not in this method: nothing else of the wrapper runs.
Refuse(f) ==
  /\ VclCalls(f)
  /\ ~Allowed(f)
  /\ Fail
  /\ UNCHANGED <<vars, method, frames, room, crashed>>

\* The conversion of the argument fails in the closure around the call.
BadArgument(f, v) ==
  /\ VclCalls(f)
  /\ Allowed(f)
  /\ FromVcl(f.ty, v).out = "err"
  /\ Bounce(f.vmod, f.form)
  /\ Fail
  /\ UNCHANGED <<method, frames, room, crashed>>

\* It panics.
Panic(f, v) ==
  /\ VclCalls(f)
  /\ Allowed(f)
  /\ FromVcl(f.ty, v).out = "abort"
  /\ crashed' = TRUE
  /\ UNCHANGED <<vars, method, handling, frames, room, given>>

EnterForm(f) == \/ f.form = "ref" /\ EnterRef(f.vmod)
                \/ f.form = "mut" /\ EnterMut(f.vmod)
                \/ f.form = "refcell" /\ EnterRefCell(f.vmod)

CallUser(f, v) ==
  /\ VclCalls(f)
  /\ Allowed(f)
  /\ FromVcl(f.ty, v).out = "ok"
  /\ EnterForm(f)
  /\ frames' = Append(frames, [fn |-> f, vcl |-> v, arg |-> FromVcl(f.ty, v).val, sub |-> NULL])
  /\ given' = Default
  /\ UNCHANGED <<method, handling, room, crashed>>

-----------------------------------------------------------------------------
(* The user's function.                                                     *)

SetShared ==
  /\ InUser
  /\ Clear \/ \E o \in Objects : Store(o)
  /\ UNCHANGED taskVars

\* VRT_check_call: whether s may be called here, and is not running already.
Callable(s) == /\ method \in Subs[s]
               /\ \A i \in DOMAIN frames : frames[i].sub # s

\* VRT_call runs s, unless the task has been handled, which is an error.
Run(s) ==
  /\ IF handling = "none"
       THEN /\ frames' = [frames EXCEPT ![Len(frames)] =
                            [fn |-> @.fn, vcl |-> Gone, arg |-> Gone, sub |-> s]]
            /\ given' = Default
            /\ UNCHANGED handling
       ELSE handling' = "fail" /\ UNCHANGED <<frames, given>>
  /\ UNCHANGED <<vars, method, room, crashed>>

\* Mutation: call_sub does not ask first.
CallSubMut(s) == InUser /\ TopFrame.fn.ty = "sub" /\ Run(s)

\* call_sub, in a function that has a subroutine for an argument, when the check
\* lets it.  Otherwise the function gets an Err and nothing happens.
CallSub(s) == InUser /\ TopFrame.fn.ty = "sub" /\ Callable(s) /\ Run(s)

\* s ends, with or without a return(...), or because the task failed.
EndSub ==
  /\ InVcl /\ frames # <<>>
  /\ frames' = [frames EXCEPT ![Len(frames)].sub = NULL]
  /\ \/ UNCHANGED handling
     \/ handling = "none" /\ handling' = "handled"
  /\ UNCHANGED <<vars, method, room, given, crashed>>

PopFrame == frames' = SubSeq(frames, 1, Len(frames) - 1)

\* The user's function returns Err.
ReturnErr ==
  /\ InUser
  /\ Leave
  /\ PopFrame
  /\ Fail
  /\ UNCHANGED <<method, room, crashed>>

\* It returns the value r, which is converted in the closure too; what was
\* allocated for a result that fails stays allocated.
ReturnValue(r, echo) ==
  LET result == IntoVcl(TopFrame.fn.ty, r, room)
  IN /\ Leave
     /\ PopFrame
     /\ room' = room - result.used
     /\ IF result.out = "err" THEN Fail
        ELSE /\ given' = [out |-> "value", ty |-> TopFrame.fn.ty, echo |-> echo,
                          of |-> IF echo THEN TopFrame.vcl ELSE r, val |-> result.val]
             /\ UNCHANGED handling
     /\ UNCHANGED <<method, crashed>>

\* An address or a probe can be returned only if there is one.
ReturnArgument ==
  /\ InUser
  /\ TopFrame.arg # Gone
  /\ TopFrame.arg = NULL => TopFrame.fn.ty \notin {"ip", "probe"}
  /\ ReturnValue(TopFrame.arg, TRUE)

ReturnOther ==
  /\ InUser
  /\ \E r \in RustValues(TopFrame.fn.ty) : ReturnValue(r, FALSE)

-----------------------------------------------------------------------------

EndTask ==
  /\ ~crashed /\ frames = <<>>
  /\ TaskEnd
  /\ UNCHANGED taskVars

BeginTask ==
  /\ ~crashed
  /\ TaskBegin
  /\ method' \in Methods /\ room' \in 0..MaxRoom
  /\ handling' = "none" /\ given' = Default
  /\ UNCHANGED <<frames, crashed>>

\* The manager starts a new worker process.
Restart ==
  /\ crashed
  /\ priv' = [v \in Vmods |-> NULL] /\ methods' = [v \in Vmods |-> FALSE]
  /\ calls' = <<>> /\ live' = {} /\ task' = "running"
  /\ method' \in Methods /\ room' \in 0..MaxRoom
  /\ handling' = "none" /\ given' = Default
  /\ frames' = <<>> /\ crashed' = FALSE

CallsNext ==
  \/ \E f \in Functions : \/ Refuse(f)
                          \/ \E v \in VclValues(f.ty) : BadArgument(f, v) \/ Panic(f, v) \/ CallUser(f, v)
  \/ \E s \in DOMAIN Subs : CallSub(s)
  \/ SetShared \/ EndSub \/ ReturnErr \/ ReturnArgument \/ ReturnOther
  \/ EndTask \/ BeginTask \/ Restart

CallsSpec == CallsInit /\ [][CallsNext]_allVars

-----------------------------------------------------------------------------
\* The type invariant; the frames are those of the calls of VmodPriv.
CallsTypeOK ==
  /\ TypeOK
  /\ method \in Methods /\ handling \in {"none", "handled", "fail"}
  /\ room \in 0..MaxRoom /\ crashed \in BOOLEAN
  /\ DOMAIN frames = DOMAIN calls
  /\ \A i \in DOMAIN frames : /\ frames[i].fn \in Functions
                              /\ frames[i].fn.vmod = calls[i].vmod
                              /\ frames[i].fn.form = calls[i].form
                              /\ i < Len(frames) => frames[i].sub # NULL

\* A subroutine runs, and a user's function runs, only where they may: the
\* restriction of each running function and the callers that each running
\* subroutine admits hold of the task's method, at every depth, and no
\* subroutine runs within itself.
OnlyWhereAllowed ==
  /\ \A i \in DOMAIN frames :
       /\ \/ frames[i].fn.restrict = {} \/ method \in frames[i].fn.restrict
          \/ \E g \in frames[i].fn.restrict \ Methods : method \in Groups[g]
       /\ frames[i].sub # NULL => method \in Subs[frames[i].sub]
  /\ \A i, j \in DOMAIN frames : i # j /\ frames[i].sub # NULL => frames[i].sub # frames[j].sub

\* What a call gives to VCL is the value that the user's function returned: the
\* argument comes back the same through a function that returns it, and what
\* the function made would be read back the same.  What Canonical says is the
\* same; a probe is not, in two ways: the threshold is lost on the way to VCL
\* (probe.rs:78-86), and text that is not UTF-8 is replaced on the way from it.
ValueFaithful ==
  given.out = "value" =>
    IF given.echo THEN Echoes(given.ty, given.of, given.val)
                  ELSE ReadsBack(given.ty, given.of, given.val)
=============================================================================
