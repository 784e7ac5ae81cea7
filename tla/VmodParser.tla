------------------------------ MODULE VmodParser ------------------------------
(***************************************************************************)
(* What #[vmod] accepts: the parser of varnish-macros (parser.rs,          *)
(* parser_args.rs, parser_utils.rs) reads the functions of a module one    *)
(* argument after the other, with flags for the function it is in and two  *)
(* shared types for the whole vmod, and validates the model at the end.    *)
(* What it accepts becomes unchecked casts of the PRIV_TASK and PRIV_VCL   *)
(* pointers in the generated wrappers (gen_func.rs, generator.rs).         *)
(*                                                                         *)
(* The functions of one impl block are the constructors and methods here.  *)
(* What Rust itself refuses, and documentation, are left out.              *)
(***************************************************************************)
EXTENDS Naturals, Sequences, FiniteSets

CONSTANTS SharedTypes, \* types T of shared values
          Names,       \* VCL names that more than one function may have
          Menu,        \* the arguments that functions are written with
          Heads,       \* what comes before the arguments
          MaxFuncs,    \* bound on the functions of a vmod
          MaxParts,    \* bound on arguments, attributes, names and results of all of them
          None

\* The type RefCell<Option<t>>, and () for a vmod without a shared type.
Cell(t) == <<"RefCell", t>>
Unit    == <<"()">>
Shared  == SharedTypes \cup {Cell(t) : t \in SharedTypes}

\* ParamTy, with the types for which must_be_optional holds, and the literal of
\* a #[default] for each type that may have one.
ValueTypes     == {"bool", "f64", "i64", "str", "cstr", "probe", "blob"}
NeedsOption    == {"probe"}
Literal == [bool |-> "bool", f64 |-> "float", i64 |-> "int", str |-> "string", cstr |-> "string"]

\* A shared argument with the type that it is stored under: Box<ty>, &ty, or
\* the whole RefCell.  A value is Option<...> or not, and #[required] or not.
\* "combined" is an argument with two of the attributes that make it special.
Args == [kind : {"task"}, form : {"mut", "ref"}, ty : Shared]
          \cup [kind : {"task"}, form : {"cell"}, ty : {Cell(t) : t \in SharedTypes}]
          \cup [kind : {"vcl"}, form : {"mut", "ref"}, ty : SharedTypes]
          \cup [kind : {"value"}, form : {"regular", "optional", "required", "bare_required"},
                ty : ValueTypes, default : {None, "bool", "float", "int", "string"}]
          \cup [kind : {"ctx", "event", "fetch", "delivery", "name", "self", "combined"},
                form : {None}, ty : {None}]
FuncTypes == {"function", "constructor", "method", "event"}

\* A function of the module or of the impl block, its result (under Result or
\* not), its VCL name, from #[vcl_rename] or its own, if another may have it as
\* well, and its attributes.  "bad_scope" is a #[restrict] with no or another
\* scope than those of VCL, "bad_rename" a #[vcl_rename] without a name.
Results  == {"()", "Self", "VCL_BACKEND", "other"} \cup (ValueTypes \ {"blob"})
AllHeads == [impl : BOOLEAN, result : Results, name : Names \cup {None},
             attrs : SUBSET {"event", "restrict", "bad_scope", "rename", "bad_rename",
                             "unsafe", "private", "async"}]

ASSUME MenuAssumption == Menu \subseteq Args /\ Heads \subseteq AllHeads
ASSUME NoneAssumption == None \notin Shared \cup Names
ASSUME PartsAssumption == MaxFuncs \in Nat /\ MaxParts \in Nat

VARIABLES source,   \* history: the functions as written, the current one last
          stage,    \* between functions, in one, or done
          status,   \* FuncStatus: the flags that are set
          failed,   \* whether an argument of the current function was refused
          perTask,  \* shared_types.shared_per_task_ty
          perVcl,   \* shared_types.shared_per_vcl_ty
          funcs,    \* the functions in the model
          errors,   \* whether there has been an error
          verdict

parserVars == <<source, stage, status, failed, perTask, perVcl, funcs, errors, verdict>>

ParserInit ==
  /\ source = <<>>
  /\ stage = "between"
  /\ status = {}
  /\ failed = FALSE
  /\ perTask = None /\ perVcl = None
  /\ funcs = <<>>
  /\ errors = FALSE
  /\ verdict = "none"

Current == source[Len(source)]

-----------------------------------------------------------------------------
(* Attributes, visibility and result.                                       *)

\* An event first; then what returns Self in an impl block is a constructor.
FuncType(h) ==
  CASE "event" \in h.attrs -> "event"
    [] OTHER -> IF ~h.impl THEN "function"
                ELSE IF h.result = "Self" THEN "constructor" ELSE "method"

\* OutputTy::parse, which ends the parsing of the function.
ResultOk(h) == /\ h.result # "other"
               /\ FuncType(h) = "event" => h.result = "()"
               /\ h.result = "Self" => FuncType(h) = "constructor"

HeadOk(h) ==
  /\ h.attrs \cap {"private", "async", "bad_scope", "bad_rename"} = {}
  /\ "event" \in h.attrs => ~h.impl
  /\ "restrict" \in h.attrs => FuncType(h) \in {"function", "method"}
  /\ "rename" \in h.attrs => FuncType(h) # "event"
  /\ (h.result = "VCL_BACKEND") <=> ("unsafe" \in h.attrs)

-----------------------------------------------------------------------------
(* One argument.                                                            *)

\* An argument of a VCL type.
ValueOk(a) ==
  /\ a.form # "bare_required"
  /\ a.ty \in NeedsOption => a.form # "regular"
  /\ a.form = "required" => a.ty \in NeedsOption \cup {"str", "cstr"}
  /\ a.default # None => a.ty \in DOMAIN Literal /\ Literal[a.ty] = a.default

\* only_in!, not_in!, the form of #[shared_per_vcl], and the place of &self.
ArgAllowed(a, type, idx) ==
  CASE a.kind = "task"                 -> type # "event"
    [] a.kind = "vcl"                  -> (a.form = "mut") <=> type \in {"constructor", "event"}
    [] a.kind = "name"                 -> type = "constructor"
    [] a.kind = "event"                -> type = "event"
    [] a.kind \in {"fetch", "delivery"} -> type \in {"constructor", "event"}
    [] a.kind = "self"                 -> type = "method" /\ idx = 1
    [] a.kind = "value"                -> type # "event" /\ ValueOk(a)
    [] a.kind = "combined"             -> FALSE
    [] OTHER                           -> TRUE

\* Mutation: values may be given only once too.
FlagsMut(a) == IF a.kind \in {"self", "combined"} THEN {} ELSE {a.kind}
\* unique!: the flag that the argument sets, and must not find set.
Flags(a) == IF a.kind \in {"self", "value", "combined"} THEN {} ELSE {a.kind}

\* Mutation: a shared type is stored, and never compared.
AgreesMut(store, ty) == TRUE
\* store_shared: the type is stored, or must be the one that is.
Agrees(store, ty) == store \in {None, ty}

\* Mutation: a read-only argument is compared and not stored.
StoreSharedMut(a) ==
  /\ perTask' = IF a.kind = "task" /\ a.form # "ref" THEN a.ty ELSE perTask
  /\ perVcl' = IF a.kind = "vcl" THEN a.ty ELSE perVcl
StoreShared(a) ==
  /\ perTask' = IF a.kind = "task" THEN a.ty ELSE perTask
  /\ perVcl' = IF a.kind = "vcl" THEN a.ty ELSE perVcl

RefuseArg == failed' = TRUE

\* The flag is set before the type is looked at, but for #[shared_per_vcl].
ParseArg(a) ==
  LET seen == Flags(a) \cap status # {} IN
  IF ~ArgAllowed(a, Current.type, Len(Current.args) + 1)
    THEN RefuseArg /\ UNCHANGED <<status, perTask, perVcl>>
  ELSE IF a.kind = "vcl"
    THEN IF Agrees(perVcl, a.ty)
           THEN /\ StoreShared(a)
                /\ IF seen THEN RefuseArg /\ UNCHANGED status
                           ELSE status' = status \cup Flags(a) /\ UNCHANGED failed
           ELSE RefuseArg /\ UNCHANGED <<status, perTask, perVcl>>
  ELSE IF seen
    THEN RefuseArg /\ UNCHANGED <<status, perTask, perVcl>>
  ELSE /\ status' = status \cup Flags(a)
       /\ IF a.kind = "task" /\ ~Agrees(perTask, a.ty)
            THEN RefuseArg /\ UNCHANGED <<perTask, perVcl>>
            ELSE StoreShared(a) /\ UNCHANGED failed

\* What the bound counts: all that a function need not have.
Extras(h) == Cardinality(h.attrs \ {"event"}) + Cardinality({h.name} \ {None})
               + Cardinality({h.result} \ {"()", "Self"})
Parts == LET Of[i \in 0..Len(source)] ==
               IF i = 0 THEN 0 ELSE Of[i - 1] + Extras(source[i].head) + Len(source[i].args)
         IN Of[Len(source)]

Arg(a) ==
  /\ stage = "in"
  /\ Parts < MaxParts
  /\ IF ResultOk(Current.head) THEN ParseArg(a)
                               ELSE UNCHANGED <<status, failed, perTask, perVcl>>
  /\ source' = [source EXCEPT ![Len(source)].args = Append(@, a)]
  /\ UNCHANGED <<stage, funcs, errors, verdict>>

-----------------------------------------------------------------------------
(* A function, and the module.                                              *)

\* FuncInfo::parse starts with a fresh FuncStatus.
Begin(h) ==
  /\ stage = "between"
  /\ Len(source) < MaxFuncs
  /\ Parts + Extras(h) <= MaxParts
  /\ source' = Append(source, [type |-> FuncType(h), head |-> h, args |-> <<>>])
  /\ stage' = "in"
  /\ status' = {}
  /\ failed' = ~(HeadOk(h) /\ ResultOk(h))
  /\ UNCHANGED <<perTask, perVcl, funcs, errors, verdict>>

\* A function without an error goes into the model.
End ==
  /\ stage = "in"
  /\ stage' = "between"
  /\ IF failed THEN errors' = TRUE /\ UNCHANGED funcs
               ELSE funcs' = Append(funcs, Current) /\ UNCHANGED errors
  /\ UNCHANGED <<source, status, failed, perTask, perVcl, verdict>>

OfType(fs, type) == {i \in DOMAIN fs : fs[i].type = type}
ArgsOf(f)        == {f.args[i] : i \in DOMAIN f.args}
AllArgs(fs)      == UNION {ArgsOf(fs[i]) : i \in DOMAIN fs}
Has(fs, kind, form) == \E a \in AllArgs(fs) : a.kind = kind /\ a.form = form

\* ObjInfo::parse: an impl block must have a constructor.
ObjectValid == OfType(funcs, "method") # {} => OfType(funcs, "constructor") # {}

\* Mutation: the names of constructors are not looked at.
NamesApartMut(fs) ==
  \A i, j \in {k \in DOMAIN fs : fs[k].type \in {"function", "event"}} :
    i # j => fs[i].head.name = None \/ fs[i].head.name # fs[j].head.name
\* seen_vcl_names: functions, the event and constructors share a namespace.
NamesApart(fs) ==
  \A i, j \in {k \in DOMAIN fs : fs[k].type # "method"} :
    i # j => fs[i].head.name = None \/ fs[i].head.name # fs[j].head.name

\* validate, at the end.
Valid == /\ Cardinality(OfType(funcs, "event")) <= 1
         /\ NamesApart(funcs)
         /\ Has(funcs, "vcl", "ref") => Has(funcs, "vcl", "mut")
         /\ funcs # <<>>

Finish ==
  /\ stage = "between" /\ verdict = "none"
  /\ stage' = "done"
  /\ verdict' = IF ~errors /\ ObjectValid /\ Valid THEN "accepted" ELSE "rejected"
  /\ UNCHANGED <<source, status, failed, perTask, perVcl, funcs, errors>>

ParserNext ==
  \/ \E h \in Heads : Begin(h)
  \/ \E a \in Menu : Arg(a)
  \/ End \/ Finish

ParserSpec == ParserInit /\ [][ParserNext]_parserVars

-----------------------------------------------------------------------------
(* The generated code: the type that each piece of it casts the pointer in   *)
(* a slot to.                                                               *)

PerVclTy == IF perVcl = None THEN Unit ELSE perVcl

\* take, get_ref and put infer the type from the argument; the RefCell form and
\* the destructor in PRIV_TASK_METHODS use the stored one.
TaskCasts ==
  {a.ty : a \in {b \in AllArgs(funcs) : b.kind = "task" /\ b.form # "cell"}}
    \cup (IF Has(funcs, "task", "cell") \/ Has(funcs, "task", "mut") THEN {perTask} ELSE {})

\* Wrappers that change the state or a filter registry, and on_fini_per_vcl, use
\* the stored type, the readers the one of their argument.
VclCasts ==
  {a.ty : a \in {b \in AllArgs(funcs) : b.kind = "vcl" /\ b.form = "ref"}}
    \cup (IF \E a \in AllArgs(funcs) : a.kind \in {"fetch", "delivery"} \/
                                       (a.kind = "vcl" /\ a.form = "mut")
            THEN {PerVclTy} ELSE {})

-----------------------------------------------------------------------------
(* The reference: which modules are legal, whatever the order of their parts. *)

Count(f, kind) == Cardinality({i \in DOMAIN f.args : f.args[i].kind = kind})

LegalFunc(f) ==
  /\ HeadOk(f.head) /\ ResultOk(f.head)
  /\ \A i \in DOMAIN f.args : ArgAllowed(f.args[i], f.type, i)
  /\ \A kind \in {"task", "vcl", "ctx", "event", "fetch", "delivery", "name"} :
       Count(f, kind) <= 1

OneType(kind) == \A a, b \in AllArgs(source) :
                   a.kind = kind /\ b.kind = kind => a.ty = b.ty

Legal == /\ \A i \in DOMAIN source : LegalFunc(source[i])
         /\ OneType("task") /\ OneType("vcl")
         /\ source # <<>>
         /\ Cardinality(OfType(source, "event")) <= 1
         /\ OfType(source, "method") # {} => OfType(source, "constructor") # {}
         /\ Has(source, "vcl", "ref") => Has(source, "vcl", "mut")
         /\ \A n \in Names :
              LET called == {i \in DOMAIN source : source[i].head.name = n}
              IN Cardinality(called \ OfType(source, "method")) <= 1

-----------------------------------------------------------------------------
\* The type invariant; the shared types of the functions in the
\* model are known.
ParserTypeOK ==
  /\ source \in Seq([type : FuncTypes, head : Heads, args : Seq(Args)])
  /\ funcs \in Seq([type : FuncTypes, head : Heads, args : Seq(Args)])
  /\ stage \in {"between", "in", "done"}
  /\ status \subseteq {"task", "vcl", "ctx", "event", "fetch", "delivery", "name"}
  /\ failed \in BOOLEAN /\ errors \in BOOLEAN
  /\ perTask \in Shared \cup {None} /\ perVcl \in SharedTypes \cup {None}
  /\ verdict \in {"none", "accepted", "rejected"}
  /\ (\E a \in AllArgs(funcs) : a.kind = "task") => perTask # None
  /\ (\E a \in AllArgs(funcs) : a.kind = "vcl") => perVcl # None

\* The flags and the two stored types decide as the rules do: what is accepted
\* does not depend on the order of functions or arguments, nor on what earlier,
\* refused ones left behind.
AcceptsLegal == verdict # "none" => (verdict = "accepted" <=> Legal)

\* "The function may accept an Event argument, a &Ctx or &mut Ctx argument, and any
\* number of #[shared_per_vcl] arguments, in any order" (lib.rs:54-55): a module
\* that is such an event, of one shared type, is accepted.  The parser takes one
\* #[shared_per_vcl] argument, so AcceptsLegal says so too.
EventsAsDocumented ==
  verdict = "rejected" =>
    ~ \E f \in {source[i] : i \in DOMAIN source} :
        /\ Len(source) = 1 /\ f.type = "event" /\ HeadOk(f.head) /\ ResultOk(f.head)
        /\ \A a \in ArgsOf(f) : a.kind \in {"ctx", "event", "vcl"} /\ a.form # "ref"
        /\ Count(f, "ctx") <= 1 /\ Count(f, "event") <= 1
        /\ OneType("vcl")

\* The wrappers of an accepted vmod, and the destructors of its slots, agree on
\* the type behind each pointer, which nothing checks when they run.
SlotTyped == verdict = "accepted" => Cardinality(TaskCasts) <= 1 /\ Cardinality(VclCasts) <= 1
=============================================================================
