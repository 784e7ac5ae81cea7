----------------------------- MODULE VmodWrappers -----------------------------
(***************************************************************************)
(* The code that #[vmod] generates for an accepted module describes each   *)
(* function three times: as an extern "C" function in Rust, as a prototype *)
(* in C, and as a list of arguments in JSON, from which the VCL compiler   *)
(* writes the call (gen_func.rs, gen_objects.rs, generator.rs).  No        *)
(* compiler sees two of them together.                                     *)
(*                                                                         *)
(* A parameter is a pair of the argument it stands for (its position, or 0 *)
(* for what the generator adds) and of what is passed.                     *)
(***************************************************************************)
EXTENDS VmodParser, SequencesExt

\* has_optional_args, and use_shared_per_vcl.
HasOptional(f) == \E a \in ArgsOf(f) : a.kind = "value" /\ a.form = "optional"
UsesPerVcl(f)  == \E a \in ArgsOf(f) : a.kind \in {"fetch", "delivery"} \/
                                       (a.kind = "vcl" /\ a.form = "mut")

\* The concatenation of Decl(a, i) over the arguments of f.
OverArgs(f, Decl(_, _)) == FlattenSeq([i \in DOMAIN f.args |-> Decl(f.args[i], i)])
When(condition, s) == IF condition THEN s ELSE <<>>

-----------------------------------------------------------------------------
(* FuncProcessor::init and do_fn_param.                                     *)

\* The parameters that come with the type of a function.
Own(what) == <<<<0, what>>>>
Fixed(type) ==
  When(type # "destructor", Own("ctx"))
    \o When(type \in {"constructor", "destructor"}, Own("objp"))
    \o When(type = "constructor", Own("vcl_name"))
    \o When(type = "method", Own("obj"))
    \o When(type = "event", Own("vp") \o Own("ev"))

\* to_c_type, and to_vcc_type.
CType   == [bool |-> "VCL_BOOL", f64 |-> "VCL_REAL", i64 |-> "VCL_INT", str |-> "VCL_STRING",
            cstr |-> "VCL_STRING", probe |-> "VCL_PROBE", blob |-> "VCL_BLOB"]
VccType == [bool |-> "BOOL", f64 |-> "REAL", i64 |-> "INT", str |-> "STRING",
            cstr |-> "STRING", probe |-> "PROBE", blob |-> "BLOB"]

\* The slot that take_per_vcl needs, ahead of all arguments.
PerVclSlot(f) == When(UsesPerVcl(f), Own("priv"))

\* What one argument adds: slots and values, and the flag of an optional value.
Decl(a, i) ==
  CASE a.kind = "task" \/ (a.kind = "vcl" /\ a.form = "ref") -> <<<<i, "priv">>>>
    [] a.kind = "value" -> When(a.form = "optional", <<<<i, "valid">>>>) \o <<<<i, CType[a.ty]>>>>
    [] OTHER            -> <<>>
Decls(f) == PerVclSlot(f) \o OverArgs(f, Decl)

\* OutputTy::to_c_type and to_vcc_type, the second without its VCL_.  A wrapper of
\* an event returns what a VCL_INT is.
CResult(h) == CASE h.result \in DOMAIN CType      -> CType[h.result]
                [] h.result \in {"()", "Self"}    -> "VCL_VOID"
                [] OTHER                          -> h.result
VccResult(h) == CASE h.result \in DOMAIN VccType  -> VccType[h.result]
                  [] h.result \in {"()", "Self"}  -> "VOID"
                  [] OTHER                        -> "BACKEND"
Output(f) == IF f.type = "event" THEN "VCL_INT" ELSE CResult(f.head)

\* Mutation: only optional arguments go into the struct of arguments.
RustMut(f) ==
  LET Optional(p)  == p[1] > 0 /\ f.args[p[1]].form = "optional"
      Required(p)  == ~Optional(p)
  IN [result |-> Output(f),
      params |-> Fixed(f.type) \o When(HasOptional(f), Own("args"))
                   \o When(f.type # "event", SelectSeq(Decls(f), Required)),
      struct |-> SelectSeq(Decls(f), Optional)]

\* add_wrapper_arg: the signature of the wrapper, or the struct that it gets a
\* pointer to.  An event has the signature of its type.
Rust(f) ==
  LET decls == When(f.type # "event", Decls(f))
  IN [result |-> Output(f),
      params |-> Fixed(f.type) \o IF HasOptional(f) THEN Own("args") ELSE decls,
      struct |-> When(HasOptional(f), decls)]

\* gen_cproto: the same from output_hdr, cproto_fn_arg_decl, cproto_wrapper_args and
\* cproto_opt_arg_decl.  An event is a vmod_event_f, which returns an int.
C(f) ==
  CASE f.type = "event" ->
         [result |-> "int", params |-> Own("ctx") \o Own("vp") \o Own("ev"), struct |-> <<>>]
    [] HasOptional(f) ->
         [result |-> Output(f), params |-> Fixed(f.type) \o Own("args"), struct |-> Decls(f)]
    [] OTHER ->
         [result |-> Output(f), params |-> Fixed(f.type) \o Decls(f), struct |-> <<>>]

\* arg_to_json: an argument, its kind, and whether VCL may leave it out.
Json(a, i) ==
  CASE a.kind = "task" \/ (a.kind = "vcl" /\ a.form = "ref") ->
         <<[arg |-> i, what |-> "priv", optional |-> FALSE]>>
    [] a.kind = "value" -> <<[arg |-> i, what |-> VccType[a.ty], optional |-> a.form = "optional"]>>
    [] a.kind = "event" -> <<[arg |-> i, what |-> "event", optional |-> FALSE]>>
    [] OTHER            -> <<>>
ArgsJson(f) ==
  When(UsesPerVcl(f), <<[arg |-> 0, what |-> "priv", optional |-> FALSE]>>) \o OverArgs(f, Json)

\* json_func, with output_vcc first, and the restrictions after it: an event has
\* neither result nor arguments there.
FuncJson(f) == [result |-> IF f.type = "event" THEN None ELSE VccResult(f.head),
                args |-> IF f.type = "event" THEN <<>> ELSE ArgsJson(f),
                struct |-> f.type # "event" /\ HasOptional(f)]

\* What the body of the wrapper reads, with get_arg_value: the signature's
\* parameters, or fields of the struct.
Reads(f) ==
  LET place == IF HasOptional(f) THEN "struct" ELSE "params"
      Read(a, i) ==
        CASE a.kind = "name"  -> <<<<"params", <<0, "vcl_name">>>>>>
          [] a.kind = "self"  -> <<<<"params", <<0, "obj">>>>>>
          [] a.kind = "event" -> <<<<"params", <<0, "ev">>>>>>
          [] OTHER            -> [n \in DOMAIN Decl(a, i) |-> <<place, Decl(a, i)[n]>>]
      slot == IF f.type = "event" THEN <<"params", <<0, "vp">>>> ELSE <<place, <<0, "priv">>>>
  IN Range(OverArgs(f, Read)) \cup {s \in {slot} : UsesPerVcl(f)}
       \cup {<<"params", <<0, "objp">>>> : t \in {f.type} \cap {"constructor", "destructor"}}

-----------------------------------------------------------------------------
(* Generator: the functions in the order of the tables of exports, in which  *)
(* an object has its constructors, the destructor and the methods.          *)

Destructor == [type |-> "destructor", head |-> [result |-> "()"], args |-> <<>>]
Exported(fs) ==
  LET Of(types) == FlattenSeq([i \in DOMAIN fs |-> When(fs[i].type \in types, <<fs[i]>>)])
  IN Of({"function", "event"}) \o Of({"constructor"})
       \o When(OfType(fs, "constructor") # {}, <<Destructor>>)
       \o Of({"method"})

\* The C type by which the VCL compiler passes a value, and struct vmod_priv *.
PassedAs == [BOOL |-> "VCL_BOOL", REAL |-> "VCL_REAL", INT |-> "VCL_INT",
           STRING |-> "VCL_STRING", PROBE |-> "VCL_PROBE", BLOB |-> "VCL_BLOB",
           BACKEND |-> "VCL_BACKEND", VOID |-> "VCL_VOID", priv |-> "priv"]

\* The VCL compiler's call: what it always passes and, from the JSON, the result
\* and one parameter per argument, or a struct whose fields it sets by name.
VccExpects(f) == IF f.type = "event" THEN "int" ELSE PassedAs[FuncJson(f).result]
VccPasses(f) ==
  LET json  == FuncJson(f).args
      plain == [n \in DOMAIN json |-> <<json[n].arg, PassedAs[json[n].what]>>]
      flags == {<<json[n].arg, "valid">> : n \in {m \in DOMAIN json : json[m].optional}}
  IN IF FuncJson(f).struct
       THEN [params |-> Fixed(f.type) \o Own("args"), fields |-> Range(plain) \cup flags]
       ELSE [params |-> Fixed(f.type) \o plain, fields |-> flags]

\* The three descriptions of every exported function agree: the wrapper reads
\* parameters and fields at the places at which the compiled VCL puts them, the
\* value of each argument reaches that argument, whether a function has
\* optional arguments or not, nothing that the body reads is missing, and the
\* result has one type, but for an event: its wrapper returns a VCL_INT.
AbiAgrees ==
  verdict = "accepted" =>
    \A f \in Range(Exported(funcs)) :
      /\ Rust(f).params = C(f).params /\ Rust(f).struct = C(f).struct
      /\ f.type # "event" => Rust(f).result = C(f).result
      /\ VccPasses(f).params = C(f).params
      /\ VccPasses(f).fields = Range(C(f).struct)
      /\ VccExpects(f) = C(f).result
      /\ \A r \in Reads(f) : r[2] \in Range(Rust(f)[r[1]])
=============================================================================
