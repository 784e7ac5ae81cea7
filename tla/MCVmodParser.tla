----------------------------- MODULE MCVmodParser -----------------------------
(* Two types; shared arguments of every form, one type nested in a RefCell;  *)
(* values; heads of every kind, and of each mistake.                          *)
EXTENDS VmodWrappers
CONSTANTS T, U, N

Plain(kind) == [kind |-> kind, form |-> None, ty |-> None]
Task(form, ty) == [kind |-> "task", form |-> form, ty |-> ty]
Vcl(form, ty)  == [kind |-> "vcl", form |-> form, ty |-> ty]
Value(form, ty, default) == [kind |-> "value", form |-> form, ty |-> ty, default |-> default]

MCMenu == {Task("mut", T), Task("ref", T), Task("ref", Cell(T)),
           Task("cell", Cell(T)), Vcl("mut", T), Vcl("ref", T), Vcl("ref", U)}
            \cup {Value("regular", "i64", None), Value("optional", "str", "string"),
                  Value("required", "probe", None)}
            \cup {Plain(k) : k \in {"ctx", "event", "fetch", "name", "self", "combined"}}

Written(impl, result, name, attrs) ==
  [impl |-> impl, result |-> result, name |-> name, attrs |-> attrs]
MCHeads ==
  {Written(FALSE, "()", None, {}), Written(FALSE, "()", None, {"event"}),
   Written(TRUE, "Self", None, {}), Written(TRUE, "()", None, {})}
    \cup {Written(FALSE, "()", N, {}), Written(FALSE, "()", N, {"event"}),
          Written(TRUE, "Self", N, {}), Written(TRUE, "()", N, {})}
    \cup {Written(FALSE, "VCL_BACKEND", None, {"unsafe"}), Written(FALSE, "i64", None, {"restrict"}),
          Written(TRUE, "str", None, {}), Written(FALSE, "()", N, {"rename"})}
    \cup {Written(FALSE, "Self", N, {}), Written(TRUE, "VCL_BACKEND", None, {}),
          Written(FALSE, "str", None, {"event"}), Written(FALSE, "()", None, {"event", "restrict"}),
          Written(TRUE, "Self", None, {"restrict"}), Written(TRUE, "()", N, {"event"}),
          Written(FALSE, "()", None, {"bad_scope"}), Written(FALSE, "()", None, {"event", "rename"})}
=============================================================================
