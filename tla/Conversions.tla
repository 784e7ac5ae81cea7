----------------------------- MODULE Conversions -----------------------------
(***************************************************************************)
(* The conversions between VCL and Rust values that the wrapper of a vmod  *)
(* function applies to its arguments and to its result (convert.rs,        *)
(* probe.rs), and the tables of types that say which of them a wrapper     *)
(* uses (varnish-macros/src/model.rs).                                     *)
(*                                                                         *)
(* Values are classes of values: "latin1" is a text that is not UTF-8,     *)
(* "nul_inside" a Rust string with a NUL before its end, "huge" a number   *)
(* of seconds beyond the range of Duration.                                *)
(***************************************************************************)
EXTENDS Naturals

CONSTANTS NULL,    \* a null pointer, or None
          ABSENT   \* an optional argument that VCL left out

\* The argument types of ParamTy, under Option or not.
Strings  == {"str", "opt_str", "cstr", "opt_cstr"}
Pointers == {"acl", "sub"}
Types    == Strings \cup Pointers \cup
              {"bool", "duration", "time", "blob", "ip", "probe", "backend"}

\* must_be_optional, and the strings that are Option.
MustBeOptional == {"backend", "ip", "probe"}
Optional       == MustBeOptional \cup {"opt_str", "opt_cstr"}

\* The classes of values that are named by a string.
Named == {"empty", "text", "latin1", "lossy", "nul_inside", "nul_last", "bytes", "it", "0", "1",
          "2", "minus", "zero", "plus", "huge", "nan", "v4", "v6", "unix"}

\* A vrt_backend_probe; the other numbers in it go the way of the window.
RawProbe == [url : {NULL, "text", "latin1", "lossy"}, request : {NULL, "text", "latin1", "lossy"},
             window : 0..1, threshold : 0..1]

\* What VCL may pass for an argument of the type.
VclValues(ty) ==
  {ABSENT : t \in {ty} \cap Optional} \cup
  CASE ty \in Strings               -> {NULL, "empty", "text", "latin1"}
    [] ty \in Pointers              -> {NULL, "it"}
    [] ty = "backend"               -> {NULL, "it"}
    [] ty = "bool"                  -> {"0", "1", "2"}
    [] ty \in {"duration", "time"}  -> {"minus", "zero", "plus", "huge", "nan"}
    [] ty = "blob"                  -> {NULL, "empty", "bytes"}
    [] ty = "ip"                    -> {NULL, "v4", "v6", "unix"}
    [] ty = "probe"                 ->
         {NULL} \cup {p \in RawProbe : /\ p.url # "lossy" /\ p.request # "lossy"
                                       /\ p.url = NULL \/ p.request = NULL
                                       /\ p.window = 1}

\* A Probe: one of two requests.
Probe(url, text, p) == [url |-> url, text |-> text, window |-> p.window, threshold |-> p.threshold]

\* What a function may make up.
RustValues(ty) ==
  CASE ty \in {"opt_str"}           -> {NULL, "empty", "text", "nul_inside", "nul_last"}
    [] ty \in {"opt_cstr"}          -> {NULL, "empty", "text", "latin1"}
    [] ty = "str"                   -> {"empty", "text", "nul_inside", "nul_last"}
    [] ty = "cstr"                  -> {"empty", "text", "latin1"}
    [] ty = "backend"               -> {NULL, "it"}
    [] ty \in Pointers              -> {"it"}
    [] ty = "bool"                  -> {"0", "1"}
    [] ty = "duration"              -> {"zero", "plus"}
    [] ty = "time"                  -> {"minus", "zero", "plus"}
    [] ty = "blob"                  -> {"empty", "bytes"}
    [] ty = "ip"                    -> {"v4", "v6"}
    [] ty = "probe"                 ->
         {Probe(u, t, p) : u \in BOOLEAN, t \in {"text", "nul_inside"},
                           p \in [window : {1}, threshold : 0..1]}

Ok(v)    == [out |-> "ok", val |-> v]
Err      == [out |-> "err", val |-> NULL]     \* the `?' of the wrapper
Abort    == [out |-> "abort", val |-> NULL]   \* a panic in an extern "C" function

-----------------------------------------------------------------------------
(* From VCL.                                                                *)

\* Option<&CStr>, and &CStr, for which null is an empty string.
CStr(v) == IF v = NULL THEN "empty" ELSE v

\* &str, and Option<&str>: a text that is not UTF-8 is an error.
Str(ty, v) == IF v = "latin1" THEN Err ELSE Ok(IF ty = "str" THEN CStr(v) ELSE v)

\* Duration::from_secs_f64 panics on what is not the length of a time.
Duration(v) == IF v \in {"minus", "huge", "nan"} THEN Abort ELSE Ok(v)

\* SystemTime: what is not a time is the epoch.
SystemTime(v) == IF v \in {"huge", "nan"} THEN "zero" ELSE v

\* Option<SocketAddr>: only addresses of IPv4 and IPv6.
SocketAddr(v) == IF v \in {"v4", "v6"} THEN v ELSE NULL

\* &[u8]: null is an empty slice.
Bytes(v) == IF v = NULL THEN "empty" ELSE v

\* from_str of probe.rs.
Lossy(text) == IF text = "latin1" THEN "lossy" ELSE text

FromVclProbe(v) ==
  IF v = NULL THEN Ok(NULL)
  ELSE IF (v.url = NULL) = (v.request = NULL) THEN Abort
  ELSE IF v.url = NULL THEN Ok(Probe(FALSE, Lossy(v.request), v))
                       ELSE Ok(Probe(TRUE, Lossy(v.url), v))

\* Types for which ParamTy::use_try_from holds, with the Option around them.
UseTryFrom == {"str", "opt_str"}

\* An optional argument that is not valid is None before any conversion.
FromVcl(ty, v) ==
  IF v = ABSENT THEN Ok(NULL) ELSE
  CASE ty \in UseTryFrom -> Str(ty, v)
    [] ty = "opt_cstr"   -> Ok(v)
    [] ty = "cstr"       -> Ok(CStr(v))
    [] ty \in Pointers   -> IF v = NULL THEN Abort ELSE Ok(v)
    [] ty = "backend"    -> Ok(v)
    [] ty = "bool"       -> Ok(IF v = "0" THEN "0" ELSE "1")
    [] ty = "duration"   -> Duration(v)
    [] ty = "time"       -> Ok(SystemTime(v))
    [] ty = "blob"       -> Ok(Bytes(v))
    [] ty = "ip"         -> Ok(SocketAddr(v))
    [] ty = "probe"      -> FromVclProbe(v)

-----------------------------------------------------------------------------
(* Into VCL, with room for so many allocations in the workspace.            *)

Made(result, used) == [out |-> result.out, val |-> result.val, used |-> used]

\* Mutation: a NUL ends the text, wherever it is.
CopyTextMut(s, room) ==
  IF room = 0 THEN Made(Err, 0)
  ELSE Made(Ok(IF s = "nul_inside" THEN "empty" ELSE IF s = "nul_last" THEN "text" ELSE s), 1)

\* copy_bytes_with_null: a last NUL is the terminator, any other is refused.
CopyText(s, room) ==
  IF s = "nul_inside" \/ room = 0 THEN Made(Err, 0)
  ELSE Made(Ok(IF s = "nul_last" THEN "text" ELSE s), 1)

\* SystemTime before the epoch has no VCL_TIME.
IntoVclTime(r) == Made(IF r = "minus" THEN Err ELSE Ok(r), 0)

\* A suckaddr in the workspace.
IntoVclIp(r, room) == IF room = 0 THEN Made(Err, 0) ELSE Made(Ok(r), 1)

\* copy_blob: the bytes, of which there must be one, then the struct.
CopyBlob(r, room) ==
  IF r = "empty" \/ room = 0 THEN Made(Err, 0)
  ELSE IF room = 1 THEN Made(Err, 1)
  ELSE Made(Ok(r), 2)

\* into_vcl_probe: the struct, then the text.  The threshold is not copied.
IntoVclProbe(r, room) ==
  IF room = 0 THEN Made(Err, 0)
  ELSE LET text == CopyText(r.text, room - 1)
           Filled(url, request) == [url |-> url, request |-> request,
                                    window |-> r.window, threshold |-> 0]
       IN IF text.out = "err" THEN Made(Err, 1)
          ELSE Made(Ok(IF r.url THEN Filled(text.val, NULL) ELSE Filled(NULL, text.val)), 2)

\* &str, &CStr, String and an Option of them; a number or a pointer is copied.  A
\* function that returns a blob makes it itself, by copy_blob.
IntoVcl(ty, r, room) ==
  CASE ty \in Strings -> IF r = NULL THEN Made(Ok(NULL), 0) ELSE CopyText(r, room)
    [] ty = "time"    -> IntoVclTime(r)
    [] ty = "blob"    -> CopyBlob(r, room)
    [] ty = "ip"      -> IntoVclIp(r, room)
    [] ty = "probe"   -> IntoVclProbe(r, room)
    [] OTHER          -> Made(Ok(r), 0)

-----------------------------------------------------------------------------
(* The reference: what a value means, on either side.                       *)

\* A null string without Option is empty, every true bool is 1, a time that
\* is none is the epoch, a text is read as UTF-8.
Canonical(ty, v) ==
  IF v = ABSENT THEN NULL ELSE
  CASE ty \in {"str", "cstr"} -> IF v = NULL THEN "empty" ELSE v
    [] ty = "bool"            -> IF v = "2" THEN "1" ELSE v
    [] ty = "time"            -> IF v \in {"huge", "nan"} THEN "zero" ELSE v
    [] ty = "probe"           -> [v EXCEPT !.url = Lossy(@), !.request = Lossy(@)]
    [] OTHER                  -> v

\* Two probes with the same request and numbers, but for the threshold.
Alike(ty, a, b) ==
  IF ty = "probe" THEN [a EXCEPT !.threshold = 0] = [b EXCEPT !.threshold = 0] ELSE a = b

\* A function that returns its argument gives VCL what VCL gave it.
Echoes(ty, given, got) == Alike(ty, got, Canonical(ty, given))

\* What VCL got would be read back as the value that the function made.
ReadsBack(ty, made, got) ==
  LET back    == FromVcl(ty, got)
      ends    == ty \in Strings /\ made = "nul_last"   \* its NUL is the terminator
  IN back.out = "ok" /\ Alike(ty, back.val, IF ends THEN "text" ELSE made)
=============================================================================
