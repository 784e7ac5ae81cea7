------------------------------ MODULE MCRequest ------------------------------
(* One request: its body, and its headers.  The headers have three names, two *)
(* of which differ in case only; a first line in HTTP/1.1, and one text to    *)
(* set its fields to.                                                        *)
EXTENDS ReqBody, HttpHeaders, TLC
CONSTANTS ETag, etag, host, http11, text, v

MCFold == (ETag :> etag) @@ (etag :> etag) @@ (host :> host)
MCHeaders == {h \in [name : {ETag, etag, host}, value : {v}, weak : BOOLEAN] :
                h.weak => h.name = ETag}
MCVersion == (http11 :> 11) @@ (text :> 0)

\* Body and headers share no state, and each property is about one of them: one
\* of them moves while the other is at its start, and plain.
Bodyless == Init /\ total = 0 /\ status = "none"
Bare     == op = "none" /\ nhd = HDR_FIRST

RequestInit == Init /\ HttpInit /\ (Bodyless \/ Bare)

BodyStep   == Bare /\ Next /\ UNCHANGED httpVars
HeaderStep == Bodyless /\ HttpNext /\ UNCHANGED vars
Over       == context = "over" /\ UNCHANGED <<vars, httpVars>>

RequestSpec == RequestInit /\ [][BodyStep \/ HeaderStep \/ Over]_<<vars, httpVars>>
=============================================================================
