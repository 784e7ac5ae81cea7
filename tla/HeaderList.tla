------------------------------ MODULE HeaderList ------------------------------
(***************************************************************************)
(* What HttpHeaders (varnish-sys/src/vcl/http.rs) promises about an HTTP   *)
(* object, in the words of its methods: the fields of its first line, and  *)
(* an ordered list of headers, each with the flag that varnishd keeps for  *)
(* it.  There are no slots here, no copies and no compaction.              *)
(***************************************************************************)
EXTENDS Naturals, Sequences

CONSTANTS Names,    \* header names, as written
          Fold,     \* Fold[n] is n in lower case
          Etag,     \* the name "ETag"
          Headers,  \* headers: a name, a value, and whether it starts with W/
          Old,      \* what a field of the first line holds at first
          Lines,    \* what it is set to
          Version,  \* the protover of each: 9, 10, 11, 20, or 0 for another text
          NULL

Entry(h) == [hdr |-> h, flag |-> 0]
Same(h, name) == Fold[h.name] = Fold[name]

Request  == {"method", "url", "proto"}
Response == {"proto", "status", "reason"}
Fields   == Request \cup Response

VARIABLES list, top, ver, op   \* op: the last method called

Init == /\ list \in Seq({Entry(h) : h \in Headers})
        /\ \E kind \in {Request, Response} :
             top = [f \in Fields |-> IF f \in kind THEN Old ELSE NULL]
        /\ ver = Version[Old]
        /\ op = "none"

\* "Set the URL", "Set prototype", "Set reason"; "The new value must fit in the
\* underlying Varnish workspace; otherwise an error is returned", and protover
\* has changed all the same.
SetField(f, line) ==
  /\ op' = "field"
  /\ f \in {"url", "proto", "reason"}
  /\ top' \in {[top EXCEPT ![f] = line], top}
  /\ ver' = IF f = "proto" THEN Version[line] ELSE ver
  /\ UNCHANGED list

\* "Set the response status, it will also set the reason"
SetStatus(line) ==
  /\ op' = "status"
  /\ top' = [top EXCEPT !["status"] = line, !["reason"] = line]
  /\ UNCHANGED <<list, ver>>

\* "Append a new header using name and value. This can fail if we run out of
\* internal slots to store the new header"
Set(h) == op' = "set" /\ list' \in {Append(list, Entry(h)), list} /\ UNCHANGED <<top, ver>>

\* "Remove all headers matching name (case-insensitive). No-op if the header is
\* absent."
Without(name) ==
  LET kept[i \in 0..Len(list)] ==
        IF i = 0 THEN <<>>
        ELSE IF Same(list[i].hdr, name) THEN kept[i - 1]
        ELSE Append(kept[i - 1], list[i])
  IN kept[Len(list)]
Unset(name) == op' = "unset" /\ list' = Without(name) /\ UNCHANGED <<top, ver>>

\* "if the ETag header exists and does not already start with W/, it is replaced
\* with W/<original-value>"; the first one counts.  On an error they are gone.
Etags == {i \in DOMAIN list : Same(list[i].hdr, Etag)}
First == list[CHOOSE i \in Etags : \A j \in Etags : i <= j].hdr
Weak  == [name |-> Etag, value |-> First.value, weak |-> TRUE]
Weaken ==
  /\ op' = "weaken"
  /\ IF Etags # {} /\ ~First.weak
       THEN list' \in {Append(Without(Etag), Entry(Weak)), Without(Etag)}
       ELSE UNCHANGED list
  /\ UNCHANGED <<top, ver>>

\* varnishd flags a header.
Mark == /\ op' = "mark"
        /\ \E i \in DOMAIN list : list' = [list EXCEPT ![i].flag = 1]
        /\ UNCHANGED <<top, ver>>

Next == \/ \E h \in Headers : Set(h)
        \/ \E n \in Names : Unset(n)
        \/ \E line \in Lines : SetStatus(line) \/ \E f \in Fields : SetField(f, line)
        \/ Weaken \/ Mark

Spec == Init /\ [][Next]_<<list, top, ver, op>>
=============================================================================
