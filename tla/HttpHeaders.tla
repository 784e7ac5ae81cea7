----------------------------- MODULE HttpHeaders -----------------------------
(***************************************************************************)
(* An HTTP object as HttpHeaders (varnish-sys/src/vcl/http.rs) keeps it:   *)
(* in varnishd's arrays hd and hdf, numbered from 0.  The fields of the    *)
(* first line have the slots below HDR_FIRST, the headers those from       *)
(* HDR_FIRST to nhd - 1.                                                   *)
(***************************************************************************)
EXTENDS Naturals, Sequences

CONSTANTS Names, Fold, Etag, Headers, Old, Lines, Version, NULL,
          Room      \* how many headers there is room for

ASSUME RoomAssumption == Room \in Nat
ASSUME NamesAssumption == Etag \in Names /\ Fold \in [Names -> Names]
ASSUME HeadersAssumption ==
  \A h \in Headers : /\ h.name \in Names
                     /\ Fold[h.name] = Fold[Etag] =>
                          [name |-> Etag, value |-> h.value, weak |-> TRUE] \in Headers
ASSUME LinesAssumption == /\ NULL \notin Lines \cup {Old}
                          /\ Version \in [Lines \cup {Old} -> {0, 9, 10, 11, 20}]

HDR_FIRST == 5
Slot == [method |-> 0, url |-> 1, proto |-> 2, status |-> 3, reason |-> 4]
shd  == HDR_FIRST + Room

VARIABLES hd,        \* the text in each slot
          hdf,       \* its flags
          nhd,       \* how many slots are in use
          protover,  \* the version of the protocol
          op         \* history: the last method called

fields   == <<hd, hdf, nhd, protover>>
httpVars == <<hd, hdf, nhd, protover, op>>

\* field: what the accessors of the first line return, and None beyond nhd.
Field(f) == IF Slot[f] >= nhd THEN NULL ELSE hd[Slot[f]]

List == INSTANCE HeaderList WITH
          list <- [i \in 1..(nhd - HDR_FIRST) |->
                     [hdr |-> hd[HDR_FIRST + i - 1], flag |-> hdf[HDR_FIRST + i - 1]]],
          top  <- [f \in DOMAIN Slot |-> Field(f)],
          ver  <- protover

\* varnishd has parsed a request or a response.
HttpInit ==
  /\ nhd \in HDR_FIRST..shd
  /\ \E hs \in [HDR_FIRST..(nhd - 1) -> Headers],
        kind \in {List!Request, List!Response} :
       hd = [i \in 0..(shd - 1) |->
               CASE i \in {Slot[f] : f \in kind}  -> Old
                 [] HDR_FIRST <= i /\ i < nhd     -> hs[i]
                 [] OTHER                         -> NULL]
  /\ hdf = [i \in 0..(shd - 1) |-> 0]
  /\ protover = Version[Old]
  /\ op = "none"

-----------------------------------------------------------------------------
\* Mutation: the flags of the slot's last user stay.
ChangeKeepsFlag(idx, text) == hd' = [hd EXCEPT ![idx] = text] /\ UNCHANGED hdf

\* change_header, when the copy fits in the workspace.
Change(idx, text) == /\ hd' = [hd EXCEPT ![idx] = text]
                     /\ hdf' = [hdf EXCEPT ![idx] = 0]

\* set_url, set_reason and set_proto, which updates protover before it tries.
SetField ==
  /\ op' = "field"
  /\ \E f \in {"url", "proto", "reason"}, line \in Lines :
       /\ protover' = IF f = "proto" THEN Version[line] ELSE protover
       /\ Change(Slot[f], line) \/ UNCHANGED <<hd, hdf>>
  /\ UNCHANGED nhd

\* set_status: http_SetStatus without a reason takes the one of the status.
SetStatus ==
  /\ op' = "status"
  /\ \E line \in Lines : hd' = [hd EXCEPT ![Slot.status] = line, ![Slot.reason] = line]
  /\ UNCHANGED <<hdf, nhd, protover>>

\* Mutation: no check for a free slot.
SetRawUnchecked(h) == Change(nhd, h) /\ nhd' = nhd + 1

\* set_header_raw: an error if there is no slot or the copy does not fit in the
\* workspace, for which the count that went up goes down again.
SetRaw(h) ==
  \/ nhd < shd /\ Change(nhd, h) /\ nhd' = nhd + 1
  \/ UNCHANGED <<hd, hdf, nhd>>

SetHeader == /\ op' = "set"
             /\ \E h \in Headers : SetRaw(h)
             /\ UNCHANGED protover

-----------------------------------------------------------------------------
(* unset_header moves what it keeps towards the front, in place: the loop    *)
(* body over slot i, from the arrays and the number kept so far.            *)

Keep(s, i) == [s EXCEPT !.hd[HDR_FIRST + s.kept] = s.hd[i],
                        !.hdf[HDR_FIRST + s.kept] = s.hdf[i],
                        !.kept = @ + 1]

\* After the slots below i.
UnsetLoop(name) ==
  LET loop[i \in HDR_FIRST..nhd] ==
        IF i = HDR_FIRST THEN [hd |-> hd, hdf |-> hdf, kept |-> 0]
        ELSE IF List!Same(loop[i - 1].hd[i - 1], name) THEN loop[i - 1]
        ELSE Keep(loop[i - 1], i - 1)
  IN loop[nhd]

UnsetHeader ==
  /\ op' = "unset"
  /\ \E name \in Names : LET s == UnsetLoop(name)
                         IN hd' = s.hd /\ hdf' = s.hdf /\ nhd' = HDR_FIRST + s.kept
  /\ UNCHANGED protover

-----------------------------------------------------------------------------
\* iter and header: the slots that match, of which the first is returned.
Matches(name) == {i \in HDR_FIRST..(nhd - 1) : List!Same(hd[i], name)}
Header(name)  == hd[CHOOSE i \in Matches(name) : \A j \in Matches(name) : i <= j]

\* weaken_etag: nothing to do for an absent or a weak ETag; else all ETag headers
\* are removed and the weak one is set, for which the slot is there and the
\* memory may not be: then they are gone.
Replace == LET s == UnsetLoop(Etag)
               h == [name |-> Etag, value |-> Header(Etag).value, weak |-> TRUE]
               idx == HDR_FIRST + s.kept
           IN \/ /\ hd' = [s.hd EXCEPT ![idx] = h]
                 /\ hdf' = [s.hdf EXCEPT ![idx] = 0]
                 /\ nhd' = idx + 1
              \/ hd' = s.hd /\ hdf' = s.hdf /\ nhd' = idx

WeakenEtag == /\ op' = "weaken"
              /\ IF Matches(Etag) # {} /\ ~Header(Etag).weak
                   THEN Replace ELSE UNCHANGED <<hd, hdf, nhd>>
              /\ UNCHANGED protover

\* External: varnishd flags a header.
Mark == /\ op' = "mark"
        /\ \E i \in HDR_FIRST..(nhd - 1) : hdf' = [hdf EXCEPT ![i] = 1]
        /\ UNCHANGED <<hd, nhd, protover>>

HttpNext == SetField \/ SetStatus \/ SetHeader \/ UnsetHeader \/ WeakenEtag \/ Mark

HttpSpec == HttpInit /\ [][HttpNext]_httpVars

-----------------------------------------------------------------------------
\* The type invariant: the slots of headers hold headers, and nhd never goes
\* below the first line, which change_header and unset_header assert.
HttpTypeOK ==
  /\ nhd \in HDR_FIRST..shd
  /\ hdf \in [0..(shd - 1) -> {0, 1}]
  /\ hd \in [0..(shd - 1) -> Headers \cup Lines \cup {Old, NULL}]
  /\ \A i \in 0..(HDR_FIRST - 1) : hd[i] \in Lines \cup {Old, NULL}
  /\ \A i \in HDR_FIRST..(nhd - 1) : hd[i] \in Headers
  /\ \A i \in nhd..(shd - 1) : hd[i] \in Headers \cup {NULL}
  /\ protover \in {0, 9, 10, 11, 20}

\* The arrays implement the first line and the list: order is kept, every match
\* goes and nothing else, a flag stays with its header, headers and first line
\* do not touch each other, and an error of set changes nothing.
ImplementsList == List!Spec
=============================================================================
