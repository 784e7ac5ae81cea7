------------------------------ MODULE Workspace ------------------------------
(***************************************************************************)
(* The per-task workspace of varnish-sys/src/vcl/ws.rs and the resizable   *)
(* buffers built on its tail (ws_str_buffer.rs).                           *)
(*                                                                         *)
(* A workspace is the bump allocator s <= f <= e: alloc moves `f' (the     *)
(* free pointer) up and never back, reserve_all takes all of f..e with the *)
(* mark `r', release keeps a prefix of it.  The allocator itself is C code *)
(* of varnishd; the crate describes it by the replacement its tests use,   *)
(* and that is what is modelled.                                           *)
(*                                                                         *)
(* Memory is an interval of addresses; `given' is the history of what was  *)
(* handed to callers in this task, with what is stored there.              *)
(***************************************************************************)
EXTENDS Integers, FiniteSets

CONSTANTS Base,       \* address of the workspace
          Size,       \* bytes asked for it
          Align,      \* alignment of a C pointer
          U32,        \* number of values of the u32 that WS_Alloc takes
          Kinds,      \* the builders: layout of item and suffix
          Lengths,    \* byte lengths callers pass
          Blob,       \* layout [size, align] of struct vrt_blob
          SharedUse,  \* do callers use the workspace while a builder is live?
          NULL

AlignUp(x, a)   == ((x + a - 1) \div a) * a
AlignDown(x, a) == (x \div a) * a

End == Base + AlignDown(Size, Align)

BuilderKind == [name : {"str", "blob", "temp"}, item : Nat \ {0}, ialign : Nat \ {0},
                suffix : Nat, salign : Nat \ {0}]

ASSUME LayoutAssumption ==
  /\ Base \in Nat /\ Size \in Nat /\ Align \in Nat \ {0} /\ U32 \in Nat \ {0}
  /\ AlignUp(Base, Align) = Base
  /\ Lengths \subseteq Nat
  /\ Blob \in [size : Nat \ {0}, align : Nat \ {0}]
  \* No member of a vrt_blob is aligned more strictly than a pointer.
  /\ AlignUp(Align, Blob.align) = Align
ASSUME KindsAssumption ==
  /\ \A k \in Kinds : /\ k \in BuilderKind
                      /\ k.name = "str" => k.suffix = 1 /\ k.salign = 1 /\ k.item = 1 /\ k.ialign = 1
                      /\ k.name = "blob" => k.suffix = Blob.size /\ k.salign = Blob.align
                                              /\ k.item = 1 /\ k.ialign = 1
                      /\ k.name = "temp" => k.suffix = 0 /\ k.salign = 1
ASSUME NullAssumption == NULL \notin Int /\ SharedUse \in BOOLEAN

VARIABLES f,        \* ws.f
          r,        \* ws.r
          builder,  \* the live WsBuffer: kind, start_items, unused pointer and length
          given,    \* what has been handed out in this task
          out       \* how the last call returned

vars == <<f, r, builder, given, out>>

Panics == {"alloc_zero", "reserve_busy", "used_overflow", "release_overrun"}
Errors == {"oom", "refused"}

\* start_items is null once a buffer is finished or dropped.
NoBuilder == [kind |-> NULL, start |-> NULL, pos |-> NULL, room |-> NULL]

\* A fresh workspace (TestWS::new; varnishd wipes it between tasks).
Init == /\ f = Base
        /\ r = NULL
        /\ builder = NoBuilder
        /\ given = {}
        /\ out = "ok"

Live   == builder.start # NULL
Usable == out \notin Panics /\ (Live => SharedUse)

Range(lo, hi, what) == IF lo < hi THEN {[lo |-> lo, hi |-> hi, what |-> what]} ELSE {}

-----------------------------------------------------------------------------
(* Allocation.                                                              *)

\* Mutation: the size is rounded down.
RoundUpMut(n) == AlignDown(n, Align)
RoundUp(n) == AlignUp(n, Align)

Fits(n) == RoundUp(n) <= End - f

AllocOutcome(n) == IF n = 0 THEN "alloc_zero" ELSE IF Fits(n) THEN "ok" ELSE "oom"

\* ws::alloc behind Workspace::allocate: the length is cast to u32 for the
\* allocator, which asserts that it is not zero, and used in full for the
\* slice that is returned.
Alloc(n) ==
  /\ out' = AllocOutcome(n % U32)
  /\ IF out' = "ok" THEN /\ f' = f + RoundUp(n % U32)
                         /\ given' = given \cup Range(f, f + n, "bytes")
                    ELSE UNCHANGED <<f, given>>
  /\ UNCHANGED <<r, builder>>

\* allocate, allocate_zeroed.
Allocate(n) == n > 0 /\ Usable /\ Alloc(n)

\* copy_bytes refuses the empty slice; copy_txt and copy_cstr go through it.
CopyBytes(n) ==
  /\ Usable
  /\ \/ n > 0 /\ Alloc(n)
     \/ n = 0 /\ out' = "refused" /\ UNCHANGED <<f, r, builder, given>>

\* copy_bytes_with_null: a NUL at the end is used, one anywhere else refused,
\* and without one a byte is added.
CopyWithNull(n, nul) ==
  /\ Usable
  /\ \/ nul = "last" /\ n > 0 /\ Alloc(n)
     \/ nul = "none" /\ Alloc(n + 1)
     \/ nul = "inside" /\ n > 1 /\ out' = "refused" /\ UNCHANGED <<f, r, builder, given>>

\* copy_blob: the bytes, then the struct vrt_blob; the second allocation may
\* fail when the first has been made.
CopyBlob(n) ==
  LET g == f + RoundUp(n) IN
  /\ Usable
  /\ 0 < n /\ n < U32
  /\ \/ /\ ~Fits(n)
        /\ out' = "oom"
        /\ UNCHANGED <<f, given>>
     \/ /\ Fits(n)
        /\ RoundUp(Blob.size) > End - g
        /\ f' = g
        /\ out' = "oom"
        /\ UNCHANGED given
     \/ /\ Fits(n)
        /\ RoundUp(Blob.size) <= End - g
        /\ f' = g + RoundUp(Blob.size)
        /\ given' = given \cup Range(f, f + n, "bytes")
                          \cup Range(g, g + Blob.size, "blob")
        /\ out' = "ok"
  /\ UNCHANGED <<r, builder>>

-----------------------------------------------------------------------------
(* Builders.                                                                *)

\* Bytes skipped so that the first item is aligned.
ItemsAlign(k) == AlignUp(f, k.ialign) - f

\* Bytes kept at the end for the suffix, wherever the data stops.
SuffixSize(k) == End - AlignDown(End - k.suffix, k.salign)

Required(k) == ItemsAlign(k) + (IF k.suffix > 0 THEN SuffixSize(k) ELSE k.item)

\* Mutation: no room is kept for the suffix.
CapacityMut(k) == (End - f - ItemsAlign(k)) \div k.item
\* Items that fit between the first one and the suffix.
Capacity(k) == (End - f - ItemsAlign(k) - SuffixSize(k)) \div k.item

\* WsBuffer::new: reserve_all, then the layout.  The early return when the
\* space is too small leaves the reservation in place.
NewBuilder(k) ==
  /\ Usable
  /\ UNCHANGED <<f, given>>
  /\ \/ /\ r # NULL
        /\ out' = "reserve_busy"
        /\ UNCHANGED <<r, builder>>
     \/ /\ r = NULL
        /\ r' = End
        /\ End - f < Required(k)
        /\ out' = "oom"
        /\ UNCHANGED builder
     \/ /\ r = NULL
        /\ r' = End
        /\ End - f >= Required(k)
        /\ builder' = [kind  |-> k, start |-> f + ItemsAlign(k),
                       pos |-> f + ItemsAlign(k), room |-> Capacity(k)]
        /\ out' = "ok"

Advance(n) == builder' = [builder EXCEPT !.pos = @ + n * builder.kind.item, !.room = @ - n]

\* Mutation: the comparison lets the last item run over the suffix.
ExtendMut(n) ==
  /\ Live /\ out \notin Panics
  /\ UNCHANGED <<f, r, given>>
  /\ \/ n > builder.room + 1 /\ out' = "oom" /\ UNCHANGED builder
     \/ n <= builder.room + 1 /\ Advance(n) /\ out' = "ok"

\* push (n = 1) and extend_from_slice: all of it or nothing.
Extend(n) ==
  /\ Live /\ out \notin Panics
  /\ UNCHANGED <<f, r, given>>
  /\ \/ n > builder.room /\ out' = "oom" /\ UNCHANGED builder
     \/ n <= builder.room /\ Advance(n) /\ out' = "ok"

\* io::Write for byte buffers: as much as fits is written, with no error.
Write(n) ==
  /\ Live /\ out \notin Panics
  /\ builder.kind.item = 1
  /\ Advance(IF n <= builder.room THEN n ELSE builder.room)
  /\ out' = "ok"
  /\ UNCHANGED <<f, r, given>>

\* Mutation: the suffix is written right after the data.
SuffixPtrMut(b) == b.pos
\* get_suffix_ptr: the first aligned place after the data.
SuffixPtr(b) == AlignUp(b.pos, b.kind.salign)

\* What finish() returns: the string starts at the workspace's free pointer,
\* the other two at start_items.  The vrt_blob is written without its magic.
Output(b) ==
  CASE b.kind.name = "str"  -> Range(f, b.pos + 1, "bytes")
    [] b.kind.name = "blob" -> Range(b.start, b.pos, "bytes")
         \cup Range(SuffixPtr(b), SuffixPtr(b) + b.kind.suffix, "unmarked_blob")
    [] b.kind.name = "temp" -> Range(b.start, b.pos, "bytes")

\* release(true): the checks on the number of bytes to keep.
ReleaseOutcome(b) ==
  CASE SuffixPtr(b) < f                    -> "used_overflow"
    [] SuffixPtr(b) + b.kind.suffix > End  -> "release_overrun"
    [] OTHER                               -> "ok"

\* finish(): what lies after the suffix is given back.
Finish ==
  /\ Live /\ out \notin Panics
  /\ out' = ReleaseOutcome(builder)
  /\ IF out' = "ok" THEN /\ f' = f + RoundUp(SuffixPtr(builder) + builder.kind.suffix - f)
                         /\ r' = NULL
                         /\ given' = given \cup Output(builder)
                    ELSE UNCHANGED <<f, r, given>>
  /\ builder' = NoBuilder

\* Drop: release(false) gives everything back.
Drop ==
  /\ Live /\ out \notin Panics
  /\ builder' = NoBuilder
  /\ r' = NULL
  /\ out' = "ok"
  /\ UNCHANGED <<f, given>>

\* The task ends and varnishd wipes the workspace; a panic ends the worker
\* process, whose successor starts with a fresh one.
TaskEnd ==
  /\ Live => out \in Panics
  /\ <<f, r, given, out>> # <<Base, NULL, {}, "ok">>
  /\ f' = Base /\ r' = NULL /\ builder' = NoBuilder /\ given' = {} /\ out' = "ok"

Next ==
  \/ \E n \in Lengths : \/ Allocate(n) \/ CopyBytes(n) \/ CopyBlob(n)
                        \/ Extend(n) \/ Write(n)
                        \/ \E nul \in {"none", "last", "inside"} : CopyWithNull(n, nul)
  \/ \E k \in Kinds : NewBuilder(k)
  \/ Finish \/ Drop \/ TaskEnd

Spec == Init /\ [][Next]_vars

-----------------------------------------------------------------------------
Region == [lo : Int, hi : Int, what : {"bytes", "blob", "unmarked_blob"}]

\* The type invariant.
TypeOK ==
  /\ f \in Base..End /\ AlignUp(f, Align) = f
  /\ r \in {NULL, End}
  /\ given \subseteq Region
  /\ out \in {"ok"} \cup Errors \cup Panics
  /\ ~Live => builder = NoBuilder
  /\ Live => builder \in [kind : Kinds, start : Int, pos : Int, room : Nat]

\* Nothing handed out in a task is handed out again, or reaches beyond the
\* workspace, or under a live builder: every range lies between the start
\* and the free pointer, and two of them never overlap.
GivenApart ==
  /\ \A g \in given : Base <= g.lo /\ g.hi <= f
  /\ \A g, h \in given : g = h \/ g.hi <= h.lo \/ h.hi <= g.lo

\* A live builder owns the tail: whatever it still accepts, the data starts
\* at or after the free pointer and the suffix fits before the end, so the
\* writes of push, Write and finish stay inside the reservation.
BuilderFits ==
  Live => /\ r = End
          /\ f <= builder.start /\ builder.start <= builder.pos
          /\ AlignUp(builder.pos + builder.room * builder.kind.item, builder.kind.salign)
               + builder.kind.suffix <= End

\* The assertions and the `expect's of release() never fire.
ReleaseSafe == out \notin {"used_overflow", "release_overrun"}

\* What a builder was given is what it uses, to the byte that release gives
\* back: neither its writes nor its end go past the reservation.
BuilderSafe == BuilderFits /\ ReleaseSafe

\* Every vrt_blob is stored where a vrt_blob may be stored.
BlobsAligned == \A g \in given : g.what # "bytes" => AlignUp(g.lo, Blob.align) = g.lo

\* ws.rs:69 asserts that nobody holds the reservation when a builder is made.
ReserveFree == out # "reserve_busy"
=============================================================================
