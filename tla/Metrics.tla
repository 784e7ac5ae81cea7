-------------------------------- MODULE Metrics --------------------------------
(***************************************************************************)
(* Counters of a vmod, from one end to the other: #[derive(VscMetric)]     *)
(* describes the fields of a struct (varnish-macros/src/metrics.rs), Vsc   *)
(* puts one into a shared memory segment                                   *)
(* (varnish/src/metrics_publisher.rs), threads of varnishd change it, and  *)
(* a MetricsReader in another process (varnish/src/metrics_reader.rs)      *)
(* keeps a map of the points that libvarnishapi adds and deletes through   *)
(* callbacks, under keys that are addresses.                               *)
(***************************************************************************)
EXTENDS Integers, Sequences

CONSTANTS Declared, \* the fields of the struct, as declared
          Sorted,   \* the same, by name
          Kind,     \* "counter", "gauge" or "bitmap", for each field
          Segs,     \* segments, over time
          Bases,    \* addresses of the arrays of points of the reader's library
          Half,     \* the first value that an i64 cannot hold, half the range of a u64
          Bound,    \* how far a counter or a gauge goes from zero
          Stored,   \* the words that are put into a bitmap
          NULL

Fields == {Declared[i] : i \in DOMAIN Declared}

ASSUME FieldsAssumption ==
  /\ Declared \in Seq(Fields) /\ Sorted \in Seq(Fields) /\ Len(Declared) = Len(Sorted)
  /\ \A i, j \in DOMAIN Declared : (Declared[i] = Declared[j] \/ Sorted[i] = Sorted[j]) => i = j
  /\ Kind \in [Fields -> {"counter", "gauge", "bitmap"}]
ASSUME HalfAssumption == Half \in Nat /\ Bound \in Nat /\ Bound < Half
ASSUME StoredAssumption == Stored \subseteq 0..(2 * Half - 1)
ASSUME NullAssumption == NULL \notin Bases

VARIABLES shm,       \* the state of each segment
          mem,       \* its words, by offset
          net,       \* history: the sum of what was added to each field, and the
                     \* word that was put into a bitmap last
          phase,     \* of the reader's life
          vsc, vsm,  \* its handles: live, NULL in a builder, or destroyed
          internal,  \* its Box<MetricsReaderImpl>, that the callbacks write to
          mapped,    \* the address of the points of each segment it has mapped
          fresh,     \* the segments that this update has mapped
          points,    \* the map, by key
          added, deleted,
          seen,      \* the segment that a client who follows update takes a key for
          faults     \* failed assertions, and memory used after it was freed

writer == <<shm, mem, net>>
reader == <<phase, vsc, vsm, internal, mapped, fresh, points, added, deleted, seen, faults>>
metricsVars   == <<writer, reader>>

-----------------------------------------------------------------------------
(* The publisher.                                                           *)

WordSize == 8
Position(f) == CHOOSE i \in DOMAIN Declared : Declared[i] = f

\* rustc lays out a #[repr(C)] struct of AtomicU64s in the order of declaration.
Offset(f) == WordSize * (Position(f) - 1)
Offsets   == {Offset(f) : f \in Fields}

\* Mutation: the index is counted in the order of the BTreeMap.
IndexSorted(f) == WordSize * ((CHOOSE i \in DOMAIN Sorted : Sorted[i] = f) - 1)

\* generate_metrics: the index adds up the sizes of the fields before it.
Index(f) ==
  LET offset[i \in 1..Len(Declared)] == IF i = 1 THEN 0 ELSE offset[i - 1] + WordSize
  IN offset[Position(f)]

\* Vsc::new: VRT_VSC_Alloc with the size and the metadata of the struct.
Publish(s) ==
  /\ shm[s] = "none"
  /\ shm' = [shm EXCEPT ![s] = "live"]
  /\ mem' = [mem EXCEPT ![s] = [o \in Offsets |-> 0]]
  /\ UNCHANGED <<net, reader>>

\* Mutation: a value that does not wrap.
ChangeSigned(s, f, n) ==
  /\ shm[s] = "live" /\ Kind[f] # "bitmap"
  /\ net[s][f] + n \in -Bound..Bound
  /\ net' = [net EXCEPT ![s][f] = @ + n]
  /\ mem' = [mem EXCEPT ![s][Offset(f)] = @ + n]
  /\ UNCHANGED <<shm, reader>>

\* fetch_add and fetch_sub of a field, through Deref: they wrap.
Change(s, f, n) ==
  /\ shm[s] = "live" /\ Kind[f] # "bitmap"
  /\ Kind[f] = "counter" => n > 0
  /\ net[s][f] + n \in -Bound..Bound
  /\ net' = [net EXCEPT ![s][f] = @ + n]
  /\ mem' = [mem EXCEPT ![s][Offset(f)] = (@ + n) % (2 * Half)]
  /\ UNCHANGED <<shm, reader>>

\* store, fetch_or or fetch_and of a bitmap, through Deref: any word, the top bit
\* included.
Words == 0..(2 * Half - 1)

Store(s, f, w) ==
  /\ shm[s] = "live" /\ Kind[f] = "bitmap"
  /\ net' = [net EXCEPT ![s][f] = w]
  /\ mem' = [mem EXCEPT ![s][Offset(f)] = w]
  /\ UNCHANGED <<shm, reader>>

\* Drop for Vsc: VRT_VSC_Destroy.
Retire(s) ==
  /\ shm[s] = "live"
  /\ shm' = [shm EXCEPT ![s] = "gone"]
  /\ UNCHANGED <<mem, net, reader>>

-----------------------------------------------------------------------------
(* The callbacks.  A key is the address of a VSC_point, in an array that the *)
(* library allocates for a segment when it maps it.                         *)

Keys(base) == {<<base, f>> : f \in Fields}
AllKeys    == UNION {Keys(base) : base \in Bases}

\* The code of the metadata, and the variant it is read as.
Code(f) == CASE Kind[f] = "counter" -> "c" [] Kind[f] = "gauge" -> "g" [] OTHER -> "b"
Semantics(c) == CASE c = "c" -> "counter" [] c = "g" -> "gauge" [] c = "b" -> "bitmap"
                  [] OTHER -> "unknown"

Metric(s, f) == [seg |-> s, index |-> Index(f), semantics |-> Semantics(Code(f))]

Uses == IF internal = "live" THEN {} ELSE {"internal"}

\* add_point, for the points of s.
AddPoints(s, base) ==
  /\ points' = [k \in DOMAIN points \cup Keys(base) |->
                  IF k \in Keys(base) THEN Metric(s, k[2]) ELSE points[k]]
  /\ added' = added \cup Keys(base)
  /\ faults' = faults \cup Uses \cup
                 (IF Keys(base) \cap DOMAIN points = {} THEN {} ELSE {"assert"})

\* Mutation: the key is removed, and not noted.
DelPointsQuietly(base) ==
  /\ points' = [k \in DOMAIN points \ Keys(base) |-> points[k]]
  /\ UNCHANGED deleted
  /\ faults' = faults \cup Uses \cup (IF Keys(base) \subseteq DOMAIN points THEN {} ELSE {"assert"})

\* del_point, for the points of one segment.
DelPoints(base) ==
  /\ points' = [k \in DOMAIN points \ Keys(base) |-> points[k]]
  /\ deleted' = deleted \cup Keys(base)
  /\ faults' = faults \cup Uses \cup (IF Keys(base) \subseteq DOMAIN points THEN {} ELSE {"assert"})

-----------------------------------------------------------------------------
(* The reader.                                                              *)

\* Mutation: the handles stay in the builder, whose drop destroys them.
BuildKeeps ==
  /\ phase = "builder"
  /\ phase' = "idle"
  /\ vsc' = "destroyed"
  /\ UNCHANGED <<writer, vsm, internal, mapped, fresh, points, added, deleted, seen, faults>>

\* build, when VSM_Attach succeeds: the handles move to the reader, and the drop
\* of the builder finds two null pointers.
Build ==
  /\ phase = "builder"
  /\ phase' = "idle"
  /\ UNCHANGED <<writer, vsc, vsm, internal, mapped, fresh, points, added, deleted, seen, faults>>

\* build, when it fails, and drop of a builder that was not used: VSC_Destroy.
BuilderDropped ==
  /\ phase = "builder"
  /\ phase' = "gone"
  /\ vsc' = "destroyed"
  /\ UNCHANGED <<writer, vsm, internal, mapped, fresh, points, added, deleted, seen, faults>>

\* update calls VSC_Iter,
Update ==
  /\ phase = "idle"
  /\ phase' = "iter"
  /\ faults' = faults \cup (IF vsc = "live" /\ vsm = "live" THEN {} ELSE {"handle"})
  /\ UNCHANGED <<writer, vsc, vsm, internal, mapped, fresh, points, added, deleted, seen>>

\* which walks over the segments: one that is gone is unmapped and its array
\* freed, a new one is mapped with an array at a free address.  A change that
\* comes after the walk has passed waits for the next update.
Unmap(s) ==
  /\ phase = "iter" /\ shm[s] = "gone"
  /\ mapped[s] # NULL /\ s \notin fresh
  /\ DelPoints(mapped[s])
  /\ mapped' = [mapped EXCEPT ![s] = NULL]
  /\ UNCHANGED <<writer, phase, vsc, vsm, internal, fresh, added, seen>>

Map(s, base) ==
  /\ phase = "iter" /\ shm[s] = "live"
  /\ mapped[s] = NULL
  /\ \A other \in Segs : mapped[other] # base
  /\ AddPoints(s, base)
  /\ mapped' = [mapped EXCEPT ![s] = base]
  /\ fresh' = fresh \cup {s}
  /\ UNCHANGED <<writer, phase, vsc, vsm, internal, deleted, seen>>

\* The client drops the deleted keys and then enters the added ones, as the
\* comment of update has it: "if a key appears in both Vecs, the statistic got
\* replaced".
Follow(add, del) ==
  [k \in (DOMAIN seen \ del) \cup add |->
     IF k \in add THEN (IF k \in DOMAIN points THEN points[k].seg ELSE NULL) ELSE seen[k]]

\* Mutation: the deletions stay for the next update.
UpdateEndKeeps ==
  /\ phase = "iter"
  /\ phase' = "idle"
  /\ seen' = Follow(added, deleted)
  /\ added' = {} /\ fresh' = {}
  /\ UNCHANGED <<writer, vsc, vsm, internal, mapped, points, deleted, faults>>

\* update takes the two vectors and returns them.
UpdateEnd ==
  /\ phase = "iter"
  /\ phase' = "idle"
  /\ seen' = Follow(added, deleted)
  /\ added' = {} /\ deleted' = {} /\ fresh' = {}
  /\ UNCHANGED <<writer, vsc, vsm, internal, mapped, points, faults>>

\* Mutation: the fields of the reader are dropped first.
DropFieldsFirst ==
  /\ phase = "idle"
  /\ phase' = "drop"
  /\ internal' = "freed"
  /\ UNCHANGED <<writer, vsc, vsm, mapped, fresh, points, added, deleted, seen, faults>>

\* Drop for MetricsReader: VSC_Destroy,
Drop ==
  /\ phase = "idle"
  /\ phase' = "drop"
  /\ faults' = faults \cup (IF vsc = "live" /\ vsm = "live" THEN {} ELSE {"handle"})
  /\ UNCHANGED <<writer, vsc, vsm, internal, mapped, fresh, points, added, deleted, seen>>

\* which unmaps every segment,
DropUnmap(s) ==
  /\ phase = "drop" /\ mapped[s] # NULL
  /\ DelPoints(mapped[s])
  /\ mapped' = [mapped EXCEPT ![s] = NULL]
  /\ UNCHANGED <<writer, phase, vsc, vsm, internal, fresh, added, seen>>

\* and then the fields.  No code destroys the vsm.
Dropped ==
  /\ phase = "drop"
  /\ \A s \in Segs : mapped[s] = NULL
  /\ phase' = "gone"
  /\ vsc' = "destroyed"
  /\ internal' = "freed"
  /\ UNCHANGED <<writer, vsm, mapped, fresh, points, added, deleted, seen, faults>>

-----------------------------------------------------------------------------
MetricsInit ==
  /\ shm = [s \in Segs |-> "none"]
  /\ mem = [s \in Segs |-> [o \in Offsets |-> 0]]
  /\ net = [s \in Segs |-> [f \in Fields |-> 0]]
  /\ phase = "builder"
  /\ vsc = "live" /\ vsm = "live" /\ internal = "live"
  /\ mapped = [s \in Segs |-> NULL]
  /\ fresh = {}
  /\ points = <<>>
  /\ added = {} /\ deleted = {}
  /\ seen = <<>>
  /\ faults = {}

MetricsNext ==
  \/ \E s \in Segs : Publish(s) \/ Retire(s)
  \/ \E s \in Segs, f \in Fields, n \in {-1, 1} : Change(s, f, n)
  \/ \E s \in Segs, f \in Fields, w \in Stored : Store(s, f, w)
  \/ Build \/ BuilderDropped \/ Update \/ UpdateEnd \/ Drop \/ Dropped
  \/ \E s \in Segs : Unmap(s) \/ DropUnmap(s) \/ \E base \in Bases : Map(s, base)

MetricsSpec == MetricsInit /\ [][MetricsNext]_metricsVars

-----------------------------------------------------------------------------
\* get_raw_value, and get_clamped_value: 0 for what does not fit in an i64.
Raw(p)     == mem[p.seg][p.index]
Clamped(p) == IF Raw(p) < Half THEN Raw(p) ELSE 0

Values(f)  == IF Kind[f] = "bitmap" THEN Words ELSE -Bound..Bound

\* The type invariant.
MetricsTypeOK ==
  /\ shm \in [Segs -> {"none", "live", "gone"}]
  /\ mem \in [Segs -> [Offsets -> Words]]
  /\ net \in [Segs -> [Fields -> Int]] /\ \A s \in Segs, f \in Fields : net[s][f] \in Values(f)
  /\ phase \in {"builder", "idle", "iter", "drop", "gone"}
  /\ vsc \in {"live", "destroyed"} /\ vsm = "live"
  /\ internal \in {"live", "freed"}
  /\ mapped \in [Segs -> Bases \cup {NULL}]
  /\ fresh \subseteq Segs
  /\ added \subseteq AllKeys /\ deleted \subseteq AllKeys
  /\ DOMAIN points \subseteq AllKeys /\ DOMAIN seen \subseteq AllKeys
  /\ \A k \in DOMAIN points : points[k] \in
       [seg : Segs, index : Offsets, semantics : {"counter", "gauge", "bitmap"}]
  /\ faults \subseteq {"assert", "handle", "internal"}

\* The map has a point for each field of each segment that the library has
\* mapped, under its address, and nothing else: no assertion of the callbacks
\* fails when addresses come back, and neither handles nor the map are used after
\* they are gone, in the drop of a reader with points included.
PointsExact ==
  /\ \A s \in Segs : mapped[s] # NULL =>
       \A k \in Keys(mapped[s]) : k \in DOMAIN points /\ points[k].seg = s
  /\ DOMAIN points = UNION {Keys(mapped[s]) : s \in {t \in Segs : mapped[t] # NULL}}
  /\ faults = {}

\* A client that follows the two vectors of every update knows what each key
\* stands for, although keys are reused and the vectors say nothing of the order
\* in which keys came and went.
ClientExact == phase = "idle" => seen = [k \in DOMAIN points |-> points[k].seg]

\* What the reader shows under the name of a field is that field's value, while
\* the segment is there: the clamped value of a counter or a gauge, with 0 for a
\* gauge that is below 0 for the moment, and the raw value of a bitmap.
ValuesRight ==
  \A k \in DOMAIN points :
    LET n == net[points[k].seg][k[2]] IN
    /\ points[k].semantics = Kind[k[2]]
    /\ IF Kind[k[2]] = "bitmap" THEN Raw(points[k]) = n
       ELSE Clamped(points[k]) = IF n < 0 THEN 0 ELSE n
=============================================================================
