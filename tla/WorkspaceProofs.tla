--------------------------- MODULE WorkspaceProofs ---------------------------
(***************************************************************************)
(* Whatever the size and the alignment of the workspace, the layout of the *)
(* items and the lengths asked for, nothing in a workspace is handed out   *)
(* twice and a live builder stays inside its reservation, as long as no    *)
(* length exceeds a u32 and nobody uses the workspace under a builder.     *)
(***************************************************************************)
EXTENDS Workspace, TLAPS

-----------------------------------------------------------------------------
(* Alignment.                                                               *)

\* Integer division, as the quotient and its bounds.
LEMMA Quotient ==
  ASSUME NEW x \in Int, NEW a \in Nat \ {0}
  PROVE  /\ x \div a \in Int
         /\ (x \div a) * a <= x
         /\ x < (x \div a) * a + a
OBVIOUS

\* Multiples of a are ordered as their factors.
LEMMA FactorOrder ==
  ASSUME NEW p \in Int, NEW q \in Int, NEW a \in Nat \ {0}, p * a < q * a + a
  PROVE  p <= q
OBVIOUS

Multiple(x, a) == \E q \in Int : x = q * a

\* Being a fixed point of AlignUp is being a multiple.
LEMMA AlignedIsMultiple ==
  ASSUME NEW x \in Int, NEW a \in Nat \ {0}
  PROVE  AlignUp(x, a) = x <=> Multiple(x, a)
<1>1. ASSUME AlignUp(x, a) = x PROVE Multiple(x, a)
  BY <1>1, Quotient DEF AlignUp, Multiple
<1>2. ASSUME NEW q \in Int, x = q * a PROVE AlignUp(x, a) = x
  <2> DEFINE p == (x + a - 1) \div a
  <2>1. p \in Int /\ p * a <= x + a - 1 /\ x + a - 1 < p * a + a
    BY Quotient
  <2> HIDE DEF p
  <2>2. p <= q
    BY <1>2, <2>1, FactorOrder
  <2>3. q <= p
    BY <1>2, <2>1, FactorOrder
  <2> QED
    BY <1>2, <2>2, <2>3, <2>1 DEF AlignUp, p
<1> QED
  BY <1>1, <1>2 DEF Multiple

\* AlignUp is the least multiple at or above, AlignDown the greatest at or below.
LEMMA AlignUpType ==
  ASSUME NEW x \in Int, NEW a \in Nat \ {0}
  PROVE  /\ AlignUp(x, a) \in Int
         /\ x <= AlignUp(x, a)
         /\ Multiple(AlignUp(x, a), a)
<1> DEFINE q == (x + a - 1) \div a
<1>1. q \in Int /\ x + a - 1 < q * a + a
  BY Quotient
<1> HIDE DEF q
<1>2. AlignUp(x, a) = q * a
  BY DEF AlignUp, q
<1>3. q * a \in Int
  BY <1>1
<1> QED
  BY <1>1, <1>2, <1>3 DEF Multiple

\* Rounding down, as WsBuffer::new does for the suffix: a multiple, not above x.
LEMMA AlignDownType ==
  ASSUME NEW x \in Int, NEW a \in Nat \ {0}
  PROVE  /\ AlignDown(x, a) \in Int
         /\ AlignDown(x, a) <= x
         /\ Multiple(AlignDown(x, a), a)
<1> DEFINE q == x \div a
<1>1. q \in Int /\ q * a <= x
  BY Quotient
<1> HIDE DEF q
<1>2. AlignDown(x, a) = q * a
  BY DEF AlignDown, q
<1>3. q * a \in Int
  BY <1>1
<1> QED
  BY <1>1, <1>2, <1>3 DEF Multiple

\* Rounding up, as alloc and align_offset do, gives the least multiple.
LEMMA AlignUpLeast ==
  ASSUME NEW x \in Int, NEW y \in Int, NEW a \in Nat \ {0}, Multiple(y, a), x <= y
  PROVE  AlignUp(x, a) <= y
<1>1. PICK q \in Int : y = q * a
  BY DEF Multiple
<1> DEFINE p == (x + a - 1) \div a
<1>2. p \in Int /\ p * a <= x + a - 1
  BY Quotient
<1> HIDE DEF p
<1>3. p <= q
  BY <1>1, <1>2, FactorOrder
<1>4. p * a <= q * a
  BY <1>2, <1>3
<1> QED
  BY <1>1, <1>4 DEF AlignUp, p

\* Sums and differences of aligned addresses are aligned.
LEMMA MultipleSum ==
  ASSUME NEW x \in Int, NEW y \in Int, NEW a \in Nat \ {0}, Multiple(x, a), Multiple(y, a)
  PROVE  Multiple(x + y, a) /\ Multiple(y - x, a)
<1>1. PICK p \in Int : x = p * a
  BY DEF Multiple
<1>2. PICK q \in Int : y = q * a
  BY DEF Multiple
<1>3. x + y = (p + q) * a /\ p + q \in Int
  BY <1>1, <1>2
<1>4. y - x = (q - p) * a /\ q - p \in Int
  BY <1>1, <1>2
<1>5. Multiple(x + y, a)
  BY <1>3 DEF Multiple
<1>6. Multiple(y - x, a)
  BY <1>4 DEF Multiple
<1> QED
  BY <1>5, <1>6

-----------------------------------------------------------------------------
(* The inductive invariant.                                                 *)

IInv == TypeOK /\ GivenApart /\ BuilderFits /\ ReleaseSafe

\* What the callers are assumed to do: no workspace call while a builder is
\* live, and no length that a u32 cannot hold with its terminator.
WellUsed == ~SharedUse /\ \A n \in Lengths : n + 1 < U32

\* The bounds of the arena: TestWS::new aligns both of them.
LEMMA EndType == /\ Base \in Int /\ End \in Int /\ Base <= End
                 /\ Multiple(Base, Align) /\ Multiple(End, Align)
<1>1. Multiple(AlignDown(Size, Align), Align) /\ AlignDown(Size, Align) \in Int
  BY LayoutAssumption, AlignDownType
<1>2. AlignDown(Size, Align) >= 0
  <2> DEFINE q == Size \div Align
  <2>1. q \in Int /\ 0 * Align < q * Align + Align
    BY LayoutAssumption, Quotient
  <2> HIDE DEF q
  <2>2. 0 <= q
    BY <2>1, FactorOrder, LayoutAssumption
  <2>3. 0 <= q * Align
    BY <2>1, <2>2, LayoutAssumption
  <2> QED
    BY <2>3 DEF AlignDown, q
<1>3. Multiple(Base, Align)
  BY LayoutAssumption, AlignedIsMultiple
<1>4. Multiple(End, Align)
  BY <1>1, <1>3, MultipleSum, LayoutAssumption DEF End
<1> QED
  BY <1>1, <1>2, <1>3, <1>4, LayoutAssumption DEF End

\* Rounding a length that fits keeps the free pointer aligned and inside.
LEMMA BumpType ==
  ASSUME TypeOK, NEW n \in Nat, n <= End - f
  PROVE  /\ f + RoundUp(n) \in Base..End
         /\ f + n <= f + RoundUp(n)
         /\ AlignUp(f + RoundUp(n), Align) = f + RoundUp(n)
<1>1. f \in Int /\ Base <= f /\ f <= End /\ Multiple(f, Align) /\ Align \in Nat \ {0}
  BY EndType, LayoutAssumption, AlignedIsMultiple DEF TypeOK
<1>2. RoundUp(n) \in Int /\ n <= RoundUp(n) /\ Multiple(RoundUp(n), Align)
  BY <1>1, AlignUpType DEF RoundUp
<1>3. Multiple(End - f, Align)
  BY <1>1, EndType, MultipleSum
<1>4. RoundUp(n) <= End - f
  BY <1>1, <1>3, EndType, AlignUpLeast DEF RoundUp
<1>5. Multiple(f + RoundUp(n), Align)
  BY <1>1, <1>2, MultipleSum
<1>6. AlignUp(f + RoundUp(n), Align) = f + RoundUp(n)
  BY <1>1, <1>2, <1>5, AlignedIsMultiple
<1> QED
  BY <1>1, <1>2, <1>4, <1>6, EndType

\* What fits rounded fits unrounded.
LEMMA FitsLength ==
  ASSUME NEW n \in Nat, NEW m \in Int, RoundUp(n) <= m
  PROVE  n <= m /\ RoundUp(n) \in Int
BY AlignUpType, LayoutAssumption DEF RoundUp

\* Handing out what lies between the old and the new free pointer.
LEMMA GiveMore ==
  ASSUME TypeOK, GivenApart, f' \in Base..End, f <= f',
         NEW New, New \subseteq Region, given' = given \cup New,
         \A g \in New : f <= g.lo /\ g.hi <= f',
         \A g, h \in New : g = h \/ g.hi <= h.lo \/ h.hi <= g.lo
  PROVE  GivenApart' /\ given' \subseteq Region
<1>0. f \in Int /\ f' \in Int /\ Base \in Int /\ Base <= f
  BY EndType DEF TypeOK
<1>1. \A g \in given : g.lo \in Int /\ g.hi \in Int /\ Base <= g.lo /\ g.hi <= f
  BY DEF TypeOK, GivenApart, Region
<1>2. \A g \in New : g.lo \in Int /\ g.hi \in Int
  BY DEF Region
<1>3. \A g \in given' : Base <= g.lo /\ g.hi <= f'
  BY <1>0, <1>1, <1>2
<1>4. ASSUME NEW g \in given', NEW h \in given'
      PROVE  g = h \/ g.hi <= h.lo \/ h.hi <= g.lo
  <2>1. CASE g \in given /\ h \in given
    BY <2>1 DEF GivenApart
  <2>2. CASE g \in given /\ h \in New
    BY <1>0, <1>1, <1>2, <2>2
  <2>3. CASE g \in New /\ h \in given
    BY <1>0, <1>1, <1>2, <2>3
  <2>4. CASE g \in New /\ h \in New
    BY <2>4
  <2> QED
    BY <2>1, <2>2, <2>3, <2>4
<1>5. GivenApart'
  BY <1>3, <1>4 DEF GivenApart
<1> QED
  BY <1>5 DEF TypeOK

\* The inductive invariant holds in a fresh workspace.
LEMMA InitIInv == Init => IInv
<1> SUFFICES ASSUME Init PROVE IInv
  OBVIOUS
<1>1. AlignUp(Base, Align) = Base /\ Base \in Base..End
  BY EndType, LayoutAssumption
<1>2. ~Live
  BY DEF Init, Live, NoBuilder
<1> QED
  BY <1>1, <1>2 DEF Init, IInv, TypeOK, GivenApart, BuilderFits, ReleaseSafe

\* A call that leaves the builder alone, with none live.
LEMMA KeepsOthers ==
  ASSUME IInv, ~Live, UNCHANGED builder, r' \in {NULL, End},
         f' \in Base..End, AlignUp(f', Align) = f', given' \subseteq Region, GivenApart',
         out' \in {"ok", "reserve_busy", "alloc_zero"} \cup Errors
  PROVE  IInv'
<1>1. ~Live' /\ builder' = NoBuilder
  BY DEF IInv, TypeOK, Live
<1>2. TypeOK'
  BY <1>1 DEF TypeOK, Panics, Errors
<1> QED
  BY <1>1, <1>2 DEF IInv, BuilderFits, ReleaseSafe, Errors

\* An allocation of n bytes.
LEMMA AllocStep ==
  ASSUME IInv, WellUsed, Usable, NEW n \in Nat, n < U32, Alloc(n)
  PROVE  IInv'
<1>0. ~Live /\ n % U32 = n
  BY LayoutAssumption DEF WellUsed, Usable
<1>1. TypeOK /\ GivenApart /\ r' = r /\ builder' = builder
  BY DEF IInv, Alloc
<1>2. CASE out' = "ok"
  <2>1. RoundUp(n) <= End - f /\ n > 0
    BY <1>0, <1>2, LayoutAssumption DEF Alloc, AllocOutcome, Fits
  <2>2. f \in Int /\ End \in Int
    BY <1>1, EndType DEF TypeOK
  <2>3. n <= End - f
    BY <2>1, <2>2, FitsLength
  <2>4. f' = f + RoundUp(n) /\ given' = given \cup Range(f, f + n, "bytes")
    BY <1>0, <1>2 DEF Alloc
  <2>5. f' \in Base..End /\ f + n <= f' /\ AlignUp(f', Align) = f'
    BY <1>1, <2>3, <2>4, BumpType
  <2>6. GivenApart' /\ given' \subseteq Region
    <3> DEFINE New == Range(f, f + n, "bytes")
    <3>1. New = {[lo |-> f, hi |-> f + n, what |-> "bytes"]}
      BY <2>1, <2>2 DEF Range
    <3>2. New \subseteq Region
      BY <2>2, <3>1 DEF Region
    <3>3. f <= f' /\ \A g \in New : f <= g.lo /\ g.hi <= f'
      BY <2>1, <2>2, <2>5, <3>1, EndType
    <3>4. \A g, h \in New : g = h
      BY <3>1
    <3> HIDE DEF New
    <3> QED
      BY <1>1, <2>4, <2>5, <3>2, <3>3, <3>4, GiveMore DEF New
  <2> QED
    BY <1>0, <1>1, <1>2, <2>5, <2>6, KeepsOthers DEF TypeOK
<1>3. CASE out' # "ok"
  <2>1. f' = f /\ given' = given
    BY <1>3 DEF Alloc
  <2>2. out' \in {"alloc_zero", "oom"}
    BY <1>3 DEF Alloc, AllocOutcome
  <2>3. GivenApart'
    BY <1>1, <2>1 DEF GivenApart
  <2> QED
    BY <1>0, <1>1, <2>1, <2>2, <2>3, KeepsOthers DEF TypeOK, Errors
<1> QED
  BY <1>2, <1>3

\* A call that changes nothing but its result.
LEMMA RefusedStep ==
  ASSUME IInv, ~Live, out' \in Errors, UNCHANGED <<f, r, builder, given>>
  PROVE  IInv'
<1>1. GivenApart' /\ given' \subseteq Region
  BY DEF IInv, GivenApart, TypeOK
<1> QED
  BY <1>1, KeepsOthers DEF IInv, TypeOK

\* copy_blob, with a failure of its second allocation.
LEMMA CopyBlobStep ==
  ASSUME IInv, WellUsed, NEW n \in Nat, CopyBlob(n)
  PROVE  IInv'
<1> DEFINE g == f + RoundUp(n)
<1>0. ~Live /\ TypeOK /\ GivenApart /\ r' = r /\ builder' = builder /\ 0 < n
  BY DEF WellUsed, Usable, CopyBlob, IInv
<1>1. f \in Int /\ End \in Int /\ Base \in Int
  BY <1>0, EndType DEF TypeOK
<1>2. CASE ~Fits(n) /\ f' = f /\ given' = given /\ out' = "oom"
  BY <1>0, <1>2, RefusedStep DEF Errors
<1>3. ASSUME Fits(n)
      PROVE  g \in Base..End /\ f + n <= g /\ AlignUp(g, Align) = g
  BY <1>0, <1>1, <1>3, FitsLength, BumpType DEF Fits
<1>4. CASE Fits(n) /\ f' = g /\ out' = "oom" /\ given' = given
  <2>1. f' \in Base..End /\ f <= f' /\ AlignUp(f', Align) = f'
    BY <1>0, <1>1, <1>3, <1>4
  <2>2. GivenApart' /\ given' \subseteq Region
    <3>1. \A x \in given : x.hi \in Int /\ Base <= x.lo /\ x.hi <= f
      BY <1>0 DEF TypeOK, GivenApart, Region
    <3> QED
      BY <1>0, <1>1, <1>4, <2>1, <3>1 DEF TypeOK, GivenApart
  <2> QED
    BY <1>0, <1>4, <2>1, <2>2, KeepsOthers DEF TypeOK, Errors
<1>5. CASE /\ Fits(n) /\ RoundUp(Blob.size) <= End - g
           /\ f' = g + RoundUp(Blob.size) /\ out' = "ok"
           /\ given' = given \cup Range(f, f + n, "bytes") \cup Range(g, g + Blob.size, "blob")
  <2>0. Blob.size \in Nat /\ Blob.size > 0
    BY LayoutAssumption
  <2>1. g \in Int /\ g \in Base..End /\ f + n <= g /\ AlignUp(g, Align) = g
    BY <1>1, <1>3, <1>5
  <2> HIDE DEF g
  <2>2. Blob.size <= End - g
    BY <1>1, <1>5, <2>0, <2>1, FitsLength
  <2>3. f' \in Base..End /\ g + Blob.size <= f' /\ AlignUp(f', Align) = f'
    <3>1. Multiple(g, Align) /\ Align \in Nat \ {0}
      BY <2>1, AlignedIsMultiple, LayoutAssumption
    <3>2. RoundUp(Blob.size) \in Int /\ Blob.size <= RoundUp(Blob.size)
          /\ Multiple(RoundUp(Blob.size), Align)
      BY <2>0, <3>1, AlignUpType DEF RoundUp
    <3>3. Multiple(f', Align)
      BY <1>5, <2>1, <3>1, <3>2, MultipleSum
    <3>4. f' = g + RoundUp(Blob.size) /\ RoundUp(Blob.size) <= End - g
      BY <1>5
    <3>5. f' \in Int /\ Base <= f' /\ f' <= End /\ g + Blob.size <= f'
      BY <1>1, <2>0, <2>1, <3>2, <3>4
    <3>6. AlignUp(f', Align) = f'
      BY <3>1, <3>3, <3>5, AlignedIsMultiple
    <3> QED
      BY <1>1, <3>5, <3>6
  <2>4. GivenApart' /\ given' \subseteq Region
    <3> DEFINE New == {[lo |-> f, hi |-> f + n, what |-> "bytes"],
                       [lo |-> g, hi |-> g + Blob.size, what |-> "blob"]}
    <3>1. given' = given \cup New
      BY <1>0, <1>1, <1>5, <2>0, <2>1 DEF Range
    <3>2. New \subseteq Region
      BY <1>1, <2>0, <2>1 DEF Region
    <3>3. f <= f' /\ \A x \in New : f <= x.lo /\ x.hi <= f'
      BY <1>0, <1>1, <2>0, <2>1, <2>3, EndType
    <3>4. \A x, y \in New : x = y \/ x.hi <= y.lo \/ y.hi <= x.lo
      BY <1>1, <2>0, <2>1
    <3> HIDE DEF New
    <3> QED
      BY <1>0, <2>3, <3>1, <3>2, <3>3, <3>4, GiveMore
  <2> QED
    BY <1>0, <1>5, <2>3, <2>4, KeepsOthers DEF TypeOK, Errors
<1> QED
  BY <1>2, <1>4, <1>5 DEF CopyBlob

\* The layout of a new builder leaves room for its suffix.
LEMMA NewBuilderStep ==
  ASSUME IInv, WellUsed, NEW k \in Kinds, NewBuilder(k)
  PROVE  IInv'
<1>0. ~Live /\ TypeOK /\ GivenApart /\ f' = f /\ given' = given
  BY DEF WellUsed, Usable, NewBuilder, IInv
<1>1. /\ f \in Int /\ End \in Int /\ Base <= f /\ f <= End
      /\ NULL \notin Int /\ AlignUp(f, Align) = f
  BY <1>0, EndType, NullAssumption DEF TypeOK
<1>2. /\ k.item \in Nat \ {0} /\ k.ialign \in Nat \ {0} /\ k.suffix \in Nat
      /\ k.salign \in Nat \ {0} /\ (k.suffix = 0 => k.salign = 1)
  BY KindsAssumption, LayoutAssumption DEF BuilderKind
<1>3. GivenApart' /\ given' \subseteq Region
  BY <1>0 DEF GivenApart, TypeOK
<1>4. CASE UNCHANGED builder
  BY <1>0, <1>1, <1>3, <1>4, KeepsOthers DEF NewBuilder, TypeOK, Errors
<1>5. CASE /\ r' = End /\ out' = "ok" /\ End - f >= Required(k)
           /\ builder' = [kind  |-> k, start |-> f + ItemsAlign(k),
                          pos |-> f + ItemsAlign(k), room |-> Capacity(k)]
  <2> DEFINE start == f + ItemsAlign(k)
             top   == AlignDown(End - k.suffix, k.salign)
             free  == End - f - ItemsAlign(k) - SuffixSize(k)
             room  == free \div k.item
  <2>1. ItemsAlign(k) \in Int /\ 0 <= ItemsAlign(k)
    <3>1. AlignUp(f, k.ialign) \in Int /\ f <= AlignUp(f, k.ialign)
      BY <1>1, <1>2, AlignUpType
    <3> QED
      BY <1>1, <3>1 DEF ItemsAlign
  <2>2. start \in Int /\ f <= start
    BY <1>1, <2>1
  <2>3. top \in Int /\ top <= End - k.suffix /\ Multiple(top, k.salign)
    BY <1>1, <1>2, AlignDownType
  <2>4. SuffixSize(k) = End - top
    BY DEF SuffixSize
  <2>5. free \in Int /\ start + free = top
    BY <1>1, <2>1, <2>3, <2>4
  <2>6. 0 <= free
    <3>1. CASE k.suffix > 0
      BY <1>1, <1>2, <1>5, <2>1, <2>3, <2>4, <3>1 DEF Required
    <3>2. CASE k.suffix = 0
      <4>1. top = End
        BY <1>1, <1>2, <3>2, Quotient DEF AlignDown
      <4> QED
        BY <1>1, <1>2, <1>5, <2>1, <2>4, <3>2, <4>1 DEF Required
    <3> QED
      BY <1>2, <3>1, <3>2
  <2> HIDE DEF free, start, top
  <2>7. room \in Int /\ room * k.item <= free /\ free < room * k.item + k.item
    BY <1>2, <2>5, Quotient
  <2>8. room \in Nat
    <3>1. 0 * k.item < room * k.item + k.item
      BY <1>2, <2>5, <2>6, <2>7
    <3> HIDE DEF room
    <3> QED
      BY <1>2, <2>7, <3>1, FactorOrder
  <2>9. builder' = [kind |-> k, start |-> start, pos |-> start, room |-> room]
    BY <1>5 DEF start, free, Capacity
  <2> HIDE DEF room
  <2>10. AlignUp(start + room * k.item, k.salign) + k.suffix <= End
    <3>1. room * k.item \in Int
      BY <1>2, <2>8
    <3>2. start + room * k.item <= top
      BY <2>2, <2>3, <2>5, <2>7, <3>1
    <3>3. AlignUp(start + room * k.item, k.salign) <= top
      BY <1>2, <2>2, <2>3, <3>1, <3>2, AlignUpLeast
    <3>4. AlignUp(start + room * k.item, k.salign) \in Int
      BY <1>2, <2>2, <3>1, AlignUpType
    <3> QED
      BY <1>1, <1>2, <2>3, <3>3, <3>4
  <2>11. Live'
    BY <1>1, <2>2, <2>9 DEF Live
  <2>12. TypeOK'
    BY <1>0, <1>1, <1>3, <1>5, <2>2, <2>8, <2>9, <2>11 DEF TypeOK
  <2>13. BuilderFits'
    BY <1>0, <1>5, <2>2, <2>9, <2>10 DEF BuilderFits
  <2> QED
    BY <1>3, <1>5, <2>12, <2>13 DEF IInv, ReleaseSafe
<1> QED
  BY <1>4, <1>5 DEF NewBuilder

\* Writing m items that the builder has room for.
LEMMA AdvanceStep ==
  ASSUME IInv, Live, NEW m \in Nat, m <= builder.room, Advance(m),
         UNCHANGED <<f, r, given>>, out' = "ok"
  PROVE  IInv'
<1>1. /\ TypeOK /\ GivenApart /\ BuilderFits
      /\ builder \in [kind : Kinds, start : Int, pos : Int, room : Nat]
  BY DEF IInv, TypeOK
<1> DEFINE i == builder.kind.item
<1>2. i \in Nat \ {0} /\ builder.room \in Nat /\ builder.pos \in Int
  BY <1>1, KindsAssumption DEF BuilderKind
<1>3. builder' = [builder EXCEPT !.pos = builder.pos + m * i, !.room = builder.room - m]
  BY DEF Advance
<1> HIDE DEF i
<1>4. m * i \in Nat /\ (builder.room - m) * i \in Int /\ builder.room - m \in Nat
  BY <1>2
<1>5. builder.pos + m * i + (builder.room - m) * i = builder.pos + builder.room * i
  BY <1>2
<1>6. /\ builder'.kind = builder.kind /\ builder'.start = builder.start
      /\ builder'.pos = builder.pos + m * i /\ builder'.room = builder.room - m
  BY <1>1, <1>3
<1>7. builder' \in [kind : Kinds, start : Int, pos : Int, room : Nat]
  <2>1. builder.pos + m * i \in Int
    BY <1>2, <1>4
  <2> QED
    BY <1>1, <1>3, <1>4, <2>1
<1>8. TypeOK' /\ Live'
  BY <1>1, <1>6, <1>7 DEF TypeOK, Live
<1>9. AlignUp(builder'.pos + builder'.room * i, builder.kind.salign) =
      AlignUp(builder.pos + builder.room * i, builder.kind.salign)
  BY <1>5, <1>6
<1>10. builder'.start <= builder'.pos
  BY <1>1, <1>2, <1>4, <1>6 DEF BuilderFits
<1>11. BuilderFits'
  BY <1>1, <1>6, <1>9, <1>10 DEF BuilderFits, i
<1> QED
  BY <1>1, <1>8, <1>11 DEF IInv, GivenApart, ReleaseSafe

\* push, extend_from_slice and Write.
LEMMA ExtendStep ==
  ASSUME IInv, NEW n \in Nat, Extend(n) \/ Write(n)
  PROVE  IInv'
<1>1. Live /\ TypeOK /\ builder.room \in Nat /\ UNCHANGED <<f, r, given>>
  BY DEF IInv, TypeOK, Extend, Write
<1>2. CASE Extend(n) /\ out' = "oom" /\ UNCHANGED builder
  <2>1. Live'
    BY <1>1, <1>2 DEF Live
  <2>2. TypeOK'
    BY <1>1, <1>2, <2>1 DEF TypeOK, Errors
  <2>3. BuilderFits' /\ GivenApart'
    BY <1>1, <1>2 DEF IInv, BuilderFits, GivenApart, Live
  <2> QED
    BY <1>2, <2>2, <2>3 DEF IInv, ReleaseSafe
<1>3. CASE Extend(n) /\ n <= builder.room /\ Advance(n) /\ out' = "ok"
  BY <1>1, <1>3, AdvanceStep
<1>4. CASE Write(n)
  BY <1>1, <1>4, AdvanceStep DEF Write
<1> QED
  BY <1>2, <1>3, <1>4 DEF Extend

\* The elements of a range.
LEMMA RangeElement ==
  ASSUME NEW lo \in Int, NEW hi \in Int, NEW w \in {"bytes", "blob", "unmarked_blob"},
         NEW g \in Range(lo, hi, w)
  PROVE  g \in Region /\ g = [lo |-> lo, hi |-> hi, what |-> w]
BY DEF Range, Region

\* finish() keeps the data and the suffix and nothing of what was handed out.
LEMMA FinishStep ==
  ASSUME IInv, Finish
  PROVE  IInv'
<1> DEFINE b    == builder
           p    == SuffixPtr(b)
           used == p + b.kind.suffix - f
           New  == Output(b)
<1>0. TypeOK /\ GivenApart /\ BuilderFits /\ Live
  BY DEF IInv, Finish
<1>1. f \in Int /\ End \in Int /\ Base <= f /\ f <= End
  BY <1>0, EndType DEF TypeOK
<1>2. /\ b.kind \in Kinds /\ b.start \in Int /\ b.pos \in Int /\ b.room \in Nat
      /\ b.kind.item \in Nat \ {0} /\ b.kind.suffix \in Nat /\ b.kind.salign \in Nat \ {0}
      /\ b.kind.name \in {"str", "blob", "temp"}
      /\ b.kind.name = "str" => b.kind.suffix = 1
  BY <1>0, KindsAssumption DEF TypeOK, BuilderKind
<1>3. f <= b.start /\ b.start <= b.pos
  BY <1>0 DEF BuilderFits
<1>4. p \in Int /\ b.pos <= p /\ p + b.kind.suffix <= End
  <2> DEFINE top == b.pos + b.room * b.kind.item
  <2>1. top \in Int /\ b.pos <= top
    <3>1. b.room * b.kind.item \in Nat
      BY <1>2
    <3> QED
      BY <1>2, <3>1
  <2>2. AlignUp(top, b.kind.salign) + b.kind.suffix <= End
    BY <1>0 DEF BuilderFits
  <2> HIDE DEF top
  <2>3. /\ AlignUp(top, b.kind.salign) \in Int /\ top <= AlignUp(top, b.kind.salign)
        /\ Multiple(AlignUp(top, b.kind.salign), b.kind.salign)
    BY <1>2, <2>1, AlignUpType
  <2>4. p \in Int /\ b.pos <= p
    BY <1>2, AlignUpType DEF SuffixPtr
  <2>5. p <= AlignUp(top, b.kind.salign)
    <3>1. b.pos <= AlignUp(top, b.kind.salign)
      BY <1>2, <2>1, <2>3
    <3> QED
      BY <1>2, <2>3, <3>1, AlignUpLeast DEF SuffixPtr
  <2> QED
    BY <1>1, <1>2, <2>2, <2>3, <2>4, <2>5
<1> HIDE DEF p
<1>5. ReleaseOutcome(builder) = "ok"
  BY <1>1, <1>2, <1>3, <1>4 DEF ReleaseOutcome, p
<1>6. /\ f' = f + RoundUp(used) /\ r' = NULL /\ out' = "ok"
      /\ given' = given \cup New /\ builder' = NoBuilder
  BY <1>5 DEF Finish, p
<1>7. used \in Nat /\ used <= End - f
  BY <1>1, <1>2, <1>3, <1>4
<1>8. f' \in Base..End /\ f + used <= f' /\ AlignUp(f', Align) = f'
  <2> HIDE DEF used
  <2> QED
    BY <1>0, <1>6, <1>7, BumpType
<1>9. p + b.kind.suffix <= f' /\ f <= f' /\ f' \in Int
  BY <1>1, <1>2, <1>3, <1>4, <1>8, EndType
<1>10. /\ New \subseteq Region
       /\ \A g \in New : f <= g.lo /\ g.hi <= f'
       /\ \A g, h \in New : g = h \/ g.hi <= h.lo \/ h.hi <= g.lo
  <2>1. CASE b.kind.name = "str"
    <3>1. New = Range(f, b.pos + 1, "bytes")
      BY <2>1 DEF Output
    <3>2. \A g \in New : g \in Region /\ g = [lo |-> f, hi |-> b.pos + 1, what |-> "bytes"]
      <4>1. b.pos + 1 \in Int
        BY <1>2
      <4> QED
        BY <1>1, <3>1, <4>1, RangeElement
    <3>3. b.pos + 1 <= f'
      BY <1>2, <1>4, <1>9, <2>1
    <3> HIDE DEF New
    <3> QED
      BY <1>1, <3>2, <3>3
  <2>2. CASE b.kind.name = "temp"
    <3>1. New = Range(b.start, b.pos, "bytes")
      BY <2>2 DEF Output
    <3>2. \A g \in New : g \in Region /\ g = [lo |-> b.start, hi |-> b.pos, what |-> "bytes"]
      BY <1>2, <3>1, RangeElement
    <3>3. b.pos <= f'
      BY <1>2, <1>4, <1>9
    <3> HIDE DEF New
    <3> QED
      BY <1>3, <3>2, <3>3
  <2>3. CASE b.kind.name = "blob"
    <3> DEFINE d == Range(b.start, b.pos, "bytes")
               e == Range(p, p + b.kind.suffix, "unmarked_blob")
    <3>1. New = d \cup e
      BY <2>3 DEF Output, p
    <3>2. \A g \in d : g \in Region /\ g = [lo |-> b.start, hi |-> b.pos, what |-> "bytes"]
      BY <1>2, RangeElement
    <3>3. \A g \in e : g \in Region
                       /\ g = [lo |-> p, hi |-> p + b.kind.suffix, what |-> "unmarked_blob"]
      <4>1. p + b.kind.suffix \in Int
        BY <1>2, <1>4
      <4> QED
        BY <1>4, <4>1, RangeElement
    <3> HIDE DEF New, d, e
    <3>4. b.pos <= f' /\ f <= p
      BY <1>1, <1>2, <1>3, <1>4, <1>9
    <3>5. New \subseteq Region
      BY <3>1, <3>2, <3>3
    <3>6. \A g \in New : f <= g.lo /\ g.hi <= f'
      BY <1>3, <1>9, <3>1, <3>2, <3>3, <3>4
    <3>7. \A g, h \in New : g = h \/ g.hi <= h.lo \/ h.hi <= g.lo
      BY <1>4, <3>1, <3>2, <3>3
    <3> QED
      BY <3>5, <3>6, <3>7
  <2> QED
    BY <1>2, <2>1, <2>2, <2>3
<1> HIDE DEF New
<1>11. GivenApart' /\ given' \subseteq Region
  BY <1>0, <1>6, <1>8, <1>9, <1>10, GiveMore
<1>12. ~Live'
  BY <1>6 DEF Live, NoBuilder
<1>13. TypeOK'
  BY <1>6, <1>8, <1>11, <1>12 DEF TypeOK
<1> QED
  BY <1>6, <1>11, <1>12, <1>13 DEF IInv, BuilderFits, ReleaseSafe

\* Every step keeps the inductive invariant.
LEMMA StepIInv == WellUsed /\ IInv /\ [Next]_vars => IInv'
<1> SUFFICES ASSUME WellUsed, IInv, [Next]_vars PROVE IInv'
  OBVIOUS
<1>0. \A n \in Lengths : n \in Nat /\ n + 1 \in Nat /\ n < U32 /\ n + 1 < U32
  BY LayoutAssumption DEF WellUsed
<1>1. ASSUME NEW n \in Lengths, Allocate(n) PROVE IInv'
  BY <1>0, <1>1, AllocStep DEF Allocate
<1>2. ASSUME NEW n \in Lengths, CopyBytes(n) PROVE IInv'
  <2>1. CASE Alloc(n)
    BY <1>0, <1>2, <2>1, AllocStep DEF CopyBytes
  <2>2. CASE out' = "refused" /\ UNCHANGED <<f, r, builder, given>>
    BY <1>2, <2>2, RefusedStep DEF CopyBytes, Usable, WellUsed, Errors
  <2> QED
    BY <1>2, <2>1, <2>2 DEF CopyBytes
<1>3. ASSUME NEW n \in Lengths, NEW nul \in {"none", "last", "inside"}, CopyWithNull(n, nul)
      PROVE  IInv'
  <2>1. CASE Alloc(n)
    BY <1>0, <1>3, <2>1, AllocStep DEF CopyWithNull
  <2>2. CASE Alloc(n + 1)
    BY <1>0, <1>3, <2>2, AllocStep DEF CopyWithNull
  <2>3. CASE out' = "refused" /\ UNCHANGED <<f, r, builder, given>>
    BY <1>3, <2>3, RefusedStep DEF CopyWithNull, Usable, WellUsed, Errors
  <2> QED
    BY <1>3, <2>1, <2>2, <2>3 DEF CopyWithNull
<1>4. ASSUME NEW n \in Lengths, CopyBlob(n) PROVE IInv'
  BY <1>0, <1>4, CopyBlobStep
<1>5. ASSUME NEW n \in Lengths, Extend(n) \/ Write(n) PROVE IInv'
  BY <1>0, <1>5, ExtendStep
<1>6. ASSUME NEW k \in Kinds, NewBuilder(k) PROVE IInv'
  BY <1>6, NewBuilderStep
<1>7. CASE Finish
  BY <1>7, FinishStep
<1>8. CASE Drop
  <2>1. ~Live' /\ UNCHANGED <<f, given>> /\ r' = NULL /\ out' = "ok" /\ builder' = NoBuilder
    BY <1>8 DEF Drop, Live, NoBuilder
  <2>2. TypeOK' /\ GivenApart'
    BY <2>1 DEF IInv, TypeOK, GivenApart
  <2> QED
    BY <2>1, <2>2 DEF IInv, BuilderFits, ReleaseSafe
<1>9. CASE TaskEnd
  <2>1. Init'
    BY <1>9 DEF TaskEnd, Init
  <2>2. ~Live' /\ AlignUp(Base, Align) = Base /\ Base \in Base..End
    BY <2>1, EndType, LayoutAssumption DEF Init, Live, NoBuilder
  <2> QED
    BY <2>1, <2>2 DEF Init, IInv, TypeOK, GivenApart, BuilderFits, ReleaseSafe
<1>10. CASE UNCHANGED vars
  BY <1>10 DEF vars, IInv, TypeOK, GivenApart, BuilderFits, ReleaseSafe, Live
<1> QED
  BY <1>1, <1>2, <1>3, <1>4, <1>5, <1>6, <1>7, <1>8, <1>9, <1>10 DEF Next

-----------------------------------------------------------------------------
(* Where the blobs lie.                                                     *)

\* Alignment is transitive: a multiple of a multiple.
LEMMA MultipleOf ==
  ASSUME NEW x \in Int, NEW a \in Nat \ {0}, NEW b \in Nat \ {0},
         Multiple(x, a), Multiple(a, b)
  PROVE  Multiple(x, b)
<1>1. PICK p \in Int : x = p * a
  BY DEF Multiple
<1>2. PICK q \in Int : a = q * b
  BY DEF Multiple
<1>3. x = (p * q) * b /\ p * q \in Int
  BY <1>1, <1>2
<1> QED
  BY <1>3 DEF Multiple

\* The regions handed out earlier stay, and the new ones are bytes or lie where
\* a vrt_blob may lie.
LEMMA BlobsMore ==
  ASSUME BlobsAligned, NEW New, given' \subseteq given \cup New,
         \A g \in New : g.what # "bytes" => AlignUp(g.lo, Blob.align) = g.lo
  PROVE  BlobsAligned'
BY DEF BlobsAligned

\* copy_blob puts the struct after the bytes, where the allocator left off.
LEMMA CopyBlobAligned ==
  ASSUME IInv, NEW n \in Nat, BlobsAligned, CopyBlob(n)
  PROVE  BlobsAligned'
<1> DEFINE g == f + RoundUp(n)
           New == Range(f, f + n, "bytes") \cup Range(g, g + Blob.size, "blob")
<1>1. CASE UNCHANGED given
  BY <1>1 DEF BlobsAligned
<1>2. CASE given' = given \cup New
  <2>1. f \in Int /\ Multiple(f, Align) /\ Align \in Nat \ {0} /\ Blob.size \in Nat
        /\ Blob.align \in Nat \ {0} /\ Multiple(Align, Blob.align)
    BY EndType, LayoutAssumption, AlignedIsMultiple DEF IInv, TypeOK
  <2>2. RoundUp(n) \in Int /\ Multiple(RoundUp(n), Align)
    BY <2>1, AlignUpType DEF RoundUp
  <2>3. g \in Int /\ Multiple(g, Align)
    <3> HIDE DEF New
    <3>1. Multiple(f + RoundUp(n), Align)
      BY <2>1, <2>2, MultipleSum
    <3> QED
      BY <2>1, <2>2, <3>1
  <2> HIDE DEF g
  <2>4. AlignUp(g, Blob.align) = g
    BY <2>1, <2>3, MultipleOf, AlignedIsMultiple
  <2>5. \A x \in Range(f, f + n, "bytes") : x.what = "bytes"
    BY <2>1, RangeElement
  <2>6. \A x \in Range(g, g + Blob.size, "blob") : x.lo = g
    BY <2>1, <2>3, RangeElement
  <2>7. \A x \in New : x.what # "bytes" => AlignUp(x.lo, Blob.align) = x.lo
    BY <2>4, <2>5, <2>6
  <2> HIDE DEF New
  <2> QED
    BY <1>2, <2>7, BlobsMore
<1> QED
  BY <1>1, <1>2 DEF CopyBlob

\* finish() puts the struct at the first aligned place after the data.
LEMMA FinishAligned ==
  ASSUME IInv, BlobsAligned, Finish
  PROVE  BlobsAligned'
<1> DEFINE b == builder
           p == SuffixPtr(b)
<1>0. /\ f \in Int /\ b.kind \in Kinds /\ b.start \in Int /\ b.pos \in Int
      /\ b.kind.suffix \in Nat /\ b.kind.salign \in Nat \ {0}
      /\ b.kind.name \in {"str", "blob", "temp"}
      /\ b.kind.name = "blob" => b.kind.salign = Blob.align
  BY EndType, KindsAssumption DEF IInv, Finish, TypeOK, BuilderKind
<1>1. p \in Int /\ AlignUp(p, b.kind.salign) = p
  BY <1>0, AlignUpType, AlignedIsMultiple DEF SuffixPtr
<1> HIDE DEF p
<1>2. \A g \in Output(b) : g.what # "bytes" => AlignUp(g.lo, Blob.align) = g.lo
  <2>1. CASE b.kind.name = "str"
    <3>1. Output(b) = Range(f, b.pos + 1, "bytes")
      BY <2>1 DEF Output
    <3> QED
      BY <1>0, <3>1, RangeElement
  <2>2. CASE b.kind.name = "temp"
    <3>1. Output(b) = Range(b.start, b.pos, "bytes")
      BY <2>2 DEF Output
    <3> QED
      BY <1>0, <3>1, RangeElement
  <2>3. CASE b.kind.name = "blob"
    <3>1. Output(b) = Range(b.start, b.pos, "bytes")
                        \cup Range(p, p + b.kind.suffix, "unmarked_blob")
      BY <2>3 DEF Output, p
    <3>2. \A g \in Range(b.start, b.pos, "bytes") : g.what = "bytes"
      BY <1>0, RangeElement
    <3>3. \A g \in Range(p, p + b.kind.suffix, "unmarked_blob") : g.lo = p
      BY <1>0, <1>1, RangeElement
    <3>4. AlignUp(p, Blob.align) = p
      BY <1>0, <1>1, <2>3
    <3> QED
      BY <3>1, <3>2, <3>3, <3>4
  <2> QED
    BY <1>0, <2>1, <2>2, <2>3
<1>3. given' \subseteq given \cup Output(b)
  BY DEF Finish
<1> QED
  BY <1>2, <1>3, BlobsMore

\* Plain allocations hand out bytes, whatever their size.
LEMMA AllocAligned ==
  ASSUME IInv, BlobsAligned, NEW n \in Nat, Alloc(n)
  PROVE  BlobsAligned'
<1>1. f \in Int /\ f + n \in Int
  BY EndType DEF IInv, TypeOK
<1>2. \A g \in Range(f, f + n, "bytes") : g.what = "bytes"
  BY <1>1, RangeElement
<1>3. given' \subseteq given \cup Range(f, f + n, "bytes")
  BY DEF Alloc
<1> QED
  BY <1>2, <1>3, BlobsMore

\* Every step keeps the blobs aligned.
LEMMA StepAligned == IInv /\ BlobsAligned /\ [Next]_vars => BlobsAligned'
<1> SUFFICES ASSUME IInv, BlobsAligned, [Next]_vars PROVE BlobsAligned'
  OBVIOUS
<1>0. \A n \in Lengths : n \in Nat /\ n + 1 \in Nat
  BY LayoutAssumption
<1>1. ASSUME given' \subseteq given PROVE BlobsAligned'
  BY <1>1 DEF BlobsAligned
<1>2. ASSUME NEW n \in Lengths, Allocate(n) \/ CopyBytes(n) PROVE BlobsAligned'
  BY <1>0, <1>1, <1>2, AllocAligned DEF Allocate, CopyBytes
<1>3. ASSUME NEW n \in Lengths, NEW nul \in {"none", "last", "inside"}, CopyWithNull(n, nul)
      PROVE  BlobsAligned'
  BY <1>0, <1>1, <1>3, AllocAligned DEF CopyWithNull
<1>4. ASSUME NEW n \in Lengths, CopyBlob(n) PROVE BlobsAligned'
  BY <1>0, <1>4, CopyBlobAligned
<1>5. ASSUME NEW n \in Lengths, Extend(n) \/ Write(n) PROVE BlobsAligned'
  BY <1>1, <1>5 DEF Extend, Write
<1>6. ASSUME NEW k \in Kinds, NewBuilder(k) PROVE BlobsAligned'
  BY <1>1, <1>6 DEF NewBuilder
<1>7. CASE Finish
  BY <1>7, FinishAligned
<1>8. CASE Drop \/ TaskEnd \/ UNCHANGED vars
  BY <1>1, <1>8 DEF Drop, TaskEnd, vars
<1> QED
  BY <1>2, <1>3, <1>4, <1>5, <1>6, <1>7, <1>8 DEF Next

-----------------------------------------------------------------------------
\* The inductive invariant holds in every state of a well-used workspace.
THEOREM Invariance == ASSUME WellUsed PROVE Spec => []IInv
<1>1. IInv /\ [Next]_vars => IInv'
  BY StepIInv
<1> QED
  BY <1>1, InitIInv, PTL DEF Spec

\* Type correctness of the workspace and of its builder.
THEOREM TypeCorrect == ASSUME WellUsed PROVE Spec => []TypeOK
BY Invariance, PTL DEF IInv

\* alloc, the copies and the builders never hand out an address twice in a
\* task, nor one outside the workspace.
THEOREM NothingGivenTwice == ASSUME WellUsed PROVE Spec => []GivenApart
BY Invariance, PTL DEF IInv

\* Whatever is pushed, a builder's data and suffix stay in its reservation, and
\* the assertions of release() never fire.
THEOREM BuilderStaysSafe == ASSUME WellUsed PROVE Spec => []BuilderSafe
BY Invariance, PTL DEF IInv, BuilderSafe

\* copy_blob and the blob buffer's finish() write the vrt_blob where C may read
\* one, however long the data before it is.
THEOREM BlobsLieAligned == ASSUME WellUsed PROVE Spec => []BlobsAligned
<1>1. Init => BlobsAligned
  BY DEF Init, BlobsAligned
<1> QED
  BY <1>1, StepAligned, Invariance, PTL DEF Spec
=============================================================================
