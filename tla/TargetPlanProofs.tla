-------------------------- MODULE TargetPlanProofs --------------------------
(***************************************************************************)
(* Theorems about the way from the source tables to the targets of a scan, *)
(* for files of any length: the groups of scan tasks and the estimate of   *)
(* their size, the duplicate table of the loader, generate-buckets and the *)
(* runs of the scan over one CIDR file (PlanInv, LimitInv, ResumeInv), the *)
(* tools that prepare this file (ToolInv).                                 *)
(***************************************************************************)
EXTENDS TargetPrep, FiniteSetTheorems, TLAPS

\* Every set of naturals has a least element.
LEMMA LeastIndex ==
    ASSUME NEW T, T \subseteq Nat, T # {}
    PROVE  \E x \in T : \A y \in T : x <= y
<1> DEFINE R == OpToRel(<, Nat)
<1>1. IsWellFoundedOn(R, Nat)
    BY NatLessThanWellFounded
<1> HIDE DEF R
<1>2. PICK x \in T : \A y \in T : ~(<<y, x>> \in R)
    BY <1>1, WFMin
<1>3. \A y \in T : ~(y < x)
    BY <1>2 DEF R, OpToRel
<1> QED BY <1>3

-----------------------------------------------------------------------------
(* Rich rows *)

\* A segment owns a task if one of its rows is the first of all to bring it.
LEMMA OwnedHasFirst ==
    ASSUME NEW rows, NEW blocked, NEW c, NEW t
    PROVE  t \in OwnedTargets(rows, c, blocked) <=>
               \E i \in DOMAIN rows :
                   /\ rows[i].seg = c /\ t \in RichTargets(rows, i, blocked)
                   /\ \A j \in 1..(i - 1) : t \notin RichTargets(rows, j, blocked)
<1> DEFINE I == {i \in DOMAIN rows : rows[i].seg = c}
           First(i) == {u \in RichTargets(rows, i, blocked) :
                            \A j \in 1..(i - 1) : u \notin RichTargets(rows, j, blocked)}
<1>1. OwnedTargets(rows, c, blocked) = UNION {First(i) : i \in I}
    BY Zenon DEF OwnedTargets
<1>2. t \in UNION {First(i) : i \in I} <=> \E i \in I : t \in First(i)
    <2> HIDE DEF I, First
    <2> QED OBVIOUS
<1>3. (\E i \in I : t \in First(i)) <=>
          \E i \in DOMAIN rows :
              /\ rows[i].seg = c /\ t \in RichTargets(rows, i, blocked)
              /\ \A j \in 1..(i - 1) : t \notin RichTargets(rows, j, blocked)
    BY Zenon
<1> QED BY <1>1, <1>2, <1>3, Zenon

\* No task has two owners: ownerByExecutionKey gives it to one segment.
LEMMA OneOwner ==
    ASSUME NEW S, NEW rows \in Seq(S), NEW blocked, NEW c, NEW d, NEW t,
           t \in OwnedTargets(rows, c, blocked), t \in OwnedTargets(rows, d, blocked)
    PROVE  c = d
<1> DEFINE Brings(i) == t \in RichTargets(rows, i, blocked)
<1>1. PICK i \in DOMAIN rows : rows[i].seg = c /\ Brings(i) /\ \A j \in 1..(i - 1) : ~Brings(j)
    BY OwnedHasFirst, Zenon
<1>2. PICK k \in DOMAIN rows : rows[k].seg = d /\ Brings(k) /\ \A j \in 1..(k - 1) : ~Brings(j)
    BY OwnedHasFirst, Zenon
<1> HIDE DEF Brings
<1>3. i \in Nat \ {0} /\ k \in Nat \ {0}
    OBVIOUS
<1>4. ~(i < k) /\ ~(k < i)
    BY <1>1, <1>2, <1>3
<1>5. i = k
    BY <1>3, <1>4
<1> QED BY <1>1, <1>2, <1>5

\* Every task that a row brings has an owner.
LEMMA SomeOwner ==
    ASSUME NEW S, NEW rows \in Seq(S), NEW blocked, NEW k \in DOMAIN rows, NEW t,
           t \in RichTargets(rows, k, blocked)
    PROVE  \E c \in Segments(rows) : t \in OwnedTargets(rows, c, blocked)
<1> DEFINE Brings(i) == t \in RichTargets(rows, i, blocked)
           T == {i \in DOMAIN rows : Brings(i)}
<1>1. T \subseteq Nat /\ T # {}
    <2>1. k \in T /\ DOMAIN rows \subseteq Nat
        OBVIOUS
    <2> QED BY <2>1
<1>2. PICK i \in T : \A y \in T : i <= y
    BY <1>1, LeastIndex
<1>3. i \in DOMAIN rows /\ Brings(i) /\ DOMAIN rows = 1..Len(rows) /\ Len(rows) \in Nat
    BY <1>2
<1>4. \A j \in 1..(i - 1) : ~Brings(j)
    <2> HIDE DEF Brings
    <2> SUFFICES ASSUME NEW j \in 1..(i - 1), Brings(j) PROVE FALSE
        OBVIOUS
    <2>1. j \in DOMAIN rows /\ j < i
        BY <1>3
    <2> QED BY <1>2, <1>3, <2>1
<1>5. t \in OwnedTargets(rows, rows[i].seg, blocked)
    BY <1>3, <1>4, OwnedHasFirst, Zenon
<1>6. rows[i].seg \in Segments(rows)
    BY <1>3 DEF Segments
<1> QED BY <1>5, <1>6

\* A rich group stores what its segment owns.
LEMMA RichGroupShape ==
    ASSUME NEW c, NEW owned
    PROVE  RichGroup(c, owned).cidr = c /\ RichGroup(c, owned).entries = owned
BY DEF RichGroup, Group

\* However the segments of a rich file overlap and repeat each other, no task is
\* in two of the groups that buildRichGroups makes of it.
THEOREM RichGroupsAreDisjoint ==
    ASSUME NEW S, NEW rows \in Seq(S), NEW blocked,
           NEW g \in RichGroups(rows, blocked), NEW h \in RichGroups(rows, blocked), g # h
    PROVE  g.entries \cap h.entries = {}
<1>1. PICK c \in Segments(rows) : g = RichGroup(c, OwnedTargets(rows, c, blocked))
    BY Zenon DEF RichGroups
<1>2. PICK d \in Segments(rows) : h = RichGroup(d, OwnedTargets(rows, d, blocked))
    BY Zenon DEF RichGroups
<1>3. c # d
    BY <1>1, <1>2, Zenon
<1>4. g.entries = OwnedTargets(rows, c, blocked) /\ h.entries = OwnedTargets(rows, d, blocked)
    BY <1>1, <1>2, RichGroupShape, Zenon
<1>5. ASSUME NEW t, t \in OwnedTargets(rows, c, blocked), t \in OwnedTargets(rows, d, blocked)
      PROVE  FALSE
    BY <1>3, <1>5, OneOwner, Zenon
<1> QED BY <1>4, <1>5

\* ... and the groups have exactly the tasks that the rows ask for: authorized by
\* a row, denied by none, not a broadcast address, not found dead.
THEOREM RichGroupsAreComplete ==
    ASSUME NEW S, NEW rows \in Seq(S), NEW blocked, NEW fallback,
           HasRichRecords(rows), \A i \in DOMAIN rows : rows[i].rich
    PROVE  UNION {g.entries : g \in RichGroups(rows, blocked)} = AllTasks(rows, fallback, blocked)
<1> DEFINE Owned(c) == OwnedTargets(rows, c, blocked)
           All == AllTasks(rows, fallback, blocked)
<1>1. \A t : t \in All <=> \E i \in DOMAIN rows : t \in RichTargets(rows, i, blocked)
    <2> DEFINE Pairs(i) == (RichTargetIPs(rows[i]) \ blocked) \X {rows[i].port}
               I == {i \in DOMAIN rows : rows[i].valid /\ ~rows[i].deny}
    <2>1. All = (UNION {Pairs(i) : i \in I}) \ DeniedKeys(rows)
        BY Zenon DEF AllTasks
    <2>2. \A i \in I : RichTargets(rows, i, blocked) = Pairs(i) \ DeniedKeys(rows)
        BY DEF RichTargets, Reachable, RichRecordDenied
    <2>3. \A i \in DOMAIN rows : i \in I \/ RichTargets(rows, i, blocked) = {}
        BY DEF RichTargets, RichRecordDenied
    <2>4. I \subseteq DOMAIN rows
        OBVIOUS
    <2> HIDE DEF All, Pairs, I
    <2> QED BY <2>1, <2>2, <2>3, <2>4
<1>2. \A t : t \in All <=> \E c \in Segments(rows) : t \in Owned(c)
    <2>1. ASSUME NEW t, t \in All PROVE \E c \in Segments(rows) : t \in Owned(c)
        BY <1>1, <2>1, SomeOwner, Zenon
    <2>2. ASSUME NEW t, NEW c \in Segments(rows), t \in Owned(c) PROVE t \in All
        BY <1>1, <2>2, OwnedHasFirst, Zenon
    <2> QED BY <2>1, <2>2, Zenon
<1>3. \A t : (\E g \in RichGroups(rows, blocked) : t \in g.entries)
                <=> \E c \in Segments(rows) : t \in Owned(c)
    <2>1. ASSUME NEW t, NEW g \in RichGroups(rows, blocked), t \in g.entries
          PROVE  \E c \in Segments(rows) : t \in Owned(c)
        <3>1. PICK c \in Segments(rows) : g = RichGroup(c, Owned(c))
            BY Zenon DEF RichGroups
        <3>2. g.entries = Owned(c)
            BY <3>1, RichGroupShape, Zenon
        <3> QED BY <2>1, <3>2
    <2>2. ASSUME NEW t, NEW c \in Segments(rows), t \in Owned(c)
          PROVE  \E g \in RichGroups(rows, blocked) : t \in g.entries
        <3>1. Owned(c) # {}
            BY <2>2
        <3>2. RichGroup(c, Owned(c)) \in RichGroups(rows, blocked)
            BY <3>1, Zenon DEF RichGroups
        <3>3. RichGroup(c, Owned(c)).entries = Owned(c)
            BY RichGroupShape, Zenon
        <3> HIDE DEF Owned
        <3> QED BY <2>2, <3>2, <3>3
    <2> QED BY <2>1, <2>2, Zenon
<1> HIDE DEF All, Owned
<1>4. \A t : t \in UNION {g.entries : g \in RichGroups(rows, blocked)} <=> t \in All
    BY <1>2, <1>3, Zenon
<1>5. UNION {g.entries : g \in RichGroups(rows, blocked)} = All
    BY <1>4
<1> QED BY <1>5 DEF All

-----------------------------------------------------------------------------
(* Basic rows without ports *)

\* The addresses that the rows of a segment bring, and those that it keeps.
Brought(rows, c, blocked) ==
    UNION {BasicTargetIPs(rows[i], blocked) : i \in {j \in DOMAIN rows : rows[j].seg = c}}

\* Those that no earlier segment has.
KeptBy(rows, c, blocked) ==
    {a \in Brought(rows, c, blocked) :
        \A d \in Segments(rows) : CIDRBefore(d, c) => a \notin Brought(rows, d, blocked)}

\* The groups of the fallback ports in these words.
LEMMA FallbackShape ==
    ASSUME NEW rows, NEW ports, NEW blocked
    PROVE  FallbackGroups(rows, ports, blocked) =
               {BasicGroup(c, ports, KeptBy(rows, c, blocked)) :
                   c \in {s \in Segments(rows) : KeptBy(rows, s, blocked) # {}}}
BY Zenon DEF FallbackGroups, KeptBy, Brought

\* The fields of a basic group.
LEMMA BasicGroupShape ==
    ASSUME NEW c, NEW ports, NEW ips
    PROVE  BasicGroup(c, ports, ips).cidr = c /\ BasicGroup(c, ports, ips).entries = ips
BY DEF BasicGroup, Group

\* Segments are in a strict order.
SegmentType == [lo : Int, size : Int]

\* Segments are totally ordered.
LEMMA CIDROrder ==
    ASSUME NEW c \in SegmentType, NEW d \in SegmentType, NEW e \in SegmentType
    PROVE  /\ ~CIDRBefore(c, c)
           /\ CIDRBefore(c, d) /\ CIDRBefore(d, e) => CIDRBefore(c, e)
           /\ c = d \/ CIDRBefore(c, d) \/ CIDRBefore(d, c)
<1>1. c.lo = d.lo /\ c.size = d.size => c = d
    BY DEF SegmentType
<1> QED BY <1>1 DEF SegmentType, CIDRBefore

\* Of some segments of a file one is before all others.
LEMMA FirstSegment ==
    ASSUME NEW S, NEW rows \in Seq(S), Segments(rows) \subseteq SegmentType,
           NEW C \in SUBSET Segments(rows), C # {}
    PROVE  \E c \in C : \A d \in C : ~CIDRBefore(d, c)
<1> DEFINE Below(c) == {i \in DOMAIN rows : CIDRBefore(rows[i].seg, c)}
           ranks == {Cardinality(Below(c)) : c \in C}
<1>1. IsFiniteSet(DOMAIN rows)
    <2>1. DOMAIN rows = 1..Len(rows) /\ Len(rows) \in Nat
        OBVIOUS
    <2> QED BY <2>1, FS_Interval
<1>2. \A c : IsFiniteSet(Below(c)) /\ Cardinality(Below(c)) \in Nat
    BY <1>1, FS_Subset, FS_CardinalityType
<1>3. ranks \subseteq Nat /\ ranks # {}
    BY <1>2
<1>4. PICK c \in C : \A d \in C : Cardinality(Below(c)) <= Cardinality(Below(d))
    <2>1. PICK x \in ranks : \A y \in ranks : x <= y
        BY <1>3, LeastIndex
    <2> HIDE DEF Below
    <2> QED BY <2>1
<1>5. ASSUME NEW d \in C, CIDRBefore(d, c) PROVE FALSE
    <2>1. c \in SegmentType /\ d \in SegmentType /\ \A i \in DOMAIN rows : rows[i].seg \in SegmentType
        BY DEF Segments
    <2>2. Below(d) \subseteq Below(c)
        BY <1>5, <2>1, CIDROrder
    <2>3. PICK i \in DOMAIN rows : rows[i].seg = d
        BY DEF Segments
    <2>4. i \in Below(c) /\ i \notin Below(d)
        BY <1>5, <2>1, <2>3, CIDROrder
    <2>5. Cardinality(Below(d)) <= Cardinality(Below(c)) /\ Cardinality(Below(d)) # Cardinality(Below(c))
        BY <1>2, <2>2, <2>4, FS_Subset
    <2> HIDE DEF Below
    <2> QED BY <1>2, <1>4, <2>5
<1> QED BY <1>4, <1>5

\* However the segments of a basic file overlap, no address is in two of the
\* groups that share the fallback ports.
THEOREM FallbackGroupsAreDisjoint ==
    ASSUME NEW rows, NEW ports, NEW blocked, Segments(rows) \subseteq SegmentType,
           NEW g \in FallbackGroups(rows, ports, blocked),
           NEW h \in FallbackGroups(rows, ports, blocked), g # h
    PROVE  g.entries \cap h.entries = {}
<1>1. PICK c \in Segments(rows) : g = BasicGroup(c, ports, KeptBy(rows, c, blocked))
    BY FallbackShape, Zenon
<1>2. PICK d \in Segments(rows) : h = BasicGroup(d, ports, KeptBy(rows, d, blocked))
    BY FallbackShape, Zenon
<1>3. c # d
    BY <1>1, <1>2, Zenon
<1>4. CIDRBefore(c, d) \/ CIDRBefore(d, c)
    BY <1>3, CIDROrder
<1>5. g.entries = KeptBy(rows, c, blocked) /\ h.entries = KeptBy(rows, d, blocked)
    <2>1. \A e, ips : BasicGroup(e, ports, ips).entries = ips
        BY DEF BasicGroup, Group
    <2> QED BY <1>1, <1>2, <2>1, Zenon
<1>6. KeptBy(rows, c, blocked) \cap KeptBy(rows, d, blocked) = {}
    BY <1>4 DEF KeptBy
<1> QED BY <1>5, <1>6

\* ... and the groups have exactly the addresses that the rows bring.
THEOREM FallbackGroupsAreComplete ==
    ASSUME NEW S, NEW rows \in Seq(S), NEW ports, NEW blocked, Segments(rows) \subseteq SegmentType
    PROVE  UNION {g.entries : g \in FallbackGroups(rows, ports, blocked)}
               = UNION {BasicTargetIPs(rows[i], blocked) : i \in DOMAIN rows}
<1> DEFINE K(c) == KeptBy(rows, c, blocked)
           B(c) == Brought(rows, c, blocked)
           F == FallbackGroups(rows, ports, blocked)
           G(c) == BasicGroup(c, ports, K(c))
<1>1. \A a, c : a \in B(c) <=> \E i \in DOMAIN rows : rows[i].seg = c /\ a \in BasicTargetIPs(rows[i], blocked)
    BY DEF Brought
<1>2. \A a, c : a \in K(c) <=> a \in B(c) /\ \A d \in Segments(rows) : CIDRBefore(d, c) => a \notin B(d)
    BY DEF KeptBy
<1>3. F = {G(c) : c \in {s \in Segments(rows) : K(s) # {}}} /\ \A c : G(c).entries = K(c)
    BY FallbackShape, BasicGroupShape, Zenon
<1> HIDE DEF K, B, F, G
<1>4. ASSUME NEW a, NEW i \in DOMAIN rows, a \in BasicTargetIPs(rows[i], blocked)
      PROVE  \E c \in Segments(rows) : a \in K(c)
    <2> DEFINE C == {c \in Segments(rows) : a \in B(c)}
    <2>1. C \in SUBSET Segments(rows) /\ rows[i].seg \in C
        BY <1>1, <1>4 DEF Segments
    <2>2. C # {}
        BY <2>1
    <2> HIDE DEF C
    <2>3. PICK c \in C : \A d \in C : ~CIDRBefore(d, c)
        BY <2>1, <2>2, FirstSegment, Zenon
    <2>4. c \in Segments(rows) /\ a \in K(c)
        BY <1>2, <2>3 DEF C
    <2> QED BY <2>4
<1>5. ASSUME NEW a, NEW c \in Segments(rows), a \in K(c)
      PROVE  \E i \in DOMAIN rows : a \in BasicTargetIPs(rows[i], blocked)
    BY <1>1, <1>2, <1>5
<1>6. \A a : (\E g \in F : a \in g.entries) <=> \E c \in Segments(rows) : a \in K(c)
    BY <1>3
<1>7. \A a : a \in UNION {g.entries : g \in F} <=> \E g \in F : a \in g.entries
    OBVIOUS
<1>8. \A a : a \in UNION {BasicTargetIPs(rows[i], blocked) : i \in DOMAIN rows}
                <=> \E i \in DOMAIN rows : a \in BasicTargetIPs(rows[i], blocked)
    OBVIOUS
<1>9. \A a : a \in UNION {g.entries : g \in F}
                <=> a \in UNION {BasicTargetIPs(rows[i], blocked) : i \in DOMAIN rows}
    BY <1>4, <1>5, <1>6, <1>7, <1>8, Zenon
<1>10. UNION {g.entries : g \in F} = UNION {BasicTargetIPs(rows[i], blocked) : i \in DOMAIN rows}
    BY <1>9
<1> QED BY <1>10 DEF F

-----------------------------------------------------------------------------
(* Segments that do not overlap *)

\* Valid rows have their selector in their segment, and the segments of two valid
\* rows are the same or apart.
Inside(rows) ==
    \A i \in DOMAIN rows :
        rows[i].valid => Addresses(rows[i].sel) \subseteq Addresses(rows[i].seg)

\* Different segments have no address in common.
Apart(rows) ==
    \A i, j \in DOMAIN rows :
        rows[i].valid /\ rows[j].valid /\ rows[i].seg # rows[j].seg
            => Addresses(rows[i].seg) \cap Addresses(rows[j].seg) = {}

\* The rows of a segment.
SegmentRows(rows, c) == {rows[i] : i \in {j \in DOMAIN rows : rows[j].seg = c}}

\* A row brings only addresses of its segment.
LEMMA RichInside ==
    ASSUME NEW rows, NEW blocked, Inside(rows), NEW i \in DOMAIN rows, NEW t,
           t \in RichTargets(rows, i, blocked)
    PROVE  rows[i].valid /\ t[1] \in Addresses(rows[i].seg)
<1>1. rows[i].valid
    BY DEF RichTargets
<1>2. Addresses(rows[i].sel) \subseteq Addresses(rows[i].seg)
    BY <1>1 DEF Inside
<1>3. RichTargetIPs(rows[i]) \subseteq Addresses(rows[i].seg)
    BY <1>2 DEF RichTargetIPs, FilterBoundaryBroadcast
<1>4. PICK a \in RichTargetIPs(rows[i]) : t = <<a, rows[i].port>>
    BY DEF RichTargets, Reachable
<1> QED BY <1>1, <1>3, <1>4

\* What a row brings depends on the row and on the denied keys.
RowTargets(r, denied, blocked) ==
    IF ~r.rich \/ ~r.valid \/ RichRecordDenied(r) THEN {}
    ELSE {<<a, r.port>> : a \in Reachable(RichTargetIPs(r), blocked)} \ denied

\* A row and the denied keys are all that its targets depend on.
LEMMA RowTargetsAre ==
    ASSUME NEW rows, NEW blocked, NEW i
    PROVE  RichTargets(rows, i, blocked) = RowTargets(rows[i], DeniedKeys(rows), blocked)
BY Zenon DEF RichTargets, RowTargets

\* Without overlaps a segment owns all that its rows bring.
LEMMA OwnsAll ==
    ASSUME NEW S, NEW rows \in Seq(S), NEW blocked, Inside(rows), Apart(rows), NEW c, NEW t
    PROVE  t \in OwnedTargets(rows, c, blocked) <=>
               \E r \in SegmentRows(rows, c) : t \in RowTargets(r, DeniedKeys(rows), blocked)
<1> DEFINE Brings(i) == t \in RichTargets(rows, i, blocked)
<1>1. ASSUME t \in OwnedTargets(rows, c, blocked)
      PROVE  \E r \in SegmentRows(rows, c) : t \in RowTargets(r, DeniedKeys(rows), blocked)
    <2>1. PICK i \in DOMAIN rows : rows[i].seg = c /\ t \in RichTargets(rows, i, blocked)
        BY <1>1, OwnedHasFirst, Zenon
    <2>2. rows[i] \in SegmentRows(rows, c)
        BY <2>1 DEF SegmentRows
    <2> QED BY <2>1, <2>2, RowTargetsAre, Zenon
<1>2. ASSUME NEW r \in SegmentRows(rows, c), t \in RowTargets(r, DeniedKeys(rows), blocked)
      PROVE  t \in OwnedTargets(rows, c, blocked)
    <2>1. PICK k \in DOMAIN rows : rows[k] = r /\ rows[k].seg = c
        BY DEF SegmentRows
    <2>2. t \in RichTargets(rows, k, blocked)
        BY <1>2, <2>1, RowTargetsAre, Zenon
    <2>3. PICK d \in Segments(rows) : t \in OwnedTargets(rows, d, blocked)
        BY <2>2, SomeOwner, Zenon
    <2>4. PICK i \in DOMAIN rows : rows[i].seg = d /\ t \in RichTargets(rows, i, blocked)
        BY <2>3, OwnedHasFirst, Zenon
    <2>5. /\ rows[k].valid /\ t[1] \in Addresses(rows[k].seg)
          /\ rows[i].valid /\ t[1] \in Addresses(rows[i].seg)
        BY <2>2, <2>4, RichInside, Zenon
    <2>6. c = d
        BY <2>1, <2>4, <2>5 DEF Apart
    <2> QED BY <2>3, <2>6
<1> QED BY <1>1, <1>2

\* With segments that do not overlap, a resumed run that expands only a part of the
\* rows (FilterRecords: all rows of the segments that are left, and all deny rows) gives
\* each of these segments the group it had, task for task in the same order,
\* so that an index of the snapshot still means the same target.
THEOREM FilteredGroupsStay ==
    ASSUME NEW S, NEW rows \in Seq(S), NEW part \in Seq(S), NEW blocked, NEW c,
           Inside(rows), Apart(rows), Inside(part), Apart(part),
           SegmentRows(part, c) = SegmentRows(rows, c), DeniedKeys(part) = DeniedKeys(rows)
    PROVE  RichGroup(c, OwnedTargets(part, c, blocked)) = RichGroup(c, OwnedTargets(rows, c, blocked))
<1>1. \A t : t \in OwnedTargets(part, c, blocked) <=> t \in OwnedTargets(rows, c, blocked)
    BY OwnsAll, Zenon
<1>2. OwnedTargets(part, c, blocked) = OwnedTargets(rows, c, blocked)
    BY <1>1
<1> QED BY <1>2

-----------------------------------------------------------------------------
(* The estimate *)

\* The guard that divides says the same as the product it avoids.
LEMMA DivisionGuard ==
    ASSUME NEW x \in Nat, NEW y \in Nat, NEW p \in Nat \ {0}
    PROVE  x > y \div p <=> x * p > y
<1> DEFINE q == y \div p
<1>1. q \in Nat /\ q * p <= y /\ y < (q + 1) * p
    OBVIOUS
<1> HIDE DEF q
<1>2. x * p \in Nat /\ q * p \in Nat /\ (q + 1) * p \in Nat
    BY <1>1
<1>3. x <= q => x * p <= q * p
    BY <1>1
<1>4. x > q => x * p >= (q + 1) * p
    BY <1>1
<1>5. x > q <=> x * p > y
    BY <1>1, <1>2, <1>3, <1>4
<1> QED BY <1>5 DEF q

\* addCandidateCount adds without wrapping around, whatever the integer width: it
\* refuses exactly when the true count or the true byte estimate would not fit, or
\* exceeds a limit that is set, and returns the true sum otherwise.
THEOREM CountIsExact ==
    ASSUME NEW total \in 0..MaxUint64, NEW n \in 0..MaxUint64,
           NEW limits \in [count : Nat, bytes : Nat]
    PROVE  LET sum == total + n
               estimated == ExpansionBaseBytes + sum * ExpansionBytesPerCandidate
               fits == /\ sum <= MaxUint64 /\ estimated <= MaxUint64
                       /\ limits.count > 0 => sum <= limits.count
                       /\ limits.bytes > 0 => estimated <= limits.bytes
           IN  AddCandidateCount(total, n, limits) = IF fits THEN sum ELSE Refused
<1> DEFINE sum == total + n
           product == sum * ExpansionBytesPerCandidate
           estimated == ExpansionBaseBytes + product
           room == MaxUint64 - ExpansionBaseBytes
<1>1. /\ MaxUint64 \in Nat /\ ExpansionBaseBytes \in Nat /\ sum \in Nat /\ room \in Nat
      /\ ExpansionBytesPerCandidate \in Nat \ {0}
    BY LimitsAssumption
<1>2. product \in Nat
    BY <1>1
<1>3. sum > room \div ExpansionBytesPerCandidate <=> product > room
    BY <1>1, DivisionGuard
<1>4. limits.count \in Nat /\ limits.bytes \in Nat
    OBVIOUS
<1>5. AddCandidateCount(total, n, limits) =
          IF \/ n > MaxUint64 - total
             \/ sum > room \div ExpansionBytesPerCandidate
             \/ limits.count > 0 /\ sum > limits.count
             \/ limits.bytes > 0 /\ estimated > limits.bytes
          THEN Refused ELSE sum
    BY Zenon DEF AddCandidateCount, ExceedsExpansionLimits
<1>6. n > MaxUint64 - total <=> sum > MaxUint64
    BY <1>1
<1>7. AddCandidateCount(total, n, limits) =
          IF /\ sum <= MaxUint64 /\ estimated <= MaxUint64
             /\ limits.count > 0 => sum <= limits.count
             /\ limits.bytes > 0 => estimated <= limits.bytes
          THEN sum ELSE Refused
    <2> HIDE DEF sum, product
    <2> QED BY <1>1, <1>2, <1>3, <1>4, <1>5, <1>6
<1> QED BY <1>7

\* One row of the estimate.
NextCount(rows, limits, included, before, i) ==
    IF before = Refused \/ ~Counted(rows, i, included) THEN before
    ELSE AddCandidateCount(before, CandidateCount(rows, rows[i]), limits)

\* The counts of the first rows, up to n.
CountsUp(f, rows, limits, included, n) ==
    f = [i \in 0..n |-> IF i = 0 THEN 0 ELSE NextCount(rows, limits, included, f[i - 1], i)]

\* The loop of the estimate exists as a function: if it were missing for some length,
\* the one for the length before could be continued.
LEMMA CountLoop ==
    ASSUME NEW rows, NEW limits, NEW included, NEW n \in Nat
    PROVE  \E f : CountsUp(f, rows, limits, included, n)
<1> DEFINE Step(b, i) == NextCount(rows, limits, included, b, i)
           Loop(f, m) == f = [i \in 0..m |-> IF i = 0 THEN 0 ELSE Step(f[i - 1], i)]
           T == {m \in Nat : ~\E f : Loop(f, m)}
<1> HIDE DEF Step
<1>1. Loop([i \in 0..0 |-> 0], 0)
    OBVIOUS
<1>2. ASSUME NEW m \in Nat, NEW f, Loop(f, m)
      PROVE  \E g : Loop(g, m + 1)
    <2> DEFINE g == [i \in 0..(m + 1) |-> IF i = m + 1 THEN Step(f[m], m + 1) ELSE f[i]]
    <2>1. g[m] = f[m] /\ g[m + 1] = Step(f[m], m + 1)
        OBVIOUS
    <2>2. f[0] = 0 /\ \A i \in 1..m : f[i] = Step(f[i - 1], i)
        BY <1>2
    <2>3. ASSUME NEW i \in 0..(m + 1)
          PROVE  g[i] = IF i = 0 THEN 0 ELSE Step(g[i - 1], i)
        <3>1. CASE i = 0
            BY <2>2, <3>1
        <3>2. CASE i \in 1..m
            <4>1. g[i] = f[i] /\ g[i - 1] = f[i - 1] /\ i # 0
                BY <3>2
            <4> HIDE DEF g
            <4> QED BY <2>2, <3>2, <4>1
        <3>3. CASE i = m + 1
            <4>1. i - 1 = m /\ i # 0
                BY <3>3
            <4> HIDE DEF g
            <4> QED BY <2>1, <3>3, <4>1
        <3> QED BY <3>1, <3>2, <3>3
    <2>4. g = [i \in 0..(m + 1) |-> g[i]]
        OBVIOUS
    <2> HIDE DEF g
    <2>5. g = [i \in 0..(m + 1) |-> IF i = 0 THEN 0 ELSE Step(g[i - 1], i)]
        BY <2>3, <2>4
    <2> QED BY <2>5
<1> HIDE DEF Loop
<1>3. T = {}
    <2> SUFFICES ASSUME T # {} PROVE FALSE
        OBVIOUS
    <2>1. PICK m \in T : \A k \in T : m <= k
        BY LeastIndex
    <2>2. m \in Nat /\ m # 0 /\ m - 1 \in Nat /\ (m - 1) + 1 = m
        BY <1>1, <2>1
    <2>3. m - 1 \notin T
        BY <2>1, <2>2
    <2>4. PICK f : Loop(f, m - 1)
        BY <2>2, <2>3
    <2>5. \E g : Loop(g, m)
        BY <1>2, <2>2, <2>4
    <2> QED BY <2>1, <2>5
<1>4. PICK f : Loop(f, n)
    BY <1>3
<1>5. CountsUp(f, rows, limits, included, n)
    BY <1>4 DEF Loop, Step, CountsUp
<1> QED BY <1>5

\* The estimate is the last value of its loop.
LoopOf(total, rows, limits, included) ==
    /\ total[0] = 0
    /\ \A i \in 1..Len(rows) : total[i] = NextCount(rows, limits, included, total[i - 1], i)
    /\ EstimateAuthorizedCIDRRecords(rows, limits, included) = total[Len(rows)]

\* The estimate is the last of these counts.
LEMMA EstimateLoop ==
    ASSUME NEW S, NEW rows \in Seq(S), NEW limits, NEW included
    PROVE  \E total : LoopOf(total, rows, limits, included)
<1> DEFINE Loop(f) == CountsUp(f, rows, limits, included, Len(rows))
           total == CHOOSE f : Loop(f)
<1>1. EstimateAuthorizedCIDRRecords(rows, limits, included) = total[Len(rows)]
    BY Zenon DEF EstimateAuthorizedCIDRRecords, CountsUp, NextCount
<1>2. Len(rows) \in Nat
    OBVIOUS
<1>3. \E f : Loop(f)
    BY <1>2, CountLoop, Zenon
<1>4. Loop(total)
    <2> HIDE DEF Loop
    <2> QED BY <1>3, Zenon
<1> HIDE DEF total
<1>5. total[0] = 0 /\ \A i \in 1..Len(rows) : total[i] = NextCount(rows, limits, included, total[i - 1], i)
    BY <1>2, <1>4 DEF CountsUp
<1> QED BY <1>1, <1>5 DEF LoopOf

\* A count is within the limits that are set.
WithinSet(count, limits) ==
    /\ limits.count > 0 => count <= limits.count
    /\ limits.bytes > 0 => ExpansionBaseBytes + count * ExpansionBytesPerCandidate <= limits.bytes

\* Adding up does not lose sight of what it counts.
LEMMA CountStep ==
    ASSUME NEW total \in 0..MaxUint64, NEW n \in 0..MaxUint64, NEW limits \in [count : Nat, bytes : Nat],
           AddCandidateCount(total, n, limits) # Refused
    PROVE  /\ AddCandidateCount(total, n, limits) = total + n
           /\ total + n \in 0..MaxUint64 /\ WithinSet(total + n, limits)
<1> DEFINE sum == total + n
           estimated == ExpansionBaseBytes + sum * ExpansionBytesPerCandidate
           fits == /\ sum <= MaxUint64 /\ estimated <= MaxUint64
                   /\ limits.count > 0 => sum <= limits.count
                   /\ limits.bytes > 0 => estimated <= limits.bytes
<1>1. AddCandidateCount(total, n, limits) = IF fits THEN sum ELSE Refused
    BY CountIsExact, Zenon
<1>2. fits /\ AddCandidateCount(total, n, limits) = sum
    BY <1>1, Zenon
<1>3. sum \in 0..MaxUint64
    BY <1>2, LimitsAssumption
<1> QED BY <1>2, <1>3 DEF WithinSet

\* Each row brings no more than the estimate counts for it.
EachCounted(rows, included, brings) ==
    \A i \in DOMAIN rows :
        /\ IsFiniteSet(brings[i])
        /\ ~Counted(rows, i, included) => brings[i] = {}
        /\ Counted(rows, i, included) =>
              /\ CandidateCount(rows, rows[i]) \in 0..MaxUint64
              /\ Cardinality(brings[i]) <= CandidateCount(rows, rows[i])

\* All of it.
AllBrought(rows, brings) == UNION {brings[i] : i \in DOMAIN rows}

\* An estimate that keeps the limits and is not less than what there is.
Bounds(e, all, limits) ==
    /\ IsFiniteSet(all) /\ Cardinality(all) <= e
    /\ e \in Nat /\ (e > 0 => WithinSet(e, limits))

\* If no row brings more than the estimate counts for it, all rows together bring no
\* more than the estimate, which keeps the limits.
LEMMA EstimateCovers ==
    ASSUME NEW S, NEW rows \in Seq(S), NEW limits \in [count : Nat, bytes : Nat], NEW included,
           NEW brings, EachCounted(rows, included, brings),
           EstimateAuthorizedCIDRRecords(rows, limits, included) # Refused
    PROVE  Bounds(EstimateAuthorizedCIDRRecords(rows, limits, included), AllBrought(rows, brings), limits)
<1> DEFINE e == EstimateAuthorizedCIDRRecords(rows, limits, included)
           U(m) == UNION {brings[i] : i \in 1..m}
<1>0. PICK total : LoopOf(total, rows, limits, included)
    BY EstimateLoop, Zenon
<1>1. /\ total[0] = 0
      /\ \A i \in 1..Len(rows) : total[i] = NextCount(rows, limits, included, total[i - 1], i)
      /\ e = total[Len(rows)]
    BY <1>0, Zenon DEF LoopOf
<1> DEFINE Good(m) == /\ total[m] \in 0..MaxUint64 /\ IsFiniteSet(U(m)) /\ Cardinality(U(m)) <= total[m]
                      /\ total[m] > 0 => WithinSet(total[m], limits)
           T == {m \in 0..Len(rows) : total[m] # Refused /\ ~Good(m)}
<1>2. Len(rows) \in Nat /\ DOMAIN rows = 1..Len(rows)
    OBVIOUS
<1>3. Good(0)
    <2>1. U(0) = {}
        OBVIOUS
    <2>2. 0 \in 0..MaxUint64
        BY LimitsAssumption
    <2>3. IsFiniteSet(U(0)) /\ Cardinality(U(0)) = 0
        BY <2>1, FS_EmptySet, Zenon
    <2> HIDE DEF U
    <2> QED BY <1>1, <2>2, <2>3
<1>4. ASSUME NEW m \in 0..Len(rows), m # 0, total[m] # Refused,
             total[m - 1] # Refused => Good(m - 1)
      PROVE  Good(m)
    <2> DEFINE before == total[m - 1]
               n == CandidateCount(rows, rows[m])
    <2>1. m \in 1..Len(rows) /\ m \in DOMAIN rows /\ total[m] = NextCount(rows, limits, included, before, m)
        BY <1>1, <1>2, <1>4
    <2>2. before # Refused
        BY <1>4, <2>1, Zenon DEF NextCount
    <2>3. Good(m - 1)
        BY <1>4, <2>2
    <2>4. U(m) = U(m - 1) \cup brings[m]
        <3>1. \A i : i \in 1..m <=> i \in 1..(m - 1) \/ i = m
            BY <2>1
        <3> QED BY <3>1
    <2> HIDE DEF U
    <2>5. CASE ~Counted(rows, m, included)
        <3>1. total[m] = before
            BY <2>1, <2>5, Zenon DEF NextCount
        <3>2. U(m) = U(m - 1)
            BY <2>1, <2>4, <2>5 DEF EachCounted
        <3> QED BY <2>3, <3>1, <3>2
    <2>6. CASE Counted(rows, m, included)
        <3>1. total[m] = AddCandidateCount(before, n, limits)
            BY <2>1, <2>2, <2>6, Zenon DEF NextCount
        <3>2. n \in 0..MaxUint64 /\ IsFiniteSet(brings[m]) /\ Cardinality(brings[m]) <= n
            BY <2>1, <2>6, Zenon DEF EachCounted
        <3>3. before \in 0..MaxUint64 /\ IsFiniteSet(U(m - 1)) /\ Cardinality(U(m - 1)) <= before
            BY <2>3
        <3> HIDE DEF before, n
        <3>4. total[m] = before + n /\ before + n \in 0..MaxUint64 /\ WithinSet(before + n, limits)
            <4>1. AddCandidateCount(before, n, limits) # Refused
                BY <1>4, <3>1, Zenon
            <4> QED BY <3>1, <3>2, <3>3, <4>1, CountStep, Zenon
        <3>5. IsFiniteSet(U(m)) /\ Cardinality(U(m)) <= Cardinality(U(m - 1)) + Cardinality(brings[m])
            <4> DEFINE A == U(m - 1)
                       B == brings[m]
            <4>1. IsFiniteSet(A) /\ IsFiniteSet(B)
                BY <3>2, <3>3
            <4> HIDE DEF A, B
            <4>2. /\ IsFiniteSet(A \cup B)
                  /\ Cardinality(A \cup B) = Cardinality(A) + Cardinality(B) - Cardinality(A \cap B)
                BY <4>1, FS_Union
            <4>3. IsFiniteSet(A \cap B)
                BY <4>1, FS_Subset
            <4>4. /\ Cardinality(A) \in Nat /\ Cardinality(B) \in Nat /\ Cardinality(A \cap B) \in Nat
                  /\ Cardinality(A \cup B) \in Nat
                BY <4>1, <4>2, <4>3, FS_CardinalityType
            <4>5. IsFiniteSet(A \cup B) /\ Cardinality(A \cup B) <= Cardinality(A) + Cardinality(B)
                BY <4>2, <4>4
            <4> QED BY <2>4, <4>5 DEF A, B
        <3>6. Cardinality(U(m)) \in Nat /\ Cardinality(U(m - 1)) \in Nat /\ Cardinality(brings[m]) \in Nat
            BY <3>2, <3>3, <3>5, FS_CardinalityType
        <3>7. Cardinality(U(m)) <= total[m]
            BY <3>2, <3>3, <3>4, <3>5, <3>6
        <3> QED BY <3>4, <3>5, <3>7
    <2> QED BY <2>5, <2>6
<1> HIDE DEF Good
<1>5. T = {}
    <2> SUFFICES ASSUME T # {} PROVE FALSE
        OBVIOUS
    <2>1. T \subseteq Nat
        OBVIOUS
    <2>2. PICK m \in T : \A k \in T : m <= k
        BY <2>1, LeastIndex
    <2>3. m \in 0..Len(rows) /\ m # 0 /\ total[m] # Refused /\ ~Good(m)
        BY <1>3, <2>2
    <2>4. m - 1 \in 0..Len(rows) /\ ~(m <= m - 1)
        BY <1>2, <2>3
    <2>5. total[m - 1] # Refused => Good(m - 1)
        BY <2>2, <2>4
    <2> QED BY <1>4, <2>3, <2>5
<1>6. Good(Len(rows))
    BY <1>1, <1>2, <1>5
<1>7. U(Len(rows)) = AllBrought(rows, brings)
    BY <1>2 DEF AllBrought
<1>8. /\ e \in Nat /\ (e > 0 => WithinSet(e, limits))
      /\ IsFiniteSet(U(Len(rows))) /\ Cardinality(U(Len(rows))) <= e
    <2>1. e = total[Len(rows)]
        BY <1>1
    <2> HIDE DEF U, e
    <2> QED BY <2>1, <1>6 DEF Good
<1> QED BY <1>7, <1>8 DEF Bounds

\* The size of a segment is the number of its addresses.
LEMMA AddressCount ==
    ASSUME NEW s \in [lo : Int, size : Nat]
    PROVE  IsFiniteSet(Addresses(s)) /\ Cardinality(Addresses(s)) = s.size
<1>1. s.lo \in Int /\ s.size \in Nat /\ s.lo + s.size - 1 \in Int
    OBVIOUS
<1>2. /\ IsFiniteSet(Addresses(s))
      /\ Cardinality(Addresses(s)) = IF s.lo > s.lo + s.size - 1 THEN 0
                                     ELSE (s.lo + s.size - 1) - s.lo + 1
    BY <1>1, FS_Interval DEF Addresses
<1> QED BY <1>1, <1>2

\* A subset of a finite set has no more elements.
LEMMA SmallerSet ==
    ASSUME NEW A, NEW B, A \subseteq B, IsFiniteSet(B)
    PROVE  IsFiniteSet(A) /\ Cardinality(A) <= Cardinality(B)
BY FS_Subset

\* As many pairs with a port as there are addresses, at most.
LEMMA PairCount ==
    ASSUME NEW A, IsFiniteSet(A), NEW port
    PROVE  /\ IsFiniteSet({<<a, port>> : a \in A})
           /\ Cardinality({<<a, port>> : a \in A}) <= Cardinality(A)
<1> DEFINE P == {<<a, port>> : a \in A}
           f == [a \in A |-> <<a, port>>]
<1>1. f \in Surjection(A, P)
    BY DEF Surjection
<1> HIDE DEF P, f
<1>2. IsFiniteSet(P) /\ Cardinality(P) <= Cardinality(A)
    BY <1>1, FS_Surjection, Zenon
<1> QED BY <1>2 DEF P

\* What a rich row stands for: a segment, one address in it and a port.
RichRowType(r) ==
    /\ r.rich
    /\ r.valid => /\ r.seg \in [lo : Int, size : 0..MaxUint64]
                  /\ r.sel \in [lo : Int, size : {1}]

\* The estimate counts a rich row for no less than the tasks it brings.
LEMMA RichCounted ==
    ASSUME NEW S, NEW rows \in Seq(S), NEW blocked, NEW included, NEW i \in DOMAIN rows,
           RichRowType(rows[i]), rows[i].seg \in included
    PROVE  /\ IsFiniteSet(RichTargets(rows, i, blocked))
           /\ ~Counted(rows, i, included) => RichTargets(rows, i, blocked) = {}
           /\ Counted(rows, i, included) =>
                 /\ CandidateCount(rows, rows[i]) \in 0..MaxUint64
                 /\ Cardinality(RichTargets(rows, i, blocked)) <= CandidateCount(rows, rows[i])
<1> DEFINE r == rows[i]
           D == DeniedKeys(rows)
           R == RichTargets(rows, i, blocked)
<1>1. CASE ~r.valid \/ RichRecordDenied(r)
    <2>1. R = {} /\ ~Counted(rows, i, included)
        BY <1>1 DEF RichTargets, Counted, RichRowType, RichRecordDenied
    <2> QED BY <2>1, FS_EmptySet
<1>2. CASE r.valid /\ ~RichRecordDenied(r)
    <2> DEFINE ips == Addresses(IF r.all THEN r.seg ELSE r.sel)
               P == {<<a, r.port>> : a \in ips}
    <2>1. /\ r.rich /\ ~r.deny /\ r.seg \in [lo : Int, size : 0..MaxUint64]
          /\ r.sel \in [lo : Int, size : {1}] /\ 1 <= MaxUint64 /\ MaxUint64 \in Nat
        BY <1>2, LimitsAssumption DEF RichRowType, RichRecordDenied
    <2>2. R \subseteq P \ D
        BY <1>2, <2>1 DEF RichTargets, RichTargetIPs, FilterBoundaryBroadcast, Reachable
    <2>3. CASE r.all
        <3> DEFINE K == {k \in D : k[1] \in Addresses(r.seg) /\ k[2] = r.port}
        <3>1. r.seg \in [lo : Int, size : Nat] /\ ips = Addresses(r.seg) /\ r.seg.size \in 0..MaxUint64
            BY <2>1, <2>3
        <3>2. IsFiniteSet(ips) /\ Cardinality(ips) = r.seg.size
            BY <3>1, AddressCount, Zenon
        <3>3. IsFiniteSet(P) /\ Cardinality(P) <= r.seg.size
            BY <3>2, PairCount, Zenon
        <3>4. \A k \in D : \E a, b : k = <<a, b>>
            BY DEF DeniedKeys
        <3>5. K = P \cap D
            BY <3>1, <3>4
        <3>6. CandidateCount(rows, r) = r.seg.size - Cardinality(K)
            BY <2>1, <2>3, Zenon DEF CandidateCount
        <3>7. Counted(rows, i, included)
            BY <1>2, <2>1, <2>3 DEF Counted
        <3> HIDE DEF P, K, D
        <3>8. IsFiniteSet(P \ D) /\ Cardinality(P \ D) = Cardinality(P) - Cardinality(P \cap D)
            BY <3>3, FS_Difference
        <3>9. IsFiniteSet(P \cap D) /\ Cardinality(P \cap D) <= Cardinality(P)
            BY <3>3, SmallerSet
        <3>10. /\ Cardinality(P) \in Nat /\ Cardinality(P \cap D) \in Nat /\ Cardinality(P \ D) \in Nat
            BY <3>3, <3>8, <3>9, FS_CardinalityType
        <3> HIDE DEF R
        <3>11. IsFiniteSet(R) /\ Cardinality(R) <= Cardinality(P \ D) /\ Cardinality(R) \in Nat
            BY <2>2, <3>8, SmallerSet, FS_CardinalityType
        <3>12. /\ CandidateCount(rows, r) \in 0..MaxUint64
               /\ Cardinality(R) <= CandidateCount(rows, r)
            BY <2>1, <3>1, <3>3, <3>5, <3>6, <3>8, <3>9, <3>10, <3>11
        <3> QED BY <3>7, <3>11, <3>12 DEF R
    <2>4. CASE ~r.all
        <3>1. r.sel \in [lo : Int, size : Nat] /\ r.sel.size = 1 /\ ips = Addresses(r.sel)
            BY <2>1, <2>4
        <3>2. IsFiniteSet(ips) /\ Cardinality(ips) = 1
            BY <3>1, AddressCount, Zenon
        <3>3. IsFiniteSet(P) /\ Cardinality(P) <= 1
            BY <3>2, PairCount, Zenon
        <3>4. CandidateCount(rows, r) = 1
            BY <2>4, <3>1, Zenon DEF CandidateCount
        <3>5. ~Counted(rows, i, included) => R = {}
            <4>1. ips = {r.sel.lo}
                BY <2>1, <3>1 DEF Addresses
            <4>2. P = {<<r.sel.lo, r.port>>}
                BY <4>1
            <4> HIDE DEF P
            <4>3. ~Counted(rows, i, included) => <<r.sel.lo, r.port>> \in D
                BY <1>2, <2>1, <2>4 DEF Counted
            <4> HIDE DEF R, D
            <4> QED BY <2>2, <4>2, <4>3
        <3> HIDE DEF P
        <3>6. IsFiniteSet(R) /\ Cardinality(R) <= Cardinality(P)
            <4>1. R \subseteq P
                BY <2>2
            <4> HIDE DEF R
            <4> QED BY <3>3, <4>1, SmallerSet
        <3>7. Cardinality(R) \in Nat /\ Cardinality(P) \in Nat
            BY <3>3, <3>6, FS_CardinalityType
        <3>8. CandidateCount(rows, r) \in 0..MaxUint64 /\ Cardinality(R) <= CandidateCount(rows, r)
            <4> HIDE DEF R
            <4> QED BY <2>1, <3>3, <3>4, <3>6, <3>7
        <3> QED BY <3>5, <3>6, <3>8
    <2> QED BY <2>3, <2>4
<1> QED BY <1>1, <1>2

\* A smaller count keeps the limits, too.
LEMMA FewerFit ==
    ASSUME NEW m \in Nat, NEW n \in Nat, m <= n, NEW limits \in [count : Nat, bytes : Nat],
           WithinSet(n, limits)
    PROVE  WithinSet(m, limits)
<1> DEFINE p == ExpansionBytesPerCandidate
<1>1. p \in Nat /\ ExpansionBaseBytes \in Nat
    BY LimitsAssumption
<1>2. m * p \in Nat /\ n * p \in Nat /\ m * p <= n * p
    BY <1>1
<1>3. limits.count \in Nat /\ limits.bytes \in Nat
    OBVIOUS
<1> QED BY <1>1, <1>2, <1>3 DEF WithinSet

\* What is held is among what the rows bring, so it fits.
LEMMA StoredFits ==
    ASSUME NEW limits \in [count : Nat, bytes : Nat], NEW e \in Nat, e > 0 => WithinSet(e, limits),
           NEW all, IsFiniteSet(all), Cardinality(all) <= e, NEW held, held \subseteq all
    PROVE  /\ IsFiniteSet(held) /\ Cardinality(held) <= e
           /\ held # {} => WithinSet(Cardinality(held), limits)
<1>1. IsFiniteSet(held) /\ Cardinality(held) <= Cardinality(all)
    BY SmallerSet
<1>2. Cardinality(held) \in Nat /\ Cardinality(all) \in Nat
    BY <1>1, FS_CardinalityType
<1>3. Cardinality(held) <= e
    BY <1>1, <1>2
<1>4. held # {} => Cardinality(held) # 0
    BY <1>1, FS_EmptySet
<1>5. ASSUME held # {} PROVE WithinSet(Cardinality(held), limits)
    <2>1. e > 0
        BY <1>2, <1>3, <1>4, <1>5
    <2> QED BY <1>2, <1>3, <2>1, FewerFit
<1> QED BY <1>1, <1>3, <1>5

\* The targets that these segments own.
OwnedBy(rows, included, blocked) == UNION {OwnedTargets(rows, c, blocked) : c \in included}

\* What a run holds in memory of a rich file respects the limits: when the estimate of
\* EstimateAuthorizedCIDRRecords is accepted, the tasks that the segments it was made for
\* own are no more than it counted, and their true number and true bytes keep every
\* limit that is set, whatever the integer width.
THEOREM RichTasksFit ==
    ASSUME NEW S, NEW rows \in Seq(S), NEW limits \in [count : Nat, bytes : Nat],
           NEW included, NEW blocked, \A i \in DOMAIN rows : RichRowType(rows[i]),
           EstimateAuthorizedCIDRRecords(rows, limits, included) # Refused
    PROVE  LET held == OwnedBy(rows, included, blocked)
           IN  /\ IsFiniteSet(held)
               /\ Cardinality(held) <= EstimateAuthorizedCIDRRecords(rows, limits, included)
               /\ held # {} => WithinSet(Cardinality(held), limits)
<1> DEFINE e == EstimateAuthorizedCIDRRecords(rows, limits, included)
           held == OwnedBy(rows, included, blocked)
           brings == [i \in DOMAIN rows |->
                         IF rows[i].seg \in included THEN RichTargets(rows, i, blocked) ELSE {}]
           all == AllBrought(rows, brings)
<1>1. EachCounted(rows, included, brings)
    <2> SUFFICES ASSUME NEW i \in DOMAIN rows
                 PROVE  /\ IsFiniteSet(brings[i])
                        /\ ~Counted(rows, i, included) => brings[i] = {}
                        /\ Counted(rows, i, included) =>
                              /\ CandidateCount(rows, rows[i]) \in 0..MaxUint64
                              /\ Cardinality(brings[i]) <= CandidateCount(rows, rows[i])
        BY Zenon DEF EachCounted
    <2>1. CASE rows[i].seg \in included
        <3>1. brings[i] = RichTargets(rows, i, blocked)
            BY <2>1
        <3> HIDE DEF brings
        <3>2. RichRowType(rows[i])
            OBVIOUS
        <3> QED BY <2>1, <3>1, <3>2, RichCounted, Zenon
    <2>2. CASE rows[i].seg \notin included
        <3>1. brings[i] = {} /\ ~Counted(rows, i, included)
            BY <2>2 DEF Counted
        <3> HIDE DEF brings
        <3> QED BY <3>1, FS_EmptySet
    <2> QED BY <2>1, <2>2
<1>2. held \subseteq all
    <2>1. ASSUME NEW c \in included, NEW t, t \in OwnedTargets(rows, c, blocked)
          PROVE  \E i \in DOMAIN rows : t \in brings[i]
        <3>1. PICK i \in DOMAIN rows : rows[i].seg = c /\ t \in RichTargets(rows, i, blocked)
            BY <2>1, OwnedHasFirst, Zenon
        <3> QED BY <3>1
    <2> HIDE DEF brings
    <2> QED BY <2>1 DEF AllBrought, OwnedBy
<1> HIDE DEF brings
<1>3. IsFiniteSet(all) /\ Cardinality(all) <= e /\ e \in Nat /\ (e > 0 => WithinSet(e, limits))
    <2>1. Bounds(e, AllBrought(rows, brings), limits)
        BY <1>1, EstimateCovers, Zenon
    <2> QED BY <2>1 DEF Bounds
<1> HIDE DEF all, held, e
<1>4. /\ IsFiniteSet(held) /\ Cardinality(held) <= e
      /\ held # {} => WithinSet(Cardinality(held), limits)
    BY <1>2, <1>3, StoredFits, Zenon
<1> QED BY <1>4 DEF held, e

\* What a basic row stands for.
BasicRowType(r) ==
    ~r.rich /\ r.seg \in SegmentType /\ r.sel \in [lo : Int, size : 0..MaxUint64]

\* The addresses of the groups of the segments in included.
HeldBy(rows, ports, included, blocked) ==
    UNION {g.entries : g \in {h \in FallbackGroups(rows, ports, blocked) : h.cidr \in included}}

\* ... and of a basic file with fallback ports: the addresses of the groups of the
\* segments that the estimate was made for.
THEOREM FallbackAddressesFit ==
    ASSUME NEW S, NEW rows \in Seq(S), NEW limits \in [count : Nat, bytes : Nat],
           NEW included, NEW ports, NEW blocked, \A i \in DOMAIN rows : BasicRowType(rows[i]),
           EstimateAuthorizedCIDRRecords(rows, limits, included) # Refused
    PROVE  LET held == HeldBy(rows, ports, included, blocked)
           IN  /\ IsFiniteSet(held)
               /\ Cardinality(held) <= EstimateAuthorizedCIDRRecords(rows, limits, included)
               /\ held # {} => WithinSet(Cardinality(held), limits)
<1> DEFINE e == EstimateAuthorizedCIDRRecords(rows, limits, included)
           kept == {h \in FallbackGroups(rows, ports, blocked) : h.cidr \in included}
           held == UNION {g.entries : g \in kept}
           brings == [i \in DOMAIN rows |->
                         IF rows[i].seg \in included THEN BasicTargetIPs(rows[i], blocked) ELSE {}]
           all == AllBrought(rows, brings)
<1>1. EachCounted(rows, included, brings)
    <2> SUFFICES ASSUME NEW i \in DOMAIN rows
                 PROVE  /\ IsFiniteSet(brings[i])
                        /\ ~Counted(rows, i, included) => brings[i] = {}
                        /\ Counted(rows, i, included) =>
                              /\ CandidateCount(rows, rows[i]) \in 0..MaxUint64
                              /\ Cardinality(brings[i]) <= CandidateCount(rows, rows[i])
        BY Zenon DEF EachCounted
    <2> DEFINE r == rows[i]
    <2>1. ~r.rich /\ r.sel \in [lo : Int, size : Nat] /\ r.sel.size \in 0..MaxUint64
        BY LimitsAssumption DEF BasicRowType
    <2>2. IsFiniteSet(Addresses(r.sel)) /\ Cardinality(Addresses(r.sel)) = r.sel.size
        BY <2>1, AddressCount, Zenon
    <2>3. brings[i] \subseteq Addresses(r.sel)
        BY DEF BasicTargetIPs, Reachable, FilterBoundaryBroadcast
    <2>4. ~Counted(rows, i, included) => brings[i] = {}
        BY <2>1 DEF Counted
    <2>5. CandidateCount(rows, r) = r.sel.size
        BY <2>1, Zenon DEF CandidateCount
    <2> HIDE DEF brings
    <2>6. IsFiniteSet(brings[i]) /\ Cardinality(brings[i]) <= r.sel.size
        <3>1. IsFiniteSet(brings[i]) /\ Cardinality(brings[i]) <= Cardinality(Addresses(r.sel))
            BY <2>2, <2>3, SmallerSet
        <3> QED BY <2>2, <3>1
    <2> QED BY <2>1, <2>4, <2>5, <2>6
<1>2. held \subseteq all
    <2>1. ASSUME NEW g \in kept, NEW a, a \in g.entries
          PROVE  \E i \in DOMAIN rows : a \in brings[i]
        <3>1. g \in FallbackGroups(rows, ports, blocked) /\ g.cidr \in included
            OBVIOUS
        <3>2. PICK c \in Segments(rows) : g = BasicGroup(c, ports, KeptBy(rows, c, blocked))
            BY <3>1, FallbackShape, Zenon
        <3>3. \A d, ips : BasicGroup(d, ports, ips).cidr = d /\ BasicGroup(d, ports, ips).entries = ips
            BY DEF BasicGroup, Group
        <3>4. g.cidr = c /\ g.entries = KeptBy(rows, c, blocked)
            BY <3>2, <3>3, Zenon
        <3>5. c \in included /\ a \in Brought(rows, c, blocked)
            BY <2>1, <3>1, <3>4 DEF KeptBy
        <3>6. PICK i \in DOMAIN rows : rows[i].seg = c /\ a \in BasicTargetIPs(rows[i], blocked)
            BY <3>5 DEF Brought
        <3> QED BY <3>5, <3>6
    <2> HIDE DEF brings, kept
    <2> QED BY <2>1 DEF AllBrought
<1> HIDE DEF brings
<1>3. IsFiniteSet(all) /\ Cardinality(all) <= e /\ e \in Nat /\ (e > 0 => WithinSet(e, limits))
    <2>1. Bounds(e, AllBrought(rows, brings), limits)
        BY <1>1, EstimateCovers, Zenon
    <2> QED BY <2>1 DEF Bounds
<1> HIDE DEF all, held, e
<1>4. /\ IsFiniteSet(held) /\ Cardinality(held) <= e
      /\ held # {} => WithinSet(Cardinality(held), limits)
    BY <1>2, <1>3, StoredFits, Zenon
<1>5. held = HeldBy(rows, ports, included, blocked)
    BY Zenon DEF HeldBy, held, kept
<1> QED BY <1>4, <1>5, Zenon DEF e

-----------------------------------------------------------------------------
(* The duplicate table *)

\* f has the values of a loop over 1..n that starts with z and goes on with G.
LoopBy(f, V, z, G, n) ==
    f \in [0..n -> V] /\ f[0] = z /\ \A i \in 1..n : f[i] = G[<<f[i - 1], i>>]

\* Such a function exists.
LEMMA LoopExists ==
    ASSUME NEW V, NEW z \in V, NEW G \in [V \X Nat -> V], NEW n \in Nat
    PROVE  \E f : LoopBy(f, V, z, G, n)
<1> DEFINE Loop(f, m) == f \in [0..m -> V] /\ f[0] = z /\ \A i \in 1..m : f[i] = G[<<f[i - 1], i>>]
           T == {m \in Nat : ~\E f : Loop(f, m)}
<1>1. Loop([i \in 0..0 |-> z], 0)
    OBVIOUS
<1>2. ASSUME NEW m \in Nat, NEW f, Loop(f, m)
      PROVE  \E g : Loop(g, m + 1)
    <2> DEFINE w == G[<<f[m], m + 1>>]
               g == [i \in 0..(m + 1) |-> IF i = m + 1 THEN w ELSE f[i]]
    <2>1. f[m] \in V /\ w \in V
        BY <1>2
    <2> HIDE DEF w
    <2>2. g \in [0..(m + 1) -> V] /\ g[0] = z
        BY <1>2, <2>1
    <2>3. ASSUME NEW i \in 1..(m + 1) PROVE g[i] = G[<<g[i - 1], i>>]
        <3>1. CASE i \in 1..m
            <4>1. g[i] = f[i] /\ g[i - 1] = f[i - 1]
                BY <3>1
            <4> HIDE DEF g
            <4> QED BY <1>2, <3>1, <4>1
        <3>2. CASE i = m + 1
            <4>1. g[i] = w /\ g[i - 1] = f[m]
                BY <3>2
            <4> HIDE DEF g
            <4> QED BY <3>2, <4>1 DEF w
        <3> QED BY <3>1, <3>2
    <2> HIDE DEF g
    <2> QED BY <2>2, <2>3
<1> HIDE DEF Loop
<1>3. T = {}
    <2> SUFFICES ASSUME T # {} PROVE FALSE
        OBVIOUS
    <2>1. PICK m \in T : \A k \in T : m <= k
        BY LeastIndex
    <2>2. m \in Nat /\ m # 0 /\ m - 1 \in Nat /\ (m - 1) + 1 = m
        BY <1>1, <2>1
    <2>3. m - 1 \notin T
        BY <2>1, <2>2
    <2>4. PICK f : Loop(f, m - 1)
        BY <2>2, <2>3
    <2>5. \E g : Loop(g, m)
        BY <1>2, <2>2, <2>4
    <2> QED BY <2>1, <2>5
<1>4. PICK f : Loop(f, n)
    BY <1>3
<1> QED BY <1>4 DEF Loop, LoopBy

\* One step of the loop of TableCapacity.
Doubled(p, count) == IF p < count + count \div 4 THEN 2 * p ELSE p

\* The table has a slot for every row.
LEMMA CapacitySuffices ==
    ASSUME NEW count \in Nat
    PROVE  TableCapacity(count) \in Nat \ {0} /\ TableCapacity(count) >= count
<1> DEFINE t == count + count \div 4
           Loop(f) == f = [k \in 0..count |-> IF k = 0 THEN 1 ELSE Doubled(f[k - 1], count)]
           p == CHOOSE f : Loop(f)
<1>1. TableCapacity(count) = p[count]
    BY Zenon DEF TableCapacity, Doubled
<1>2. t \in Nat /\ t >= count
    OBVIOUS
<1>3. \E f : Loop(f)
    <2> DEFINE G == [x \in Nat \X Nat |-> Doubled(x[1], count)]
    <2>1. \A a \in Nat : Doubled(a, count) \in Nat
        BY <1>2 DEF Doubled
    <2>2. G \in [Nat \X Nat -> Nat] /\ \A a, b \in Nat : G[<<a, b>>] = Doubled(a, count)
        BY <2>1
    <2> HIDE DEF G
    <2>3. PICK f \in [0..count -> Nat] : f[0] = 1 /\ \A i \in 1..count : f[i] = G[<<f[i - 1], i>>]
        <3> DEFINE one == 1
        <3>1. one \in Nat
            OBVIOUS
        <3> HIDE DEF one
        <3>2. PICK f : LoopBy(f, Nat, one, G, count)
            BY <2>2, <3>1, LoopExists
        <3> QED BY <3>2 DEF one, LoopBy
    <2>4. ASSUME NEW i \in 0..count PROVE f[i] = IF i = 0 THEN 1 ELSE Doubled(f[i - 1], count)
        <3>1. CASE i = 0
            BY <2>3, <3>1
        <3>2. CASE i # 0
            <4>1. i \in 1..count /\ i - 1 \in 0..count /\ i \in Nat
                BY <3>2
            <4>2. f[i - 1] \in Nat
                BY <2>3, <4>1
            <4> QED BY <2>2, <2>3, <3>2, <4>1, <4>2
        <3> QED BY <3>1, <3>2
    <2>5. f = [i \in 0..count |-> f[i]]
        BY <2>3
    <2>6. Loop(f)
        BY <2>4, <2>5
    <2> QED BY <2>6
<1>4. Loop(p)
    <2> HIDE DEF Loop
    <2> QED BY <1>3, Zenon
<1> HIDE DEF p
<1>5. p[0] = 1 /\ \A k \in 1..count : p[k] = Doubled(p[k - 1], count)
    BY <1>4
<1> HIDE DEF t
<1> DEFINE Good(k) == p[k] \in Nat /\ p[k] >= 1 /\ (p[k] >= t \/ p[k] >= k + 1)
           T == {k \in 0..count : ~Good(k)}
<1>6. T = {}
    <2> SUFFICES ASSUME T # {} PROVE FALSE
        OBVIOUS
    <2>0. T \subseteq Nat
        OBVIOUS
    <2>1. PICK k \in T : \A j \in T : k <= j
        BY <2>0, LeastIndex
    <2>2. k # 0
        BY <1>5, <2>1
    <2>3. k \in 1..count /\ k - 1 \in 0..count /\ k - 1 \notin T
        BY <2>1, <2>2
    <2>4. Good(k - 1)
        BY <2>3
    <2>5. p[k] = IF p[k - 1] < t THEN 2 * p[k - 1] ELSE p[k - 1]
        BY <1>5, <2>3 DEF Doubled, t
    <2> DEFINE a == p[k - 1]
               b == p[k]
    <2>6. a \in Nat /\ a >= 1 /\ (a >= t \/ a >= k) /\ b = IF a < t THEN 2 * a ELSE a
        BY <2>3, <2>4, <2>5
    <2> HIDE DEF a, b
    <2>7. b \in Nat /\ b >= 1 /\ (b >= t \/ b >= k + 1)
        BY <1>2, <2>3, <2>6
    <2> QED BY <2>1, <2>7 DEF b
<1>7. Good(count)
    BY <1>6
<1> QED BY <1>1, <1>2, <1>7

\* A number has only one remainder.
LEMMA OneRemainder ==
    ASSUME NEW b \in Nat \ {0}, NEW x \in Int, NEW q \in Int, NEW r \in 0..(b - 1), x = b * q + r
    PROVE  x % b = r
<1> DEFINE d == x \div b
           s == x % b
<1>1. d \in Int /\ s \in 0..(b - 1) /\ x = b * d + s
    OBVIOUS
<1> HIDE DEF d, s
<1> DEFINE e == q - d
<1>2. e \in Int /\ b * q = b * d + b * e
    BY <1>1
<1> DEFINE u == b * e
           v == b * d
           w == b * q
<1>3. u \in Int /\ v \in Int /\ w \in Int /\ w = v + u /\ x = w + r /\ x = v + s
    BY <1>1, <1>2
<1>4. e >= 1 => u >= b
    BY <1>2
<1>5. e <= -1 => u <= -b
    BY <1>2
<1>6. e = 0 => u = 0
    OBVIOUS
<1> HIDE DEF u, v, w, e
<1>7. u = s - r
    BY <1>1, <1>3
<1>8. e = 0
    BY <1>1, <1>2, <1>4, <1>5, <1>7
<1>9. s = r
    BY <1>1, <1>6, <1>7, <1>8
<1> QED BY <1>9 DEF s

\* The slot of the k-th probe.
At(h, b, k) == ((h + k) % b) + 1

\* The probes of a hash reach every slot.
LEMMA ProbesReachAll ==
    ASSUME NEW b \in Nat \ {0}, NEW h \in Int, NEW e \in 1..b
    PROVE  \E k \in 0..(b - 1) : At(h, b, k) = e
<1> DEFINE x == e - 1 - h
           k == x % b
           q == x \div b
           nq == -q
<1>1. x \in Int /\ k \in 0..(b - 1) /\ q \in Int /\ nq \in Int /\ x = b * q + k
    OBVIOUS
<1>2. b * nq = -(b * q)
    BY <1>1
<1>3. h + k \in Int /\ h + k = b * nq + (e - 1)
    <2> DEFINE y == b * q
               z == b * nq
    <2>1. y \in Int /\ z \in Int /\ z = -y /\ x = y + k
        BY <1>1, <1>2
    <2> HIDE DEF y, z, k
    <2>2. h + k = z + (e - 1)
        BY <1>1, <2>1
    <2> QED BY <1>1, <2>2 DEF z
<1>4. e - 1 \in 0..(b - 1)
    OBVIOUS
<1> HIDE DEF x, k, q, nq
<1>5. (h + k) % b = e - 1
    BY <1>1, <1>3, <1>4, OneRemainder
<1>6. At(h, b, k) = e
    BY <1>5 DEF At
<1> QED BY <1>1, <1>6

\* Every probe is at a slot.
LEMMA AtIsSlot ==
    ASSUME NEW b \in Nat \ {0}, NEW h \in Int, NEW k \in Int
    PROVE  At(h, b, k) \in 1..b
<1>1. (h + k) % b \in 0..(b - 1)
    OBVIOUS
<1> QED BY <1>1 DEF At

\* How the search for a duplicate ends.
Verdicts == {"distinct", "duplicate", "endless"}

\* One step of the loop of DuplicateTable.
Placed(before, rows, hash, n) ==
    LET cells == before.slots
        at == Probe(cells, rows, hash, n)
    IN  IF before.verdict # "distinct" THEN before
        ELSE IF at = {} THEN [slots |-> cells, verdict |-> "endless"]
        ELSE IF \E i \in at : cells[i] # 0 THEN [slots |-> cells, verdict |-> "duplicate"]
        ELSE [slots |-> [i \in DOMAIN cells |-> IF i \in at THEN n ELSE cells[i]],
              verdict |-> "distinct"]

\* A table of cap cells, and the one before the first row.
TableType(cap) == [slots : [1..cap -> Nat], verdict : Verdicts]

\* The table before the first row.
EmptyTable(cap) == [slots |-> [i \in 1..cap |-> 0], verdict |-> "distinct"]

\* The loop starts with a table.
LEMMA EmptyTableType ==
    ASSUME NEW cap \in Nat \ {0}
    PROVE  EmptyTable(cap) \in TableType(cap)
BY DEF EmptyTable, TableType, Verdicts

\* A step leaves a table.
LEMMA PlacedType ==
    ASSUME NEW cap \in Nat \ {0}, NEW before \in TableType(cap), NEW rows, NEW hash, NEW n \in Nat
    PROVE  Placed(before, rows, hash, n) \in TableType(cap)
<1> DEFINE cells == before.slots
           at == Probe(cells, rows, hash, n)
           filled == [i \in DOMAIN cells |-> IF i \in at THEN n ELSE cells[i]]
<1>1. cells \in [1..cap -> Nat] /\ before.verdict \in Verdicts
    BY DEF TableType
<1>2. filled \in [1..cap -> Nat]
    <2> HIDE DEF at
    <2> QED BY <1>1
<1>3. Placed(before, rows, hash, n) =
          IF before.verdict # "distinct" THEN before
          ELSE IF at = {} THEN [slots |-> cells, verdict |-> "endless"]
          ELSE IF \E i \in at : cells[i] # 0 THEN [slots |-> cells, verdict |-> "duplicate"]
          ELSE [slots |-> filled, verdict |-> "distinct"]
    BY Zenon DEF Placed
<1> HIDE DEF at, filled, cells
<1>4. /\ [slots |-> cells, verdict |-> "endless"] \in TableType(cap)
      /\ [slots |-> cells, verdict |-> "duplicate"] \in TableType(cap)
      /\ [slots |-> filled, verdict |-> "distinct"] \in TableType(cap)
    BY <1>1, <1>2 DEF TableType, Verdicts
<1> QED BY <1>3, <1>4

\* f has the tables of the loop over the rows.
TablesOf(f, rows, hash, cap) ==
    /\ f[0] = EmptyTable(cap)
    /\ \A n \in 1..Len(rows) : f[n] = Placed(f[n - 1], rows, hash, n)

\* DuplicateTable is that loop.
LEMMA TableLoop ==
    ASSUME NEW R, NEW rows \in Seq(R), NEW hash
    PROVE  \E f : /\ TablesOf(f, rows, hash, TableCapacity(Len(rows)))
                  /\ DuplicateTable(rows, hash) = f[Len(rows)].verdict
<1> DEFINE cap == TableCapacity(Len(rows))
           last == Len(rows)
           Loop(f) == f = [n \in 0..last |-> IF n = 0 THEN EmptyTable(cap)
                                              ELSE Placed(f[n - 1], rows, hash, n)]
           p == CHOOSE f : Loop(f)
<1>0. last \in Nat
    OBVIOUS
<1>1. DuplicateTable(rows, hash) = p[last].verdict
    BY Zenon DEF DuplicateTable, Placed, EmptyTable
<1>2. cap \in Nat \ {0}
    BY CapacitySuffices
<1> HIDE DEF cap, last
<1>3. \E f : Loop(f)
    <2> DEFINE V == TableType(cap)
               z == EmptyTable(cap)
               G == [x \in V \X Nat |-> Placed(x[1], rows, hash, x[2])]
    <2>1. \A a \in V, n \in Nat : Placed(a, rows, hash, n) \in V
        BY <1>2, PlacedType
    <2>2. z \in V
        BY <1>2, EmptyTableType
    <2> HIDE DEF V, z
    <2>3. G \in [V \X Nat -> V] /\ \A a \in V, n \in Nat : G[<<a, n>>] = Placed(a, rows, hash, n)
        BY <2>1
    <2> HIDE DEF G
    <2>4. PICK f : LoopBy(f, V, z, G, last)
        BY <1>0, <2>2, <2>3, LoopExists
    <2>5. f \in [0..last -> V] /\ f[0] = z /\ \A i \in 1..last : f[i] = G[<<f[i - 1], i>>]
        BY <2>4 DEF LoopBy
    <2>6. ASSUME NEW i \in 0..last
          PROVE  f[i] = IF i = 0 THEN z ELSE Placed(f[i - 1], rows, hash, i)
        <3>1. CASE i = 0
            BY <2>5, <3>1
        <3>2. CASE i # 0
            <4>1. i \in 1..last /\ i - 1 \in 0..last /\ i \in Nat
                BY <1>0, <3>2
            <4>2. f[i - 1] \in V
                BY <2>5, <4>1
            <4> QED BY <2>3, <2>5, <3>2, <4>1, <4>2
        <3> QED BY <3>1, <3>2
    <2>7. f = [i \in 0..last |-> f[i]]
        BY <2>5
    <2>8. Loop(f)
        BY <2>6, <2>7 DEF z
    <2> QED BY <2>8
<1>4. Loop(p)
    <2> HIDE DEF Loop
    <2> QED BY <1>3, Zenon
<1> HIDE DEF p
<1>5. p[0] = EmptyTable(cap) /\ \A n \in 1..last : p[n] = Placed(p[n - 1], rows, hash, n)
    BY <1>0, <1>4
<1>6. TablesOf(p, rows, hash, cap)
    BY <1>5, Zenon DEF TablesOf, last
<1> QED BY <1>1, <1>6 DEF cap, last

\* A probe of row n ends at the k-th slot.
EndsAt(cells, rows, hash, cap, n, k) ==
    LET s == At(hash[rows[n]], cap, k)
    IN  cells[s] = 0 \/ SameRow(rows[cells[s]], rows[n], hash)

\* It does so at no slot before, and that is where Probe ends.
EndsFirstAt(cells, rows, hash, cap, n, k) ==
    /\ EndsAt(cells, rows, hash, cap, n, k)
    /\ \A j \in 0..(k - 1) : ~EndsAt(cells, rows, hash, cap, n, j)
    /\ Probe(cells, rows, hash, n) = {At(hash[rows[n]], cap, k)}

\* The table holds the rows 1..m, which all differ: each at a slot that a probe
\* for it reaches before an empty one.
Holds(cells, rows, hash, cap, m) ==
    /\ cells \in [1..cap -> 0..m]
    /\ \A j \in 1..m : \E k \in 0..(cap - 1) :
           /\ cells[At(hash[rows[j]], cap, k)] = j
           /\ \A l \in 0..(k - 1) : cells[At(hash[rows[j]], cap, l)] # 0
    /\ \A x, y \in 1..cap : cells[x] = cells[y] /\ cells[x] # 0 => x = y
    /\ \A i, j \in 1..m : rows[i] = rows[j] => i = j

\* No row is in two cells.
NoRowTwice(cells, cap) == \A x, y \in 1..cap : cells[x] = cells[y] /\ cells[x] # 0 => x = y

\* A table with fewer rows than cells has an empty one.
LEMMA EmptySlot ==
    ASSUME NEW cap \in Nat \ {0}, NEW m \in Nat, m < cap, NEW cells \in [1..cap -> 0..m],
           NoRowTwice(cells, cap)
    PROVE  \E e \in 1..cap : cells[e] = 0
<1> SUFFICES ASSUME \A e \in 1..cap : cells[e] # 0 PROVE FALSE
    OBVIOUS
<1> DEFINE S == 1..cap
           T == 1..m
           one == 1
<1>1. cells \in Injection(S, T)
    BY DEF Injection, IsInjective, NoRowTwice
<1>2. one \in Int /\ cap \in Int /\ m \in Int
    OBVIOUS
<1>3. S = one..cap /\ T = one..m
    OBVIOUS
<1> HIDE DEF S, T, one
<1>4. IsFiniteSet(S) /\ Cardinality(S) = IF one > cap THEN 0 ELSE cap - one + 1
    BY <1>2, <1>3, FS_Interval
<1>5. IsFiniteSet(T) /\ Cardinality(T) = IF one > m THEN 0 ELSE m - one + 1
    BY <1>2, <1>3, FS_Interval
<1>6. Cardinality(S) = cap /\ Cardinality(T) = m
    BY <1>4, <1>5 DEF one
<1>7. Cardinality(S) <= Cardinality(T)
    BY <1>1, <1>4, <1>5, FS_Injection
<1> QED BY <1>6, <1>7

\* The probe of a row ends at one slot, the first that it can end at.
LEMMA ProbeEnds ==
    ASSUME NEW cap \in Nat \ {0}, NEW m \in Nat, m < cap, NEW cells \in [1..cap -> 0..m],
           NEW rows, NEW hash, NEW n, hash[rows[n]] \in Int,
           NoRowTwice(cells, cap)
    PROVE  \E k \in 0..(cap - 1) : EndsFirstAt(cells, rows, hash, cap, n, k)
<1> DEFINE h == hash[rows[n]]
           Ends(k) == EndsAt(cells, rows, hash, cap, n, k)
           K == {k \in 0..(cap - 1) : Ends(k)}
           F == {k \in 0..(cap - 1) : Ends(k) /\ \A j \in 0..(k - 1) : ~Ends(j)}
<1>1. PICK e \in 1..cap : cells[e] = 0
    BY EmptySlot
<1>2. PICK k \in 0..(cap - 1) : At(h, cap, k) = e
    BY ProbesReachAll
<1>3. k \in K
    BY <1>1, <1>2, Zenon DEF EndsAt
<1>4. K \subseteq Nat
    OBVIOUS
<1>5. PICK q \in K : \A j \in K : q <= j
    BY <1>3, <1>4, LeastIndex
<1>6. Len(cells) = cap
    OBVIOUS
<1>7. Probe(cells, rows, hash, n) = {At(h, cap, i) : i \in F}
    <2>1. Probe(cells, rows, hash, n) =
            LET Place(i) == ((hash[rows[n]] + i) % cap) + 1
                Stop(i) == cells[Place(i)] = 0 \/ SameRow(rows[cells[Place(i)]], rows[n], hash)
            IN  {Place(i) : i \in {j \in 0..(cap - 1) : Stop(j) /\ \A l \in 0..(j - 1) : ~Stop(l)}}
        BY <1>6, Zenon DEF Probe
    <2> QED BY <2>1, Zenon DEF At, EndsAt
<1> HIDE DEF Ends, h
<1>8. F = {q}
    <2>1. q \in F
        BY <1>5
    <2>2. ASSUME NEW i \in F PROVE i = q
        <3>1. i \in K /\ q <= i /\ i \in Nat /\ q \in Nat
            BY <1>5
        <3>2. ~(q < i)
            BY <1>5, <3>1
        <3> QED BY <3>1, <3>2
    <2> QED BY <2>1, <2>2
<1>9. {At(h, cap, i) : i \in F} = {At(h, cap, q)}
    BY <1>8
<1>10. q \in 0..(cap - 1) /\ Ends(q) /\ \A j \in 0..(q - 1) : ~Ends(j)
    BY <1>8
<1> QED BY <1>7, <1>9, <1>10, Zenon DEF h, Ends, EndsFirstAt

\* One more row: it is found if it is there already, and else it is placed.
LEMMA PlaceRow ==
    ASSUME NEW R, NEW rows \in Seq(R), NEW hash \in [R -> Int], NEW n \in 1..Len(rows),
           NEW cap \in Nat \ {0}, Len(rows) <= cap, NEW before \in TableType(cap),
           before.verdict = "distinct", Holds(before.slots, rows, hash, cap, n - 1)
    PROVE  \/ /\ Placed(before, rows, hash, n).verdict = "distinct"
              /\ Holds(Placed(before, rows, hash, n).slots, rows, hash, cap, n)
           \/ /\ Placed(before, rows, hash, n).verdict = "duplicate"
              /\ \E i \in 1..(n - 1) : rows[i] = rows[n]
<1> DEFINE cells == before.slots
           h == hash[rows[n]]
           at == Probe(cells, rows, hash, n)
           filled == [i \in DOMAIN cells |-> IF i \in at THEN n ELSE cells[i]]
<1>1. Placed(before, rows, hash, n) =
          IF at = {} THEN [slots |-> cells, verdict |-> "endless"]
          ELSE IF \E i \in at : cells[i] # 0 THEN [slots |-> cells, verdict |-> "duplicate"]
          ELSE [slots |-> filled, verdict |-> "distinct"]
    BY Zenon DEF Placed
<1>2. n \in Nat /\ n - 1 \in Nat /\ n - 1 < cap /\ rows[n] \in R /\ h \in Int
    OBVIOUS
<1>3. /\ cells \in [1..cap -> 0..(n - 1)]
      /\ \A j \in 1..(n - 1) : \E k \in 0..(cap - 1) :
             /\ cells[At(hash[rows[j]], cap, k)] = j
             /\ \A l \in 0..(k - 1) : cells[At(hash[rows[j]], cap, l)] # 0
      /\ \A x, y \in 1..cap : cells[x] = cells[y] /\ cells[x] # 0 => x = y
      /\ \A i, j \in 1..(n - 1) : rows[i] = rows[j] => i = j
    BY DEF Holds
<1> HIDE DEF cells
<1>4. PICK k \in 0..(cap - 1) :
            /\ EndsAt(cells, rows, hash, cap, n, k)
            /\ \A j \in 0..(k - 1) : ~EndsAt(cells, rows, hash, cap, n, j)
            /\ at = {At(h, cap, k)}
    <2> DEFINE m == n - 1
    <2>1. m \in Nat /\ m < cap /\ cells \in [1..cap -> 0..m]
        BY <1>2, <1>3
    <2>2. NoRowTwice(cells, cap)
        BY <1>3, Zenon DEF NoRowTwice
    <2>3. hash[rows[n]] \in Int
        BY <1>2
    <2> HIDE DEF m
    <2>4. PICK k \in 0..(cap - 1) : EndsFirstAt(cells, rows, hash, cap, n, k)
        BY <2>1, <2>2, <2>3, ProbeEnds
    <2> QED BY <2>4, Zenon DEF EndsFirstAt
<1> DEFINE e == At(h, cap, k)
<1>5. e \in 1..cap
    <2>1. k \in Int
        OBVIOUS
    <2> HIDE DEF h
    <2> QED BY <1>2, <2>1, AtIsSlot
<1>6. at = {e}
    BY <1>4
<1>7. cells[e] = 0 \/ (cells[e] \in 1..(n - 1) /\ rows[cells[e]] = rows[n])
    <2>1. cells[e] = 0 \/ rows[cells[e]] = rows[n]
        BY <1>4, Zenon DEF EndsAt, SameRow
    <2>2. cells[e] \in 0..(n - 1)
        BY <1>3, <1>5
    <2> QED BY <1>2, <2>1, <2>2
<1> HIDE DEF e, at
<1>8. CASE cells[e] # 0
    <2>1. Placed(before, rows, hash, n) = [slots |-> cells, verdict |-> "duplicate"]
        BY <1>1, <1>6, <1>8
    <2> QED BY <1>7, <1>8, <2>1
<1>9. CASE cells[e] = 0
    <2>1. Placed(before, rows, hash, n) = [slots |-> filled, verdict |-> "distinct"]
        BY <1>1, <1>6, <1>9
    <2>2. /\ filled \in [1..cap -> 0..n] /\ filled[e] = n
          /\ \A x \in 1..cap : x # e => filled[x] = cells[x]
        BY <1>2, <1>3, <1>5, <1>6
    <2> HIDE DEF filled
    <2>3. \A x \in 1..cap : cells[x] # 0 => x # e /\ filled[x] = cells[x] /\ filled[x] # 0
        BY <1>9, <2>2
    <2>4. ASSUME NEW j \in 1..(n - 1) PROVE rows[j] # rows[n]
        <3> SUFFICES ASSUME rows[j] = rows[n] PROVE FALSE
            OBVIOUS
        <3>1. PICK q \in 0..(cap - 1) :
                  /\ cells[At(hash[rows[j]], cap, q)] = j
                  /\ \A l \in 0..(q - 1) : cells[At(hash[rows[j]], cap, l)] # 0
            BY <1>3
        <3>2. cells[At(h, cap, q)] = j /\ \A l \in 0..(q - 1) : cells[At(h, cap, l)] # 0
            BY <3>1
        <3>3. ~(k < q) /\ k # q
            <4>1. cells[At(h, cap, k)] = 0 /\ j # 0
                BY <1>9 DEF e
            <4> QED BY <3>2, <4>1
        <3>4. q \in 0..(k - 1)
            BY <3>3
        <3>5. EndsAt(cells, rows, hash, cap, n, q)
            BY <3>2, Zenon DEF EndsAt, SameRow
        <3> QED BY <1>4, <3>4, <3>5
    <2>5. ASSUME NEW i \in 1..n, NEW j \in 1..n, rows[i] = rows[j] PROVE i = j
        <3>1. (i = n \/ i \in 1..(n - 1)) /\ (j = n \/ j \in 1..(n - 1))
            BY <1>2
        <3> QED BY <1>3, <2>4, <2>5, <3>1
    <2>6. ASSUME NEW x \in 1..cap, NEW y \in 1..cap, filled[x] = filled[y], filled[x] # 0
          PROVE  x = y
        <3>1. \A z \in 1..cap : z # e => filled[z] \in 0..(n - 1) /\ filled[z] # n
            BY <1>2, <1>3, <2>2
        <3>2. CASE x # e /\ y # e
            BY <1>3, <2>2, <2>6, <3>2
        <3>3. CASE x = e \/ y = e
            <4>1. filled[x] = n /\ filled[y] = n
                BY <2>2, <2>6, <3>3
            <4> QED BY <3>1, <4>1
        <3> QED BY <3>2, <3>3
    <2>7. ASSUME NEW j \in 1..n
          PROVE  \E q \in 0..(cap - 1) :
                     /\ filled[At(hash[rows[j]], cap, q)] = j
                     /\ \A l \in 0..(q - 1) : filled[At(hash[rows[j]], cap, l)] # 0
        <3>1. CASE j = n
            <4>1. filled[At(h, cap, k)] = n
                BY <2>2 DEF e
            <4>2. ASSUME NEW l \in 0..(k - 1) PROVE filled[At(h, cap, l)] # 0
                <5>1. cells[At(h, cap, l)] # 0
                    BY <1>4, Zenon DEF EndsAt
                <5>2. l \in Int
                    OBVIOUS
                <5>3. At(h, cap, l) \in 1..cap
                    BY <1>2, <5>2, AtIsSlot
                <5> QED BY <2>3, <5>1, <5>3
            <4> QED BY <3>1, <4>1, <4>2
        <3>2. CASE j \in 1..(n - 1)
            <4> DEFINE g == hash[rows[j]]
            <4>1. g \in Int
                OBVIOUS
            <4>2. PICK q \in 0..(cap - 1) :
                      cells[At(g, cap, q)] = j /\ \A l \in 0..(q - 1) : cells[At(g, cap, l)] # 0
                BY <1>3, <3>2
            <4> HIDE DEF g
            <4>3. ASSUME NEW l \in Int, cells[At(g, cap, l)] # 0
                  PROVE  filled[At(g, cap, l)] = cells[At(g, cap, l)]
                <5>1. At(g, cap, l) \in 1..cap
                    BY <4>1, AtIsSlot
                <5> QED BY <2>3, <4>3, <5>1
            <4>4. filled[At(g, cap, q)] = j
                BY <4>2, <4>3
            <4>5. \A l \in 0..(q - 1) : filled[At(g, cap, l)] # 0
                BY <4>2, <4>3
            <4> QED BY <4>4, <4>5 DEF g
        <3> QED BY <1>2, <3>1, <3>2
    <2>8. Holds(filled, rows, hash, cap, n)
        BY <2>2, <2>5, <2>6, <2>7 DEF Holds
    <2> QED BY <2>1, <2>8
<1> QED BY <1>8, <1>9

\* Two rows of the first m are the same.
Repeats(rows, m) == \E i, j \in 1..m : i # j /\ rows[i] = rows[j]

\* What the table says after m rows.
TableRight(t, rows, hash, cap, m) ==
    /\ t \in TableType(cap)
    /\ \/ t.verdict = "distinct" /\ Holds(t.slots, rows, hash, cap, m)
       \/ t.verdict = "duplicate" /\ Repeats(rows, m)

\* The empty table is right about no rows.
LEMMA StartsRight ==
    ASSUME NEW rows, NEW hash, NEW cap \in Nat \ {0}
    PROVE  TableRight(EmptyTable(cap), rows, hash, cap, 0)
<1> DEFINE s == [i \in 1..cap |-> 0]
<1>1. s \in [1..cap -> 0..0] /\ \A x \in 1..cap : s[x] = 0
    OBVIOUS
<1>2. EmptyTable(cap).slots = s /\ EmptyTable(cap).verdict = "distinct"
    BY DEF EmptyTable
<1> HIDE DEF s
<1>3. Holds(s, rows, hash, cap, 0)
    BY <1>1 DEF Holds
<1> QED BY <1>2, <1>3, EmptyTableType DEF TableRight

\* One more row keeps it right.
LEMMA StaysRight ==
    ASSUME NEW R, NEW rows \in Seq(R), NEW hash \in [R -> Int], NEW n \in 1..Len(rows),
           NEW cap \in Nat \ {0}, Len(rows) <= cap, NEW t, TableRight(t, rows, hash, cap, n - 1)
    PROVE  TableRight(Placed(t, rows, hash, n), rows, hash, cap, n)
<1> DEFINE u == Placed(t, rows, hash, n)
<1>1. t \in TableType(cap) /\ n \in Nat
    BY DEF TableRight
<1>2. u \in TableType(cap)
    BY <1>1, PlacedType
<1>3. CASE t.verdict = "distinct" /\ Holds(t.slots, rows, hash, cap, n - 1)
    <2>1. \/ u.verdict = "distinct" /\ Holds(u.slots, rows, hash, cap, n)
          \/ u.verdict = "duplicate" /\ \E i \in 1..(n - 1) : rows[i] = rows[n]
        BY <1>1, <1>3, PlaceRow
    <2>2. ASSUME NEW i \in 1..(n - 1), rows[i] = rows[n] PROVE Repeats(rows, n)
        <3>1. i \in 1..n /\ n \in 1..n /\ i # n
            BY <1>1
        <3> QED BY <2>2, <3>1 DEF Repeats
    <2> HIDE DEF u
    <2> QED BY <1>2, <2>1, <2>2 DEF TableRight, u
<1>4. CASE t.verdict = "duplicate" /\ Repeats(rows, n - 1)
    <2>1. u = t
        BY <1>4, Zenon DEF Placed
    <2>2. Repeats(rows, n)
        <3>1. PICK i \in 1..(n - 1), j \in 1..(n - 1) : i # j /\ rows[i] = rows[j]
            BY <1>4 DEF Repeats
        <3>2. i \in 1..n /\ j \in 1..n
            BY <1>1
        <3> QED BY <3>1, <3>2 DEF Repeats
    <2> HIDE DEF u
    <2> QED BY <1>1, <1>4, <2>1, <2>2 DEF TableRight, u
<1> QED BY <1>3, <1>4 DEF TableRight

\* The table of ValidateIPRows finds a repeated row if and only if there is one, for
\* files of any length and whatever the hash: every probe ends, since the table
\* is never full before the last row is placed.
THEOREM DuplicateTableIsExact ==
    ASSUME NEW R, NEW rows \in Seq(R), NEW hash \in [R -> Int]
    PROVE  DuplicateTable(rows, hash) =
               IF \E i, j \in DOMAIN rows : i # j /\ rows[i] = rows[j] THEN "duplicate" ELSE "distinct"
<1> DEFINE last == Len(rows)
           cap == TableCapacity(last)
<1>0. last \in Nat /\ DOMAIN rows = 1..last
    OBVIOUS
<1>1. cap \in Nat \ {0} /\ last <= cap
    BY CapacitySuffices
<1>2. PICK f : TablesOf(f, rows, hash, cap) /\ DuplicateTable(rows, hash) = f[last].verdict
    BY TableLoop
<1> HIDE DEF cap
<1>3. f[0] = EmptyTable(cap) /\ \A n \in 1..last : f[n] = Placed(f[n - 1], rows, hash, n)
    BY <1>2, Zenon DEF TablesOf
<1> DEFINE Good(m) == TableRight(f[m], rows, hash, cap, m)
           T == {m \in 0..last : ~Good(m)}
<1>4. T = {}
    <2> SUFFICES ASSUME T # {} PROVE FALSE
        OBVIOUS
    <2>0. T \subseteq Nat
        OBVIOUS
    <2>1. PICK m \in T : \A j \in T : m <= j
        BY <2>0, LeastIndex
    <2>2. Good(0)
        BY <1>1, <1>3, StartsRight
    <2>3. m # 0
        BY <2>1, <2>2
    <2>4. m \in 1..last /\ m - 1 \in 0..last /\ m - 1 \notin T
        BY <1>0, <2>1, <2>3
    <2>5. Good(m - 1)
        BY <2>4
    <2>6. TableRight(Placed(f[m - 1], rows, hash, m), rows, hash, cap, m)
        BY <1>1, <2>4, <2>5, StaysRight
    <2>7. f[m] = Placed(f[m - 1], rows, hash, m)
        BY <1>3, <2>4
    <2>8. Good(m)
        BY <2>6, <2>7, Zenon
    <2> QED BY <2>1, <2>8
<1>5. Good(last)
    <2>1. last \in 0..last /\ last \notin T
        BY <1>0, <1>4
    <2> HIDE DEF Good
    <2> QED BY <2>1
<1>6. CASE f[last].verdict = "duplicate" /\ Repeats(rows, last)
    BY <1>0, <1>2, <1>6 DEF Repeats
<1>7. CASE f[last].verdict = "distinct" /\ Holds(f[last].slots, rows, hash, cap, last)
    <2>1. \A i, j \in 1..last : rows[i] = rows[j] => i = j
        BY <1>7 DEF Holds
    <2> QED BY <1>0, <1>2, <1>7, <2>1
<1> QED BY <1>5, <1>6, <1>7, Zenon DEF TableRight

\* No step of generate-buckets or of the scan changes the input.
LEMMA InputStays ==
    ASSUME Next
    PROVE  input' = input /\ pc # "prepare" /\ pc' # "prepare"
<1>1. ASSUME Load PROVE input' = input /\ pc # "prepare" /\ pc' # "prepare"
    BY <1>1 DEF Load, StatInput, ReadInput, ReadBounded, EndInput
<1>2. ASSUME Generate PROVE input' = input /\ pc # "prepare" /\ pc' # "prepare"
    <2>1. ASSUME GenerateGroups PROVE input' = input /\ pc # "prepare" /\ pc' # "prepare"
        <3>1. input' = input /\ pc = "loaded"
            BY <2>1 DEF GenerateGroups
        <3>2. pc' \in {"bad input", "over limit", "bad blocklist", "no port source", "fan out"}
            BY <2>1, Zenon DEF GenerateGroups, Refuse
        <3> QED BY <3>1, <3>2
    <2>2. ASSUME NEW i \in DOMAIN slots, BuildChunk(i)
          PROVE  input' = input /\ pc # "prepare" /\ pc' # "prepare"
        BY <2>2 DEF BuildChunk
    <2>3. ASSUME Interrupt \/ FanOutCancelled
          PROVE  input' = input /\ pc # "prepare" /\ pc' # "prepare"
        BY <2>3 DEF Interrupt, FanOutCancelled, Refuse
    <2>4. ASSUME SaveBuckets PROVE input' = input /\ pc # "prepare" /\ pc' # "prepare"
        <3>1. input' = input /\ pc = "fan out"
            BY <2>4 DEF SaveBuckets
        <3>2. pc' \in {"idle", "snapshot limit"}
            BY <2>4, Zenon DEF SaveBuckets, Refuse
        <3> QED BY <3>1, <3>2
    <2> QED BY <1>2, <2>1, <2>2, <2>3, <2>4 DEF Generate
<1>3. ASSUME Older PROVE input' = input /\ pc # "prepare" /\ pc' # "prepare"
    <2>1. ASSUME NEW omitPorts, NEW progress, LegacyBuckets(omitPorts, progress)
          PROVE  input' = input /\ pc # "prepare" /\ pc' # "prepare"
        <3>1. input' = input /\ pc = "stat" /\ pc' = "idle"
            BY <2>1, Zenon DEF LegacyBuckets
        <3> QED BY <3>1
    <2>2. ASSUME NewerSnapshot PROVE input' = input /\ pc # "prepare" /\ pc' # "prepare"
        <3>1. input' = input /\ pc = "stat" /\ pc' = "idle"
            BY <2>2, Zenon DEF NewerSnapshot
        <3> QED BY <3>1
    <2> QED BY <1>3, <2>1, <2>2, Zenon DEF Older
<1>4. ASSUME Scan PROVE input' = input /\ pc # "prepare" /\ pc' # "prepare"
    <2>1. ASSUME NEW portFile, NEW command, Execute(portFile, command)
          PROVE  input' = input /\ pc # "prepare" /\ pc' # "prepare"
        <3>1. input' = input /\ pc \in {"idle", "incompatible", "scan over limit"}
            BY <2>1, Zenon DEF Execute
        <3>2. pc' \in {"unreadable", "unproven", "scan over limit", "incompatible", "running"}
            BY <2>1, Zenon DEF Execute, Refuse
        <3> QED BY <3>1, <3>2
    <2>2. ASSUME NEW next, StopScan(next) PROVE input' = input /\ pc # "prepare" /\ pc' # "prepare"
        <3>1. input' = input /\ pc = "running"
            BY <2>2, Zenon DEF StopScan, EndScan
        <3>2. pc' \in {"done", "idle"}
            BY <2>2, Zenon DEF StopScan
        <3> QED BY <3>1, <3>2
    <2>3. ASSUME Crash PROVE input' = input /\ pc # "prepare" /\ pc' # "prepare"
        BY <2>3 DEF Crash, EndScan
    <2> QED BY <1>4, <2>1, <2>2, <2>3, Zenon DEF Scan
<1> QED BY <1>1, <1>2, <1>3, <1>4 DEF Next

\* The file that is scanned is one the operator has, or it was prepared and is rich.
InputKept ==
    IF pc = "prepare" THEN "file" \in DOMAIN input ELSE input \in Inputs \/ input.file.rich = TRUE

\* No step of a tool, of generate-buckets or of the scan makes it another.
LEMMA KeepsInput == PrepSpec => []InputKept
<1>1. PrepInit => InputKept
    BY SourcesAssumption DEF PrepInit, InputKept
<1>2. InputKept /\ [PrepNext]_<<vars, prepVars>> => InputKept'
    <2> SUFFICES ASSUME InputKept, [PrepNext]_<<vars, prepVars>> PROVE InputKept'
        OBVIOUS
    <2>1. ASSUME input' = input, pc' = pc PROVE InputKept'
        BY <2>1 DEF InputKept
    <2>2. CASE Work
        <3>1. input' = input /\ pc' = pc
            BY <2>2 DEF Work, vars
        <3> QED BY <2>1, <3>1
    <2>3. CASE UsePrepared
        <3> DEFINE file == [rich |-> TRUE, lines |-> out["preprocess"]]
        <3>1. pc = "prepare" /\ pc' = "stat" /\ input' = [input EXCEPT !.file = file]
            BY <2>3, Zenon DEF UsePrepared
        <3>2. "file" \in DOMAIN input
            BY <3>1 DEF InputKept
        <3>3. file.rich = TRUE
            OBVIOUS
        <3> HIDE DEF file
        <3>4. (input').file = file
            BY <3>1, <3>2
        <3>5. (input').file.rich = TRUE
            BY <3>3, <3>4
        <3>6. pc' # "prepare"
            BY <3>1
        <3> QED BY <3>5, <3>6, Zenon DEF InputKept
    <2>4. CASE Next
        BY <2>4, InputStays DEF InputKept
    <2>5. CASE UNCHANGED <<vars, prepVars>>
        BY <2>1, <2>5 DEF vars
    <2> QED BY <2>2, <2>3, <2>4, <2>5 DEF PrepNext
<1> QED BY <1>1, <1>2, PTL DEF PrepSpec

\* The rows of a basic file are a sequence and their hashes are numbers.
LEMMA BasicRowsTyped ==
    ASSUME input.file \in FileType, ~input.file.rich
    PROVE  Rows \in Seq(ToSet(Rows)) /\ Hash \in [ToSet(Rows) -> Int]
<1> DEFINE lines == input.file.lines
<1>1. lines \in Seq(BasicLineType)
    BY DEF FileType
<1>2. Rows = [i \in DOMAIN lines |-> ParseBasicRow(lines[i])]
    BY Zenon DEF Rows, RowsOf
<1> HIDE DEF lines
<1>3. DOMAIN lines = 1..Len(lines) /\ Len(lines) \in Nat
    BY <1>1
<1>4. Rows \in [1..Len(lines) -> ToSet(Rows)]
    BY <1>2, <1>3 DEF ToSet
<1>5. ASSUME NEW r \in ToSet(Rows) PROVE r.sel.lo + r.port \in Int
    <2>1. PICK i \in DOMAIN lines : r = ParseBasicRow(lines[i])
        BY <1>2, <1>3 DEF ToSet
    <2>2. lines[i] \in BasicLineType
        BY <1>1
    <2>3. lines[i].sel \in CIDRType /\ lines[i].port \in Int
        BY <2>2 DEF BasicLineType
    <2>4. r.sel = Masked(lines[i].sel) /\ r.port = lines[i].port
        BY <2>1 DEF ParseBasicRow
    <2>5. Masked(lines[i].sel).lo \in Int
        BY <2>3 DEF Masked, CIDRType
    <2> QED BY <2>3, <2>4, <2>5
<1>6. Hash \in [ToSet(Rows) -> Int]
    BY <1>5 DEF Hash
<1> QED BY <1>3, <1>4, <1>6

\* The duplicate check of the loader is exact in every reachable state.
THEOREM DuplicatesFound == PrepSpec => []DuplicatesAreFound
<1>1. InputKept => DuplicatesAreFound
    <2> SUFFICES ASSUME InputKept, pc = "loaded", ~input.file.rich
                 PROVE  DuplicateTable(Rows, Hash) =
                            IF \E i, j \in DOMAIN Rows : i # j /\ Rows[i] = Rows[j]
                            THEN "duplicate" ELSE "distinct"
        BY Zenon DEF DuplicatesAreFound
    <2>1. input \in Inputs
        BY DEF InputKept
    <2>2. input.file \in FileType
        BY <2>1, InputsAssumption, Zenon
    <2> QED BY <2>2, BasicRowsTyped, DuplicateTableIsExact
<1> QED BY <1>1, KeepsInput, PTL

-----------------------------------------------------------------------------
(* Sorting *)

\* R is a strict total order on S.
Orders(R, S) ==
    /\ \A x \in S : <<x, x>> \notin R
    /\ \A x, y, z \in S : <<x, y>> \in R /\ <<y, z>> \in R => <<x, z>> \in R
    /\ \A x, y \in S : x = y \/ <<x, y>> \in R \/ <<y, x>> \in R

\* The members of S that R has before x.
Below(x, S, R) == {y \in S : <<y, x>> \in R}

\* An element has fewer elements below it than one above it.
LEMMA RankGrows ==
    ASSUME NEW S, NEW R, IsFiniteSet(S), Orders(R, S)
    PROVE  /\ \A x \in S : /\ IsFiniteSet(Below(x, S, R))
                           /\ Cardinality(Below(x, S, R)) \in 0..(Cardinality(S) - 1)
           /\ \A x, y \in S : <<x, y>> \in R =>
                  Cardinality(Below(x, S, R)) < Cardinality(Below(y, S, R))
<1>0. Cardinality(S) \in Nat
    BY FS_CardinalityType
<1>1. ASSUME NEW x \in S
      PROVE  /\ IsFiniteSet(Below(x, S, R))
             /\ Cardinality(Below(x, S, R)) \in 0..(Cardinality(S) - 1)
    <2> DEFINE B == Below(x, S, R)
               D == S \ {x}
    <2>1. B \in SUBSET D
        BY DEF Below, Orders
    <2>2. IsFiniteSet(D) /\ Cardinality(D) = Cardinality(S) - 1
        BY FS_RemoveElement
    <2> HIDE DEF B, D
    <2>3. IsFiniteSet(B) /\ Cardinality(B) <= Cardinality(D)
        BY <2>1, <2>2, FS_Subset
    <2>4. Cardinality(B) \in Nat
        BY <2>3, FS_CardinalityType
    <2> QED BY <1>0, <2>2, <2>3, <2>4 DEF B
<1>2. ASSUME NEW x \in S, NEW y \in S, <<x, y>> \in R
      PROVE  Cardinality(Below(x, S, R)) < Cardinality(Below(y, S, R))
    <2> DEFINE B == Below(x, S, R)
               C == Below(y, S, R)
    <2>1. B \in SUBSET C /\ x \in C /\ x \notin B
        BY <1>2 DEF Below, Orders
    <2>2. IsFiniteSet(C) /\ Cardinality(C) \in Int /\ Cardinality(B) \in Int
        BY <1>1
    <2> HIDE DEF B, C
    <2>3. Cardinality(B) <= Cardinality(C) /\ (Cardinality(C) = Cardinality(B) => C = B)
        BY <2>1, <2>2, FS_Subset
    <2> QED BY <2>1, <2>2, <2>3 DEF B, C
<1> QED BY <1>1, <1>2

\* For every place there is an element.
LEMMA RankHit ==
    ASSUME NEW S, NEW R, IsFiniteSet(S), Orders(R, S), NEW k \in 1..Cardinality(S)
    PROVE  \E x \in S : Cardinality(Below(x, S, R)) = k - 1
<1> DEFINE n == Cardinality(S)
           u == n - 1
           zero == 0
           T == zero..u
           rank == [x \in S |-> Cardinality(Below(x, S, R))]
<1>0. n \in Nat /\ u \in Int /\ zero \in Int
    BY FS_CardinalityType
<1>1. rank \in [S -> T]
    BY RankGrows
<1>2. \A x, y \in S : rank[x] = rank[y] => x = y
    <2> SUFFICES ASSUME NEW x \in S, NEW y \in S, rank[x] = rank[y], x # y PROVE FALSE
        OBVIOUS
    <2>1. <<x, y>> \in R \/ <<y, x>> \in R
        BY DEF Orders
    <2>2. rank[x] < rank[y] \/ rank[y] < rank[x]
        BY <2>1, RankGrows
    <2>3. rank[x] \in Int /\ rank[y] \in Int
        BY <1>1, <1>0
    <2> HIDE DEF rank
    <2> QED BY <2>2, <2>3
<1> HIDE DEF rank
<1>3. rank \in Injection(S, T)
    BY <1>1, <1>2 DEF Injection, IsInjective
<1>4. k - 1 \in T
    BY <1>0
<1> HIDE DEF u, zero
<1>5. IsFiniteSet(T) /\ Cardinality(T) = IF zero > u THEN 0 ELSE u - zero + 1
    BY <1>0, FS_Interval
<1>6. Cardinality(T) = n
    BY <1>0, <1>5 DEF u, zero
<1> HIDE DEF T, n
<1>7. rank \in Surjection(S, T)
    BY <1>3, <1>5, <1>6, FS_Injection DEF n
<1>8. PICK x \in S : rank[x] = k - 1
    BY <1>4, <1>7 DEF Surjection
<1> QED BY <1>8 DEF rank

\* s has the elements of S, in the order R.
Enumerates(s, S, R) ==
    /\ s \in [1..Cardinality(S) -> S]
    /\ \A x \in S : \E k \in 1..Cardinality(S) : s[k] = x
    /\ \A i, j \in 1..Cardinality(S) : i < j => <<s[i], s[j]>> \in R
    /\ \A i, j \in 1..Cardinality(S) : s[i] = s[j] => i = j

\* So does a sequence that has at k an element with k - 1 others below it.
LEMMA RankedEnumerates ==
    ASSUME NEW S, NEW R, IsFiniteSet(S), Orders(R, S), NEW s \in [1..Cardinality(S) -> S],
           \A k \in 1..Cardinality(S) : Cardinality(Below(s[k], S, R)) = k - 1
    PROVE  Enumerates(s, S, R)
<1> DEFINE n == Cardinality(S)
           Rank(x) == Cardinality(Below(x, S, R))
<1>0. n \in Nat
    BY FS_CardinalityType
<1>1. \A x \in S : Rank(x) \in 0..(n - 1)
    BY RankGrows
<1>2. \A x, y \in S : <<x, y>> \in R => Rank(x) < Rank(y)
    BY RankGrows
<1>3. \A k \in 1..n : s[k] \in S /\ Rank(s[k]) = k - 1
    OBVIOUS
<1> HIDE DEF Rank, n
<1>4. ASSUME NEW x \in S, NEW y \in S, Rank(x) = Rank(y) PROVE x = y
    <2>1. Rank(x) \in Int /\ Rank(y) \in Int
        BY <1>0, <1>1
    <2>2. <<x, y>> \notin R /\ <<y, x>> \notin R
        BY <1>2, <1>4, <2>1
    <2> QED BY <2>2 DEF Orders
<1>5. ASSUME NEW x \in S PROVE \E k \in 1..n : s[k] = x
    <2> DEFINE k == Rank(x) + 1
    <2>1. k \in 1..n /\ k - 1 = Rank(x)
        BY <1>0, <1>1
    <2> HIDE DEF k
    <2>2. Rank(s[k]) = Rank(x) /\ s[k] \in S
        BY <1>3, <2>1
    <2>3. s[k] = x
        BY <1>4, <2>2
    <2> QED BY <2>1, <2>3
<1>6. ASSUME NEW i \in 1..n, NEW j \in 1..n, s[i] = s[j] PROVE i = j
    <2>1. i - 1 = j - 1
        BY <1>3, <1>6
    <2> QED BY <1>0, <2>1
<1>7. ASSUME NEW i \in 1..n, NEW j \in 1..n, i < j PROVE <<s[i], s[j]>> \in R
    <2>1. s[i] \in S /\ s[j] \in S /\ Rank(s[i]) = i - 1 /\ Rank(s[j]) = j - 1
        BY <1>3
    <2>2. <<s[j], s[i]>> \notin R
        <3> SUFFICES ASSUME <<s[j], s[i]>> \in R PROVE FALSE
            OBVIOUS
        <3>1. Rank(s[j]) < Rank(s[i])
            BY <1>2, <2>1
        <3> QED BY <1>0, <1>7, <2>1, <3>1
    <2>3. s[i] # s[j]
        BY <1>0, <1>6, <1>7
    <2> QED BY <2>1, <2>2, <2>3 DEF Orders
<1> QED BY <1>5, <1>6, <1>7 DEF Enumerates, n

-----------------------------------------------------------------------------
\* The order of numbers.
Less(I) == {p \in I \X I : p[1] < p[2]}

\* Sorted puts numbers in their order.
LEMMA SortedNumbers ==
    ASSUME NEW I \in SUBSET Int, IsFiniteSet(I)
    PROVE  Enumerates(Sorted(I, <), I, Less(I))
<1> DEFINE R == Less(I)
           n == Cardinality(I)
           Lower(x) == {y \in I : y < x}
           s == [k \in 1..n |-> CHOOSE x \in I : Cardinality(Lower(x)) = k - 1]
<1>1. Sorted(I, <) = s
    BY Zenon DEF Sorted
<1>2. Orders(R, I)
    BY DEF Orders, Less
<1>3. ASSUME NEW x \in I PROVE Below(x, I, R) = Lower(x)
    BY DEF Below, Less
<1> HIDE DEF R, Lower
<1>4. ASSUME NEW k \in 1..n PROVE s[k] \in I /\ Cardinality(Lower(s[k])) = k - 1
    <2>1. PICK x \in I : Cardinality(Below(x, I, R)) = k - 1
        BY <1>2, RankHit
    <2>2. Cardinality(Lower(x)) = k - 1
        BY <1>3, <2>1
    <2> DEFINE w == CHOOSE y \in I : Cardinality(Lower(y)) = k - 1
    <2>3. w \in I /\ Cardinality(Lower(w)) = k - 1
        BY <2>2
    <2>4. s[k] = w
        OBVIOUS
    <2> HIDE DEF s, w
    <2> QED BY <2>3, <2>4
<1> HIDE DEF s
<1>5. s \in [1..n -> I]
    <2>1. DOMAIN s = 1..n /\ s = [k \in 1..n |-> s[k]]
        BY DEF s
    <2> QED BY <1>4, <2>1
<1>6. \A k \in 1..n : Cardinality(Below(s[k], I, R)) = k - 1
    BY <1>3, <1>4
<1>7. Enumerates(s, I, R)
    BY <1>2, <1>5, <1>6, RankedEnumerates
<1> QED BY <1>1, <1>7 DEF R

-----------------------------------------------------------------------------
(* The rows of the unfinished chunks *)

\* part has the rows at the numbers at, which grow.
PartOf(part, rows, at) ==
    /\ DOMAIN at = DOMAIN part
    /\ \A k \in DOMAIN part : at[k] \in DOMAIN rows /\ part[k] = rows[at[k]]
    /\ \A i, j \in DOMAIN part : i < j => at[i] < at[j]

\* part has all deny rows, and all rows of the segments keys.
KeepsRows(part, rows, at, keys) ==
    \A i \in DOMAIN rows : RichRecordDenied(rows[i]) \/ rows[i].seg \in keys =>
        \E k \in DOMAIN part : at[k] = i

\* What Selected takes from a sequence keeps its order.
LEMMA SelectedInOrder ==
    ASSUME NEW S, NEW rows \in Seq(S), NEW I \in SUBSET DOMAIN rows
    PROVE  /\ Selected(rows, I) \in Seq(S)
           /\ \E at : /\ PartOf(Selected(rows, I), rows, at)
                      /\ \A k \in DOMAIN Selected(rows, I) : at[k] \in I
                      /\ \A i \in I : \E k \in DOMAIN Selected(rows, I) : at[k] = i
<1> DEFINE at == Sorted(I, <)
           n == Cardinality(I)
           part == [k \in 1..n |-> rows[at[k]]]
           len == Len(rows)
           one == 1
<1>1. Selected(rows, I) = part
    BY Zenon DEF Selected
<1>2. I \in SUBSET (one..len) /\ I \in SUBSET Int /\ one \in Int /\ len \in Int
    OBVIOUS
<1>3. IsFiniteSet(I)
    <2> HIDE DEF one, len
    <2> QED BY <1>2, FS_Interval, FS_Subset
<1>4. n \in Nat
    BY <1>3, FS_CardinalityType
<1> HIDE DEF at, n
<1>5. Enumerates(at, I, Less(I))
    BY <1>2, <1>3, SortedNumbers DEF at
<1>6. /\ at \in [1..n -> I]
      /\ \A x \in I : \E k \in 1..n : at[k] = x
      /\ \A i, j \in 1..n : i < j => at[i] < at[j]
    BY <1>5 DEF Enumerates, Less, n
<1>7. part \in Seq(S)
    BY <1>4, <1>6
<1>8. DOMAIN part = 1..n /\ \A k \in 1..n : part[k] = rows[at[k]]
    OBVIOUS
<1> HIDE DEF part
<1>9. PartOf(part, rows, at)
    BY <1>6, <1>8 DEF PartOf
<1>10. \A k \in DOMAIN part : at[k] \in I
    BY <1>6, <1>8
<1>11. \A i \in I : \E k \in DOMAIN part : at[k] = i
    BY <1>6, <1>8
<1> QED BY <1>1, <1>7, <1>9, <1>10, <1>11, Zenon

\* FilterRecords keeps the order of the rows.
LEMMA FilterKeepsOrder ==
    ASSUME NEW S, NEW rows \in Seq(S), NEW keys
    PROVE  /\ FilterRecords(rows, keys) \in Seq(S)
           /\ \E at : /\ PartOf(FilterRecords(rows, keys), rows, at)
                      /\ KeepsRows(FilterRecords(rows, keys), rows, at, keys)
<1> DEFINE kept == {i \in DOMAIN rows : RichRecordDenied(rows[i]) \/ rows[i].seg \in keys}
           part == Selected(rows, kept)
<1>1. FilterRecords(rows, keys) = part
    BY Zenon DEF FilterRecords
<1>2. kept \in SUBSET DOMAIN rows
    OBVIOUS
<1>3. \A i \in DOMAIN rows : RichRecordDenied(rows[i]) \/ rows[i].seg \in keys => i \in kept
    OBVIOUS
<1> HIDE DEF kept
<1>4. part \in Seq(S)
    BY <1>2, SelectedInOrder
<1>5. PICK at : PartOf(part, rows, at) /\ \A i \in kept : \E k \in DOMAIN part : at[k] = i
    BY <1>2, SelectedInOrder
<1> HIDE DEF part
<1>6. KeepsRows(part, rows, at, keys)
    BY <1>3, <1>5 DEF KeepsRows
<1> QED BY <1>1, <1>4, <1>5, <1>6

\* All deny rows are kept.
LEMMA DeniedStay ==
    ASSUME NEW rows, NEW part, NEW at, NEW keys, PartOf(part, rows, at), KeepsRows(part, rows, at, keys)
    PROVE  DeniedKeys(part) = DeniedKeys(rows)
<1> DEFINE Key(r) == <<r.sel.lo, r.port>>
           I(s) == {j \in DOMAIN s : RichRecordDenied(s[j])}
<1>1. DeniedKeys(part) = {Key(part[i]) : i \in I(part)}
    BY Zenon DEF DeniedKeys
<1>2. DeniedKeys(rows) = {Key(rows[i]) : i \in I(rows)}
    BY Zenon DEF DeniedKeys
<1> HIDE DEF Key
<1>3. ASSUME NEW k \in I(part) PROVE \E i \in I(rows) : Key(part[k]) = Key(rows[i])
    <2>1. at[k] \in I(rows) /\ part[k] = rows[at[k]]
        BY DEF PartOf
    <2> QED BY <2>1
<1>4. ASSUME NEW i \in I(rows) PROVE \E k \in I(part) : Key(rows[i]) = Key(part[k])
    <2>1. PICK k \in DOMAIN part : at[k] = i
        BY DEF KeepsRows
    <2>2. part[k] = rows[i]
        BY <2>1 DEF PartOf
    <2> QED BY <2>1, <2>2
<1> HIDE DEF I
<1>5. {Key(part[i]) : i \in I(part)} = {Key(rows[i]) : i \in I(rows)}
    BY <1>3, <1>4
<1> QED BY <1>1, <1>2, <1>5

\* A segment whose rows are all there owns at least what it owned: some of the rows
\* that were before its own may be gone.
LEMMA OwnedGrows ==
    ASSUME NEW S, NEW rows \in Seq(S), NEW part \in Seq(S), NEW at, NEW keys, NEW blocked,
           PartOf(part, rows, at), KeepsRows(part, rows, at, keys), NEW c \in keys
    PROVE  OwnedTargets(rows, c, blocked) \subseteq OwnedTargets(part, c, blocked)
<1> SUFFICES ASSUME NEW t \in OwnedTargets(rows, c, blocked)
             PROVE  t \in OwnedTargets(part, c, blocked)
    OBVIOUS
<1> DEFINE Old(i) == t \in RichTargets(rows, i, blocked)
           New(k) == t \in RichTargets(part, k, blocked)
<1>1. PICK i \in DOMAIN rows : rows[i].seg = c /\ Old(i) /\ \A j \in 1..(i - 1) : ~Old(j)
    BY OwnedHasFirst, Zenon
<1>2. PICK k \in DOMAIN part : at[k] = i
    BY <1>1 DEF KeepsRows
<1>3. \A l \in DOMAIN part : part[l] = rows[at[l]] /\ at[l] \in DOMAIN rows
    BY DEF PartOf
<1>4. \A l \in DOMAIN part : New(l) <=> Old(at[l])
    BY <1>3, DeniedStay, RowTargetsAre, Zenon
<1> HIDE DEF Old, New
<1>5. part[k].seg = c /\ New(k)
    BY <1>1, <1>2, <1>3, <1>4
<1>6. ASSUME NEW l \in 1..(k - 1) PROVE ~New(l)
    <2>1. l \in DOMAIN part /\ l < k
        OBVIOUS
    <2>2. at[l] < i /\ at[l] \in DOMAIN rows
        BY <1>2, <1>3, <2>1 DEF PartOf
    <2>3. at[l] \in 1..(i - 1)
        BY <2>2
    <2> QED BY <1>1, <1>4, <2>1, <2>3
<1>7. \E l \in DOMAIN part : part[l].seg = c /\ New(l) /\ \A j \in 1..(l - 1) : ~New(j)
    BY <1>5, <1>6
<1> QED BY <1>7, OwnedHasFirst, Zenon DEF New

\* The rows of a segment that is kept stay, and those that stay are rows of the file.
LEMMA RowsStay ==
    ASSUME NEW rows, NEW part, NEW at, NEW keys, PartOf(part, rows, at), KeepsRows(part, rows, at, keys)
    PROVE  /\ \A c \in keys : SegmentRows(part, c) = SegmentRows(rows, c)
           /\ Inside(rows) => Inside(part)
           /\ Apart(rows) => Apart(part)
           /\ \A c \in keys : c \in Segments(rows) => c \in Segments(part)
           /\ Segments(part) \subseteq Segments(rows)
<1>1. \A k \in DOMAIN part : part[k] = rows[at[k]] /\ at[k] \in DOMAIN rows
    BY DEF PartOf
<1>2. ASSUME NEW c \in keys PROVE SegmentRows(part, c) = SegmentRows(rows, c)
    <2>1. ASSUME NEW r \in SegmentRows(rows, c) PROVE r \in SegmentRows(part, c)
        <3>1. PICK i \in DOMAIN rows : r = rows[i] /\ rows[i].seg = c
            BY DEF SegmentRows
        <3>2. PICK k \in DOMAIN part : at[k] = i
            BY <3>1 DEF KeepsRows
        <3> QED BY <1>1, <3>1, <3>2 DEF SegmentRows
    <2>2. ASSUME NEW r \in SegmentRows(part, c) PROVE r \in SegmentRows(rows, c)
        BY <1>1 DEF SegmentRows
    <2> QED BY <2>1, <2>2
<1>3. Inside(rows) => Inside(part)
    BY <1>1 DEF Inside
<1>4. Apart(rows) => Apart(part)
    BY <1>1 DEF Apart
<1>5. ASSUME NEW c \in keys, c \in Segments(rows) PROVE c \in Segments(part)
    <2>1. PICK i \in DOMAIN rows : rows[i].seg = c
        BY <1>5 DEF Segments
    <2>2. PICK k \in DOMAIN part : at[k] = i
        BY <2>1 DEF KeepsRows
    <2> QED BY <1>1, <2>1, <2>2 DEF Segments
<1>6. Segments(part) \subseteq Segments(rows)
    BY <1>1 DEF Segments
<1> QED BY <1>2, <1>3, <1>4, <1>5, <1>6

-----------------------------------------------------------------------------
(* The groups of a file *)

\* A task is an address and a port.
TaskType == Int \X Int

\* The order in which a group has its tasks.
TaskOrder(T) == {p \in T \X T : TargetBefore(p[1], p[2])}

\* Sorted puts the tasks of a segment in the order of address and port.
LEMMA SortedTasks ==
    ASSUME NEW T \in SUBSET TaskType, IsFiniteSet(T)
    PROVE  Enumerates(Sorted(T, TargetBefore), T, TaskOrder(T))
<1> DEFINE R == TaskOrder(T)
           n == Cardinality(T)
           Lower(x) == {y \in T : TargetBefore(y, x)}
           s == [k \in 1..n |-> CHOOSE x \in T : Cardinality(Lower(x)) = k - 1]
<1>1. Sorted(T, TargetBefore) = s
    BY Zenon DEF Sorted
<1>2. Orders(R, T)
    <2>1. \A x, y \in T : <<x, y>> \in R <=> TargetBefore(x, y)
        BY DEF TaskOrder
    <2>2. \A x \in T : x[1] \in Int /\ x[2] \in Int /\ x = <<x[1], x[2]>>
        BY DEF TaskType
    <2>3. \A x \in T : ~TargetBefore(x, x)
        BY <2>2 DEF TargetBefore
    <2>4. \A x, y, z \in T : TargetBefore(x, y) /\ TargetBefore(y, z) => TargetBefore(x, z)
        BY <2>2 DEF TargetBefore
    <2>5. \A x, y \in T : x = y \/ TargetBefore(x, y) \/ TargetBefore(y, x)
        BY <2>2 DEF TargetBefore
    <2> HIDE DEF R
    <2> QED BY <2>1, <2>3, <2>4, <2>5 DEF Orders
<1>3. ASSUME NEW x \in T PROVE Below(x, T, R) = Lower(x)
    BY DEF Below, TaskOrder
<1> HIDE DEF R, Lower
<1>4. ASSUME NEW k \in 1..n PROVE s[k] \in T /\ Cardinality(Lower(s[k])) = k - 1
    <2>1. PICK x \in T : Cardinality(Below(x, T, R)) = k - 1
        BY <1>2, RankHit
    <2>2. Cardinality(Lower(x)) = k - 1
        BY <1>3, <2>1
    <2> DEFINE w == CHOOSE y \in T : Cardinality(Lower(y)) = k - 1
    <2>3. w \in T /\ Cardinality(Lower(w)) = k - 1
        BY <2>2
    <2>4. s[k] = w
        OBVIOUS
    <2> HIDE DEF s, w
    <2> QED BY <2>3, <2>4
<1> HIDE DEF s
<1>5. s \in [1..n -> T]
    <2>1. DOMAIN s = 1..n /\ s = [k \in 1..n |-> s[k]]
        BY DEF s
    <2> QED BY <1>4, <2>1
<1>6. \A k \in 1..n : Cardinality(Below(s[k], T, R)) = k - 1
    BY <1>3, <1>4
<1>7. Enumerates(s, T, R)
    BY <1>2, <1>5, <1>6, RankedEnumerates
<1> QED BY <1>1, <1>7 DEF R

\* The values of a function on a finite set are finitely many.
LEMMA ImageFinite ==
    ASSUME NEW D, IsFiniteSet(D), NEW f, DOMAIN f = D, f = [x \in D |-> f[x]]
    PROVE  IsFiniteSet({f[x] : x \in D})
<1> DEFINE T == {f[x] : x \in D}
<1>1. f \in Surjection(D, T)
    BY DEF Surjection
<1> QED BY <1>1, FS_Surjection, Zenon

\* Rows as the parser makes them.
RowTyped(r) ==
    /\ r.seg \in SegmentType /\ r.sel \in SegmentType /\ r.port \in Int
    /\ r.rich => r.sel.size = 1

\* All rows of a file.
AllTyped(rows) == \A i \in DOMAIN rows : RowTyped(rows[i])

\* A segment has finitely many addresses, all numbers.
LEMMA FiniteAddresses ==
    ASSUME NEW s \in SegmentType
    PROVE  IsFiniteSet(Addresses(s)) /\ Addresses(s) \in SUBSET Int
<1> DEFINE u == s.lo
           v == s.lo + s.size - 1
<1>1. u \in Int /\ v \in Int /\ Addresses(s) = u..v
    BY DEF SegmentType, Addresses
<1> HIDE DEF u, v
<1> QED BY <1>1, FS_Interval

\* What a segment owns is a finite set of tasks.
LEMMA FiniteOwned ==
    ASSUME NEW S, NEW rows \in Seq(S), AllTyped(rows), NEW c, NEW blocked
    PROVE  /\ IsFiniteSet(OwnedTargets(rows, c, blocked))
           /\ OwnedTargets(rows, c, blocked) \in SUBSET TaskType
<1> DEFINE D == DOMAIN rows
           Brings(i) == RichTargets(rows, i, blocked)
           f == [i \in D |-> Brings(i)]
           all == {f[i] : i \in D}
           owned == OwnedTargets(rows, c, blocked)
<1>1. IsFiniteSet(D)
    <2> DEFINE one == 1
               len == Len(rows)
    <2>1. D = one..len /\ one \in Int /\ len \in Int
        OBVIOUS
    <2> HIDE DEF one, len, D
    <2> QED BY <2>1, FS_Interval
<1>2. ASSUME NEW i \in D PROVE IsFiniteSet(Brings(i)) /\ Brings(i) \in SUBSET TaskType
    <2> DEFINE r == rows[i]
               ips == RichTargetIPs(r)
               P == ips \X {r.port}
    <2>1. r.seg \in SegmentType /\ r.sel \in SegmentType /\ r.port \in Int
        BY DEF AllTyped, RowTyped
    <2>2. /\ IsFiniteSet(Addresses(r.seg)) /\ Addresses(r.seg) \in SUBSET Int
          /\ IsFiniteSet(Addresses(r.sel)) /\ Addresses(r.sel) \in SUBSET Int
        BY <2>1, FiniteAddresses
    <2>3. ips \in SUBSET Addresses(r.seg) \/ ips \in SUBSET Addresses(r.sel)
        BY DEF RichTargetIPs, FilterBoundaryBroadcast
    <2> HIDE DEF ips
    <2>4. IsFiniteSet(ips) /\ ips \in SUBSET Int
        BY <2>2, <2>3, FS_Subset
    <2>5. IsFiniteSet({r.port})
        BY FS_Singleton
    <2>6. IsFiniteSet(P)
        BY <2>4, <2>5, FS_Product
    <2>7. P \in SUBSET TaskType
        BY <2>1, <2>4 DEF TaskType
    <2>8. Brings(i) \in SUBSET P
        BY DEF RichTargets, Reachable, ips
    <2> HIDE DEF P, Brings
    <2>9. IsFiniteSet(Brings(i))
        BY <2>6, <2>8, FS_Subset
    <2> QED BY <2>7, <2>8, <2>9
<1> HIDE DEF Brings
<1>3. IsFiniteSet(all)
    <2>1. DOMAIN f = D /\ f = [i \in D |-> f[i]]
        OBVIOUS
    <2> HIDE DEF f, D
    <2> QED BY <1>1, <2>1, ImageFinite
<1>4. \A i \in D : f[i] = Brings(i)
    OBVIOUS
<1> HIDE DEF f
<1>5. \A T \in all : IsFiniteSet(T) /\ T \in SUBSET TaskType
    BY <1>2, <1>4
<1>6. owned \in SUBSET UNION all
    <2>1. ASSUME NEW t \in owned PROVE \E i \in D : t \in Brings(i)
        BY OwnedHasFirst, Zenon DEF Brings
    <2> HIDE DEF owned
    <2> QED BY <1>4, <2>1
<1> HIDE DEF all, owned
<1>7. IsFiniteSet(UNION all)
    BY <1>3, <1>5, FS_UNION
<1>8. IsFiniteSet(owned)
    BY <1>6, <1>7, FS_Subset
<1>9. owned \in SUBSET TaskType
    BY <1>5, <1>6
<1> QED BY <1>8, <1>9 DEF owned

\* Groups with distinct segments, each with a sequence of tasks, none twice.
GroupTyped(g) ==
    /\ g.cidr \in SegmentType /\ g.ports \in Seq(Int)
    /\ g.tasks \in Seq(TaskType) /\ Len(g.tasks) > 0
    /\ \A i, j \in DOMAIN g.tasks : g.tasks[i] = g.tasks[j] => i = j

\* Finitely many groups of tasks, no two of one segment.
SoundGroups(Gs) ==
    /\ IsFiniteSet(Gs)
    /\ \A g \in Gs : GroupTyped(g)
    /\ \A g, h \in Gs : g.cidr = h.cidr => g = h
    /\ \A g, h \in Gs : \A i \in DOMAIN g.tasks, j \in DOMAIN h.tasks :
           g.tasks[i] = h.tasks[j] => g = h

\* The number of segments is finite.
LEMMA FiniteSegments ==
    ASSUME NEW S, NEW rows \in Seq(S)
    PROVE  IsFiniteSet(Segments(rows))
<1> DEFINE D == DOMAIN rows
           f == [i \in D |-> rows[i].seg]
           one == 1
           len == Len(rows)
<1>1. D = one..len /\ one \in Int /\ len \in Int
    OBVIOUS
<1>2. Segments(rows) = {f[i] : i \in D}
    BY DEF Segments
<1>3. DOMAIN f = D /\ f = [i \in D |-> f[i]]
    OBVIOUS
<1> HIDE DEF f, D, one, len
<1>4. IsFiniteSet(D)
    BY <1>1, FS_Interval
<1> QED BY <1>2, <1>3, <1>4, ImageFinite

\* The tasks of a rich group are what its segment owns, in order.
LEMMA RichTasks ==
    ASSUME NEW S, NEW rows \in Seq(S), AllTyped(rows), NEW c \in Segments(rows), NEW blocked,
           OwnedTargets(rows, c, blocked) # {}
    PROVE  LET owned == OwnedTargets(rows, c, blocked)
               g == RichGroup(c, owned)
           IN  /\ GroupTyped(g)
               /\ Len(g.tasks) = Cardinality(owned)
               /\ \A t : t \in owned <=> \E k \in DOMAIN g.tasks : g.tasks[k] = t
<1> DEFINE owned == OwnedTargets(rows, c, blocked)
           s == Sorted(owned, TargetBefore)
           n == Cardinality(owned)
           g == RichGroup(c, owned)
<1>1. IsFiniteSet(owned) /\ owned \in SUBSET TaskType
    BY FiniteOwned
<1>2. c \in SegmentType
    BY DEF AllTyped, RowTyped, Segments
<1>3. owned # {}
    OBVIOUS
<1>4. g.cidr = c /\ g.ports = <<s[1][2]>> /\ g.tasks = s
    BY DEF RichGroup, Group
<1> HIDE DEF owned, g
<1>5. n \in Nat /\ n # 0
    BY <1>1, <1>3, FS_CardinalityType, FS_EmptySet
<1>6. Enumerates(s, owned, TaskOrder(owned))
    BY <1>1, SortedTasks
<1> HIDE DEF s, n
<1>7. /\ s \in [1..n -> owned]
      /\ \A x \in owned : \E k \in 1..n : s[k] = x
      /\ \A i, j \in 1..n : s[i] = s[j] => i = j
    BY <1>6 DEF Enumerates, n
<1>8. s \in Seq(owned) /\ Len(s) = n /\ DOMAIN s = 1..n
    BY <1>5, <1>7
<1>9. s \in Seq(TaskType) /\ s[1] \in TaskType
    BY <1>1, <1>5, <1>7, <1>8
<1>10. g.ports \in Seq(Int)
    BY <1>4, <1>9 DEF TaskType
<1>11. Len(g.tasks) = n /\ n > 0 /\ DOMAIN g.tasks = 1..n
    BY <1>4, <1>5, <1>8
<1>12. GroupTyped(g)
    BY <1>2, <1>4, <1>7, <1>9, <1>10, <1>11 DEF GroupTyped
<1>13. \A t : t \in owned <=> \E k \in DOMAIN g.tasks : g.tasks[k] = t
    BY <1>4, <1>7, <1>11
<1> QED BY <1>11, <1>12, <1>13 DEF owned, g, n

\* The groups of a rich file are sound.
LEMMA RichGroupsSound ==
    ASSUME NEW S, NEW rows \in Seq(S), AllTyped(rows), NEW blocked
    PROVE  SoundGroups(RichGroups(rows, blocked))
<1> DEFINE Gs == RichGroups(rows, blocked)
           Owned(c) == OwnedTargets(rows, c, blocked)
           C == {s \in Segments(rows) : Owned(s) # {}}
           f == [c \in C |-> RichGroup(c, Owned(c))]
<1>1. Gs = {f[c] : c \in C}
    BY DEF RichGroups
<1>2. IsFiniteSet(C)
    BY FiniteSegments, FS_Subset
<1>3. \A c \in C : f[c] = RichGroup(c, Owned(c))
    OBVIOUS
<1>4. DOMAIN f = C /\ f = [c \in C |-> f[c]]
    OBVIOUS
<1> HIDE DEF f
<1>5. IsFiniteSet(Gs)
    <2> HIDE DEF C
    <2> QED BY <1>1, <1>2, <1>4, ImageFinite
<1>6. ASSUME NEW g \in Gs
      PROVE  \E c \in Segments(rows) :
                 /\ g.cidr = c /\ g = RichGroup(c, Owned(c)) /\ GroupTyped(g)
                 /\ \A k \in DOMAIN g.tasks : g.tasks[k] \in Owned(c)
    <2>1. PICK c \in C : g = RichGroup(c, Owned(c))
        BY <1>1, <1>3
    <2>2. c \in Segments(rows) /\ Owned(c) # {}
        OBVIOUS
    <2>3. GroupTyped(g) /\ \A k \in DOMAIN g.tasks : g.tasks[k] \in Owned(c)
        BY <2>1, <2>2, RichTasks
    <2>4. g.cidr = c
        BY <2>1, RichGroupShape, Zenon
    <2> QED BY <2>1, <2>2, <2>3, <2>4
<1> HIDE DEF Gs, C
<1>7. ASSUME NEW g \in Gs, NEW h \in Gs, g.cidr = h.cidr PROVE g = h
    BY <1>6, <1>7, Zenon
<1>8. ASSUME NEW g \in Gs, NEW h \in Gs, NEW i \in DOMAIN g.tasks, NEW j \in DOMAIN h.tasks,
             g.tasks[i] = h.tasks[j]
      PROVE  g = h
    <2>1. PICK c : g.cidr = c /\ g.tasks[i] \in Owned(c)
        BY <1>6
    <2>2. PICK d : h.cidr = d /\ h.tasks[j] \in Owned(d)
        BY <1>6
    <2>3. c = d
        BY <1>8, <2>1, <2>2, OneOwner
    <2> QED BY <1>7, <2>1, <2>2, <2>3
<1>9. \A g \in Gs : GroupTyped(g)
    BY <1>6
<1>10. SoundGroups(Gs)
    BY <1>5, <1>7, <1>8, <1>9 DEF SoundGroups
<1> QED BY <1>10 DEF Gs

\* The places of a grid of m rows of n: where one is, and that every place is in it.
LEMMA GridPlace ==
    ASSUME NEW m \in Nat, NEW n \in Nat \ {0}, NEW k \in 1..(m * n)
    PROVE  /\ (k - 1) \div n \in 0..(m - 1) /\ (k - 1) % n \in 0..(n - 1)
           /\ k = n * ((k - 1) \div n) + ((k - 1) % n) + 1
<1> DEFINE x == k - 1
           q == x \div n
           r == x % n
<1>0. m * n \in Nat
    OBVIOUS
<1>1. x \in Nat /\ x < m * n
    BY <1>0
<1>2. q \in Int /\ r \in 0..(n - 1) /\ x = n * q + r
    BY <1>1
<1> HIDE DEF q, r
<1>3. q >= 0
    <2> SUFFICES ASSUME q <= -1 PROVE FALSE
        BY <1>2
    <2>1. n * q <= -n
        BY <1>2
    <2> DEFINE y == n * q
    <2>2. y \in Int /\ y <= -n /\ x = y + r
        BY <1>2, <2>1
    <2> HIDE DEF y, x
    <2> QED BY <1>1, <1>2, <2>2
<1>4. q <= m - 1
    <2> SUFFICES ASSUME q >= m PROVE FALSE
        BY <1>2
    <2>1. n * q >= n * m
        <3>1. q - m \in Nat
            BY <1>2
        <3>2. n * (q - m) >= 0
            BY <3>1
        <3>3. n * (q - m) = n * q - n * m
            BY <1>2
        <3> DEFINE a == n * q
                   b == n * m
                   d == n * (q - m)
        <3>4. a \in Int /\ b \in Int /\ d \in Int /\ d >= 0 /\ d = a - b
            BY <1>2, <3>2, <3>3
        <3> HIDE DEF a, b, d
        <3>5. a >= b
            BY <3>4
        <3> QED BY <3>5 DEF a, b
    <2>2. n * m = m * n
        OBVIOUS
    <2> DEFINE a == n * q
               b == m * n
    <2>3. a \in Int /\ b \in Int /\ a >= b /\ x = a + r /\ x < b
        BY <1>0, <1>1, <1>2, <2>1, <2>2
    <2> HIDE DEF a, b, x
    <2> QED BY <1>1, <1>2, <2>3
<1>5. k = n * q + r + 1
    <2> DEFINE a == n * q
    <2>1. a \in Int /\ x = a + r
        BY <1>2
    <2> HIDE DEF a
    <2> QED BY <1>2, <2>1 DEF a
<1>6. q \in 0..(m - 1)
    BY <1>2, <1>3, <1>4
<1> QED BY <1>2, <1>5, <1>6, Zenon DEF q, r, x

\* The k-th place of rows of n is the j-th of the i-th row.
InGrid(k, n, i, j) == (k - 1) \div n = i - 1 /\ (k - 1) % n = j - 1

\* Every pair of an address and a port has an index.
LEMMA GridHas ==
    ASSUME NEW m \in Nat, NEW n \in Nat \ {0}, NEW i \in 1..m, NEW j \in 1..n
    PROVE  \E k \in 1..(m * n) : InGrid(k, n, i, j)
<1> DEFINE p == i - 1
           a == n * p
           x == a + (j - 1)
           k == x + 1
<1>1. p \in 0..(m - 1) /\ a \in Int /\ a >= 0
    OBVIOUS
<1>2. a + n <= m * n
    <2>1. (m - 1) - p \in Nat
        BY <1>1
    <2>2. n * ((m - 1) - p) >= 0
        BY <2>1
    <2>3. n * ((m - 1) - p) = m * n - n - a
        BY <1>1
    <2> DEFINE b == m * n
               d == n * ((m - 1) - p)
    <2>4. b \in Int /\ d \in Int /\ d >= 0 /\ d = b - n - a
        BY <1>1, <2>2, <2>3
    <2> HIDE DEF a, b, d
    <2>5. a + n <= b
        BY <1>1, <2>4
    <2> QED BY <2>5 DEF b
<1> HIDE DEF a
<1>3. x \in Nat /\ k \in 1..(m * n) /\ k - 1 = x
    <2> DEFINE b == m * n
    <2>1. b \in Int /\ a + n <= b
        BY <1>2
    <2> HIDE DEF b
    <2>2. x \in Nat /\ k \in 1..b /\ k - 1 = x
        BY <1>1, <2>1
    <2> QED BY <2>2 DEF b
<1>4. x = n * p + (j - 1) /\ j - 1 \in 0..(n - 1) /\ p \in Int /\ x \in Int
    BY <1>1, <1>3 DEF a
<1> HIDE DEF x, p
<1> DEFINE r == j - 1
<1>5. r \in 0..(n - 1) /\ x = n * p + r
    BY <1>4
<1> HIDE DEF r
<1>6. x % n = r
    BY <1>4, <1>5, OneRemainder
<1>7. x \div n = p
    <2> DEFINE q == x \div n
    <2>1. q \in Int /\ x = n * q + r
        BY <1>4, <1>6
    <2> HIDE DEF q
    <2>2. n * (q - p) = 0
        <3>1. n * (q - p) = n * q - n * p
            BY <1>4, <2>1
        <3> DEFINE u == n * q
                   v == n * p
        <3>2. u \in Int /\ v \in Int /\ x = u + r /\ x = v + r
            BY <1>4, <1>5, <2>1
        <3> HIDE DEF u, v
        <3>3. u - v = 0
            BY <1>5, <3>2
        <3> QED BY <3>1, <3>3 DEF u, v
    <2>3. q - p = 0
        BY <1>4, <2>1, <2>2
    <2>4. q = p
        BY <1>4, <2>1, <2>3
    <2> QED BY <2>4 DEF q
<1>8. InGrid(k, n, i, j)
    BY <1>3, <1>6, <1>7 DEF r, p, InGrid
<1> HIDE DEF k
<1> QED BY <1>3, <1>8

\* indexToRuntimeTarget reaches every pair of an address and a port once.
LEMMA IndexedTasksAre ==
    ASSUME NEW ips \in Seq(Int), NEW ports \in Seq(Int), Len(ips) > 0, Len(ports) > 0,
           \A i, j \in DOMAIN ips : ips[i] = ips[j] => i = j,
           \A i, j \in DOMAIN ports : ports[i] = ports[j] => i = j
    PROVE  LET s == IndexedTasks(ips, ports)
           IN  /\ s \in Seq(TaskType) /\ Len(s) = Len(ips) * Len(ports) /\ Len(s) > 0
               /\ \A k, l \in DOMAIN s : s[k] = s[l] => k = l
               /\ \A k \in DOMAIN s : \E i \in DOMAIN ips, j \in DOMAIN ports : s[k] = <<ips[i], ports[j]>>
               /\ \A i \in DOMAIN ips, j \in DOMAIN ports : \E k \in DOMAIN s : s[k] = <<ips[i], ports[j]>>
<1> DEFINE m == Len(ips)
           n == Len(ports)
           N == m * n
           Q(k) == ((k - 1) \div n) + 1
           M(k) == ((k - 1) % n) + 1
           s == [k \in 1..N |-> <<ips[Q(k)], ports[M(k)]>>]
<1>1. IndexedTasks(ips, ports) = s
    BY Zenon DEF IndexedTasks
<1>2. m \in Nat \ {0} /\ n \in Nat \ {0} /\ DOMAIN ips = 1..m /\ DOMAIN ports = 1..n
    OBVIOUS
<1> HIDE DEF m, n
<1>3. N \in Nat /\ N > 0
    BY <1>2
<1>4. ASSUME NEW k \in 1..N PROVE Q(k) \in 1..m /\ M(k) \in 1..n /\ k = n * (Q(k) - 1) + M(k)
    <2> DEFINE q == (k - 1) \div n
               r == (k - 1) % n
    <2>1. q \in 0..(m - 1) /\ r \in 0..(n - 1) /\ k = n * q + r + 1
        BY <1>2, GridPlace
    <2>2. Q(k) = q + 1 /\ M(k) = r + 1
        OBVIOUS
    <2> HIDE DEF q, r, Q, M
    <2>3. Q(k) - 1 = q
        BY <1>2, <2>1, <2>2
    <2>4. Q(k) \in 1..m /\ M(k) \in 1..n
        BY <1>2, <2>1, <2>2
    <2> DEFINE a == n * q
    <2>5. a \in Int /\ k = a + r + 1
        BY <1>2, <2>1
    <2> HIDE DEF a
    <2>6. k = a + M(k)
        BY <1>2, <2>1, <2>2, <2>5
    <2> QED BY <2>3, <2>4, <2>6 DEF a
<1>5. ASSUME NEW i \in 1..m, NEW j \in 1..n PROVE \E k \in 1..N : Q(k) = i /\ M(k) = j
    <2>0. m \in Nat
        BY <1>2
    <2>1. PICK k \in 1..N : InGrid(k, n, i, j)
        BY <1>2, <2>0, GridHas
    <2>2. Q(k) = i /\ M(k) = j
        BY <2>1 DEF InGrid
    <2> QED BY <2>1, <2>2
<1> HIDE DEF Q, M, N
<1>6. DOMAIN s = 1..N /\ \A k \in 1..N : s[k] = <<ips[Q(k)], ports[M(k)]>>
    OBVIOUS
<1>7. s \in Seq(TaskType)
    <2>1. \A k \in 1..N : <<ips[Q(k)], ports[M(k)]>> \in TaskType
        BY <1>2, <1>4 DEF TaskType
    <2> QED BY <1>3, <2>1
<1> HIDE DEF s
<1>8. Len(s) = N
    BY <1>3, <1>6, <1>7
<1>9. ASSUME NEW k \in 1..N, NEW l \in 1..N, s[k] = s[l] PROVE k = l
    <2>1. ips[Q(k)] = ips[Q(l)] /\ ports[M(k)] = ports[M(l)]
        BY <1>6, <1>9
    <2>2. Q(k) = Q(l) /\ M(k) = M(l)
        BY <1>2, <1>4, <2>1
    <2>3. k = n * (Q(k) - 1) + M(k) /\ l = n * (Q(l) - 1) + M(l)
        BY <1>4
    <2> QED BY <2>2, <2>3, Zenon
<1>10. ASSUME NEW k \in DOMAIN s
       PROVE  \E i \in DOMAIN ips, j \in DOMAIN ports : s[k] = <<ips[i], ports[j]>>
    <2>1. Q(k) \in DOMAIN ips /\ M(k) \in DOMAIN ports /\ s[k] = <<ips[Q(k)], ports[M(k)]>>
        <3>1. k \in 1..N
            BY <1>6
        <3> QED BY <1>2, <1>4, <1>6, <3>1, Zenon
    <2> QED BY <2>1, Zenon
<1>11. ASSUME NEW i \in DOMAIN ips, NEW j \in DOMAIN ports
       PROVE  \E k \in DOMAIN s : s[k] = <<ips[i], ports[j]>>
    <2>1. PICK k \in 1..N : Q(k) = i /\ M(k) = j
        BY <1>2, <1>5, Zenon
    <2>2. k \in DOMAIN s /\ s[k] = <<ips[i], ports[j]>>
        BY <1>6, <2>1, Zenon
    <2> QED BY <2>2, Zenon
<1>12. \A k, l \in DOMAIN s : s[k] = s[l] => k = l
    BY <1>6, <1>9
<1> QED BY <1>1, <1>3, <1>7, <1>8, <1>10, <1>11, <1>12 DEF N, m, n

\* UniquePorts has every port once.
LEMMA UniquePortsAre ==
    ASSUME NEW ports \in Seq(Int)
    PROVE  LET u == UniquePorts(ports)
           IN  /\ u \in Seq(Int)
               /\ \A k, l \in DOMAIN u : u[k] = u[l] => k = l
               /\ \A i \in DOMAIN ports : \E k \in DOMAIN u : u[k] = ports[i]
               /\ \A k \in DOMAIN u : \E i \in DOMAIN ports : u[k] = ports[i]
               /\ Len(u) = 0 <=> ports = <<>>
<1> DEFINE I == {i \in DOMAIN ports : \A j \in 1..(i - 1) : ports[j] # ports[i]}
           u == Selected(ports, I)
<1>1. UniquePorts(ports) = u
    BY Zenon DEF UniquePorts
<1>2. I \in SUBSET DOMAIN ports
    OBVIOUS
<1>3. \A i \in I : \A j \in 1..(i - 1) : ports[j] # ports[i]
    OBVIOUS
<1>4. ASSUME NEW i \in DOMAIN ports PROVE \E j \in I : ports[j] = ports[i]
    <2> DEFINE T == {j \in DOMAIN ports : ports[j] = ports[i]}
    <2>1. T \subseteq Nat /\ T # {}
        OBVIOUS
    <2>2. PICK j \in T : \A l \in T : j <= l
        BY <2>1, LeastIndex
    <2>3. \A l \in 1..(j - 1) : l \in DOMAIN ports /\ l \notin T
        BY <2>2
    <2>4. j \in I
        BY <2>2, <2>3
    <2> QED BY <2>2, <2>4
<1> HIDE DEF I
<1>5. u \in Seq(Int)
    BY <1>2, SelectedInOrder
<1>6. PICK at : /\ PartOf(u, ports, at) /\ \A k \in DOMAIN u : at[k] \in I
                /\ \A i \in I : \E k \in DOMAIN u : at[k] = i
    BY <1>2, SelectedInOrder
<1> HIDE DEF u
<1>7. \A k \in DOMAIN u : at[k] \in I /\ at[k] \in DOMAIN ports /\ u[k] = ports[at[k]]
    BY <1>6 DEF PartOf
<1>8. ASSUME NEW k \in DOMAIN u, NEW l \in DOMAIN u, k < l PROVE u[k] # u[l]
    <2>1. at[k] < at[l]
        BY <1>6, <1>8 DEF PartOf
    <2>2. at[k] \in 1..(at[l] - 1)
        BY <1>7, <2>1
    <2> QED BY <1>3, <1>7, <2>2
<1>9. ASSUME NEW k \in DOMAIN u, NEW l \in DOMAIN u, u[k] = u[l] PROVE k = l
    <2>1. k \in Nat /\ l \in Nat
        BY <1>5
    <2> QED BY <1>8, <1>9, <2>1
<1>10. \A i \in DOMAIN ports : \E k \in DOMAIN u : u[k] = ports[i]
    BY <1>4, <1>6, <1>7
<1>11. \A k \in DOMAIN u : \E i \in DOMAIN ports : u[k] = ports[i]
    BY <1>7
<1>12. Len(u) = 0 <=> ports = <<>>
    <2>1. Len(u) = 0 <=> DOMAIN u = {}
        BY <1>5
    <2>2. ports = <<>> <=> DOMAIN ports = {}
        OBVIOUS
    <2> QED BY <1>10, <1>11, <2>1, <2>2
<1> QED BY <1>1, <1>5, <1>9, <1>10, <1>11, <1>12

\* What the rows of a segment bring is a finite set of addresses.
LEMMA FiniteBrought ==
    ASSUME NEW S, NEW rows \in Seq(S), AllTyped(rows), NEW c, NEW blocked
    PROVE  IsFiniteSet(Brought(rows, c, blocked)) /\ Brought(rows, c, blocked) \in SUBSET Int
<1> DEFINE D == {j \in DOMAIN rows : rows[j].seg = c}
           Brings(i) == BasicTargetIPs(rows[i], blocked)
           f == [i \in D |-> Brings(i)]
           all == {f[i] : i \in D}
           one == 1
           len == Len(rows)
<1>0. Brought(rows, c, blocked) = UNION all
    BY DEF Brought
<1>1. D \in SUBSET (one..len) /\ one \in Int /\ len \in Int /\ D \in SUBSET DOMAIN rows
    OBVIOUS
<1>2. ASSUME NEW i \in D PROVE IsFiniteSet(Brings(i)) /\ Brings(i) \in SUBSET Int
    <2>1. rows[i].sel \in SegmentType
        BY DEF AllTyped, RowTyped
    <2>2. IsFiniteSet(Addresses(rows[i].sel)) /\ Addresses(rows[i].sel) \in SUBSET Int
        BY <2>1, FiniteAddresses
    <2>3. Brings(i) \in SUBSET Addresses(rows[i].sel)
        BY DEF BasicTargetIPs, Reachable, FilterBoundaryBroadcast
    <2> HIDE DEF Brings
    <2> QED BY <2>2, <2>3, FS_Subset
<1> HIDE DEF Brings
<1>3. DOMAIN f = D /\ f = [i \in D |-> f[i]] /\ \A i \in D : f[i] = Brings(i)
    OBVIOUS
<1> HIDE DEF D, f, one, len
<1>4. IsFiniteSet(D)
    BY <1>1, FS_Interval, FS_Subset
<1>5. IsFiniteSet(all)
    BY <1>3, <1>4, ImageFinite
<1>6. \A T \in all : IsFiniteSet(T) /\ T \in SUBSET Int
    BY <1>2, <1>3
<1> HIDE DEF all
<1>7. IsFiniteSet(UNION all)
    BY <1>5, <1>6, FS_UNION
<1>8. UNION all \in SUBSET Int
    BY <1>6
<1> QED BY <1>0, <1>7, <1>8

\* A group has a task for every address of A and every port of P.
HasTasks(g, A, P) == \A a \in A : \A p \in P : \E k \in DOMAIN g.tasks : g.tasks[k] = <<a, p>>

\* The tasks of a group of a basic file with fallback ports: the addresses that the
\* segment keeps, with every port.
LEMMA FallbackTasks ==
    ASSUME NEW S, NEW rows \in Seq(S), AllTyped(rows), NEW c \in Segments(rows), NEW blocked,
           NEW ports \in Seq(Int), ports # <<>>, KeptBy(rows, c, blocked) # {}
    PROVE  LET kept == KeptBy(rows, c, blocked)
               u == UniquePorts(ports)
               g == BasicGroup(c, u, kept)
           IN  /\ GroupTyped(g) /\ g.ports = u /\ Len(u) \in Nat \ {0}
               /\ Len(g.tasks) = Cardinality(kept) * Len(u)
               /\ IsFiniteSet(kept)
               /\ \A k \in DOMAIN g.tasks : g.tasks[k][1] \in kept
               /\ HasTasks(g, kept, ToSet(ports))
               /\ \A k \in DOMAIN g.tasks : g.tasks[k][2] \in ToSet(ports)
<1> DEFINE kept == KeptBy(rows, c, blocked)
           u == UniquePorts(ports)
           ips == Sorted(kept, <)
           n == Cardinality(kept)
           g == BasicGroup(c, u, kept)
           s == IndexedTasks(ips, u)
<1>1. IsFiniteSet(kept) /\ kept \in SUBSET Int
    <2>1. kept \in SUBSET Brought(rows, c, blocked)
        BY DEF KeptBy
    <2> HIDE DEF kept
    <2> QED BY <2>1, FiniteBrought, FS_Subset
<1>2. c \in SegmentType
    BY DEF AllTyped, RowTyped, Segments
<1>3. kept # {}
    OBVIOUS
<1>4. g.cidr = c /\ g.ports = u /\ g.tasks = s
    BY DEF BasicGroup, Group
<1> HIDE DEF kept, g
<1>5. n \in Nat /\ n > 0
    BY <1>1, <1>3, FS_CardinalityType, FS_EmptySet
<1>6. Enumerates(ips, kept, Less(kept))
    BY <1>1, SortedNumbers
<1>7. /\ u \in Seq(Int) /\ (Len(u) = 0 <=> ports = <<>>)
      /\ \A k, l \in DOMAIN u : u[k] = u[l] => k = l
      /\ \A i \in DOMAIN ports : \E k \in DOMAIN u : u[k] = ports[i]
      /\ \A k \in DOMAIN u : \E i \in DOMAIN ports : u[k] = ports[i]
    BY UniquePortsAre
<1> HIDE DEF u, ips, n
<1>8. /\ ips \in [1..n -> kept]
      /\ \A x \in kept : \E k \in 1..n : ips[k] = x
      /\ \A i, j \in 1..n : ips[i] = ips[j] => i = j
    BY <1>6 DEF Enumerates, n
<1>9. ips \in Seq(Int) /\ Len(ips) = n /\ DOMAIN ips = 1..n
    <2>1. ips \in [1..n -> Int]
        BY <1>1, <1>8
    <2> QED BY <1>5, <2>1
<1>10. Len(u) \in Nat /\ Len(u) > 0
    BY <1>7
<1>11. /\ s \in Seq(TaskType) /\ Len(s) = Len(ips) * Len(u) /\ Len(s) > 0
       /\ \A k, l \in DOMAIN s : s[k] = s[l] => k = l
       /\ \A k \in DOMAIN s : \E i \in DOMAIN ips, j \in DOMAIN u : s[k] = <<ips[i], u[j]>>
       /\ \A i \in DOMAIN ips, j \in DOMAIN u : \E k \in DOMAIN s : s[k] = <<ips[i], u[j]>>
    <2>1. \A i, j \in DOMAIN ips : ips[i] = ips[j] => i = j
        BY <1>8, <1>9
    <2>2. Len(ips) > 0
        BY <1>5, <1>9
    <2> QED BY <1>7, <1>9, <1>10, <2>1, <2>2, IndexedTasksAre
<1> HIDE DEF s
<1>12. GroupTyped(g)
    BY <1>2, <1>4, <1>7, <1>11 DEF GroupTyped
<1>13. ASSUME NEW k \in DOMAIN g.tasks PROVE g.tasks[k][1] \in kept /\ g.tasks[k][2] \in ToSet(ports)
    <2>1. PICK i \in DOMAIN ips, j \in DOMAIN u : g.tasks[k] = <<ips[i], u[j]>>
        BY <1>4, <1>11
    <2>2. ips[i] \in kept
        BY <1>8, <1>9
    <2>3. u[j] \in ToSet(ports)
        BY <1>7 DEF ToSet
    <2> QED BY <2>1, <2>2, <2>3
<1>14. ASSUME NEW a \in kept, NEW p \in ToSet(ports) PROVE \E k \in DOMAIN g.tasks : g.tasks[k] = <<a, p>>
    <2>1. PICK i \in DOMAIN ips : ips[i] = a
        BY <1>8, <1>9
    <2>2. PICK j \in DOMAIN u : u[j] = p
        BY <1>7 DEF ToSet
    <2> QED BY <1>4, <1>11, <2>1, <2>2
<1>15. Len(g.tasks) = n * Len(u)
    BY <1>4, <1>9, <1>11
<1>16. HasTasks(g, kept, ToSet(ports))
    BY <1>14 DEF HasTasks
<1> QED BY <1>1, <1>4, <1>10, <1>12, <1>13, <1>15, <1>16 DEF kept, u, g, n

\* The groups of a basic file with fallback ports are sound.
LEMMA FallbackGroupsSound ==
    ASSUME NEW S, NEW rows \in Seq(S), AllTyped(rows), NEW blocked, NEW ports \in Seq(Int), ports # <<>>
    PROVE  SoundGroups(FallbackGroups(rows, UniquePorts(ports), blocked))
<1> DEFINE u == UniquePorts(ports)
           Gs == FallbackGroups(rows, u, blocked)
           Kept(c) == KeptBy(rows, c, blocked)
           C == {s \in Segments(rows) : Kept(s) # {}}
           f == [c \in C |-> BasicGroup(c, u, Kept(c))]
<1>1. Gs = {f[c] : c \in C}
    <2>1. Gs = {BasicGroup(c, u, Kept(c)) : c \in C}
        BY FallbackShape, Zenon
    <2>2. \A c \in C : f[c] = BasicGroup(c, u, Kept(c))
        OBVIOUS
    <2> HIDE DEF Gs, C, f
    <2> QED BY <2>1, <2>2
<1>2. IsFiniteSet(C)
    BY FiniteSegments, FS_Subset
<1>3. \A c \in C : f[c] = BasicGroup(c, u, Kept(c))
    OBVIOUS
<1>4. DOMAIN f = C /\ f = [c \in C |-> f[c]]
    OBVIOUS
<1> HIDE DEF f
<1>5. IsFiniteSet(Gs)
    <2> HIDE DEF C
    <2> QED BY <1>1, <1>2, <1>4, ImageFinite
<1>6. ASSUME NEW g \in Gs
      PROVE  \E c \in Segments(rows) :
                 /\ g.cidr = c /\ g = BasicGroup(c, u, Kept(c)) /\ GroupTyped(g)
                 /\ \A k \in DOMAIN g.tasks : g.tasks[k][1] \in Kept(c)
    <2>1. PICK c \in C : g = BasicGroup(c, u, Kept(c))
        BY <1>1, <1>3
    <2>2. c \in Segments(rows) /\ Kept(c) # {}
        OBVIOUS
    <2> HIDE DEF Gs, C
    <2>3. GroupTyped(g) /\ \A k \in DOMAIN g.tasks : g.tasks[k][1] \in Kept(c)
        BY <2>1, <2>2, FallbackTasks, Zenon
    <2>4. g.cidr = c
        <3> HIDE DEF u, Kept
        <3> QED BY <2>1, BasicGroupShape
    <2> QED BY <2>1, <2>2, <2>3, <2>4
<1> HIDE DEF Gs, C, u
<1>7. ASSUME NEW g \in Gs, NEW h \in Gs, g.cidr = h.cidr PROVE g = h
    BY <1>6, <1>7, Zenon
<1>8. ASSUME NEW g \in Gs, NEW h \in Gs, NEW i \in DOMAIN g.tasks, NEW j \in DOMAIN h.tasks,
             g.tasks[i] = h.tasks[j]
      PROVE  g = h
    <2>1. PICK c \in Segments(rows) : g.cidr = c /\ g.tasks[i][1] \in Kept(c)
        BY <1>6
    <2>2. PICK d \in Segments(rows) : h.cidr = d /\ h.tasks[j][1] \in Kept(d)
        BY <1>6
    <2>3. c \in SegmentType /\ d \in SegmentType
        BY DEF AllTyped, RowTyped, Segments
    <2> DEFINE a == g.tasks[i][1]
    <2>4. a \in Kept(c) /\ a \in Kept(d)
        BY <1>8, <2>1, <2>2
    <2> HIDE DEF a
    <2>5. ~CIDRBefore(c, d) /\ ~CIDRBefore(d, c)
        BY <2>1, <2>2, <2>4 DEF KeptBy
    <2>6. c = d
        BY <2>3, <2>5, CIDROrder
    <2> QED BY <1>7, <2>1, <2>2, <2>6
<1>9. \A g \in Gs : GroupTyped(g)
    BY <1>6
<1>10. SoundGroups(Gs)
    BY <1>5, <1>7, <1>8, <1>9 DEF SoundGroups
<1> QED BY <1>10 DEF Gs, u

\* The order of the keys of the groups.
KeyOrder(Gs) == {p \in Gs \X Gs : KeyBefore(p[1], p[2])}

\* Sorted puts sound groups in the order of their keys.
LEMMA SortedGroups ==
    ASSUME NEW Gs, SoundGroups(Gs)
    PROVE  Enumerates(Sorted(Gs, KeyBefore), Gs, KeyOrder(Gs))
<1> DEFINE R == KeyOrder(Gs)
           n == Cardinality(Gs)
           Lower(x) == {y \in Gs : KeyBefore(y, x)}
           s == [k \in 1..n |-> CHOOSE x \in Gs : Cardinality(Lower(x)) = k - 1]
<1>0. IsFiniteSet(Gs)
    BY DEF SoundGroups
<1>1. Sorted(Gs, KeyBefore) = s
    BY Zenon DEF Sorted
<1>2. Orders(R, Gs)
    <2>1. \A x, y \in Gs : <<x, y>> \in R <=> KeyBefore(x, y)
        BY DEF KeyOrder
    <2>2. \A x \in Gs : x.cidr \in SegmentType /\ x.ports \in Seq(Int)
        BY DEF SoundGroups, GroupTyped
    <2>3. \A x, y \in Gs : x.cidr = y.cidr => x = y
        BY DEF SoundGroups
    <2>4. ASSUME NEW x \in Gs PROVE ~KeyBefore(x, x)
        <3> DEFINE p == x.ports
        <3>1. ~CIDRBefore(x.cidr, x.cidr)
            BY <2>2, CIDROrder
        <3>2. p \in Seq(Int)
            BY <2>2
        <3> HIDE DEF p
        <3>3. ~PortsBefore(p, p)
            BY <3>2 DEF PortsBefore
        <3> QED BY <3>1, <3>3 DEF KeyBefore, p
    <2>5. ASSUME NEW x \in Gs, NEW y \in Gs, x # y
          PROVE  KeyBefore(x, y) <=> CIDRBefore(x.cidr, y.cidr)
        BY <2>3, <2>5 DEF KeyBefore
    <2>6. ASSUME NEW x \in Gs, NEW y \in Gs, NEW z \in Gs, KeyBefore(x, y), KeyBefore(y, z)
          PROVE  KeyBefore(x, z)
        <3>1. x # y /\ y # z
            BY <2>4, <2>6
        <3>2. CIDRBefore(x.cidr, y.cidr) /\ CIDRBefore(y.cidr, z.cidr)
            BY <2>5, <2>6, <3>1
        <3>3. CIDRBefore(x.cidr, z.cidr)
            BY <2>2, <3>2, CIDROrder
        <3> QED BY <3>3 DEF KeyBefore
    <2>7. ASSUME NEW x \in Gs, NEW y \in Gs, x # y PROVE KeyBefore(x, y) \/ KeyBefore(y, x)
        <3>1. x.cidr # y.cidr
            BY <2>3, <2>7
        <3>2. CIDRBefore(x.cidr, y.cidr) \/ CIDRBefore(y.cidr, x.cidr)
            BY <2>2, <3>1, CIDROrder
        <3> QED BY <3>2 DEF KeyBefore
    <2> HIDE DEF R
    <2> QED BY <2>1, <2>4, <2>6, <2>7 DEF Orders
<1>3. ASSUME NEW x \in Gs PROVE Below(x, Gs, R) = Lower(x)
    BY DEF Below, KeyOrder
<1> HIDE DEF R, Lower
<1>4. ASSUME NEW k \in 1..n PROVE s[k] \in Gs /\ Cardinality(Lower(s[k])) = k - 1
    <2>1. PICK x \in Gs : Cardinality(Below(x, Gs, R)) = k - 1
        BY <1>0, <1>2, RankHit
    <2>2. Cardinality(Lower(x)) = k - 1
        BY <1>3, <2>1
    <2> DEFINE w == CHOOSE y \in Gs : Cardinality(Lower(y)) = k - 1
    <2>3. w \in Gs /\ Cardinality(Lower(w)) = k - 1
        BY <2>2
    <2>4. s[k] = w
        OBVIOUS
    <2> HIDE DEF s, w
    <2> QED BY <2>3, <2>4
<1> HIDE DEF s
<1>5. s \in [1..n -> Gs]
    <2>1. DOMAIN s = 1..n /\ s = [k \in 1..n |-> s[k]]
        BY DEF s
    <2> QED BY <1>4, <2>1
<1>6. \A k \in 1..n : Cardinality(Below(s[k], Gs, R)) = k - 1
    BY <1>3, <1>4
<1>7. Enumerates(s, Gs, R)
    BY <1>0, <1>2, <1>5, <1>6, RankedEnumerates
<1> QED BY <1>1, <1>7 DEF R

-----------------------------------------------------------------------------
(* The fallback ports of a snapshot *)

\* FlattenSeq is a loop over the sequences.
LEMMA FlattenLoop ==
    ASSUME NEW D, NEW seqs \in Seq(Seq(D)), Len(seqs) # 0
    PROVE  \E f : /\ f[1] = seqs[1] /\ \A i \in 2..Len(seqs) : f[i] = f[i - 1] \o seqs[i]
                  /\ FlattenSeq(seqs) = f[Len(seqs)]
<1> DEFINE last == Len(seqs)
           Loop(f) == f = [i \in 1..last |-> IF i = 1 THEN seqs[i] ELSE f[i - 1] \o seqs[i]]
           p == CHOOSE f : Loop(f)
<1>0. last \in Nat /\ last > 0
    OBVIOUS
<1>1. FlattenSeq(seqs) = p[last]
    BY Zenon DEF FlattenSeq
<1>2. \A i \in 1..last : seqs[i] \in Seq(D)
    OBVIOUS
<1> HIDE DEF last
<1>3. \E f : Loop(f)
    <2> DEFINE V == Seq(D)
               z == <<>>
               Step(v, i) == IF i \in 1..last THEN v \o seqs[i] ELSE v
               G == [x \in V \X Nat |-> Step(x[1], x[2])]
    <2>1. \A v \in V, i \in Nat : Step(v, i) \in V
        BY <1>2
    <2>2. z \in V /\ \A v \in V : z \o v = v
        OBVIOUS
    <2> HIDE DEF V, z, Step
    <2>3. G \in [V \X Nat -> V] /\ \A v \in V, i \in Nat : G[<<v, i>>] = Step(v, i)
        BY <2>1
    <2> HIDE DEF G
    <2>4. PICK f : LoopBy(f, V, z, G, last)
        BY <1>0, <2>2, <2>3, LoopExists
    <2>5. f \in [0..last -> V] /\ f[0] = z /\ \A i \in 1..last : f[i] = G[<<f[i - 1], i>>]
        BY <2>4 DEF LoopBy
    <2>6. ASSUME NEW i \in 1..last PROVE f[i] = f[i - 1] \o seqs[i]
        <3>1. i - 1 \in 0..last /\ i \in Nat
            BY <1>0
        <3>2. f[i - 1] \in V
            BY <2>5, <3>1
        <3> QED BY <2>3, <2>5, <3>1, <3>2 DEF Step
    <2> DEFINE h == [i \in 1..last |-> f[i]]
    <2>7. ASSUME NEW i \in 1..last PROVE f[i] = IF i = 1 THEN seqs[i] ELSE h[i - 1] \o seqs[i]
        <3>1. CASE i = 1
            <4>1. f[i] = z \o seqs[i]
                <5>1. i - 1 = 0
                    BY <3>1
                <5> QED BY <2>5, <2>6, <5>1
            <4>2. seqs[i] \in V
                BY <1>2 DEF V
            <4> QED BY <2>2, <3>1, <4>1, <4>2
        <3>2. CASE i # 1
            <4>1. h[i - 1] = f[i - 1]
                BY <1>0, <3>2
            <4> QED BY <2>6, <3>2, <4>1
        <3> QED BY <3>1, <3>2
    <2>8. Loop(h)
        BY <2>7
    <2> QED BY <2>8
<1>4. Loop(p)
    <2> HIDE DEF Loop
    <2> QED BY <1>3, Zenon
<1> HIDE DEF p
<1>5. p[1] = seqs[1] /\ \A i \in 2..last : p[i] = p[i - 1] \o seqs[i]
    <2>1. ASSUME NEW i \in 1..last PROVE p[i] = IF i = 1 THEN seqs[i] ELSE p[i - 1] \o seqs[i]
        BY <1>4, Zenon
    <2> HIDE DEF Loop
    <2>2. 1 \in 1..last /\ \A i \in 2..last : i \in 1..last /\ i # 1
        BY <1>0
    <2> QED BY <2>1, <2>2
<1> QED BY <1>1, <1>5 DEF last

\* s is nothing, or begins with u and has nothing that u does not have.
Copies(s, u) ==
    /\ s \in Seq(Int)
    /\ s = <<>> \/ /\ Len(s) >= Len(u) /\ \A k \in 1..Len(u) : s[k] = u[k]
                   /\ \A k \in DOMAIN s : \E j \in DOMAIN u : s[k] = u[j]

\* What is made of copies of u is a copy of u.
LEMMA CopiesJoin ==
    ASSUME NEW u \in Seq(Int), NEW s, Copies(s, u), NEW t \in {<<>>, u}
    PROVE  Copies(s \o t, u)
<1>1. s \in Seq(Int) /\ t \in Seq(Int)
    <2>1. t = <<>> \/ t = u
        OBVIOUS
    <2>2. s \in Seq(Int)
        BY DEF Copies
    <2>3. <<>> \in Seq(Int)
        OBVIOUS
    <2> QED BY <2>1, <2>2, <2>3, Zenon
<1>2. CASE t = <<>>
    <2>1. s \o t = s
        BY <1>1, <1>2
    <2> QED BY <2>1
<1>3. CASE s = <<>>
    <2>1. s \o t = t
        BY <1>1, <1>3
    <2>2. Copies(t, u)
        BY <1>1 DEF Copies
    <2> QED BY <2>1, <2>2
<1>4. CASE s # <<>> /\ t = u
    <2> DEFINE w == s \o t
    <2>1. /\ w \in Seq(Int) /\ Len(w) = Len(s) + Len(u) /\ DOMAIN w = 1..(Len(s) + Len(u))
          /\ \A k \in 1..Len(s) : w[k] = s[k]
          /\ \A k \in (Len(s) + 1)..(Len(s) + Len(u)) : w[k] = u[k - Len(s)]
        BY <1>1, <1>4
    <2> HIDE DEF w
    <2>2. /\ Len(s) >= Len(u) /\ \A k \in 1..Len(u) : s[k] = u[k]
          /\ \A k \in DOMAIN s : \E j \in DOMAIN u : s[k] = u[j]
        BY <1>4 DEF Copies
    <2>3. Len(s) \in Nat /\ Len(u) \in Nat /\ DOMAIN s = 1..Len(s) /\ DOMAIN u = 1..Len(u)
        BY <1>1
    <2>4. Len(w) >= Len(u) /\ \A k \in 1..Len(u) : w[k] = u[k]
        BY <2>1, <2>2, <2>3
    <2>5. ASSUME NEW k \in DOMAIN w PROVE \E j \in DOMAIN u : w[k] = u[j]
        <3>1. CASE k \in 1..Len(s)
            BY <2>1, <2>2, <2>3, <3>1
        <3>2. CASE k \notin 1..Len(s)
            <4>1. k \in (Len(s) + 1)..(Len(s) + Len(u)) /\ k - Len(s) \in DOMAIN u
                BY <2>1, <2>3, <3>2
            <4> QED BY <2>1, <4>1
        <3> QED BY <3>1, <3>2
    <2>6. Copies(w, u)
        BY <2>1, <2>4, <2>5 DEF Copies
    <2> QED BY <2>6 DEF w
<1> QED BY <1>2, <1>3, <1>4

\* So FlattenSeq makes one.
LEMMA FlattenCopies ==
    ASSUME NEW u \in Seq(Int), NEW n \in Nat, NEW seqs \in [1..n -> {<<>>, u}]
    PROVE  Copies(FlattenSeq(seqs), u)
<1>1. seqs \in Seq(Seq(Int)) /\ Len(seqs) = n
    <2>1. <<>> \in Seq(Int)
        OBVIOUS
    <2>2. \A x \in {<<>>, u} : x \in Seq(Int)
        BY <2>1, Zenon
    <2> DEFINE V == Seq(Int)
               W == {<<>>, u}
    <2>3. W \subseteq V /\ seqs \in [1..n -> W]
        BY <2>2
    <2> HIDE DEF V, W
    <2>4. seqs \in [1..n -> V]
        BY <2>3
    <2>5. seqs \in Seq(V) /\ Len(seqs) = n
        BY <2>4
    <2> QED BY <2>5 DEF V
<1>2. CASE n = 0
    <2>1. Len(seqs) = 0
        BY <1>1, <1>2
    <2>2. seqs = <<>>
        BY <1>1, <2>1
    <2>3. FlattenSeq(seqs) = seqs
        BY <2>1, Zenon DEF FlattenSeq
    <2>4. Copies(<<>>, u)
        BY DEF Copies
    <2> QED BY <2>2, <2>3, <2>4, Zenon
<1>3. CASE n # 0
    <2>1. PICK f : /\ f[1] = seqs[1] /\ \A i \in 2..n : f[i] = f[i - 1] \o seqs[i]
                   /\ FlattenSeq(seqs) = f[n]
        BY <1>1, <1>3, FlattenLoop
    <2> DEFINE T == {i \in 1..n : ~Copies(f[i], u)}
    <2>2. T = {}
        <3> SUFFICES ASSUME T # {} PROVE FALSE
            OBVIOUS
        <3>0. T \subseteq Nat
            OBVIOUS
        <3>1. PICK i \in T : \A j \in T : i <= j
            BY <3>0, LeastIndex
        <3>2. CASE i = 1
            <4>1. seqs[1] = <<>> \/ seqs[1] = u
                BY <1>3
            <4>2. Copies(<<>>, u) /\ Copies(u, u)
                BY DEF Copies
            <4>3. Copies(seqs[1], u)
                BY <4>1, <4>2
            <4> QED BY <2>1, <3>1, <3>2, <4>3
        <3>3. CASE i # 1
            <4>1. i \in 2..n /\ i - 1 \in 1..n /\ i - 1 \notin T /\ seqs[i] \in {<<>>, u}
                BY <3>1, <3>3
            <4>2. Copies(f[i - 1], u)
                BY <4>1
            <4>3. Copies(f[i - 1] \o seqs[i], u)
                BY <4>1, <4>2, CopiesJoin
            <4> QED BY <2>1, <3>1, <4>1, <4>3
        <3> QED BY <3>2, <3>3
    <2>3. n \in 1..n
        BY <1>3
    <2> QED BY <2>1, <2>2, <2>3
<1> QED BY <1>2, <1>3

\* The numbers 1..n are in their order as they are.
LEMMA SortedInterval ==
    ASSUME NEW n \in Nat
    PROVE  Sorted(1..n, <) = [k \in 1..n |-> k]
<1> DEFINE I == 1..n
           Lower(x) == {y \in I : y < x}
           s == [k \in 1..Cardinality(I) |-> CHOOSE x \in I : Cardinality(Lower(x)) = k - 1]
<1>1. Sorted(I, <) = s
    BY Zenon DEF Sorted
<1>2. Cardinality(I) = n
    <2> DEFINE one == 1
    <2>1. one \in Int /\ n \in Int
        OBVIOUS
    <2> HIDE DEF one
    <2>2. Cardinality(one..n) = IF one > n THEN 0 ELSE n - one + 1
        BY <2>1, FS_Interval
    <2> QED BY <2>2 DEF one
<1>3. ASSUME NEW x \in I PROVE Cardinality(Lower(x)) = x - 1
    <2> DEFINE one == 1
               m == x - 1
    <2>1. one \in Int /\ m \in Int /\ m >= 0
        OBVIOUS
    <2>2. Lower(x) = one..m
        OBVIOUS
    <2> HIDE DEF one, m, Lower
    <2>3. Cardinality(one..m) = IF one > m THEN 0 ELSE m - one + 1
        BY <2>1, FS_Interval
    <2> QED BY <2>1, <2>2, <2>3 DEF one, m
<1> HIDE DEF Lower
<1>4. ASSUME NEW k \in 1..n PROVE (CHOOSE x \in I : Cardinality(Lower(x)) = k - 1) = k
    <2> DEFINE w == CHOOSE x \in I : Cardinality(Lower(x)) = k - 1
    <2>1. k \in I /\ Cardinality(Lower(k)) = k - 1
        BY <1>3
    <2>2. w \in I /\ Cardinality(Lower(w)) = k - 1
        BY <2>1
    <2> HIDE DEF w
    <2>3. w = k
        BY <1>3, <2>2
    <2> QED BY <2>3 DEF w
<1>5. s = [k \in 1..n |-> k]
    BY <1>2, <1>4
<1> QED BY <1>1, <1>5

\* The ports of the copies of u, each once, are u.
LEMMA UniqueCopies ==
    ASSUME NEW u \in Seq(Int), \A k, l \in DOMAIN u : u[k] = u[l] => k = l, NEW s, Copies(s, u)
    PROVE  /\ s = <<>> => UniquePorts(s) = <<>>
           /\ s # <<>> => UniquePorts(s) = u
<1>0. s \in Seq(Int)
    BY DEF Copies
<1>1. CASE s = <<>>
    <2>1. UniquePorts(s) \in Seq(Int) /\ Len(UniquePorts(s)) = 0
        BY <1>0, <1>1, UniquePortsAre
    <2> DEFINE q == UniquePorts(s)
    <2> HIDE DEF q
    <2>2. q \in Seq(Int) /\ Len(q) = 0 => q = <<>>
        OBVIOUS
    <2> QED BY <1>1, <2>1, <2>2 DEF q
<1>2. CASE s # <<>>
    <2> DEFINE n == Len(u)
               I == {i \in DOMAIN s : \A j \in 1..(i - 1) : s[j] # s[i]}
    <2>0. n \in Nat /\ DOMAIN u = 1..n /\ Len(s) \in Nat /\ DOMAIN s = 1..Len(s)
        BY <1>0
    <2>1. /\ Len(s) >= n /\ \A k \in 1..n : s[k] = u[k]
          /\ \A k \in DOMAIN s : \E j \in 1..n : s[k] = u[j]
        BY <1>2, <2>0 DEF Copies
    <2> HIDE DEF n
    <2>2. ASSUME NEW i \in 1..n PROVE i \in I
        <3>1. i \in DOMAIN s
            BY <2>0, <2>1
        <3>2. ASSUME NEW j \in 1..(i - 1) PROVE s[j] # s[i]
            <4>1. j \in 1..n /\ j # i
                BY <2>0
            <4> QED BY <2>0, <2>1, <4>1
        <3> QED BY <3>1, <3>2
    <2>3. ASSUME NEW i \in I PROVE i \in 1..n
        <3>1. i \in 1..Len(s) /\ \A j \in 1..(i - 1) : s[j] # s[i]
            BY <2>0
        <3>2. PICK j \in 1..n : s[i] = u[j]
            BY <2>0, <2>1
        <3>3. s[j] = s[i]
            BY <2>1, <3>2
        <3>4. ~(j \in 1..(i - 1))
            BY <3>1, <3>3
        <3> QED BY <2>0, <3>1, <3>2, <3>4
    <2>4. I = 1..n
        BY <2>2, <2>3
    <2>5. UniquePorts(s) = Selected(s, I)
        BY Zenon DEF UniquePorts
    <2> HIDE DEF I
    <2> DEFINE at == Sorted(I, <)
               part == [k \in 1..Cardinality(I) |-> s[at[k]]]
    <2>6. Selected(s, I) = part
        BY Zenon DEF Selected
    <2>7. at = [k \in 1..n |-> k]
        BY <2>0, <2>4, SortedInterval
    <2>8. Cardinality(I) = n
        <3> DEFINE one == 1
        <3>1. one \in Int /\ n \in Int
            BY <2>0
        <3> HIDE DEF one
        <3>2. Cardinality(one..n) = IF one > n THEN 0 ELSE n - one + 1
            BY <3>1, FS_Interval
        <3> QED BY <2>0, <2>4, <3>2 DEF one
    <2> HIDE DEF at
    <2>9. \A k \in 1..n : s[at[k]] = u[k]
        BY <2>1, <2>7
    <2>10. part = [k \in 1..n |-> u[k]]
        BY <2>8, <2>9
    <2>11. u = [k \in 1..n |-> u[k]]
        BY <2>0
    <2> HIDE DEF part
    <2> QED BY <1>2, <2>5, <2>6, <2>10, <2>11
<1> QED BY <1>1, <1>2

\* Rows without ports and no fallback ports: there is nothing to scan.
LEMMA NoPortsNoGroups ==
    ASSUME NEW S, NEW rows \in Seq(S), \A i \in DOMAIN rows : ~(rows[i].port > 0), NEW blocked
    PROVE  RowPortGroups(rows, <<>>, blocked) = {}
<1> DEFINE Brings(i, a, p) == /\ a \in BasicTargetIPs(rows[i], blocked)
                              /\ p \in ToSet(PortList(rows[i], <<>>))
           New(i, a, p) == Brings(i, a, p) /\ \A j \in 1..(i - 1) : ~Brings(j, a, p)
           Gets(i, a) == LET list == PortList(rows[i], <<>>)
                         IN  Selected(list, {k \in DOMAIN list : New(i, a, list[k])})
           Got(c, a) == [i \in DOMAIN rows |-> IF rows[i].seg = c THEN Gets(i, a) ELSE <<>>]
           Ports(c, a) == FlattenSeq(Got(c, a))
           IPs(c) == {a \in Addresses(c) : Ports(c, a) # <<>>}
           Of(c) == {BasicGroup(c, q, {a \in IPs(c) : Ports(c, a) = q}) : q \in {Ports(c, a) : a \in IPs(c)}}
<1>1. RowPortGroups(rows, <<>>, blocked) = UNION {Of(c) : c \in Segments(rows)}
    BY Zenon DEF RowPortGroups
<1>2. ASSUME NEW i \in DOMAIN rows, NEW a PROVE Gets(i, a) = <<>>
    <2> DEFINE none == <<>>
    <2>1. PortList(rows[i], none) = none
        BY Zenon DEF PortList
    <2> DEFINE K == {k \in DOMAIN none : New(i, a, none[k])}
    <2>2. Gets(i, a) = Selected(none, K)
        BY <2>1, Zenon
    <2>3. K = {}
        OBVIOUS
    <2>4. Selected(none, K) = [k \in 1..Cardinality(K) |-> none[Sorted(K, <)[k]]]
        BY Zenon DEF Selected
    <2> HIDE DEF K, Gets
    <2>5. 1..Cardinality(K) = {}
        BY <2>3, FS_EmptySet
    <2>6. Selected(none, K) = none
        <3> DEFINE w == Selected(none, K)
        <3>1. DOMAIN w = 1..Cardinality(K) /\ w = [k \in DOMAIN w |-> w[k]]
            BY <2>4
        <3> HIDE DEF w
        <3>2. w \in [1..0 -> Int]
            <4>1. DOMAIN w = 1..0 /\ 1..0 = {}
                BY <2>5, <3>1
            <4> QED BY <3>1, <4>1
        <3>3. w \in Seq(Int) /\ Len(w) = 0
            BY <3>2
        <3>4. w = <<>>
            BY <3>3
        <3> QED BY <3>4 DEF w
    <2> QED BY <2>2, <2>6
<1> HIDE DEF Gets
<1>3. ASSUME NEW c, NEW a PROVE Ports(c, a) = <<>>
    <2> DEFINE f == Got(c, a)
               none == <<>>
               n == Len(rows)
    <2>1. n \in Nat /\ DOMAIN rows = 1..n
        OBVIOUS
    <2>2. f = [i \in 1..n |-> f[i]] /\ \A i \in 1..n : f[i] = none
        BY <1>2, <2>1
    <2> HIDE DEF f, n, Got
    <2>3. f \in [1..n -> {none, none}]
        BY <2>2
    <2>4. none \in Seq(Int)
        OBVIOUS
    <2>5. Copies(FlattenSeq(f), none)
        <3> HIDE DEF none
        <3>1. none = <<>>
            BY DEF none
        <3> QED BY <2>1, <2>3, <2>4, <3>1, FlattenCopies
    <2>6. FlattenSeq(f) = <<>>
        <3> DEFINE w == FlattenSeq(f)
        <3> HIDE DEF w
        <3>1. w \in Seq(Int) /\ (w = <<>> \/ \A k \in DOMAIN w : \E j \in DOMAIN none : w[k] = none[j])
            BY <2>5 DEF Copies, w
        <3>2. DOMAIN none = {}
            OBVIOUS
        <3>3. w = <<>> \/ DOMAIN w = {}
            BY <3>1, <3>2
        <3>4. w = <<>>
            BY <3>1, <3>3
        <3> QED BY <3>4 DEF w
    <2> QED BY <2>6 DEF f
<1> HIDE DEF Ports
<1>4. \A c : IPs(c) = {}
    BY <1>3
<1> HIDE DEF IPs
<1>5. \A c : Of(c) = {}
    BY <1>4
<1> HIDE DEF Of
<1> QED BY <1>1, <1>5

\* No row has a port of its own.
NoRowPorts(rows) == \A i \in DOMAIN rows : ~rows[i].rich /\ ~(rows[i].port > 0)

\* The groups of such rows are those of the fallback ports, if there are any.
LEMMA PlainGroups ==
    ASSUME NEW S, NEW rows \in Seq(S), NoRowPorts(rows), NEW ports, NEW blocked
    PROVE  /\ ports = <<>> => Groups(rows, ports, blocked) = {}
           /\ ports # <<>> => Groups(rows, ports, blocked) = FallbackGroups(rows, UniquePorts(ports), blocked)
<1>1. ~HasRichRecords(rows) /\ ~HasBasicRowPorts(rows)
    BY DEF NoRowPorts, HasRichRecords, HasBasicRowPorts
<1>2. Groups(rows, ports, blocked) = BasicGroups(rows, ports, blocked)
    BY <1>1, Zenon DEF Groups
<1>3. CASE ports # <<>>
    BY <1>1, <1>2, <1>3, Zenon DEF BasicGroups
<1>4. CASE ports = <<>>
    <2>1. BasicGroups(rows, ports, blocked) = RowPortGroups(rows, UniquePorts(ports), blocked)
        BY <1>4, Zenon DEF BasicGroups
    <2>2. UniquePorts(ports) = <<>>
        <3> DEFINE none == <<>>
        <3>1. none \in Seq(Int) /\ (\A k, l \in DOMAIN none : none[k] = none[l] => k = l) /\ Copies(none, none)
            BY DEF Copies
        <3> HIDE DEF none
        <3>2. none = <<>> => UniquePorts(none) = <<>>
            BY <3>1, UniqueCopies
        <3> QED BY <1>4, <3>2 DEF none
    <2>3. \A i \in DOMAIN rows : ~(rows[i].port > 0)
        BY DEF NoRowPorts
    <2>4. RowPortGroups(rows, <<>>, blocked) = {}
        BY <2>3, NoPortsNoGroups
    <2> QED BY <1>2, <1>4, <2>1, <2>2, <2>4, Zenon
<1> QED BY <1>3, <1>4

\* What is typed stays so.
LEMMA PartTyped ==
    ASSUME NEW rows, NEW part, NEW at, PartOf(part, rows, at)
    PROVE  /\ AllTyped(rows) => AllTyped(part)
           /\ NoRowPorts(rows) => NoRowPorts(part)
BY DEF PartOf, AllTyped, NoRowPorts

\* A segment whose rows are all there keeps at least the addresses that it kept.
LEMMA KeptGrows ==
    ASSUME NEW rows, NEW part, NEW at, NEW keys, NEW blocked,
           PartOf(part, rows, at), KeepsRows(part, rows, at, keys), NEW c \in keys
    PROVE  KeptBy(rows, c, blocked) \subseteq KeptBy(part, c, blocked)
<1>1. \A r, d : Brought(r, d, blocked) = UNION {BasicTargetIPs(x, blocked) : x \in SegmentRows(r, d)}
    BY DEF Brought, SegmentRows
<1>2. Brought(part, c, blocked) = Brought(rows, c, blocked)
    <2>1. SegmentRows(part, c) = SegmentRows(rows, c)
        BY RowsStay
    <2> QED BY <1>1, <2>1
<1>3. \A d : SegmentRows(part, d) \subseteq SegmentRows(rows, d)
    BY DEF SegmentRows, PartOf
<1>4. \A d : Brought(part, d, blocked) \subseteq Brought(rows, d, blocked)
    BY <1>1, <1>3
<1>5. Segments(part) \subseteq Segments(rows)
    BY RowsStay
<1> QED BY <1>2, <1>4, <1>5 DEF KeptBy

\* Of sets of which one contains the other, as many elements are the same ones.
LEMMA EqualSets ==
    ASSUME NEW A, NEW B, A \subseteq B, IsFiniteSet(B), Cardinality(A) = Cardinality(B)
    PROVE  A = B
BY FS_Subset

\* A rich group that is made again from the rows of some segments and has as many
\* tasks as before is the group that it was.
LEMMA SameRichGroup ==
    ASSUME NEW S, NEW rows \in Seq(S), NEW part \in Seq(S), NEW at, NEW keys, NEW blocked,
           AllTyped(rows), PartOf(part, rows, at), KeepsRows(part, rows, at, keys),
           NEW g \in RichGroups(rows, blocked), NEW h \in RichGroups(part, blocked),
           g.cidr \in keys, h.cidr = g.cidr, Len(h.tasks) = Len(g.tasks)
    PROVE  h = g
<1> DEFINE A(c) == OwnedTargets(rows, c, blocked)
           B(c) == OwnedTargets(part, c, blocked)
<1>1. PICK c \in Segments(rows) : A(c) # {} /\ g = RichGroup(c, A(c))
    BY Zenon DEF RichGroups
<1>2. PICK d \in Segments(part) : B(d) # {} /\ h = RichGroup(d, B(d))
    BY Zenon DEF RichGroups
<1>3. g.cidr = c /\ h.cidr = d
    BY <1>1, <1>2, RichGroupShape
<1>4. AllTyped(part) /\ c \in keys /\ d = c
    BY <1>3, PartTyped
<1>5. A(c) \subseteq B(c)
    BY <1>4, OwnedGrows
<1>6. Len(g.tasks) = Cardinality(A(c)) /\ Len(h.tasks) = Cardinality(B(c)) /\ IsFiniteSet(B(c))
    <2>1. Len(g.tasks) = Cardinality(A(c))
        BY <1>1, RichTasks, Zenon
    <2>2. Len(h.tasks) = Cardinality(B(d))
        BY <1>2, <1>4, RichTasks, Zenon
    <2>3. IsFiniteSet(B(c))
        BY <1>4, FiniteOwned
    <2> QED BY <1>4, <2>1, <2>2, <2>3
<1> HIDE DEF A, B
<1>7. A(c) = B(c)
    BY <1>5, <1>6, EqualSets
<1> QED BY <1>1, <1>2, <1>4, <1>7

\* The same for a basic file with fallback ports.
LEMMA SameFallbackGroup ==
    ASSUME NEW S, NEW rows \in Seq(S), NEW part \in Seq(S), NEW at, NEW keys, NEW blocked,
           NEW ports \in Seq(Int), ports # <<>>,
           AllTyped(rows), PartOf(part, rows, at), KeepsRows(part, rows, at, keys),
           NEW g \in FallbackGroups(rows, UniquePorts(ports), blocked),
           NEW h \in FallbackGroups(part, UniquePorts(ports), blocked),
           g.cidr \in keys, h.cidr = g.cidr, Len(h.tasks) = Len(g.tasks)
    PROVE  h = g
<1> DEFINE A(c) == KeptBy(rows, c, blocked)
           B(c) == KeptBy(part, c, blocked)
           u == UniquePorts(ports)
<1>1. PICK c \in Segments(rows) : A(c) # {} /\ g = BasicGroup(c, u, A(c))
    BY FallbackShape, Zenon
<1>2. PICK d \in Segments(part) : B(d) # {} /\ h = BasicGroup(d, u, B(d))
    BY FallbackShape, Zenon
<1>3. g.cidr = c /\ h.cidr = d
    <2> HIDE DEF u, A, B
    <2> QED BY <1>1, <1>2, BasicGroupShape
<1>4. AllTyped(part) /\ c \in keys /\ d = c
    BY <1>3, PartTyped
<1>5. A(c) \subseteq B(c)
    BY <1>4, KeptGrows
<1>6. Len(g.tasks) = Cardinality(A(c)) * Len(u) /\ IsFiniteSet(A(c)) /\ Len(u) \in Nat \ {0}
    <2> DEFINE kept == A(c)
    <2>1. Len(BasicGroup(c, u, kept).tasks) = Cardinality(kept) * Len(u)
        BY <1>1, FallbackTasks
    <2>2. IsFiniteSet(kept) /\ Len(u) \in Nat \ {0}
        BY <1>1, FallbackTasks
    <2> QED BY <1>1, <2>1, <2>2
<1>7. Len(h.tasks) = Cardinality(B(c)) * Len(u) /\ IsFiniteSet(B(c))
    <2>1. Len(h.tasks) = Cardinality(B(d)) * Len(u) /\ IsFiniteSet(B(d))
        <3> DEFINE kept == B(d)
        <3>1. Len(BasicGroup(d, u, kept).tasks) = Cardinality(kept) * Len(u)
            BY <1>2, <1>4, FallbackTasks
        <3>2. IsFiniteSet(kept)
            BY <1>2, <1>4, FallbackTasks
        <3> QED BY <1>2, <3>1, <3>2
    <2> QED BY <1>4, <2>1
<1> HIDE DEF A, B, u
<1>8. Cardinality(A(c)) = Cardinality(B(c))
    <2> DEFINE a == Cardinality(A(c))
               b == Cardinality(B(c))
               m == Len(u)
    <2>1. a \in Nat /\ b \in Nat
        BY <1>6, <1>7, FS_CardinalityType
    <2>2. m \in Nat \ {0} /\ a * m = b * m
        BY <1>6, <1>7
    <2> HIDE DEF a, b, m
    <2>3. a = b
        BY <2>1, <2>2
    <2> QED BY <2>3 DEF a, b
<1>9. A(c) = B(c)
    BY <1>5, <1>7, <1>8, EqualSets
<1> QED BY <1>1, <1>2, <1>4, <1>9

-----------------------------------------------------------------------------
(* The plan of a file without row ports *)

\* What the operator starts from: a rich file, or a basic one without row ports.
PlainFile(x) ==
    /\ x.file \in FileType /\ x.ports \in Seq(Int) /\ x.dead \in SUBSET Nat
    /\ ~HasBasicRowPorts(RowsOf(x.file))

\* The rows of such a file are all rich, or none has a port.
PlainRows(rows) ==
    /\ rows \in Seq(ToSet(rows)) /\ AllTyped(rows)
    /\ (\A i \in DOMAIN rows : rows[i].rich) \/ NoRowPorts(rows)

\* Masking keeps a segment a segment.
LEMMA MaskedTyped ==
    ASSUME NEW s \in CIDRType
    PROVE  Masked(s) \in SegmentType
BY DEF CIDRType, SegmentType, Masked

\* What the loader makes of such a file.
LEMMA PlainFileRows ==
    ASSUME NEW x, PlainFile(x)
    PROVE  PlainRows(RowsOf(x.file))
<1> DEFINE file == x.file
           lines == x.file.lines
           rows == RowsOf(file)
<1>1. file \in FileType
    BY DEF PlainFile
<1>2. \/ file.rich = TRUE /\ lines \in Seq(RichLineType)
      \/ file.rich = FALSE /\ lines \in Seq(BasicLineType)
    BY <1>1 DEF FileType
<1>3. rows = [i \in DOMAIN lines |-> IF file.rich THEN ParseRichRow(lines[i]) ELSE ParseBasicRow(lines[i])]
    BY Zenon DEF RowsOf
<1>4. ~HasBasicRowPorts(rows)
    BY DEF PlainFile
<1> HIDE DEF file, lines, rows
<1>5. DOMAIN rows = DOMAIN lines /\ DOMAIN lines = 1..Len(lines) /\ Len(lines) \in Nat
    BY <1>2, <1>3
<1>6. rows \in Seq(ToSet(rows))
    <2>1. rows = [i \in 1..Len(lines) |-> rows[i]] /\ \A i \in 1..Len(lines) : rows[i] \in ToSet(rows)
        BY <1>3, <1>5 DEF ToSet
    <2> HIDE DEF rows
    <2>2. rows \in [1..Len(lines) -> ToSet(rows)]
        BY <2>1
    <2> QED BY <1>5, <2>2
<1>7. CASE file.rich = TRUE /\ lines \in Seq(RichLineType)
    <2>1. ASSUME NEW i \in DOMAIN rows PROVE RowTyped(rows[i]) /\ rows[i].rich = TRUE
        <3> DEFINE l == lines[i]
                   ok == RichCode(l) = ""
        <3>1. l \in RichLineType
            BY <1>5, <1>7
        <3>2. rows[i] = ParseRichRow(l)
            BY <1>3, <1>5, <1>7
        <3>3. l.seg \in CIDRType /\ l.sel \in AddressType /\ l.port \in Int
            BY <3>1 DEF RichLineType
        <3>4. /\ Masked(l.seg) \in SegmentType /\ l.sel \in SegmentType /\ Malformed \in SegmentType
              /\ l.sel.size = 1 /\ Malformed.size = 1
            BY <3>3, MaskedTyped DEF AddressType, SegmentType, Malformed
        <3> HIDE DEF l, ok
        <3> DEFINE r == ParseRichRow(l)
        <3>5. /\ r.rich = TRUE /\ r.seg = (IF ok THEN Masked(l.seg) ELSE Malformed)
              /\ r.sel = (IF ok THEN l.sel ELSE Malformed) /\ r.port = (IF ok THEN l.port ELSE 0)
            BY DEF ParseRichRow, ok
        <3> HIDE DEF r
        <3>6. RowTyped(r)
            BY <3>3, <3>4, <3>5 DEF RowTyped
        <3> QED BY <3>2, <3>5, <3>6 DEF r
    <2>2. AllTyped(rows) /\ \A i \in DOMAIN rows : rows[i].rich
        BY <2>1 DEF AllTyped
    <2> QED BY <1>6, <2>2 DEF PlainRows, rows, file
<1>8. CASE file.rich = FALSE /\ lines \in Seq(BasicLineType)
    <2>1. ASSUME NEW i \in DOMAIN rows PROVE RowTyped(rows[i]) /\ rows[i].rich = FALSE
        <3> DEFINE l == lines[i]
        <3>1. l \in BasicLineType
            BY <1>5, <1>8
        <3>2. rows[i] = ParseBasicRow(l)
            BY <1>3, <1>5, <1>8
        <3>3. l.seg \in CIDRType /\ l.sel \in CIDRType /\ l.port \in Int
            BY <3>1 DEF BasicLineType
        <3>4. Masked(l.seg) \in SegmentType /\ Masked(l.sel) \in SegmentType
            BY <3>3, MaskedTyped
        <3> HIDE DEF l
        <3> DEFINE r == ParseBasicRow(l)
        <3>5. r.rich = FALSE /\ r.seg = Masked(l.seg) /\ r.sel = Masked(l.sel) /\ r.port = l.port
            BY DEF ParseBasicRow
        <3> HIDE DEF r
        <3>6. RowTyped(r)
            BY <3>3, <3>4, <3>5 DEF RowTyped
        <3> QED BY <3>2, <3>5, <3>6 DEF r
    <2>2. AllTyped(rows) /\ \A i \in DOMAIN rows : ~rows[i].rich
        BY <2>1 DEF AllTyped
    <2>3. NoRowPorts(rows)
        BY <1>4, <2>2 DEF NoRowPorts, HasBasicRowPorts
    <2> QED BY <1>6, <2>2, <2>3 DEF PlainRows, rows, file
<1> QED BY <1>2, <1>7, <1>8

\* The groups of rows like these: rich ones, or those of the fallback ports.
LEMMA GroupsOf ==
    ASSUME NEW rows, PlainRows(rows), NEW ports, NEW blocked
    PROVE  /\ HasRichRecords(rows) => Groups(rows, ports, blocked) = RichGroups(rows, blocked)
           /\ ~HasRichRecords(rows) =>
                /\ NoRowPorts(rows)
                /\ ports = <<>> => Groups(rows, ports, blocked) = {}
                /\ ports # <<>> => Groups(rows, ports, blocked) = FallbackGroups(rows, UniquePorts(ports), blocked)
<1>1. CASE HasRichRecords(rows)
    BY <1>1, Zenon DEF Groups
<1>2. CASE ~HasRichRecords(rows)
    <2>1. NoRowPorts(rows)
        BY <1>2 DEF PlainRows, HasRichRecords, NoRowPorts
    <2>2. rows \in Seq(ToSet(rows))
        BY DEF PlainRows
    <2> QED BY <1>2, <2>1, <2>2, PlainGroups
<1> QED BY <1>1, <1>2

\* They are sound.
LEMMA GroupsSound ==
    ASSUME NEW rows, PlainRows(rows), NEW ports \in Seq(Int), NEW blocked
    PROVE  SoundGroups(Groups(rows, ports, blocked))
<1>0. rows \in Seq(ToSet(rows)) /\ AllTyped(rows)
    BY DEF PlainRows
<1>1. CASE HasRichRecords(rows)
    BY <1>0, <1>1, GroupsOf, RichGroupsSound
<1>2. CASE ~HasRichRecords(rows) /\ ports # <<>>
    BY <1>0, <1>2, GroupsOf, FallbackGroupsSound
<1>3. CASE ~HasRichRecords(rows) /\ ports = <<>>
    <2>1. Groups(rows, ports, blocked) = {}
        BY <1>3, GroupsOf
    <2>2. SoundGroups({})
        BY FS_EmptySet DEF SoundGroups
    <2> QED BY <2>1, <2>2
<1> QED BY <1>1, <1>2, <1>3

\* The groups of a file in the order of their chunks.
PlanFor(x, b) == Sorted(Groups(RowsOf(x.file), x.ports, b), KeyBefore)

\* gs has every group of Gs at one place.
ListsGroups(gs, Gs) ==
    /\ SoundGroups(Gs)
    /\ gs \in [1..Cardinality(Gs) -> Gs] /\ Cardinality(Gs) \in Nat
    /\ \A g \in Gs : \E i \in DOMAIN gs : gs[i] = g
    /\ \A i, j \in DOMAIN gs : gs[i].cidr = gs[j].cidr => i = j

\* The plan has every group at one place.
LEMMA PlanLists ==
    ASSUME NEW x, PlainFile(x), NEW b
    PROVE  ListsGroups(PlanFor(x, b), Groups(RowsOf(x.file), x.ports, b))
<1> DEFINE Gs == Groups(RowsOf(x.file), x.ports, b)
           gs == Sorted(Gs, KeyBefore)
<1>1. PlainRows(RowsOf(x.file)) /\ x.ports \in Seq(Int)
    BY PlainFileRows DEF PlainFile
<1>2. SoundGroups(Gs)
    BY <1>1, GroupsSound
<1>3. PlanFor(x, b) = gs
    BY Zenon DEF PlanFor
<1> HIDE DEF Gs
<1>4. Enumerates(gs, Gs, KeyOrder(Gs))
    BY <1>2, SortedGroups
<1> HIDE DEF gs
<1>5. Cardinality(Gs) \in Nat
    BY <1>2, FS_CardinalityType DEF SoundGroups
<1>6. /\ gs \in [1..Cardinality(Gs) -> Gs]
      /\ \A g \in Gs : \E i \in 1..Cardinality(Gs) : gs[i] = g
      /\ \A i, j \in 1..Cardinality(Gs) : gs[i] = gs[j] => i = j
    BY <1>4 DEF Enumerates
<1>7. \A g, h \in Gs : g.cidr = h.cidr => g = h
    BY <1>2 DEF SoundGroups
<1>8. DOMAIN gs = 1..Cardinality(Gs)
    BY <1>6
<1>9. \A i, j \in DOMAIN gs : gs[i].cidr = gs[j].cidr => i = j
    BY <1>6, <1>7, <1>8
<1>10. ListsGroups(gs, Gs)
    BY <1>2, <1>5, <1>6, <1>8, <1>9 DEF ListsGroups
<1> QED BY <1>3, <1>10 DEF Gs

\* What SelectRuntimeRecords leaves of the rows.
LEMMA RuntimeRows ==
    ASSUME PlainFile(input), NEW chunks
    PROVE  LET part == SelectRuntimeRecords(chunks)
           IN  /\ part \in Seq(ToSet(Rows)) /\ PlainRows(part)
               /\ \E at : PartOf(part, Rows, at) /\ KeepsRows(part, Rows, at, IncompleteKeys(chunks))
               /\ part = Rows \/ \A i \in Incomplete(chunks) : chunks[i].total # 0
<1> DEFINE part == SelectRuntimeRecords(chunks)
           S == ToSet(Rows)
           keys == IncompleteKeys(chunks)
<1>1. PlainRows(Rows)
    BY PlainFileRows DEF Rows
<1>2. Rows \in Seq(S)
    BY <1>1 DEF PlainRows
<1>3. part = Rows \/ (part = FilterRecords(Rows, keys) /\ \A i \in Incomplete(chunks) : chunks[i].total # 0)
    BY Zenon DEF SelectRuntimeRecords
<1> HIDE DEF part, S, keys
<1>4. part \in Seq(S) /\ \E at : PartOf(part, Rows, at) /\ KeepsRows(part, Rows, at, keys)
    <2>1. CASE part = Rows
        <3> DEFINE at == [i \in DOMAIN Rows |-> i]
        <3>1. PartOf(Rows, Rows, at) /\ KeepsRows(Rows, Rows, at, keys)
            BY DEF PartOf, KeepsRows
        <3> QED BY <1>2, <2>1, <3>1
    <2>2. CASE part = FilterRecords(Rows, keys)
        BY <1>2, <2>2, FilterKeepsOrder
    <2> QED BY <1>3, <2>1, <2>2
<1>5. PlainRows(part)
    <2>1. PICK at : PartOf(part, Rows, at)
        BY <1>4
    <2>2. AllTyped(part)
        BY <1>1, <2>1, PartTyped DEF PlainRows
    <2>3. (\A i \in DOMAIN part : part[i].rich) \/ NoRowPorts(part)
        <3>1. CASE NoRowPorts(Rows)
            BY <2>1, <3>1, PartTyped
        <3>2. CASE \A i \in DOMAIN Rows : Rows[i].rich
            BY <2>1, <3>2 DEF PartOf
        <3> QED BY <1>1, <3>1, <3>2 DEF PlainRows
    <2>4. part \in Seq(ToSet(part))
        <3>1. DOMAIN part = 1..Len(part) /\ Len(part) \in Nat /\ part = [i \in 1..Len(part) |-> part[i]]
            BY <1>4
        <3>2. \A i \in 1..Len(part) : part[i] \in ToSet(part)
            BY <3>1 DEF ToSet
        <3>3. part \in [1..Len(part) -> ToSet(part)]
            BY <3>1, <3>2
        <3> QED BY <3>1, <3>3
    <2> QED BY <2>2, <2>3, <2>4 DEF PlainRows
<1> QED BY <1>3, <1>4, <1>5 DEF part, S, keys

\* A chunk that was made of the group g.
ChunkFits(ch, g) ==
    /\ DOMAIN ch = {"cidr", "ports", "total", "next"}
    /\ ch.cidr = g.cidr /\ ch.ports \in {<<>>, g.ports}
    /\ ch.total \in {0, Len(g.tasks)} /\ ch.next \in 0..Len(g.tasks)

\* Chunks that were made of the groups gs.
ChunksFit(chunks, gs) ==
    DOMAIN chunks = DOMAIN gs /\ \A i \in DOMAIN gs : ChunkFits(chunks[i], gs[i])

\* The fallback ports of a run are those of the plan, or none.
SamePorts(ports) == ports = <<>> \/ UniquePorts(ports) = UniquePorts(input.ports)

\* The group that a run finds for an unfinished chunk is the one it was made of.
LEMMA GroupIsFound ==
    ASSUME PlainFile(input), NEW b, NEW chunks, ChunksFit(chunks, PlanFor(input, b)),
           NEW ports, HasRichRecords(Rows) \/ SamePorts(ports),
           NEW i \in Incomplete(chunks),
           NEW h \in Groups(SelectRuntimeRecords(chunks), ports, b),
           h.cidr = chunks[i].cidr, TotalMatches(chunks[i], h)
    PROVE  h = PlanFor(input, b)[i]
<1> DEFINE gs == PlanFor(input, b)
           Gs == Groups(Rows, input.ports, b)
           part == SelectRuntimeRecords(chunks)
           keys == IncompleteKeys(chunks)
           S == ToSet(Rows)
           g == gs[i]
<1>1. ListsGroups(gs, Gs)
    BY PlanLists DEF Rows
<1>2. PlainRows(Rows) /\ input.ports \in Seq(Int)
    BY PlainFileRows DEF Rows, PlainFile
<1>3. Rows \in Seq(S) /\ AllTyped(Rows)
    BY <1>2 DEF PlainRows
<1>4. /\ part \in Seq(S) /\ PlainRows(part)
      /\ \E at : PartOf(part, Rows, at) /\ KeepsRows(part, Rows, at, keys)
      /\ part = Rows \/ \A j \in Incomplete(chunks) : chunks[j].total # 0
    BY RuntimeRows
<1>5. i \in DOMAIN chunks /\ chunks[i].cidr \in keys
    BY DEF Incomplete, IncompleteKeys
<1> HIDE DEF gs, Gs, part, keys, S
<1>6. i \in DOMAIN gs /\ ChunkFits(chunks[i], g)
    BY <1>5 DEF ChunksFit, gs
<1>7. g \in Gs /\ GroupTyped(g)
    BY <1>1, <1>6 DEF ListsGroups, SoundGroups
<1>8. g.cidr = chunks[i].cidr /\ chunks[i].total \in {0, Len(g.tasks)}
    BY <1>6 DEF ChunkFits
<1> HIDE DEF g
<1>9. PICK at : PartOf(part, Rows, at) /\ KeepsRows(part, Rows, at, keys)
    BY <1>4
<1>10. part # Rows => Len(h.tasks) = Len(g.tasks)
    BY <1>4, <1>8 DEF TotalMatches
<1>11. h \in Groups(part, ports, b)
    BY DEF part
<1>12. CASE HasRichRecords(Rows)
    <2>1. Gs = RichGroups(Rows, b)
        BY <1>2, <1>12, GroupsOf DEF Gs
    <2>2. HasRichRecords(part)
        <3>1. \E c \in Segments(Rows) : g.cidr = c
            <4>1. PICK c \in Segments(Rows) : g = RichGroup(c, OwnedTargets(Rows, c, b))
                BY <1>7, <2>1, Zenon DEF RichGroups
            <4> QED BY <4>1, RichGroupShape
        <3>2. PICK k \in DOMAIN Rows : Rows[k].seg = g.cidr
            BY <3>1 DEF Segments
        <3>3. Rows[k].rich
            BY <1>2, <1>12 DEF PlainRows, HasRichRecords, NoRowPorts
        <3>4. PICK j \in DOMAIN part : at[j] = k
            BY <1>5, <1>8, <1>9, <3>2 DEF KeepsRows
        <3>5. part[j] = Rows[k]
            BY <1>9, <3>4 DEF PartOf
        <3> QED BY <3>3, <3>5 DEF HasRichRecords
    <2>3. h \in RichGroups(part, b)
        BY <1>4, <1>11, <2>2, GroupsOf
    <2>4. CASE part = Rows
        <3>1. h \in Gs
            BY <2>1, <2>3, <2>4
        <3> QED BY <1>1, <1>7, <1>8, <3>1 DEF ListsGroups, SoundGroups, g, gs
    <2>5. CASE part # Rows
        BY <1>3, <1>4, <1>5, <1>7, <1>8, <1>9, <1>10, <2>1, <2>3, <2>5, SameRichGroup DEF g, gs
    <2> QED BY <2>4, <2>5
<1>13. CASE ~HasRichRecords(Rows)
    <2>1. NoRowPorts(Rows)
        BY <1>2, <1>13, GroupsOf
    <2>2. input.ports # <<>> /\ Gs = FallbackGroups(Rows, UniquePorts(input.ports), b)
        BY <1>2, <1>7, <1>13, GroupsOf DEF Gs
    <2>3. ~HasRichRecords(part)
        BY <1>9, <2>1, PartTyped DEF HasRichRecords, NoRowPorts
    <2>4. ports # <<>> /\ h \in FallbackGroups(part, UniquePorts(ports), b)
        BY <1>4, <1>11, <2>3, GroupsOf
    <2>5. UniquePorts(ports) = UniquePorts(input.ports)
        BY <1>13, <2>4 DEF SamePorts
    <2>6. h \in FallbackGroups(part, UniquePorts(input.ports), b)
        BY <2>4, <2>5
    <2>7. CASE part = Rows
        <3>1. h \in Gs
            BY <2>2, <2>6, <2>7
        <3> QED BY <1>1, <1>7, <1>8, <3>1 DEF ListsGroups, SoundGroups, g, gs
    <2>8. CASE part # Rows
        BY <1>2, <1>3, <1>4, <1>5, <1>7, <1>8, <1>9, <1>10, <2>2, <2>6, <2>8, SameFallbackGroup DEF g, gs
    <2> QED BY <2>7, <2>8
<1> QED BY <1>12, <1>13

\* The ports that a run falls back to are those of the plan.
LEMMA RunPorts ==
    ASSUME PlainFile(input), ~HasRichRecords(Rows), NEW b, NEW snap,
           ChunksFit(snap.chunks, PlanFor(input, b)),
           snap.version = CurrentTargetSemanticsVersion => snap.fallback = input.ports,
           NEW portFile, portFile = <<>> \/ portFile = input.ports
    PROVE  SamePorts(FallbackPorts(snap, portFile))
<1> DEFINE specs == IF snap.version = CurrentTargetSemanticsVersion /\ ~HasRichRecords(Rows)
                    THEN snap.fallback ELSE portFile
           chunks == snap.chunks
           given == [i \in DOMAIN chunks |-> chunks[i].ports]
           all == FlattenSeq(given)
           gs == PlanFor(input, b)
           Gs == Groups(Rows, input.ports, b)
           u == UniquePorts(input.ports)
<1>1. ~HasBasicRowPorts(Rows)
    BY DEF PlainFile, Rows
<1>2. FallbackPorts(snap, portFile) = IF specs = <<>> /\ ~HasBasicRowPorts(Rows) THEN UniquePorts(all) ELSE specs
    BY Zenon DEF FallbackPorts
<1>3. specs = <<>> \/ specs = input.ports
    OBVIOUS
<1>4. ListsGroups(gs, Gs)
    BY PlanLists DEF Rows
<1>5. PlainRows(Rows) /\ input.ports \in Seq(Int)
    BY PlainFileRows DEF Rows, PlainFile
<1>6. u \in Seq(Int) /\ \A k, l \in DOMAIN u : u[k] = u[l] => k = l
    BY <1>5, UniquePortsAre
<1>7. \A g \in Gs : g.ports = u
    <2> SUFFICES ASSUME NEW g \in Gs PROVE g.ports = u
        OBVIOUS
    <2>1. Gs = FallbackGroups(Rows, u, b)
        BY <1>5, GroupsOf
    <2>2. PICK c : g = BasicGroup(c, u, KeptBy(Rows, c, b))
        BY <2>1, FallbackShape, Zenon
    <2> HIDE DEF u
    <2> QED BY <2>2 DEF BasicGroup, Group
<1> HIDE DEF gs, Gs, u, specs
<1>8. DOMAIN chunks = DOMAIN gs /\ \A i \in DOMAIN gs : chunks[i].ports = <<>> \/ chunks[i].ports = gs[i].ports
    BY DEF ChunksFit, ChunkFits, gs
<1>9. DOMAIN gs = 1..Cardinality(Gs) /\ Cardinality(Gs) \in Nat /\ \A i \in DOMAIN gs : gs[i] \in Gs
    BY <1>4 DEF ListsGroups
<1> HIDE DEF chunks
<1>10. given \in [1..Cardinality(Gs) -> {<<>>, u}]
    <2>1. \A i \in DOMAIN chunks : chunks[i].ports \in {<<>>, u}
        BY <1>7, <1>8, <1>9, Zenon
    <2> QED BY <1>8, <1>9, <2>1
<1> HIDE DEF given
<1>11. Copies(all, u)
    BY <1>6, <1>9, <1>10, FlattenCopies
<1> HIDE DEF all
<1>12. UniquePorts(all) = <<>> \/ UniquePorts(all) = u
    BY <1>6, <1>11, UniqueCopies
<1>13. u = <<>> \/ UniquePorts(u) = u
    <2>1. Copies(u, u)
        BY <1>6 DEF Copies
    <2> QED BY <1>6, <2>1, UniqueCopies
<1>14. SamePorts(UniquePorts(all))
    BY <1>12, <1>13, Zenon DEF SamePorts, u
<1>15. SamePorts(specs)
    BY <1>3, Zenon DEF SamePorts
<1> QED BY <1>2, <1>14, <1>15, Zenon

-----------------------------------------------------------------------------
(* The snapshot file *)

\* The fields that a snapshot has.
LEMMA SchemaIs ==
    SchemaFields = {"chunks", "ping", "output", "denyExcluded", "expansion", "version", "fallback"}
BY DEF SchemaFields, LegacySnapshot

\* What is written can be read and is what was written.
LEMMA RoundTrip ==
    ASSUME NEW snap, DOMAIN snap = SchemaFields
    PROVE  /\ SnapshotLoads(EncodeSnapshot(snap))
           /\ DOMAIN LoadSnapshot(EncodeSnapshot(snap)) = SchemaFields
           /\ \A f \in SchemaFields : LoadSnapshot(EncodeSnapshot(snap))[f] = snap[f]
<1> DEFINE W == Written(snap)
           fields == [f \in W |-> snap[f]]
           file == EncodeSnapshot(snap)
           old == LegacySnapshot(<<>>)
<1>1. file.root = "object" /\ file.fields = fields
    BY DEF EncodeSnapshot
<1>2. W \subseteq SchemaFields /\ "chunks" \in W
    BY SchemaIs DEF Written
<1>3. \A f \in SchemaFields \ W : snap[f] = old[f]
    BY DEF Written
<1> HIDE DEF W, file, old
<1>4. DOMAIN file.fields = W /\ \A f \in W : file.fields[f] = snap[f]
    BY <1>1
<1>5. SnapshotLoads(file)
    BY <1>1, <1>2, <1>4 DEF SnapshotLoads
<1>6. LoadSnapshot(file) = [f \in SchemaFields |-> IF f \in DOMAIN file.fields THEN file.fields[f] ELSE old[f]]
    BY Zenon DEF LoadSnapshot, old
<1>7. DOMAIN LoadSnapshot(file) = SchemaFields /\ \A f \in SchemaFields : LoadSnapshot(file)[f] = snap[f]
    BY <1>3, <1>4, <1>6
<1> QED BY <1>5, <1>7 DEF file

-----------------------------------------------------------------------------
(* The snapshot keeps the plan *)

\* The tasks of the groups, in the same order.
TasksOf(gs) == [i \in DOMAIN gs |-> gs[i].tasks]

\* snap is a snapshot of the plan for x whose tasks are orig, made with one of lists.
SnapFits(x, snap, orig, lists) ==
    LET b == snap.ping.unreachable
        gs == PlanFor(x, b)
    IN  /\ DOMAIN snap = SchemaFields /\ b \in lists
        /\ ChunksFit(snap.chunks, gs) /\ orig = TasksOf(gs)
        /\ snap.version = CurrentTargetSemanticsVersion =>
             /\ HasRichRecords(RowsOf(x.file)) \/ snap.fallback = x.ports
             /\ \A i \in DOMAIN gs : snap.chunks[i].total = Len(gs[i].tasks) /\ snap.chunks[i].ports = gs[i].ports

\* The snapshot on disk, if there is one.
Saved == LoadSnapshot(disk)
\* There is one that this build reads.
HasSnapshot == disk # Nil /\ SnapshotLoads(disk)

\* The chunk of a run: its total and its ports are known.
Opened(ch, g) == [ch EXCEPT !.total = Len(g.tasks), !.ports = IF @ = <<>> THEN g.ports ELSE @]

\* What a run starts with.
RunStarts(snap, gs, command) ==
    LET chunks == snap.chunks
        open == Incomplete(chunks)
        limits == EffectiveLimits(snap, command)
        estimate == Estimate(Rows, limits, IncompleteKeys(chunks))
    IN  /\ SnapshotLoads(disk) /\ estimate # Refused
        /\ plan' = [i \in DOMAIN chunks |-> IF i \in open THEN gs[i].tasks ELSE <<>>]
        /\ stored' = Cardinality(UNION {{i} \X gs[i].entries : i \in open})
        /\ snapshot' = [snap EXCEPT
                !.chunks = [i \in DOMAIN chunks |-> IF i \in open THEN Opened(chunks[i], gs[i]) ELSE chunks[i]],
                !.denyExcluded = TRUE,
                !.expansion = [count |-> IF snap.expansion # Nil THEN snap.expansion.count ELSE estimate,
                               limits |-> limits]]

\* A run of the scan starts with the groups of the plan, or not at all.
LEMMA ExecuteStarts ==
    ASSUME PlainFile(input), NEW orig, NEW lists, SnapshotLoads(disk) => SnapFits(input, Saved, orig, lists),
           NEW portFile, portFile = <<>> \/ portFile = input.ports, NEW command,
           Execute(portFile, command)
    PROVE  \/ pc' \in {"unreadable", "unproven", "scan over limit", "incompatible"} /\ UNCHANGED scanVars
           \/ pc' = "running" /\ RunStarts(Saved, PlanFor(input, Saved.ping.unreachable), command)
<1> DEFINE snap == LoadSnapshot(disk)
           chunks == snap.chunks
           limits == EffectiveLimits(snap, command)
           estimate == Estimate(Rows, limits, IncompleteKeys(chunks))
           rows == SelectRuntimeRecords(chunks)
           ports == FallbackPorts(snap, portFile)
           b == snap.ping.unreachable
           found == RuntimeGroups(chunks, rows, ports, b)
           G(i) == CHOOSE g \in found[i] : TRUE
           open == Incomplete(chunks)
           gs == PlanFor(input, b)
<1>1. \/ pc' \in {"unreadable", "unproven", "scan over limit", "incompatible"} /\ UNCHANGED scanVars
      \/ /\ SnapshotLoads(disk) /\ SnapshotSemanticsKnown(snap) /\ estimate # Refused
         /\ \A i \in open : found[i] # {}
         /\ plan' = [i \in DOMAIN chunks |-> IF i \in open THEN G(i).tasks ELSE <<>>]
         /\ stored' = Cardinality(UNION {{i} \X G(i).entries : i \in open})
         /\ snapshot' = [snap EXCEPT
                !.chunks = [i \in DOMAIN chunks |-> IF i \in open THEN Opened(chunks[i], G(i)) ELSE chunks[i]],
                !.denyExcluded = TRUE,
                !.expansion = [count |-> IF snap.expansion # Nil THEN snap.expansion.count ELSE estimate,
                               limits |-> limits]]
         /\ pc' = "running"
    BY Zenon DEF Execute, Refuse, Opened
<1>2. CASE pc' \in {"unreadable", "unproven", "scan over limit", "incompatible"} /\ UNCHANGED scanVars
    BY <1>2
<1> HIDE DEF found, G
<1>3. CASE ~(pc' \in {"unreadable", "unproven", "scan over limit", "incompatible"} /\ UNCHANGED scanVars)
    <2>0. SnapshotLoads(disk) /\ SnapshotSemanticsKnown(snap) /\ estimate # Refused
        BY <1>1, <1>3, Zenon
    <2>1. SnapFits(input, snap, orig, lists)
        BY <2>0 DEF Saved
    <2>2. ChunksFit(chunks, gs)
        BY <2>1, Zenon DEF SnapFits
    <2>3. HasRichRecords(Rows) \/ SamePorts(ports)
        <3>1. snap.version = CurrentTargetSemanticsVersion => HasRichRecords(Rows) \/ snap.fallback = input.ports
            BY <2>1, Zenon DEF SnapFits, Rows
        <3> QED BY <2>2, <3>1, RunPorts
    <2>4. ASSUME NEW i \in open PROVE G(i) = gs[i]
        <3>1. found[i] # {}
            BY <1>1, <1>3, Zenon
        <3>2. G(i) \in found[i]
            BY <3>1, Zenon DEF G
        <3>3. i \in DOMAIN chunks
            BY DEF Incomplete
        <3>4. /\ G(i) \in Groups(rows, ports, b) /\ G(i).cidr = chunks[i].cidr
              /\ TotalMatches(chunks[i], G(i))
            <4> DEFINE new == IF Incomplete(chunks) = {} THEN {} ELSE Groups(rows, ports, b)
                       rich == HasRichRecords(rows)
                       PortsOf(ch) == IF ch.ports = <<>> THEN ports ELSE ch.ports
                       Matching(ch) == {g \in new : /\ g.cidr = ch.cidr /\ (rich \/ g.ports = PortsOf(ch))
                                                    /\ TotalMatches(ch, g)}
            <4>1. found = [j \in DOMAIN chunks |-> IF j \in Incomplete(chunks) THEN Matching(chunks[j]) ELSE {}]
                BY Zenon DEF found, RuntimeGroups
            <4>2. new = Groups(rows, ports, b)
                BY Zenon
            <4> HIDE DEF new, PortsOf, rich, rows, ports, b, chunks
            <4>3. found[i] = Matching(chunks[i])
                BY <3>3, <4>1
            <4> QED BY <3>2, <4>2, <4>3
        <3> QED BY <2>2, <2>3, <3>4, GroupIsFound
    <2> HIDE DEF chunks, open, gs, snap, limits, estimate, b
    <2>5. UNION {{i} \X G(i).entries : i \in open} = UNION {{i} \X gs[i].entries : i \in open}
        BY <2>4
    <2>6. [i \in DOMAIN chunks |-> IF i \in open THEN G(i).tasks ELSE <<>>]
            = [i \in DOMAIN chunks |-> IF i \in open THEN gs[i].tasks ELSE <<>>]
        BY <2>4
    <2>7. [i \in DOMAIN chunks |-> IF i \in open THEN Opened(chunks[i], G(i)) ELSE chunks[i]]
            = [i \in DOMAIN chunks |-> IF i \in open THEN Opened(chunks[i], gs[i]) ELSE chunks[i]]
        BY <2>4
    <2>8. pc' = "running"
        BY <1>1, <1>3, Zenon
    <2>9. RunStarts(snap, gs, command)
        BY <1>1, <1>3, <2>0, <2>5, <2>6, <2>7, Zenon DEF RunStarts, chunks, open, limits, estimate
    <2> QED BY <2>8, <2>9, Zenon DEF gs, snap, b, Saved
<1> QED BY <1>2, <1>3

\* The blocklists that a plan may have been made with.
Lists == {Blocked} \cup {b \in {{}} : input.dead = {}}

\* Before the buckets are saved.
Planning == {"prepare", "stat", "count", "parse", "loaded", "fan out"}

\* Until the buckets are saved there is nothing to go by.
FreshRight == pc \in Planning => disk = Nil /\ original = <<>> /\ scanned = {}

\* The fan-out makes the chunks of the plan.
FanOutRight ==
    pc = "fan out" => /\ groups = PlanFor(input, Blocked) /\ DOMAIN slots = DOMAIN groups
                      /\ \A i \in DOMAIN slots : slots[i] = Nil \/ slots[i] = ChunkOf(groups[i])

\* The tasks that the chunks stand for are those of the plan.
OriginalRight == original = <<>> \/ \E b \in Lists : original = TasksOf(PlanFor(input, b))

\* The file on disk is a snapshot of the plan.
DiskRight == HasSnapshot => SnapFits(input, Saved, original, Lists)

\* What counts as scanned is a task of the plan under its index ...
ScannedRight ==
    \A x \in scanned : \E i \in DOMAIN original : \E k \in DOMAIN original[i] : x = <<i, k, original[i][k]>>

\* ... and everything below a cursor on disk counts as scanned.
CursorsRight ==
    HasSnapshot => \A i \in DOMAIN original : \A k \in 1..Saved.chunks[i].next :
                       <<i, k, original[i][k]>> \in scanned

\* A run has a snapshot of the plan, and its tasks for the unfinished chunks.
RunRight ==
    pc = "running" =>
        /\ HasSnapshot /\ SnapFits(input, snapshot, original, Lists) /\ DOMAIN plan = DOMAIN original
        /\ \A i \in Incomplete(Saved.chunks) : plan[i] = original[i]
        /\ \A i \in DOMAIN plan : i \in Incomplete(Saved.chunks) \/ plan[i] = <<>>
        /\ \A i \in DOMAIN original : /\ snapshot.chunks[i].next = Saved.chunks[i].next
                                      /\ snapshot.chunks[i].total = Len(original[i])

\* At the end all tasks of the plan are scanned.
DoneRight ==
    pc = "done" =>
        /\ \E b \in Lists : original = TasksOf(PlanFor(input, b))
        /\ \A i \in DOMAIN original : \A k \in DOMAIN original[i] : <<i, k, original[i][k]>> \in scanned

\* The inductive invariant: all of this, for a file without row ports.
PlanInv ==
    /\ FreshRight
    /\ PlainFile(input) => /\ FanOutRight /\ OriginalRight /\ DiskRight /\ ScannedRight
                           /\ CursorsRight /\ RunRight /\ DoneRight

\* The lists come from the input.
LEMMA ListsStay ==
    ASSUME input' = input
    PROVE  Lists' = Lists /\ Blocked' = Blocked /\ Rows' = Rows
<1>1. Rows' = Rows
    BY DEF Rows
<1>2. Blocklist' = Blocklist
    BY <1>1 DEF Blocklist
<1>3. Blocked' = Blocked
    BY <1>2 DEF Blocked
<1> QED BY <1>1, <1>3 DEF Lists

\* A fresh state is right whatever the file is.
LEMMA FreshIsRight ==
    ASSUME pc \in {"prepare", "stat", "count", "parse", "loaded"}, disk = Nil, original = <<>>, scanned = {}
    PROVE  PlanInv
<1>1. ~HasSnapshot
    BY DEF HasSnapshot
<1>2. pc # "fan out" /\ pc # "running" /\ pc # "done"
    OBVIOUS
<1> QED BY <1>1, <1>2 DEF PlanInv, FreshRight, FanOutRight, OriginalRight, DiskRight, ScannedRight,
                          CursorsRight, RunRight, DoneRight

\* What does not touch the plan, the disk and what is scanned, and does not start to
\* run, leaves everything right.
LEMMA RestIsRight ==
    ASSUME PlanInv, UNCHANGED <<input, disk, original, scanned>>,
           pc' \notin {"running", "done", "fan out"}, pc' \in Planning => pc \in Planning
    PROVE  PlanInv'
<1>1. Lists' = Lists /\ input' = input
    BY ListsStay
<1>2. FreshRight'
    BY DEF PlanInv, FreshRight
<1>3. Saved' = Saved /\ (HasSnapshot' <=> HasSnapshot)
    BY DEF Saved, HasSnapshot
<1>4. ASSUME PlainFile(input)
      PROVE  (FanOutRight /\ OriginalRight /\ DiskRight /\ ScannedRight /\ CursorsRight /\ RunRight /\ DoneRight)'
    <2>1. OriginalRight /\ DiskRight /\ ScannedRight /\ CursorsRight
        BY <1>4 DEF PlanInv
    <2>2. FanOutRight' /\ RunRight' /\ DoneRight'
        BY DEF FanOutRight, RunRight, DoneRight
    <2>3. OriginalRight'
        BY <1>1, <2>1 DEF OriginalRight
    <2>4. DiskRight'
        BY <1>1, <1>3, <2>1 DEF DiskRight
    <2>5. ScannedRight'
        BY <2>1 DEF ScannedRight
    <2>6. CursorsRight'
        BY <1>3, <2>1 DEF CursorsRight
    <2> QED BY <2>2, <2>3, <2>4, <2>5, <2>6
<1> QED BY <1>1, <1>2, <1>4 DEF PlanInv

\* Only the fields of a snapshot matter.
LEMMA SameFields ==
    ASSUME NEW x, NEW s, NEW t, NEW orig, NEW lists, DOMAIN t = SchemaFields,
           \A f \in SchemaFields : t[f] = s[f], SnapFits(x, s, orig, lists)
    PROVE  SnapFits(x, t, orig, lists)
<1>1. t.chunks = s.chunks /\ t.ping = s.ping /\ t.version = s.version /\ t.fallback = s.fallback
    BY SchemaIs
<1> QED BY <1>1, Zenon DEF SnapFits

\* A saved snapshot is found on disk.
LEMMA SavedFits ==
    ASSUME NEW x, NEW snap, NEW orig, NEW lists, SnapFits(x, snap, orig, lists),
           disk' = EncodeSnapshot(snap)
    PROVE  /\ SnapFits(x, Saved', orig, lists)
           /\ Saved'.chunks = snap.chunks /\ SnapshotLoads(disk')
<1>1. DOMAIN snap = SchemaFields
    BY DEF SnapFits
<1>2. /\ SnapshotLoads(EncodeSnapshot(snap))
      /\ DOMAIN LoadSnapshot(EncodeSnapshot(snap)) = SchemaFields
      /\ \A f \in SchemaFields : LoadSnapshot(EncodeSnapshot(snap))[f] = snap[f]
    BY <1>1, RoundTrip
<1>3. Saved' = LoadSnapshot(EncodeSnapshot(snap))
    BY DEF Saved
<1>4. SnapFits(x, LoadSnapshot(EncodeSnapshot(snap)), orig, lists)
    BY <1>2, SameFields
<1>5. "chunks" \in SchemaFields
    BY SchemaIs
<1>6. LoadSnapshot(EncodeSnapshot(snap)).chunks = snap.chunks
    BY <1>2, <1>5
<1> QED BY <1>2, <1>3, <1>4, <1>6, Zenon

\* generate-buckets makes the groups of the plan.
LEMMA GenerateIsRight ==
    ASSUME PlanInv, GenerateGroups
    PROVE  PlanInv'
<1> DEFINE new == Groups(Rows, input.ports, Blocked)
<1>1. /\ pc = "loaded" /\ UNCHANGED <<input, disk, original, scanned>>
      /\ \/ pc' \in {"bad input", "over limit", "bad blocklist", "no port source"}
         \/ /\ groups' = Sorted(new, KeyBefore) /\ slots' = [i \in 1..Cardinality(new) |-> Nil]
            /\ pc' = "fan out"
    BY Zenon DEF GenerateGroups, Refuse
<1>2. CASE pc' \in {"bad input", "over limit", "bad blocklist", "no port source"}
    <2>1. pc' \notin {"running", "done", "fan out"} /\ pc' \notin Planning
        BY <1>2 DEF Planning
    <2> QED BY <1>1, <2>1, RestIsRight
<1>3. CASE /\ groups' = Sorted(new, KeyBefore) /\ slots' = [i \in 1..Cardinality(new) |-> Nil]
           /\ pc' = "fan out"
    <2>1. disk' = Nil /\ original' = <<>> /\ scanned' = {} /\ input' = input
        BY <1>1 DEF PlanInv, FreshRight, Planning
    <2>2. (FreshRight /\ OriginalRight /\ ScannedRight /\ RunRight /\ DoneRight)' /\ ~HasSnapshot'
        BY <1>3, <2>1 DEF FreshRight, OriginalRight, ScannedRight, RunRight, DoneRight, HasSnapshot
    <2>3. (DiskRight /\ CursorsRight)'
        BY <2>2 DEF DiskRight, CursorsRight
    <2>4. ASSUME PlainFile(input) PROVE FanOutRight'
        <3>1. Blocked' = Blocked
            BY <2>1, ListsStay
        <3>2. groups' = PlanFor(input, Blocked)
            BY <1>3, Zenon DEF PlanFor, Rows
        <3>3. DOMAIN PlanFor(input, Blocked) = 1..Cardinality(new)
            BY <2>4, PlanLists DEF ListsGroups, Rows
        <3> HIDE DEF new
        <3>4. DOMAIN slots' = 1..Cardinality(new) /\ \A i \in DOMAIN slots' : slots'[i] = Nil
            BY <1>3
        <3> QED BY <2>1, <3>1, <3>2, <3>3, <3>4 DEF FanOutRight
    <2> QED BY <2>1, <2>2, <2>3, <2>4 DEF PlanInv
<1> QED BY <1>1, <1>2, <1>3

\* A worker makes the chunk of its group.
LEMMA BuildIsRight ==
    ASSUME PlanInv, NEW i \in DOMAIN slots, BuildChunk(i)
    PROVE  PlanInv'
<1>1. /\ pc = "fan out" /\ pc' = "fan out" /\ UNCHANGED <<input, groups, disk, original, scanned>>
      /\ slots' = [slots EXCEPT ![i] = ChunkOf(groups[i])]
    BY DEF BuildChunk, FillSlot
<1>2. disk' = Nil /\ original' = <<>> /\ scanned' = {} /\ input' = input
    BY <1>1 DEF PlanInv, FreshRight, Planning
<1>3. (FreshRight /\ OriginalRight /\ ScannedRight /\ RunRight /\ DoneRight)' /\ ~HasSnapshot'
    BY <1>1, <1>2 DEF FreshRight, OriginalRight, ScannedRight, RunRight, DoneRight, HasSnapshot
<1>4. (DiskRight /\ CursorsRight)'
    BY <1>3 DEF DiskRight, CursorsRight
<1>5. ASSUME PlainFile(input) PROVE FanOutRight'
    <2>1. Blocked' = Blocked
        BY <1>2, ListsStay
    <2>2. /\ groups = PlanFor(input, Blocked) /\ DOMAIN slots = DOMAIN groups
          /\ \A j \in DOMAIN slots : slots[j] = Nil \/ slots[j] = ChunkOf(groups[j])
        BY <1>1, <1>5 DEF PlanInv, FanOutRight
    <2>3. DOMAIN slots' = DOMAIN slots
        BY <1>1
    <2>4. \A j \in DOMAIN slots : slots'[j] = Nil \/ slots'[j] = ChunkOf(groups[j])
        <3> SUFFICES ASSUME NEW j \in DOMAIN slots PROVE slots'[j] = Nil \/ slots'[j] = ChunkOf(groups[j])
            OBVIOUS
        <3>1. CASE j = i
            BY <1>1, <3>1
        <3>2. CASE j # i
            BY <1>1, <2>2, <3>2
        <3> QED BY <3>1, <3>2
    <2> QED BY <1>1, <1>2, <2>1, <2>2, <2>3, <2>4 DEF FanOutRight
<1> QED BY <1>2, <1>3, <1>4, <1>5 DEF PlanInv

\* An interrupt is only noted.
LEMMA InterruptIsRight ==
    ASSUME PlanInv, Interrupt
    PROVE  PlanInv'
<1>1. /\ pc = "fan out" /\ pc' = "fan out" /\ UNCHANGED <<input, groups, slots, disk, original, scanned>>
    BY DEF Interrupt, genVars
<1>2. disk' = Nil /\ original' = <<>> /\ scanned' = {} /\ input' = input
    BY <1>1 DEF PlanInv, FreshRight, Planning
<1>3. (FreshRight /\ OriginalRight /\ ScannedRight /\ RunRight /\ DoneRight)' /\ ~HasSnapshot'
    BY <1>1, <1>2 DEF FreshRight, OriginalRight, ScannedRight, RunRight, DoneRight, HasSnapshot
<1>4. (DiskRight /\ CursorsRight)'
    BY <1>3 DEF DiskRight, CursorsRight
<1>5. ASSUME PlainFile(input) PROVE FanOutRight'
    <2>1. Blocked' = Blocked
        BY <1>2, ListsStay
    <2> QED BY <1>1, <1>5, <2>1 DEF PlanInv, FanOutRight
<1> QED BY <1>2, <1>3, <1>4, <1>5 DEF PlanInv

\* A new chunk fits its group.
LEMMA NewChunkFits ==
    ASSUME NEW g, GroupTyped(g)
    PROVE  /\ ChunkFits(ChunkOf(g), g) /\ ChunkOf(g).next = 0
           /\ ChunkOf(g).total = Len(g.tasks) /\ ChunkOf(g).ports = g.ports
<1>1. Len(g.tasks) \in Nat
    BY DEF GroupTyped
<1> DEFINE n == Len(g.tasks)
           ch == [cidr |-> g.cidr, ports |-> g.ports, total |-> n, next |-> 0]
<1>2. ChunkOf(g) = ch
    BY DEF ChunkOf
<1> HIDE DEF n
<1>3. n \in Nat
    BY <1>1 DEF n
<1>4. /\ DOMAIN ch = {"cidr", "ports", "total", "next"}
      /\ ch.cidr = g.cidr /\ ch.ports = g.ports /\ ch.total = n /\ ch.next = 0
    OBVIOUS
<1> HIDE DEF ch
<1>5. ChunkFits(ch, g)
    BY <1>3, <1>4 DEF ChunkFits, n
<1> QED BY <1>2, <1>4, <1>5 DEF n

\* A step that writes a snapshot of the plan leaves everything right.
LEMMA SaveIsRight ==
    ASSUME PlainFile(input), input' = input, pc' \notin Planning \cup {"running", "done"},
           NEW snap, SnapFits(input, snap, original', Lists), disk' = EncodeSnapshot(snap),
           ScannedRight',
           \A i \in DOMAIN original' : \A k \in 1..snap.chunks[i].next : <<i, k, original'[i][k]>> \in scanned'
    PROVE  PlanInv'
<1>1. Lists' = Lists
    BY ListsStay
<1>2. SnapFits(input, Saved', original', Lists) /\ Saved'.chunks = snap.chunks
    BY SavedFits
<1>3. (FreshRight /\ FanOutRight /\ RunRight /\ DoneRight)'
    BY DEF FreshRight, FanOutRight, RunRight, DoneRight, Planning
<1>4. DiskRight'
    BY <1>1, <1>2 DEF DiskRight
<1>5. CursorsRight'
    BY <1>2, Zenon DEF CursorsRight
<1>6. OriginalRight'
    <2>1. \E b \in Lists : original' = TasksOf(PlanFor(input, b))
        BY Zenon DEF SnapFits
    <2> QED BY <1>1, <2>1 DEF OriginalRight
<1> QED BY <1>3, <1>4, <1>5, <1>6 DEF PlanInv

\* generate-buckets saves the plan.
LEMMA BucketsAreRight ==
    ASSUME PlanInv, SaveBuckets
    PROVE  PlanInv'
<1>1. /\ pc = "fan out" /\ Unbuilt = {} /\ input' = input /\ scanned' = scanned
      /\ original' = TasksOf(groups)
      /\ \/ disk' = EncodeSnapshot(FirstSnapshot) /\ pc' = "idle"
         \/ pc' = "snapshot limit" /\ disk' = disk
    BY Zenon DEF SaveBuckets, Refuse, TasksOf
<1>2. disk = Nil /\ original = <<>> /\ scanned = {}
    BY <1>1 DEF PlanInv, FreshRight, Planning
<1>3. pc' \notin Planning \cup {"running", "done"}
    <2>1. pc' \in {"idle", "snapshot limit"}
        BY <1>1
    <2> QED BY <2>1 DEF Planning
<1>4. CASE ~PlainFile(input)
    <2>1. FreshRight'
        BY <1>3 DEF FreshRight
    <2> QED BY <1>1, <1>4, <2>1 DEF PlanInv
<1>5. CASE PlainFile(input)
    <2> DEFINE gs == PlanFor(input, Blocked)
    <2>1. /\ groups = gs /\ DOMAIN slots = DOMAIN gs
          /\ \A i \in DOMAIN gs : slots[i] = ChunkOf(gs[i])
        BY <1>1, <1>5 DEF PlanInv, FanOutRight, Unbuilt
    <2>2. ListsGroups(gs, Groups(RowsOf(input.file), input.ports, Blocked))
        BY <1>5, PlanLists
    <2> HIDE DEF gs
    <2>3. \A i \in DOMAIN gs : GroupTyped(gs[i])
        BY <2>2 DEF ListsGroups, SoundGroups
    <2>4. /\ ChunksFit(slots, gs)
          /\ \A i \in DOMAIN gs : /\ slots[i].next = 0 /\ slots[i].total = Len(gs[i].tasks)
                                  /\ slots[i].ports = gs[i].ports
        BY <2>1, <2>3, NewChunkFits DEF ChunksFit
    <2> DEFINE snap == FirstSnapshot
    <2>5. /\ DOMAIN snap = SchemaFields /\ snap.ping.unreachable = Blocked
          /\ snap.chunks = slots
          /\ snap.fallback = IF HasRichRecords(Rows) THEN <<>> ELSE input.ports
        BY SchemaIs DEF FirstSnapshot
    <2> HIDE DEF snap
    <2>6. Blocked \in Lists
        BY DEF Lists
    <2>7. HasRichRecords(RowsOf(input.file)) \/ snap.fallback = input.ports
        BY <2>5, Zenon DEF Rows
    <2>8. SnapFits(input, snap, original', Lists)
        BY <1>1, <2>1, <2>4, <2>5, <2>6, <2>7, Zenon DEF SnapFits, gs
    <2>9. ScannedRight'
        BY <1>1, <1>2 DEF ScannedRight
    <2>10. CASE disk' = EncodeSnapshot(FirstSnapshot)
        <3>1. DOMAIN original' = DOMAIN gs
            BY <1>1, <2>1 DEF TasksOf
        <3>2. \A i \in DOMAIN original' : \A k \in 1..snap.chunks[i].next : <<i, k, original'[i][k]>> \in scanned'
            BY <2>4, <2>5, <3>1
        <3> QED BY <1>1, <1>3, <1>5, <2>8, <2>9, <2>10, <3>2, SaveIsRight DEF snap
    <2>11. CASE disk' = disk
        <3>1. ~HasSnapshot'
            BY <1>2, <2>11 DEF HasSnapshot
        <3>2. Lists' = Lists
            BY <1>1, ListsStay
        <3>3. (FreshRight /\ FanOutRight /\ RunRight /\ DoneRight)'
            BY <1>3 DEF FreshRight, FanOutRight, RunRight, DoneRight, Planning
        <3>4. (DiskRight /\ CursorsRight)'
            BY <3>1 DEF DiskRight, CursorsRight
        <3>5. OriginalRight'
            BY <1>1, <2>1, <2>6, <3>2 DEF OriginalRight, gs
        <3> QED BY <2>9, <3>3, <3>4, <3>5 DEF PlanInv
    <2> QED BY <1>1, <2>10, <2>11
<1> QED BY <1>4, <1>5

\* The chunk that an older build wrote.
OldChunk(g, omitTotal, omitPorts, progress) ==
    [ChunkOf(g) EXCEPT !.total = IF omitTotal THEN 0 ELSE @, !.ports = IF omitPorts THEN <<>> ELSE @,
                       !.next = progress]

\* It fits its group, too.
LEMMA OldChunkFits ==
    ASSUME NEW g, GroupTyped(g), NEW omitTotal, NEW omitPorts, NEW progress \in {0, 1}
    PROVE  /\ ChunkFits(OldChunk(g, omitTotal, omitPorts, progress), g)
           /\ OldChunk(g, omitTotal, omitPorts, progress).next = progress
<1> DEFINE n == Len(g.tasks)
           ch == ChunkOf(g)
           t == IF omitTotal THEN 0 ELSE ch.total
           p == IF omitPorts THEN <<>> ELSE ch.ports
           old == OldChunk(g, omitTotal, omitPorts, progress)
<1>1. n \in Nat /\ n > 0
    BY DEF GroupTyped
<1>2. old = [ch EXCEPT !.total = t, !.ports = p, !.next = progress]
    BY Zenon DEF OldChunk
<1>3. /\ DOMAIN ch = {"cidr", "ports", "total", "next"} /\ ch.cidr = g.cidr
      /\ ch.total = n /\ ch.ports = g.ports
    BY NewChunkFits DEF ChunkFits
<1>4. (t = 0 \/ t = n) /\ (p = <<>> \/ p = g.ports)
    BY <1>3, Zenon
<1> HIDE DEF n, ch, t, p, old
<1>5. /\ DOMAIN old = {"cidr", "ports", "total", "next"} /\ old.cidr = g.cidr
      /\ old.total = t /\ old.ports = p /\ old.next = progress
    BY <1>2, <1>3
<1>6. ChunkFits(old, g)
    BY <1>1, <1>4, <1>5 DEF ChunkFits, n
<1> QED BY <1>5, <1>6 DEF old

\* What an older build wrote, given the chunks without a total.
LegacyDisk(noTotal, omitPorts, progress) ==
    LET old == Sorted(Groups(Rows, input.ports, {}), KeyBefore)
    IN  disk' = [root |-> "array",
                 fields |-> [f \in {"chunks"} |->
                                [i \in DOMAIN old |-> OldChunk(old[i], i \in noTotal, omitPorts, progress)]]]

LEMMA LegacyWrites ==
    ASSUME NEW omitPorts, NEW progress, LegacyBuckets(omitPorts, progress)
    PROVE  \E noTotal : LegacyDisk(noTotal, omitPorts, progress)
<1> DEFINE old == Sorted(Groups(Rows, input.ports, {}), KeyBefore)
<1>1. PICK noTotal \in SUBSET DOMAIN old :
          disk' = [root |-> "array",
                   fields |-> [f \in {"chunks"} |->
                                 [i \in DOMAIN old |-> OldChunk(old[i], i \in noTotal, omitPorts, progress)]]]
    BY Zenon DEF LegacyBuckets, OldChunk
<1>2. LegacyDisk(noTotal, omitPorts, progress)
    BY <1>1, Zenon DEF LegacyDisk
<1> QED BY <1>2

\* The snapshot of an older build is one of the plan without a blocklist.
LEMMA LegacyIsRight ==
    ASSUME PlanInv, NEW omitPorts, NEW progress \in {0, 1}, LegacyBuckets(omitPorts, progress)
    PROVE  PlanInv'
<1>0. PICK noTotal : LegacyDisk(noTotal, omitPorts, progress)
    BY LegacyWrites
<1> DEFINE gs == PlanFor(input, {})
           chunks == [i \in DOMAIN gs |-> OldChunk(gs[i], i \in noTotal, omitPorts, progress)]
           fields == [f \in {"chunks"} |-> chunks]
           file == [root |-> "array", fields |-> fields]
<1>1. /\ pc' = "idle" /\ input' = input /\ input.dead = {}
      /\ original' = TasksOf(gs) /\ disk' = file
      /\ scanned' = UNION {{<<i, k, gs[i].tasks[k]>> : k \in 1..progress} : i \in DOMAIN gs}
    <2> DEFINE old == Sorted(Groups(Rows, input.ports, {}), KeyBefore)
    <2>1. /\ pc' = "idle" /\ input' = input /\ input.dead = {}
          /\ original' = [i \in DOMAIN old |-> old[i].tasks]
        BY Zenon DEF LegacyBuckets
    <2>2. scanned' = UNION {{<<i, k, old[i].tasks[k]>> : k \in 1..progress} : i \in DOMAIN old}
        BY Zenon DEF LegacyBuckets
    <2>3. disk' = [root |-> "array",
                   fields |-> [f \in {"chunks"} |->
                                 [i \in DOMAIN old |-> OldChunk(old[i], i \in noTotal, omitPorts, progress)]]]
        BY <1>0, Zenon DEF LegacyDisk
    <2>4. old = gs
        BY Zenon DEF PlanFor, Rows
    <2> HIDE DEF old, gs
    <2>5. original' = TasksOf(gs)
        BY <2>1, <2>4, Zenon DEF TasksOf
    <2>6. disk' = file
        BY <2>3, <2>4, Zenon
    <2> QED BY <2>1, <2>2, <2>4, <2>5, <2>6
<1>2. (FreshRight /\ FanOutRight /\ RunRight /\ DoneRight)'
    BY <1>1 DEF FreshRight, FanOutRight, RunRight, DoneRight, Planning
<1>3. ASSUME PlainFile(input) PROVE (OriginalRight /\ DiskRight /\ ScannedRight /\ CursorsRight)'
    <2>1. ListsGroups(gs, Groups(RowsOf(input.file), input.ports, {}))
        BY <1>3, PlanLists
    <2> HIDE DEF gs
    <2>2. \A i \in DOMAIN gs : GroupTyped(gs[i])
        BY <2>1 DEF ListsGroups, SoundGroups
    <2>3. ChunksFit(chunks, gs) /\ \A i \in DOMAIN gs : chunks[i].next = progress
        <3>1. DOMAIN chunks = DOMAIN gs /\ \A i \in DOMAIN gs : chunks[i] = OldChunk(gs[i], i \in noTotal, omitPorts, progress)
            OBVIOUS
        <3> HIDE DEF chunks
        <3> QED BY <2>2, <3>1, OldChunkFits DEF ChunksFit
    <2> HIDE DEF chunks
    <2>4. DOMAIN fields = {"chunks"} /\ fields["chunks"] = chunks
        OBVIOUS
    <2> HIDE DEF fields
    <2>5. DOMAIN file.fields = {"chunks"} /\ file.fields["chunks"] = chunks
        BY <2>4
    <2> HIDE DEF file
    <2> DEFINE snap == LoadSnapshot(file)
               old == LegacySnapshot(<<>>)
    <2>6. snap = [f \in SchemaFields |-> IF f \in DOMAIN file.fields THEN file.fields[f] ELSE old[f]]
        BY Zenon DEF LoadSnapshot
    <2>7. old.ping = NoPing /\ old.version = 0
        BY DEF LegacySnapshot
    <2> HIDE DEF old, snap
    <2>8. DOMAIN snap = SchemaFields /\ snap.chunks = chunks /\ snap.ping = NoPing /\ snap.version = 0
        BY <2>5, <2>6, <2>7, SchemaIs
    <2>9. snap.ping.unreachable = {}
        BY <2>8 DEF NoPing
    <2>10. {} \in Lists
        BY <1>1 DEF Lists
    <2>11. snap.version # CurrentTargetSemanticsVersion
        BY <2>8 DEF CurrentTargetSemanticsVersion
    <2>12. SnapFits(input, snap, original', Lists)
        BY <1>1, <2>3, <2>8, <2>9, <2>10, <2>11, Zenon DEF SnapFits, gs
    <2>13. Lists' = Lists /\ Saved' = snap
        BY <1>1, ListsStay DEF Saved, snap
    <2>14. OriginalRight'
        BY <1>1, <2>10, <2>13 DEF OriginalRight, gs
    <2>15. DiskRight'
        BY <1>1, <2>12, <2>13 DEF DiskRight
    <2>16. DOMAIN original' = DOMAIN gs /\ \A i \in DOMAIN gs : original'[i] = gs[i].tasks
        BY <1>1 DEF TasksOf
    <2>17. ScannedRight'
        <3> SUFFICES ASSUME NEW x \in scanned'
                     PROVE  \E i \in DOMAIN original' : \E k \in DOMAIN original'[i] : x = <<i, k, original'[i][k]>>
            BY DEF ScannedRight
        <3>1. PICK i \in DOMAIN gs, k \in 1..progress : x = <<i, k, gs[i].tasks[k]>>
            BY <1>1
        <3>2. k \in DOMAIN gs[i].tasks
            BY <2>2 DEF GroupTyped
        <3> QED BY <2>16, <3>1, <3>2
    <2>18. CursorsRight'
        <3>1. \A i \in DOMAIN gs : Saved'.chunks[i].next = progress
            BY <2>3, <2>8, <2>13
        <3>2. \A i \in DOMAIN gs : \A k \in 1..progress : <<i, k, gs[i].tasks[k]>> \in scanned'
            BY <1>1
        <3> QED BY <2>16, <3>1, <3>2 DEF CursorsRight
    <2> QED BY <2>14, <2>15, <2>17, <2>18
<1> QED BY <1>1, <1>2, <1>3 DEF PlanInv

\* A file with a field that the schema does not know is no snapshot.
LEMMA NewerIsRight ==
    ASSUME PlanInv, NewerSnapshot
    PROVE  PlanInv'
<1> DEFINE fields == [f \in {"chunks", "future"} |-> <<>>]
           file == [root |-> "object", fields |-> fields]
<1>1. /\ pc = "stat" /\ pc' = "idle" /\ disk' = file /\ UNCHANGED <<input, original, scanned>>
    BY DEF NewerSnapshot
<1>2. original = <<>> /\ scanned = {}
    BY <1>1 DEF PlanInv, FreshRight, Planning
<1>3. DOMAIN file.fields = {"chunks", "future"}
    OBVIOUS
<1> HIDE DEF file
<1>4. ~SnapshotLoads(file)
    BY <1>3, SchemaIs DEF SnapshotLoads
<1>5. ~HasSnapshot'
    BY <1>1, <1>4 DEF HasSnapshot
<1>6. (FreshRight /\ FanOutRight /\ RunRight /\ DoneRight)'
    BY <1>1 DEF FreshRight, FanOutRight, RunRight, DoneRight, Planning
<1>7. (DiskRight /\ CursorsRight /\ OriginalRight /\ ScannedRight)'
    BY <1>1, <1>2, <1>5 DEF DiskRight, CursorsRight, OriginalRight, ScannedRight
<1> QED BY <1>6, <1>7 DEF PlanInv

\* What a run makes of a chunk still fits its group.
LEMMA OpenedFits ==
    ASSUME NEW g, GroupTyped(g), NEW ch, ChunkFits(ch, g)
    PROVE  /\ ChunkFits(Opened(ch, g), g) /\ Opened(ch, g).next = ch.next
           /\ Opened(ch, g).total = Len(g.tasks) /\ (ch.ports = g.ports => Opened(ch, g).ports = g.ports)
<1> DEFINE n == Len(g.tasks)
           p == IF ch.ports = <<>> THEN g.ports ELSE ch.ports
           new == Opened(ch, g)
<1>1. n \in Nat /\ n > 0
    BY DEF GroupTyped
<1>2. new = [ch EXCEPT !.total = n, !.ports = p]
    BY Zenon DEF Opened
<1>3. /\ DOMAIN ch = {"cidr", "ports", "total", "next"} /\ ch.cidr = g.cidr
      /\ ch.next \in 0..n /\ (ch.ports = <<>> \/ ch.ports = g.ports)
    BY DEF ChunkFits
<1>4. p = g.ports
    BY <1>3, Zenon
<1> HIDE DEF n, p, new
<1>5. /\ DOMAIN new = {"cidr", "ports", "total", "next"} /\ new.cidr = g.cidr
      /\ new.total = n /\ new.ports = p /\ new.next = ch.next
    BY <1>2, <1>3
<1>6. ChunkFits(new, g)
    BY <1>1, <1>3, <1>4, <1>5 DEF ChunkFits, n
<1> QED BY <1>4, <1>5, <1>6 DEF new, n

\* The snapshot of a run.
RunSnapshot(x, snap, e) ==
    [snap EXCEPT !.chunks = [i \in DOMAIN snap.chunks |->
                        IF i \in Incomplete(snap.chunks)
                        THEN Opened(snap.chunks[i], PlanFor(x, snap.ping.unreachable)[i]) ELSE snap.chunks[i]],
                 !.denyExcluded = TRUE, !.expansion = e]

\* It is one of the plan, and its totals are known.
LEMMA RunSnapshotFits ==
    ASSUME NEW x, PlainFile(x), NEW snap, NEW orig, NEW lists, SnapFits(x, snap, orig, lists), NEW e, NEW new,
           new = RunSnapshot(x, snap, e)
    PROVE  /\ SnapFits(x, new, orig, lists) /\ new.expansion = e
           /\ DOMAIN orig = DOMAIN snap.chunks
           /\ \A i \in DOMAIN orig : /\ new.chunks[i].next = snap.chunks[i].next
                                     /\ new.chunks[i].total = Len(orig[i])
<1> DEFINE b == snap.ping.unreachable
           gs == PlanFor(x, b)
           chunks == snap.chunks
           open == Incomplete(chunks)
           C == [i \in DOMAIN chunks |-> IF i \in open THEN Opened(chunks[i], gs[i]) ELSE chunks[i]]
<1>1. ListsGroups(gs, Groups(RowsOf(x.file), x.ports, b))
    BY PlanLists
<1>2. /\ DOMAIN snap = SchemaFields /\ b \in lists /\ ChunksFit(chunks, gs) /\ orig = TasksOf(gs)
      /\ snap.version = CurrentTargetSemanticsVersion =>
            /\ HasRichRecords(RowsOf(x.file)) \/ snap.fallback = x.ports
            /\ \A i \in DOMAIN gs : chunks[i].total = Len(gs[i].tasks) /\ chunks[i].ports = gs[i].ports
    BY Zenon DEF SnapFits
<1>3. new = [snap EXCEPT !.chunks = C, !.denyExcluded = TRUE, !.expansion = e]
    BY Zenon DEF RunSnapshot
<1> HIDE DEF C
<1>4. /\ DOMAIN new = SchemaFields /\ new.chunks = C /\ new.ping = snap.ping
      /\ new.version = snap.version /\ new.fallback = snap.fallback /\ new.expansion = e
    BY <1>2, <1>3, SchemaIs
<1>5. \A i \in DOMAIN gs : GroupTyped(gs[i])
    BY <1>1 DEF ListsGroups, SoundGroups
<1> HIDE DEF gs
<1>6. DOMAIN chunks = DOMAIN gs /\ \A i \in DOMAIN gs : ChunkFits(chunks[i], gs[i])
    BY <1>2 DEF ChunksFit
<1>7. ASSUME NEW i \in DOMAIN gs
      PROVE  /\ ChunkFits(C[i], gs[i]) /\ C[i].next = chunks[i].next /\ C[i].total = Len(gs[i].tasks)
             /\ chunks[i].ports = gs[i].ports => C[i].ports = gs[i].ports
    <2>1. CASE i \in open
        <3>1. C[i] = Opened(chunks[i], gs[i])
            BY <1>6, <2>1, Zenon DEF C
        <3> QED BY <1>5, <1>6, <3>1, OpenedFits
    <2>2. CASE i \notin open
        <3>1. C[i] = chunks[i]
            BY <1>6, <2>2, Zenon DEF C
        <3>2. chunks[i].total > 0 /\ chunks[i].total \in {0, Len(gs[i].tasks)}
            BY <1>6, <2>2 DEF Incomplete, ChunkIsCompleted, ChunkFits
        <3> QED BY <1>6, <3>1, <3>2
    <2> QED BY <2>1, <2>2
<1>8. DOMAIN C = DOMAIN gs
    BY <1>6 DEF C
<1>9. ChunksFit(C, gs)
    BY <1>7, <1>8 DEF ChunksFit
<1>10. SnapFits(x, new, orig, lists)
    BY <1>2, <1>4, <1>7, <1>9, Zenon DEF SnapFits, gs
<1>11. DOMAIN orig = DOMAIN gs /\ \A i \in DOMAIN gs : orig[i] = gs[i].tasks
    BY <1>2 DEF TasksOf
<1> QED BY <1>4, <1>6, <1>7, <1>10, <1>11

\* A run of the scan starts right.
LEMMA ExecuteIsRight ==
    ASSUME PlanInv, NEW portFile \in {<<>>, input.ports}, NEW command, Execute(portFile, command)
    PROVE  PlanInv'
<1>1. UNCHANGED <<input, disk, original, scanned>> /\ disk # Nil
    BY Zenon DEF Execute
<1>2. pc' \in {"unreadable", "unproven", "scan over limit", "incompatible", "running"}
    BY Zenon DEF Execute, Refuse
<1>3. pc' \notin Planning /\ pc' # "done"
    BY <1>2 DEF Planning
<1>4. CASE ~PlainFile(input)
    <2>1. FreshRight'
        BY <1>3 DEF FreshRight
    <2> QED BY <1>1, <1>4, <2>1 DEF PlanInv
<1>5. CASE pc' # "running"
    <2>1. pc' \notin {"running", "done", "fan out"}
        BY <1>3, <1>5 DEF Planning
    <2> QED BY <1>1, <1>3, <2>1, RestIsRight
<1>6. CASE PlainFile(input) /\ pc' = "running"
    <2>1. OriginalRight /\ DiskRight /\ ScannedRight /\ CursorsRight
        BY <1>6 DEF PlanInv
    <2>2. SnapshotLoads(disk) => SnapFits(input, Saved, original, Lists)
        BY <1>1, <2>1 DEF DiskRight, HasSnapshot
    <2>3. portFile = <<>> \/ portFile = input.ports
        OBVIOUS
    <2> DEFINE gs == PlanFor(input, Saved.ping.unreachable)
    <2>4. RunStarts(Saved, gs, command)
        <3>1. ~(pc' \in {"unreadable", "unproven", "scan over limit", "incompatible"})
            BY <1>6
        <3> QED BY <1>6, <2>2, <2>3, <3>1, ExecuteStarts
    <2> DEFINE chunks == Saved.chunks
               open == Incomplete(chunks)
               limits == EffectiveLimits(Saved, command)
               estimate == Estimate(Rows, limits, IncompleteKeys(chunks))
               e == [count |-> IF Saved.expansion # Nil THEN Saved.expansion.count ELSE estimate,
                     limits |-> limits]
    <2>5. /\ SnapshotLoads(disk)
          /\ plan' = [i \in DOMAIN chunks |-> IF i \in open THEN gs[i].tasks ELSE <<>>]
          /\ snapshot' = [Saved EXCEPT
                !.chunks = [i \in DOMAIN chunks |-> IF i \in open THEN Opened(chunks[i], gs[i]) ELSE chunks[i]],
                !.denyExcluded = TRUE, !.expansion = e]
        BY <2>4, Zenon DEF RunStarts
    <2>6. SnapFits(input, Saved, original, Lists)
        BY <2>2, <2>5
    <2> HIDE DEF e
    <2>7. /\ SnapFits(input, snapshot', original, Lists) /\ DOMAIN original = DOMAIN chunks
          /\ \A i \in DOMAIN original : /\ snapshot'.chunks[i].next = chunks[i].next
                                        /\ snapshot'.chunks[i].total = Len(original[i])
        <3> DEFINE new == snapshot'
        <3>1. new = RunSnapshot(input, Saved, e)
            BY <2>5, Zenon DEF RunSnapshot
        <3> HIDE DEF new
        <3>2. /\ SnapFits(input, new, original, Lists) /\ DOMAIN original = DOMAIN chunks
              /\ \A i \in DOMAIN original : new.chunks[i].next = chunks[i].next /\ new.chunks[i].total = Len(original[i])
            BY <1>6, <2>6, <3>1, RunSnapshotFits
        <3> QED BY <3>2 DEF new
    <2>8. original = TasksOf(gs)
        BY <2>6, Zenon DEF SnapFits
    <2>9. \A i \in open : i \in DOMAIN chunks
        BY DEF Incomplete
    <2> HIDE DEF chunks, gs, open
    <2>10. /\ DOMAIN plan' = DOMAIN original /\ \A i \in open : plan'[i] = original[i]
           /\ \A i \in DOMAIN plan' : i \in open \/ plan'[i] = <<>>
        <3>1. DOMAIN plan' = DOMAIN original /\ \A i \in open : plan'[i] = original[i]
            BY <2>5, <2>7, <2>8, <2>9 DEF TasksOf
        <3>2. \A i \in DOMAIN plan' : i \in open \/ plan'[i] = <<>>
            BY <2>5
        <3> QED BY <3>1, <3>2
    <2>11. Lists' = Lists /\ Saved' = Saved /\ HasSnapshot' /\ HasSnapshot
        BY <1>1, <2>5, ListsStay DEF Saved, HasSnapshot
    <2>12. RunRight'
        BY <1>1, <2>7, <2>10, <2>11 DEF RunRight, chunks, open
    <2>13. (FreshRight /\ FanOutRight /\ DoneRight)'
        BY <1>3, <1>6 DEF FreshRight, FanOutRight, DoneRight
    <2>14. (OriginalRight /\ DiskRight /\ ScannedRight /\ CursorsRight)'
        BY <1>1, <2>1, <2>11 DEF OriginalRight, DiskRight, ScannedRight, CursorsRight
    <2> QED BY <2>12, <2>13, <2>14 DEF PlanInv
<1> QED BY <1>4, <1>5, <1>6

\* A chunk whose cursor has moved.
Moved(ch, n) == [ch EXCEPT !.next = n]

\* It fits its group as long as the cursor is within the total.
LEMMA MovedFits ==
    ASSUME NEW g, NEW ch, ChunkFits(ch, g), NEW n \in 0..Len(g.tasks)
    PROVE  /\ ChunkFits(Moved(ch, n), g) /\ Moved(ch, n).next = n
           /\ Moved(ch, n).total = ch.total /\ Moved(ch, n).ports = ch.ports
<1> DEFINE new == Moved(ch, n)
<1>1. new = [ch EXCEPT !.next = n]
    BY DEF Moved
<1>2. /\ DOMAIN ch = {"cidr", "ports", "total", "next"} /\ ch.cidr = g.cidr
      /\ ch.total \in {0, Len(g.tasks)} /\ ch.ports \in {<<>>, g.ports}
    BY DEF ChunkFits
<1> HIDE DEF new
<1>3. /\ DOMAIN new = {"cidr", "ports", "total", "next"} /\ new.cidr = g.cidr
      /\ new.total = ch.total /\ new.ports = ch.ports /\ new.next = n
    BY <1>1, <1>2
<1>4. ChunkFits(new, g)
    BY <1>2, <1>3, Zenon DEF ChunkFits
<1> QED BY <1>3, <1>4 DEF new

\* The snapshot that a run leaves.
LastSnapshot(snap, next) ==
    [snap EXCEPT !.output = "recorded",
                 !.chunks = [i \in DOMAIN @ |-> [@[i] EXCEPT !.next = next[i]]]]

\* It is one of the plan, with the new cursors.
LEMMA LastSnapshotFits ==
    ASSUME NEW x, PlainFile(x), NEW snap, NEW orig, NEW lists, SnapFits(x, snap, orig, lists), NEW next,
           \A i \in DOMAIN orig : next[i] \in 0..Len(orig[i])
    PROVE  LET new == LastSnapshot(snap, next)
           IN  /\ SnapFits(x, new, orig, lists) /\ DOMAIN new.chunks = DOMAIN orig
               /\ \A i \in DOMAIN orig : new.chunks[i].next = next[i] /\ new.chunks[i].total = snap.chunks[i].total
<1> DEFINE b == snap.ping.unreachable
           gs == PlanFor(x, b)
           chunks == snap.chunks
           C == [i \in DOMAIN chunks |-> Moved(chunks[i], next[i])]
           new == LastSnapshot(snap, next)
<1>2. /\ DOMAIN snap = SchemaFields /\ b \in lists /\ ChunksFit(chunks, gs) /\ orig = TasksOf(gs)
      /\ snap.version = CurrentTargetSemanticsVersion =>
            /\ HasRichRecords(RowsOf(x.file)) \/ snap.fallback = x.ports
            /\ \A i \in DOMAIN gs : chunks[i].total = Len(gs[i].tasks) /\ chunks[i].ports = gs[i].ports
    BY Zenon DEF SnapFits
<1>3. new = [snap EXCEPT !.output = "recorded", !.chunks = C]
    BY Zenon DEF LastSnapshot, Moved
<1> HIDE DEF C, new, gs
<1>4. /\ DOMAIN new = SchemaFields /\ new.chunks = C /\ new.ping = snap.ping
      /\ new.version = snap.version /\ new.fallback = snap.fallback
    BY <1>2, <1>3, SchemaIs
<1>5. DOMAIN orig = DOMAIN gs /\ \A i \in DOMAIN gs : orig[i] = gs[i].tasks
    BY <1>2 DEF TasksOf
<1>6. DOMAIN chunks = DOMAIN gs /\ \A i \in DOMAIN gs : ChunkFits(chunks[i], gs[i])
    BY <1>2 DEF ChunksFit
<1>7. ASSUME NEW i \in DOMAIN gs
      PROVE  /\ ChunkFits(C[i], gs[i]) /\ C[i].next = next[i] /\ C[i].total = chunks[i].total
             /\ C[i].ports = chunks[i].ports
    <2>1. C[i] = Moved(chunks[i], next[i])
        BY <1>6, Zenon DEF C
    <2>2. next[i] \in 0..Len(gs[i].tasks)
        BY <1>5
    <2> QED BY <1>6, <2>1, <2>2, MovedFits
<1>8. DOMAIN C = DOMAIN gs
    BY <1>6 DEF C
<1>9. ChunksFit(C, gs)
    BY <1>7, <1>8 DEF ChunksFit
<1>10. SnapFits(x, new, orig, lists)
    BY <1>2, <1>4, <1>7, <1>9, Zenon DEF SnapFits, gs
<1> QED BY <1>4, <1>5, <1>7, <1>8, <1>10 DEF new

\* What a run scans are tasks of the plan; with them everything below the new cursors
\* is scanned.
LEMMA RunScans ==
    ASSUME PlainFile(input), DiskRight, CursorsRight, RunRight, pc = "running", NEW next \in Cursors
    PROVE  /\ \A i \in DOMAIN original : next[i] \in 0..Len(original[i])
           /\ \A x \in ScannedUpTo(next) : \E i \in DOMAIN original : \E k \in DOMAIN original[i] :
                  x = <<i, k, original[i][k]>>
           /\ \A i \in DOMAIN original : \A k \in 1..next[i] :
                  <<i, k, original[i][k]>> \in scanned \cup ScannedUpTo(next)
<1> DEFINE b == Saved.ping.unreachable
           gs == PlanFor(input, b)
           N(i) == Saved.chunks[i].next
           L(i) == Len(original[i])
<1>1. /\ HasSnapshot /\ DOMAIN plan = DOMAIN original
      /\ \A i \in Incomplete(Saved.chunks) : plan[i] = original[i]
      /\ \A i \in DOMAIN original : snapshot.chunks[i].next = N(i) /\ snapshot.chunks[i].total = L(i)
    BY DEF RunRight
<1>2. SnapFits(input, Saved, original, Lists)
    BY <1>1 DEF DiskRight
<1>3. ChunksFit(Saved.chunks, gs) /\ original = TasksOf(gs)
    BY <1>2, Zenon DEF SnapFits
<1>4. ListsGroups(gs, Groups(RowsOf(input.file), input.ports, b))
    BY PlanLists
<1> HIDE DEF gs
<1>5. ASSUME NEW i \in DOMAIN original
      PROVE  /\ L(i) \in Nat /\ DOMAIN original[i] = 1..L(i) /\ N(i) \in 0..L(i)
             /\ i \in Incomplete(Saved.chunks) \/ N(i) = L(i)
    <2>1. i \in DOMAIN gs /\ original[i] = gs[i].tasks
        BY <1>3 DEF TasksOf
    <2>2. GroupTyped(gs[i]) /\ ChunkFits(Saved.chunks[i], gs[i]) /\ i \in DOMAIN Saved.chunks
        BY <1>3, <1>4, <2>1 DEF ListsGroups, SoundGroups, ChunksFit
    <2>3. original[i] \in Seq(TaskType)
        BY <2>1, <2>2 DEF GroupTyped
    <2>4. L(i) \in Nat /\ DOMAIN original[i] = 1..L(i)
        BY <2>3
    <2>5. N(i) \in 0..L(i) /\ Saved.chunks[i].total \in {0, L(i)}
        BY <2>1, <2>2 DEF ChunkFits
    <2>6. i \in Incomplete(Saved.chunks) \/ (Saved.chunks[i].total > 0 /\ N(i) >= Saved.chunks[i].total)
        BY <2>2 DEF Incomplete, ChunkIsCompleted
    <2> QED BY <2>4, <2>5, <2>6
<1>6. ASSUME NEW i \in DOMAIN original PROVE next[i] \in N(i)..L(i)
    BY <1>1 DEF Cursors
<1> HIDE DEF N, L
<1>7. \A x : x \in ScannedUpTo(next) <=>
                \E i \in DOMAIN original : \E k \in (N(i) + 1)..next[i] : x = <<i, k, plan[i][k]>>
    <2>1. ScannedUpTo(next) =
              UNION {{<<i, k, plan[i][k]>> : k \in (snapshot.chunks[i].next + 1)..next[i]} : i \in DOMAIN plan}
        BY Zenon DEF ScannedUpTo
    <2>2. ScannedUpTo(next) = UNION {{<<i, k, plan[i][k]>> : k \in (N(i) + 1)..next[i]} : i \in DOMAIN original}
        BY <1>1, <2>1
    <2> QED BY <2>2
<1>8. ASSUME NEW i \in DOMAIN original, NEW k \in (N(i) + 1)..next[i]
      PROVE  plan[i] = original[i] /\ k \in DOMAIN original[i]
    <2>1. i \in Incomplete(Saved.chunks) /\ k \in 1..L(i)
        BY <1>5, <1>6
    <2> QED BY <1>1, <1>5, <2>1
<1>9. \A i \in DOMAIN original : next[i] \in 0..Len(original[i])
    BY <1>5, <1>6 DEF L
<1>10. ASSUME NEW x \in ScannedUpTo(next)
       PROVE  \E i \in DOMAIN original : \E k \in DOMAIN original[i] : x = <<i, k, original[i][k]>>
    <2>1. PICK i \in DOMAIN original : \E k \in (N(i) + 1)..next[i] : x = <<i, k, plan[i][k]>>
        BY <1>7
    <2>2. PICK k \in (N(i) + 1)..next[i] : x = <<i, k, plan[i][k]>>
        BY <2>1
    <2> QED BY <1>8, <2>1, <2>2
<1>11. ASSUME NEW i \in DOMAIN original, NEW k \in 1..next[i]
       PROVE  <<i, k, original[i][k]>> \in scanned \cup ScannedUpTo(next)
    <2>1. CASE k \in 1..N(i)
        BY <1>1, <2>1 DEF CursorsRight, N
    <2>2. CASE k \notin 1..N(i)
        <3>1. k \in (N(i) + 1)..next[i]
            BY <1>5, <1>6, <2>2
        <3>2. plan[i] = original[i]
            BY <1>8, <3>1
        <3> QED BY <1>7, <3>1, <3>2
    <2> QED BY <2>1, <2>2
<1> QED BY <1>9, <1>10, <1>11

\* A run that ends keeps everything right, whether it is done, saves what is left, or
\* cannot save it.
LEMMA StopIsRight ==
    ASSUME PlanInv, pc = "running", NEW next \in Cursors, StopScan(next)
    PROVE  PlanInv'
<1> DEFINE new == LastSnapshot(snapshot, next)
<1>1. /\ input' = input /\ original' = original
      /\ \/ pc' = "done" /\ Incomplete(new.chunks) = {} /\ scanned' = scanned \cup ScannedUpTo(next) /\ disk' = disk
         \/ pc' = "idle" /\ disk' = EncodeSnapshot(new) /\ scanned' = scanned \cup ScannedUpTo(next)
         \/ pc' = "idle" /\ disk' = disk /\ scanned' = scanned
    BY Zenon DEF StopScan, EndScan, LastSnapshot
<1>2. pc' \notin Planning
    <2>1. pc' \in {"done", "idle"}
        BY <1>1
    <2> QED BY <2>1 DEF Planning
<1>3. CASE ~PlainFile(input)
    <2>1. FreshRight'
        BY <1>2 DEF FreshRight
    <2> QED BY <1>1, <1>3, <2>1 DEF PlanInv
<1>4. CASE pc' = "idle" /\ disk' = disk /\ scanned' = scanned
    <2>1. pc' \notin {"running", "done", "fan out"}
        BY <1>4
    <2> QED BY <1>1, <1>2, <1>4, <2>1, RestIsRight
<1>5. CASE PlainFile(input) /\ scanned' = scanned \cup ScannedUpTo(next)
    <2>1. DiskRight /\ ScannedRight /\ CursorsRight /\ RunRight /\ OriginalRight
        BY <1>5 DEF PlanInv
    <2>2. /\ SnapFits(input, snapshot, original, Lists) /\ HasSnapshot
          /\ \A i \in DOMAIN original : snapshot.chunks[i].total = Len(original[i])
        BY <2>1 DEF RunRight
    <2>3. /\ \A i \in DOMAIN original : next[i] \in 0..Len(original[i])
          /\ \A x \in ScannedUpTo(next) : \E i \in DOMAIN original : \E k \in DOMAIN original[i] :
                 x = <<i, k, original[i][k]>>
          /\ \A i \in DOMAIN original : \A k \in 1..next[i] :
                 <<i, k, original[i][k]>> \in scanned \cup ScannedUpTo(next)
        BY <1>5, <2>1, RunScans
    <2>4. /\ SnapFits(input, new, original, Lists) /\ DOMAIN new.chunks = DOMAIN original
          /\ \A i \in DOMAIN original : new.chunks[i].next = next[i] /\ new.chunks[i].total = Len(original[i])
        <3>1. /\ SnapFits(input, new, original, Lists) /\ DOMAIN new.chunks = DOMAIN original
              /\ \A i \in DOMAIN original : /\ new.chunks[i].next = next[i]
                                            /\ new.chunks[i].total = snapshot.chunks[i].total
            BY <1>5, <2>2, <2>3, LastSnapshotFits
        <3> QED BY <2>2, <3>1, Zenon
    <2> HIDE DEF new
    <2>5. ScannedRight'
        BY <1>1, <1>5, <2>1, <2>3 DEF ScannedRight
    <2>6. \A i \in DOMAIN original' : \A k \in 1..new.chunks[i].next : <<i, k, original'[i][k]>> \in scanned'
        BY <1>1, <1>5, <2>3, <2>4
    <2>7. CASE pc' = "idle" /\ disk' = EncodeSnapshot(new)
        <3>1. pc' \notin Planning \cup {"running", "done"}
            BY <1>2, <2>7
        <3> QED BY <1>1, <1>5, <2>4, <2>5, <2>6, <2>7, <3>1, SaveIsRight
    <2>8. CASE pc' = "done" /\ Incomplete(new.chunks) = {} /\ disk' = disk
        <3>1. Lists' = Lists /\ Saved' = Saved /\ HasSnapshot'
            BY <1>1, <2>2, <2>8, ListsStay DEF Saved, HasSnapshot
        <3>2. \E b \in Lists : original = TasksOf(PlanFor(input, b))
            BY <2>2, Zenon DEF SnapFits
        <3>3. ASSUME NEW i \in DOMAIN original, NEW k \in DOMAIN original[i]
              PROVE  <<i, k, original[i][k]>> \in scanned'
            <4>1. next[i] >= Len(original[i])
                BY <2>4, <2>8 DEF Incomplete, ChunkIsCompleted
            <4>2. original[i] \in Seq(TaskType)
                <5>1. PICK b \in Lists : original = TasksOf(PlanFor(input, b))
                    BY <3>2
                <5>2. ListsGroups(PlanFor(input, b), Groups(RowsOf(input.file), input.ports, b))
                    BY <1>5, PlanLists
                <5> DEFINE gs == PlanFor(input, b)
                <5> HIDE DEF gs
                <5>3. i \in DOMAIN gs /\ original[i] = gs[i].tasks
                    BY <5>1 DEF TasksOf, gs
                <5>4. GroupTyped(gs[i])
                    BY <5>2, <5>3 DEF gs, ListsGroups, SoundGroups
                <5> QED BY <5>3, <5>4 DEF GroupTyped
            <4>3. k \in 1..next[i]
                <5>1. k \in 1..Len(original[i]) /\ Len(original[i]) \in Nat
                    BY <4>2
                <5>2. next[i] \in Nat
                    BY <2>3, <5>1
                <5> QED BY <4>1, <5>1, <5>2
            <4> QED BY <1>5, <2>3, <4>3
        <3>4. DoneRight'
            BY <1>1, <3>1, <3>2, <3>3 DEF DoneRight
        <3>5. CursorsRight'
            BY <1>1, <1>5, <2>1, <2>2, <3>1 DEF CursorsRight
        <3>6. (OriginalRight /\ DiskRight)'
            BY <1>1, <2>1, <2>2, <3>1 DEF OriginalRight, DiskRight
        <3>7. (FreshRight /\ FanOutRight /\ RunRight)'
            BY <2>8, <1>2 DEF FreshRight, FanOutRight, RunRight
        <3> QED BY <2>5, <3>4, <3>5, <3>6, <3>7 DEF PlanInv
    <2>9. CASE pc' = "idle" /\ disk' = disk /\ scanned' = scanned
        BY <1>4, <2>9
    <2> QED BY <1>1, <2>7, <2>8, <2>9
<1> QED BY <1>1, <1>3, <1>4, <1>5

\* A scan that is killed leaves everything as it was on disk.
LEMMA CrashIsRight ==
    ASSUME PlanInv, Crash
    PROVE  PlanInv'
<1>1. pc' = "idle" /\ UNCHANGED <<input, disk, original, scanned>>
    BY DEF Crash, EndScan
<1>2. pc' \notin {"running", "done", "fan out"} /\ pc' \notin Planning
    BY <1>1 DEF Planning
<1> QED BY <1>1, <1>2, RestIsRight

\* Loading, and leaving the fan-out, change nothing that the plan depends on.
LEMMA LoadIsRight ==
    ASSUME PlanInv, Load \/ FanOutCancelled
    PROVE  PlanInv'
<1>1. UNCHANGED <<input, disk, original, scanned>> /\ pc \in {"stat", "count", "parse", "fan out"}
    BY DEF Load, StatInput, ReadInput, ReadBounded, EndInput, FanOutCancelled
<1>2. pc' \in {"too large", "count", "parse", "loaded", "changed", "interrupted"}
    BY DEF Load, StatInput, ReadInput, ReadBounded, EndInput, FanOutCancelled, Refuse
<1>3. pc' \notin {"running", "done", "fan out"} /\ pc \in Planning
    BY <1>1, <1>2 DEF Planning
<1> QED BY <1>1, <1>3, RestIsRight

\* Where nothing changes the plan stays right.
LEMMA StutterIsRight ==
    ASSUME PlanInv, UNCHANGED vars
    PROVE  PlanInv'
<1>1. UNCHANGED <<input, pc, groups, slots, disk, snapshot, plan, original, scanned>>
    BY DEF vars
<1>2. Lists' = Lists /\ Blocked' = Blocked
    BY <1>1, ListsStay
<1>3. Saved' = Saved /\ (HasSnapshot' <=> HasSnapshot)
    BY <1>1 DEF Saved, HasSnapshot
<1>4. FreshRight'
    BY <1>1 DEF PlanInv, FreshRight
<1>5. ASSUME PlainFile(input)
      PROVE  (FanOutRight /\ OriginalRight /\ DiskRight /\ ScannedRight /\ CursorsRight /\ RunRight /\ DoneRight)'
    <2>1. FanOutRight /\ OriginalRight /\ DiskRight /\ ScannedRight /\ CursorsRight /\ RunRight /\ DoneRight
        BY <1>5 DEF PlanInv
    <2>2. FanOutRight'
        BY <1>1, <1>2, <2>1 DEF FanOutRight
    <2>3. OriginalRight' /\ DoneRight'
        BY <1>1, <1>2, <2>1 DEF OriginalRight, DoneRight
    <2>4. DiskRight'
        BY <1>1, <1>2, <1>3, <2>1 DEF DiskRight
    <2>5. ScannedRight'
        BY <1>1, <2>1 DEF ScannedRight
    <2>6. CursorsRight'
        BY <1>1, <1>3, <2>1 DEF CursorsRight
    <2>7. RunRight'
        BY <1>1, <1>2, <1>3, <2>1 DEF RunRight
    <2> QED BY <2>2, <2>3, <2>4, <2>5, <2>6, <2>7
<1> QED BY <1>1, <1>4, <1>5 DEF PlanInv

\* generate-buckets, the scan and the tools before them keep the plan right.
LEMMA KeepsPlan == PrepSpec => []PlanInv
<1>1. PrepInit => PlanInv
    <2> SUFFICES ASSUME PrepInit PROVE PlanInv
        OBVIOUS
    <2>1. pc \in {"prepare", "stat", "count", "parse", "loaded"} /\ disk = Nil /\ original = <<>> /\ scanned = {}
        BY DEF PrepInit
    <2> QED BY <2>1, FreshIsRight
<1>2. PlanInv /\ [PrepNext]_<<vars, prepVars>> => PlanInv'
    <2> SUFFICES ASSUME PlanInv, [PrepNext]_<<vars, prepVars>> PROVE PlanInv'
        OBVIOUS
    <2>1. CASE Work
        BY <2>1, StutterIsRight DEF Work
    <2>2. CASE UsePrepared
        <3>1. pc = "prepare" /\ pc' = "stat" /\ UNCHANGED <<disk, original, scanned>>
            BY <2>2, Zenon DEF UsePrepared
        <3>2. disk = Nil /\ original = <<>> /\ scanned = {}
            BY <3>1 DEF PlanInv, FreshRight, Planning
        <3>3. /\ pc' \in {"prepare", "stat", "count", "parse", "loaded"} /\ disk' = Nil
              /\ original' = <<>> /\ scanned' = {}
            BY <3>1, <3>2
        <3>4. (~HasSnapshot)'
            BY <3>3 DEF HasSnapshot
        <3>5. pc' # "fan out" /\ pc' # "running" /\ pc' # "done"
            BY <3>1
        <3> QED BY <3>3, <3>4, <3>5 DEF PlanInv, FreshRight, FanOutRight, OriginalRight, DiskRight,
                                        ScannedRight, CursorsRight, RunRight, DoneRight
    <2>3. CASE Next
        <3>1. CASE Load
            BY <3>1, LoadIsRight
        <3>2. CASE Generate
            BY <3>2, GenerateIsRight, BuildIsRight, InterruptIsRight, LoadIsRight, BucketsAreRight DEF Generate
        <3>3. CASE Older
            <4>1. CASE NewerSnapshot
                BY <4>1, NewerIsRight
            <4>2. ASSUME NEW omitPorts \in BOOLEAN, NEW progress \in {0, 1}, LegacyBuckets(omitPorts, progress)
                  PROVE  PlanInv'
                BY <4>2, LegacyIsRight
            <4> QED BY <3>3, <4>1, <4>2, Zenon DEF Older
        <3>4. CASE Scan
            <4>1. CASE Crash
                BY <4>1, CrashIsRight
            <4>2. ASSUME NEW portFile \in {<<>>, input.ports}, NEW command, Execute(portFile, command)
                  PROVE  PlanInv'
                BY <4>2, ExecuteIsRight
            <4>3. ASSUME pc = "running", NEW next \in Cursors, StopScan(next)
                  PROVE  PlanInv'
                BY <4>3, StopIsRight
            <4> QED BY <3>4, <4>1, <4>2, <4>3, Zenon DEF Scan
        <3> QED BY <2>3, <3>1, <3>2, <3>3, <3>4 DEF Next
    <2>4. CASE UNCHANGED <<vars, prepVars>>
        BY <2>4, StutterIsRight
    <2> QED BY <2>1, <2>2, <2>3, <2>4 DEF PrepNext
<1> QED BY <1>1, <1>2, PTL DEF PrepSpec

-----------------------------------------------------------------------------
(* Every target once *)

\* The tasks of the groups are those that the rows ask for.
LEMMA GroupTasks ==
    ASSUME NEW rows, PlainRows(rows), NEW ports \in Seq(Int), NEW b, NEW t
    PROVE  t \in AllTasks(rows, ports, b) <=>
               \E g \in Groups(rows, ports, b) : \E k \in DOMAIN g.tasks : g.tasks[k] = t
<1> DEFINE S == ToSet(rows)
<1>1. rows \in Seq(S) /\ AllTyped(rows)
    BY DEF PlainRows
<1>2. Segments(rows) \subseteq SegmentType
    BY <1>1 DEF Segments, AllTyped, RowTyped
<1> HIDE DEF S
<1>3. CASE HasRichRecords(rows)
    <2>1. \A i \in DOMAIN rows : rows[i].rich
        BY <1>3 DEF PlainRows, HasRichRecords, NoRowPorts
    <2>2. UNION {g.entries : g \in RichGroups(rows, b)} = AllTasks(rows, ports, b)
        BY <1>1, <1>3, <2>1, RichGroupsAreComplete
    <2>3. ASSUME NEW g \in RichGroups(rows, b)
          PROVE  t \in g.entries <=> \E k \in DOMAIN g.tasks : g.tasks[k] = t
        <3>1. PICK c \in {s \in Segments(rows) : OwnedTargets(rows, s, b) # {}} :
                  g = RichGroup(c, OwnedTargets(rows, c, b))
            BY Zenon DEF RichGroups
        <3>2. g.entries = OwnedTargets(rows, c, b)
            BY <3>1, RichGroupShape
        <3> DEFINE owned == OwnedTargets(rows, c, b)
        <3>3. c \in Segments(rows) /\ owned # {} /\ g = RichGroup(c, owned)
            BY <3>1
        <3>4. \A v : v \in owned <=> \E k \in DOMAIN RichGroup(c, owned).tasks : RichGroup(c, owned).tasks[k] = v
            BY <1>1, <3>3, RichTasks
        <3> QED BY <3>2, <3>3, <3>4, Zenon
    <2>4. Groups(rows, ports, b) = RichGroups(rows, b)
        BY <1>3, GroupsOf
    <2> QED BY <2>2, <2>3, <2>4
<1>4. CASE ~HasRichRecords(rows)
    <2> DEFINE A == UNION {BasicTargetIPs(rows[i], b) : i \in DOMAIN rows}
    <2>1. NoRowPorts(rows)
        BY <1>4, GroupsOf
    <2>2. t \in AllTasks(rows, ports, b) <=>
              \E i \in DOMAIN rows : t \in BasicTargetIPs(rows[i], b) \X ToSet(ports)
        <3>1. AllTasks(rows, ports, b) =
                  UNION {BasicTargetIPs(rows[i], b) \X ToSet(PortList(rows[i], ports)) : i \in DOMAIN rows}
            BY <1>4, Zenon DEF AllTasks
        <3>2. \A i \in DOMAIN rows : PortList(rows[i], ports) = ports
            BY <2>1, Zenon DEF NoRowPorts, PortList
        <3> QED BY <3>1, <3>2, Zenon
    <2>3. t \in AllTasks(rows, ports, b) <=> \E a \in A : \E p \in ToSet(ports) : t = <<a, p>>
        BY <2>2
    <2>4. CASE ports = <<>>
        <3>1. ToSet(ports) = {}
            BY <2>4 DEF ToSet
        <3>2. Groups(rows, ports, b) = {}
            BY <1>4, <2>4, GroupsOf
        <3> QED BY <2>3, <3>1, <3>2, Zenon
    <2>5. CASE ports # <<>>
        <3> DEFINE u == UniquePorts(ports)
                   F == FallbackGroups(rows, u, b)
        <3>1. Groups(rows, ports, b) = F
            BY <1>4, <2>5, GroupsOf
        <3>2. UNION {g.entries : g \in F} = A
            BY <1>1, <1>2, FallbackGroupsAreComplete
        <3>3. ASSUME NEW g \in F
              PROVE  (\E a \in g.entries : \E p \in ToSet(ports) : t = <<a, p>>)
                         <=> \E k \in DOMAIN g.tasks : g.tasks[k] = t
            <4>1. PICK c \in {s \in Segments(rows) : KeptBy(rows, s, b) # {}} :
                      g = BasicGroup(c, u, KeptBy(rows, c, b))
                BY FallbackShape, Zenon
            <4>2. g.entries = KeptBy(rows, c, b)
                BY <4>1, BasicGroupShape
            <4> DEFINE kept == KeptBy(rows, c, b)
            <4>3. /\ GroupTyped(g) /\ \A k \in DOMAIN g.tasks : g.tasks[k][1] \in kept
                  /\ \A a \in kept : \A p \in ToSet(ports) : \E k \in DOMAIN g.tasks : g.tasks[k] = <<a, p>>
                  /\ \A k \in DOMAIN g.tasks : g.tasks[k][2] \in ToSet(ports)
                <5>1. c \in Segments(rows) /\ kept # {}
                    BY <4>1
                <5>2. GroupTyped(g) /\ \A k \in DOMAIN g.tasks : g.tasks[k][1] \in kept
                    BY <1>1, <2>5, <4>1, <5>1, FallbackTasks, Zenon
                <5>3. HasTasks(g, kept, ToSet(ports))
                    BY <1>1, <2>5, <4>1, <5>1, FallbackTasks, Zenon
                <5>4. \A k \in DOMAIN g.tasks : g.tasks[k][2] \in ToSet(ports)
                    BY <1>1, <2>5, <4>1, <5>1, FallbackTasks, Zenon
                <5> QED BY <5>2, <5>3, <5>4 DEF HasTasks
            <4> HIDE DEF kept
            <4>4. ASSUME NEW k \in DOMAIN g.tasks PROVE g.tasks[k] = <<g.tasks[k][1], g.tasks[k][2]>>
                <5>1. g.tasks \in Seq(TaskType)
                    BY <4>3 DEF GroupTyped
                <5>2. g.tasks[k] \in TaskType
                    BY <5>1
                <5> DEFINE v == g.tasks[k]
                <5> HIDE DEF v
                <5>3. v \in Int \X Int
                    BY <5>2 DEF TaskType, v
                <5>4. v = <<v[1], v[2]>>
                    BY <5>3
                <5> QED BY <5>4 DEF v
            <4>5. ASSUME NEW k \in DOMAIN g.tasks, g.tasks[k] = t
                  PROVE  \E a \in kept : \E p \in ToSet(ports) : t = <<a, p>>
                BY <4>3, <4>4, <4>5, Zenon
            <4>6. ASSUME NEW a \in kept, NEW p \in ToSet(ports), t = <<a, p>>
                  PROVE  \E k \in DOMAIN g.tasks : g.tasks[k] = t
                BY <4>3, <4>6, Zenon
            <4> QED BY <4>2, <4>5, <4>6, Zenon DEF kept
        <3> HIDE DEF F, A
        <3> QED BY <2>3, <3>1, <3>2, <3>3
    <2> QED BY <2>4, <2>5
<1> QED BY <1>3, <1>4

\* A plan has the tasks that the rows ask for, each at one place.
LEMMA PlanTasks ==
    ASSUME NEW x, PlainFile(x), NEW b, NEW orig, orig = TasksOf(PlanFor(x, b))
    PROVE  /\ \A t : t \in AllTasks(RowsOf(x.file), x.ports, b) <=>
                        \E i \in DOMAIN orig : \E k \in DOMAIN orig[i] : orig[i][k] = t
           /\ \A i, j \in DOMAIN orig : \A k \in DOMAIN orig[i] : \A l \in DOMAIN orig[j] :
                  orig[i][k] = orig[j][l] => i = j /\ k = l
<1> DEFINE gs == PlanFor(x, b)
           rows == RowsOf(x.file)
           Gs == Groups(rows, x.ports, b)
<1>1. ListsGroups(gs, Gs)
    BY PlanLists
<1>2. PlainRows(rows) /\ x.ports \in Seq(Int)
    BY PlainFileRows DEF PlainFile
<1>3. \A t : t \in AllTasks(rows, x.ports, b) <=> \E g \in Gs : \E k \in DOMAIN g.tasks : g.tasks[k] = t
    BY <1>2, GroupTasks
<1> HIDE DEF gs, Gs
<1>4. DOMAIN orig = DOMAIN gs /\ \A i \in DOMAIN gs : orig[i] = gs[i].tasks
    BY DEF TasksOf, gs
<1>5. /\ \A i \in DOMAIN gs : gs[i] \in Gs
      /\ \A g \in Gs : \E i \in DOMAIN gs : gs[i] = g
      /\ \A i, j \in DOMAIN gs : gs[i].cidr = gs[j].cidr => i = j
    BY <1>1 DEF ListsGroups
<1>6. /\ \A g \in Gs : \A k, l \in DOMAIN g.tasks : g.tasks[k] = g.tasks[l] => k = l
      /\ \A g, h \in Gs : \A k \in DOMAIN g.tasks, l \in DOMAIN h.tasks : g.tasks[k] = h.tasks[l] => g = h
    BY <1>1, Zenon DEF ListsGroups, SoundGroups, GroupTyped
<1>7. ASSUME NEW i \in DOMAIN orig, NEW j \in DOMAIN orig, NEW k \in DOMAIN orig[i], NEW l \in DOMAIN orig[j],
             orig[i][k] = orig[j][l]
      PROVE  i = j /\ k = l
    <2>1. gs[i] = gs[j]
        BY <1>4, <1>5, <1>6, <1>7
    <2>2. i = j
        BY <1>4, <1>5, <2>1
    <2> QED BY <1>4, <1>5, <1>6, <1>7, <2>2
<1>8. ASSUME NEW t
      PROVE  t \in AllTasks(rows, x.ports, b) <=> \E i \in DOMAIN orig : \E k \in DOMAIN orig[i] : orig[i][k] = t
    <2>1. (\E g \in Gs : \E k \in DOMAIN g.tasks : g.tasks[k] = t)
              <=> \E i \in DOMAIN gs : \E k \in DOMAIN gs[i].tasks : gs[i].tasks[k] = t
        <3>1. ASSUME NEW g \in Gs, \E k \in DOMAIN g.tasks : g.tasks[k] = t
              PROVE  \E i \in DOMAIN gs : \E k \in DOMAIN gs[i].tasks : gs[i].tasks[k] = t
            <4>1. PICK i \in DOMAIN gs : gs[i] = g
                BY <1>5
            <4> QED BY <3>1, <4>1
        <3>2. ASSUME NEW i \in DOMAIN gs, \E k \in DOMAIN gs[i].tasks : gs[i].tasks[k] = t
              PROVE  \E g \in Gs : \E k \in DOMAIN g.tasks : g.tasks[k] = t
            BY <1>5, <3>2
        <3> QED BY <3>1, <3>2
    <2>2. (\E i \in DOMAIN gs : \E k \in DOMAIN gs[i].tasks : gs[i].tasks[k] = t)
              <=> \E i \in DOMAIN orig : \E k \in DOMAIN orig[i] : orig[i][k] = t
        BY <1>4
    <2> QED BY <1>3, <2>1, <2>2
<1> QED BY <1>7, <1>8

-----------------------------------------------------------------------------
(* What pre-ping writes *)

\* What is in two sequences is in the one after the other.
LEMMA JoinHas ==
    ASSUME NEW D, NEW s \in Seq(D), NEW t \in Seq(D)
    PROVE  s \o t \in Seq(D) /\ \A x : x \in ToSet(s \o t) <=> x \in ToSet(s) \/ x \in ToSet(t)
<1> DEFINE w == s \o t
           m == Len(s)
           n == Len(t)
<1>1. m \in Nat /\ n \in Nat /\ DOMAIN s = 1..m /\ DOMAIN t = 1..n
    OBVIOUS
<1>2. /\ w \in Seq(D) /\ DOMAIN w = 1..(m + n)
      /\ \A k \in 1..m : w[k] = s[k]
      /\ \A k \in (m + 1)..(m + n) : w[k] = t[k - m]
    OBVIOUS
<1> HIDE DEF w, m, n
<1>3. ASSUME NEW k \in 1..(m + n) PROVE w[k] \in ToSet(s) \/ w[k] \in ToSet(t)
    <2>1. CASE k \in 1..m
        BY <1>1, <1>2, <2>1 DEF ToSet
    <2>2. CASE k \notin 1..m
        <3>1. k \in (m + 1)..(m + n) /\ k - m \in 1..n
            BY <1>1, <2>2
        <3> QED BY <1>1, <1>2, <3>1 DEF ToSet
    <2> QED BY <2>1, <2>2
<1>4. ASSUME NEW k \in 1..m PROVE s[k] \in ToSet(w)
    <2>1. k \in 1..(m + n)
        BY <1>1
    <2> QED BY <1>2, <2>1 DEF ToSet
<1>5. ASSUME NEW k \in 1..n PROVE t[k] \in ToSet(w)
    <2>1. m + k \in (m + 1)..(m + n) /\ (m + k) - m = k /\ m + k \in 1..(m + n)
        BY <1>1
    <2>2. w[m + k] = t[k]
        BY <1>2, <2>1
    <2> QED BY <1>2, <2>1, <2>2 DEF ToSet
<1>6. \A x : x \in ToSet(w) <=> x \in ToSet(s) \/ x \in ToSet(t)
    BY <1>1, <1>2, <1>3, <1>4, <1>5 DEF ToSet
<1> QED BY <1>2, <1>6 DEF w

\* The elements of the first n sequences are in s.
Gathers(s, D, seqs, n) ==
    s \in Seq(D) /\ \A x : x \in ToSet(s) <=> \E i \in 1..n : x \in ToSet(seqs[i])

\* FlattenSeq has the elements of all sequences.
LEMMA FlattenHas ==
    ASSUME NEW D, NEW seqs \in Seq(Seq(D))
    PROVE  Gathers(FlattenSeq(seqs), D, seqs, Len(seqs))
<1> DEFINE n == Len(seqs)
<1>1. n \in Nat /\ \A i \in 1..n : seqs[i] \in Seq(D)
    OBVIOUS
<1>2. CASE n = 0
    <2>1. seqs = <<>>
        BY <1>2
    <2>2. FlattenSeq(seqs) = seqs
        BY <1>2, Zenon DEF FlattenSeq
    <2>3. <<>> \in Seq(D) /\ \A x : x \notin ToSet(<<>>)
        BY DEF ToSet
    <2>4. \A i : i \notin 1..n
        BY <1>2
    <2> HIDE DEF n
    <2>5. Gathers(<<>>, D, seqs, n)
        BY <2>3, <2>4, Zenon DEF Gathers
    <2> QED BY <2>1, <2>2, <2>5, Zenon DEF n
<1>3. CASE n # 0
    <2>1. PICK f : /\ f[1] = seqs[1] /\ \A i \in 2..n : f[i] = f[i - 1] \o seqs[i]
                   /\ FlattenSeq(seqs) = f[n]
        BY <1>3, FlattenLoop
    <2> HIDE DEF n
    <2> DEFINE T == {i \in 1..n : ~Gathers(f[i], D, seqs, i)}
    <2>2. T = {}
        <3> SUFFICES ASSUME T # {} PROVE FALSE
            OBVIOUS
        <3>0. T \subseteq Nat
            BY <1>1
        <3>1. PICK i \in T : \A j \in T : i <= j
            BY <3>0, LeastIndex
        <3>2. CASE i = 1
            <4>1. \A j : j \in 1..i <=> j = 1
                BY <3>2
            <4>2. 1 \in 1..n
                BY <3>1, <3>2
            <4>3. Gathers(seqs[1], D, seqs, i)
                BY <1>1, <4>1, <4>2, Zenon DEF Gathers
            <4> QED BY <2>1, <3>1, <3>2, <4>3
        <3>3. CASE i # 1
            <4>1. i \in 2..n /\ i - 1 \in 1..n /\ i - 1 \notin T
                BY <1>1, <3>1, <3>3
            <4>2. Gathers(f[i - 1], D, seqs, i - 1)
                BY <4>1
            <4>3. seqs[i] \in Seq(D)
                BY <1>1, <3>1
            <4> DEFINE s == f[i - 1]
                       t == seqs[i]
            <4>4. s \in Seq(D) /\ \A x : x \in ToSet(s) <=> \E j \in 1..(i - 1) : x \in ToSet(seqs[j])
                BY <4>2 DEF Gathers
            <4>5. s \o t \in Seq(D) /\ \A x : x \in ToSet(s \o t) <=> x \in ToSet(s) \/ x \in ToSet(t)
                BY <4>3, <4>4, JoinHas
            <4>6. \A j : j \in 1..i <=> j \in 1..(i - 1) \/ j = i
                BY <4>1
            <4> HIDE DEF s, t
            <4>7. Gathers(s \o t, D, seqs, i)
                BY <4>4, <4>5, <4>6 DEF Gathers, t
            <4> QED BY <2>1, <3>1, <4>1, <4>7 DEF s, t
        <3> QED BY <3>2, <3>3
    <2>3. n \in 1..n
        BY <1>1, <1>3
    <2> QED BY <2>1, <2>2, <2>3 DEF n
<1> QED BY <1>2, <1>3

\* Selected has the elements at the places I.
LEMMA SelectedHas ==
    ASSUME NEW D, NEW s \in Seq(D), NEW I \in SUBSET DOMAIN s
    PROVE  /\ Selected(s, I) \in Seq(D)
           /\ \A x : x \in ToSet(Selected(s, I)) <=> \E i \in I : s[i] = x
<1> DEFINE part == Selected(s, I)
<1>1. part \in Seq(D)
    BY SelectedInOrder
<1>2. PICK at : /\ PartOf(part, s, at) /\ \A k \in DOMAIN part : at[k] \in I
                /\ \A i \in I : \E k \in DOMAIN part : at[k] = i
    BY SelectedInOrder
<1> HIDE DEF part
<1>3. \A k \in DOMAIN part : part[k] = s[at[k]]
    BY <1>2 DEF PartOf
<1>4. DOMAIN part = 1..Len(part)
    BY <1>1
<1>5. \A x : x \in ToSet(part) <=> \E k \in DOMAIN part : part[k] = x
    BY <1>4 DEF ToSet
<1>6. \A x : x \in ToSet(part) <=> \E i \in I : s[i] = x
    BY <1>2, <1>3, <1>5
<1> QED BY <1>1, <1>6 DEF part

\* Merging rows that repeat the one before them loses none.
LEMMA MergeHas ==
    ASSUME NEW D, NEW s \in Seq(D)
    PROVE  /\ MergeUnreachable(s) \in Seq(D)
           /\ \A x : x \in ToSet(MergeUnreachable(s)) <=> x \in ToSet(s)
<1> DEFINE I == {k \in DOMAIN s : k = 1 \/ s[k] # s[k - 1]}
<1>1. MergeUnreachable(s) = Selected(s, I)
    BY Zenon DEF MergeUnreachable
<1>2. I \in SUBSET DOMAIN s /\ DOMAIN s = 1..Len(s) /\ Len(s) \in Nat
    OBVIOUS
<1>3. ASSUME NEW k \in DOMAIN s PROVE \E i \in I : s[i] = s[k]
    <2> DEFINE T == {j \in DOMAIN s : s[j] = s[k]}
    <2>1. T \subseteq Nat /\ T # {}
        OBVIOUS
    <2>2. PICK i \in T : \A j \in T : i <= j
        BY <2>1, LeastIndex
    <2>3. i \in I
        <3>1. CASE i # 1
            <4>1. i - 1 \in DOMAIN s /\ i - 1 \notin T
                BY <1>2, <2>2, <3>1
            <4> QED BY <2>2, <4>1
        <3> QED BY <3>1
    <2> QED BY <2>3
<1> HIDE DEF I
<1>4. Selected(s, I) \in Seq(D) /\ \A x : x \in ToSet(Selected(s, I)) <=> \E i \in I : s[i] = x
    BY <1>2, SelectedHas
<1>5. \A x : x \in ToSet(s) <=> \E k \in DOMAIN s : s[k] = x
    BY <1>2 DEF ToSet
<1>6. \A x : (\E i \in I : s[i] = x) <=> \E k \in DOMAIN s : s[k] = x
    BY <1>2, <1>3
<1> QED BY <1>1, <1>4, <1>5, <1>6, Zenon

\* An address that pre-ping checks, with the segment it is listed under.
PingType == [ip : Int, cidr : SegmentType]

\* The addresses that the rows ask for, whether they answer or not.
Asked(rows, ports) ==
    IF HasRichRecords(rows) THEN {t[1] : t \in AllTasks(rows, ports, {})}
    ELSE UNION {BasicTargetIPs(rows[i], {}) : i \in DOMAIN rows}

\* list has the addresses A and no others.
Pings(list, A) ==
    list \in Seq(PingType) /\ \A a : a \in A <=> \E x \in ToSet(list) : x.ip = a

\* A sequence of sequences that ping A.
LEMMA FlattenPings ==
    ASSUME NEW n \in Nat, NEW lists, DOMAIN lists = 1..n, lists = [k \in 1..n |-> lists[k]],
           NEW A, \A k \in 1..n : Pings(lists[k], A[k])
    PROVE  Pings(FlattenSeq(lists), UNION {A[k] : k \in 1..n})
<1>1. \A k \in 1..n : lists[k] \in Seq(PingType)
    BY DEF Pings
<1> DEFINE D == PingType
           V == Seq(D)
           all == FlattenSeq(lists)
<1>2. lists \in [1..n -> V]
    <2> HIDE DEF V
    <2>1. \A k \in 1..n : lists[k] \in V
        BY <1>1 DEF V
    <2> QED BY <2>1
<1>3. lists \in Seq(V) /\ Len(lists) = n
    <2> HIDE DEF V
    <2> QED BY <1>2
<1> HIDE DEF D
<1>4. Gathers(all, D, lists, n)
    BY <1>3, FlattenHas
<1> HIDE DEF all, V
<1>5. all \in Seq(D) /\ \A x : x \in ToSet(all) <=> \E i \in 1..n : x \in ToSet(lists[i])
    BY <1>4 DEF Gathers
<1>6. \A k \in 1..n : \A a : a \in A[k] <=> \E x \in ToSet(lists[k]) : x.ip = a
    BY DEF Pings
<1>7. ASSUME NEW a PROVE a \in UNION {A[k] : k \in 1..n} <=> \E x \in ToSet(all) : x.ip = a
    <2>1. ASSUME NEW k \in 1..n, a \in A[k] PROVE \E x \in ToSet(all) : x.ip = a
        <3>1. PICK x \in ToSet(lists[k]) : x.ip = a
            BY <1>6, <2>1
        <3> QED BY <1>5, <3>1
    <2>2. ASSUME NEW x \in ToSet(all), x.ip = a PROVE \E k \in 1..n : a \in A[k]
        <3>1. PICK k \in 1..n : x \in ToSet(lists[k])
            BY <1>5
        <3> QED BY <1>6, <2>2, <3>1
    <2> QED BY <2>1, <2>2
<1>8. Pings(all, UNION {A[k] : k \in 1..n})
    BY <1>5, <1>7 DEF Pings, D
<1> QED BY <1>8 DEF all

\* The targets of a rich group.
PingsOf(g) == [k \in DOMAIN g.tasks |-> [ip |-> g.tasks[k][1], cidr |-> g.cidr]]

\* They ping the addresses of its tasks.
LEMMA GroupPings ==
    ASSUME NEW g, GroupTyped(g)
    PROVE  Pings(PingsOf(g), {g.tasks[k][1] : k \in DOMAIN g.tasks})
<1> DEFINE n == Len(g.tasks)
           list == PingsOf(g)
<1>1. g.tasks \in Seq(TaskType) /\ g.cidr \in SegmentType
    BY DEF GroupTyped
<1>2. n \in Nat /\ DOMAIN g.tasks = 1..n
    BY <1>1
<1>3. ASSUME NEW k \in 1..n PROVE g.tasks[k][1] \in Int
    <2>1. g.tasks[k] \in TaskType
        BY <1>1, <1>2, <1>3
    <2> QED BY <2>1 DEF TaskType
<1>4. DOMAIN list = 1..n /\ \A k \in 1..n : list[k] = [ip |-> g.tasks[k][1], cidr |-> g.cidr]
    BY <1>2, Zenon DEF PingsOf
<1>5. list = [k \in 1..n |-> list[k]]
    BY <1>2 DEF PingsOf
<1> HIDE DEF list, n
<1>6. \A k \in 1..n : list[k] \in PingType /\ list[k].ip = g.tasks[k][1]
    BY <1>1, <1>3, <1>4 DEF PingType
<1>7. list \in Seq(PingType)
    <2>1. list \in [1..n -> PingType]
        BY <1>5, <1>6
    <2> QED BY <1>2, <2>1
<1>8. \A x : x \in ToSet(list) <=> \E k \in 1..n : list[k] = x
    BY <1>4 DEF ToSet
<1>9. \A a : a \in {g.tasks[k][1] : k \in DOMAIN g.tasks} <=> \E x \in ToSet(list) : x.ip = a
    BY <1>2, <1>6, <1>8
<1> QED BY <1>7, <1>9 DEF Pings, list

\* The targets of a basic row.
PingsOfRow(r) ==
    LET ips == Sorted(BasicTargetIPs(r, {}), <)
    IN  [k \in DOMAIN ips |-> [ip |-> ips[k], cidr |-> r.seg]]

\* They ping its addresses.
LEMMA RowPings ==
    ASSUME NEW r, RowTyped(r)
    PROVE  Pings(PingsOfRow(r), BasicTargetIPs(r, {}))
<1> DEFINE A == BasicTargetIPs(r, {})
           ips == Sorted(A, <)
           n == Cardinality(A)
           list == [k \in DOMAIN ips |-> [ip |-> ips[k], cidr |-> r.seg]]
<1>1. PingsOfRow(r) = list
    BY Zenon DEF PingsOfRow
<1>2. r.seg \in SegmentType /\ r.sel \in SegmentType
    BY DEF RowTyped
<1>3. A \subseteq Addresses(r.sel)
    BY DEF BasicTargetIPs, Reachable, FilterBoundaryBroadcast
<1> HIDE DEF A
<1>4. IsFiniteSet(A) /\ A \in SUBSET Int
    BY <1>2, <1>3, FiniteAddresses, FS_Subset
<1>5. n \in Nat
    BY <1>4, FS_CardinalityType
<1>6. Enumerates(ips, A, Less(A))
    BY <1>4, SortedNumbers
<1> HIDE DEF ips, n
<1>7. ips \in [1..n -> A] /\ \A x \in A : \E k \in 1..n : ips[k] = x
    BY <1>6 DEF Enumerates, n
<1>8. DOMAIN list = 1..n /\ \A k \in 1..n : list[k] = [ip |-> ips[k], cidr |-> r.seg]
    BY <1>7
<1>9. list = [k \in 1..n |-> list[k]]
    BY <1>7
<1> HIDE DEF list
<1>10. \A k \in 1..n : list[k] \in PingType /\ list[k].ip = ips[k] /\ ips[k] \in A
    <2> SUFFICES ASSUME NEW k \in 1..n PROVE list[k] \in PingType /\ list[k].ip = ips[k] /\ ips[k] \in A
        OBVIOUS
    <2> DEFINE a == ips[k]
    <2>1. a \in A /\ a \in Int
        BY <1>4, <1>7
    <2>2. list[k] = [ip |-> a, cidr |-> r.seg]
        BY <1>8
    <2> HIDE DEF a
    <2>3. list[k] \in PingType /\ list[k].ip = a
        BY <1>2, <2>1, <2>2 DEF PingType
    <2> QED BY <2>1, <2>3 DEF a
<1>11. list \in Seq(PingType)
    <2>1. list \in [1..n -> PingType]
        BY <1>9, <1>10
    <2> QED BY <1>5, <2>1
<1>12. \A x : x \in ToSet(list) <=> \E k \in 1..n : list[k] = x
    BY <1>8 DEF ToSet
<1>13. \A a : a \in A <=> \E x \in ToSet(list) : x.ip = a
    BY <1>7, <1>10, <1>12
<1> QED BY <1>1, <1>11, <1>13 DEF Pings, A

\* Pre-ping checks the addresses that the rows ask for.
LEMMA PlanPings ==
    ASSUME NEW rows, PlainRows(rows), NEW ports \in Seq(Int)
    PROVE  Pings(PlanTargets(rows), Asked(rows, ports))
<1>0. rows \in Seq(ToSet(rows)) /\ AllTyped(rows)
    BY DEF PlainRows
<1>1. CASE HasRichRecords(rows)
    <2> DEFINE Gs == RichGroups(rows, {})
               gs == Sorted(Gs, KeyBefore)
               n == Cardinality(Gs)
               lists == [k \in DOMAIN gs |-> PingsOf(gs[k])]
               A == [k \in DOMAIN gs |-> {gs[k].tasks[i][1] : i \in DOMAIN gs[k].tasks}]
    <2>1. PlanTargets(rows) = FlattenSeq(lists)
        BY <1>1, Zenon DEF PlanTargets, PingsOf
    <2>2. SoundGroups(Gs)
        BY <1>0, RichGroupsSound
    <2>3. \A t : t \in AllTasks(rows, ports, {}) <=> \E g \in Gs : \E k \in DOMAIN g.tasks : g.tasks[k] = t
        <3>1. Groups(rows, ports, {}) = Gs
            BY <1>1, GroupsOf
        <3> QED BY <3>1, GroupTasks
    <2> HIDE DEF Gs
    <2>4. n \in Nat /\ \A g \in Gs : GroupTyped(g)
        BY <2>2, FS_CardinalityType DEF SoundGroups
    <2>5. Enumerates(gs, Gs, KeyOrder(Gs))
        BY <2>2, SortedGroups
    <2> HIDE DEF gs, n
    <2>6. gs \in [1..n -> Gs] /\ \A g \in Gs : \E k \in 1..n : gs[k] = g
        BY <2>5 DEF Enumerates, n
    <2>7. DOMAIN lists = 1..n /\ lists = [k \in 1..n |-> lists[k]] /\ \A k \in 1..n : lists[k] = PingsOf(gs[k])
        BY <2>6
    <2>8. \A k \in 1..n : A[k] = {gs[k].tasks[i][1] : i \in DOMAIN gs[k].tasks}
        BY <2>6
    <2> HIDE DEF lists, A
    <2>9. ASSUME NEW k \in 1..n PROVE Pings(lists[k], A[k])
        <3>1. GroupTyped(gs[k])
            BY <2>4, <2>6
        <3>2. Pings(PingsOf(gs[k]), {gs[k].tasks[i][1] : i \in DOMAIN gs[k].tasks})
            BY <3>1, GroupPings
        <3> QED BY <2>7, <2>8, <3>2, Zenon
    <2>10. Pings(FlattenSeq(lists), UNION {A[k] : k \in 1..n})
        BY <2>4, <2>7, <2>9, FlattenPings
    <2>11. UNION {A[k] : k \in 1..n} = Asked(rows, ports)
        <3>1. ASSUME NEW a, a \in UNION {A[k] : k \in 1..n} PROVE a \in Asked(rows, ports)
            <4>1. PICK k \in 1..n : a \in A[k]
                BY <3>1
            <4>2. PICK i \in DOMAIN gs[k].tasks : a = gs[k].tasks[i][1]
                BY <2>8, <4>1
            <4>3. gs[k].tasks[i] \in AllTasks(rows, ports, {})
                BY <2>3, <2>6
            <4> QED BY <1>1, <4>2, <4>3, Zenon DEF Asked
        <3>2. ASSUME NEW a \in Asked(rows, ports) PROVE a \in UNION {A[k] : k \in 1..n}
            <4>1. PICK t \in AllTasks(rows, ports, {}) : a = t[1]
                BY <1>1, Zenon DEF Asked
            <4>2. PICK g \in Gs : \E i \in DOMAIN g.tasks : g.tasks[i] = t
                BY <2>3
            <4>3. PICK k \in 1..n : gs[k] = g
                BY <2>6
            <4>4. a \in A[k]
                BY <2>8, <4>1, <4>2, <4>3
            <4> QED BY <4>4
        <3> QED BY <3>1, <3>2
    <2> QED BY <2>1, <2>10, <2>11
<1>2. CASE ~HasRichRecords(rows)
    <2> DEFINE n == Len(rows)
               lists == [k \in DOMAIN rows |-> PingsOfRow(rows[k])]
               A == [k \in DOMAIN rows |-> BasicTargetIPs(rows[k], {})]
    <2>1. PlanTargets(rows) = FlattenSeq(lists)
        BY <1>2, Zenon DEF PlanTargets, PingsOfRow
    <2>2. n \in Nat /\ DOMAIN rows = 1..n
        BY <1>0
    <2> HIDE DEF n
    <2>3. DOMAIN lists = 1..n /\ lists = [k \in 1..n |-> lists[k]] /\ \A k \in 1..n : lists[k] = PingsOfRow(rows[k])
        BY <2>2
    <2>4. \A k \in 1..n : A[k] = BasicTargetIPs(rows[k], {})
        BY <2>2
    <2> HIDE DEF lists, A
    <2>5. ASSUME NEW k \in 1..n PROVE Pings(lists[k], A[k])
        BY <1>0, <2>2, <2>3, <2>4, RowPings DEF AllTyped
    <2>6. Pings(FlattenSeq(lists), UNION {A[k] : k \in 1..n})
        BY <2>2, <2>3, <2>5, FlattenPings
    <2>7. UNION {A[k] : k \in 1..n} = Asked(rows, ports)
        <3>1. Asked(rows, ports) = UNION {BasicTargetIPs(rows[i], {}) : i \in 1..n}
            BY <1>2, <2>2, Zenon DEF Asked
        <3> QED BY <2>4, <3>1
    <2> QED BY <2>1, <2>6, <2>7
<1> QED BY <1>1, <1>2

\* The addresses that pre-ping writes: those that did not answer.
LEMMA SilentPings ==
    ASSUME NEW rows, PlainRows(rows), NEW ports \in Seq(Int), NEW dead
    PROVE  Pings(UnreachableRows(rows, dead), Asked(rows, ports) \cap dead)
<1> DEFINE D == PingType
           targets == PlanTargets(rows)
           I == {k \in DOMAIN targets : targets[k].ip \in dead}
           silent == Selected(targets, I)
           list == UnreachableRows(rows, dead)
<1>1. list = silent \/ list = MergeUnreachable(silent)
    BY Zenon DEF UnreachableRows
<1>2. Pings(targets, Asked(rows, ports))
    BY PlanPings
<1> HIDE DEF targets, list
<1>3. targets \in Seq(D) /\ \A a : a \in Asked(rows, ports) <=> \E x \in ToSet(targets) : x.ip = a
    BY <1>2 DEF Pings
<1> HIDE DEF D
<1>4. I \in SUBSET DOMAIN targets
    OBVIOUS
<1>5. silent \in Seq(D) /\ \A x : x \in ToSet(silent) <=> \E i \in I : targets[i] = x
    <2> HIDE DEF I
    <2> QED BY <1>3, <1>4, SelectedHas
<1> HIDE DEF silent
<1>6. list \in Seq(D) /\ \A x : x \in ToSet(list) <=> x \in ToSet(silent)
    BY <1>1, <1>5, MergeHas
<1>7. \A x : x \in ToSet(targets) <=> \E i \in DOMAIN targets : targets[i] = x
    <2>1. DOMAIN targets = 1..Len(targets)
        BY <1>3
    <2> QED BY <2>1 DEF ToSet
<1>8. \A x : x \in ToSet(list) <=> x \in ToSet(targets) /\ x.ip \in dead
    BY <1>5, <1>6, <1>7
<1>9. \A a : a \in Asked(rows, ports) \cap dead <=> \E x \in ToSet(list) : x.ip = a
    BY <1>3, <1>8
<1> QED BY <1>6, <1>9 DEF Pings, D, list

\* generate-buckets reads back what pre-ping found.
LEMMA PingedBlocklist ==
    ASSUME NEW rows, PlainRows(rows), NEW ports \in Seq(Int), NEW dead \in SUBSET Nat
    PROVE  ParseUnreachableBlocklist(UnreachableFile(rows, dead)) = Asked(rows, ports) \cap dead
<1> DEFINE list == UnreachableRows(rows, dead)
           lines == [k \in DOMAIN list |-> [lo |-> list[k].ip, size |-> 1]]
           file == UnreachableFile(rows, dead)
           A == Asked(rows, ports) \cap dead
           blocked == ParseUnreachableBlocklist(file)
<1>1. file = [column |-> "ip", lines |-> lines]
    BY Zenon DEF UnreachableFile
<1>2. Pings(list, A)
    BY SilentPings
<1>3. A \subseteq Nat
    OBVIOUS
<1> HIDE DEF list, A
<1>4. list \in Seq(PingType) /\ \A a : a \in A <=> \E x \in ToSet(list) : x.ip = a
    BY <1>2 DEF Pings
<1>5. DOMAIN list = 1..Len(list)
    BY <1>4
<1>6. \A a : a \in A <=> \E k \in 1..Len(list) : list[k].ip = a
    BY <1>4, <1>5 DEF ToSet
<1>7. DOMAIN lines = 1..Len(list) /\ \A k \in 1..Len(list) : lines[k] = [lo |-> list[k].ip, size |-> 1]
    BY <1>5
<1> HIDE DEF lines, file
<1>8. file.column = "ip" /\ file.lines = lines
    BY <1>1
<1>9. blocked = {l.lo : l \in ToSet(lines) \ {Blank}}
    BY <1>8, Zenon DEF ParseUnreachableBlocklist
<1>10. \A l : l \in ToSet(lines) <=> \E k \in 1..Len(list) : lines[k] = l
    BY <1>7 DEF ToSet
<1> HIDE DEF blocked
<1>11. ASSUME NEW k \in 1..Len(list) PROVE lines[k].lo = list[k].ip /\ list[k].ip \in A /\ lines[k] # Blank
    <2>1. list[k].ip \in A
        BY <1>6
    <2>2. lines[k].lo = list[k].ip
        BY <1>7
    <2>3. Blank.lo = -2
        BY DEF Blank
    <2> QED BY <1>3, <2>1, <2>2, <2>3
<1>12. ASSUME NEW a \in A PROVE a \in blocked
    <2>1. PICK k \in 1..Len(list) : list[k].ip = a
        BY <1>6
    <2>2. lines[k] \in ToSet(lines) \ {Blank} /\ lines[k].lo = a
        BY <1>10, <1>11, <2>1
    <2> QED BY <1>9, <2>2, Zenon
<1>13. ASSUME NEW a \in blocked PROVE a \in A
    <2>1. PICK l \in ToSet(lines) \ {Blank} : a = l.lo
        BY <1>9, Zenon
    <2>2. PICK k \in 1..Len(list) : lines[k] = l
        BY <1>10
    <2> QED BY <1>11, <2>1, <2>2
<1> QED BY <1>12, <1>13 DEF blocked, file, A

\* A blocklist takes away the tasks of its addresses.
LEMMA BlockedTasks ==
    ASSUME NEW rows, PlainRows(rows), NEW ports \in Seq(Int), NEW b, NEW t
    PROVE  t \in AllTasks(rows, ports, b) <=> t \in AllTasks(rows, ports, {}) /\ t[1] \notin b
<1>1. CASE HasRichRecords(rows)
    <2> DEFINE J == {j \in DOMAIN rows : rows[j].valid /\ ~rows[j].deny}
               R(i) == RichTargetIPs(rows[i])
               P(i) == rows[i].port
               X == DeniedKeys(rows)
    <2>1. \A c : AllTasks(rows, ports, c) = (UNION {(R(i) \ c) \X {P(i)} : i \in J}) \ X
        BY <1>1, Zenon DEF AllTasks
    <2> HIDE DEF J, R, P, X
    <2> QED BY <2>1
<1>2. CASE ~HasRichRecords(rows)
    <2> DEFINE B(i, c) == BasicTargetIPs(rows[i], c)
               P(i) == ToSet(PortList(rows[i], ports))
               N == DOMAIN rows
    <2>1. \A c : AllTasks(rows, ports, c) = UNION {B(i, c) \X P(i) : i \in N}
        BY <1>2, Zenon DEF AllTasks
    <2>2. \A i \in N : B(i, b) = B(i, {}) \ b
        BY DEF BasicTargetIPs, Reachable
    <2> HIDE DEF B, P, N
    <2> QED BY <2>1, <2>2
<1> QED BY <1>1, <1>2

\* The task of an address is one that pre-ping checks.
LEMMA TasksAsked ==
    ASSUME NEW rows, PlainRows(rows), NEW ports \in Seq(Int), NEW t \in AllTasks(rows, ports, {})
    PROVE  t[1] \in Asked(rows, ports)
<1>1. CASE HasRichRecords(rows)
    BY <1>1, Zenon DEF Asked
<1>2. CASE ~HasRichRecords(rows)
    <2> DEFINE B(i) == BasicTargetIPs(rows[i], {})
               P(i) == ToSet(PortList(rows[i], ports))
               N == DOMAIN rows
    <2>1. AllTasks(rows, ports, {}) = UNION {B(i) \X P(i) : i \in N} /\ Asked(rows, ports) = UNION {B(i) : i \in N}
        BY <1>2, Zenon DEF AllTasks, Asked
    <2> HIDE DEF B, P, N
    <2> QED BY <2>1
<1> QED BY <1>1, <1>2

\* The blocklist is what pre-ping wrote, or names the dead addresses by itself.
ListFits == input.list.column = "pinged" \/ Blocked = input.dead

\* With it the tasks are those whose address answers.
LEMMA DeadAreBlocked ==
    ASSUME PlainFile(input), ListFits, NEW b \in Lists
    PROVE  AllTasks(Rows, input.ports, b) = AllTasks(Rows, input.ports, input.dead)
<1>1. PlainRows(Rows) /\ input.ports \in Seq(Int)
    BY PlainFileRows DEF PlainFile, Rows
<1>2. CASE b = input.dead
    BY <1>2
<1>3. CASE input.list.column = "pinged" /\ b = Blocked
    <2> DEFINE dead == input.dead
               ports == input.ports
    <2>1. Blocklist = UnreachableFile(Rows, dead)
        BY <1>3, Zenon DEF Blocklist
    <2>2. dead \in SUBSET Nat
        BY Zenon DEF PlainFile
    <2>3. b = Asked(Rows, ports) \cap dead
        BY <1>1, <1>3, <2>1, <2>2, PingedBlocklist DEF Blocked
    <2>4. ASSUME NEW t PROVE t \in AllTasks(Rows, ports, b) <=> t \in AllTasks(Rows, ports, dead)
        BY <1>1, <2>3, BlockedTasks, TasksAsked
    <2> QED BY <2>4
<1>4. b = input.dead \/ (input.list.column = "pinged" /\ b = Blocked)
    <2>1. b = Blocked \/ (b = {} /\ input.dead = {})
        BY DEF Lists
    <2> QED BY <2>1, Zenon DEF ListFits
<1> QED BY <1>2, <1>3, <1>4

\* Over all runs no target is counted twice, and in the end all are.
LEMMA TargetsCountOnce ==
    ASSUME PlanInv, PlainFile(input), ListFits
    PROVE  EveryTargetOnce
<1>1. OriginalRight /\ ScannedRight /\ DoneRight
    BY DEF PlanInv
<1>2. ASSUME NEW x \in scanned, NEW y \in scanned, x[3] = y[3] PROVE x = y
    <2>1. PICK i \in DOMAIN original : \E k \in DOMAIN original[i] : x = <<i, k, original[i][k]>>
        BY <1>1 DEF ScannedRight
    <2>2. PICK k \in DOMAIN original[i] : x = <<i, k, original[i][k]>>
        BY <2>1
    <2>3. PICK j \in DOMAIN original : \E l \in DOMAIN original[j] : y = <<j, l, original[j][l]>>
        BY <1>1 DEF ScannedRight
    <2>4. PICK l \in DOMAIN original[j] : y = <<j, l, original[j][l]>>
        BY <2>3
    <2>5. original[i][k] = original[j][l]
        <3> DEFINE u == original[i][k]
                   v == original[j][l]
        <3> HIDE DEF u, v
        <3>1. x = <<i, k, u>> /\ y = <<j, l, v>>
            BY <2>2, <2>4 DEF u, v
        <3>2. u = v
            BY <1>2, <3>1
        <3> QED BY <3>2 DEF u, v
    <2>6. PICK b \in Lists : original = TasksOf(PlanFor(input, b))
        <3>1. original # <<>>
            BY <2>1
        <3> QED BY <1>1, <3>1 DEF OriginalRight
    <2>7. i = j /\ k = l
        BY <2>5, <2>6, PlanTasks
    <2> QED BY <2>2, <2>4, <2>7
<1>3. ASSUME pc = "done" PROVE {x[3] : x \in scanned} = AllTasks(Rows, input.ports, input.dead)
    <2>1. PICK b \in Lists : original = TasksOf(PlanFor(input, b))
        BY <1>1, <1>3 DEF DoneRight
    <2>2. \A i \in DOMAIN original : \A k \in DOMAIN original[i] : <<i, k, original[i][k]>> \in scanned
        BY <1>1, <1>3 DEF DoneRight
    <2>3. \A t : t \in AllTasks(Rows, input.ports, b) <=>
                     \E i \in DOMAIN original : \E k \in DOMAIN original[i] : original[i][k] = t
        <3>1. \A t : t \in AllTasks(RowsOf(input.file), input.ports, b) <=>
                         \E i \in DOMAIN original : \E k \in DOMAIN original[i] : original[i][k] = t
            BY <2>1, PlanTasks
        <3> QED BY <3>1 DEF Rows
    <2>4. AllTasks(Rows, input.ports, b) = AllTasks(Rows, input.ports, input.dead)
        BY DeadAreBlocked
    <2> DEFINE All == AllTasks(Rows, input.ports, b)
    <2> HIDE DEF All
    <2>5. ASSUME NEW x \in scanned PROVE x[3] \in All
        <3>1. PICK i \in DOMAIN original : \E k \in DOMAIN original[i] : x = <<i, k, original[i][k]>>
            BY <1>1 DEF ScannedRight
        <3>2. PICK k \in DOMAIN original[i] : x = <<i, k, original[i][k]>>
            BY <3>1
        <3>3. original[i][k] \in All
            BY <2>3 DEF All
        <3> QED BY <3>2, <3>3
    <2>6. ASSUME NEW t \in All PROVE t \in {x[3] : x \in scanned}
        <3>1. PICK i \in DOMAIN original : \E k \in DOMAIN original[i] : original[i][k] = t
            BY <2>3 DEF All
        <3>2. PICK k \in DOMAIN original[i] : original[i][k] = t
            BY <3>1
        <3>3. <<i, k, t>> \in scanned
            BY <2>2, <3>2
        <3>4. <<i, k, t>>[3] = t
            OBVIOUS
        <3> QED BY <3>3, <3>4, Zenon
    <2> QED BY <2>4, <2>5, <2>6 DEF All
<1> QED BY <1>2, <1>3 DEF EveryTargetOnce

-----------------------------------------------------------------------------
(* The targets that a scan holds in memory *)

\* The members of the sets, each with the place of its set.
Tagged(open, E) == UNION {{i} \X E[i] : i \in open}

\* Sets that have nothing in common are no larger together than what has them all.
LEMMA TaggedFit ==
    ASSUME NEW held, IsFiniteSet(held), NEW open, NEW E, \A i \in open : E[i] \subseteq held,
           \A i, j \in open : i # j => E[i] \cap E[j] = {}
    PROVE  IsFiniteSet(Tagged(open, E)) /\ Cardinality(Tagged(open, E)) <= Cardinality(held)
<1> DEFINE tagged == Tagged(open, E)
           f == [p \in tagged |-> p[2]]
<1>1. ASSUME NEW p \in tagged PROVE \E i \in open : p[1] = i /\ p[2] \in E[i] /\ p = <<p[1], p[2]>>
    BY DEF Tagged
<1> HIDE DEF tagged
<1>2. f \in [tagged -> held]
    BY <1>1
<1>3. ASSUME NEW p \in tagged, NEW q \in tagged, p[2] = q[2] PROVE p = q
    BY <1>1, <1>3
<1>4. f \in Injection(tagged, held)
    <2>1. DOMAIN f = tagged /\ \A p \in tagged : f[p] = p[2]
        OBVIOUS
    <2> HIDE DEF f
    <2>2. IsInjective(f)
        BY <1>3, <2>1 DEF IsInjective
    <2> QED BY <1>2, <2>2 DEF Injection
<1> HIDE DEF f
<1> QED BY <1>4, FS_Injection DEF tagged

\* The sizes of the segments are within the integer width.
SizesFit(rows) ==
    \A i \in DOMAIN rows : rows[i].seg.size \in 0..MaxUint64 /\ rows[i].sel.size \in 0..MaxUint64

\* What a run stores of the groups at the places open.
StoredOf(gs, open) == Cardinality(UNION {{i} \X gs[i].entries : i \in open})

\* What the groups of the segments store stays within the limits under which the
\* estimate for these segments was made.
LEMMA HeldFits ==
    ASSUME NEW x, PlainFile(x), SizesFit(RowsOf(x.file)), NEW b, NEW limits \in [count : Nat, bytes : Nat],
           NEW included, EstimateAuthorizedCIDRRecords(RowsOf(x.file), limits, included) # Refused,
           NEW open, open \subseteq DOMAIN PlanFor(x, b),
           \A i \in open : PlanFor(x, b)[i].cidr \in included
    PROVE  LET n == StoredOf(PlanFor(x, b), open)
           IN  n \in Nat /\ (n > 0 => WithinSet(n, limits))
<1> DEFINE rows == RowsOf(x.file)
           gs == PlanFor(x, b)
           Gs == Groups(rows, x.ports, b)
           E == [i \in open |-> gs[i].entries]
           tagged == Tagged(open, E)
           n == Cardinality(tagged)
<1>1. ListsGroups(gs, Gs)
    BY PlanLists
<1>2. PlainRows(rows) /\ x.ports \in Seq(Int)
    BY PlainFileRows DEF PlainFile
<1>3. rows \in Seq(ToSet(rows)) /\ AllTyped(rows)
    BY <1>2 DEF PlainRows
<1>4. Segments(rows) \subseteq SegmentType
    BY <1>3 DEF Segments, AllTyped, RowTyped
<1>5. n = StoredOf(gs, open)
    <2>1. tagged = UNION {{i} \X gs[i].entries : i \in open}
        BY DEF Tagged
    <2> QED BY <2>1 DEF StoredOf
<1> HIDE DEF gs, Gs
<1>6. \A i \in open : gs[i] \in Gs /\ gs[i].cidr \in included /\ E[i] = gs[i].entries
    BY <1>1 DEF ListsGroups, gs
<1>7. \A i, j \in open : i # j => gs[i] # gs[j]
    BY <1>1 DEF ListsGroups, gs
<1> HIDE DEF E
<1>8. ASSUME NEW held, IsFiniteSet(held), held # {} => WithinSet(Cardinality(held), limits),
             \A i \in open : E[i] \subseteq held, \A g, h \in Gs : g # h => g.entries \cap h.entries = {}
      PROVE  n \in Nat /\ (n > 0 => WithinSet(n, limits))
    <2>1. \A i, j \in open : i # j => E[i] \cap E[j] = {}
        BY <1>6, <1>7, <1>8
    <2>2. IsFiniteSet(tagged) /\ n <= Cardinality(held)
        BY <1>8, <2>1, TaggedFit
    <2> HIDE DEF tagged
    <2>3. n \in Nat /\ Cardinality(held) \in Nat
        BY <1>8, <2>2, FS_CardinalityType
    <2>4. ASSUME n > 0 PROVE WithinSet(n, limits)
        <3>1. held # {}
            BY <2>2, <2>3, <2>4, FS_EmptySet
        <3> HIDE DEF n
        <3> QED BY <1>8, <2>2, <2>3, <3>1, FewerFit
    <2> QED BY <2>3, <2>4
<1>9. CASE HasRichRecords(rows)
    <2> DEFINE held == OwnedBy(rows, included, b)
    <2>1. Gs = RichGroups(rows, b)
        BY <1>2, <1>9, GroupsOf DEF Gs
    <2>2. ASSUME NEW i \in DOMAIN rows PROVE RichRowType(rows[i])
        <3>1. rows[i].rich
            BY <1>2, <1>9 DEF PlainRows, HasRichRecords, NoRowPorts
        <3>2. RowTyped(rows[i]) /\ rows[i].seg.size \in 0..MaxUint64
            BY <1>3 DEF AllTyped, SizesFit
        <3> DEFINE seg == rows[i].seg
                   sel == rows[i].sel
        <3>3. seg \in SegmentType /\ sel \in SegmentType /\ sel.size = 1 /\ seg.size \in 0..MaxUint64
            BY <3>1, <3>2 DEF RowTyped
        <3> HIDE DEF seg, sel
        <3>4. seg \in [lo : Int, size : 0..MaxUint64] /\ sel \in [lo : Int, size : {1}]
            BY <3>3 DEF SegmentType
        <3> QED BY <3>1, <3>4 DEF RichRowType, seg, sel
    <2>3. IsFiniteSet(held) /\ (held # {} => WithinSet(Cardinality(held), limits))
        BY <1>3, <2>2, RichTasksFit
    <2>4. ASSUME NEW i \in open PROVE E[i] \subseteq held
        <3>1. PICK c \in {s \in Segments(rows) : OwnedTargets(rows, s, b) # {}} :
                  gs[i] = RichGroup(c, OwnedTargets(rows, c, b))
            BY <1>6, <2>1, Zenon DEF RichGroups
        <3>2. E[i] = OwnedTargets(rows, c, b) /\ c \in included
            BY <1>6, <3>1, RichGroupShape
        <3> QED BY <3>2 DEF OwnedBy
    <2>5. \A g, h \in Gs : g # h => g.entries \cap h.entries = {}
        BY <1>3, <2>1, RichGroupsAreDisjoint
    <2> HIDE DEF held, n
    <2>6. n \in Nat /\ (n > 0 => WithinSet(n, limits))
        BY <1>8, <2>3, <2>4, <2>5
    <2> QED BY <1>5, <2>6 DEF gs
<1>10. CASE ~HasRichRecords(rows) /\ x.ports # <<>>
    <2> DEFINE u == UniquePorts(x.ports)
               F == FallbackGroups(rows, u, b)
               held == HeldBy(rows, u, included, b)
    <2>1. Gs = F /\ NoRowPorts(rows)
        BY <1>2, <1>10, GroupsOf DEF Gs
    <2>2. ASSUME NEW i \in DOMAIN rows PROVE BasicRowType(rows[i])
        <3>1. ~rows[i].rich
            BY <2>1 DEF NoRowPorts
        <3>2. RowTyped(rows[i]) /\ rows[i].sel.size \in 0..MaxUint64
            BY <1>3 DEF AllTyped, SizesFit
        <3> DEFINE sel == rows[i].sel
        <3>3. rows[i].seg \in SegmentType /\ sel \in SegmentType /\ sel.size \in 0..MaxUint64
            BY <3>2 DEF RowTyped
        <3> HIDE DEF sel
        <3>4. sel \in [lo : Int, size : 0..MaxUint64]
            BY <3>3 DEF SegmentType
        <3> QED BY <3>1, <3>3, <3>4 DEF BasicRowType, sel
    <2>3. IsFiniteSet(held) /\ (held # {} => WithinSet(Cardinality(held), limits))
        BY <1>3, <2>2, FallbackAddressesFit
    <2>4. ASSUME NEW i \in open PROVE E[i] \subseteq held
        BY <1>6, <2>1 DEF HeldBy
    <2>5. \A g, h \in Gs : g # h => g.entries \cap h.entries = {}
        BY <1>4, <2>1, FallbackGroupsAreDisjoint
    <2> HIDE DEF held, n
    <2>6. n \in Nat /\ (n > 0 => WithinSet(n, limits))
        BY <1>8, <2>3, <2>4, <2>5
    <2> QED BY <1>5, <2>6 DEF gs
<1>11. CASE ~HasRichRecords(rows) /\ x.ports = <<>>
    <2>1. Gs = {}
        BY <1>2, <1>11, GroupsOf DEF Gs
    <2>2. IsFiniteSet({}) /\ \A i \in open : E[i] \subseteq {}
        BY <1>6, <2>1, FS_EmptySet
    <2>3. \A g, h \in Gs : g # h => g.entries \cap h.entries = {}
        BY <2>1
    <2> DEFINE held == {}
    <2>4. IsFiniteSet(held) /\ (held # {} => WithinSet(Cardinality(held), limits)) /\ \A i \in open : E[i] \subseteq held
        BY <2>2
    <2> HIDE DEF held, n
    <2>5. n \in Nat /\ (n > 0 => WithinSet(n, limits))
        BY <1>8, <2>3, <2>4
    <2> QED BY <1>5, <2>5 DEF gs
<1> QED BY <1>9, <1>10, <1>11

\* The limits that a snapshot on disk records are limits.
LimitsRecorded ==
    HasSnapshot => Saved.expansion = Nil \/ IsLimits(Saved.expansion.limits)

\* A run has limits, and keeps them.
RunFits ==
    pc = "running" => IsLimits(snapshot.expansion.limits) /\ (SizesFit(Rows) => WithinLimits)

\* The inductive invariant of the limits.
LimitInv ==
    /\ IsLimits(input.limits) /\ (pc = "prepare" => "limits" \in DOMAIN input)
    /\ PlainFile(input) => LimitsRecorded /\ RunFits

\* The limits of a run are those of a flag, recorded ones or the defaults.
LEMMA LimitsOfRun ==
    ASSUME NEW snap, snap.expansion = Nil \/ IsLimits(snap.expansion.limits), NEW command \in CommandLimits
    PROVE  IsLimits(EffectiveLimits(snap, command))
<1> DEFINE default == NewExpansionLimits(DefaultCandidateLimit, DefaultMemoryGB)
           base == IF snap.expansion # Nil THEN snap.expansion.limits ELSE default
           count == IF command.count = Nil THEN base.count ELSE command.count
           bytes == IF command.bytes = Nil THEN base.bytes ELSE command.bytes
<1>1. IsLimits(default)
    <2> DEFINE memory == DefaultMemoryGB * DecimalGB
    <2>1. default = [count |-> DefaultCandidateLimit, bytes |-> memory]
        BY DEF NewExpansionLimits
    <2>2. DefaultMemoryGB \in Nat /\ DecimalGB \in Nat /\ DefaultCandidateLimit \in Nat
        BY PlanAssumption, LimitsAssumption
    <2>3. memory \in Nat
        BY <2>2
    <2>4. memory = 0 \/ memory >= DecimalGB
        BY <2>2
    <2>5. memory = 0 \/ memory >= ExpansionBaseBytes
        <3>1. ExpansionBaseBytes \in Nat /\ ExpansionBaseBytes <= DecimalGB
            BY LimitsAssumption
        <3> HIDE DEF memory
        <3> QED BY <2>2, <2>3, <2>4, <3>1
    <2> HIDE DEF memory, default
    <2> QED BY <2>1, <2>2, <2>3, <2>5 DEF IsLimits
<1>2. IsLimits(base)
    BY <1>1, Zenon
<1>3. EffectiveLimits(snap, command) = [count |-> count, bytes |-> bytes]
    BY Zenon DEF EffectiveLimits
<1>4. /\ command.count = Nil \/ command.count \in Nat
      /\ command.bytes = Nil \/ IsLimits([count |-> 0, bytes |-> command.bytes])
    BY PlanAssumption
<1> HIDE DEF base
<1>5. base.count \in Nat /\ base.bytes \in Nat /\ (base.bytes = 0 \/ base.bytes >= ExpansionBaseBytes)
    BY <1>2 DEF IsLimits
<1>6. count \in Nat
    BY <1>4, <1>5
<1>7. bytes \in Nat /\ (bytes = 0 \/ bytes >= ExpansionBaseBytes)
    BY <1>4, <1>5 DEF IsLimits
<1> HIDE DEF count, bytes
<1>8. IsLimits([count |-> count, bytes |-> bytes])
    BY <1>6, <1>7 DEF IsLimits
<1> QED BY <1>3, <1>8

\* What does not write the file and does not start to run changes nothing.
LEMMA RestFits ==
    ASSUME LimitInv, UNCHANGED <<input, disk>>, pc' # "running", pc' = "prepare" => pc = "prepare"
    PROVE  LimitInv'
<1>1. Saved' = Saved /\ (HasSnapshot' <=> HasSnapshot)
    BY DEF Saved, HasSnapshot
<1>2. LimitsRecorded => LimitsRecorded'
    BY <1>1 DEF LimitsRecorded
<1>3. RunFits'
    BY DEF RunFits
<1> QED BY <1>2, <1>3 DEF LimitInv

\* A step that writes the file keeps the limits if it writes some.
LEMMA SaveFits ==
    ASSUME LimitInv, input' = input, pc' \notin {"running", "prepare"}, PlainFile(input) => LimitsRecorded'
    PROVE  LimitInv'
<1>1. RunFits'
    BY DEF RunFits
<1> QED BY <1>1 DEF LimitInv

\* The file of a snapshot records its limits.
LEMMA RecordsLimits ==
    ASSUME NEW snap, DOMAIN snap = SchemaFields, IsLimits(snap.expansion.limits),
           disk' = EncodeSnapshot(snap)
    PROVE  LimitsRecorded'
<1>1. \A f \in SchemaFields : LoadSnapshot(EncodeSnapshot(snap))[f] = snap[f]
    BY RoundTrip
<1>2. "expansion" \in SchemaFields
    BY SchemaIs
<1>3. LoadSnapshot(EncodeSnapshot(snap)).expansion = snap.expansion
    BY <1>1, <1>2
<1>4. Saved' = LoadSnapshot(EncodeSnapshot(snap))
    BY DEF Saved
<1>5. IsLimits(Saved'.expansion.limits)
    BY <1>3, <1>4, Zenon
<1> QED BY <1>5, Zenon DEF LimitsRecorded

\* generate-buckets records its limits.
LEMMA BucketsRecord ==
    ASSUME LimitInv, SaveBuckets
    PROVE  LimitInv'
<1>1. /\ pc = "fan out" /\ input' = input
      /\ \/ disk' = EncodeSnapshot(FirstSnapshot) /\ pc' = "idle"
         \/ pc' = "snapshot limit" /\ disk' = disk
    BY Zenon DEF SaveBuckets, Refuse
<1>2. CASE pc' = "snapshot limit" /\ disk' = disk
    BY <1>1, <1>2, RestFits
<1>3. CASE disk' = EncodeSnapshot(FirstSnapshot) /\ pc' = "idle"
    <2> DEFINE snap == FirstSnapshot
    <2>1. DOMAIN snap = SchemaFields /\ snap.expansion.limits = input.limits
        BY SchemaIs DEF FirstSnapshot
    <2> HIDE DEF snap
    <2>2. IsLimits(snap.expansion.limits) /\ disk' = EncodeSnapshot(snap)
        BY <1>3, <2>1 DEF LimitInv, snap
    <2>3. LimitsRecorded'
        BY <2>1, <2>2, RecordsLimits
    <2> QED BY <1>1, <1>3, <2>3, SaveFits
<1> QED BY <1>1, <1>2, <1>3

\* A file of another build records none.
LEMMA OthersRecordNone ==
    ASSUME LimitInv, Older
    PROVE  LimitInv'
<1>1. CASE NewerSnapshot
    <2> DEFINE fields == [f \in {"chunks", "future"} |-> <<>>]
               file == [root |-> "object", fields |-> fields]
    <2>1. pc' = "idle" /\ disk' = file /\ input' = input
        BY <1>1 DEF NewerSnapshot
    <2>2. DOMAIN file.fields = {"chunks", "future"}
        OBVIOUS
    <2> HIDE DEF file
    <2>3. ~SnapshotLoads(file)
        BY <2>2, SchemaIs DEF SnapshotLoads
    <2>4. LimitsRecorded'
        BY <2>1, <2>3 DEF HasSnapshot, LimitsRecorded
    <2> QED BY <2>1, <2>4, SaveFits
<1>2. ASSUME NEW omitPorts, NEW progress, LegacyBuckets(omitPorts, progress)
      PROVE  LimitInv'
    <2>0. PICK noTotal : LegacyDisk(noTotal, omitPorts, progress)
        BY <1>2, LegacyWrites
    <2> DEFINE old == Sorted(Groups(Rows, input.ports, {}), KeyBefore)
               chunks == [i \in DOMAIN old |-> OldChunk(old[i], i \in noTotal, omitPorts, progress)]
               fields == [f \in {"chunks"} |-> chunks]
               file == [root |-> "array", fields |-> fields]
    <2>1. disk' = file /\ pc' = "idle" /\ input' = input
        BY <1>2, <2>0, Zenon DEF LegacyBuckets, LegacyDisk
    <2> HIDE DEF chunks
    <2>2. DOMAIN file.fields = {"chunks"}
        OBVIOUS
    <2> HIDE DEF file
    <2> DEFINE snap == LoadSnapshot(file)
               none == LegacySnapshot(<<>>)
    <2>3. snap = [f \in SchemaFields |-> IF f \in DOMAIN file.fields THEN file.fields[f] ELSE none[f]]
        BY Zenon DEF LoadSnapshot
    <2>4. none.expansion = Nil
        BY DEF LegacySnapshot
    <2> HIDE DEF snap, none
    <2>5. snap.expansion = Nil
        BY <2>2, <2>3, <2>4, SchemaIs
    <2>6. Saved' = snap
        BY <2>1 DEF Saved, snap
    <2>7. LimitsRecorded'
        BY <2>5, <2>6, Zenon DEF LimitsRecorded
    <2> QED BY <2>1, <2>7, SaveFits
<1> QED BY <1>1, <1>2, Zenon DEF Older

\* What is within the limits when it is not empty is within them in any case.
LEMMA EmptyFits ==
    ASSUME NEW limits, IsLimits(limits), NEW n \in Nat, n > 0 => WithinSet(n, limits)
    PROVE  WithinSet(n, limits)
<1>1. CASE n > 0
    BY <1>1
<1>2. CASE n = 0
    <2>1. limits.count \in Nat /\ limits.bytes \in Nat /\ (limits.bytes = 0 \/ limits.bytes >= ExpansionBaseBytes)
        BY DEF IsLimits
    <2>2. ExpansionBaseBytes \in Nat /\ ExpansionBytesPerCandidate \in Nat
        BY LimitsAssumption
    <2>3. n * ExpansionBytesPerCandidate = 0
        BY <1>2, <2>2
    <2> QED BY <1>2, <2>1, <2>2, <2>3 DEF WithinSet
<1> QED BY <1>1, <1>2

\* A run that starts keeps the limits it records.
LEMMA ExecuteFits ==
    ASSUME PlanInv, LimitInv, NEW portFile \in {<<>>, input.ports}, NEW command \in CommandLimits,
           Execute(portFile, command)
    PROVE  LimitInv'
<1>1. UNCHANGED <<input, disk>> /\ disk # Nil
    BY Zenon DEF Execute
<1>2. pc' \in {"unreadable", "unproven", "scan over limit", "incompatible", "running"}
    BY Zenon DEF Execute, Refuse
<1>3. CASE pc' # "running"
    <2>1. pc' # "prepare"
        BY <1>2
    <2> QED BY <1>1, <1>3, <2>1, RestFits
<1>4. CASE ~PlainFile(input)
    <2>1. pc' # "prepare"
        BY <1>2
    <2> QED BY <1>1, <1>4, <2>1 DEF LimitInv
<1>5. CASE PlainFile(input) /\ pc' = "running"
    <2>1. SnapshotLoads(disk) => SnapFits(input, Saved, original, Lists)
        BY <1>1, <1>5 DEF PlanInv, DiskRight, HasSnapshot
    <2> DEFINE b == Saved.ping.unreachable
               gs == PlanFor(input, b)
    <2>2. RunStarts(Saved, gs, command)
        <3>1. ~(pc' \in {"unreadable", "unproven", "scan over limit", "incompatible"})
            BY <1>5
        <3>2. portFile = <<>> \/ portFile = input.ports
            OBVIOUS
        <3> QED BY <1>5, <2>1, <3>1, <3>2, ExecuteStarts
    <2> DEFINE chunks == Saved.chunks
               open == Incomplete(chunks)
               limits == EffectiveLimits(Saved, command)
               estimate == Estimate(Rows, limits, IncompleteKeys(chunks))
               e == [count |-> IF Saved.expansion # Nil THEN Saved.expansion.count ELSE estimate,
                     limits |-> limits]
               n == StoredOf(gs, open)
    <2>3. /\ SnapshotLoads(disk) /\ estimate # Refused /\ stored' = n
          /\ snapshot' = RunSnapshot(input, Saved, e)
        BY <2>2, Zenon DEF RunStarts, RunSnapshot, StoredOf
    <2>4. SnapFits(input, Saved, original, Lists)
        BY <2>1, <2>3
    <2>5. snapshot'.expansion = e
        <3> HIDE DEF e
        <3> DEFINE new == snapshot'
        <3>1. new = RunSnapshot(input, Saved, e)
            BY <2>3
        <3> HIDE DEF new
        <3>2. new.expansion = e
            BY <1>5, <2>4, <3>1, RunSnapshotFits
        <3> QED BY <3>2 DEF new
    <2>6. e.limits = limits
        OBVIOUS
    <2>7. HasSnapshot /\ LimitsRecorded
        BY <1>1, <1>5, <2>3 DEF HasSnapshot, LimitInv
    <2>8. IsLimits(limits)
        <3> DEFINE saved == Saved
        <3>1. saved.expansion = Nil \/ IsLimits(saved.expansion.limits)
            BY <2>7 DEF LimitsRecorded
        <3> HIDE DEF saved
        <3>2. IsLimits(EffectiveLimits(saved, command))
            BY <3>1, LimitsOfRun
        <3> QED BY <3>2 DEF saved
    <2>9. ASSUME SizesFit(Rows) PROVE WithinSet(n, limits)
        <3>1. ChunksFit(chunks, gs)
            BY <2>4, Zenon DEF SnapFits
        <3>2. open \subseteq DOMAIN gs
            BY <3>1 DEF Incomplete, ChunksFit
        <3>3. \A i \in open : gs[i].cidr \in IncompleteKeys(chunks)
            BY <3>1, <3>2 DEF IncompleteKeys, ChunksFit, ChunkFits
        <3>4. limits \in [count : Nat, bytes : Nat]
            BY <2>8 DEF IsLimits
        <3>5. SizesFit(RowsOf(input.file)) /\ EstimateAuthorizedCIDRRecords(RowsOf(input.file), limits, IncompleteKeys(chunks)) # Refused
            BY <2>3, <2>9, Zenon DEF Estimate, Rows
        <3> DEFINE included == IncompleteKeys(chunks)
        <3> HIDE DEF included, limits, open, b, chunks
        <3>6. n \in Nat /\ (n > 0 => WithinSet(n, limits))
            BY <1>5, <3>2, <3>3, <3>4, <3>5, HeldFits DEF included
        <3> HIDE DEF n
        <3> QED BY <2>8, <3>6, EmptyFits
    <2>10. Saved' = Saved /\ (HasSnapshot' <=> HasSnapshot) /\ Rows' = Rows
        BY <1>1, ListsStay DEF Saved, HasSnapshot
    <2>11. LimitsRecorded'
        BY <2>7, <2>10 DEF LimitsRecorded
    <2> HIDE DEF e, n, limits
    <2>12. snapshot'.expansion.limits = limits
        BY <2>5, <2>6, Zenon
    <2>13. SizesFit(Rows) => WithinLimits'
        BY <2>3, <2>9, <2>12, Zenon DEF WithinLimits, WithinSet
    <2>14. RunFits'
        BY <2>8, <2>10, <2>12, <2>13, Zenon DEF RunFits
    <2> QED BY <1>1, <1>5, <2>11, <2>14 DEF LimitInv
<1> QED BY <1>3, <1>4, <1>5

\* A run that ends records the limits it had.
LEMMA StopRecords ==
    ASSUME PlanInv, LimitInv, pc = "running", NEW next \in Cursors, StopScan(next)
    PROVE  LimitInv'
<1> DEFINE new == LastSnapshot(snapshot, next)
<1>1. /\ input' = input /\ pc' \in {"done", "idle"}
      /\ disk' = disk \/ disk' = EncodeSnapshot(new)
    BY Zenon DEF StopScan, EndScan, LastSnapshot
<1>2. pc' # "running" /\ pc' # "prepare"
    BY <1>1
<1>3. CASE disk' = disk
    BY <1>1, <1>2, <1>3, RestFits
<1>4. CASE disk' = EncodeSnapshot(new)
    <2>1. ASSUME PlainFile(input) PROVE LimitsRecorded'
        <3>1. DOMAIN snapshot = SchemaFields
            BY <2>1 DEF PlanInv, RunRight, SnapFits
        <3>2. IsLimits(snapshot.expansion.limits)
            BY <2>1 DEF LimitInv, RunFits
        <3> DEFINE C == [i \in DOMAIN snapshot.chunks |-> [snapshot.chunks[i] EXCEPT !.next = next[i]]]
        <3>3. new = [snapshot EXCEPT !.output = "recorded", !.chunks = C]
            BY Zenon DEF LastSnapshot
        <3> HIDE DEF C, new
        <3>4. DOMAIN new = SchemaFields /\ new.expansion = snapshot.expansion
            BY <3>1, <3>3, SchemaIs
        <3>5. IsLimits(new.expansion.limits)
            BY <3>2, <3>4, Zenon
        <3> QED BY <1>4, <3>4, <3>5, RecordsLimits
    <2> QED BY <1>1, <1>2, <2>1, SaveFits
<1> QED BY <1>1, <1>3, <1>4

\* The limits stay limits, and every run keeps them.
LEMMA KeepsLimits == PrepSpec => [](PlanInv /\ LimitInv)
<1>1. PrepInit => LimitInv
    <2> SUFFICES ASSUME PrepInit PROVE LimitInv
        OBVIOUS
    <2>1. pc \in {"prepare", "stat"} /\ disk = Nil
        BY DEF PrepInit
    <2>2. IsLimits(input.limits) /\ (pc = "prepare" => "limits" \in DOMAIN input)
        BY InputsAssumption, SourcesAssumption DEF PrepInit
    <2>3. LimitsRecorded /\ RunFits
        BY <2>1 DEF LimitsRecorded, RunFits, HasSnapshot
    <2> QED BY <2>2, <2>3 DEF LimitInv
<1>2. PlanInv /\ LimitInv /\ [PrepNext]_<<vars, prepVars>> => LimitInv'
    <2> SUFFICES ASSUME PlanInv, LimitInv, [PrepNext]_<<vars, prepVars>> PROVE LimitInv'
        OBVIOUS
    <2>0. ASSUME UNCHANGED vars PROVE LimitInv'
        <3>1. UNCHANGED <<input, pc, disk, snapshot, stored>>
            BY <2>0 DEF vars
        <3>2. Saved' = Saved /\ (HasSnapshot' <=> HasSnapshot) /\ Rows' = Rows
            BY <3>1, ListsStay DEF Saved, HasSnapshot
        <3>3. LimitsRecorded => LimitsRecorded'
            BY <3>2 DEF LimitsRecorded
        <3>4. RunFits => RunFits'
            BY <3>1, <3>2 DEF RunFits, WithinLimits
        <3> QED BY <3>1, <3>3, <3>4 DEF LimitInv
    <2>1. CASE Work
        BY <2>0, <2>1 DEF Work
    <2>2. CASE UsePrepared
        <3> DEFINE file == [rich |-> TRUE, lines |-> out["preprocess"]]
        <3>1. pc = "prepare" /\ pc' = "stat" /\ disk' = disk /\ input' = [input EXCEPT !.file = file]
            BY <2>2, Zenon DEF UsePrepared
        <3> HIDE DEF file
        <3>2. disk' = Nil
            BY <3>1 DEF PlanInv, FreshRight, Planning
        <3>3. input'.limits = input.limits
            BY <3>1 DEF LimitInv
        <3>4. IsLimits(input'.limits)
            BY <3>3 DEF LimitInv
        <3>5. LimitsRecorded' /\ RunFits'
            BY <3>1, <3>2 DEF LimitsRecorded, RunFits, HasSnapshot
        <3> QED BY <3>1, <3>4, <3>5 DEF LimitInv
    <2>3. CASE Next
        <3>1. CASE Load \/ FanOutCancelled
            <4>1. UNCHANGED <<input, disk>> /\ pc' \in {"too large", "count", "parse", "loaded", "changed", "interrupted"}
                BY <3>1 DEF Load, StatInput, ReadInput, ReadBounded, EndInput, FanOutCancelled, Refuse
            <4> QED BY <4>1, RestFits
        <3>2. CASE GenerateGroups
            <4>1. /\ UNCHANGED <<input, disk>>
                  /\ pc' \in {"bad input", "over limit", "bad blocklist", "no port source", "fan out"}
                BY <3>2, Zenon DEF GenerateGroups, Refuse
            <4>2. pc' # "running" /\ pc' # "prepare"
                BY <4>1
            <4> QED BY <4>1, <4>2, RestFits
        <3>3. CASE (\E i \in DOMAIN slots : BuildChunk(i)) \/ Interrupt
            <4>1. UNCHANGED <<input, disk, pc>> /\ pc = "fan out"
                BY <3>3 DEF BuildChunk, Interrupt
            <4> QED BY <4>1, RestFits
        <3>4. CASE SaveBuckets
            BY <3>4, BucketsRecord
        <3>5. CASE Older
            BY <3>5, OthersRecordNone
        <3>6. CASE Scan
            <4>1. CASE Crash
                <5>1. UNCHANGED <<input, disk>> /\ pc' = "idle"
                    BY <4>1 DEF Crash, EndScan
                <5> QED BY <5>1, RestFits
            <4>2. ASSUME NEW portFile \in {<<>>, input.ports}, NEW command \in CommandLimits,
                         Execute(portFile, command)
                  PROVE  LimitInv'
                BY <4>2, ExecuteFits
            <4>3. ASSUME pc = "running", NEW next \in Cursors, StopScan(next)
                  PROVE  LimitInv'
                BY <4>3, StopRecords
            <4> QED BY <3>6, <4>1, <4>2, <4>3, Zenon DEF Scan
        <3> QED BY <2>3, <3>1, <3>2, <3>3, <3>4, <3>5, <3>6 DEF Next, Generate
    <2>4. CASE UNCHANGED <<vars, prepVars>>
        BY <2>0, <2>4
    <2> QED BY <2>1, <2>2, <2>3, <2>4 DEF PrepNext
<1> QED BY <1>1, <1>2, KeepsPlan, PTL DEF PrepSpec

-----------------------------------------------------------------------------
(* No snapshot is refused where segments do not overlap *)

\* A rich line that is accepted has its address in its segment.
LEMMA AcceptedInside ==
    ASSUME NEW l, RichCode(l) = ""
    PROVE  NetworkContains(Masked(l.seg), l.sel)
BY Zenon DEF RichCode

\* The loader keeps every selector in its segment.
LEMMA LoadedInside ==
    ASSUME NEW file \in FileType, NEW hash, Loads(file, hash)
    PROVE  Inside(RowsOf(file))
<1> DEFINE rows == RowsOf(file)
           lines == file.lines
<1>1. /\ DOMAIN rows = DOMAIN lines
      /\ \A i \in DOMAIN lines : rows[i] = IF file.rich THEN ParseRichRow(lines[i]) ELSE ParseBasicRow(lines[i])
    BY DEF RowsOf
<1> HIDE DEF rows
<1>2. CASE file.rich
    <2> SUFFICES ASSUME NEW i \in DOMAIN rows, rows[i].valid
                 PROVE  Addresses(rows[i].sel) \subseteq Addresses(rows[i].seg)
        BY DEF Inside, rows
    <2> DEFINE l == lines[i]
               ok == RichCode(l) = ""
               r == rows[i]
    <2>1. r = ParseRichRow(l)
        BY <1>1, <1>2
    <2> HIDE DEF l, r
    <2>2. /\ r.valid = ok /\ r.seg = IF ok THEN Masked(l.seg) ELSE Malformed
          /\ r.sel = IF ok THEN l.sel ELSE Malformed
        BY <2>1 DEF ParseRichRow
    <2>3. ok
        BY <2>2 DEF r
    <2>4. NetworkContains(Masked(l.seg), l.sel)
        BY <2>3, AcceptedInside
    <2> QED BY <2>2, <2>3, <2>4 DEF NetworkContains, r
<1>3. CASE ~file.rich
    <2>1. \A i \in DOMAIN rows : NetworkContains(rows[i].seg, rows[i].sel)
        BY <1>3, Zenon DEF Loads, ValidateIPRows, rows
    <2> QED BY <2>1 DEF Inside, NetworkContains, rows
<1> QED BY <1>2, <1>3

\* Where segments do not overlap, a segment whose rows are all there keeps the
\* addresses that it kept.
LEMMA KeptStays ==
    ASSUME NEW rows, NEW part, NEW at, NEW keys, NEW blocked, NoRowPorts(rows), AllTyped(rows),
           PartOf(part, rows, at), KeepsRows(part, rows, at, keys), NEW c \in keys,
           \A i \in DOMAIN rows : Addresses(rows[i].sel) \subseteq Addresses(rows[i].seg),
           \A s, t \in Segments(rows) : s # t => Addresses(s) \cap Addresses(t) = {}
    PROVE  KeptBy(part, c, blocked) = KeptBy(rows, c, blocked)
<1>1. KeptBy(rows, c, blocked) \subseteq KeptBy(part, c, blocked)
    BY KeptGrows
<1>2. \A d : \A a \in Brought(rows, d, blocked) : a \in Addresses(d) /\ d \in Segments(rows)
    <2> SUFFICES ASSUME NEW d, NEW a \in Brought(rows, d, blocked)
                 PROVE  a \in Addresses(d) /\ d \in Segments(rows)
        OBVIOUS
    <2>1. PICK i \in DOMAIN rows : rows[i].seg = d /\ a \in BasicTargetIPs(rows[i], blocked)
        BY DEF Brought
    <2>2. a \in Addresses(rows[i].sel)
        BY <2>1 DEF BasicTargetIPs, Reachable, FilterBoundaryBroadcast
    <2> QED BY <2>1, <2>2 DEF Segments
<1>3. Brought(part, c, blocked) \subseteq Brought(rows, c, blocked)
    BY DEF Brought, PartOf
<1>4. ASSUME NEW a \in KeptBy(part, c, blocked) PROVE a \in KeptBy(rows, c, blocked)
    <2>1. a \in Brought(rows, c, blocked)
        BY <1>3 DEF KeptBy
    <2>2. ASSUME NEW d \in Segments(rows), CIDRBefore(d, c), a \in Brought(rows, d, blocked) PROVE FALSE
        <3>1. c \in SegmentType
            BY <1>2, <2>1 DEF Segments, AllTyped, RowTyped
        <3>2. d # c
            BY <2>2, <3>1 DEF CIDRBefore, SegmentType
        <3> QED BY <1>2, <2>1, <2>2, <3>2
    <2> QED BY <2>1, <2>2 DEF KeptBy
<1> QED BY <1>1, <1>4

\* Basic rows are all valid.
LEMMA BasicValid ==
    ASSUME NEW file \in FileType, ~HasRichRecords(RowsOf(file))
    PROVE  \A k \in DOMAIN RowsOf(file) : RowsOf(file)[k].valid
<1> DEFINE rows == RowsOf(file)
           lines == file.lines
<1>1. /\ DOMAIN rows = DOMAIN lines
      /\ \A k \in DOMAIN lines : rows[k] = IF file.rich THEN ParseRichRow(lines[k]) ELSE ParseBasicRow(lines[k])
    BY DEF RowsOf
<1> HIDE DEF rows
<1> SUFFICES ASSUME NEW k \in DOMAIN rows PROVE rows[k].valid
    BY DEF rows
<1> DEFINE l == lines[k]
           r == rows[k]
<1>2. r = IF file.rich THEN ParseRichRow(l) ELSE ParseBasicRow(l)
    BY <1>1
<1>3. ~r.rich
    BY DEF HasRichRecords, rows
<1> HIDE DEF l, r
<1>4. CASE file.rich
    <2>1. r = ParseRichRow(l)
        BY <1>2, <1>4
    <2>2. r.rich = TRUE
        BY <2>1 DEF ParseRichRow
    <2> QED BY <1>3, <2>2
<1>5. CASE ~file.rich
    <2>1. r = ParseBasicRow(l)
        BY <1>2, <1>5
    <2>2. r.valid = TRUE
        BY <2>1 DEF ParseBasicRow
    <2> QED BY <2>2 DEF r
<1> QED BY <1>4, <1>5

\* A run finds the group of every unfinished chunk.
LEMMA GroupStays ==
    ASSUME PlainFile(input), Inside(Rows), DisjointSegments, NEW b, NEW chunks,
           ChunksFit(chunks, PlanFor(input, b)),
           NEW ports, HasRichRecords(Rows) \/ ports = input.ports, NEW i \in Incomplete(chunks)
    PROVE  LET part == SelectRuntimeRecords(chunks)
               g == PlanFor(input, b)[i]
           IN  /\ g \in Groups(part, ports, b) /\ g.cidr = chunks[i].cidr
               /\ HasRichRecords(part) \/ (ports # <<>> /\ NoRowPorts(part) /\ g.ports # <<>>)
<1> DEFINE gs == PlanFor(input, b)
           Gs == Groups(Rows, input.ports, b)
           part == SelectRuntimeRecords(chunks)
           keys == IncompleteKeys(chunks)
           S == ToSet(Rows)
           g == gs[i]
<1>1. ListsGroups(gs, Gs)
    BY PlanLists DEF Rows
<1>2. PlainRows(Rows) /\ input.ports \in Seq(Int)
    BY PlainFileRows DEF Rows, PlainFile
<1>3. Rows \in Seq(S) /\ AllTyped(Rows)
    BY <1>2 DEF PlainRows
<1>4. /\ part \in Seq(S) /\ PlainRows(part)
      /\ \E at : PartOf(part, Rows, at) /\ KeepsRows(part, Rows, at, keys)
    BY RuntimeRows
<1>5. i \in DOMAIN chunks /\ chunks[i].cidr \in keys
    BY DEF Incomplete, IncompleteKeys
<1> HIDE DEF gs, Gs, part, keys, S
<1>6. i \in DOMAIN gs /\ ChunkFits(chunks[i], g)
    BY <1>5 DEF ChunksFit, gs
<1>7. g \in Gs /\ GroupTyped(g)
    BY <1>1, <1>6 DEF ListsGroups, SoundGroups
<1>8. g.cidr = chunks[i].cidr
    BY <1>6 DEF ChunkFits
<1> HIDE DEF g
<1>9. PICK at : PartOf(part, Rows, at) /\ KeepsRows(part, Rows, at, keys)
    BY <1>4
<1>10. /\ \A c \in keys : SegmentRows(part, c) = SegmentRows(Rows, c)
       /\ \A c \in keys : c \in Segments(Rows) => c \in Segments(part)
    BY <1>9, RowsStay
<1>11. Apart(Rows)
    BY DEF DisjointSegments, Apart, Segments
<1>12. CASE HasRichRecords(Rows)
    <2>1. Gs = RichGroups(Rows, b)
        BY <1>2, <1>12, GroupsOf DEF Gs
    <2>2. PICK c \in {s \in Segments(Rows) : OwnedTargets(Rows, s, b) # {}} :
              g = RichGroup(c, OwnedTargets(Rows, c, b))
        BY <1>7, <2>1, Zenon DEF RichGroups
    <2>3. g.cidr = c /\ c \in keys /\ c \in Segments(part) /\ c \in Segments(Rows)
        BY <1>5, <1>8, <1>10, <2>2, RichGroupShape
    <2>4. HasRichRecords(part)
        <3>1. PICK k \in DOMAIN Rows : Rows[k].seg = c
            BY <2>3 DEF Segments
        <3>2. Rows[k].rich
            BY <1>2, <1>12 DEF PlainRows, HasRichRecords, NoRowPorts
        <3>3. PICK j \in DOMAIN part : at[j] = k
            BY <1>9, <2>3, <3>1 DEF KeepsRows
        <3>4. part[j] = Rows[k]
            BY <1>9, <3>3 DEF PartOf
        <3> QED BY <3>2, <3>4 DEF HasRichRecords
    <2>5. Inside(part) /\ Apart(part) /\ DeniedKeys(part) = DeniedKeys(Rows)
        BY <1>9, <1>11, RowsStay, DeniedStay
    <2>6. SegmentRows(part, c) = SegmentRows(Rows, c)
        BY <1>10, <2>3
    <2>7. \A t : t \in OwnedTargets(part, c, b) <=> t \in OwnedTargets(Rows, c, b)
        BY <1>3, <1>4, <1>11, <2>5, <2>6, OwnsAll, Zenon
    <2>8. OwnedTargets(part, c, b) = OwnedTargets(Rows, c, b)
        BY <2>7
    <2>9. g \in RichGroups(part, b)
        BY <2>2, <2>3, <2>8, Zenon DEF RichGroups
    <2>10. Groups(part, ports, b) = RichGroups(part, b)
        BY <1>4, <2>4, GroupsOf
    <2> QED BY <1>8, <2>4, <2>9, <2>10 DEF g, gs, part
<1>13. CASE ~HasRichRecords(Rows)
    <2>1. NoRowPorts(Rows)
        BY <1>2, <1>13, GroupsOf
    <2> DEFINE u == UniquePorts(input.ports)
    <2>2. input.ports # <<>> /\ Gs = FallbackGroups(Rows, u, b)
        BY <1>2, <1>7, <1>13, GroupsOf DEF Gs
    <2>3. NoRowPorts(part) /\ ~HasRichRecords(part)
        BY <1>9, <2>1, PartTyped DEF HasRichRecords, NoRowPorts
    <2>4. ports = input.ports
        BY <1>13
    <2>5. Groups(part, ports, b) = FallbackGroups(part, u, b)
        BY <1>4, <2>2, <2>3, <2>4, GroupsOf
    <2>6. PICK c \in {s \in Segments(Rows) : KeptBy(Rows, s, b) # {}} : g = BasicGroup(c, u, KeptBy(Rows, c, b))
        BY <1>7, <2>2, FallbackShape, Zenon
    <2>7. g.cidr = c /\ c \in keys /\ c \in Segments(part)
        <3>1. g.cidr = c
            BY <2>6, BasicGroupShape
        <3> QED BY <1>5, <1>8, <1>10, <3>1
    <2>8. KeptBy(part, c, b) = KeptBy(Rows, c, b)
        <3>1. \A k \in DOMAIN Rows : Rows[k].valid
            BY <1>13, BasicValid DEF PlainFile, Rows
        <3>2. \A k \in DOMAIN Rows : Addresses(Rows[k].sel) \subseteq Addresses(Rows[k].seg)
            BY <3>1 DEF Inside
        <3>3. \A s, t \in Segments(Rows) : s # t => Addresses(s) \cap Addresses(t) = {}
            BY DEF DisjointSegments
        <3> QED BY <1>3, <1>9, <2>1, <2>7, <3>2, <3>3, KeptStays
    <2>9. g \in FallbackGroups(part, u, b)
        BY <2>6, <2>7, <2>8, FallbackShape, Zenon
    <2>10. g.ports # <<>>
        <3> DEFINE kept == KeptBy(Rows, c, b)
        <3>1. BasicGroup(c, u, kept).ports = u /\ Len(u) \in Nat \ {0}
            BY <1>2, <1>3, <2>2, <2>6, FallbackTasks
        <3>2. g.ports = u
            BY <2>6, <3>1
        <3> HIDE DEF u
        <3>3. u # <<>>
            BY <3>1
        <3> QED BY <3>2, <3>3
    <2> QED BY <1>8, <2>2, <2>3, <2>4, <2>5, <2>9, <2>10 DEF g, gs, part
<1> QED BY <1>12, <1>13

\* Buckets are made only of a file that loads, and where segments do not overlap no
\* run refuses them.
ResumeInv ==
    PlainFile(input) => /\ pc = "fan out" \/ HasSnapshot => Inside(Rows)
                        /\ DisjointResumes

\* What does not write the file and does not refuse it changes nothing.
LEMMA RestResumes ==
    ASSUME ResumeInv, UNCHANGED <<input, disk>>, pc' # "incompatible", pc' = "fan out" => pc = "fan out"
    PROVE  ResumeInv'
<1>1. (HasSnapshot' <=> HasSnapshot) /\ Rows' = Rows
    BY ListsStay DEF HasSnapshot
<1>2. DisjointResumes'
    BY DEF DisjointResumes
<1> QED BY <1>1, <1>2 DEF ResumeInv

\* A step that writes the file, of rows that are inside their segments.
LEMMA SaveResumes ==
    ASSUME input' = input, pc' \notin {"incompatible", "fan out"},
           PlainFile(input) => Inside(Rows) \/ ~HasSnapshot'
    PROVE  ResumeInv'
<1>1. Rows' = Rows
    BY ListsStay
<1>2. DisjointResumes'
    BY DEF DisjointResumes
<1> QED BY <1>1, <1>2 DEF ResumeInv

\* No run refuses a snapshot of this build where segments do not overlap.
LEMMA ExecuteResumes ==
    ASSUME PlanInv, ResumeInv, NEW portFile, NEW command, Execute(portFile, command)
    PROVE  ResumeInv'
<1>1. UNCHANGED <<input, disk>> /\ disk # Nil
    BY Zenon DEF Execute
<1>2. pc' \in {"unreadable", "unproven", "scan over limit", "incompatible", "running"}
    BY Zenon DEF Execute, Refuse
<1>3. pc' # "fan out"
    BY <1>2
<1>4. CASE pc' # "incompatible"
    BY <1>1, <1>3, <1>4, RestResumes
<1>5. CASE ~PlainFile(input)
    BY <1>1, <1>5 DEF ResumeInv
<1>6. CASE PlainFile(input) /\ pc' = "incompatible"
    <2> DEFINE snap == Saved
               chunks == snap.chunks
               rows == SelectRuntimeRecords(chunks)
               ports == FallbackPorts(snap, portFile)
               b == snap.ping.unreachable
               found == RuntimeGroups(chunks, rows, ports, b)
               open == Incomplete(chunks)
               gs == PlanFor(input, b)
    <2>1. /\ SnapshotLoads(disk) /\ SnapshotSemanticsKnown(snap)
          /\ \/ open # {} /\ ~Resolvable(rows, ports, b)
             \/ \E i \in open : found[i] = {}
        <3>1. /\ pc' # "unreadable" /\ pc' # "unproven" /\ pc' # "scan over limit" /\ pc' # "running"
            BY <1>6
        <3> QED BY <3>1, Zenon DEF Execute, Refuse, Saved
    <2>2. HasSnapshot /\ Inside(Rows)
        BY <1>1, <1>6, <2>1 DEF HasSnapshot, ResumeInv
    <2>3. SnapFits(input, snap, original, Lists)
        BY <1>6, <2>2 DEF PlanInv, DiskRight
    <2>4. ASSUME DisjointSegments, snap.version # 0 PROVE FALSE
        <3>1. snap.version = CurrentTargetSemanticsVersion
            BY <2>1, <2>4 DEF SnapshotSemanticsKnown
        <3>2. /\ ChunksFit(chunks, gs) /\ (HasRichRecords(Rows) \/ snap.fallback = input.ports)
              /\ \A i \in DOMAIN gs : chunks[i].total = Len(gs[i].tasks) /\ chunks[i].ports = gs[i].ports
            BY <2>3, <3>1, Zenon DEF SnapFits, Rows
        <3>3. PICK i \in open : ~Resolvable(rows, ports, b) \/ found[i] = {}
            BY <2>1
        <3>4. i \in DOMAIN gs /\ i \in DOMAIN chunks
            BY <3>2 DEF ChunksFit, Incomplete
        <3> DEFINE g == gs[i]
        <3>5. ASSUME NEW p, p = ports, HasRichRecords(Rows) \/ p = input.ports PROVE FALSE
            <4>1. /\ g \in Groups(rows, p, b) /\ g.cidr = chunks[i].cidr
                  /\ HasRichRecords(rows) \/ (p # <<>> /\ NoRowPorts(rows) /\ g.ports # <<>>)
                <5>1. ChunksFit(chunks, PlanFor(input, b)) /\ i \in Incomplete(chunks)
                    BY <3>2
                <5> DEFINE part == SelectRuntimeRecords(chunks)
                           h == PlanFor(input, b)[i]
                <5>2. /\ h \in Groups(part, p, b) /\ h.cidr = chunks[i].cidr
                      /\ HasRichRecords(part) \/ (p # <<>> /\ NoRowPorts(part) /\ h.ports # <<>>)
                    <6> HIDE DEF chunks, b
                    <6> QED BY <1>6, <2>2, <2>4, <3>5, <5>1, GroupStays
                <5> QED BY <5>2
            <4>2. Resolvable(rows, p, b)
                BY <4>1 DEF Resolvable, HasPortSource, PortList, NoRowPorts
            <4> DEFINE new == IF Incomplete(chunks) = {} THEN {} ELSE Groups(rows, p, b)
                       rich == HasRichRecords(rows)
                       PortsOf(ch) == IF ch.ports = <<>> THEN p ELSE ch.ports
                       Matching(ch) == {h \in new : /\ h.cidr = ch.cidr /\ (rich \/ h.ports = PortsOf(ch))
                                                    /\ TotalMatches(ch, h)}
            <4>3. found = [j \in DOMAIN chunks |-> IF j \in Incomplete(chunks) THEN Matching(chunks[j]) ELSE {}]
                BY <3>5, Zenon DEF RuntimeGroups
            <4>4. new = Groups(rows, p, b)
                BY Zenon
            <4>5. TotalMatches(chunks[i], g) /\ (rich \/ g.ports = PortsOf(chunks[i]))
                <5>1. chunks[i].total = Len(g.tasks) /\ chunks[i].ports = g.ports
                    BY <3>2, <3>4
                <5> QED BY <4>1, <5>1, Zenon DEF TotalMatches
            <4> HIDE DEF new, PortsOf, rich, rows, ports, b, chunks, found, g
            <4>6. found[i] = Matching(chunks[i])
                BY <3>4, <4>3 DEF open
            <4>7. g \in found[i]
                BY <4>1, <4>4, <4>5, <4>6
            <4> QED BY <3>3, <3>5, <4>2, <4>7
        <3>6. CASE HasRichRecords(Rows)
            BY <3>5, <3>6
        <3>7. CASE ~HasRichRecords(Rows)
            <4>1. input.ports # <<>>
                <5>1. ListsGroups(gs, Groups(Rows, input.ports, b))
                    BY <1>6, PlanLists DEF Rows
                <5>2. g \in Groups(Rows, input.ports, b)
                    BY <3>4, <5>1 DEF ListsGroups
                <5>3. PlainRows(Rows)
                    BY <1>6, PlainFileRows DEF Rows
                <5> QED BY <3>7, <5>2, <5>3, GroupsOf
            <4>2. ports = snap.fallback
                BY <3>1, <3>2, <3>7, <4>1, Zenon DEF FallbackPorts
            <4> QED BY <3>2, <3>5, <3>7, <4>2
        <3> QED BY <3>6, <3>7
    <2>5. Saved' = Saved /\ (HasSnapshot' <=> HasSnapshot) /\ Rows' = Rows
        BY <1>1, ListsStay DEF Saved, HasSnapshot
    <2>6. DisjointResumes'
        BY <2>4, <2>5 DEF DisjointResumes, DisjointSegments, Saved
    <2> QED BY <2>2, <2>5, <2>6 DEF ResumeInv
<1> QED BY <1>4, <1>5, <1>6

\* Buckets can be resumed as long as the segments do not overlap.
LEMMA KeepsResumable == PrepSpec => [](PlanInv /\ ResumeInv)
<1>1. PrepInit => ResumeInv
    <2> SUFFICES ASSUME PrepInit PROVE ResumeInv
        OBVIOUS
    <2>1. pc \in {"prepare", "stat"} /\ disk = Nil
        BY DEF PrepInit
    <2> QED BY <2>1 DEF ResumeInv, HasSnapshot, DisjointResumes
<1>2. PlanInv /\ ResumeInv /\ [PrepNext]_<<vars, prepVars>> => ResumeInv'
    <2> SUFFICES ASSUME PlanInv, ResumeInv, [PrepNext]_<<vars, prepVars>> PROVE ResumeInv'
        OBVIOUS
    <2>0. ASSUME UNCHANGED vars PROVE ResumeInv'
        <3>1. UNCHANGED <<input, pc, disk>>
            BY <2>0 DEF vars
        <3>2. (HasSnapshot' <=> HasSnapshot) /\ Rows' = Rows
            BY <3>1, ListsStay DEF HasSnapshot
        <3>3. DisjointResumes => DisjointResumes'
            BY <3>1, <3>2 DEF DisjointResumes, DisjointSegments
        <3> QED BY <3>1, <3>2, <3>3 DEF ResumeInv
    <2>1. CASE Work
        BY <2>0, <2>1 DEF Work
    <2>2. CASE UsePrepared
        <3>1. pc = "prepare" /\ pc' = "stat" /\ disk' = disk
            BY <2>2, Zenon DEF UsePrepared
        <3>2. disk' = Nil
            BY <3>1 DEF PlanInv, FreshRight, Planning
        <3>3. ~HasSnapshot' /\ DisjointResumes'
            BY <3>1, <3>2 DEF HasSnapshot, DisjointResumes
        <3> QED BY <3>1, <3>3 DEF ResumeInv
    <2>3. CASE Next
        <3>1. CASE Load \/ FanOutCancelled
            <4>1. UNCHANGED <<input, disk>> /\ pc' \in {"too large", "count", "parse", "loaded", "changed", "interrupted"}
                BY <3>1 DEF Load, StatInput, ReadInput, ReadBounded, EndInput, FanOutCancelled, Refuse
            <4> QED BY <4>1, RestResumes
        <3>2. CASE GenerateGroups
            <4>1. /\ UNCHANGED <<input, disk>>
                  /\ \/ pc' \in {"bad input", "over limit", "bad blocklist", "no port source"}
                     \/ pc' = "fan out" /\ Loads(input.file, Hash)
                BY <3>2, Zenon DEF GenerateGroups, Refuse
            <4>2. CASE pc' \in {"bad input", "over limit", "bad blocklist", "no port source"}
                BY <4>1, <4>2, RestResumes
            <4>3. CASE pc' = "fan out" /\ Loads(input.file, Hash)
                <5>1. PlainFile(input) => Inside(Rows)
                    BY <4>3, LoadedInside DEF PlainFile, Rows
                <5>2. Rows' = Rows
                    BY <4>1, ListsStay
                <5>3. DisjointResumes'
                    BY <4>3 DEF DisjointResumes
                <5> QED BY <4>1, <5>1, <5>2, <5>3 DEF ResumeInv
            <4> QED BY <4>1, <4>2, <4>3
        <3>3. CASE (\E i \in DOMAIN slots : BuildChunk(i)) \/ Interrupt
            <4>1. UNCHANGED <<input, disk, pc>> /\ pc = "fan out"
                BY <3>3 DEF BuildChunk, Interrupt
            <4> QED BY <4>1, RestResumes
        <3>4. CASE SaveBuckets
            <4>1. pc = "fan out" /\ input' = input /\ pc' \in {"idle", "snapshot limit"}
                BY <3>4, Zenon DEF SaveBuckets, Refuse
            <4>2. PlainFile(input) => Inside(Rows)
                BY <4>1 DEF ResumeInv
            <4> QED BY <4>1, <4>2, SaveResumes
        <3>5. CASE Older
            <4>1. CASE NewerSnapshot
                <5> DEFINE fields == [f \in {"chunks", "future"} |-> <<>>]
                           file == [root |-> "object", fields |-> fields]
                <5>1. pc' = "idle" /\ disk' = file /\ input' = input
                    BY <4>1 DEF NewerSnapshot
                <5>2. DOMAIN file.fields = {"chunks", "future"}
                    OBVIOUS
                <5> HIDE DEF file
                <5>3. ~SnapshotLoads(file)
                    BY <5>2, SchemaIs DEF SnapshotLoads
                <5>4. ~HasSnapshot'
                    BY <5>1, <5>3 DEF HasSnapshot
                <5> QED BY <5>1, <5>4, SaveResumes
            <4>2. ASSUME NEW omitPorts, NEW progress, LegacyBuckets(omitPorts, progress)
                  PROVE  ResumeInv'
                <5>1. pc' = "idle" /\ input' = input /\ Loads(input.file, Hash)
                    BY <4>2, Zenon DEF LegacyBuckets
                <5>2. PlainFile(input) => Inside(Rows)
                    BY <5>1, LoadedInside DEF PlainFile, Rows
                <5> QED BY <5>1, <5>2, SaveResumes
            <4> QED BY <3>5, <4>1, <4>2, Zenon DEF Older
        <3>6. CASE Scan
            <4>1. CASE Crash
                <5>1. UNCHANGED <<input, disk>> /\ pc' = "idle"
                    BY <4>1 DEF Crash, EndScan
                <5> QED BY <5>1, RestResumes
            <4>2. ASSUME NEW portFile, NEW command, Execute(portFile, command)
                  PROVE  ResumeInv'
                BY <4>2, ExecuteResumes
            <4>3. ASSUME pc = "running", NEW next \in Cursors, StopScan(next)
                  PROVE  ResumeInv'
                <5>1. input' = input /\ pc' \in {"done", "idle"}
                    BY <4>3, Zenon DEF StopScan, EndScan
                <5>2. PlainFile(input) => Inside(Rows)
                    BY <4>3 DEF PlanInv, RunRight, ResumeInv
                <5> QED BY <5>1, <5>2, SaveResumes
            <4> QED BY <3>6, <4>1, <4>2, <4>3, Zenon DEF Scan
        <3> QED BY <2>3, <3>1, <3>2, <3>3, <3>4, <3>5, <3>6 DEF Next, Generate
    <2>4. CASE UNCHANGED <<vars, prepVars>>
        BY <2>0, <2>4
    <2> QED BY <2>1, <2>2, <2>3, <2>4 DEF PrepNext
<1> QED BY <1>1, <1>2, KeepsPlan, PTL DEF PrepSpec

-----------------------------------------------------------------------------
(* What the tools before the scan compute *)

\* FlattenSeq of sequences over a set is a sequence over that set.
LEMMA FlattenTyped ==
    ASSUME NEW D, NEW seqs \in Seq(Seq(D))
    PROVE  FlattenSeq(seqs) \in Seq(D)
<1>1. CASE Len(seqs) = 0
    <2>1. FlattenSeq(seqs) = seqs
        BY <1>1, Zenon DEF FlattenSeq
    <2>2. seqs = <<>>
        BY <1>1
    <2> QED BY <2>1, <2>2
<1>2. CASE Len(seqs) # 0
    <2>1. PICK f : /\ f[1] = seqs[1] /\ \A i \in 2..Len(seqs) : f[i] = f[i - 1] \o seqs[i]
                   /\ FlattenSeq(seqs) = f[Len(seqs)]
        BY <1>2, FlattenLoop
    <2> DEFINE last == Len(seqs)
               T == {i \in 1..last : f[i] \notin Seq(D)}
    <2>2. last \in Nat /\ last > 0 /\ \A i \in 1..last : seqs[i] \in Seq(D)
        BY <1>2
    <2> HIDE DEF last
    <2>3. T = {}
        <3> SUFFICES ASSUME T # {} PROVE FALSE
            OBVIOUS
        <3>1. T \subseteq Nat
            BY <2>2
        <3>2. PICK m \in T : \A y \in T : m <= y
            BY <3>1, LeastIndex
        <3>3. m \in 1..last /\ f[m] \notin Seq(D)
            OBVIOUS
        <3>4. m # 1
            BY <2>1, <2>2, <3>3
        <3>5. m \in 2..last /\ m - 1 \in 1..last /\ ~(m <= m - 1)
            BY <2>2, <3>3, <3>4
        <3>6. f[m - 1] \in Seq(D)
            BY <3>2, <3>5
        <3>7. f[m] = f[m - 1] \o seqs[m]
            BY <2>1, <3>5 DEF last
        <3> QED BY <2>2, <3>3, <3>6, <3>7
    <2>4. last \in 1..last
        BY <2>2
    <2> QED BY <2>1, <2>3, <2>4 DEF last
<1> QED BY <1>1, <1>2

\* The segments of a list that parse.
LEMMA ParsedHas ==
    ASSUME NEW segs \in Seq(CIDRType)
    PROVE  /\ Parsed(segs) \in Seq(CIDRType)
           /\ \A s : s \in ToSet(Parsed(segs)) <=> s \in ToSet(segs) /\ s # Malformed
<1> DEFINE I == {i \in DOMAIN segs : segs[i] # Malformed}
<1>1. Parsed(segs) = Selected(segs, I)
    BY DEF Parsed
<1>2. I \in SUBSET DOMAIN segs
    OBVIOUS
<1>3. \A s : s \in ToSet(segs) /\ s # Malformed <=> \E i \in I : segs[i] = s
    BY DEF ToSet
<1> HIDE DEF I
<1>4. Selected(segs, I) \in Seq(CIDRType) /\ \A s : s \in ToSet(Selected(segs, I)) <=> \E i \in I : segs[i] = s
    BY <1>2, SelectedHas
<1> QED BY <1>1, <1>3, <1>4

\* The segments of a tree that contain another.
LEMMA QueryHas ==
    ASSUME NEW tree \in Seq(CIDRType), NEW s
    PROVE  /\ Query(tree, s) \in Seq(CIDRType)
           /\ \A d : d \in ToSet(Query(tree, s)) <=> d \in ToSet(tree) /\ CIDRContains(d, s)
           /\ Query(tree, s) = <<>> <=> \A d \in ToSet(tree) : ~CIDRContains(d, s)
<1> DEFINE I == {i \in DOMAIN tree : CIDRContains(tree[i], s)}
           q == Query(tree, s)
<1>1. q = Selected(tree, I)
    BY DEF Query
<1>2. I \in SUBSET DOMAIN tree
    OBVIOUS
<1>3. \A d : d \in ToSet(tree) /\ CIDRContains(d, s) <=> \E i \in I : tree[i] = d
    BY DEF ToSet
<1> HIDE DEF I, q
<1>4. Selected(tree, I) \in Seq(CIDRType) /\ \A d : d \in ToSet(Selected(tree, I)) <=> \E i \in I : tree[i] = d
    BY <1>2, SelectedHas
<1>5. q \in Seq(CIDRType) /\ \A d : d \in ToSet(q) <=> d \in ToSet(tree) /\ CIDRContains(d, s)
    BY <1>1, <1>3, <1>4
<1>6. q = <<>> <=> \A d : d \notin ToSet(q)
    <2>1. q # <<>> => q[1] \in ToSet(q)
        BY <1>5 DEF ToSet
    <2>2. q = <<>> => ToSet(q) = {}
        BY DEF ToSet
    <2> QED BY <2>1, <2>2
<1> QED BY <1>5, <1>6 DEF q

\* enrich-targets gives an address the smallest segment of the list that has it, or
\* itself when there is none.
LEMMA SmallestCIDR ==
    ASSUME NEW tree \in Seq(CIDRType), NEW host \in CIDRType
    PROVE  LET c == FindSmallestCIDR(tree, host) IN
           /\ c \in CIDRType
           /\ \/ c = host /\ \A d \in ToSet(tree) : ~CIDRContains(d, host)
              \/ /\ c \in ToSet(tree) /\ CIDRContains(c, host)
                 /\ \A d \in ToSet(tree) : CIDRContains(d, host) => c.size <= d.size
<1> DEFINE c == FindSmallestCIDR(tree, host)
           q == Query(tree, host)
           Least(i) == \A j \in DOMAIN q : q[i].size <= q[j].size
           I == {i \in DOMAIN q : Least(i)}
<1>1. c = IF q = <<>> THEN host ELSE Head(Selected(q, I))
    BY Zenon DEF FindSmallestCIDR
<1>2. /\ q \in Seq(CIDRType)
      /\ \A d : d \in ToSet(q) <=> d \in ToSet(tree) /\ CIDRContains(d, host)
      /\ q = <<>> <=> \A d \in ToSet(tree) : ~CIDRContains(d, host)
    BY QueryHas
<1>3. I \in SUBSET DOMAIN q
    OBVIOUS
<1> HIDE DEF q, c
<1>4. CASE q = <<>>
    BY <1>1, <1>2, <1>4 DEF c
<1>5. CASE q # <<>>
    <2> DEFINE S == {q[i].size : i \in DOMAIN q}
    <2>1. S \subseteq Nat /\ S # {}
        <3>1. \A i \in DOMAIN q : q[i] \in CIDRType
            BY <1>2
        <3>2. 1 \in DOMAIN q
            BY <1>2, <1>5
        <3> QED BY <3>1, <3>2 DEF CIDRType
    <2>2. PICK n \in S : \A m \in S : n <= m
        BY <2>1, LeastIndex
    <2>3. PICK i \in DOMAIN q : n = q[i].size
        OBVIOUS
    <2>4. i \in I
        BY <2>2, <2>3
    <2> HIDE DEF I, S
    <2> DEFINE part == Selected(q, I)
    <2>5. part \in Seq(CIDRType) /\ \A d : d \in ToSet(part) <=> \E k \in I : q[k] = d
        BY <1>2, <1>3, SelectedHas
    <2> HIDE DEF part
    <2>6. part # <<>>
        <3>1. q[i] \in ToSet(part)
            BY <2>4, <2>5
        <3> QED BY <3>1 DEF ToSet
    <2>7. Head(part) \in ToSet(part) /\ Head(part) \in CIDRType
        BY <2>5, <2>6 DEF ToSet
    <2>8. c = Head(part)
        BY <1>1, <1>5 DEF part
    <2>9. PICK k \in I : q[k] = c
        BY <2>5, <2>7, <2>8
    <2>10. k \in DOMAIN q /\ \A j \in DOMAIN q : q[k].size <= q[j].size
        BY <1>3, <2>9 DEF I
    <2>11. c \in ToSet(q)
        BY <2>9, <2>10 DEF ToSet
    <2>12. ASSUME NEW d \in ToSet(tree), CIDRContains(d, host) PROVE c.size <= d.size
        <3>1. PICK j \in DOMAIN q : q[j] = d
            BY <1>2, <2>12 DEF ToSet
        <3> QED BY <2>9, <2>10, <3>1
    <2> QED BY <1>2, <2>7, <2>8, <2>11, <2>12 DEF c
<1> QED BY <1>4, <1>5

\* A sequence is one over every set that has its elements.
LEMMA SeqOfSet ==
    ASSUME NEW D, NEW s \in Seq(D), NEW E, \A x \in ToSet(s) : x \in E
    PROVE  s \in Seq(E)
<1>1. \A i \in 1..Len(s) : s[i] \in E
    BY DEF ToSet
<1> QED BY <1>1

-----------------------------------------------------------------------------
(* The tools before the scan *)

\* What the tools write when they are given such a source.
PreparedLines(src) ==
    {l \in RichLineType : /\ l.reason = "MATCH_POLICY_ACCEPT" /\ l.decision = "accept"
                          /\ src.kind = "targets" => l.seg = FindSmallestCIDR(LoadCIDRList(src.list), l.sel)}

\* What preprocess leaves of it.
KeptLines(src) == {l \in PreparedLines(src) : Keep(l.seg, LoadCleanedCIDRs(src.cleaned, src.fab))}

\* By tool, what it may write.
LinesOf(src, t) == IF t = "preprocess" THEN KeptLines(src) ELSE PreparedLines(src)

\* The tools that write lines of a CIDR file.
Writers == {"enrich-targets", "csv-transform", "preprocess"}

\* What is in the files and on its way there is of the right form.
FilesTyped ==
    \A t \in Writers : /\ out[t] \in Seq(LinesOf(source, t))
                       /\ tool = t => buffered \in Seq(LinesOf(source, t)) /\ pending \in Seq(LinesOf(source, t))

\* A tool at work has not returned 0 before, and its input is good.
AtWork ==
    /\ DOMAIN out = Tools /\ DOMAIN exit = Tools /\ tool \in Tools \cup {""}
    /\ \A t \in Tools : tool = t \/ exit[t] = "ok" => ~Refuses(t)
    /\ \A t \in Tools : tool = t => exit[t] # "ok" /\ cut = Breaks(t)
    /\ \A t \in Tools : exit[t] = "ok" => ~Breaks(t)

\* What one of these tools has written, holds and has still to write is its output, and
\* when it has returned 0 all of it is written.
NothingLost ==
    /\ exit["csv-transform"] # "ok" /\ tool # "csv-transform"
    /\ tool = "preprocess" \/ exit["preprocess"] = "ok" => exit["enrich-targets"] = "ok"
    /\ \A t \in {"enrich-targets", "preprocess"} :
        /\ tool = t => Output(t) = out[t] \o buffered \o pending
        /\ exit[t] = "ok" => Output(t) = out[t]

\* The CIDR file of the scan.
FileUsed ==
    IF pc = "prepare" THEN input = source.input
    ELSE /\ exit["preprocess"] = "ok"
         /\ input = [source.input EXCEPT !.file = [rich |-> TRUE, lines |-> out["preprocess"]]]

\* The inductive invariant of the tools.
ToolInv ==
    IF source = Nil THEN pc # "prepare" /\ input \in Inputs
    ELSE /\ source \in Sources /\ AtWork /\ FilesTyped /\ FileUsed
         /\ source.kind = "targets" => NothingLost

\* A source is typed.
LEMMA SourceTyped ==
    ASSUME source \in Sources
    PROVE  /\ \/ source.kind = "targets" /\ source.opened.lines \in Seq(TargetLineType \cup {Nil})
              \/ source.kind = "table" /\ source.opened.lines \in Seq(TableLineType \cup {Nil})
           /\ source.list.lines \in Seq(CIDRType \cup {Nil})
           /\ source.cleaned.lines \in Seq(CleanedLineType \cup {Nil})
           /\ \A n \in DOMAIN source.dns : source.dns[n] \in AddressType
BY SourcesAssumption DEF CSVType

\* A file that is read as a whole has records only.
LEMMA ReadWhole ==
    ASSUME NEW D, NEW file, file.lines \in Seq(D \cup {Nil}), ReadAll(file)
    PROVE  file.lines \in Seq(D)
<1>1. \A x \in ToSet(file.lines) : x \in D
    BY DEF ReadAll, ToSet
<1> QED BY <1>1, SeqOfSet

\* enrich-targets reads records, and all of them when the file does not break.
LEMMA ReadRowsHas ==
    ASSUME NEW D, NEW lines \in Seq(D \cup {Nil})
    PROVE  /\ ReadRows(lines) \in Seq(D)
           /\ Nil \notin ToSet(lines) => \A x : x \in ToSet(ReadRows(lines)) <=> x \in ToSet(lines)
<1> DEFINE I == {i \in DOMAIN lines : \A j \in 1..i : lines[j] # Nil}
           part == Selected(lines, I)
<1>1. ReadRows(lines) = part
    BY DEF ReadRows
<1>2. I \in SUBSET DOMAIN lines
    OBVIOUS
<1>3. \A i \in I : lines[i] \in D
    <2> TAKE i \in I
    <2>1. i \in 1..Len(lines) /\ i \in 1..i
        OBVIOUS
    <2> QED BY <2>1
<1>4. Nil \notin ToSet(lines) => I = DOMAIN lines
    <2> SUFFICES ASSUME Nil \notin ToSet(lines), NEW i \in DOMAIN lines, NEW j \in 1..i PROVE lines[j] # Nil
        BY Zenon
    <2>1. j \in DOMAIN lines
        OBVIOUS
    <2> QED BY <2>1 DEF ToSet
<1> HIDE DEF I
<1>5. part \in Seq(D \cup {Nil}) /\ \A x : x \in ToSet(part) <=> \E i \in I : lines[i] = x
    BY <1>2, SelectedHas
<1> HIDE DEF part
<1>6. \A x \in ToSet(part) : x \in D
    BY <1>3, <1>5
<1>7. part \in Seq(D)
    BY <1>5, <1>6, SeqOfSet
<1>8. \A x : x \in ToSet(lines) <=> \E i \in DOMAIN lines : lines[i] = x
    BY DEF ToSet
<1> QED BY <1>1, <1>4, <1>5, <1>7, <1>8

\* The list of segments that enrich-targets goes by.
LEMMA ListTyped ==
    ASSUME source \in Sources, ReadAll(source.list)
    PROVE  /\ source.list.lines \in Seq(CIDRType) /\ LoadCIDRList(source.list) \in Seq(CIDRType)
           /\ \A s : s \in ToSet(LoadCIDRList(source.list)) <=> s \in ToSet(source.list.lines) /\ s # Malformed
<1>1. source.list.lines \in Seq(CIDRType)
    BY SourceTyped, ReadWhole
<1> QED BY <1>1, ParsedHas DEF LoadCIDRList

\* The rows of enrich-targets, in their order.
EnrichRows ==
    LET read == ReadRows(source.opened.lines)
    IN  Selected(read, {i \in DOMAIN read : Enrichable(read[i])})

\* The targets that enrich-targets takes.
LEMMA EnrichRowsHas ==
    ASSUME source \in Sources, source.kind = "targets"
    PROVE  /\ EnrichRows \in Seq(TargetLineType)
           /\ \A l \in ToSet(EnrichRows) : Enrichable(l)
           /\ Nil \notin ToSet(source.opened.lines) =>
                \A l \in ToSet(source.opened.lines) : Enrichable(l) => l \in ToSet(EnrichRows)
<1> DEFINE lines == source.opened.lines
           read == ReadRows(lines)
           I == {i \in DOMAIN read : Enrichable(read[i])}
           rows == Selected(read, I)
<1>1. lines \in Seq(TargetLineType \cup {Nil})
    BY SourceTyped
<1>2. EnrichRows = rows
    BY DEF EnrichRows
<1> HIDE DEF lines
<1>3. read \in Seq(TargetLineType) /\ (Nil \notin ToSet(lines) => \A x : x \in ToSet(read) <=> x \in ToSet(lines))
    BY <1>1, ReadRowsHas
<1>4. I \in SUBSET DOMAIN read
    OBVIOUS
<1> HIDE DEF read
<1>5. \A x : (\E i \in I : read[i] = x) <=> x \in ToSet(read) /\ Enrichable(x)
    BY DEF ToSet
<1> HIDE DEF I
<1>6. rows \in Seq(TargetLineType) /\ \A x : x \in ToSet(rows) <=> \E i \in I : read[i] = x
    BY <1>3, <1>4, SelectedHas
<1> HIDE DEF rows
<1> QED BY <1>2, <1>3, <1>5, <1>6 DEF lines

\* A line that a tool writes has the form of a rich line.
LEMMA RichOutputTyped ==
    ASSUME NEW whole \in BOOLEAN, NEW src \in AddressType, NEW srcSeg \in CIDRType, NEW sel \in AddressType,
           NEW seg \in CIDRType, NEW port \in Int, NEW e, e = RichOutput(src, srcSeg, sel, seg, port, whole)
    PROVE  /\ e \in RichLineType /\ e.reason = "MATCH_POLICY_ACCEPT" /\ e.decision = "accept"
           /\ e.sel = sel /\ e.seg = seg /\ e.port = port /\ e.complete = whole /\ e.src = src
           /\ e.srcSeg = srcSeg /\ e.protocol = "tcp"
<1>1. e = [complete |-> whole, src |-> src, srcSeg |-> srcSeg, sel |-> sel, seg |-> seg,
           protocol |-> "tcp", decision |-> "accept", port |-> port, reason |-> "MATCH_POLICY_ACCEPT"]
    BY DEF RichOutput
<1>2. /\ "tcp" \in {"tcp", "udp"} /\ "accept" \in {"accept", "deny", "maybe"}
      /\ "MATCH_POLICY_ACCEPT" \in {"PRECHECK_ALLOW_ALL", "MATCH_POLICY_ACCEPT", ""}
    OBVIOUS
<1>3. e \in RichLineType
    BY <1>1, <1>2, SMT DEF RichLineType
<1>4. /\ e.reason = "MATCH_POLICY_ACCEPT" /\ e.decision = "accept"
      /\ e.sel = sel /\ e.seg = seg /\ e.port = port /\ e.complete = whole /\ e.src = src
      /\ e.srcSeg = srcSeg /\ e.protocol = "tcp"
    BY <1>1, SMT
<1> QED BY <1>3, <1>4

\* A target with its segment is a line of the CIDR file.
LEMMA EnrichTyped ==
    ASSUME source \in Sources, source.kind = "targets", ReadAll(source.list), NEW l \in TargetLineType
    PROVE  Enrich(l, LoadCIDRList(source.list), source.services) \in PreparedLines(source)
<1> DEFINE tree == LoadCIDRList(source.list)
           seg == FindSmallestCIDR(tree, l.host)
           own == [lo |-> 9, size |-> 1]
           whole == ServiceLabel(source.services, l.port) # ""
           e == Enrich(l, tree, source.services)
<1>1. tree \in Seq(CIDRType)
    BY ListTyped
<1>2. l.host \in AddressType /\ l.host \in CIDRType /\ l.port \in Int
    BY DEF TargetLineType, AddressType, CIDRType
<1>3. seg \in CIDRType
    BY <1>1, <1>2, SmallestCIDR, Zenon
<1>4. e = RichOutput(own, own, l.host, seg, l.port, whole)
    BY Zenon DEF Enrich
<1>5. own \in AddressType /\ own \in CIDRType
    BY DEF AddressType, CIDRType
<1>6. whole \in BOOLEAN
    OBVIOUS
<1> HIDE DEF tree, seg, own, whole, e
<1>7. e \in RichLineType /\ e.reason = "MATCH_POLICY_ACCEPT" /\ e.decision = "accept" /\ e.sel = l.host /\ e.seg = seg
    BY <1>2, <1>3, <1>4, <1>5, <1>6, RichOutputTyped
<1>8. e.seg = FindSmallestCIDR(tree, e.sel)
    BY <1>7 DEF seg
<1> QED BY <1>7, <1>8, Zenon DEF PreparedLines, e, tree

\* So is what csv-transform makes of a row.
LEMMA TransformTyped ==
    ASSUME source \in Sources, source.kind = "table", NEW l \in TableLineType
    PROVE  TransformRow(l, source.dns) \in Seq(PreparedLines(source))
<1> DEFINE ports == SplitPorts(l.ports)
           host == ResolveHost(l.host, source.dns)
           own == [lo |-> TransformSegment.lo, size |-> 1]
           I == {i \in DOMAIN l.ports : l.ports[i] # 0}
<1>1. l.ports \in Seq(Int) /\ l.host \in AddressType \cup {Nil}
    BY DEF TableLineType
<1>2. I \in SUBSET DOMAIN l.ports
    OBVIOUS
<1>3. ports \in Seq(Int)
    <2>1. ports = IF Malformed.lo \in ToSet(l.ports) THEN <<>> ELSE Selected(l.ports, I)
        BY Zenon DEF SplitPorts
    <2> HIDE DEF I, ports
    <2>2. Selected(l.ports, I) \in Seq(Int)
        BY <1>1, <1>2, SelectedHas
    <2>3. CASE Malformed.lo \in ToSet(l.ports)
        <3>1. ports = <<>>
            BY <2>1, <2>3, Zenon
        <3> QED BY <3>1
    <2>4. CASE Malformed.lo \notin ToSet(l.ports)
        <3>1. ports = Selected(l.ports, I)
            BY <2>1, <2>4, Zenon
        <3> QED BY <2>2, <3>1
    <2> QED BY <2>3, <2>4
<1>4. CASE ~ShouldIncludeRow(l) \/ l.host = Nil
    <2>1. TransformRow(l, source.dns) = <<>>
        BY <1>4, Zenon DEF TransformRow
    <2> QED BY <2>1
<1>5. CASE ShouldIncludeRow(l) /\ l.host # Nil
    <2> DEFINE Line(i) == RichOutput(own, TransformSegment, host, TransformSegment, ports[i], TRUE)
    <2>1. TransformRow(l, source.dns) = [i \in DOMAIN ports |-> Line(i)]
        BY <1>5, Zenon DEF TransformRow
    <2>2. host \in AddressType
        BY <1>1, <1>5, SourceTyped DEF ResolveHost
    <2>3. TransformSegment \in CIDRType
        BY SourcesAssumption
    <2>4. own \in AddressType
        BY <2>3 DEF AddressType, CIDRType
    <2> HIDE DEF ports, host, own
    <2>5. ASSUME NEW i \in DOMAIN ports PROVE Line(i) \in PreparedLines(source)
        <3> DEFINE p == ports[i]
                   e == Line(i)
                   whole == TRUE
        <3>1. e = RichOutput(own, TransformSegment, host, TransformSegment, p, whole)
            OBVIOUS
        <3>2. p \in Int /\ whole \in BOOLEAN
            BY <1>3
        <3> HIDE DEF e, p, whole
        <3>3. e \in RichLineType /\ e.reason = "MATCH_POLICY_ACCEPT" /\ e.decision = "accept"
            BY <2>2, <2>3, <2>4, <3>1, <3>2, RichOutputTyped
        <3>4. source.kind # "targets"
            OBVIOUS
        <3> QED BY <3>3, <3>4, Zenon DEF PreparedLines, e
    <2> HIDE DEF Line
    <2>6. [i \in DOMAIN ports |-> Line(i)] \in Seq(PreparedLines(source))
        <3>1. DOMAIN ports = 1..Len(ports) /\ Len(ports) \in Nat
            BY <1>3
        <3> DEFINE P == PreparedLines(source)
                   n == Len(ports)
        <3>2. \A i \in 1..n : Line(i) \in P
            BY <2>5, <3>1
        <3> HIDE DEF P, n
        <3>3. [i \in 1..n |-> Line(i)] \in [1..n -> P]
            BY <3>2
        <3>4. [i \in 1..n |-> Line(i)] \in Seq(P)
            BY <3>1, <3>3 DEF n
        <3> QED BY <3>1, <3>4 DEF P, n
    <2> QED BY <2>1, <2>6
<1> QED BY <1>4, <1>5

\* The closed segments that preprocess goes by.
LEMMA CleanedHas ==
    ASSUME source \in Sources, ReadAll(source.cleaned)
    PROVE  LET closed == LoadCleanedCIDRs(source.cleaned, source.fab) IN
           /\ closed \in Seq(CIDRType)
           /\ \A s : s \in ToSet(closed) <=>
                \E r \in ToSet(source.cleaned.lines) :
                    r.fab = source.fab.name /\ r.status = "close" /\ r.seg # Malformed /\ s = r.seg
<1> DEFINE lines == source.cleaned.lines
           Closes(l) == l.fab = source.fab.name /\ l.status = "close"
           I == {i \in DOMAIN lines : Closes(lines[i])}
           rows == Selected(lines, I)
           segs == [i \in DOMAIN rows |-> rows[i].seg]
           closed == LoadCleanedCIDRs(source.cleaned, source.fab)
<1>1. closed = Parsed(segs)
    BY Zenon DEF LoadCleanedCIDRs
<1>2. lines \in Seq(CleanedLineType)
    BY SourceTyped, ReadWhole
<1>3. I \in SUBSET DOMAIN lines
    OBVIOUS
<1>4. \A r : (\E i \in I : lines[i] = r) <=> r \in ToSet(lines) /\ Closes(r)
    BY DEF ToSet
<1> HIDE DEF I, Closes, lines
<1>5. rows \in Seq(CleanedLineType) /\ \A r : r \in ToSet(rows) <=> \E i \in I : lines[i] = r
    BY <1>2, <1>3, SelectedHas
<1> HIDE DEF rows
<1>6. DOMAIN rows = 1..Len(rows) /\ Len(rows) \in Nat /\ \A i \in DOMAIN rows : rows[i].seg \in CIDRType
    <2>1. DOMAIN rows = 1..Len(rows) /\ Len(rows) \in Nat /\ \A i \in DOMAIN rows : rows[i] \in CleanedLineType
        BY <1>5
    <2>2. \A r \in CleanedLineType : r.seg \in CIDRType
        BY DEF CleanedLineType
    <2> QED BY <2>1, <2>2
<1>7. segs \in Seq(CIDRType) /\ DOMAIN segs = DOMAIN rows
    BY <1>6
<1>8. \A s : s \in ToSet(segs) <=> \E r \in ToSet(rows) : s = r.seg
    <2>1. \A s : s \in ToSet(segs) <=> \E i \in DOMAIN rows : s = rows[i].seg
        BY <1>7 DEF ToSet
    <2> QED BY <2>1 DEF ToSet
<1> HIDE DEF segs
<1>9. Parsed(segs) \in Seq(CIDRType) /\ \A s : s \in ToSet(Parsed(segs)) <=> s \in ToSet(segs) /\ s # Malformed
    BY <1>7, ParsedHas
<1> HIDE DEF closed
<1>10. closed \in Seq(CIDRType)
    BY <1>1, <1>9
<1>11. \A s : s \in ToSet(closed) <=> \E r \in ToSet(lines) : Closes(r) /\ r.seg # Malformed /\ s = r.seg
    BY <1>1, <1>4, <1>5, <1>8, <1>9
<1> QED BY <1>10, <1>11 DEF closed, Closes, lines

\* The lines whose segment is in no closed one.
KeptOf(lines, closed) == Selected(lines, {i \in DOMAIN lines : Keep(lines[i].seg, closed)})

\* preprocess keeps these and no others.
LEMMA PreprocessHas ==
    ASSUME NEW D, NEW lines \in Seq(D), NEW closed
    PROVE  /\ KeptOf(lines, closed) \in Seq(D)
           /\ \A l : l \in ToSet(KeptOf(lines, closed)) <=> l \in ToSet(lines) /\ Keep(l.seg, closed)
<1> DEFINE I == {i \in DOMAIN lines : Keep(lines[i].seg, closed)}
           part == KeptOf(lines, closed)
<1>1. I \in SUBSET DOMAIN lines /\ part = Selected(lines, I)
    BY DEF KeptOf
<1>2. \A l : (\E i \in I : lines[i] = l) <=> l \in ToSet(lines) /\ Keep(l.seg, closed)
    BY DEF ToSet
<1> HIDE DEF I
<1>3. Selected(lines, I) \in Seq(D) /\ \A l : l \in ToSet(Selected(lines, I)) <=> \E i \in I : lines[i] = l
    BY <1>1, SelectedHas
<1> HIDE DEF part
<1>4. part \in Seq(D) /\ \A l : l \in ToSet(part) <=> l \in ToSet(lines) /\ Keep(l.seg, closed)
    BY <1>1, <1>2, <1>3
<1> QED BY <1>4 DEF part

\* The output of the tools, one by one.
LEMMA OutputIs ==
    /\ Output("enrich-targets") = [i \in DOMAIN EnrichRows |->
                                     Enrich(EnrichRows[i], LoadCIDRList(source.list), source.services)]
    /\ Output("csv-transform") = FlattenSeq([i \in DOMAIN source.opened.lines |->
                                                TransformRow(source.opened.lines[i], source.dns)])
    /\ Output("preprocess") = KeptOf(Prepared, LoadCleanedCIDRs(source.cleaned, source.fab))
<1>1. Output("enrich-targets") = [i \in DOMAIN EnrichRows |->
                                    Enrich(EnrichRows[i], LoadCIDRList(source.list), source.services)]
    BY Zenon DEF Output, EnrichRows
<1>2. Output("csv-transform") = FlattenSeq([i \in DOMAIN source.opened.lines |->
                                                TransformRow(source.opened.lines[i], source.dns)])
    BY Zenon DEF Output
<1>3. Output("preprocess") = KeptOf(Prepared, LoadCleanedCIDRs(source.cleaned, source.fab))
    BY Zenon DEF Output, KeptOf
<1> QED BY <1>1, <1>2, <1>3

\* What makes a tool refuse.
LEMMA RefusesIs ==
    /\ Refuses("enrich-targets") <=> ~ReadAll(source.list) \/ ~ReadAll(source.services) \/ ~source.opened.columns
    /\ Refuses("csv-transform") <=> source.opened.lines # <<>> /\ ~ReadAll(source.opened)
    /\ Refuses("preprocess") <=> ~ValidateFabName(source.fab) \/ ~ReadAll(source.cleaned)
<1>1. Refuses("enrich-targets") <=> ~ReadAll(source.list) \/ ~ReadAll(source.services) \/ ~source.opened.columns
    BY Zenon DEF Refuses
<1>2. Refuses("csv-transform") <=> source.opened.lines # <<>> /\ ~ReadAll(source.opened)
    BY Zenon DEF Refuses
<1>3. Refuses("preprocess") <=> ~ValidateFabName(source.fab) \/ ~ReadAll(source.cleaned)
    BY Zenon DEF Refuses
<1> QED BY <1>1, <1>2, <1>3

\* Each tool writes lines of its form, given the input that it does not refuse.
LEMMA OutputTyped ==
    ASSUME source \in Sources, NEW t \in Writers, ~Refuses(t),
           t = "enrich-targets" => source.kind = "targets", t = "csv-transform" => source.kind = "table",
           t = "preprocess" => Prepared \in Seq(PreparedLines(source))
    PROVE  Output(t) \in Seq(LinesOf(source, t))
<1> DEFINE P == PreparedLines(source)
<1>1. CASE t = "enrich-targets"
    <2> DEFINE rows == EnrichRows
               E(i) == Enrich(rows[i], LoadCIDRList(source.list), source.services)
               n == Len(rows)
    <2>1. rows \in Seq(TargetLineType)
        BY <1>1, EnrichRowsHas
    <2>2. ReadAll(source.list)
        BY <1>1, RefusesIs
    <2>3. ASSUME NEW i \in DOMAIN rows PROVE E(i) \in P
        <3>1. rows[i] \in TargetLineType
            BY <2>1
        <3> QED BY <1>1, <2>2, <3>1, EnrichTyped
    <2>4. Output(t) = [i \in DOMAIN rows |-> E(i)]
        BY <1>1, OutputIs, Zenon
    <2>5. DOMAIN rows = 1..n /\ n \in Nat
        BY <2>1
    <2> HIDE DEF rows, E, n, P
    <2>6. [i \in 1..n |-> E(i)] \in [1..n -> P]
        BY <2>3, <2>5
    <2>7. Output(t) \in Seq(P)
        BY <2>4, <2>5, <2>6
    <2>8. LinesOf(source, t) = P
        BY <1>1, Zenon DEF LinesOf, P
    <2> QED BY <2>7, <2>8
<1>2. CASE t = "csv-transform"
    <2> DEFINE lines == source.opened.lines
               E(i) == TransformRow(lines[i], source.dns)
               n == Len(lines)
               V == Seq(P)
    <2>1. (lines = <<>> \/ ReadAll(source.opened)) /\ source.kind = "table"
        BY <1>2, RefusesIs
    <2>2. lines \in Seq(TableLineType)
        <3>1. CASE lines = <<>>
            BY <3>1
        <3>2. CASE ReadAll(source.opened)
            BY <2>1, <3>2, SourceTyped, ReadWhole
        <3> QED BY <2>1, <3>1, <3>2
    <2>3. ASSUME NEW i \in DOMAIN lines PROVE E(i) \in V
        <3>1. lines[i] \in TableLineType
            BY <2>2
        <3> QED BY <2>1, <3>1, TransformTyped
    <2>4. Output(t) = FlattenSeq([i \in DOMAIN lines |-> E(i)])
        BY <1>2, OutputIs, Zenon
    <2>5. DOMAIN lines = 1..n /\ n \in Nat
        BY <2>2
    <2> HIDE DEF lines, E, n, P
    <2> DEFINE seqs == [i \in 1..n |-> E(i)]
    <2>6. seqs \in Seq(Seq(P))
        <3> HIDE DEF V
        <3>1. seqs \in [1..n -> V]
            BY <2>3, <2>5
        <3>2. seqs \in Seq(V)
            BY <2>5, <3>1
        <3> QED BY <3>2 DEF V
    <2>7. Output(t) = FlattenSeq(seqs)
        BY <2>4, <2>5
    <2> HIDE DEF seqs
    <2>8. FlattenSeq(seqs) \in Seq(P)
        BY <2>6, FlattenTyped
    <2>9. LinesOf(source, t) = P
        BY <1>2, Zenon DEF LinesOf, P
    <2> QED BY <2>7, <2>8, <2>9
<1>3. CASE t = "preprocess"
    <2> DEFINE closed == LoadCleanedCIDRs(source.cleaned, source.fab)
               lines == Prepared
               part == KeptOf(lines, closed)
    <2>1. Output(t) = part
        BY <1>3, OutputIs, Zenon
    <2>2. lines \in Seq(P)
        BY <1>3
    <2> HIDE DEF lines, P
    <2>3. part \in Seq(P) /\ \A l : l \in ToSet(part) <=> l \in ToSet(lines) /\ Keep(l.seg, closed)
        BY <2>2, PreprocessHas
    <2> HIDE DEF part, closed
    <2> DEFINE Q == {l \in P : Keep(l.seg, closed)}
    <2>4. \A l \in ToSet(part) : l \in Q
        <3>1. \A l \in ToSet(part) : l \in P
            BY <2>3 DEF ToSet
        <3> QED BY <2>3, <3>1
    <2>5. LinesOf(source, t) = Q
        BY <1>3, Zenon DEF LinesOf, KeptLines, P, closed
    <2> HIDE DEF Q
    <2>6. part \in Seq(Q)
        BY <2>3, <2>4, SeqOfSet
    <2> QED BY <2>1, <2>5, <2>6
<1> QED BY <1>1, <1>2, <1>3 DEF Writers

\* What enrich-targets writes, as a function of the source.
EnrichOf(src) ==
    LET read == ReadRows(src.opened.lines)
        rows == Selected(read, {i \in DOMAIN read : Enrichable(read[i])})
        tree == LoadCIDRList(src.list)
    IN  [i \in DOMAIN rows |-> Enrich(rows[i], tree, src.services)]

\* What preprocess writes, as a function of its input.
PreprocessOf(lines, src) == KeptOf(lines, LoadCleanedCIDRs(src.cleaned, src.fab))

\* While the source stays, so does what the tools make of it.
LEMMA SourceStays ==
    ASSUME source' = source
    PROVE  /\ \A t : (Refuses(t)' <=> Refuses(t)) /\ (Breaks(t)' <=> Breaks(t)) /\ LinesOf(source, t)' = LinesOf(source, t)
           /\ Output("enrich-targets")' = Output("enrich-targets")
           /\ source.kind = "targets" /\ out'["enrich-targets"] = out["enrich-targets"] =>
                Output("preprocess")' = Output("preprocess")
<1>1. ASSUME NEW t PROVE Refuses(t)' <=> Refuses(t)
    BY Zenon DEF Refuses
<1>2. ASSUME NEW t PROVE Breaks(t)' <=> Breaks(t)
    BY DEF Breaks
<1>3. ASSUME NEW t PROVE LinesOf(source, t)' = LinesOf(source, t)
    OBVIOUS
<1>4. Output("enrich-targets")' = Output("enrich-targets")
    <2>1. Output("enrich-targets") = EnrichOf(source)
        BY Zenon DEF Output, EnrichOf
    <2>2. Output("enrich-targets")' = EnrichOf(source')
        BY Zenon DEF Output, EnrichOf
    <2> QED BY <2>1, <2>2
<1>5. ASSUME source.kind = "targets", out'["enrich-targets"] = out["enrich-targets"]
      PROVE  Output("preprocess")' = Output("preprocess")
    <2>1. Output("preprocess") = PreprocessOf(Prepared, source)
        BY Zenon DEF Output, PreprocessOf, KeptOf
    <2>2. Output("preprocess")' = PreprocessOf(Prepared', source')
        BY Zenon DEF Output, PreprocessOf, KeptOf
    <2>3. Prepared = out["enrich-targets"] /\ Prepared' = out'["enrich-targets"]
        BY <1>5 DEF Prepared
    <2> QED BY <1>5, <2>1, <2>2, <2>3
<1> QED BY <1>1, <1>2, <1>3, <1>4, <1>5

\* The file of the scan stays while preprocess does not run and nothing else writes its
\* file.
LEMMA FileStays ==
    ASSUME FileUsed, UNCHANGED <<vars, source>>,
           pc = "prepare" \/ (exit'["preprocess"] = exit["preprocess"] /\ out'["preprocess"] = out["preprocess"])
    PROVE  FileUsed'
<1>1. input' = input /\ pc' = pc /\ source' = source
    BY DEF vars
<1>2. CASE pc = "prepare"
    BY <1>1, <1>2, Zenon DEF FileUsed
<1>3. CASE pc # "prepare"
    BY <1>1, <1>3, Zenon DEF FileUsed
<1> QED BY <1>2, <1>3

\* A tool that refuses, or csv-transform that has nothing to do.
LEMMA RefusalKeeps ==
    ASSUME source # Nil, ToolInv, UNCHANGED <<vars, source, tool, pending, cut, buffered, out>>, pc = "prepare", tool = "",
           NEW t \in Tools, NEW code, exit' = [exit EXCEPT ![t] = code], exit[t] # "ok",
           code = "ok" => t = "csv-transform" /\ source.kind = "table" /\ ~Refuses(t)
    PROVE  ToolInv'
<1>1. AtWork /\ FilesTyped /\ FileUsed /\ (source.kind = "targets" => NothingLost) /\ source \in Sources
    BY DEF ToolInv
<1>2. source' = source
    OBVIOUS
<1>3. DOMAIN exit = Tools /\ DOMAIN out = Tools
    BY <1>1 DEF AtWork
<1>4. DOMAIN exit' = Tools /\ \A u \in Tools : exit'[u] = IF u = t THEN code ELSE exit[u]
    BY <1>3
<1>5. \A u : (Refuses(u)' <=> Refuses(u)) /\ (Breaks(u)' <=> Breaks(u)) /\ LinesOf(source, u)' = LinesOf(source, u)
    BY <1>2, SourceStays
<1>6. "" \notin Tools
    BY DEF Tools
<1>7. AtWork'
    <2>1. \A u \in Tools : exit'[u] = "ok" => ~Refuses(u) /\ ~Breaks(u)
        <3> TAKE u \in Tools
        <3>1. CASE u = t
            BY <1>4, <3>1 DEF Breaks
        <3>2. CASE u # t
            BY <1>1, <1>4, <3>2 DEF AtWork
        <3> QED BY <3>1, <3>2
    <2> QED BY <1>3, <1>4, <1>5, <1>6, <2>1 DEF AtWork
<1>8. FilesTyped'
    <2>1. \A u \in Writers : out[u] \in Seq(LinesOf(source, u)) /\ tool # u
        BY <1>1, <1>6 DEF FilesTyped, Writers, Tools
    <2> QED BY <1>5, <2>1 DEF FilesTyped
<1>9. FileUsed'
    BY <1>1, FileStays
<1>10. ASSUME source.kind = "targets" PROVE NothingLost'
    <2>1. code # "ok" /\ NothingLost
        BY <1>1, <1>10
    <2>2. \A u \in Tools : exit'[u] = "ok" => exit[u] = "ok"
        BY <1>4, <2>1
    <2>3. {"enrich-targets", "preprocess", "csv-transform"} \subseteq Tools
        BY DEF Tools
    <2>4. Output("enrich-targets")' = Output("enrich-targets") /\ Output("preprocess")' = Output("preprocess")
        BY <1>2, <1>10, SourceStays
    <2>5. t # "enrich-targets" \/ exit["enrich-targets"] # "ok"
        OBVIOUS
    <2>6. exit["preprocess"] = "ok" => exit'["enrich-targets"] = "ok"
        BY <1>4, <2>1, <2>3, <2>5 DEF NothingLost
    <2>7. \A u \in {"enrich-targets", "preprocess"} : tool' # u /\ (exit'[u] = "ok" => Output(u)' = out'[u])
        BY <2>1, <2>2, <2>3, <2>4 DEF NothingLost
    <2> QED BY <2>1, <2>2, <2>3, <2>6, <2>7 DEF NothingLost
<1> QED BY <1>1, <1>2, <1>7, <1>8, <1>9, <1>10 DEF ToolInv

\* A tool that starts has all of its output before it.
LEMMA StartKeeps ==
    ASSUME source # Nil, ToolInv, UNCHANGED <<vars, source>>, NEW t \in Tools, ToolStarts(t)
    PROVE  ToolInv'
<1>1. AtWork /\ FilesTyped /\ FileUsed /\ (source.kind = "targets" => NothingLost) /\ source \in Sources
    BY DEF ToolInv
<1>2. source' = source
    OBVIOUS
<1>3. DOMAIN exit = Tools /\ DOMAIN out = Tools
    BY <1>1 DEF AtWork
<1>4. /\ tool' = t /\ pending' = Output(t) /\ cut' = Breaks(t) /\ buffered' = <<>>
      /\ out' = [out EXCEPT ![t] = <<>>] /\ exit' = exit /\ Ready(t) /\ ~Refuses(t)
    BY Zenon DEF ToolStarts
<1>5. tool = "" /\ exit[t] # "ok" /\ pc = "prepare"
    BY <1>4, Zenon DEF Ready
<1>6. /\ t = "enrich-targets" => source.kind = "targets"
      /\ t = "csv-transform" => source.kind = "table"
      /\ t = "preprocess" => exit["enrich-targets"] = "ok" \/ exit["csv-transform"] = "ok"
    <2>1. ASSUME t = "enrich-targets" PROVE source.kind = "targets"
        BY <1>4, <2>1, Zenon DEF Ready
    <2>2. ASSUME t = "csv-transform" PROVE source.kind = "table"
        BY <1>4, <2>2, Zenon DEF Ready
    <2>3. ASSUME t = "preprocess" PROVE exit["enrich-targets"] = "ok" \/ exit["csv-transform"] = "ok"
        BY <1>4, <2>3, Zenon DEF Ready
    <2> QED BY <2>1, <2>2, <2>3
<1>7. DOMAIN out' = Tools /\ out'[t] = <<>> /\ \A u \in Tools \ {t} : out'[u] = out[u]
    BY <1>3, <1>4
<1>8. \A u : (Refuses(u)' <=> Refuses(u)) /\ (Breaks(u)' <=> Breaks(u)) /\ LinesOf(source, u)' = LinesOf(source, u)
    BY <1>2, SourceStays
<1>9. Writers \subseteq Tools
    BY DEF Writers, Tools
<1>10. AtWork'
    <2>1. \A u \in Tools : tool' = u \/ exit'[u] = "ok" => ~Refuses(u)
        BY <1>1, <1>4 DEF AtWork
    <2>2. \A u \in Tools : tool' = u => exit'[u] # "ok" /\ cut' = Breaks(u)
        BY <1>4, <1>5, Zenon
    <2>3. \A u \in Tools : exit'[u] = "ok" => ~Breaks(u)
        BY <1>1, <1>4 DEF AtWork
    <2>4. \A u \in Tools : tool' = u => exit'[u] # "ok" /\ cut' = Breaks(u)'
        <3> TAKE u \in Tools
        <3>1. Breaks(u)' = Breaks(u)
            BY <1>2, Zenon DEF Breaks
        <3> QED BY <2>2, <3>1, Zenon
    <2>5. DOMAIN exit' = Tools /\ tool' \in Tools \cup {""}
        BY <1>3, <1>4
    <2> QED BY <1>7, <1>8, <2>1, <2>3, <2>4, <2>5, Zenon DEF AtWork
<1>11. FilesTyped'
    <2>1. ASSUME NEW u \in Writers PROVE out'[u] \in Seq(LinesOf(source, u))
        <3>1. <<>> \in Seq(LinesOf(source, u)) /\ out[u] \in Seq(LinesOf(source, u))
            BY <1>1 DEF FilesTyped
        <3> QED BY <1>7, <1>9, <3>1
    <2>2. ASSUME t \in Writers PROVE Output(t) \in Seq(LinesOf(source, t))
        <3>1. Prepared \in Seq(PreparedLines(source))
            <4>1. \A u \in {"enrich-targets", "csv-transform"} : u \in Writers /\ LinesOf(source, u) = PreparedLines(source)
                BY DEF Writers, LinesOf
            <4>2. \A u \in {"enrich-targets", "csv-transform"} : out[u] \in Seq(PreparedLines(source))
                BY <1>1, <4>1 DEF FilesTyped
            <4> QED BY <4>2 DEF Prepared
        <3> QED BY <1>1, <1>4, <1>6, <2>2, <3>1, OutputTyped
    <2>3. ASSUME NEW u \in Writers, tool' = u
          PROVE  buffered' \in Seq(LinesOf(source, u)) /\ pending' \in Seq(LinesOf(source, u))
        <3>1. u = t
            BY <1>4, <2>3
        <3>2. <<>> \in Seq(LinesOf(source, t))
            OBVIOUS
        <3> QED BY <1>4, <2>2, <3>1, <3>2
    <2> QED BY <1>8, <2>1, <2>3 DEF FilesTyped
<1>12. FileUsed'
    BY <1>1, <1>5, FileStays
<1>13. ASSUME source.kind = "targets" PROVE NothingLost'
    <2>1. NothingLost /\ t # "csv-transform"
        BY <1>1, <1>6, <1>13
    <2>2. {"enrich-targets", "preprocess", "csv-transform"} \subseteq Tools
        BY DEF Tools
    <2>3. Output("enrich-targets")' = Output("enrich-targets")
        BY <1>2, SourceStays
    <2>4. t # "enrich-targets" => Output("preprocess")' = Output("preprocess")
        BY <1>2, <1>7, <1>13, <2>2, SourceStays
    <2>5. t = "preprocess" => exit["enrich-targets"] = "ok"
        BY <1>6, <2>1 DEF NothingLost
    <2>6. exit["preprocess"] = "ok" => exit["enrich-targets"] = "ok" /\ t # "enrich-targets"
        BY <1>5, <2>1 DEF NothingLost
    <2>7. ASSUME NEW u \in {"enrich-targets", "preprocess"}, t = u
          PROVE  Output(u)' = out'[u] \o buffered' \o pending'
        <3>1. Output(u)' = Output(u)
            BY <2>3, <2>4, <2>7
        <3>2. out'[u] = <<>> /\ buffered' = <<>> /\ pending' = Output(u)
            BY <1>4, <1>7, <2>7
        <3>3. u \in Writers
            BY DEF Writers
        <3>4. Output(u) \in Seq(LinesOf(source, u))
            <4>1. (pending \in Seq(LinesOf(source, u)))'
                BY <1>4, <1>11, <2>7, <3>3 DEF FilesTyped
            <4> QED BY <1>8, <3>2, <4>1
        <3> DEFINE s == Output(u)
                   D == LinesOf(source, u)
        <3> HIDE DEF s, D
        <3>5. s \in Seq(D) => <<>> \o <<>> \o s = s
            OBVIOUS
        <3> QED BY <3>1, <3>2, <3>4, <3>5 DEF s, D
    <2>8. ASSUME NEW u \in {"enrich-targets", "preprocess"}, exit'[u] = "ok"
          PROVE  Output(u)' = out'[u]
        <3>1. exit[u] = "ok" /\ u # t /\ u \in Tools
            BY <1>4, <1>5, <2>2, <2>8
        <3>2. out'[u] = out[u] /\ Output(u) = out[u]
            BY <1>7, <2>1, <3>1 DEF NothingLost
        <3>3. Output(u)' = Output(u)
            BY <2>3, <2>4, <2>6, <3>1
        <3> QED BY <3>2, <3>3
    <2> QED BY <1>4, <2>1, <2>5, <2>6, <2>7, <2>8 DEF NothingLost
<1> QED BY <1>1, <1>2, <1>10, <1>11, <1>12, <1>13 DEF ToolInv

\* The rows of a file with what is buffered and what is to come.
Through(o, b, p) == o \o b \o p

\* The file after a full buffer and one more row are written.
Spilled(o, b, p) == o \o b \o <<Head(p)>>

\* Moving rows along loses none.
LEMMA RowsMove ==
    ASSUME NEW D, NEW o \in Seq(D), NEW b \in Seq(D), NEW p \in Seq(D), p # <<>>, NEW none, none = <<>>
    PROVE  /\ Spilled(o, b, p) \in Seq(D) /\ Append(b, Head(p)) \in Seq(D) /\ Tail(p) \in Seq(D) /\ none \in Seq(D)
           /\ Through(Spilled(o, b, p), none, Tail(p)) = Through(o, b, p)
           /\ Through(o, Append(b, Head(p)), Tail(p)) = Through(o, b, p)
<1>1. Head(p) \in D /\ Tail(p) \in Seq(D) /\ p = <<Head(p)>> \o Tail(p)
    OBVIOUS
<1> DEFINE h == Head(p)
           r == Tail(p)
<1> HIDE DEF h, r
<1>2. <<h>> \in Seq(D) /\ Append(b, h) = b \o <<h>>
    BY <1>1 DEF h
<1>3. (o \o b \o <<h>>) \o <<>> \o r = o \o b \o (<<h>> \o r)
    BY <1>1, <1>2 DEF r
<1>4. o \o (b \o <<h>>) \o r = o \o b \o (<<h>> \o r)
    BY <1>1, <1>2 DEF r
<1>5. p = <<h>> \o r /\ o \o b \o <<h>> \in Seq(D) /\ Append(b, h) \in Seq(D) /\ r \in Seq(D)
    BY <1>1, <1>2 DEF h, r
<1>6. (o \o b \o <<h>>) \o <<>> \o r = o \o b \o p /\ o \o Append(b, h) \o r = o \o b \o p
    BY <1>2, <1>3, <1>4, <1>5, Zenon
<1>7. none \in Seq(D)
    OBVIOUS
<1> QED BY <1>5, <1>6, <1>7, Zenon DEF h, r, Through, Spilled

\* The tool at work writes a row.
LEMMA WriteKeeps ==
    ASSUME source # Nil, ToolInv, UNCHANGED <<vars, source>>, WriteRow
    PROVE  ToolInv'
<1>1. AtWork /\ FilesTyped /\ FileUsed /\ (source.kind = "targets" => NothingLost) /\ source \in Sources
    BY DEF ToolInv
<1>2. source' = source
    OBVIOUS
<1>3. DOMAIN exit = Tools /\ DOMAIN out = Tools /\ tool \in Tools
    BY <1>1 DEF AtWork, WriteRow
<1>4. /\ pending # <<>> /\ pending' = Tail(pending) /\ tool' = tool /\ cut' = cut /\ exit' = exit
      /\ \/ out' = [out EXCEPT ![tool] = @ \o buffered \o <<Head(pending)>>] /\ buffered' = <<>>
         \/ out' = out /\ buffered' = Append(buffered, Head(pending))
    BY Zenon DEF WriteRow, Spill
<1>5. /\ DOMAIN out' = Tools /\ \A u \in Tools \ {tool} : out'[u] = out[u]
      /\ \/ out'[tool] = out[tool] \o buffered \o <<Head(pending)>> /\ buffered' = <<>>
         \/ out'[tool] = out[tool] /\ buffered' = Append(buffered, Head(pending))
    BY <1>3, <1>4
<1>6. \A u : (Refuses(u)' <=> Refuses(u)) /\ (Breaks(u)' <=> Breaks(u)) /\ LinesOf(source, u)' = LinesOf(source, u)
    BY <1>2, SourceStays
<1>7. Writers \subseteq Tools
    BY DEF Writers, Tools
<1>8. AtWork'
    <2>1. ASSUME NEW u \in Tools PROVE Breaks(u)' = Breaks(u)
        BY <1>2, Zenon DEF Breaks
    <2> QED BY <1>1, <1>3, <1>4, <1>5, <1>6, <2>1, Zenon DEF AtWork
<1>9. ASSUME NEW u \in Writers, tool = u
      PROVE  /\ out'[u] \in Seq(LinesOf(source, u)) /\ buffered' \in Seq(LinesOf(source, u))
             /\ pending' \in Seq(LinesOf(source, u))
             /\ out'[u] \o buffered' \o pending' = out[u] \o buffered \o pending
    <2> DEFINE D == LinesOf(source, u)
               o == out[u]
    <2>1. o \in Seq(D) /\ buffered \in Seq(D) /\ pending \in Seq(D)
        BY <1>1, <1>9 DEF FilesTyped
    <2> HIDE DEF D, o
    <2> DEFINE none == <<>>
               b == buffered
               p == pending
    <2>2. /\ Spilled(o, b, p) \in Seq(D) /\ Append(b, Head(p)) \in Seq(D) /\ Tail(p) \in Seq(D) /\ none \in Seq(D)
          /\ Through(Spilled(o, b, p), none, Tail(p)) = Through(o, b, p)
          /\ Through(o, Append(b, Head(p)), Tail(p)) = Through(o, b, p)
        <3>1. p # <<>> /\ b \in Seq(D) /\ p \in Seq(D) /\ none = <<>>
            BY <1>4, <2>1
        <3> HIDE DEF b, p, none
        <3> QED BY <2>1, <3>1, RowsMove
    <2>3. CASE out'[tool] = out[tool] \o buffered \o <<Head(pending)>> /\ buffered' = <<>>
        <3>1. out'[u] = Spilled(o, b, p)
            BY <1>9, <2>3 DEF o, Spilled
        <3>2. out'[u] \in Seq(D) /\ buffered' \in Seq(D) /\ pending' \in Seq(D)
            BY <1>4, <2>2, <2>3, <3>1
        <3>3. Through(out'[u], buffered', pending') = Through(o, b, p)
            BY <1>4, <2>2, <2>3, <3>1, Zenon
        <3> QED BY <3>2, <3>3, Zenon DEF D, o, Through
    <2>4. CASE out'[tool] = out[tool] /\ buffered' = Append(buffered, Head(pending))
        <3>1. out'[u] = o
            BY <1>9, <2>4 DEF o
        <3>2. out'[u] \in Seq(D) /\ buffered' \in Seq(D) /\ pending' \in Seq(D)
            BY <1>4, <2>1, <2>2, <2>4, <3>1
        <3>3. Through(out'[u], buffered', pending') = Through(o, b, p)
            BY <1>4, <2>2, <2>4, <3>1, Zenon
        <3> QED BY <3>2, <3>3, Zenon DEF D, o, Through
    <2> QED BY <1>5, <2>3, <2>4
<1>10. FilesTyped'
    <2>1. ASSUME NEW u \in Writers PROVE out'[u] \in Seq(LinesOf(source, u))
        <3>1. out[u] \in Seq(LinesOf(source, u))
            BY <1>1 DEF FilesTyped
        <3> QED BY <1>5, <1>7, <1>9, <3>1
    <2>2. \A u \in Writers : tool' = u => buffered' \in Seq(LinesOf(source, u)) /\ pending' \in Seq(LinesOf(source, u))
        BY <1>4, <1>9
    <2> QED BY <1>6, <2>1, <2>2 DEF FilesTyped
<1>11. FileUsed'
    <2>1. CASE pc = "prepare"
        BY <1>1, <2>1, FileStays
    <2>2. CASE pc # "prepare"
        <3>1. exit["preprocess"] = "ok" /\ "preprocess" \in Tools
            BY <1>1, <2>2 DEF FileUsed, Tools
        <3>2. tool # "preprocess"
            BY <1>1, <3>1 DEF AtWork
        <3> QED BY <1>1, <1>4, <1>5, <3>1, <3>2, FileStays
    <2> QED BY <2>1, <2>2
<1>12. ASSUME source.kind = "targets" PROVE NothingLost'
    <2>1. NothingLost
        BY <1>1, <1>12
    <2>2. {"enrich-targets", "preprocess", "csv-transform"} \subseteq Tools /\ {"enrich-targets", "preprocess"} \subseteq Writers
        BY DEF Tools, Writers
    <2>3. Output("enrich-targets")' = Output("enrich-targets")
        BY <1>2, SourceStays
    <2>4. tool # "enrich-targets" => Output("preprocess")' = Output("preprocess")
        BY <1>2, <1>5, <1>12, <2>2, SourceStays
    <2>5. tool = "enrich-targets" => exit["preprocess"] # "ok"
        BY <1>1, <2>1, <2>2 DEF NothingLost, AtWork
    <2>6. ASSUME NEW u \in {"enrich-targets", "preprocess"}, tool' = u
          PROVE  Output(u)' = out'[u] \o buffered' \o pending'
        <3>1. Output(u)' = Output(u) /\ tool = u
            BY <1>4, <2>3, <2>4, <2>6
        <3>2. Output(u) = out[u] \o buffered \o pending
            BY <2>1, <3>1 DEF NothingLost
        <3> QED BY <1>9, <2>2, <3>1, <3>2
    <2>7. ASSUME NEW u \in {"enrich-targets", "preprocess"}, exit'[u] = "ok"
          PROVE  Output(u)' = out'[u]
        <3>1. exit[u] = "ok" /\ u \in Tools /\ tool # u
            BY <1>1, <1>4, <2>2, <2>7 DEF AtWork
        <3>2. out'[u] = out[u] /\ Output(u) = out[u]
            BY <1>5, <2>1, <3>1 DEF NothingLost
        <3>3. Output(u)' = Output(u)
            BY <2>3, <2>4, <2>5, <3>1
        <3> QED BY <3>2, <3>3
    <2> QED BY <1>4, <2>1, <2>6, <2>7 DEF NothingLost
<1> QED BY <1>1, <1>2, <1>8, <1>10, <1>11, <1>12 DEF ToolInv

\* A tool returns 0 only when all its rows are in the file, csv-transform excepted.
LEMMA EndKeeps ==
    ASSUME source # Nil, ToolInv, UNCHANGED <<vars, source>>, ToolStops \/ ToolEnds
    PROVE  ToolInv'
<1> DEFINE none == <<>>
           flushed == [out EXCEPT ![tool] = @ \o buffered]
<1>1. AtWork /\ FilesTyped /\ FileUsed /\ (source.kind = "targets" => NothingLost) /\ source \in Sources
    BY DEF ToolInv
<1>2. source' = source
    OBVIOUS
<1>3. DOMAIN exit = Tools /\ DOMAIN out = Tools /\ tool \in Tools
    BY <1>1 DEF AtWork, ToolStops, ToolEnds
<1>4. /\ tool' = "" /\ \E code : /\ exit' = [exit EXCEPT ![tool] = code]
                                 /\ out' = flushed \/ out' = out
                                 /\ code = "ok" => /\ pending = none /\ ~cut
                                                   /\ out' = flushed \/ tool = "csv-transform"
    <2>1. CASE ToolStops
        <3>1. tool' = "" /\ exit' = [exit EXCEPT ![tool] = "error"] /\ out' = out
            BY <2>1, Zenon DEF ToolStops, Exit
        <3>2. "error" # "ok"
            OBVIOUS
        <3> QED BY <3>1, <3>2, Zenon
    <2>2. CASE ToolEnds
        <3>1. pending = none /\ ~cut /\ FlushOutput
            BY <2>2, Zenon DEF ToolEnds
        <3>2. CASE out' = flushed /\ \E code \in {"ok", "error"} : Exit(code)
            BY <3>1, <3>2, Zenon DEF Exit
        <3>3. CASE Exit(IF tool = "csv-transform" THEN "ok" ELSE "error") /\ UNCHANGED out
            <4> DEFINE code == IF tool = "csv-transform" THEN "ok" ELSE "error"
            <4>1. tool' = "" /\ exit' = [exit EXCEPT ![tool] = code] /\ out' = out
                BY <3>3, Zenon DEF Exit
            <4>2. code = "ok" => tool = "csv-transform"
                OBVIOUS
            <4> HIDE DEF code
            <4> QED BY <3>1, <4>1, <4>2, Zenon
        <3> QED BY <3>1, <3>2, <3>3, Zenon DEF FlushOutput
    <2> QED BY <2>1, <2>2
<1>5. PICK code : /\ exit' = [exit EXCEPT ![tool] = code] /\ (out' = flushed \/ out' = out)
                  /\ code = "ok" => pending = none /\ ~cut /\ (out' = flushed \/ tool = "csv-transform")
    BY <1>4
<1>6. /\ DOMAIN exit' = Tools /\ exit'[tool] = code /\ \A u \in Tools \ {tool} : exit'[u] = exit[u]
      /\ DOMAIN out' = Tools /\ \A u \in Tools \ {tool} : out'[u] = out[u]
      /\ out'[tool] = out[tool] \/ out'[tool] = out[tool] \o buffered
      /\ code = "ok" => pending = none /\ ~cut /\ (out'[tool] = out[tool] \o buffered \/ tool = "csv-transform")
    <2>1. DOMAIN exit' = Tools /\ exit'[tool] = code /\ \A u \in Tools \ {tool} : exit'[u] = exit[u]
        <3>1. exit' = [exit EXCEPT ![tool] = code]
            BY <1>5
        <3> QED BY <1>3, <3>1
    <2>2. /\ DOMAIN flushed = Tools /\ flushed[tool] = out[tool] \o buffered
          /\ \A u \in Tools \ {tool} : flushed[u] = out[u]
        BY <1>3
    <2> HIDE DEF flushed
    <2>3. DOMAIN out' = Tools /\ \A u \in Tools \ {tool} : out'[u] = out[u]
        BY <1>3, <1>5, <2>2
    <2>4. out' = flushed => out'[tool] = out[tool] \o buffered
        BY <2>2
    <2> QED BY <1>5, <2>1, <2>3, <2>4
<1>7. \A u : (Refuses(u)' <=> Refuses(u)) /\ (Breaks(u)' <=> Breaks(u)) /\ LinesOf(source, u)' = LinesOf(source, u)
    BY <1>2, SourceStays
<1>8. Writers \subseteq Tools /\ "" \notin Tools
    BY DEF Writers, Tools
<1>9. AtWork'
    <2>1. ASSUME NEW u \in Tools, exit'[u] = "ok" PROVE ~Refuses(u) /\ ~Breaks(u)
        <3>1. CASE u = tool
            <4>1. ~Refuses(u) /\ cut = Breaks(u)
                BY <1>1, <3>1, Zenon DEF AtWork
            <4>2. ~cut
                BY <1>6, <2>1, <3>1
            <4> QED BY <4>1, <4>2, Zenon
        <3>2. CASE u # tool
            BY <1>1, <1>6, <2>1, <3>2 DEF AtWork
        <3> QED BY <3>1, <3>2
    <2>2. \A u \in Tools : tool' # u
        BY <1>4, <1>8
    <2> QED BY <1>4, <1>6, <1>7, <2>1, <2>2, Zenon DEF AtWork
<1>10. FilesTyped'
    <2>1. ASSUME NEW u \in Writers PROVE out'[u] \in Seq(LinesOf(source, u))
        <3> DEFINE D == LinesOf(source, u)
        <3>1. out[u] \in Seq(D) /\ (tool = u => buffered \in Seq(D))
            BY <1>1 DEF FilesTyped
        <3> HIDE DEF D
        <3>2. CASE tool = u
            <4>1. out[u] \o buffered \in Seq(D)
                BY <3>1, <3>2
            <4> QED BY <1>6, <3>1, <3>2, <4>1 DEF D
        <3>3. CASE tool # u
            BY <1>6, <1>8, <3>1, <3>3 DEF D
        <3> QED BY <3>2, <3>3
    <2>2. \A u \in Writers : tool' # u
        BY <1>4, <1>8
    <2> QED BY <1>7, <2>1, <2>2 DEF FilesTyped
<1>11. FileUsed'
    <2>1. CASE pc = "prepare"
        BY <1>1, <2>1, FileStays
    <2>2. CASE pc # "prepare"
        <3>1. exit["preprocess"] = "ok" /\ "preprocess" \in Tools
            BY <1>1, <2>2 DEF FileUsed, Tools
        <3>2. tool # "preprocess"
            BY <1>1, <3>1 DEF AtWork
        <3> QED BY <1>1, <1>6, <3>1, <3>2, FileStays
    <2> QED BY <2>1, <2>2
<1>12. ASSUME source.kind = "targets" PROVE NothingLost'
    <2>1. NothingLost
        BY <1>1, <1>12
    <2>2. {"enrich-targets", "preprocess", "csv-transform"} \subseteq Tools /\ {"enrich-targets", "preprocess"} \subseteq Writers
        BY DEF Tools, Writers
    <2>3. Output("enrich-targets")' = Output("enrich-targets")
        BY <1>2, SourceStays
    <2>4. tool # "enrich-targets" => Output("preprocess")' = Output("preprocess")
        BY <1>2, <1>6, <1>12, <2>2, SourceStays
    <2>5. tool = "enrich-targets" => exit["preprocess"] # "ok"
        BY <1>1, <2>1, <2>2 DEF NothingLost, AtWork
    <2>6. exit'["csv-transform"] # "ok"
        BY <1>6, <2>1, <2>2 DEF NothingLost
    <2>7. exit'["preprocess"] = "ok" => exit'["enrich-targets"] = "ok"
        <3>1. CASE tool = "preprocess"
            <4>1. exit["enrich-targets"] = "ok"
                BY <2>1, <3>1 DEF NothingLost
            <4> QED BY <1>6, <2>2, <3>1, <4>1
        <3>2. CASE tool # "preprocess"
            <4>1. exit'["preprocess"] = exit["preprocess"]
                BY <1>6, <2>2, <3>2
            <4>2. exit["preprocess"] = "ok" => exit["enrich-targets"] = "ok" /\ tool # "enrich-targets"
                BY <2>1, <2>5 DEF NothingLost
            <4> QED BY <1>6, <2>2, <4>1, <4>2
        <3> QED BY <3>1, <3>2
    <2>8. ASSUME NEW u \in {"enrich-targets", "preprocess"}, exit'[u] = "ok"
          PROVE  Output(u)' = out'[u]
        <3>1. CASE u # tool
            <4>1. exit[u] = "ok" /\ out'[u] = out[u]
                BY <1>6, <2>2, <2>8, <3>1
            <4>2. Output(u) = out[u]
                BY <2>1, <4>1 DEF NothingLost
            <4>3. Output(u)' = Output(u)
                BY <2>3, <2>4, <2>5, <4>1
            <4> QED BY <4>1, <4>2, <4>3
        <3>2. CASE u = tool
            <4> DEFINE D == LinesOf(source, u)
                       o == out[u]
            <4>1. Output(u) = o \o buffered \o pending
                BY <2>1, <3>2 DEF NothingLost
            <4>2. o \in Seq(D) /\ buffered \in Seq(D)
                BY <1>1, <2>2, <3>2 DEF FilesTyped
            <4>3. pending = <<>> /\ out'[u] = o \o buffered
                BY <1>6, <2>8, <3>2
            <4> HIDE DEF D, o
            <4>4. o \o buffered \o <<>> = o \o buffered
                BY <4>2
            <4>5. Output(u)' = Output(u)
                BY <2>3, <2>4, <3>2
            <4> QED BY <4>1, <4>3, <4>4, <4>5
        <3> QED BY <3>1, <3>2
    <2>9. \A u \in Tools : tool' # u
        BY <1>4, <1>8
    <2> QED BY <2>2, <2>6, <2>7, <2>8, <2>9 DEF NothingLost
<1> QED BY <1>1, <1>2, <1>9, <1>10, <1>11, <1>12 DEF ToolInv

\* The tools keep it, and so do the use of their file and the scan.
LEMMA KeepsTools == PrepSpec => []ToolInv
<1>1. PrepInit => ToolInv
    <2> SUFFICES ASSUME PrepInit PROVE ToolInv
        OBVIOUS
    <2>1. CASE source = Nil /\ input \in Inputs /\ pc = "stat"
        BY <2>1 DEF ToolInv
    <2>2. CASE source \in Sources /\ input = source.input /\ pc = "prepare"
        <3>1. source # Nil
            BY <2>2, SourcesAssumption
        <3>2. tool = "" /\ out = [t \in Tools |-> <<>>] /\ exit = [t \in Tools |-> "none"]
            BY DEF PrepInit
        <3>3. DOMAIN out = Tools /\ DOMAIN exit = Tools /\ \A t \in Tools : out[t] = <<>> /\ exit[t] = "none" /\ tool # t
            BY <3>2 DEF Tools
        <3>4. "none" # "ok"
            OBVIOUS
        <3>5. AtWork
            BY <3>2, <3>3, <3>4 DEF AtWork
        <3>6. Writers \subseteq Tools /\ {"enrich-targets", "preprocess", "csv-transform"} \subseteq Tools
            BY DEF Writers, Tools
        <3>7. FilesTyped
            <4>1. ASSUME NEW t \in Writers PROVE out[t] \in Seq(LinesOf(source, t)) /\ tool # t
                <5>1. out[t] = <<>> /\ tool # t
                    BY <3>3, <3>6
                <5> QED BY <5>1
            <4> QED BY <4>1 DEF FilesTyped
        <3>8. NothingLost
            BY <3>3, <3>4, <3>6 DEF NothingLost
        <3>9. FileUsed
            BY <2>2 DEF FileUsed
        <3> QED BY <2>2, <3>1, <3>5, <3>7, <3>8, <3>9 DEF ToolInv
    <2> QED BY <2>1, <2>2 DEF PrepInit
<1>2. ToolInv /\ [PrepNext]_<<vars, prepVars>> => ToolInv'
    <2> SUFFICES ASSUME ToolInv, [PrepNext]_<<vars, prepVars>> PROVE ToolInv'
        OBVIOUS
    <2>1. CASE Work
        <3>1. UNCHANGED <<vars, source>>
            BY <2>1 DEF Work
        <3>2. CASE source = Nil
            <4>1. source' = source /\ input' = input /\ pc' = pc
                BY <3>1 DEF vars
            <4> QED BY <3>2, <4>1 DEF ToolInv
        <3>3. CASE source # Nil
            <4>1. ASSUME NEW t \in Tools, ToolRefuses(t) PROVE ToolInv'
                <5> DEFINE code == "error"
                <5>1. Ready(t) /\ exit' = [exit EXCEPT ![t] = code] /\ UNCHANGED <<tool, pending, cut, buffered, out>>
                    BY <4>1, Zenon DEF ToolRefuses
                <5>2. pc = "prepare" /\ tool = "" /\ exit[t] # "ok"
                    BY <5>1, Zenon DEF Ready
                <5>3. code # "ok"
                    OBVIOUS
                <5> HIDE DEF code
                <5> QED BY <3>1, <3>3, <5>1, <5>2, <5>3, RefusalKeeps
            <4>2. ASSUME NothingToTransform PROVE ToolInv'
                <5> DEFINE code == "ok"
                           t == "csv-transform"
                <5>1. Ready(t) /\ exit' = [exit EXCEPT ![t] = code] /\ UNCHANGED <<tool, pending, cut, buffered, out>> /\ ~Refuses(t)
                    BY <4>2, Zenon DEF NothingToTransform
                <5>2. pc = "prepare" /\ tool = "" /\ exit[t] # "ok"
                    BY <5>1, Zenon DEF Ready
                <5>3. source.kind = "table"
                    BY <5>1, Zenon DEF Ready
                <5>4. t \in Tools /\ t = "csv-transform"
                    BY DEF Tools
                <5> HIDE DEF code, t
                <5> QED BY <3>1, <3>3, <5>1, <5>2, <5>3, <5>4, RefusalKeeps
            <4>3. ASSUME NEW t \in Tools, ToolStarts(t) PROVE ToolInv'
                BY <3>1, <3>3, <4>3, StartKeeps
            <4>4. ASSUME WriteRow PROVE ToolInv'
                BY <3>1, <3>3, <4>4, WriteKeeps
            <4>5. ASSUME ToolStops \/ ToolEnds PROVE ToolInv'
                BY <3>1, <3>3, <4>5, EndKeeps
            <4> QED BY <2>1, <4>1, <4>2, <4>3, <4>4, <4>5, Zenon DEF Work
        <3> QED BY <3>2, <3>3
    <2>2. CASE UsePrepared
        <3> DEFINE file == [rich |-> TRUE, lines |-> out["preprocess"]]
        <3>1. /\ pc = "prepare" /\ exit["preprocess"] = "ok" /\ pc' = "stat" /\ input' = [input EXCEPT !.file = file]
              /\ UNCHANGED prepVars
            BY <2>2, Zenon DEF UsePrepared
        <3>2. UNCHANGED <<source, tool, pending, cut, buffered, out, exit>>
            BY <3>1 DEF prepVars, toolVars
        <3>3. source # Nil
            BY <3>1 DEF ToolInv
        <3>4. source \in Sources /\ AtWork /\ FilesTyped /\ FileUsed /\ (source.kind = "targets" => NothingLost)
            BY <3>3 DEF ToolInv
        <3>5. input = source.input
            BY <3>1, <3>4, Zenon DEF FileUsed
        <3>6. FileUsed'
            <4>1. file' = file
                BY <3>2
            <4>2. input' = [source.input EXCEPT !.file = file]
                BY <3>1, <3>5, Zenon
            <4>3. pc' # "prepare"
                BY <3>1
            <4> QED BY <3>1, <3>2, <4>1, <4>2, <4>3, Zenon DEF FileUsed
        <3>7. (AtWork /\ FilesTyped /\ (source.kind = "targets" => NothingLost))'
            <4>1. AtWork'
                <5>1. \A t : Refuses(t)' <=> Refuses(t)
                    BY <3>2, SourceStays
                <5>2. \A t : Breaks(t)' = Breaks(t)
                    BY <3>2, Zenon DEF Breaks
                <5> QED BY <3>2, <3>4, <5>1, <5>2, Zenon DEF AtWork
            <4>2. FilesTyped'
                BY <3>2, <3>4 DEF FilesTyped
            <4>3. ASSUME source.kind = "targets" PROVE NothingLost'
                <5>1. Output("enrich-targets")' = Output("enrich-targets") /\ Output("preprocess")' = Output("preprocess")
                    BY <3>2, <4>3, SourceStays
                <5>2. \A t \in {"enrich-targets", "preprocess"} : Output(t)' = Output(t)
                    BY <5>1
                <5> QED BY <3>2, <3>4, <4>3, <5>2 DEF NothingLost
            <4> QED BY <3>2, <4>1, <4>2, <4>3
        <3> QED BY <3>2, <3>3, <3>4, <3>6, <3>7 DEF ToolInv
    <2>3. CASE (Next /\ UNCHANGED prepVars) \/ UNCHANGED <<vars, prepVars>>
        <3>1. UNCHANGED <<source, tool, pending, cut, buffered, out, exit>>
            BY <2>3 DEF prepVars, toolVars
        <3>2. input' = input /\ (pc' = "prepare" <=> pc = "prepare")
            BY <2>3, InputStays DEF vars
        <3>3. CASE source = Nil
            BY <3>1, <3>2, <3>3 DEF ToolInv
        <3>4. CASE source # Nil
            <4>1. source \in Sources /\ AtWork /\ FilesTyped /\ FileUsed /\ (source.kind = "targets" => NothingLost)
                BY <3>4 DEF ToolInv
            <4>2. AtWork'
                <5>1. \A t : Refuses(t)' <=> Refuses(t)
                    BY <3>1, SourceStays
                <5>2. \A t : Breaks(t)' = Breaks(t)
                    BY <3>1, Zenon DEF Breaks
                <5> QED BY <3>1, <4>1, <5>1, <5>2, Zenon DEF AtWork
            <4>3. FilesTyped'
                BY <3>1, <4>1 DEF FilesTyped
            <4>4. ASSUME source.kind = "targets" PROVE NothingLost'
                <5>1. Output("enrich-targets")' = Output("enrich-targets") /\ Output("preprocess")' = Output("preprocess")
                    BY <3>1, <4>4, SourceStays
                <5>2. \A t \in {"enrich-targets", "preprocess"} : Output(t)' = Output(t)
                    BY <5>1
                <5> QED BY <3>1, <4>1, <4>4, <5>2 DEF NothingLost
            <4>5. FileUsed'
                BY <3>1, <3>2, <4>1, Zenon DEF FileUsed
            <4> QED BY <3>1, <3>4, <4>1, <4>2, <4>3, <4>4, <4>5 DEF ToolInv
        <3> QED BY <3>3, <3>4
    <2> QED BY <2>1, <2>2, <2>3 DEF PrepNext
<1> QED BY <1>1, <1>2, PTL DEF PrepSpec

\* What is scanned is of the form that the loader reads: the file of an operator, or the
\* rows that preprocess has written.
LEMMA InputTyped ==
    ASSUME ToolInv, pc # "prepare"
    PROVE  /\ input.file \in FileType /\ input.ports \in Seq(Int) /\ input.dead \in SUBSET Nat
           /\ source # Nil => /\ input.file.rich = TRUE /\ input.file.lines = out["preprocess"]
                              /\ out["preprocess"] \in Seq(KeptLines(source))
<1>1. CASE source = Nil
    <2>1. input \in Inputs
        BY <1>1 DEF ToolInv
    <2> QED BY <1>1, <2>1, InputsAssumption
<1>2. CASE source # Nil
    <2> DEFINE lines == out["preprocess"]
               file == [rich |-> TRUE, lines |-> lines]
               x == source.input
    <2>1. source \in Sources /\ FilesTyped /\ FileUsed
        BY <1>2 DEF ToolInv
    <2>2. input = [x EXCEPT !.file = file]
        BY <2>1, Zenon DEF FileUsed
    <2>3. /\ {"file", "ports", "dead", "list", "limits"} \subseteq DOMAIN x
          /\ x.ports \in Seq(Int) /\ x.dead \in SUBSET Nat
        BY <2>1, SourcesAssumption
    <2>4. lines \in Seq(KeptLines(source))
        <3>1. "preprocess" \in Writers /\ LinesOf(source, "preprocess") = KeptLines(source)
            BY DEF Writers, LinesOf
        <3> QED BY <2>1, <3>1 DEF FilesTyped
    <2>5. lines \in Seq(RichLineType)
        <3>1. KeptLines(source) \subseteq RichLineType
            BY DEF KeptLines, PreparedLines
        <3> DEFINE K == KeptLines(source)
        <3> HIDE DEF K, lines
        <3>2. lines \in Seq(K) /\ K \subseteq RichLineType
            BY <2>4, <3>1 DEF K
        <3> QED BY <3>2
    <2> HIDE DEF lines
    <2>6. file \in FileType /\ file.rich = TRUE /\ file.lines = lines
        BY <2>5 DEF FileType
    <2> HIDE DEF file, x
    <2>7. input.file = file /\ input.ports = x.ports /\ input.dead = x.dead
        BY <2>2, <2>3
    <2> QED BY <2>3, <2>4, <2>6, <2>7 DEF lines
<1> QED BY <1>1, <1>2

\* So only row ports stand in the way.
LEMMA PlainInput ==
    ASSUME ToolInv, pc # "prepare", ~HasBasicRowPorts(Rows)
    PROVE  PlainFile(input)
BY InputTyped DEF PlainFile, Rows

-----------------------------------------------------------------------------
(* What the scan promises *)

\* Theorem (PlanKeepsTargets).  Whatever the runs of the scan are given and however they
\* end, a run gives every index of an unfinished chunk the target that it had when the
\* buckets were made: chunk, cursor and CIDR file are enough to build it again.  For
\* files without a port column of their own (with one it does not hold).
THEOREM PlansKept == PrepSpec => [](~HasBasicRowPorts(Rows) => PlanKeepsTargets)
<1>1. ASSUME PlanInv, ToolInv, ~HasBasicRowPorts(Rows) PROVE PlanKeepsTargets
    <2> SUFFICES ASSUME pc = "running" PROVE PlanKeepsTargets
        BY DEF PlanKeepsTargets
    <2>1. PlainFile(input)
        BY <1>1, PlainInput
    <2> QED BY <1>1, <2>1 DEF PlanInv, RunRight, PlanKeepsTargets, Saved
<1>2. PlanInv /\ ToolInv => (~HasBasicRowPorts(Rows) => PlanKeepsTargets)
    BY <1>1
<1> QED BY <1>2, KeepsPlan, KeepsTools, PTL

\* Theorem (EveryTargetOnce).  Over all runs of the scan no target is counted for two
\* indices, and a scan that ends has scanned exactly the targets that the rows ask for
\* and pre-ping did not find dead: nothing is lost or doubled between pre-ping, the
\* blocklist, the buckets and the snapshots of interrupted runs.
THEOREM TargetsOnce == PrepSpec => [](~HasBasicRowPorts(Rows) /\ ListFits => EveryTargetOnce)
<1>1. ASSUME PlanInv, ToolInv, ~HasBasicRowPorts(Rows), ListFits PROVE EveryTargetOnce
    <2>1. CASE pc = "prepare"
        <3>1. scanned = {} /\ pc # "done"
            BY <1>1, <2>1 DEF PlanInv, FreshRight, Planning
        <3> QED BY <3>1 DEF EveryTargetOnce
    <2>2. CASE pc # "prepare"
        BY <1>1, <2>2, PlainInput, TargetsCountOnce
    <2> QED BY <2>1, <2>2
<1>2. PlanInv /\ ToolInv => (~HasBasicRowPorts(Rows) /\ ListFits => EveryTargetOnce)
    BY <1>1
<1> QED BY <1>2, KeepsPlan, KeepsTools, PTL

\* Theorem (WithinLimits).  Every run of the scan, of a fresh or of an old snapshot, holds
\* no more targets than the limits it runs under allow: the estimate, which is made
\* before anything is enumerated and for the unfinished segments only, is never less than
\* what the builders store.  For files without row ports whose segments the integer
\* width can count.
THEOREM RunsStayWithinLimits == PrepSpec => [](~HasBasicRowPorts(Rows) /\ SizesFit(Rows) => WithinLimits)
<1>1. ASSUME LimitInv, ToolInv, ~HasBasicRowPorts(Rows), SizesFit(Rows) PROVE WithinLimits
    <2> SUFFICES ASSUME pc = "running" PROVE WithinLimits
        BY DEF WithinLimits
    <2>1. PlainFile(input)
        BY <1>1, PlainInput
    <2> QED BY <1>1, <2>1 DEF LimitInv, RunFits
<1>2. LimitInv /\ ToolInv => (~HasBasicRowPorts(Rows) /\ SizesFit(Rows) => WithinLimits)
    BY <1>1
<1> QED BY <1>2, KeepsLimits, KeepsTools, PTL

\* Theorem (DisjointResumes).  Where the segments do not overlap, no run ever refuses a
\* snapshot of this build as incompatible, whichever of its chunks are finished and
\* whatever flags and port file the run is given.  For files without row ports.
THEOREM DisjointAlwaysResumes == PrepSpec => [](~HasBasicRowPorts(Rows) => DisjointResumes)
<1>1. ASSUME ResumeInv, ToolInv, ~HasBasicRowPorts(Rows) PROVE DisjointResumes
    <2> SUFFICES ASSUME pc = "incompatible" PROVE DisjointResumes
        BY DEF DisjointResumes
    <2>1. PlainFile(input)
        BY <1>1, PlainInput
    <2> QED BY <1>1, <2>1 DEF ResumeInv
<1>2. ResumeInv /\ ToolInv => (~HasBasicRowPorts(Rows) => DisjointResumes)
    BY <1>1
<1> QED BY <1>2, KeepsResumable, KeepsTools, PTL

-----------------------------------------------------------------------------
(* No closed segment is scanned *)

\* A positive factor keeps the order.
LEMMA FactorOrder ==
    ASSUME NEW m \in Nat \ {0}, NEW x \in Int, NEW y \in Int
    PROVE  (x <= y => m * x <= m * y) /\ (m * x < m * y => x < y)
<1>1. ASSUME NEW u \in Int, NEW v \in Int, u <= v PROVE m * u <= m * v
    <2> DEFINE k == v - u
    <2>1. k \in Nat /\ v = u + k
        BY <1>1
    <2> HIDE DEF k
    <2>2. m * k \in Nat
        BY <2>1
    <2>3. m * v = m * u + m * k
        BY <2>1
    <2>4. m * u \in Int /\ m * v \in Int
        OBVIOUS
    <2> DEFINE a == m * u
               b == m * v
               c == m * k
    <2> HIDE DEF a, b, c
    <2>5. a <= b
        BY <2>2, <2>3, <2>4 DEF a, b, c
    <2> QED BY <2>5 DEF a, b
<1>2. x <= y => m * x <= m * y
    BY <1>1
<1>3. ASSUME m * x < m * y PROVE x < y
    <2>1. m * x \in Int /\ m * y \in Int
        OBVIOUS
    <2>2. y <= x => m * y <= m * x
        BY <1>1
    <2> DEFINE a == m * x
               b == m * y
    <2> HIDE DEF a, b
    <2>3. ~(b <= a)
        BY <1>3, <2>1 DEF a, b
    <2> QED BY <2>2, <2>3 DEF a, b
<1> QED BY <1>2, <1>3

\* Multiples of m and of m * r whose blocks have an address in common.
LEMMA BlocksOverlap ==
    ASSUME NEW m \in Nat \ {0}, NEW r \in Nat, NEW p \in Int, NEW u \in Int, NEW a \in Int,
           m * p <= a, a < m * (p + 1), m * u <= a, a < m * (u + r)
    PROVE  m * u <= m * p /\ m * (p + 1) <= m * (u + r)
<1> DEFINE P == m * p
           Q == m * (p + 1)
           U == m * u
           W == m * (u + r)
<1>1. P \in Int /\ Q \in Int /\ U \in Int /\ W \in Int /\ p + 1 \in Int /\ u + r \in Int
    OBVIOUS
<1>2. P <= a /\ a < Q /\ U <= a /\ a < W
    OBVIOUS
<1>3. (U < Q => u < p + 1) /\ (P < W => p < u + r)
    BY <1>1, FactorOrder
<1>4. (u <= p => U <= P) /\ (p + 1 <= u + r => Q <= W)
    BY <1>1, FactorOrder
<1> HIDE DEF P, Q, U, W
<1>5. u < p + 1 /\ p < u + r
    BY <1>1, <1>2, <1>3
<1> QED BY <1>4, <1>5 DEF P, Q, U, W

\* Of two segments with an address in common the larger contains the smaller.
LEMMA SegmentsNest ==
    ASSUME NEW c \in CIDRType, NEW d \in CIDRType, c.size <= d.size, d.size % c.size = 0,
           NEW a \in Int, a \in Addresses(Masked(c)), a \in Addresses(Masked(d))
    PROVE  CIDRContains(d, c)
<1> DEFINE m == c.size
           n == d.size
           x == c.lo
           y == d.lo
           p == x \div m
           q == y \div n
           r == n \div m
           u == r * q
<1>1. m \in Nat \ {0} /\ n \in Nat \ {0} /\ x \in Int /\ y \in Int
    BY DEF CIDRType
<1>2. /\ StartIP(c) = x - (x % m) /\ EndIP(c) = x - (x % m) + m - 1
      /\ StartIP(d) = y - (y % n) /\ EndIP(d) = y - (y % n) + n - 1
    BY DEF StartIP, EndIP, Masked
<1>3. /\ a >= x - (x % m) /\ a <= x - (x % m) + m - 1
      /\ a >= y - (y % n) /\ a <= y - (y % n) + n - 1
    BY <1>1 DEF Addresses, Masked
<1>4. n % m = 0
    OBVIOUS
<1> HIDE DEF m, n, x, y
<1>5. p \in Int /\ q \in Int /\ r \in Nat
    BY <1>1
<1>6. x - (x % m) = m * p /\ y - (y % n) = n * q /\ n = m * r
    BY <1>1, <1>4
<1> HIDE DEF p, q, r
<1>7. u \in Int /\ n * q = m * u
    BY <1>1, <1>5, <1>6
<1> HIDE DEF u
<1>8. m * (p + 1) = m * p + m /\ m * (u + r) = m * u + m * r
    BY <1>1, <1>5, <1>7
<1>9. m * p \in Int /\ m * u \in Int /\ m * r \in Int
    BY <1>1, <1>5, <1>7
<1> DEFINE P == m * p
           U == m * u
           R == m * r
           Q == m * (p + 1)
           W == m * (u + r)
<1>10. /\ P \in Int /\ U \in Int /\ R \in Int /\ Q = P + m /\ W = U + R /\ n = R
       /\ x - (x % m) = P /\ y - (y % n) = U
    BY <1>6, <1>7, <1>8, <1>9
<1>11. P <= a /\ a < Q /\ U <= a /\ a < W
    <2> HIDE DEF P, U, R, Q, W
    <2> QED BY <1>1, <1>3, <1>10
<1>12. U <= P /\ Q <= W
    BY <1>1, <1>5, <1>7, <1>11, BlocksOverlap
<1> HIDE DEF P, U, R, Q, W
<1>13. StartIP(d) <= StartIP(c) /\ EndIP(d) >= EndIP(c)
    BY <1>1, <1>2, <1>10, <1>12
<1> QED BY <1>13 DEF CIDRContains

\* An address is in a segment when the segment contains it.
LEMMA HostInside ==
    ASSUME NEW host \in AddressType, NEW c \in CIDRType
    PROVE  /\ host.lo \in Int /\ Addresses(host) = {host.lo}
           /\ CIDRContains(c, host) <=> host.lo \in Addresses(Masked(c))
<1> DEFINE a == host.lo
           m == c.size
           x == Masked(c).lo
<1>1. a \in Int /\ host.size = 1 /\ m \in Nat /\ x \in Int /\ Masked(c).size = m
    BY DEF AddressType, CIDRType, Masked
<1>2. a % 1 = 0
    BY <1>1
<1>3. StartIP(host) = a /\ EndIP(host) = a
    BY <1>1, <1>2 DEF StartIP, EndIP, Masked
<1>4. Addresses(host) = {a}
    BY <1>1 DEF Addresses
<1>5. CIDRContains(c, host) <=> x <= a /\ x + m - 1 >= a
    BY <1>3 DEF CIDRContains, StartIP, EndIP
<1>6. Addresses(Masked(c)) = x..(x + m - 1)
    BY <1>1 DEF Addresses
<1> HIDE DEF a, m, x
<1>7. a \in x..(x + m - 1) <=> x <= a /\ x + m - 1 >= a
    BY <1>1
<1> QED BY <1>1, <1>4, <1>5, <1>6, <1>7 DEF a

\* Where the list has the closed segments as well, what preprocess keeps is in none of them.
LEMMA KeptIsOpen ==
    ASSUME source \in Sources, ReadAll(source.list), ReadAll(source.cleaned), ClosedAreListed,
           NEW l \in KeptLines(source), NEW s \in ClosedSegments
    PROVE  l.sel.lo \notin Addresses(s)
<1> DEFINE tree == LoadCIDRList(source.list)
           closed == LoadCleanedCIDRs(source.cleaned, source.fab)
           seg == l.seg
           host == l.sel
<1>1. /\ l \in RichLineType /\ Keep(seg, closed)
      /\ source.kind = "targets" => seg = FindSmallestCIDR(tree, host)
    BY DEF KeptLines, PreparedLines
<1>2. seg = FindSmallestCIDR(tree, host) /\ s \in {Masked(d) : d \in ToSet(tree)}
    BY <1>1 DEF ClosedAreListed
<1>3. host \in AddressType /\ host \in CIDRType /\ seg \in CIDRType
    <2>1. host \in AddressType /\ seg \in CIDRType
        BY <1>1 DEF RichLineType
    <2> HIDE DEF host
    <2> QED BY <2>1 DEF AddressType, CIDRType
<1>4. tree \in Seq(CIDRType) /\ \A d : d \in ToSet(tree) => d \in ToSet(source.list.lines) \ {Nil}
    BY ListTyped DEF ReadAll
<1>5. /\ closed \in Seq(CIDRType)
      /\ \A d : d \in ToSet(closed) <=>
            \E r \in ToSet(source.cleaned.lines) :
                r.fab = source.fab.name /\ r.status = "close" /\ r.seg # Malformed /\ d = r.seg
    BY CleanedHas
<1>6. Query(closed, seg) = <<>> => \A d \in ToSet(closed) : ~CIDRContains(d, seg)
    <2> HIDE DEF closed, seg
    <2> QED BY <1>5, QueryHas
<1>7. \A d \in ToSet(closed) : ~CIDRContains(d, seg)
    BY <1>1, <1>6 DEF Keep
<1>8. PICK c \in ToSet(closed) : s = Masked(c)
    BY <1>5 DEF ClosedSegments
<1>9. PICK d \in ToSet(tree) : s = Masked(d)
    BY <1>2
<1>10. c \in CIDRType /\ d \in CIDRType
    BY <1>4, <1>5 DEF ToSet
<1> SUFFICES ASSUME host.lo \in Addresses(s) PROVE FALSE
    OBVIOUS
<1>11. host.lo \in Int /\ CIDRContains(d, host)
    BY <1>3, <1>9, <1>10, HostInside
<1>12. /\ seg \in ToSet(tree) /\ CIDRContains(seg, host) /\ seg.size <= d.size
    BY <1>2, <1>3, <1>4, <1>11, SmallestCIDR, Zenon
<1>13. d.size % seg.size = 0
    BY <1>4, <1>12, SourcesAssumption
<1>14. host.lo \in Addresses(Masked(seg))
    BY <1>3, <1>12, HostInside
<1>15. CIDRContains(d, seg)
    BY <1>3, <1>9, <1>10, <1>11, <1>12, <1>13, <1>14, SegmentsNest
<1>16. StartIP(c) = StartIP(d) /\ EndIP(c) = EndIP(d)
    <2>1. c.size = Masked(c).size /\ d.size = Masked(d).size
        BY DEF Masked
    <2> QED BY <1>8, <1>9, <2>1 DEF StartIP, EndIP
<1>17. CIDRContains(c, seg)
    BY <1>15, <1>16 DEF CIDRContains
<1> QED BY <1>7, <1>17

\* The rows that the scan reads from a prepared file.
LEMMA PreparedRows ==
    ASSUME ToolInv, pc # "prepare", source # Nil
    PROVE  /\ PlainFile(input) /\ DOMAIN Rows = DOMAIN out["preprocess"]
           /\ \A i \in DOMAIN Rows : /\ out["preprocess"][i] \in KeptLines(source)
                                     /\ Rows[i] = ParseRichRow(out["preprocess"][i])
<1> DEFINE lines == out["preprocess"]
<1>1. input.file.rich = TRUE /\ input.file.lines = lines /\ lines \in Seq(KeptLines(source))
    BY InputTyped
<1>2. Rows = [i \in DOMAIN lines |-> ParseRichRow(lines[i])]
    BY <1>1 DEF Rows, RowsOf
<1>3. \A i \in DOMAIN lines : lines[i] \in KeptLines(source)
    BY <1>1
<1> HIDE DEF lines
<1>4. ~HasBasicRowPorts(Rows)
    <2>1. \A i \in DOMAIN lines : Rows[i].rich = TRUE
        BY <1>2 DEF ParseRichRow
    <2>2. DOMAIN Rows = DOMAIN lines
        BY <1>2
    <2> QED BY <2>1, <2>2 DEF HasBasicRowPorts
<1>5. PlainFile(input)
    BY <1>4, PlainInput
<1> QED BY <1>2, <1>3, <1>5 DEF lines

\* A valid row of such a file asks for its address and no other.
LEMMA PreparedRow ==
    ASSUME NEW l \in KeptLines(source), NEW r, r = ParseRichRow(l)
    PROVE  /\ r.rich = TRUE /\ r.deny = FALSE /\ r.all = FALSE
           /\ r.valid = (RichCode(l) = "")
           /\ r.valid => r.sel = l.sel /\ r.port = l.port /\ r.seg = Masked(l.seg)
<1>1. l.reason = "MATCH_POLICY_ACCEPT" /\ l.decision = "accept"
    BY DEF KeptLines, PreparedLines
<1> DEFINE ok == RichCode(l) = ""
<1> DEFINE deny == ok /\ l.decision = "deny"
           all == ok /\ l.reason = "PRECHECK_ALLOW_ALL"
           seg == IF ok THEN Masked(l.seg) ELSE Malformed
           sel == IF ok THEN l.sel ELSE Malformed
           port == IF ok THEN l.port ELSE 0
<1>2. r = [rich |-> TRUE, valid |-> ok, seg |-> seg, sel |-> sel, port |-> port, deny |-> deny, all |-> all]
    BY Zenon DEF ParseRichRow
<1>3. deny = FALSE /\ all = FALSE
    BY <1>1, Zenon
<1>4. ok => sel = l.sel /\ port = l.port /\ seg = Masked(l.seg)
    BY Zenon
<1> HIDE DEF ok, deny, all, seg, sel, port
<1>5. /\ r.rich = TRUE /\ r.deny = deny /\ r.all = all /\ r.valid = ok
      /\ r.sel = sel /\ r.port = port /\ r.seg = seg
    BY <1>2
<1>6. r.rich = TRUE /\ r.deny = FALSE /\ r.all = FALSE /\ r.valid = ok
    BY <1>3, <1>5, Zenon
<1>7. r.valid => r.sel = l.sel /\ r.port = l.port /\ r.seg = Masked(l.seg)
    BY <1>4, <1>5, Zenon
<1> QED BY <1>6, <1>7 DEF ok

\* What is planned from a prepared file are the addresses of its lines.
LEMMA PlannedIsPrepared ==
    ASSUME ToolInv, pc # "prepare", source # Nil, NEW ports, NEW b, NEW t \in AllTasks(Rows, ports, b)
    PROVE  \E l \in KeptLines(source) : t[1] = l.sel.lo
<1> DEFINE rows == Rows
           lines == out["preprocess"]
<1>1. /\ DOMAIN rows = DOMAIN lines
      /\ \A i \in DOMAIN rows : lines[i] \in KeptLines(source) /\ rows[i] = ParseRichRow(lines[i])
    BY PreparedRows
<1> HIDE DEF rows, lines
<1>2. \A i \in DOMAIN rows : rows[i].rich = TRUE
    BY <1>1, PreparedRow
<1>3. t \in AllTasks(rows, ports, b)
    BY DEF rows
<1>4. PICK i \in DOMAIN rows : rows[i].valid /\ t \in (RichTargetIPs(rows[i]) \ b) \X {rows[i].port}
    <2>1. CASE HasRichRecords(rows)
        BY <1>3, <2>1 DEF AllTasks
    <2>2. CASE ~HasRichRecords(rows)
        <3>1. DOMAIN rows = {}
            BY <1>2, <2>2 DEF HasRichRecords
        <3> QED BY <1>3, <2>2, <3>1 DEF AllTasks
    <2> QED BY <2>1, <2>2
<1> DEFINE r == rows[i]
           l == lines[i]
<1>5. l \in KeptLines(source) /\ r = ParseRichRow(l) /\ r.valid /\ t[1] \in RichTargetIPs(r)
    BY <1>1, <1>4
<1> HIDE DEF r, l
<1>6. r.all = FALSE /\ r.sel = l.sel
    BY <1>5, PreparedRow
<1>7. t[1] \in Addresses(l.sel)
    <2> DEFINE A == Addresses(l.sel)
    <2>1. RichTargetIPs(r) = FilterBoundaryBroadcast(A, r.seg)
        BY <1>6, Zenon DEF RichTargetIPs
    <2> HIDE DEF A
    <2>2. FilterBoundaryBroadcast(A, r.seg) \subseteq A
        BY DEF FilterBoundaryBroadcast
    <2> QED BY <1>5, <2>1, <2>2 DEF A
<1>8. l.sel \in AddressType
    BY <1>5 DEF KeptLines, PreparedLines, RichLineType
<1>9. Addresses(l.sel) = {l.sel.lo}
    <2>1. l.sel \in CIDRType
        BY <1>8 DEF AddressType, CIDRType
    <2> QED BY <1>8, <2>1, HostInside
<1> QED BY <1>5, <1>7, <1>9

\* Theorem (NoClosedTarget).  No scan of a file that enrich-targets and preprocess have made
\* plans an address of a closed segment that the reference list has: however the segments
\* nest and overlap, whatever the tools went through, in the first run and in every resumed one.
THEOREM ClosedNeverPlanned == PrepSpec => []NoClosedTarget
<1>1. ASSUME PlanInv, ToolInv PROVE NoClosedTarget
    <2> SUFFICES ASSUME source # Nil, pc = "running", ClosedAreListed,
                        NEW i \in DOMAIN plan, NEW k \in DOMAIN plan[i], NEW s \in ClosedSegments
                 PROVE  plan[i][k][1] \notin Addresses(s)
        BY Zenon DEF NoClosedTarget
    <2>1. source \in Sources /\ AtWork /\ FileUsed /\ (source.kind = "targets" => NothingLost)
        BY <1>1 DEF ToolInv
    <2>2. source.kind = "targets"
        BY DEF ClosedAreListed
    <2>3. exit["preprocess"] = "ok" /\ exit["enrich-targets"] = "ok"
        BY <2>1, <2>2, Zenon DEF FileUsed, NothingLost
    <2>4. ~Refuses("preprocess") /\ ~Refuses("enrich-targets")
        BY <2>1, <2>3 DEF AtWork, Tools
    <2>5. ReadAll(source.list) /\ ReadAll(source.cleaned)
        BY <2>4, RefusesIs
    <2>6. PlainFile(input)
        BY <1>1, PreparedRows
    <2>7. OriginalRight /\ RunRight
        BY <1>1, <2>6 DEF PlanInv
    <2>8. DOMAIN plan = DOMAIN original /\ plan[i] = original[i]
        <3>1. plan[i] # <<>>
            OBVIOUS
        <3> QED BY <2>7, <3>1 DEF RunRight
    <2>9. original # <<>>
        BY <2>8
    <2>10. PICK b \in Lists : original = TasksOf(PlanFor(input, b))
        BY <2>7, <2>9 DEF OriginalRight
    <2>11. plan[i][k] \in AllTasks(Rows, input.ports, b)
        <3>1. \A t : t \in AllTasks(RowsOf(input.file), input.ports, b) <=>
                        \E j \in DOMAIN original : \E n \in DOMAIN original[j] : original[j][n] = t
            BY <2>6, <2>10, PlanTasks
        <3> QED BY <2>8, <3>1 DEF Rows
    <2>12. PICK l \in KeptLines(source) : plan[i][k][1] = l.sel.lo
        <3> DEFINE t == plan[i][k]
                   ports == input.ports
        <3> HIDE DEF t, ports
        <3>1. t \in AllTasks(Rows, ports, b)
            BY <2>11 DEF t, ports
        <3>2. \E l \in KeptLines(source) : t[1] = l.sel.lo
            BY <1>1, <3>1, PlannedIsPrepared
        <3> QED BY <3>2 DEF t
    <2> QED BY <2>1, <2>5, <2>12, KeptIsOpen
<1>2. PlanInv /\ ToolInv => NoClosedTarget
    BY <1>1
<1> QED BY <1>2, KeepsPlan, KeepsTools, PTL

-----------------------------------------------------------------------------
(* No opened target is lost *)

\* An address is in the segment that enrich-targets gives it.
LEMMA OwnSegment ==
    ASSUME NEW tree \in Seq(CIDRType), NEW host \in AddressType, NEW seg, seg = FindSmallestCIDR(tree, host)
    PROVE  /\ seg \in CIDRType /\ host.lo \in Addresses(Masked(seg)) /\ CIDRContains(seg, host)
           /\ seg = host \/ seg \in ToSet(tree)
<1>1. host \in CIDRType
    BY DEF AddressType, CIDRType
<1>2. seg \in CIDRType /\ (seg = host \/ (seg \in ToSet(tree) /\ CIDRContains(seg, host)))
    BY <1>1, SmallestCIDR, Zenon
<1>3. CIDRContains(host, host)
    <2>1. StartIP(host) \in Int /\ EndIP(host) \in Int
        BY <1>1 DEF StartIP, EndIP, Masked, CIDRType
    <2> QED BY <2>1 DEF CIDRContains
<1>4. CIDRContains(seg, host)
    BY <1>2, <1>3
<1>5. host.lo \in Addresses(Masked(seg))
    BY <1>2, <1>4, HostInside
<1> QED BY <1>2, <1>4, <1>5

\* preprocess keeps a target that is in no closed segment.
LEMMA OpenIsKept ==
    ASSUME source \in Sources, ReadAll(source.list), ReadAll(source.cleaned), NEW host \in AddressType,
           host # Malformed, \A s \in ClosedSegments : host.lo \notin Addresses(s),
           NEW seg, seg = FindSmallestCIDR(LoadCIDRList(source.list), host)
    PROVE  Keep(seg, LoadCleanedCIDRs(source.cleaned, source.fab))
<1> DEFINE tree == LoadCIDRList(source.list)
           closed == LoadCleanedCIDRs(source.cleaned, source.fab)
<1>1. tree \in Seq(CIDRType) /\ \A d \in ToSet(tree) : d # Malformed
    BY ListTyped
<1>2. seg \in CIDRType /\ CIDRContains(seg, host) /\ (seg = host \/ seg \in ToSet(tree))
    <2> HIDE DEF tree
    <2>1. seg = FindSmallestCIDR(tree, host)
        BY DEF tree
    <2> QED BY <1>1, <2>1, OwnSegment
<1>3. seg # Malformed
    BY <1>1, <1>2
<1>4. /\ closed \in Seq(CIDRType)
      /\ \A d : d \in ToSet(closed) <=>
            \E r \in ToSet(source.cleaned.lines) :
                r.fab = source.fab.name /\ r.status = "close" /\ r.seg # Malformed /\ d = r.seg
    BY CleanedHas
<1>5. ASSUME NEW d \in ToSet(closed), CIDRContains(d, seg) PROVE FALSE
    <2>1. d \in CIDRType
        BY <1>4 DEF ToSet
    <2>2. Masked(d) \in ClosedSegments
        BY <1>4 DEF ClosedSegments
    <2>3. host \in CIDRType
        BY DEF AddressType, CIDRType
    <2>4. \A c \in CIDRType : StartIP(c) \in Int /\ EndIP(c) \in Int
        BY DEF StartIP, EndIP, Masked, CIDRType
    <2>5. CIDRContains(d, host)
        BY <1>2, <1>5, <2>1, <2>3, <2>4 DEF CIDRContains
    <2>6. host.lo \in Addresses(Masked(d))
        BY <2>1, <2>5, HostInside
    <2> QED BY <2>2, <2>6
<1>6. Query(closed, seg) = <<>>
    <2> HIDE DEF closed
    <2> QED BY <1>4, <1>5, QueryHas
<1> QED BY <1>3, <1>6 DEF Keep

\* The source address that enrich-targets writes.
LEMMA OwnSource ==
    ASSUME NEW own, own = [lo |-> 9, size |-> 1]
    PROVE  own \in AddressType /\ own \in CIDRType /\ own # Malformed /\ NetworkContains(Masked(own), own)
<1>1. own.lo = 9 /\ own.size = 1 /\ Malformed.lo = -1
    BY DEF Malformed
<1>2. own # Malformed
    BY <1>1
<1>3. own \in AddressType /\ own \in CIDRType
    BY DEF AddressType, CIDRType
<1>4. StartIP(own) \in Int /\ EndIP(own) \in Int
    BY <1>1 DEF StartIP, EndIP, Masked
<1>5. CIDRContains(own, own)
    BY <1>4 DEF CIDRContains
<1>6. NetworkContains(Masked(own), own)
    BY <1>3, <1>5, HostInside DEF NetworkContains
<1> QED BY <1>2, <1>3, <1>6

\* The columns of a line that a tool writes.
LEMMA OutputFields ==
    ASSUME NEW src, NEW srcSeg, NEW sel, NEW seg, NEW port, NEW whole,
           NEW e, e = RichOutput(src, srcSeg, sel, seg, port, whole)
    PROVE  /\ e.complete = whole /\ e.src = src /\ e.srcSeg = srcSeg /\ e.sel = sel /\ e.seg = seg
           /\ e.protocol = "tcp" /\ e.decision = "accept" /\ e.port = port
BY DEF RichOutput

\* The line of a target with a label.
EnrichLine(e, l, tree) ==
    /\ e.complete = TRUE /\ e.src = [lo |-> 9, size |-> 1] /\ e.srcSeg = [lo |-> 9, size |-> 1]
    /\ e.protocol = "tcp" /\ e.decision = "accept" /\ e.sel = l.host /\ e.port = l.port
    /\ e.seg = FindSmallestCIDR(tree, l.host)

\* enrich-targets writes this line.
LEMMA EnrichFields ==
    ASSUME NEW l, NEW tree, NEW services, NEW e, e = Enrich(l, tree, services),
           ServiceLabel(services, l.port) # ""
    PROVE  EnrichLine(e, l, tree)
<1>1. PICK own : own = [lo |-> 9, size |-> 1]
    OBVIOUS
<1>2. PICK whole : whole = TRUE
    OBVIOUS
<1>3. PICK seg : seg = FindSmallestCIDR(tree, l.host)
    OBVIOUS
<1>4. PICK host, port : host = l.host /\ port = l.port
    OBVIOUS
<1>5. (ServiceLabel(services, l.port) # "") = whole
    BY <1>2, Zenon
<1>6. e = RichOutput(own, own, host, seg, port, whole)
    BY <1>1, <1>3, <1>4, <1>5, Zenon DEF Enrich
<1>7. /\ e.complete = whole /\ e.src = own /\ e.srcSeg = own /\ e.sel = host /\ e.seg = seg
      /\ e.protocol = "tcp" /\ e.decision = "accept" /\ e.port = port
    BY ONLY <1>6, OutputFields
<1> QED BY <1>1, <1>2, <1>3, <1>4, <1>7, Zenon DEF EnrichLine

\* A complete line of enrich-targets whose address is in its segment.
GoodLine(e) ==
    /\ e.complete = TRUE /\ e.src = [lo |-> 9, size |-> 1] /\ e.srcSeg = [lo |-> 9, size |-> 1]
    /\ e.protocol = "tcp" /\ e.decision = "accept" /\ e.sel \in AddressType /\ e.sel # Malformed
    /\ e.seg \in CIDRType /\ e.seg # Malformed /\ e.sel.lo \in Addresses(Masked(e.seg)) /\ e.port \in 1..MaxPort

\* The scan reads such a line without a complaint.
LEMMA LineIsValid ==
    ASSUME NEW e, GoodLine(e)
    PROVE  RichCode(e) = ""
<1> USE DEF GoodLine
<1>1. e.src # Malformed /\ e.srcSeg # Malformed /\ NetworkContains(Masked(e.srcSeg), e.src)
    <2> DEFINE own == e.src
    <2>1. own = [lo |-> 9, size |-> 1] /\ e.srcSeg = own
        BY Zenon
    <2> HIDE DEF own
    <2>2. own # Malformed /\ NetworkContains(Masked(own), own)
        BY <2>1, OwnSource
    <2> QED BY <2>1, <2>2, Zenon DEF own
<1>2. NetworkContains(Masked(e.seg), e.sel)
    <2> DEFINE host == e.sel
               seg == e.seg
    <2>1. host \in AddressType /\ seg \in CIDRType /\ host.lo \in Addresses(Masked(seg))
        OBVIOUS
    <2> HIDE DEF host, seg
    <2>2. NetworkContains(Masked(seg), host)
        BY <2>1, HostInside DEF NetworkContains
    <2> QED BY <2>2 DEF host, seg
<1>3. e.complete /\ e.decision \in {"accept", "deny"}
    BY Zenon
<1> QED BY <1>1, <1>2, <1>3, Zenon DEF RichCode

\* The line of a target with a label is one of these.
LEMMA OpenIsValid ==
    ASSUME source \in Sources, ReadAll(source.list), NEW l \in TargetLineType, Enrichable(l),
           ServiceLabel(source.services, l.port) # "",
           NEW e, e = Enrich(l, LoadCIDRList(source.list), source.services)
    PROVE  /\ RichCode(e) = "" /\ e.sel = l.host /\ e.port = l.port
           /\ e.seg = FindSmallestCIDR(LoadCIDRList(source.list), l.host)
<1> DEFINE tree == LoadCIDRList(source.list)
           seg == FindSmallestCIDR(tree, l.host)
           host == l.host
<1>1. tree \in Seq(CIDRType) /\ \A d \in ToSet(tree) : d # Malformed
    BY ListTyped
<1>2. host \in AddressType /\ host # Malformed /\ l.port \in 1..MaxPort
    BY DEF TargetLineType, Enrichable
<1>3. EnrichLine(e, l, tree)
    <2> DEFINE services == source.services
    <2>1. e = Enrich(l, tree, services) /\ ServiceLabel(services, l.port) # ""
        OBVIOUS
    <2> HIDE DEF services, tree
    <2> QED BY ONLY <2>1, EnrichFields
<1>4. seg = FindSmallestCIDR(tree, host)
    OBVIOUS
<1> HIDE DEF tree, seg, host
<1>5. seg \in CIDRType /\ host.lo \in Addresses(Masked(seg)) /\ (seg = host \/ seg \in ToSet(tree))
    BY <1>1, <1>2, <1>4, OwnSegment
<1>6. seg # Malformed
    BY <1>1, <1>2, <1>5
<1>7. e.sel = host /\ e.seg = seg
    BY <1>3, Zenon DEF EnrichLine, host, seg
<1>8. RichCode(e) = ""
    <2>1. GoodLine(e)
        BY <1>2, <1>3, <1>5, <1>6, <1>7, Zenon DEF GoodLine, EnrichLine
    <2> QED BY <2>1, LineIsValid
<1> QED BY <1>3, <1>8, Zenon DEF EnrichLine, tree

\* The tools have written it.
LEMMA OpenIsWritten ==
    ASSUME ToolInv, pc # "prepare", source # Nil, source.kind = "targets",
           NEW l \in ToSet(source.opened.lines), Wanted(l),
           NEW e, e = Enrich(l, LoadCIDRList(source.list), source.services)
    PROVE  /\ ReadAll(source.list) /\ l \in TargetLineType /\ e \in ToSet(out["preprocess"])
<1> DEFINE closed == LoadCleanedCIDRs(source.cleaned, source.fab)
           tree == LoadCIDRList(source.list)
           made == out["enrich-targets"]
           rows == EnrichRows
<1>1. source \in Sources /\ AtWork /\ FilesTyped /\ FileUsed /\ NothingLost
    BY DEF ToolInv
<1>2. exit["preprocess"] = "ok" /\ exit["enrich-targets"] = "ok"
    BY <1>1, Zenon DEF FileUsed, NothingLost
<1>3. ~Refuses("preprocess") /\ ~Refuses("enrich-targets") /\ ~Breaks("enrich-targets")
    BY <1>1, <1>2 DEF AtWork, Tools
<1>4. ReadAll(source.list) /\ ReadAll(source.cleaned) /\ Nil \notin ToSet(source.opened.lines)
    BY <1>3, RefusesIs DEF Breaks
<1>5. l \in TargetLineType
    <2>1. source.opened.lines \in Seq(TargetLineType \cup {Nil})
        BY <1>1, SourceTyped
    <2>2. l \in TargetLineType \cup {Nil}
        BY <2>1 DEF ToSet
    <2> QED BY <1>4, <2>2
<1>6. Enrichable(l) /\ \A s \in ClosedSegments : l.host.lo \notin Addresses(s)
    BY DEF Wanted
<1>7. l \in ToSet(rows) /\ rows \in Seq(TargetLineType)
    BY <1>1, <1>4, <1>6, EnrichRowsHas
<1>8. made = [i \in DOMAIN rows |-> Enrich(rows[i], tree, source.services)]
    <2>1. made = Output("enrich-targets")
        BY <1>1, <1>2 DEF NothingLost
    <2> QED BY <2>1, OutputIs
<1>9. e \in ToSet(made)
    <2>1. PICK i \in DOMAIN rows : rows[i] = l
        BY <1>7 DEF ToSet
    <2> HIDE DEF rows, made
    <2>2. i \in DOMAIN made /\ made[i] = e
        BY <1>8, <2>1
    <2> QED BY <2>2 DEF ToSet
<1>10. out["preprocess"] = KeptOf(made, closed)
    <2>1. out["preprocess"] = Output("preprocess")
        BY <1>1, <1>2 DEF NothingLost
    <2>2. Prepared = made
        BY DEF Prepared
    <2> QED BY <2>1, <2>2, OutputIs
<1>11. made \in Seq(PreparedLines(source))
    <2>1. "enrich-targets" \in Writers /\ LinesOf(source, "enrich-targets") = PreparedLines(source)
        BY DEF Writers, LinesOf
    <2> QED BY <1>1, <2>1 DEF FilesTyped
<1>12. Keep(e.seg, closed)
    <2> DEFINE host == l.host
               seg == e.seg
    <2>1. host \in AddressType /\ host # Malformed
        BY <1>5, <1>6 DEF TargetLineType, Enrichable
    <2>2. seg = FindSmallestCIDR(tree, host)
        <3>1. ServiceLabel(source.services, l.port) # ""
            BY DEF Wanted
        <3> QED BY <1>1, <1>4, <1>5, <1>6, <3>1, OpenIsValid
    <2>3. \A s \in ClosedSegments : host.lo \notin Addresses(s)
        BY <1>6
    <2> HIDE DEF host, seg
    <2>4. Keep(seg, closed)
        BY <1>1, <1>4, <2>1, <2>2, <2>3, OpenIsKept
    <2> QED BY <2>4 DEF seg
<1>13. e \in ToSet(out["preprocess"])
    <2> HIDE DEF made, closed
    <2>1. \A x : x \in ToSet(KeptOf(made, closed)) <=> x \in ToSet(made) /\ Keep(x.seg, closed)
        BY <1>11, PreprocessHas
    <2> QED BY <1>9, <1>10, <1>12, <2>1
<1> QED BY <1>4, <1>5, <1>13

\* So the rows ask for it.
LEMMA OpenIsAsked ==
    ASSUME ToolInv, pc # "prepare", source # Nil, source.kind = "targets",
           NEW l \in ToSet(source.opened.lines), Wanted(l), NEW ports, NEW b, l.host.lo \notin b
    PROVE  <<l.host.lo, l.port>> \in AllTasks(Rows, ports, b)
<1> DEFINE rows == Rows
           lines == out["preprocess"]
           tree == LoadCIDRList(source.list)
           e == Enrich(l, tree, source.services)
           a == l.host.lo
<1>1. ReadAll(source.list) /\ l \in TargetLineType /\ e \in ToSet(lines) /\ source \in Sources
    BY OpenIsWritten DEF ToolInv
<1>2. /\ Enrichable(l) /\ ServiceLabel(source.services, l.port) # ""
      /\ a \in FilterBoundaryBroadcast({a}, Masked(FindSmallestCIDR(tree, l.host)))
    BY DEF Wanted
<1>3. RichCode(e) = "" /\ e.sel = l.host /\ e.port = l.port /\ e.seg = FindSmallestCIDR(tree, l.host)
    BY <1>1, <1>2, OpenIsValid
<1>4. /\ DOMAIN rows = DOMAIN lines
      /\ \A i \in DOMAIN rows : lines[i] \in KeptLines(source) /\ rows[i] = ParseRichRow(lines[i])
    BY PreparedRows
<1> HIDE DEF rows, lines, e
<1>5. \A i \in DOMAIN rows : rows[i].rich = TRUE /\ rows[i].deny = FALSE
    BY <1>4, PreparedRow
<1>6. PICK i \in DOMAIN lines : lines[i] = e
    BY <1>1 DEF ToSet
<1> DEFINE r == rows[i]
<1>7. e \in KeptLines(source) /\ r = ParseRichRow(e) /\ i \in DOMAIN rows
    BY <1>4, <1>6
<1> HIDE DEF r
<1>8. r.all = FALSE /\ r.valid /\ r.sel = l.host /\ r.port = l.port /\ r.seg = Masked(e.seg)
    BY <1>3, <1>7, PreparedRow
<1>9. Addresses(l.host) = {a}
    <2>1. l.host \in AddressType
        BY <1>1 DEF TargetLineType
    <2>2. l.host \in CIDRType
        BY <2>1 DEF AddressType, CIDRType
    <2> QED BY <2>1, <2>2, HostInside
<1>10. a \in RichTargetIPs(r)
    <2>1. RichTargetIPs(r) = FilterBoundaryBroadcast(Addresses(r.sel), r.seg)
        BY <1>8, Zenon DEF RichTargetIPs
    <2> QED BY <1>2, <1>3, <1>8, <1>9, <2>1, Zenon
<1>11. DeniedKeys(rows) = {}
    BY <1>5 DEF DeniedKeys, RichRecordDenied
<1>12. HasRichRecords(rows)
    BY <1>5, <1>7 DEF HasRichRecords
<1>13. <<a, l.port>> \in (RichTargetIPs(rows[i]) \ b) \X {rows[i].port}
    BY <1>8, <1>10 DEF r
<1>14. i \in {j \in DOMAIN rows : rows[j].valid /\ ~rows[j].deny}
    BY <1>5, <1>7, <1>8 DEF r
<1> DEFINE all == UNION {(RichTargetIPs(rows[j]) \ b) \X {rows[j].port}
                         : j \in {k \in DOMAIN rows : rows[k].valid /\ ~rows[k].deny}}
<1>15. <<a, l.port>> \in all
    BY <1>13, <1>14
<1>16. AllTasks(rows, ports, b) = all \ DeniedKeys(rows)
    BY <1>12, Zenon DEF AllTasks
<1> HIDE DEF all
<1> QED BY <1>11, <1>15, <1>16 DEF rows

\* Theorem (OpenTargetsSurvive).  A scan that ends has scanned every opened target that is in
\* no closed segment, has a label, is not the last address of its segment and answers: no
\* tool and no run loses a row and returns 0, although disks fill up, inputs break, tools are
\* killed and run again and the scan is interrupted and resumed.  For a blocklist that has
\* the dead addresses and no others.
THEOREM OpenAlwaysScanned == PrepSpec => [](ListFits => OpenTargetsSurvive)
<1>1. ASSUME PlanInv, ToolInv, ListFits PROVE OpenTargetsSurvive
    <2> SUFFICES ASSUME source # Nil, pc = "done", source.kind = "targets",
                        NEW l \in ToSet(source.opened.lines), Wanted(l), l.host.lo \notin input.dead
                 PROVE  \E x \in scanned : x[3] = <<l.host.lo, l.port>>
        BY Zenon DEF OpenTargetsSurvive
    <2>1. PlainFile(input)
        BY <1>1, PreparedRows
    <2>2. EveryTargetOnce
        BY <1>1, <2>1, TargetsCountOnce
    <2>3. {x[3] : x \in scanned} = AllTasks(Rows, input.ports, input.dead)
        BY <2>2 DEF EveryTargetOnce
    <2>4. <<l.host.lo, l.port>> \in AllTasks(Rows, input.ports, input.dead)
        BY <1>1, OpenIsAsked
    <2> QED BY <2>3, <2>4
<1>2. PlanInv /\ ToolInv => (ListFits => OpenTargetsSurvive)
    BY <1>1
<1> QED BY <1>2, KeepsPlan, KeepsTools, PTL
=============================================================================
