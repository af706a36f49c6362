---------------------------- MODULE TargetGroups ----------------------------
(***************************************************************************)
(* pkg/scanapp group_builder.go, basic_target_resolution.go and pkg/task:  *)
(* how the rows of the CIDR file become groups of scan tasks.              *)
(*                                                                         *)
(* An address is a number; a network segment is [lo, size], its first      *)
(* address and its size (a power of two).  A row is                        *)
(*   [rich, valid, seg, sel, port, deny, all]                              *)
(* with its segment, its address selector (rich: dst_ip, a segment of size *)
(* 1), its port (0: none, basic rows only), and for a rich row the deny    *)
(* decision and the reason PRECHECK_ALLOW_ALL.  An execution key is the    *)
(* pair <<address, port>>: the parser builds it from dst_ip and port, and  *)
(* tcp is the only protocol it accepts.  Row metadata is left out.         *)
(***************************************************************************)
EXTENDS Integers, FiniteSets, SequencesExt

\* The elements of S in the order Before: the k-th has k - 1 others before it.
Sorted(S, Before(_, _)) ==
    [k \in 1..Cardinality(S) |-> CHOOSE x \in S : Cardinality({y \in S : Before(y, x)}) = k - 1]

\* The elements of a sequence at the places I, in their order.
Selected(s, I) ==
    LET at == Sorted(I, <) IN [k \in 1..Cardinality(I) |-> s[at[k]]]

Addresses(s) == s.lo..(s.lo + s.size - 1)

\* /31 and /32 have no broadcast address.
FilterBoundaryBroadcast(ips, seg) ==
    IF seg.size <= 2 THEN ips ELSE ips \ {seg.lo + seg.size - 1}

\* reachablePredicate: a search in the sorted blocklist, without repetitions.
Reachable(ips, blocked) == ips \ blocked

\* A total order that stands for the order of the CIDR strings by which groups are
\* sorted; no property depends on which one it is.
CIDRBefore(s, t) == s.lo < t.lo \/ (s.lo = t.lo /\ s.size > t.size)

Segments(rows) == {rows[i].seg : i \in DOMAIN rows}

\* A group: its segment, the ports of its chunk, the targets it stores and the
\* tasks in index order.
Group(cidr, ports, entries, tasks) ==
    [cidr |-> cidr, ports |-> ports, entries |-> entries, tasks |-> tasks]

-----------------------------------------------------------------------------
(* Rich rows *)

RichRecordDenied(r) == r.rich /\ r.valid /\ r.deny

DeniedKeys(rows) ==
    {<<rows[i].sel.lo, rows[i].port>> : i \in {j \in DOMAIN rows : RichRecordDenied(rows[j])}}

\* PRECHECK_ALLOW_ALL expands the segment, any other reason is the dst_ip alone.
RichTargetIPs(r) ==
    FilterBoundaryBroadcast(Addresses(IF r.all THEN r.seg ELSE r.sel), r.seg)

\* Mutant: a deny row acts only on the rows below it.
DeniedAbove(rows, i, blocked) ==
    IF ~rows[i].rich \/ ~rows[i].valid \/ RichRecordDenied(rows[i]) THEN {}
    ELSE {<<a, rows[i].port>> : a \in Reachable(RichTargetIPs(rows[i]), blocked)}
            \ DeniedKeys(SubSeq(rows, 1, i))

\* The tasks that a row brings: authorized and reachable.
RichTargets(rows, i, blocked) ==
    IF ~rows[i].rich \/ ~rows[i].valid \/ RichRecordDenied(rows[i]) THEN {}
    ELSE {<<a, rows[i].port>> : a \in Reachable(RichTargetIPs(rows[i]), blocked)} \ DeniedKeys(rows)

\* ownerByExecutionKey: the first row to bring a task owns it, for its segment.
OwnedTargets(rows, cidr, blocked) ==
    UNION {{t \in RichTargets(rows, i, blocked) :
                \A j \in 1..(i - 1) : t \notin RichTargets(rows, j, blocked)}
           : i \in {j \in DOMAIN rows : rows[j].seg = cidr}}

\* sortRichGroups: by address, then by port.
TargetBefore(t, u) == t[1] < u[1] \/ (t[1] = u[1] /\ t[2] < u[2])

\* One dedicated port per target; the chunk names the first one.
RichGroup(cidr, owned) ==
    LET tasks == Sorted(owned, TargetBefore)
    IN  Group(cidr, <<tasks[1][2]>>, owned, tasks)

RichGroups(rows, blocked) ==
    {RichGroup(c, OwnedTargets(rows, c, blocked)) :
        c \in {s \in Segments(rows) : OwnedTargets(rows, s, blocked) # {}}}

-----------------------------------------------------------------------------
(* Basic rows *)

BasicTargetIPs(r, blocked) ==
    Reachable(FilterBoundaryBroadcast(Addresses(r.sel), r.seg), blocked)

HasBasicRowPorts(rows) == \E i \in DOMAIN rows : ~rows[i].rich /\ rows[i].port > 0

\* indexToRuntimeTarget: the port varies fastest.
IndexedTasks(ips, ports) ==
    [k \in 1..(Len(ips) * Len(ports)) |->
        <<ips[((k - 1) \div Len(ports)) + 1], ports[((k - 1) % Len(ports)) + 1]>>]

BasicGroup(cidr, ports, ips) ==
    Group(cidr, ports, ips, IndexedTasks(Sorted(ips, <), ports))

\* No row has a port: an address goes to the first segment, in string order,
\* that has it, with all fallback ports.
FallbackGroups(rows, ports, blocked) ==
    LET IPs(c) == UNION {BasicTargetIPs(rows[i], blocked) : i \in {j \in DOMAIN rows : rows[j].seg = c}}
        Kept(c) == {a \in IPs(c) : \A d \in Segments(rows) : CIDRBefore(d, c) => a \notin IPs(d)}
    IN  {BasicGroup(c, ports, Kept(c)) : c \in {s \in Segments(rows) : Kept(s) # {}}}

PortList(r, fallback) == IF r.port > 0 THEN <<r.port>> ELSE fallback

\* Some row has a port: the first row to bring an <<address, port>> owns it, and
\* the addresses of a segment that own the same ports, in the order in which they
\* got them, are one group.
RowPortGroups(rows, fallback, blocked) ==
    LET Brings(i, a, p) == /\ a \in BasicTargetIPs(rows[i], blocked)
                           /\ p \in ToSet(PortList(rows[i], fallback))
        New(i, a, p) == Brings(i, a, p) /\ \A j \in 1..(i - 1) : ~Brings(j, a, p)
        Gets(i, a) == LET list == PortList(rows[i], fallback)
                      IN  Selected(list, {k \in DOMAIN list : New(i, a, list[k])})
        Ports(c, a) == FlattenSeq([i \in DOMAIN rows |->
                        IF rows[i].seg = c THEN Gets(i, a) ELSE <<>>])
        IPs(c) == {a \in Addresses(c) : Ports(c, a) # <<>>}
    IN  UNION {{BasicGroup(c, q, {a \in IPs(c) : Ports(c, a) = q}) : q \in {Ports(c, a) : a \in IPs(c)}}
               : c \in Segments(rows)}

\* A row that brings addresses has a port of its own or a fallback.
HasPortSource(rows, fallback, blocked) ==
    \A i \in DOMAIN rows :
        BasicTargetIPs(rows[i], blocked) # {} => PortList(rows[i], fallback) # <<>>

\* The first occurrence of each fallback port.
UniquePorts(ports) ==
    Selected(ports, {i \in DOMAIN ports : \A j \in 1..(i - 1) : ports[j] # ports[i]})

BasicGroups(rows, fallback, blocked) ==
    IF ~HasBasicRowPorts(rows) /\ fallback # <<>>
    THEN FallbackGroups(rows, UniquePorts(fallback), blocked)
    ELSE RowPortGroups(rows, UniquePorts(fallback), blocked)

-----------------------------------------------------------------------------

HasRichRecords(rows) == \E i \in DOMAIN rows : rows[i].rich

Groups(rows, fallback, blocked) ==
    IF HasRichRecords(rows) THEN RichGroups(rows, blocked)
    ELSE BasicGroups(rows, fallback, blocked)

Resolvable(rows, fallback, blocked) ==
    HasRichRecords(rows) \/ HasPortSource(rows, fallback, blocked)

PortsBefore(p, q) ==
    \E k \in 1..Len(q) : /\ k = Len(p) + 1 \/ (k <= Len(p) /\ p[k] < q[k])
                         /\ \A j \in 1..(k - 1) : p[j] = q[j]

\* sort.Strings on the keys of the groups.
KeyBefore(g, h) == CIDRBefore(g.cidr, h.cidr) \/ (g.cidr = h.cidr /\ PortsBefore(g.ports, h.ports))

\* What is to be scanned, whoever owns it: the reference for the groups.
AllTasks(rows, fallback, blocked) ==
    IF HasRichRecords(rows)
    THEN (UNION {(RichTargetIPs(rows[i]) \ blocked) \X {rows[i].port}
                 : i \in {j \in DOMAIN rows : rows[j].valid /\ ~rows[j].deny}}) \ DeniedKeys(rows)
    ELSE UNION {BasicTargetIPs(rows[i], blocked) \X ToSet(PortList(rows[i], fallback))
                : i \in DOMAIN rows}
=============================================================================
