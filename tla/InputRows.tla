------------------------------ MODULE InputRows ------------------------------
(***************************************************************************)
(* pkg/input: what the loader makes of the CIDR file.  A file is           *)
(*   [rich, lines]                                                         *)
(* where rich says that the header names all rich columns; the fields of a *)
(* line are values of the small sets of the model, an address or a segment *)
(* that does not parse is Malformed.  Labels and other metadata are left   *)
(* out; an absent one makes the line incomplete.                           *)
(***************************************************************************)
EXTENDS TargetGroups

CONSTANTS MaxPort,          \* 65535
          MaxRecords,       \* -cidr-input-record-limit; 0 disables it
          MaxPortRecords    \* -port-input-record-limit; 0 disables it

ASSUME InputAssumption == MaxPort \in Nat \ {0} /\ MaxRecords \in Nat /\ MaxPortRecords \in Nat

Malformed == [lo |-> -1, size |-> 1]

CIDRType    == [lo : Int, size : Nat \ {0}]
AddressType == [lo : Int, size : {1}]

\* "udp", "maybe" and "" stand for every other protocol, decision and reason.
RichLineType ==
    [complete : BOOLEAN, src : AddressType, srcSeg : CIDRType, sel : AddressType, seg : CIDRType,
     protocol : {"tcp", "udp"}, decision : {"accept", "deny", "maybe"}, port : Int,
     reason : {"PRECHECK_ALLOW_ALL", "MATCH_POLICY_ACCEPT", ""}]
BasicLineType == [seg : CIDRType, sel : CIDRType, port : Int]

FileType == [rich : {TRUE}, lines : Seq(RichLineType)] \cup [rich : {FALSE}, lines : Seq(BasicLineType)]

\* net.ParseCIDR and Prefix.Masked: host bits are dropped.
Masked(s) == [lo |-> s.lo - (s.lo % s.size), size |-> s.size]

NetworkContains(outer, inner) == Addresses(inner) \subseteq Addresses(outer)

\* parseRichRow: the first check that fails names the code.
RichCode(l) ==
    CASE ~l.complete                               -> "missing_field"
      [] l.src = Malformed                         -> "invalid_src_ip"
      [] l.sel = Malformed                         -> "invalid_dst_ip"
      [] l.srcSeg = Malformed                      -> "invalid_src_network_segment"
      [] l.seg = Malformed                         -> "invalid_dst_network_segment"
      [] ~NetworkContains(Masked(l.srcSeg), l.src) -> "src_containment_mismatch"
      [] ~NetworkContains(Masked(l.seg), l.sel)    -> "dst_containment_mismatch"
      [] l.protocol # "tcp"                        -> "invalid_protocol"
      [] l.decision \notin {"accept", "deny"}      -> "invalid_decision"
      [] l.port \notin 1..MaxPort                  -> "invalid_port"
      [] OTHER                                     -> ""

\* A line that fails keeps its place as an invalid row without segment.
ParseRichRow(l) ==
    LET ok == RichCode(l) = "" IN
    [rich |-> TRUE, valid |-> ok, seg |-> IF ok THEN Masked(l.seg) ELSE Malformed,
     sel |-> IF ok THEN l.sel ELSE Malformed, port |-> IF ok THEN l.port ELSE 0,
     deny |-> ok /\ l.decision = "deny", all |-> ok /\ l.reason = "PRECHECK_ALLOW_ALL"]

\* The port column may be absent or blank: 0.
BasicLineParses(l) ==
    l.sel # Malformed /\ l.seg # Malformed /\ l.port \in 0..MaxPort

ParseBasicRow(l) ==
    [rich |-> FALSE, valid |-> TRUE, seg |-> Masked(l.seg), sel |-> Masked(l.sel),
     port |-> l.port, deny |-> FALSE, all |-> FALSE]

RowsOf(file) ==
    [i \in DOMAIN file.lines |-> IF file.rich THEN ParseRichRow(file.lines[i])
                                 ELSE ParseBasicRow(file.lines[i])]

-----------------------------------------------------------------------------
(* The duplicate table of ValidateIPRows *)

\* The smallest power of two that holds a quarter more than the rows.
TableCapacity(count) ==
    LET p[k \in 0..count] == IF k = 0 THEN 1
                             ELSE IF p[k - 1] < count + count \div 4 THEN 2 * p[k - 1] ELSE p[k - 1]
    IN  p[count]

\* Mutant: equal hashes are taken for equal rows.
SameHash(row, other, hash) == hash[row] = hash[other]

SameRow(row, other, hash) == hash[row] = hash[other] /\ row = other

\* Linear probing: the first slot that is empty or holds the same row; none at all
\* would be a loop that never ends.
Probe(slots, rows, hash, n) ==
    LET At(k) == ((hash[rows[n]] + k) % Len(slots)) + 1
        Ends(k) == slots[At(k)] = 0 \/ SameRow(rows[slots[At(k)]], rows[n], hash)
    IN  {At(k) : k \in {k \in 0..(Len(slots) - 1) : Ends(k) /\ \A j \in 0..(k - 1) : ~Ends(j)}}

\* The slots after the rows 1..n (a row number each, 0 for empty) and the verdict.
DuplicateTable(rows, hash) ==
    LET table[n \in 0..Len(rows)] ==
            IF n = 0 THEN [slots |-> [i \in 1..TableCapacity(Len(rows)) |-> 0], verdict |-> "distinct"]
            ELSE LET slots == table[n - 1].slots
                     at == Probe(slots, rows, hash, n)
                 IN  IF table[n - 1].verdict # "distinct" THEN table[n - 1]
                     ELSE IF at = {} THEN [slots |-> slots, verdict |-> "endless"]
                     ELSE IF \E i \in at : slots[i] # 0 THEN [slots |-> slots, verdict |-> "duplicate"]
                     ELSE [slots |-> [i \in DOMAIN slots |-> IF i \in at THEN n ELSE slots[i]],
                           verdict |-> "distinct"]
    IN  table[Len(rows)].verdict

\* Only the basic loader validates: no row twice, every selector in its segment.
ValidateIPRows(rows, hash) ==
    /\ DuplicateTable(rows, hash) = "distinct"
    /\ \A i \in DOMAIN rows : NetworkContains(rows[i].seg, rows[i].sel)

\* LoadCIDRsFileWithColumnsContext returns no error.
Loads(file, hash) ==
    /\ file.lines # <<>>
    /\ MaxRecords > 0 => Len(file.lines) <= MaxRecords
    /\ IF file.rich
       THEN \E i \in DOMAIN file.lines : RowsOf(file)[i].valid
       ELSE /\ \A i \in DOMAIN file.lines : BasicLineParses(file.lines[i])
            /\ ValidateIPRows(RowsOf(file), hash)

\* LoadPortsContextWithLimits: every line is a tcp port; a port may come twice.
PortsLoad(ports) ==
    /\ MaxPortRecords > 0 => Len(ports) <= MaxPortRecords
    /\ \A i \in DOMAIN ports : ports[i] \in 1..MaxPort
=============================================================================
