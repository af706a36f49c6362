----------------------------- MODULE TargetPrep -----------------------------
(***************************************************************************)
(* The tools that prepare the CIDR file of a scan: enrich-targets or       *)
(* csv-transform, then preprocess; cidr-compare reports on the side.  What *)
(* they write is the input of TargetPlan.                                  *)
(*                                                                         *)
(* A CSV file is [columns, lines]: whether its header has the required     *)
(* columns, and its records; Nil is a record that the CSV reader refuses   *)
(* (bad quotes, or not as many fields as the header).                      *)
(***************************************************************************)
EXTENDS TargetPlan

CONSTANTS
    Sources,            \* what the operator starts from
    TransformSegment    \* defaultSrcNetwork and defaultDstNetwork

\* A CSV file with such records.
CSVType(lineType) == [columns : BOOLEAN, lines : Seq(lineType \cup {Nil})]

TargetLineType  == [host : AddressType, port : Int]
TableLineType   == [pass : STRING, host : AddressType \cup {Nil}, ports : Seq(Int)]
CleanedLineType == [fab : STRING, seg : CIDRType, status : STRING]

\* Sizes of segments are powers of two: the larger is a multiple of the smaller.
ASSUME SourcesAssumption ==
    /\ TransformSegment \in CIDRType /\ Nil \notin Sources
    /\ \A s \in Sources :
        /\ {"file", "ports", "dead", "list", "limits"} \subseteq DOMAIN s.input
        /\ s.input.ports \in Seq(Int) /\ s.input.dead \in SUBSET Nat /\ IsLimits(s.input.limits)
        /\ \/ s.kind = "targets" /\ s.opened \in CSVType(TargetLineType)
           \/ s.kind = "table" /\ s.opened \in CSVType(TableLineType)
        /\ s.list \in CSVType(CIDRType) /\ s.cleaned \in CSVType(CleanedLineType)
        /\ \A n \in DOMAIN s.dns : s.dns[n] \in AddressType
        /\ \A c, d \in ToSet(s.list.lines) \ {Nil} : c.size <= d.size => d.size % c.size = 0

Tools == {"csv-transform", "enrich-targets", "preprocess", "cidr-compare"}

VARIABLES
    source,    \* Nil: the operator has a CIDR file already
    tool,      \* the tool at work; "" for none
    pending,   \* rows that it has yet to write
    cut,       \* its input breaks after them
    buffered,  \* rows in the buffer of its CSV writer
    out,       \* by tool, the rows in its output file
    exit       \* by tool, how it ended last: "none", "ok" or "error"

toolVars == <<tool, pending, cut, buffered, out, exit>>
prepVars == <<source, toolVars>>

\* Files that are read as a whole.
ReadAll(file) == file.columns /\ Nil \notin ToSet(file.lines)

-----------------------------------------------------------------------------
(* pkg/cidrutil: StartIP and EndIP bound the masked range *)

StartIP(s) == Masked(s).lo
EndIP(s)   == Masked(s).lo + s.size - 1

CIDRContains(deny, open) == StartIP(deny) <= StartIP(open) /\ EndIP(deny) >= EndIP(open)

Query(tree, s) == Selected(tree, {i \in DOMAIN tree : CIDRContains(tree[i], s)})

Parsed(segs) == Selected(segs, {i \in DOMAIN segs : segs[i] # Malformed})

-----------------------------------------------------------------------------
(* enrich-targets *)

\* A first line that is no CIDR is the header; others are skipped with a warning.
LoadCIDRList(file) == Parsed(file.lines)

\* The last line for a port decides; without one there is the fallback label.
ServiceLabel(file, port) ==
    LET hits == Selected(file.lines, {i \in DOMAIN file.lines : file.lines[i].port = port})
    IN  IF hits = <<>> THEN "unknown" ELSE Last(hits).label

\* Mutant: the first match is taken.
FindFirstCIDR(tree, host) ==
    LET matches == Query(tree, host) IN IF matches = <<>> THEN host ELSE Head(matches)

\* The first of the smallest matches as it is written in the list, or host/32.
FindSmallestCIDR(tree, host) ==
    LET matches == Query(tree, host)
        Least(i) == \A j \in DOMAIN matches : matches[i].size <= matches[j].size
    IN  IF matches = <<>> THEN host ELSE Head(Selected(matches, {i \in DOMAIN matches : Least(i)}))

RichOutput(source_ip, source_seg, host, seg, port, complete) ==
    [complete |-> complete, src |-> source_ip, srcSeg |-> source_seg, sel |-> host, seg |-> seg,
     protocol |-> "tcp", decision |-> "accept", port |-> port, reason |-> "MATCH_POLICY_ACCEPT"]

\* A host or a port that Enrich refuses costs the row; a blank label does not.
Enrichable(l) == l.host # Malformed /\ l.port \in 1..MaxPort

Enrich(l, tree, services) ==
    RichOutput([lo |-> 9, size |-> 1], [lo |-> 9, size |-> 1], l.host,
               FindSmallestCIDR(tree, l.host), l.port, ServiceLabel(services, l.port) # "")

-----------------------------------------------------------------------------
(* csv-transform *)

ShouldIncludeRow(l) == l.pass = "FALSE"

\* A part that is no number drops the row; 0 stands for an empty part.
SplitPorts(ports) ==
    IF Malformed.lo \in ToSet(ports) THEN <<>> ELSE Selected(ports, {i \in DOMAIN ports : ports[i] # 0})

\* A name that does not resolve is passed on; no parser takes it for an address.
ResolveHost(host, dns) == IF host \in DOMAIN dns THEN dns[host] ELSE host

TransformRow(l, dns) ==
    LET ports == SplitPorts(l.ports) IN
    IF ~ShouldIncludeRow(l) \/ l.host = Nil THEN <<>>
    ELSE [i \in DOMAIN ports |->
            RichOutput([lo |-> TransformSegment.lo, size |-> 1], TransformSegment,
                       ResolveHost(l.host, dns), TransformSegment, ports[i], TRUE)]

-----------------------------------------------------------------------------
(* preprocess *)

\* Empty, a path, a relative element, a character or a tail that Windows does not
\* allow, a device: a fab name is given with the flaws that it has.
ValidateFabName(fab) == fab.flaws = {}

LoadCleanedCIDRs(file, fab) ==
    LET Closes(l) == l.fab = fab.name /\ l.status = "close"
        rows == Selected(file.lines, {i \in DOMAIN file.lines : Closes(file.lines[i])})
    IN  Parsed([i \in DOMAIN rows |-> rows[i].seg])

Keep(seg, closed) == seg # Malformed /\ Query(closed, seg) = <<>>

-----------------------------------------------------------------------------
(* cidr-compare *)

\* A record with the wanted status must hold a CIDR; others are not parsed.
ParseCSV(file, wanted) ==
    LET rows == Selected(file.lines, {i \in DOMAIN file.lines : file.lines[i].status = wanted})
    IN  [i \in DOMAIN rows |-> rows[i].seg]

CompareParses(file, wanted) == ReadAll(file) /\ Malformed \notin ToSet(ParseCSV(file, wanted))

Matches(denied, opened) ==
    FlattenSeq([i \in DOMAIN opened |->
        LET hits == Query(denied, opened[i])
        IN  [j \in DOMAIN hits |-> <<hits[j], opened[i]>>]])

-----------------------------------------------------------------------------
(* What a tool writes, in order, and what makes it stop before it creates a file *)

\* The records before the first that the CSV reader refuses.
ReadRows(lines) == Selected(lines, {i \in DOMAIN lines : \A j \in 1..i : lines[j] # Nil})

Prepared == IF source.kind = "targets" THEN out["enrich-targets"] ELSE out["csv-transform"]

Refuses(t) ==
    CASE t = "enrich-targets" -> \/ ~ReadAll(source.list) \/ ~ReadAll(source.services)
                                 \/ ~source.opened.columns
      [] t = "csv-transform"  -> source.opened.lines # <<>> /\ ~ReadAll(source.opened)
      [] t = "preprocess"     -> ~ValidateFabName(source.fab) \/ ~ReadAll(source.cleaned)
      [] t = "cidr-compare"   -> \/ ~CompareParses(source.policy, "deny")
                                 \/ ~CompareParses(source.cleaned, "open")

Output(t) ==
    CASE t = "enrich-targets" ->
            LET read == ReadRows(source.opened.lines)
                rows == Selected(read, {i \in DOMAIN read : Enrichable(read[i])})
                tree == LoadCIDRList(source.list)
            IN  [i \in DOMAIN rows |-> Enrich(rows[i], tree, source.services)]
      [] t = "csv-transform" ->
            FlattenSeq([i \in DOMAIN source.opened.lines |->
                            TransformRow(source.opened.lines[i], source.dns)])
      [] t = "preprocess" ->
            LET closed == LoadCleanedCIDRs(source.cleaned, source.fab)
            IN  Selected(Prepared, {i \in DOMAIN Prepared : Keep(Prepared[i].seg, closed)})
      [] t = "cidr-compare" ->
            Matches(ParseCSV(source.policy, "deny"), ParseCSV(source.cleaned, "open"))

\* enrich-targets reads its input as it goes.
Breaks(t) == t = "enrich-targets" /\ Nil \in ToSet(source.opened.lines)

-----------------------------------------------------------------------------
(* A tool at work *)

\* The operator goes on when a tool has returned 0, and else runs it again.
Ready(t) ==
    /\ tool = "" /\ exit[t] # "ok" /\ pc = "prepare"
    /\ CASE t = "enrich-targets" -> source.kind = "targets"
         [] t = "csv-transform"  -> source.kind = "table"
         [] t = "preprocess"     -> exit["enrich-targets"] = "ok" \/ exit["csv-transform"] = "ok"
         [] t = "cidr-compare"   -> source.kind = "targets" /\ exit["enrich-targets"] = "none"

Exit(code) ==
    /\ tool' = "" /\ pending' = <<>> /\ cut' = FALSE /\ buffered' = <<>>
    /\ exit' = [exit EXCEPT ![tool] = code]

\* The inputs are refused, or a file cannot be opened or created.
ToolRefuses(t) ==
    /\ Ready(t) /\ exit' = [exit EXCEPT ![t] = "error"]
    /\ UNCHANGED <<tool, pending, cut, buffered, out>>

\* csv-transform has nothing to do without a data row: it leaves its output alone.
NothingToTransform ==
    /\ Ready("csv-transform") /\ ~Refuses("csv-transform") /\ source.opened.lines = <<>>
    /\ exit' = [exit EXCEPT !["csv-transform"] = "ok"]
    /\ UNCHANGED <<tool, pending, cut, buffered, out>>

\* os.Create empties the output of an earlier attempt.
ToolStarts(t) ==
    /\ Ready(t) /\ ~Refuses(t)
    /\ t = "csv-transform" => source.opened.lines # <<>>
    /\ tool' = t /\ pending' = Output(t) /\ cut' = Breaks(t) /\ buffered' = <<>>
    /\ out' = [out EXCEPT ![t] = <<>>] /\ UNCHANGED exit

Spill == out' = [out EXCEPT ![tool] = @ \o buffered \o <<Head(pending)>>] /\ buffered' = <<>>

\* A row goes to the buffer, which may be full; cidr-compare has none.
WriteRow ==
    /\ tool # "" /\ pending # <<>>
    /\ pending' = Tail(pending) /\ UNCHANGED <<tool, cut, exit>>
    /\ \/ Spill
       \/ tool # "cidr-compare" /\ buffered' = Append(buffered, Head(pending)) /\ UNCHANGED out

\* A write fails, the input breaks, or the tool is killed: no code 0.
ToolStops == tool # "" /\ Exit("error") /\ UNCHANGED out

\* Mutant: the error of the writer is not asked for.
FlushUnchecked ==
    \/ out' = [out EXCEPT ![tool] = @ \o buffered] /\ \E code \in {"ok", "error"} : Exit(code)
    \/ Exit("ok") /\ UNCHANGED out

\* Flush and Close are checked; csv-transform defers both and asks neither.
FlushOutput ==
    \/ /\ out' = [out EXCEPT ![tool] = @ \o buffered]
       /\ \E code \in {"ok", "error"} : Exit(code)
    \/ Exit(IF tool = "csv-transform" THEN "ok" ELSE "error") /\ UNCHANGED out

ToolEnds == tool # "" /\ pending = <<>> /\ ~cut /\ FlushOutput

Work ==
    /\ \/ \E t \in Tools : ToolRefuses(t) \/ ToolStarts(t)
       \/ NothingToTransform \/ WriteRow \/ ToolStops \/ ToolEnds
    /\ UNCHANGED <<vars, source>>

\* The prepared file becomes the -cidr-file of the scan.
UsePrepared ==
    /\ pc = "prepare" /\ exit["preprocess"] = "ok" /\ pc' = "stat"
    /\ input' = [input EXCEPT !.file = [rich |-> TRUE, lines |-> out["preprocess"]]]
    /\ UNCHANGED <<consumed, genVars, cancelled, disk, scanVars, original, scanned, prepVars>>

-----------------------------------------------------------------------------

PrepInit ==
    /\ groups = <<>> /\ slots = <<>> /\ consumed = 0 /\ cancelled = FALSE /\ disk = Nil
    /\ snapshot = Nil /\ plan = <<>> /\ stored = 0 /\ original = <<>> /\ scanned = {}
    /\ tool = "" /\ pending = <<>> /\ cut = FALSE /\ buffered = <<>>
    /\ out = [t \in Tools |-> <<>>] /\ exit = [t \in Tools |-> "none"]
    /\ \/ source = Nil /\ input \in Inputs /\ pc = "stat"
       \/ source \in Sources /\ input = source.input /\ pc = "prepare"

PrepNext == Work \/ UsePrepared \/ (Next /\ UNCHANGED prepVars)

PrepSpec == PrepInit /\ [][PrepNext]_<<vars, prepVars>>

-----------------------------------------------------------------------------
(* What the chain of tools promises *)

ClosedSegments ==
    {Masked(l.seg) : l \in {r \in ToSet(source.cleaned.lines) :
                        r.fab = source.fab.name /\ r.status = "close" /\ r.seg # Malformed}}

\* preprocess looks at segments alone: that says something about hosts when the
\* reference list of enrich-targets has the closed segments as well.
ClosedAreListed ==
    source.kind = "targets" /\ ClosedSegments \subseteq {Masked(s) : s \in ToSet(LoadCIDRList(source.list))}

\* No scan of a file that enrich-targets and preprocess have made plans a target in
\* a segment that is closed, however the segments nest and overlap.
NoClosedTarget ==
    source # Nil /\ pc = "running" /\ ClosedAreListed =>
        \A i \in DOMAIN plan : \A k \in DOMAIN plan[i] :
            \A s \in ClosedSegments : plan[i][k][1] \notin Addresses(s)

\* The target, unless its label is blank or it is the last address of the segment
\* that the list gives it.
Wanted(l) ==
    /\ Enrichable(l) /\ ServiceLabel(source.services, l.port) # ""
    /\ \A s \in ClosedSegments : l.host.lo \notin Addresses(s)
    /\ l.host.lo \in FilterBoundaryBroadcast({l.host.lo}, Masked(FindSmallestCIDR(LoadCIDRList(source.list), l.host)))

\* A scan that ends has scanned every opened target that is in no closed segment:
\* no tool loses rows and returns 0, although disks fill up, inputs break and tools
\* are killed and run again.
OpenTargetsSurvive ==
    source # Nil /\ pc = "done" /\ source.kind = "targets" =>
        \A l \in ToSet(source.opened.lines) :
            Wanted(l) /\ l.host.lo \notin input.dead => \E x \in scanned : x[3] = <<l.host.lo, l.port>>
=============================================================================
