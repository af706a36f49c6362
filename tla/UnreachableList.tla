-------------------------- MODULE UnreachableList ---------------------------
(***************************************************************************)
(* pkg/scanapp pre_scan_ping.go, pkg/writer unreachable_writer.go and the  *)
(* blocklist parser of bucketgen.go: how the addresses that did not answer *)
(* the pre-ping reach generate-buckets, through a CSV file.  PrePing has   *)
(* the pool that checks the addresses; here their answers are given.       *)
(*                                                                         *)
(* The file is [column, lines]: "none" if it is missing or empty, whether  *)
(* it has the ip column, and by line what is in that column: an address as *)
(* a segment of size 1, Malformed, or Blank (also where the line ends      *)
(* before it).  Of the other columns only ip_cidr decides anything.        *)
(***************************************************************************)
EXTENDS InputRows

Blank == [lo |-> -2, size |-> 1]

\* authorizedPreScanPlan.visit: the targets of the rich groups in the order of
\* their keys, one for every port, or the targets of the basic rows, whatever
\* their ports, row by row.
PlanTargets(rows) ==
    LET rich == Sorted(RichGroups(rows, {}), KeyBefore)
        OfGroup(g) == [k \in DOMAIN g.tasks |-> [ip |-> g.tasks[k][1], cidr |-> g.cidr]]
        OfRow(r) == LET ips == Sorted(BasicTargetIPs(r, {}), <)
                    IN  [k \in DOMAIN ips |-> [ip |-> ips[k], cidr |-> r.seg]]
    IN  IF HasRichRecords(rows) THEN FlattenSeq([k \in DOMAIN rich |-> OfGroup(rich[k])])
        ELSE FlattenSeq([k \in DOMAIN rows |-> OfRow(rows[k])])

\* mergeUnreachableRecord: a row with the key of the one before it goes into that row.
MergeUnreachable(list) ==
    Selected(list, {k \in DOMAIN list : k = 1 \/ list[k] # list[k - 1]})

\* visitUnreachableRows: one row per target that did not answer; rich targets of
\* one address and segment follow each other and are merged.
UnreachableRows(rows, dead) ==
    LET targets == PlanTargets(rows)
        silent == Selected(targets, {k \in DOMAIN targets : targets[k].ip \in dead})
    IN  IF HasRichRecords(rows) THEN MergeUnreachable(silent) ELSE silent

\* UnreachableWriter: the header, then every row.
UnreachableFile(rows, dead) ==
    LET list == UnreachableRows(rows, dead)
    IN  [column |-> "ip", lines |-> [k \in DOMAIN list |-> [lo |-> list[k].ip, size |-> 1]]]

\* A missing or empty file is an empty list, one without the column is an error.
BlocklistLoads(file) ==
    file.column = "none" \/ (file.column = "ip" /\ Malformed \notin ToSet(file.lines))

\* parseUnreachableBlocklist: the addresses, each once.
ParseUnreachableBlocklist(file) ==
    IF file.column = "none" THEN {} ELSE {l.lo : l \in ToSet(file.lines) \ {Blank}}
=============================================================================
