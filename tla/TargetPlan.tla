----------------------------- MODULE TargetPlan -----------------------------
(***************************************************************************)
(* Which target an index of a chunk stands for, from the CIDR file over    *)
(* generate-buckets and the snapshot to every later run of the scan, which *)
(* derives the targets again from the CIDR file.  ScanPipeline has only    *)
(* the indices and takes for granted that they keep their meaning.         *)
(*                                                                         *)
(* The CIDR file, the port file and the blocklist stay as they are between *)
(* the runs; the blocklist is what pre-ping wrote (list "pinged"), or some *)
(* other file.  A chunk is [cidr, ports, total, next].                       *)
(***************************************************************************)
EXTENDS ExpansionLimits, UnreachableList, SnapshotFile

CONSTANTS
    Inputs,                   \* what the operator starts from
    MaxBytes,                 \* -cidr-input-size-limit; 0 disables it
    Workers,                  \* -workers of generate-buckets
    CommandLimits,            \* the expansion flags of a scan; Nil: the flag is not set
    DefaultCandidateLimit,    \* limits for a snapshot without recorded ones
    DefaultMemoryGB,
    MaxTotal                  \* bound: tasks of a chunk

ASSUME PlanAssumption ==
    /\ Workers \in Int /\ MaxBytes \in Nat /\ DefaultCandidateLimit \in Nat /\ DefaultMemoryGB \in Nat
    /\ \A l \in CommandLimits : /\ l.count = Nil \/ l.count \in Nat
                                /\ l.bytes = Nil \/ IsLimits([count |-> 0, bytes |-> l.bytes])
ASSUME InputsAssumption ==
    \A x \in Inputs : /\ x.file \in FileType /\ x.ports \in Seq(Int) /\ x.dead \in SUBSET Nat
                     /\ IsLimits(x.limits)

VARIABLES
    input,      \* [file, statBytes, bytes, hash, ports, dead, list, limits]
    pc,         \* the process that runs, or what became of the last one
    consumed,   \* bytes of the CIDR file that were read
    groups,     \* groups of generate-buckets in key order
    slots,      \* chunks by key, as the fan-out fills them; Nil: not yet
    cancelled,  \* generate-buckets was interrupted
    disk,       \* the snapshot file; Nil: none
    snapshot,   \* the snapshot in memory of the scan
    plan,       \* by chunk, its tasks; <<>> for a completed chunk
    stored,     \* targets that the scan holds in memory
    original,   \* by chunk, the tasks it stood for when the snapshot was made
    scanned     \* <<chunk, index, task>> below a saved cursor or at the end

vars == <<input, pc, consumed, groups, slots, cancelled, disk, snapshot, plan, stored,
          original, scanned>>

genVars  == <<groups, slots>>
scanVars == <<snapshot, plan, stored>>

Rows == RowsOf(input.file)

\* basicDuplicateHash scatters the rows somehow, or not at all.
Hash == [r \in ToSet(Rows) |-> IF input.hash = "spread" THEN r.sel.lo + r.port ELSE 0]

\* -blocklist of generate-buckets.
Blocklist ==
    IF input.list.column = "pinged" THEN UnreachableFile(Rows, input.dead) ELSE input.list

Blocked == ParseUnreachableBlocklist(Blocklist)

\* A plan is refused: the reason is the name of the check.
Refuse(reason) == pc' = reason

Init ==
    /\ input \in Inputs
    /\ pc = "stat" /\ consumed = 0 /\ cancelled = FALSE
    /\ groups = <<>> /\ slots = <<>> /\ disk = Nil
    /\ snapshot = Nil /\ plan = <<>> /\ stored = 0 /\ original = <<>> /\ scanned = {}

-----------------------------------------------------------------------------
(* Loading the CIDR file *)

\* checkFileSize: the size that stat reports; the file may grow afterwards.
StatInput ==
    /\ pc = "stat"
    /\ pc' = IF MaxBytes > 0 /\ input.statBytes > MaxBytes THEN "too large" ELSE "count"
    /\ UNCHANGED <<input, consumed, genVars, cancelled, disk, scanVars, original, scanned>>

\* boundedInputReader.Read returns n bytes: it asks for one byte more than what
\* remains, so that a longer file is noticed.
ReadBounded(n) ==
    /\ n \in 1..(MaxBytes - consumed + 1) /\ consumed + n <= input.bytes
    /\ IF consumed + n > MaxBytes THEN pc' = "too large" /\ UNCHANGED consumed
       ELSE consumed' = consumed + n /\ UNCHANGED pc

\* The file is read twice: to count its records, and from its start to parse them.
ReadInput ==
    /\ pc \in {"count", "parse"} /\ MaxBytes > 0 /\ \E n \in 1..input.bytes : ReadBounded(n)
    /\ UNCHANGED <<input, genVars, cancelled, disk, scanVars, original, scanned>>

\* The end of the file; without a limit nothing counts the bytes.  A file that was
\* written to in the meantime may not have as many records as were counted.
EndInput ==
    /\ (MaxBytes = 0 \/ consumed = input.bytes)
    /\ \/ pc = "count" /\ pc' = "parse" /\ consumed' = 0
       \/ pc = "parse" /\ pc' \in {"loaded", "changed"} /\ UNCHANGED consumed
    /\ UNCHANGED <<input, genVars, cancelled, disk, scanVars, original, scanned>>

-----------------------------------------------------------------------------
(* generate-buckets *)

\* richChunkFromGroup and basicChunkFromGroup.
ChunkOf(g) == [cidr |-> g.cidr, ports |-> g.ports, total |-> Len(g.tasks), next |-> 0]

Estimate(rows, limits, included) == EstimateAuthorizedCIDRRecords(rows, limits, included)

\* Inputs, the expansion estimate, the blocklist, the groups.
GenerateGroups ==
    /\ pc = "loaded"
    /\ LET limits == input.limits
           new == Groups(Rows, input.ports, Blocked)
           good == Loads(input.file, Hash) /\ PortsLoad(input.ports)
       IN  \/ ~good /\ Refuse("bad input") /\ UNCHANGED genVars
           \/ /\ good
              /\ IF Estimate(Rows, limits, Segments(Rows)) = Refused
                 THEN Refuse("over limit") /\ UNCHANGED genVars
                 ELSE IF ~BlocklistLoads(Blocklist)
                 THEN Refuse("bad blocklist") /\ UNCHANGED genVars
                 ELSE IF ~Resolvable(Rows, input.ports, Blocked)
                 THEN Refuse("no port source") /\ UNCHANGED genVars
                 ELSE /\ groups' = Sorted(new, KeyBefore)
                      /\ slots' = [i \in 1..Cardinality(new) |-> Nil] /\ pc' = "fan out"
    /\ consumed' = 0
    /\ UNCHANGED <<input, cancelled, disk, scanVars, original, scanned>>

Unbuilt == {i \in DOMAIN slots : slots[i] = Nil}

\* A worker fills the slot of the index it was given.
FillSlot(i) == slots' = [slots EXCEPT ![i] = ChunkOf(groups[i])]

\* fanOutGroupChunks: the indices go out in order, one per worker at a time.
BuildChunk(i) ==
    /\ pc = "fan out" /\ i \in Unbuilt
    /\ Cardinality({j \in Unbuilt : j < i}) < (IF Workers <= 0 THEN 1 ELSE Workers)
    /\ FillSlot(i)
    /\ UNCHANGED <<input, pc, consumed, groups, cancelled, disk, scanVars, original, scanned>>

Interrupt ==
    /\ pc = "fan out" /\ ~cancelled /\ cancelled' = TRUE
    /\ UNCHANGED <<input, pc, consumed, genVars, disk, scanVars, original, scanned>>

\* The workers leave and the context's error is returned, even if all is built.
FanOutCancelled ==
    /\ pc = "fan out" /\ cancelled /\ Refuse("interrupted")
    /\ UNCHANGED <<input, consumed, genVars, cancelled, disk, scanVars, original, scanned>>

\* What generate-buckets writes.
FirstSnapshot ==
    [chunks |-> slots,
     ping |-> [enabled |-> TRUE, timeoutMS |-> 0, unreachable |-> Blocked],
     output |-> Nil, denyExcluded |-> TRUE,
     expansion |-> [count |-> Estimate(Rows, input.limits, Segments(Rows)), limits |-> input.limits],
     version |-> CurrentTargetSemanticsVersion,
     fallback |-> IF HasRichRecords(Rows) THEN <<>> ELSE input.ports]

SaveBuckets ==
    /\ pc = "fan out" /\ Unbuilt = {} /\ ~cancelled
    /\ IF WithinSnapshotLimits(FirstSnapshot)
       THEN disk' = EncodeSnapshot(FirstSnapshot) /\ pc' = "idle"
       ELSE Refuse("snapshot limit") /\ UNCHANGED disk
    /\ original' = [i \in DOMAIN groups |-> groups[i].tasks]
    /\ UNCHANGED <<input, consumed, genVars, cancelled, scanVars, scanned>>

\* A snapshot of an older build: an array of chunks, some perhaps without total_count,
\* all perhaps without ports, from a scan that knew no blocklist and may have made
\* some progress.
LegacyBuckets(omitPorts, progress) ==
    /\ pc = "stat" /\ input.dead = {}
    /\ Loads(input.file, Hash) /\ PortsLoad(input.ports) /\ Resolvable(Rows, input.ports, {})
    /\ LET old == Sorted(Groups(Rows, input.ports, {}), KeyBefore)
           Chunk(i, noTotal) ==
               [ChunkOf(old[i]) EXCEPT !.total = IF i \in noTotal THEN 0 ELSE @,
                                       !.ports = IF omitPorts THEN <<>> ELSE @,
                                       !.next = progress]
       IN  /\ original' = [i \in DOMAIN old |-> old[i].tasks]
           /\ scanned' = UNION {{<<i, k, old[i].tasks[k]>> : k \in 1..progress} : i \in DOMAIN old}
           /\ \E noTotal \in SUBSET DOMAIN old :
                 disk' = [root |-> "array",
                          fields |-> [f \in {"chunks"} |-> [i \in DOMAIN old |-> Chunk(i, noTotal)]]]
    /\ pc' = "idle"
    /\ UNCHANGED <<input, consumed, genVars, cancelled, scanVars>>

\* A snapshot of a newer build, with a field that this one does not know.
NewerSnapshot ==
    /\ pc = "stat" /\ pc' = "idle"
    /\ disk' = [root |-> "object", fields |-> [f \in {"chunks", "future"} |-> <<>>]]
    /\ UNCHANGED <<input, consumed, genVars, cancelled, scanVars, original, scanned>>

-----------------------------------------------------------------------------
(* scan *)

ChunkIsCompleted(ch) == ch.total > 0 /\ ch.next >= ch.total

Incomplete(chunks) == {i \in DOMAIN chunks : ~ChunkIsCompleted(chunks[i])}

IncompleteKeys(chunks) == {chunks[i].cidr : i \in Incomplete(chunks)}

\* A snapshot without the marker cannot prove that denied keys are not in it.
SnapshotAuthorized(snap) ==
    snap.denyExcluded \/ snap.chunks = <<>> \/ DeniedKeys(Rows) = {}

SnapshotSemanticsKnown(snap) ==
    \/ snap.version = CurrentTargetSemanticsVersion
    \/ snap.version = 0 /\ (HasRichRecords(Rows) \/ ~HasBasicRowPorts(Rows))

\* The fallback ports: recorded ones, the port file's, or those of the chunks.
FallbackPorts(snap, portFile) ==
    LET specs == IF snap.version = CurrentTargetSemanticsVersion /\ ~HasRichRecords(Rows)
                 THEN snap.fallback ELSE portFile
        all == FlattenSeq([i \in DOMAIN snap.chunks |-> snap.chunks[i].ports])
    IN  IF specs = <<>> /\ ~HasBasicRowPorts(Rows) THEN UniquePorts(all) ELSE specs

\* The recorded limits, or the defaults; a flag that is set replaces its own one.
EffectiveLimits(snap, command) ==
    LET base == IF snap.expansion # Nil THEN snap.expansion.limits
                ELSE NewExpansionLimits(DefaultCandidateLimit, DefaultMemoryGB)
    IN  [count |-> IF command.count = Nil THEN base.count ELSE command.count,
         bytes |-> IF command.bytes = Nil THEN base.bytes ELSE command.bytes]

\* Deny rows apply across segments and are always kept.
FilterRecords(rows, keys) ==
    Selected(rows, {i \in DOMAIN rows : RichRecordDenied(rows[i]) \/ rows[i].seg \in keys})

\* Only the rows of incomplete chunks are expanded, when every total is known.
SelectRuntimeRecords(chunks) ==
    IF \/ Incomplete(chunks) \in {{}, DOMAIN chunks}
       \/ \E i \in Incomplete(chunks) : chunks[i].total = 0
    THEN Rows ELSE FilterRecords(Rows, IncompleteKeys(chunks))

\* Mutant: the total is not compared.
AnyTotal(ch, g) == TRUE

\* The total_count invariant; a legacy chunk has none.
TotalMatches(ch, g) == ch.total = 0 \/ ch.total = Len(g.tasks)

\* buildRuntimeWithPredicateContext: the group of every incomplete chunk.  A chunk
\* without ports gets the fallback as it is written, and then has a group only if no
\* port comes twice in it.
RuntimeGroups(chunks, rows, ports, blocked) ==
    LET rich == HasRichRecords(rows)
        new == IF Incomplete(chunks) = {} THEN {} ELSE Groups(rows, ports, blocked)
        PortsOf(ch) == IF ch.ports = <<>> THEN ports ELSE ch.ports
        Matching(ch) == {g \in new : /\ g.cidr = ch.cidr /\ (rich \/ g.ports = PortsOf(ch))
                                     /\ TotalMatches(ch, g)}
    IN  [i \in DOMAIN chunks |-> IF i \in Incomplete(chunks) THEN Matching(chunks[i]) ELSE {}]

\* execute, from the snapshot load to the plan.  An error leaves the disk alone.
Execute(portFile, command) ==
    /\ pc \in {"idle", "incompatible", "scan over limit"} /\ disk # Nil
    /\ LET snap == LoadSnapshot(disk)
           chunks == snap.chunks
           limits == EffectiveLimits(snap, command)
           estimate == Estimate(Rows, limits, IncompleteKeys(chunks))
           rows == SelectRuntimeRecords(chunks)
           ports == FallbackPorts(snap, portFile)
           found == RuntimeGroups(chunks, rows, ports, snap.ping.unreachable)
           G(i) == CHOOSE g \in found[i] : TRUE
           open == Incomplete(chunks)
       IN  IF ~SnapshotLoads(disk) \/ ~WithinSnapshotLimits(snap)
           THEN Refuse("unreadable") /\ UNCHANGED scanVars
           ELSE IF ~SnapshotAuthorized(snap) \/ ~SnapshotSemanticsKnown(snap)
           THEN Refuse("unproven") /\ UNCHANGED scanVars
           ELSE IF estimate = Refused
           THEN Refuse("scan over limit") /\ UNCHANGED scanVars
           ELSE IF \/ open # {} /\ ~Resolvable(rows, ports, snap.ping.unreachable)
                   \/ \E i \in open : found[i] = {}
           THEN Refuse("incompatible") /\ UNCHANGED scanVars
           ELSE /\ plan' = [i \in DOMAIN chunks |-> IF i \in open THEN G(i).tasks ELSE <<>>]
                /\ stored' = Cardinality(UNION {{i} \X G(i).entries : i \in open})
                /\ snapshot' = [snap EXCEPT
                    !.chunks = [i \in DOMAIN chunks |->
                        IF i \in open THEN [chunks[i] EXCEPT !.total = Len(G(i).tasks),
                                                             !.ports = IF @ = <<>> THEN G(i).ports ELSE @]
                        ELSE chunks[i]],
                    !.denyExcluded = TRUE,
                    !.expansion = [count |-> IF snap.expansion # Nil THEN snap.expansion.count
                                             ELSE estimate,
                                   limits |-> limits]]
                /\ pc' = "running"
    /\ UNCHANGED <<input, consumed, genVars, cancelled, disk, original, scanned>>

\* Where the trackers may stand at the end of a run.
Cursors ==
    {next \in [DOMAIN plan -> 0..MaxTotal] :
        \A i \in DOMAIN plan : next[i] \in snapshot.chunks[i].next..snapshot.chunks[i].total}

ScannedUpTo(next) ==
    UNION {{<<i, k, plan[i][k]>> : k \in (snapshot.chunks[i].next + 1)..next[i]} : i \in DOMAIN plan}

EndScan ==
    /\ snapshot' = Nil /\ plan' = <<>> /\ stored' = 0
    /\ UNCHANGED <<input, consumed, genVars, cancelled, original>>

\* The end of a run, as ScanPipeline shows it: cursors that only grow, and a
\* snapshot when something is left, or after an error or a cancel in any case.
StopScan(next) ==
    LET new == [snapshot EXCEPT !.output = "recorded",
                    !.chunks = [i \in DOMAIN @ |-> [@[i] EXCEPT !.next = next[i]]]]
    IN  /\ pc = "running"
        /\ \/ /\ Incomplete(new.chunks) = {}
              /\ pc' = "done" /\ scanned' = scanned \cup ScannedUpTo(next) /\ UNCHANGED disk
           \/ /\ WithinSnapshotLimits(new)
              /\ pc' = "idle" /\ disk' = EncodeSnapshot(new)
              /\ scanned' = scanned \cup ScannedUpTo(next)
           \/ ~WithinSnapshotLimits(new) /\ pc' = "idle" /\ UNCHANGED <<disk, scanned>>
        /\ EndScan

\* The scan is killed: what it did since the snapshot will be done again.
Crash == pc = "running" /\ pc' = "idle" /\ UNCHANGED <<disk, scanned>> /\ EndScan

Load     == StatInput \/ ReadInput \/ EndInput
Generate == \/ GenerateGroups \/ (\E i \in DOMAIN slots : BuildChunk(i))
            \/ Interrupt \/ FanOutCancelled \/ SaveBuckets
Older    == \/ \E omitPorts \in BOOLEAN, progress \in {0, 1} : LegacyBuckets(omitPorts, progress)
            \/ NewerSnapshot
Scan     == \/ \E portFile \in {<<>>, input.ports}, command \in CommandLimits :
                   Execute(portFile, command)
            \/ (pc = "running" /\ \E next \in Cursors : StopScan(next))
            \/ Crash

Next == Load \/ Generate \/ Older \/ Scan

Spec == Init /\ [][Next]_vars

-----------------------------------------------------------------------------
(* What the plan promises *)

\* Every run of the scan gives every index of an unfinished chunk the target that
\* it had when the buckets were made, although the rows of finished chunks are
\* left out of the rebuild: it does so or refuses to start.
PlanKeepsTargets ==
    pc = "running" => \A i \in Incomplete(LoadSnapshot(disk).chunks) : plan[i] = original[i]

\* Over all runs no target is counted as scanned for two indices, and a scan that
\* ends has scanned exactly the targets that the rows ask for: authorized by a
\* row, denied by none, not a broadcast address and not found dead by pre-ping.
EveryTargetOnce ==
    /\ \A x, y \in scanned : x[3] = y[3] => x = y
    /\ pc = "done" =>
        {x[3] : x \in scanned} = AllTasks(Rows, input.ports, input.dead)

\* Segments that do not overlap: the "well-formed" input of the comments.
DisjointSegments ==
    \A s, t \in Segments(Rows) : s # t => Addresses(s) \cap Addresses(t) = {}

\* With segments that do not overlap, no snapshot of this build is ever refused as
\* incompatible, whatever part of it is done and whatever flags the scan is given.
DisjointResumes ==
    pc = "incompatible" => ~DisjointSegments \/ LoadSnapshot(disk).version = 0

\* The targets that a scan holds in memory respect the limits it runs under: what
\* the estimate counts is never less than what the builders store, and no sum or
\* product wraps around on the way.
WithinLimits ==
    pc = "running" =>
        LET limits == snapshot.expansion.limits IN
        /\ limits.count > 0 => stored <= limits.count
        /\ limits.bytes > 0 => ExpansionBaseBytes + stored * ExpansionBytesPerCandidate <= limits.bytes

\* The duplicate table finds a repeated row exactly when there is one, and no probe
\* runs for ever, however the hashes collide and although the table may be full.
DuplicatesAreFound ==
    pc = "loaded" /\ ~input.file.rich =>
        DuplicateTable(Rows, Hash) =
            IF \E i, j \in DOMAIN Rows : i # j /\ Rows[i] = Rows[j] THEN "duplicate" ELSE "distinct"
=============================================================================
