---------------------------- MODULE SnapshotFile ----------------------------
(***************************************************************************)
(* pkg/state: what a snapshot holds, how it is written and what a load     *)
(* accepts.  A snapshot is                                                 *)
(*   [chunks, ping, output, denyExcluded, expansion, version, fallback]    *)
(* and a file [root, fields]: what its text begins with and the top-level  *)
(* fields it holds.  Text, indentation and byte counts are left out, and   *)
(* so are the fields of a chunk or of the ping state that no build ever    *)
(* wrote under another name.                                               *)
(***************************************************************************)
EXTENDS Integers, FiniteSets, SequencesExt

CONSTANTS Nil,                \* a pointer that is not set
          MaxChunks,          \* -snapshot-chunk-limit; 0 disables a limit
          MaxPortEntries,     \* -snapshot-port-entry-limit
          MaxUnreachableIPs   \* -snapshot-unreachable-ip-limit

ASSUME SnapshotAssumption ==
    MaxChunks \in Nat /\ MaxPortEntries \in Nat /\ MaxUnreachableIPs \in Nat

CurrentTargetSemanticsVersion == 1

NoPing == [enabled |-> FALSE, timeoutMS |-> 0, unreachable |-> {}]

\* The zero values: what a legacy array of chunks decodes to.
LegacySnapshot(chunks) ==
    [chunks |-> chunks, ping |-> NoPing, output |-> Nil, denyExcluded |-> FALSE,
     expansion |-> Nil, version |-> 0, fallback |-> <<>>]

\* validateSnapshotLimits, before a save and after a load.
WithinSnapshotLimits(snap) ==
    LET ports == FoldLeft(LAMBDA n, ch : n + Len(ch.ports), 0, snap.chunks) IN
    /\ MaxChunks > 0 => Len(snap.chunks) <= MaxChunks
    /\ MaxPortEntries > 0 => ports <= MaxPortEntries
    /\ MaxUnreachableIPs > 0 => Cardinality(snap.ping.unreachable) <= MaxUnreachableIPs

\* Mutant: the fallback ports are not recorded.
WrittenNoFallback(snap) ==
    {"chunks"} \cup {f \in DOMAIN snap \ {"chunks", "fallback"} : snap[f] # LegacySnapshot(<<>>)[f]}

\* The fields that are written: the optional ones only when they are set.
Written(snap) ==
    {"chunks"} \cup {f \in DOMAIN snap \ {"chunks"} : snap[f] # LegacySnapshot(<<>>)[f]}

EncodeSnapshot(snap) ==
    [root |-> "object", fields |-> [f \in Written(snap) |-> snap[f]]]

SchemaFields == DOMAIN LegacySnapshot(<<>>)

\* LoadSnapshotWithLimits returns no error: an array of chunks, or an object with
\* chunks and no field that the schema does not know.
SnapshotLoads(file) ==
    /\ file.root \in {"array", "object"}
    /\ "chunks" \in DOMAIN file.fields /\ DOMAIN file.fields \subseteq SchemaFields
    /\ file.root = "array" => DOMAIN file.fields = {"chunks"}

LoadSnapshot(file) ==
    [f \in SchemaFields |-> IF f \in DOMAIN file.fields THEN file.fields[f]
                            ELSE LegacySnapshot(<<>>)[f]]
=============================================================================
