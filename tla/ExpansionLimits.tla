--------------------------- MODULE ExpansionLimits ---------------------------
(***************************************************************************)
(* pkg/task expansion_limits.go: how many addresses the rows stand for,    *)
(* counted before any of them is enumerated, in unsigned integers of fixed *)
(* width.                                                                  *)
(***************************************************************************)
EXTENDS TargetGroups

CONSTANTS
    MaxUint64,                    \* the largest unsigned integer
    ExpansionBaseBytes,           \* bytes of an empty plan
    ExpansionBytesPerCandidate,   \* bytes per address
    DecimalGB                     \* bytes per unit of the memory limit

ASSUME LimitsAssumption ==
    /\ MaxUint64 \in Nat \ {0} /\ ExpansionBaseBytes \in 0..MaxUint64
    /\ ExpansionBytesPerCandidate \in Nat \ {0}
    /\ DecimalGB \in Nat \ {0} /\ ExpansionBaseBytes <= DecimalGB

Refused == -1

\* The two flags; zero disables a limit.
NewExpansionLimits(count, memoryGB) == [count |-> count, bytes |-> memoryGB * DecimalGB]

\* A memory limit that is set is some GB, and so not less than the base.
IsLimits(l) ==
    l \in [count : Nat, bytes : Nat] /\ (l.bytes = 0 \/ l.bytes >= ExpansionBaseBytes)

ValidLimitFlags(count, memoryGB) ==
    count >= 0 /\ memoryGB >= 0 /\ memoryGB <= MaxUint64 \div DecimalGB

ExceedsExpansionLimits(count, estimated, limits) ==
    \/ limits.count > 0 /\ count > limits.count
    \/ limits.bytes > 0 /\ estimated > limits.bytes

\* Mutant: the byte estimate wraps around.
AddWrapping(total, n, limits) ==
    LET sum == (total + n) % (MaxUint64 + 1)
        estimated == (ExpansionBaseBytes + sum * ExpansionBytesPerCandidate) % (MaxUint64 + 1)
    IN  IF ExceedsExpansionLimits(sum, estimated, limits) THEN Refused ELSE sum

\* Both guards compare before they add or multiply.
AddCandidateCount(total, n, limits) ==
    LET sum == total + n
        estimated == ExpansionBaseBytes + sum * ExpansionBytesPerCandidate
    IN  IF \/ n > MaxUint64 - total
           \/ sum > (MaxUint64 - ExpansionBaseBytes) \div ExpansionBytesPerCandidate
           \/ ExceedsExpansionLimits(sum, estimated, limits)
        THEN Refused ELSE sum

\* Rows that expand to nothing are not counted: invalid and deny rows, and a row
\* whose single key is denied.
Counted(rows, i, included) ==
    LET r == rows[i] IN
    /\ r.rich => r.valid /\ ~r.deny /\ (<<r.sel.lo, r.port>> \in DeniedKeys(rows) => r.all)
    /\ r.seg \in included

\* The address count of a row before deduplication; an expanded segment leaves
\* out its denied keys.
CandidateCount(rows, r) ==
    IF r.rich /\ r.all
    THEN r.seg.size - Cardinality({k \in DeniedKeys(rows) : k[1] \in Addresses(r.seg) /\ k[2] = r.port})
    ELSE r.sel.size

EstimateAuthorizedCIDRRecords(rows, limits, included) ==
    LET total[i \in 0..Len(rows)] ==
            IF i = 0 THEN 0
            ELSE IF total[i - 1] = Refused \/ ~Counted(rows, i, included) THEN total[i - 1]
            ELSE AddCandidateCount(total[i - 1], CandidateCount(rows, rows[i]), limits)
    IN  total[Len(rows)]
=============================================================================
