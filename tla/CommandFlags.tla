----------------------------- MODULE CommandFlags -----------------------------
(***************************************************************************)
(* pkg/config: which flags the four commands accept, and the limits that   *)
(* the accepted ones stand for.  Integers have the width of MaxInt; a text *)
(* is TRUE when it is given and not blank.                                 *)
(***************************************************************************)
EXTENDS Integers

CONSTANTS
    MaxInt,        \* math.MaxInt64
    Unit,          \* decimalGB and decimalMB
    Second,        \* time.Second, in nanoseconds
    MaxWorkers, MaxRate, MaxBucketCapacity

ASSUME FlagAssumption == MaxInt \in Nat /\ Unit \in Nat \ {0}

Rejected == -1

\* What int64 arithmetic leaves of v.
Wrapped(v) == ((v + MaxInt + 1) % (2 * (MaxInt + 1))) - (MaxInt + 1)

InRange(v, low, high) == low <= v /\ v <= high

\* Mutant: the product is taken as it comes.
MultiplyUnchecked(v) == Wrapped(v * Unit)

MultiplyLimit(v) == IF v > MaxInt \div Unit THEN Rejected ELSE Wrapped(v * Unit)

\* resolve of a size limit in GB or MB; 0 switches it off.
SizeLimit(v) == IF v < 0 THEN Rejected ELSE MultiplyLimit(v)

\* NewExpansionLimits counts its bytes in uint64.
MemoryLimit(v) ==
    IF v < 0 \/ v > (2 * MaxInt + 1) \div Unit THEN Rejected
    ELSE (v * Unit) % (2 * (MaxInt + 1))

\* commonCLIValues.validate and the target expansion flags.
CommonValid(f) ==
    /\ f.cidrFile /\ f.columns /\ f.format \in {"human", "json"}
    /\ f.targetCount >= 0 /\ MemoryLimit(f.targetMemoryGB) # Rejected
    /\ SizeLimit(f.cidrSizeGB) # Rejected /\ f.cidrRecords >= 0

PortLimitsValid(f) == SizeLimit(f.portSizeMB) # Rejected /\ f.portRecords >= 0

SnapshotLimitsValid(f) == SizeLimit(f.snapshotSizeGB) # Rejected /\ f.snapshotCounts >= 0

ResponseLimitsValid(f) == SizeLimit(f.responseSizeMB) # Rejected /\ f.responseEntries >= 0

WorkersValid(f) == InRange(f.workers, 1, MaxWorkers)

BucketValid(f) == InRange(f.rate, 1, MaxRate) /\ InRange(f.capacity, 1, MaxBucketCapacity)

\* parsePressureInterval: an integer is a number of seconds, else a duration.
PressureInterval(f) ==
    CASE f.interval.unit = "seconds"  -> Wrapped(f.interval.n * Second)
      [] f.interval.unit = "duration" -> f.interval.n
      [] OTHER -> Rejected

\* The flags of -pressure-use-auth must be complete even with -disable-api.
PressureValid(f) ==
    /\ PressureInterval(f) > 0 /\ f.dataURLs # "blank"
    /\ f.useAuth => f.authURL /\ f.dataURLs = "some" /\ f.clientID /\ f.clientSecret

PressureKind(f) ==
    IF f.disableAPI THEN "disabled" ELSE IF f.useAuth THEN "authenticated" ELSE "simple"

ParseScan(f) ==
    /\ CommonValid(f) /\ PortLimitsValid(f) /\ SnapshotLimitsValid(f)
    /\ ResponseLimitsValid(f) /\ PressureValid(f)
    /\ f.resume /\ f.flushResults >= 0 /\ WorkersValid(f) /\ BucketValid(f)

ParsePrePing(f) == CommonValid(f) /\ WorkersValid(f) /\ f.pingTimeout > 0

ParseGenerateBuckets(f) ==
    CommonValid(f) /\ PortLimitsValid(f) /\ SnapshotLimitsValid(f) /\ f.bucketsOut /\ WorkersValid(f)

\* validate also takes the flags of the other commands and checks some of them.
ParseValidate(f) ==
    /\ CommonValid(f) /\ PortLimitsValid(f) /\ WorkersValid(f) /\ BucketValid(f)
    /\ f.pingTimeout > 0 /\ PressureValid(f)

Parses(command, f) ==
    CASE command = "scan" -> ParseScan(f)
      [] command = "pre-ping" -> ParsePrePing(f)
      [] command = "generate-buckets" -> ParseGenerateBuckets(f)
      [] command = "validate" -> ParseValidate(f)

-----------------------------------------------------------------------------

\* A flag set that every command accepts, and the sets that differ from it in
\* one flag, at the edges of what is accepted.
Defaults ==
    [cidrFile |-> TRUE, columns |-> TRUE, format |-> "human", targetCount |-> 1,
     targetMemoryGB |-> 1, cidrSizeGB |-> 1, cidrRecords |-> 1, portSizeMB |-> 1,
     portRecords |-> 1, snapshotSizeGB |-> 1, snapshotCounts |-> 1, responseSizeMB |-> 1,
     responseEntries |-> 1, workers |-> 1, rate |-> 1, capacity |-> 1,
     interval |-> [unit |-> "duration", n |-> 1], dataURLs |-> "none", useAuth |-> FALSE,
     authURL |-> FALSE, clientID |-> FALSE, clientSecret |-> FALSE, disableAPI |-> FALSE,
     resume |-> TRUE, flushResults |-> 0, pingTimeout |-> 1, bucketsOut |-> TRUE]

Edges == {-1, 0, MaxInt \div Unit, MaxInt \div Unit + 1, (2 * (MaxInt + 1)) \div Unit, MaxInt}

\* One text is missing or bad, or the API is switched off.
TextFlags ==
    {[Defaults EXCEPT ![k] = FALSE] : k \in {"cidrFile", "columns", "resume", "bucketsOut"}}
    \cup {[Defaults EXCEPT !.format = "xml"], [Defaults EXCEPT !.dataURLs = "blank"],
          [Defaults EXCEPT !.disableAPI = TRUE]}

\* One limit is at an edge of the integers.
LimitNames ==
    {"targetCount", "targetMemoryGB", "cidrSizeGB", "cidrRecords", "portSizeMB", "portRecords",
     "snapshotSizeGB", "snapshotCounts", "responseSizeMB", "responseEntries", "flushResults",
     "pingTimeout"}

LimitFlags == {[Defaults EXCEPT ![k] = v] : k \in LimitNames, v \in Edges}

\* One number is at an edge of its own range.
RangeFlags ==
    {[Defaults EXCEPT ![k] = v] :
        k \in {"workers", "rate", "capacity"}, v \in {0, 1, MaxWorkers, MaxInt}}

IntervalFlags ==
    {[Defaults EXCEPT !.interval = [unit |-> u, n |-> v]] :
        u \in {"seconds", "duration", "bad"}, v \in Edges}

\* Authentication is asked for, with these of its other flags given.
WithAuth(d, given) ==
    [Defaults EXCEPT !.useAuth = TRUE, !.dataURLs = d, !.authURL = ("authURL" \in given),
                     !.clientID = ("clientID" \in given), !.clientSecret = ("clientSecret" \in given),
                     !.disableAPI = ("disableAPI" \in given)]

AuthFlags ==
    {WithAuth(d, given) : d \in {"none", "some"},
        given \in SUBSET {"authURL", "clientID", "clientSecret", "disableAPI"}}

FlagSets == {Defaults} \cup TextFlags \cup LimitFlags \cup RangeFlags \cup IntervalFlags \cup AuthFlags

\* An accepted size limit is the number of bytes that was asked for, never what
\* a product beyond the integer width leaves of it; the pressure source gets all
\* it needs; and a flag set with which a scan starts is one that validate and
\* the steps before it accept, given the flags that only they have.
FlagsFit(f) ==
    ParseScan(f) =>
        /\ \A v \in {f.cidrSizeGB, f.portSizeMB, f.snapshotSizeGB, f.responseSizeMB} :
              SizeLimit(v) = v * Unit
        /\ MemoryLimit(f.targetMemoryGB) = f.targetMemoryGB * Unit
        /\ PressureKind(f) = "authenticated" => f.authURL /\ f.clientID /\ f.clientSecret
        /\ f.pingTimeout > 0 => ParseValidate(f) /\ ParsePrePing(f)
        /\ f.bucketsOut => ParseGenerateBuckets(f)
=============================================================================
