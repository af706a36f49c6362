---------------------------- MODULE LeakyBucket ----------------------------
(***************************************************************************)
(* pkg/ratelimit: a channel of tokens, a replenisher goroutine behind a    *)
(* ticker, callers of Acquire and callers of Close.                        *)
(***************************************************************************)
EXTENDS Integers

CONSTANTS
    Acquirers,  \* goroutines that call Acquire
    Closers,    \* goroutines that call Close; execute is the only one in a scan
    Capacity,   \* the capacity argument of NewLeakyBucket
    MaxTicks    \* bound: ticks of the ticker

MaxCapacity == 1000000

\* NewLeakyBucket clamps the capacity.
Size ==
    IF Capacity <= 0 THEN 1 ELSE IF Capacity > MaxCapacity THEN MaxCapacity ELSE Capacity

ASSUME BucketAssumption == Capacity \in Int /\ MaxTicks \in Nat

VARIABLES
    tokens,       \* length of the token channel
    tickPending,  \* a tick in the ticker's channel, which holds one
    rpc,          \* the replenisher: "select", "put" or "done"
    stopClosed,   \* the stop channel is closed
    panicked,     \* close of a closed channel
    apc,          \* an acquirer is "idle" or "waiting"
    cancelled,    \* its context
    clpc,         \* a closer is at "select", "close" or "done"
    ticks,        \* ticks so far
    granted       \* history: Acquire calls that took a token

bucketVars == <<tokens, tickPending, rpc, ticks>>
closeVars  == <<stopClosed, panicked, clpc>>
callVars   == <<apc, cancelled, granted>>
limiterVars == <<bucketVars, closeVars, callVars>>

\* The bucket starts full.
BucketInit ==
    /\ tokens = Size /\ tickPending = 0 /\ rpc = "select" /\ ticks = 0
    /\ stopClosed = FALSE /\ panicked = FALSE
    /\ clpc = [c \in Closers |-> "select"]
    /\ apc = [a \in Acquirers |-> "idle"] /\ cancelled = [a \in Acquirers |-> FALSE]
    /\ granted = 0

-----------------------------------------------------------------------------
(* The ticker and the replenisher *)

\* time.Ticker drops a tick that finds the last one unread.
Tick ==
    /\ ticks < MaxTicks /\ rpc # "done"
    /\ ticks' = ticks + 1 /\ tickPending' = 1
    /\ UNCHANGED <<tokens, rpc, closeVars, callVars>>

TakeTick ==
    /\ rpc = "select" /\ tickPending = 1
    /\ tickPending' = 0 /\ rpc' = "put"
    /\ UNCHANGED <<tokens, ticks, closeVars, callVars>>

\* Mutant: every tick is counted twice.
PutTwo ==
    /\ rpc = "put" /\ rpc' = "select"
    /\ tokens' = IF tokens + 1 < Size THEN tokens + 2 ELSE Size
    /\ UNCHANGED <<tickPending, ticks, closeVars, callVars>>

\* A full bucket drops the token.
PutToken ==
    /\ rpc = "put" /\ rpc' = "select"
    /\ tokens' = IF tokens < Size THEN tokens + 1 ELSE tokens
    /\ UNCHANGED <<tickPending, ticks, closeVars, callVars>>

StopReplenisher ==
    /\ rpc = "select" /\ stopClosed /\ rpc' = "done"
    /\ UNCHANGED <<tokens, tickPending, ticks, closeVars, callVars>>

Replenisher == TakeTick \/ PutToken \/ StopReplenisher

-----------------------------------------------------------------------------
(* Acquire and Close *)

CallAcquire(a) ==
    /\ apc[a] = "idle" /\ apc' = [apc EXCEPT ![a] = "waiting"]
    /\ UNCHANGED <<bucketVars, closeVars, cancelled, granted>>

\* select { ctx.Done; tokens }, the token case.
TakeToken(a) ==
    /\ apc[a] = "waiting" /\ tokens > 0
    /\ apc' = [apc EXCEPT ![a] = "idle"]
    /\ tokens' = tokens - 1 /\ granted' = granted + 1
    /\ UNCHANGED <<tickPending, rpc, ticks, closeVars, cancelled>>

\* Mutant: Acquire waits for a token only.
NeverCancelled(a) == FALSE /\ UNCHANGED limiterVars

AcquireCancelled(a) ==
    /\ apc[a] = "waiting" /\ cancelled[a]
    /\ apc' = [apc EXCEPT ![a] = "idle"]
    /\ UNCHANGED <<bucketVars, closeVars, cancelled, granted>>

CancelContext(a) ==
    /\ ~cancelled[a] /\ cancelled' = [cancelled EXCEPT ![a] = TRUE]
    /\ UNCHANGED <<bucketVars, closeVars, apc, granted>>

\* Close looks at the stop channel, and closes it in a second step.
CloseSelect(c) ==
    /\ clpc[c] = "select"
    /\ clpc' = [clpc EXCEPT ![c] = IF stopClosed THEN "done" ELSE "close"]
    /\ UNCHANGED <<bucketVars, stopClosed, panicked, callVars>>

CloseStop(c) ==
    /\ clpc[c] = "close" /\ clpc' = [clpc EXCEPT ![c] = "done"]
    /\ stopClosed' = TRUE /\ panicked' = (panicked \/ stopClosed)
    /\ UNCHANGED <<bucketVars, callVars>>

BucketNext ==
    \/ Tick \/ Replenisher
    \/ \E a \in Acquirers :
          CallAcquire(a) \/ TakeToken(a) \/ AcquireCancelled(a) \/ CancelContext(a)
    \/ \E c \in Closers : CloseSelect(c) \/ CloseStop(c)

BucketSpec == BucketInit /\ [][BucketNext]_limiterVars

-----------------------------------------------------------------------------
(* What the bucket promises *)

\* The shape of the state.
BucketTypeOK ==
    /\ tokens \in 0..Size /\ tickPending \in 0..1 /\ rpc \in {"select", "put", "done"}
    /\ ticks \in Nat /\ granted \in Nat
    /\ stopClosed \in BOOLEAN /\ panicked \in BOOLEAN
    /\ apc \in [Acquirers -> {"idle", "waiting"}]
    /\ clpc \in [Closers -> {"select", "close", "done"}]

\* A tick that is not yet a token.
Due == tickPending + (IF rpc = "put" THEN 1 ELSE 0)

\* Tokens are neither invented nor handed out twice.
Ledger == granted + tokens + Due <= Size + ticks

\* Close looks before it closes.  That is enough for one caller, as in a scan;
\* two concurrent callers can both find the stop channel open.
CloseInv ==
    (\E c \in Closers : Closers = {c}) =>
        /\ ~panicked
        /\ stopClosed => \A c \in Closers : clpc[c] = "done"

\* The shape of the state, every token handed out, in the bucket or due is one
\* of the first Size or came with a tick of its own, and a single caller of
\* Close never closes a closed channel.
BucketInv == BucketTypeOK /\ Ledger /\ CloseInv

\* The rate limit: over the life of a bucket, callers never get more than the
\* burst plus one token per tick, however Acquire, the ticker and Close race.
RateBound == granted <= Size + ticks
=============================================================================
