---------------------------- MODULE PressureSource ----------------------------
(***************************************************************************)
(* pkg/pressure: one sample of the router pressure, from a single endpoint *)
(* ("simple") or from several authenticated ones, each asked by a          *)
(* goroutine of its own with a token that it caches.  Time passes while    *)
(* requests are out, up to the timeout of the HTTP client.                 *)
(***************************************************************************)
EXTENDS Integers, Sequences, FiniteSets, FiniteSetsExt, Functions

CONSTANTS
    NSources,     \* data endpoints of the authenticated kind
    Timeout,      \* of the HTTP client
    Margin,       \* a cached token is renewed this long before it expires
    Lifetimes,    \* what the auth endpoint may answer as expires_in
    Bodies,       \* what a data endpoint may answer: sequences of entries, or Broken
    Broken,       \* no answer, a status of 400 or more, no JSON, trailing content, too many bytes
    Skip,         \* an entry without a readable Percent
    NonFinite,    \* an entry that is infinite or not a number
    MaxEntries    \* ResponseLimits.MaxEntries

ASSUME PressureAssumption ==
    /\ NSources \in Nat \ {0} /\ Timeout \in Nat /\ Margin \in Nat /\ Margin > 2 * Timeout
    /\ MaxEntries \in Nat /\ Lifetimes \subseteq Int
    /\ Skip \notin Int /\ NonFinite \notin Int
    /\ \A body \in Bodies : body = Broken \/ body \in Seq(Int \cup {Skip, NonFinite})

\* A token is the time it has left: by our clock, and at the server (below
\* zero once the server refuses it).
NoToken == [expires |-> 0, valid |-> -1]

VARIABLES
    kind,         \* "simple" or "authenticated"
    round,        \* the poller: "wait", "sampling", "sampled" with a result to use, "gone"
    opc,          \* per source: "idle", "token", "auth", "data" or "done"
    age,          \* of the request it has sent
    token,        \* its cached token
    cached,       \* history: the token of its request came from the cache
    reply,        \* history: what the endpoint answered in this round
    sample        \* the last sample: the first failed source or 0, and the maximum

sourceVars == <<opc, age, token, cached, reply>>
pressureVars == <<kind, round, sourceVars, sample>>

Active == IF kind = "simple" THEN {1} ELSE 1..NSources

PressureInit ==
    /\ kind \in {"simple", "authenticated"}
    /\ round = "wait"
    /\ opc = [s \in 1..NSources |-> "idle"] /\ age = [s \in 1..NSources |-> 0]
    /\ token = [s \in 1..NSources |-> NoToken] /\ cached = [s \in 1..NSources |-> FALSE]
    /\ reply = [s \in 1..NSources |-> Broken] /\ sample = [failed |-> 0, maximum |-> 0]

-----------------------------------------------------------------------------
(* What an answer says *)

Values(body) == Range(body) \ {Skip, NonFinite}

\* The simple endpoint must answer one finite value; an authenticated one a list
\* within the limit that has no other than finite values and at least one.
BodyFails(body) ==
    \/ body = Broken
    \/ MaxEntries > 0 /\ Len(body) > MaxEntries
    \/ NonFinite \in Range(body)
    \/ Values(body) = {}
    \/ kind = "simple" /\ Len(body) # 1

\* Mutant: the maximum starts from zero.
LargestFromZero(V) == Max(V \cup {0})

Largest(V) == Max(V)

\* OAuthMulti.Sample: the first failure in configuration order, else the maximum.
Aggregate ==
    LET failures == {s \in Active : BodyFails(reply[s])}
    IN  IF failures # {}
        THEN [failed |-> Min(failures), maximum |-> 0]
        ELSE [failed |-> 0, maximum |-> Largest({Largest(Values(reply[s])) : s \in Active})]

-----------------------------------------------------------------------------
(* A round *)

\* The poller calls Sample, which starts a goroutine per source.
BeginSample ==
    /\ round = "wait" /\ round' = "sampling"
    /\ opc' = [s \in 1..NSources |->
                  IF s \notin Active THEN "idle" ELSE IF kind = "simple" THEN "data" ELSE "token"]
    /\ UNCHANGED <<kind, age, token, cached, reply, sample>>

\* The goroutines of a sample are gone once it is used; the cached tokens stay.
Forget ==
    /\ opc' = [s \in 1..NSources |-> "idle"] /\ age' = [s \in 1..NSources |-> 0]
    /\ reply' = [s \in 1..NSources |-> Broken] /\ cached' = [s \in 1..NSources |-> FALSE]
    /\ sample' = [failed |-> 0, maximum |-> 0]
    /\ UNCHANGED <<kind, token>>

\* Mutant: a token is used until it expires.
UsableToTheEnd(t) == t.expires > 0

Usable(t) == t.expires > Margin

\* token: the cached one, or a request for a new one.
TakeToken(s) ==
    /\ opc[s] = "token"
    /\ opc' = [opc EXCEPT ![s] = IF Usable(token[s]) THEN "data" ELSE "auth"]
    /\ cached' = [cached EXCEPT ![s] = Usable(token[s])]
    /\ UNCHANGED <<kind, round, age, token, reply, sample>>

\* The auth endpoint issued the token some time after the request was sent; its
\* life is counted from the answer.
AuthAnswers(s) ==
    /\ opc[s] = "auth"
    /\ \E life \in Lifetimes, late \in 0..age[s] :
          token' = [token EXCEPT ![s] = [expires |-> life, valid |-> life - late]]
    /\ opc' = [opc EXCEPT ![s] = "data"] /\ age' = [age EXCEPT ![s] = 0]
    /\ UNCHANGED <<kind, round, cached, reply, sample>>

\* No usable answer: the source fails and the cache stays as it is.
AuthFails(s) ==
    /\ opc[s] = "auth" /\ opc' = [opc EXCEPT ![s] = "done"]
    /\ age' = [age EXCEPT ![s] = 0]
    /\ UNCHANGED <<kind, round, token, cached, reply, sample>>

DataAnswers(s) ==
    /\ opc[s] = "data" /\ opc' = [opc EXCEPT ![s] = "done"]
    /\ \E body \in Bodies : reply' = [reply EXCEPT ![s] = body]
    /\ age' = [age EXCEPT ![s] = 0] /\ cached' = [cached EXCEPT ![s] = FALSE]
    /\ UNCHANGED <<kind, round, token, sample>>

\* wg.Wait: every source has its result.
EndSample ==
    /\ round = "sampling" /\ \A s \in Active : opc[s] = "done"
    /\ round' = "sampled" /\ sample' = Aggregate
    /\ UNCHANGED <<kind, sourceVars>>

InFlight(s) == opc[s] \in {"auth", "data"}

\* Time passes; no request outlives the client's timeout.
Tick ==
    /\ \A s \in Active : InFlight(s) => age[s] < Timeout
    /\ age' = [s \in 1..NSources |-> IF InFlight(s) THEN age[s] + 1 ELSE age[s]]
    /\ token' = [s \in 1..NSources |->
          [expires |-> Max({token[s].expires - 1, 0}), valid |-> Max({token[s].valid - 1, -1})]]
    /\ UNCHANGED <<kind, round, opc, cached, reply, sample>>

Source(s) == TakeToken(s) \/ AuthAnswers(s) \/ AuthFails(s) \/ DataAnswers(s)

Sampling == (\E s \in 1..NSources : Source(s)) \/ EndSample

-----------------------------------------------------------------------------
(* What a sample promises *)

\* A token from the cache is valid at the server for as long as the request
\* that carries it may be under way, although its life is counted from an
\* answer that was late and checked before the request was sent (oauthSource.token).
TokenIsFresh ==
    \A s \in 1..NSources : opc[s] = "data" /\ cached[s] => token[s].valid >= 0

\* A sample is the highest pressure that any endpoint reported in this round,
\* and only if all of them reported something readable; a failed source is never
\* hidden by the others, nor an old value used in its place (OAuthMulti.Sample).
SampleIsTruth ==
    round = "sampled" =>
        IF sample.failed # 0
        THEN BodyFails(reply[sample.failed])
        ELSE \A s \in Active :
                /\ reply[s] # Broken /\ NonFinite \notin Range(reply[s])
                /\ \A v \in Values(reply[s]) : v <= sample.maximum
                /\ \E r \in Active : sample.maximum \in Values(reply[r])

-----------------------------------------------------------------------------
(* Why it holds *)

\* The shape of the state.
PressureTypeOK ==
    /\ kind \in {"simple", "authenticated"}
    /\ round \in {"wait", "sampling", "sampled", "gone"}
    /\ opc \in [1..NSources -> {"idle", "token", "auth", "data", "done"}]
    /\ age \in [1..NSources -> 0..Timeout]
    /\ token \in [1..NSources -> [expires : Int, valid : Int]]
    /\ reply \in [1..NSources -> Bodies \cup {Broken}]
    /\ DOMAIN cached = 1..NSources

\* A source is at work only during a sample, and one that does not belong to
\* the sample never is.
AtWork ==
    \A s \in 1..NSources :
        /\ opc[s] \in {"token", "auth", "data"} => round = "sampling"
        /\ opc[s] # "idle" => s \in Active
        /\ opc[s] \in {"idle", "token", "done"} => age[s] = 0

\* The server drops a token at most a timeout before we do, and one that was
\* taken from the cache still has what its request may need.
TokenInv ==
    \A s \in 1..NSources :
        /\ token[s].expires > 0 => token[s].valid >= token[s].expires - Timeout
        /\ cached[s] => opc[s] = "data" /\ token[s].valid >= Timeout - age[s]

\* The replies that a sample was made of stay until it is used.
SampleInv == round = "sampled" => sample = Aggregate

PressureInv == PressureTypeOK /\ AtWork /\ TokenInv /\ SampleInv
=============================================================================
