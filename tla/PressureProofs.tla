---------------------------- MODULE PressureProofs ----------------------------
(***************************************************************************)
(* The pressure samples and what is shown of them, for any number of       *)
(* sources, any answers of the endpoints and any delays within the timeout.*)
(***************************************************************************)
EXTENDS PressureView, FiniteSetTheorems, TLAPS

-----------------------------------------------------------------------------
(* Largest and smallest *)

\* Every set of naturals has a least element ...
LEMMA LeastNat ==
    ASSUME NEW T, T \subseteq Nat, T # {}
    PROVE  \E x \in T : \A y \in T : x <= y
<1> DEFINE R == OpToRel(<, Nat)
<1>1. IsWellFoundedOn(R, Nat)
    BY NatLessThanWellFounded
<1> HIDE DEF R
<1>2. PICK x \in T : \A y \in T : ~(<<y, x>> \in R)
    BY <1>1, WFMin
<1>3. \A y \in T : y < x => <<y, x>> \in R
    BY DEF R, OpToRel
<1>4. \A y \in T : ~(y < x)
    BY <1>2, <1>3
<1>5. \A y \in T : x <= y
    BY <1>4
<1> QED BY <1>5

\* ... and every finite set of integers a largest: the one with the fewest
\* elements above it.
LEMMA LargestExists ==
    ASSUME NEW S, S \subseteq Int, S # {}, IsFiniteSet(S)
    PROVE  \E x \in S : \A y \in S : x >= y
<1> DEFINE Above(x) == {y \in S : y >= x}
           sizes == {Cardinality(Above(x)) : x \in S}
<1>1. \A x \in S : IsFiniteSet(Above(x)) /\ Cardinality(Above(x)) \in Nat
    BY FS_Subset, FS_CardinalityType
<1>2. sizes \subseteq Nat /\ sizes # {}
    BY <1>1
<1>3. PICK n \in sizes : \A m \in sizes : n <= m
    BY <1>2, LeastNat
<1>4. PICK x \in S : n = Cardinality(Above(x))
    BY <1>3
<1>5. ASSUME NEW y \in S, y > x PROVE FALSE
    <2> HIDE DEF sizes
    <2>0. \A z \in S : z \in Int /\ (z >= y => z >= x)
        BY <1>5
    <2>1. Above(y) \in SUBSET Above(x)
        BY <2>0
    <2>2. x \in Above(x)
        BY <2>0
    <2>3. x \notin Above(y)
        BY <1>5, <2>0
    <2>4. Above(y) \in SUBSET Above(x) /\ x \in Above(x) /\ x \notin Above(y)
        BY <2>1, <2>2, <2>3, Zenon
    <2> HIDE DEF Above
    <2>5. /\ Cardinality(Above(y)) <= Cardinality(Above(x))
          /\ Cardinality(Above(x)) = Cardinality(Above(y)) => Above(x) = Above(y)
        BY <1>1, <2>4, FS_Subset
    <2>6. n <= Cardinality(Above(y))
        BY <1>3 DEF sizes
    <2> QED BY <1>1, <1>4, <2>4, <2>5, <2>6
<1> QED BY <1>5

\* So that Max and Min are what they say.
LEMMA MaxProperty ==
    ASSUME NEW S, S \subseteq Int, S # {}, IsFiniteSet(S)
    PROVE  Max(S) \in S /\ \A y \in S : Max(S) >= y
BY LargestExists DEF Max

\* The least of a set of naturals.
LEMMA MinProperty ==
    ASSUME NEW S, S \subseteq Nat, S # {}
    PROVE  Min(S) \in S /\ \A y \in S : Min(S) <= y
BY LeastNat DEF Min

\* The image of a finite set is finite.
LEMMA FiniteRange ==
    ASSUME NEW S, IsFiniteSet(S), NEW f, DOMAIN f = S
    PROVE  IsFiniteSet({f[x] : x \in S})
<1> DEFINE g == [x \in S |-> f[x]]
           T == {f[x] : x \in S}
<1>1. g \in Surjection(S, T)
    BY DEF Surjection, Range
<1> QED BY <1>1, FS_Surjection

\* The larger of two numbers.
LEMMA MaxOfTwo ==
    ASSUME NEW a \in Int, NEW b \in Int
    PROVE  Max({a, b}) = IF a >= b THEN a ELSE b
<1>1. IsFiniteSet({a, b})
    <2>1. {a, b} = {a} \cup {b}
        OBVIOUS
    <2>2. IsFiniteSet({a}) /\ IsFiniteSet({b})
        BY FS_Singleton, Zenon
    <2> QED BY <2>1, <2>2, FS_Union, Zenon
<1>2. Max({a, b}) \in {a, b} /\ \A y \in {a, b} : Max({a, b}) >= y
    BY <1>1, MaxProperty
<1> QED BY <1>2

-----------------------------------------------------------------------------
(* Tokens *)

\* A new sample finds its sources idle.
LEMMA BeginStep ==
    ASSUME PressureInv, BeginSample
    PROVE  PressureTypeOK' /\ AtWork' /\ TokenInv'
<1> USE DEF PressureInv, PressureTypeOK, AtWork, TokenInv, BeginSample, Active
<1>1. PressureTypeOK'
    OBVIOUS
<1>2. \A s \in 1..NSources : opc[s] \in {"idle", "done"} /\ ~cached[s]
    OBVIOUS
<1> QED BY <1>1, <1>2

\* A token is taken from the cache only with more than the margin left, which
\* covers a late issue and a slow request.
LEMMA TakeStep ==
    ASSUME PressureInv, NEW s \in 1..NSources, TakeToken(s)
    PROVE  PressureTypeOK' /\ AtWork' /\ TokenInv'
<1> USE PressureAssumption DEF PressureInv, PressureTypeOK
<1>1. /\ opc' = [opc EXCEPT ![s] = IF Usable(token[s]) THEN "data" ELSE "auth"]
      /\ opc[s] = "token" /\ kind' = kind /\ round' = round /\ age' = age /\ token' = token
      /\ reply' = reply
    BY DEF TakeToken
<1>2. DOMAIN cached' = 1..NSources
    BY DEF TakeToken
<1>3. \A t \in 1..NSources : t # s => cached'[t] = cached[t] /\ opc'[t] = opc[t]
    BY <1>1 DEF TakeToken
<1>4. cached'[s] => Usable(token[s])
    BY DEF TakeToken
<1>5. PressureTypeOK'
    BY <1>1, <1>2
<1>6. AtWork'
    BY <1>1, <1>3 DEF AtWork, Active
<1>7. ASSUME Usable(token[s])
      PROVE  token[s].valid >= Timeout - age[s]
    <2>1. token[s].expires > Margin /\ token[s].expires \in Int /\ token[s].valid \in Int
        BY <1>7 DEF Usable
    <2>2. token[s].valid >= token[s].expires - Timeout
        BY <2>1 DEF TokenInv
    <2>3. age[s] \in 0..Timeout
        OBVIOUS
    <2> QED BY <2>1, <2>2, <2>3
<1>8. TokenInv'
    <2> SUFFICES ASSUME NEW t \in 1..NSources
                 PROVE  /\ token'[t].expires > 0 => token'[t].valid >= token'[t].expires - Timeout
                        /\ cached'[t] => opc'[t] = "data" /\ token'[t].valid >= Timeout - age'[t]
        BY DEF TokenInv
    <2>1. CASE t = s
        BY <1>1, <1>4, <1>7, <2>1 DEF TokenInv
    <2>2. CASE t # s
        BY <1>1, <1>3, <2>2 DEF TokenInv
    <2> QED BY <2>1, <2>2
<1> QED BY <1>5, <1>6, <1>8

\* A new token is counted from the answer, at most a timeout late.
LEMMA AuthStep ==
    ASSUME PressureInv, NEW s \in 1..NSources, AuthAnswers(s) \/ AuthFails(s) \/ DataAnswers(s)
    PROVE  PressureTypeOK' /\ AtWork' /\ TokenInv'
<1> USE PressureAssumption DEF PressureInv, PressureTypeOK
<1>1. PICK to \in {"data", "done"} : opc' = [opc EXCEPT ![s] = to]
    BY DEF AuthAnswers, AuthFails, DataAnswers
<1>2. /\ opc[s] \in {"auth", "data"} /\ age' = [age EXCEPT ![s] = 0]
      /\ kind' = kind /\ round' = round
    BY DEF AuthAnswers, AuthFails, DataAnswers
<1>3. DOMAIN cached' = 1..NSources /\ \A t \in 1..NSources : t # s => cached'[t] = cached[t]
    BY DEF AuthAnswers, AuthFails, DataAnswers
<1>4. ~cached'[s]
    BY DEF AuthAnswers, AuthFails, DataAnswers, TokenInv
<1>5. /\ reply' \in [1..NSources -> Bodies \cup {Broken}]
    BY DEF AuthAnswers, AuthFails, DataAnswers
<1>6. /\ token' \in [1..NSources -> [expires : Int, valid : Int]]
      /\ \A t \in 1..NSources : t # s => token'[t] = token[t]
      /\ token'[s].expires > 0 => token'[s].valid >= token'[s].expires - Timeout
    <2>1. CASE AuthAnswers(s)
        <3>1. PICK life \in Lifetimes, late \in 0..age[s] :
                  token' = [token EXCEPT ![s] = [expires |-> life, valid |-> life - late]]
            BY <2>1 DEF AuthAnswers
        <3>2. life \in Int /\ late \in Int /\ late <= Timeout
            OBVIOUS
        <3> QED BY <3>1, <3>2
    <2>2. CASE token' = token
        BY <2>2 DEF TokenInv
    <2> QED BY <2>1, <2>2 DEF AuthFails, DataAnswers
<1>7. PressureTypeOK'
    BY <1>1, <1>2, <1>3, <1>5, <1>6
<1>8. AtWork'
    BY <1>1, <1>2 DEF AtWork, Active
<1>9. TokenInv'
    BY <1>1, <1>2, <1>3, <1>4, <1>6 DEF TokenInv
<1> QED BY <1>7, <1>8, <1>9

\* Time passes for the token and its request alike.
LEMMA TickStep ==
    ASSUME PressureInv, Tick
    PROVE  PressureTypeOK' /\ AtWork' /\ TokenInv'
<1> USE PressureAssumption DEF PressureInv, PressureTypeOK
<1>1. /\ opc' = opc /\ cached' = cached /\ kind' = kind /\ round' = round /\ reply' = reply
      /\ age' = [s \in 1..NSources |-> IF InFlight(s) THEN age[s] + 1 ELSE age[s]]
    BY DEF Tick
<1>2. ASSUME NEW s \in 1..NSources
      PROVE  /\ age'[s] \in 0..Timeout
             /\ InFlight(s) => age'[s] = age[s] + 1
             /\ ~InFlight(s) => age'[s] = age[s]
    <2>1. InFlight(s) => s \in Active
        BY DEF InFlight, AtWork
    <2>2. InFlight(s) => age[s] < Timeout
        BY <2>1 DEF Tick
    <2> QED BY <1>1, <2>2
<1>3. ASSUME NEW s \in 1..NSources
      PROVE  /\ token'[s] \in [expires : Int, valid : Int]
             /\ token'[s].expires = IF token[s].expires - 1 >= 0 THEN token[s].expires - 1 ELSE 0
             /\ token'[s].valid = IF token[s].valid - 1 >= -1 THEN token[s].valid - 1 ELSE -1
    <2>1. token[s].expires - 1 \in Int /\ token[s].valid - 1 \in Int
        OBVIOUS
    <2>2. token'[s] = [expires |-> Max({token[s].expires - 1, 0}), valid |-> Max({token[s].valid - 1, -1})]
        BY DEF Tick
    <2>3. \A e \in Int : Max({e, 0}) = (IF e >= 0 THEN e ELSE 0) /\ Max({e, -1}) = (IF e >= -1 THEN e ELSE -1)
        <3>1. 0 \in Int /\ -1 \in Int
            OBVIOUS
        <3> QED BY <3>1, MaxOfTwo, Zenon
    <2>4. /\ Max({token[s].expires - 1, 0}) = IF token[s].expires - 1 >= 0 THEN token[s].expires - 1 ELSE 0
          /\ Max({token[s].valid - 1, -1}) = IF token[s].valid - 1 >= -1 THEN token[s].valid - 1 ELSE -1
        BY <2>1, <2>3, Zenon
    <2> QED BY <2>1, <2>2, <2>4
<1>4. PressureTypeOK'
    <2>1. age' \in [1..NSources -> 0..Timeout]
        BY <1>1, <1>2
    <2>2. token' \in [1..NSources -> [expires : Int, valid : Int]]
        BY <1>3 DEF Tick
    <2> QED BY <1>1, <2>1, <2>2
<1>5. AtWork'
    BY <1>1, <1>2 DEF AtWork, Active, InFlight
<1>6. TokenInv'
    <2> SUFFICES ASSUME NEW s \in 1..NSources
                 PROVE  /\ token'[s].expires > 0 => token'[s].valid >= token'[s].expires - Timeout
                        /\ cached[s] => opc[s] = "data" /\ token'[s].valid >= Timeout - age'[s]
        BY <1>1 DEF TokenInv
    <2>1. /\ token[s].expires \in Int /\ token[s].valid \in Int /\ age[s] \in Int /\ age'[s] \in Int
        BY <1>2
    <2>2. /\ token[s].expires > 0 => token[s].valid >= token[s].expires - Timeout
          /\ cached[s] => opc[s] = "data" /\ token[s].valid >= Timeout - age[s]
        BY DEF TokenInv
    <2>3. opc[s] = "data" => age'[s] = age[s] + 1
        BY <1>2 DEF InFlight
    <2>4. /\ token'[s].expires = IF token[s].expires - 1 >= 0 THEN token[s].expires - 1 ELSE 0
          /\ token'[s].valid = IF token[s].valid - 1 >= -1 THEN token[s].valid - 1 ELSE -1
        BY <1>3
    <2> HIDE PressureAssumption DEF PressureInv, PressureTypeOK
    <2>5. Timeout \in Nat
        BY PressureAssumption
    <2>6. token'[s].expires > 0 => token'[s].valid >= token'[s].expires - Timeout
        BY <2>1, <2>2, <2>4, <2>5
    <2>7. cached[s] => token'[s].valid >= Timeout - age'[s]
        BY <2>1, <2>2, <2>3, <2>4, <2>5
    <2> QED BY <2>2, <2>6, <2>7
<1> QED BY <1>4, <1>5, <1>6

\* A used sample is forgotten, its tokens are not.
LEMMA ForgetStep ==
    ASSUME PressureInv, Forget, round' \in {"wait", "gone"}
    PROVE  PressureTypeOK' /\ AtWork' /\ TokenInv'
<1> USE PressureAssumption DEF PressureInv, PressureTypeOK, Forget
<1>1. PressureTypeOK'
    OBVIOUS
<1>2. AtWork'
    BY DEF AtWork
<1>3. \A s \in 1..NSources : ~cached'[s] /\ token'[s] = token[s]
    OBVIOUS
<1>4. TokenInv'
    BY <1>3 DEF TokenInv
<1> QED BY <1>1, <1>2, <1>4

-----------------------------------------------------------------------------
(* Samples *)

\* An answer that does not fail has readable values, finitely many.
LEMMA GoodBody ==
    ASSUME NEW body \in Bodies \cup {Broken}, ~BodyFails(body)
    PROVE  /\ body # Broken /\ NonFinite \notin Range(body)
           /\ Values(body) \subseteq Int /\ Values(body) # {} /\ IsFiniteSet(Values(body))
<1>1. body # Broken /\ NonFinite \notin Range(body) /\ Values(body) # {}
    BY Zenon DEF BodyFails
<1>2. body \in Seq(Int \cup {Skip, NonFinite})
    BY <1>1, PressureAssumption
<1>3. Len(body) \in Int /\ DOMAIN body = 1..Len(body)
    BY <1>2
<1>4. IsFiniteSet(1..Len(body))
    BY <1>3, FS_Interval
<1>5. IsFiniteSet(Range(body))
    BY <1>3, <1>4, FiniteRange, Zenon DEF Range
<1>6. Values(body) \in SUBSET Range(body)
    BY DEF Values
<1>7. IsFiniteSet(Values(body))
    BY <1>5, <1>6, FS_Subset, Zenon
<1>8. \A v \in Range(body) : v \in Int \cup {Skip, NonFinite}
    BY <1>2 DEF Range
<1>9. Values(body) \subseteq Int
    BY <1>8 DEF Values
<1> QED BY <1>1, <1>7, <1>9

\* The sources of a sample.
LEMMA ActiveSources ==
    /\ Active # {} /\ Active \subseteq 1..NSources /\ Active \subseteq Nat /\ IsFiniteSet(Active)
    /\ 0 \notin Active
<1>1. 1 \in 1..NSources /\ NSources \in Int /\ 1 \in Int
    BY PressureAssumption
<1>2. IsFiniteSet(1..NSources)
    BY <1>1, FS_Interval
<1>3. IsFiniteSet({1})
    BY FS_Singleton, Zenon
<1>4. Active = {1} \/ Active = 1..NSources
    BY DEF Active
<1>5. Active # {} /\ Active \subseteq 1..NSources
    BY <1>1, <1>4
<1>6. IsFiniteSet(Active)
    BY <1>2, <1>3, <1>4, Zenon
<1>7. \A s \in 1..NSources : s \in Nat /\ s # 0
    BY <1>1
<1> QED BY <1>5, <1>6, <1>7

\* What the aggregate of the replies is: a source that failed, or the largest of
\* the largest values.
LEMMA AggregateFacts ==
    ASSUME PressureTypeOK
    PROVE  LET tops == {Largest(Values(reply[s])) : s \in Active}
           IN  /\ Aggregate.failed # 0 =>
                     Aggregate.failed \in Active /\ BodyFails(reply[Aggregate.failed])
               /\ Aggregate.failed = 0 =>
                     /\ \A s \in Active : ~BodyFails(reply[s])
                     /\ tops \subseteq Int
                     /\ Aggregate.maximum \in tops /\ \A v \in tops : Aggregate.maximum >= v
<1> DEFINE failing == {s \in Active : BodyFails(reply[s])}
           tops == {Largest(Values(reply[s])) : s \in Active}
<1>1. CASE failing # {}
    <2>1. Aggregate = [failed |-> Min(failing), maximum |-> 0]
        BY <1>1 DEF Aggregate
    <2>2. failing \subseteq Nat
        BY ActiveSources
    <2>3. Min(failing) \in failing
        BY <1>1, <2>2, MinProperty
    <2> QED BY <2>1, <2>3, ActiveSources
<1>2. CASE failing = {}
    <2>1. Aggregate = [failed |-> 0, maximum |-> Max(tops)]
        BY <1>2 DEF Aggregate, Largest
    <2>2. \A s \in Active : reply[s] \in Bodies \cup {Broken} /\ ~BodyFails(reply[s])
        BY <1>2, ActiveSources DEF PressureTypeOK
    <2>3. \A s \in Active : Largest(Values(reply[s])) \in Int
        <3> TAKE s \in Active
        <3>1. Values(reply[s]) \subseteq Int /\ Values(reply[s]) # {} /\ IsFiniteSet(Values(reply[s]))
            BY <2>2, GoodBody
        <3>2. Max(Values(reply[s])) \in Values(reply[s])
            BY <3>1, MaxProperty
        <3> QED BY <3>1, <3>2 DEF Largest
    <2>4. tops \subseteq Int /\ tops # {}
        BY <2>3, ActiveSources
    <2>5. IsFiniteSet(tops)
        <3> DEFINE f == [s \in Active |-> Largest(Values(reply[s]))]
        <3>1. IsFiniteSet({f[s] : s \in Active})
            BY ActiveSources, FiniteRange
        <3>2. tops = {f[s] : s \in Active}
            OBVIOUS
        <3> QED BY <3>1, <3>2
    <2>6. Max(tops) \in tops /\ \A v \in tops : Max(tops) >= v
        BY <2>4, <2>5, MaxProperty
    <2> HIDE DEF tops
    <2>7. Aggregate.failed = 0 /\ Aggregate.maximum = Max(tops)
        BY <2>1
    <2> USE DEF tops
    <2> QED BY <2>2, <2>4, <2>6, <2>7
<1> QED BY <1>1, <1>2

\* The sample says what the replies say.
LEMMA SampleFromInv == PressureInv => SampleIsTruth
<1> SUFFICES ASSUME PressureInv, round = "sampled"
             PROVE  IF sample.failed # 0
                    THEN BodyFails(reply[sample.failed])
                    ELSE \A s \in Active :
                            /\ reply[s] # Broken /\ NonFinite \notin Range(reply[s])
                            /\ \A v \in Values(reply[s]) : v <= sample.maximum
                            /\ \E r \in Active : sample.maximum \in Values(reply[r])
    BY DEF SampleIsTruth
<1>1. sample = Aggregate /\ PressureTypeOK
    BY DEF PressureInv, SampleInv
<1>2. CASE sample.failed # 0
    BY <1>1, <1>2, AggregateFacts
<1>3. CASE sample.failed = 0
    <2> DEFINE top(s) == Max(Values(reply[s]))
    <2>1. /\ \A s \in Active : ~BodyFails(reply[s])
          /\ \E r \in Active : sample.maximum = top(r)
          /\ \A s \in Active : sample.maximum >= top(s)
          /\ sample.maximum \in Int
        BY <1>1, <1>3, AggregateFacts DEF Largest
    <2>2. ASSUME NEW s \in Active
          PROVE  /\ reply[s] # Broken /\ NonFinite \notin Range(reply[s])
                 /\ Values(reply[s]) \subseteq Int /\ top(s) \in Values(reply[s])
                 /\ \A v \in Values(reply[s]) : top(s) >= v
        <3>1. reply[s] \in Bodies \cup {Broken}
            BY <1>1, ActiveSources DEF PressureTypeOK
        <3>2. /\ reply[s] # Broken /\ NonFinite \notin Range(reply[s])
              /\ Values(reply[s]) \subseteq Int /\ Values(reply[s]) # {} /\ IsFiniteSet(Values(reply[s]))
            BY <2>1, <3>1, GoodBody
        <3> QED BY <3>2, MaxProperty
    <2> HIDE DEF top
    <2>3. ASSUME NEW s \in Active, NEW v \in Values(reply[s])
          PROVE  v <= sample.maximum
        <3>1. v \in Int /\ top(s) \in Int /\ top(s) >= v /\ sample.maximum >= top(s) /\ sample.maximum \in Int
            BY <2>1, <2>2
        <3> QED BY <3>1
    <2>4. \E r \in Active : sample.maximum \in Values(reply[r])
        BY <2>1, <2>2
    <2> QED BY <1>3, <2>2, <2>3, <2>4
<1> QED BY <1>2, <1>3

\* The aggregate depends on the kind and the replies alone.
LEMMA AggregateStays ==
    ASSUME kind' = kind, reply' = reply
    PROVE  Aggregate' = Aggregate
<1>1. Active' = Active
    BY DEF Active
<1>2. \A s \in Active : (BodyFails(reply[s]))' <=> BodyFails(reply[s])
    BY DEF BodyFails
<1>3. {s \in Active : BodyFails(reply[s])}' = {s \in Active : BodyFails(reply[s])}
    BY <1>1, <1>2
<1>4. {Largest(Values(reply[s])) : s \in Active}' = {Largest(Values(reply[s])) : s \in Active}
    BY <1>1
<1> QED BY <1>3, <1>4 DEF Aggregate

\* A step that leaves the sources alone keeps their invariant.
LEMMA SourcesStay ==
    ASSUME PressureTypeOK, AtWork, TokenInv, UNCHANGED <<kind, sourceVars>>,
           round' = round \/ (round' \in {"wait", "sampled", "gone"} /\ \A s \in Active : opc[s] = "done")
    PROVE  PressureTypeOK' /\ AtWork' /\ TokenInv'
<1>1. /\ kind' = kind /\ opc' = opc /\ age' = age /\ token' = token /\ cached' = cached
      /\ reply' = reply
    BY DEF sourceVars
<1>2. PressureTypeOK'
    BY <1>1 DEF PressureTypeOK
<1>3. AtWork'
    BY <1>1 DEF AtWork, Active
<1>4. TokenInv'
    BY <1>1 DEF TokenInv
<1> QED BY <1>2, <1>3, <1>4

\* Every step keeps the invariant of the sources and of the sample.
LEMMA PressureStep == PressureInv /\ [Next]_vars => PressureInv'
<1> SUFFICES ASSUME PressureInv, [Next]_vars PROVE PressureInv'
    OBVIOUS
<1>0. PressureTypeOK /\ AtWork /\ TokenInv /\ SampleInv
    BY DEF PressureInv
<1>1. CASE Poll
    <2>1. BeginSample /\ round' # "sampled"
        BY <1>1 DEF Poll, BeginSample
    <2> QED BY <2>1, BeginStep DEF PressureInv, SampleInv
<1>2. CASE Sampled
    <2>1. ASSUME NEW s \in 1..NSources, Source(s)
          PROVE  PressureInv'
        <3>1. PressureTypeOK' /\ AtWork' /\ TokenInv'
            BY <2>1, TakeStep, AuthStep DEF Source
        <3>2. opc[s] \in {"token", "auth", "data"} /\ round' = round
            BY <2>1 DEF Source, TakeToken, AuthAnswers, AuthFails, DataAnswers
        <3>3. round' # "sampled"
            BY <1>0, <3>2 DEF AtWork
        <3> QED BY <3>1, <3>3 DEF PressureInv, SampleInv
    <2>2. CASE EndSample
        <3>1. /\ UNCHANGED <<kind, sourceVars>> /\ round' = "sampled"
              /\ \A s \in Active : opc[s] = "done"
            BY <2>2 DEF EndSample
        <3>2. PressureTypeOK' /\ AtWork' /\ TokenInv'
            BY <1>0, <3>1, SourcesStay
        <3>3. kind' = kind /\ reply' = reply
            BY <3>1 DEF sourceVars
        <3>4. sample' = Aggregate'
            BY <2>2, <3>3, AggregateStays DEF EndSample
        <3> QED BY <3>2, <3>4 DEF PressureInv, SampleInv
    <2> QED BY <1>2, <2>1, <2>2 DEF Sampled, Sampling
<1>3. CASE UseSample \/ PollerLeaves
    <2>1. Forget /\ round' \in {"wait", "gone"}
        BY <1>3 DEF UseSample, PollerLeaves
    <2> QED BY <2>1, ForgetStep DEF PressureInv, SampleInv
<1>4. CASE TimePasses
    <2>1. Tick /\ kind' = kind /\ reply' = reply /\ round' = round /\ sample' = sample
        BY <1>4 DEF TimePasses, Tick
    <2> QED BY <1>0, <2>1, TickStep, AggregateStays DEF PressureInv, SampleInv
<1>5. CASE Cancel \/ UNCHANGED vars
    <2>1. /\ UNCHANGED <<kind, sourceVars>> /\ round' = round /\ sample' = sample
          /\ kind' = kind /\ reply' = reply
        BY <1>5 DEF Cancel, vars, pressureVars, sourceVars
    <2>2. PressureTypeOK' /\ AtWork' /\ TokenInv'
        BY <1>0, <2>1, SourcesStay
    <2> QED BY <1>0, <2>1, <2>2, AggregateStays DEF PressureInv, SampleInv
<1> QED BY <1>1, <1>2, <1>3, <1>4, <1>5 DEF Next

\* The invariant of the pressure source.
THEOREM PressureInvariant == Spec => []PressureInv
<1>1. Init => PressureInv
    <2> SUFFICES ASSUME Init PROVE PressureInv
        OBVIOUS
    <2> USE PressureAssumption DEF Init, PressureInit
    <2>1. PressureTypeOK
        BY DEF PressureTypeOK, NoToken
    <2>2. AtWork
        BY DEF AtWork
    <2>3. \A s \in 1..NSources : ~cached[s] /\ token[s].expires = 0
        BY DEF NoToken
    <2>4. SampleInv
        BY DEF SampleInv
    <2> HIDE PressureAssumption DEF Init, PressureInit
    <2>5. TokenInv
        BY <2>3 DEF TokenInv
    <2> QED BY <2>1, <2>2, <2>4, <2>5 DEF PressureInv
<1> QED BY <1>1, PressureStep, PTL DEF Spec

\* A token from the cache outlives the request that carries it.
THEOREM FreshToken == Spec => []TokenIsFresh
<1>1. PressureInv => TokenIsFresh
    <2> SUFFICES ASSUME PressureInv, NEW s \in 1..NSources, cached[s]
                 PROVE  token[s].valid >= 0
        BY DEF TokenIsFresh
    <2>1. token[s].valid >= Timeout - age[s]
        BY DEF PressureInv, TokenInv
    <2>2. token[s].valid \in Int /\ age[s] \in 0..Timeout /\ Timeout \in Nat
        BY PressureAssumption DEF PressureInv, PressureTypeOK
    <2> QED BY <2>1, <2>2
<1> QED BY <1>1, PressureInvariant, PTL

\* A sample is the highest pressure that was reported, or names a source that
\* failed, for any number of sources and any answers.
THEOREM TrueSample == Spec => []SampleIsTruth
    BY SampleFromInv, PressureInvariant, PTL

-----------------------------------------------------------------------------
(* What is shown *)

\* Rounding towards zero keeps the order of the naturals ...
LEMMA QuotientMonotone ==
    ASSUME NEW a \in Nat, NEW b \in Nat, a <= b
    PROVE  a \div Percent <= b \div Percent /\ a \div Percent \in Nat
<1> DEFINE q == a \div Percent
           r == b \div Percent
<1>1. /\ q \in Nat /\ r \in Nat /\ q * Percent <= a /\ b < (r + 1) * Percent
    BY PercentAssumption
<1> HIDE DEF q, r
<1>2. ASSUME q > r PROVE FALSE
    <2>1. (r + 1) * Percent <= q * Percent
        BY <1>1, <1>2, PercentAssumption
    <2>2. (r + 1) * Percent \in Int /\ q * Percent \in Int
        BY <1>1, PercentAssumption
    <2> QED BY <1>1, <2>1, <2>2
<1>3. q <= r /\ q \in Nat
    BY <1>1, <1>2
<1> QED BY <1>3 DEF q, r

\* ... and of the integers.
LEMMA TruncatedMonotone ==
    ASSUME NEW v \in Int, NEW w \in Int, v <= w
    PROVE  Truncated(v) \in Int /\ Truncated(w) \in Int /\ Truncated(v) <= Truncated(w)
<1>1. \A a \in Nat : a \div Percent \in Nat
    BY QuotientMonotone
<1>2. CASE v >= 0
    BY <1>1, <1>2, QuotientMonotone DEF Truncated
<1>3. CASE w < 0
    <2>1. -w \in Nat /\ -v \in Nat /\ -w <= -v
        BY <1>3
    <2>2. (-w) \div Percent <= (-v) \div Percent /\ (-w) \div Percent \in Nat /\ (-v) \div Percent \in Nat
        BY <1>1, <2>1, QuotientMonotone
    <2>3. Truncated(v) = -((-v) \div Percent) /\ Truncated(w) = -((-w) \div Percent)
        BY <1>3 DEF Truncated
    <2> HIDE DEF Truncated
    <2> QED BY <2>2, <2>3
<1>4. CASE v < 0 /\ w >= 0
    <2>1. (-v) \div Percent \in Nat /\ w \div Percent \in Nat
        BY <1>1, <1>4
    <2>2. Truncated(v) = -((-v) \div Percent) /\ Truncated(w) = w \div Percent
        BY <1>4 DEF Truncated
    <2> QED BY <2>1, <2>2
<1> QED BY <1>2, <1>3, <1>4

\* The element above all others is the maximum.
LEMMA MaxIs ==
    ASSUME NEW S, S \subseteq Int, NEW x \in S, \A y \in S : x >= y
    PROVE  Max(S) = x
<1>1. Max(S) \in S /\ \A y \in S : Max(S) >= y
    BY DEF Max
<1>2. Max(S) >= x /\ x >= Max(S) /\ Max(S) \in Int /\ x \in Int
    BY <1>1
<1> QED BY <1>2

\* A poll whose sample failed: the streaks of the failed sources grow with that
\* of the whole.
LEMMA ShowFailure ==
    ASSUME PressureInv, ShownInv, UseSample, sample.failed # 0
    PROVE  ShownInv'
<1> DEFINE bad(s) == BodyFails(reply[s])
<1>1. /\ kind' = kind /\ sources' = PolledSources /\ shown' = [shown EXCEPT !.streak = failures + 1]
      /\ failures' = failures + 1
    BY DEF UseSample, Forget, PolledHealth
<1>2. sample.failed \in Active /\ bad(sample.failed)
    <2>1. sample = Aggregate /\ PressureTypeOK
        BY DEF PressureInv, SampleInv, UseSample
    <2> QED BY <2>1, AggregateFacts
<1> HIDE DEF bad
<1>3. /\ failures \in Nat /\ DOMAIN sources = 1..NSources /\ DOMAIN shown = {"maximum", "streak"}
      /\ \A s \in 1..NSources :
            DOMAIN sources[s] = {"has", "value", "streak"} /\ sources[s].streak \in Nat
    BY DEF ShownInv
<1>4. DOMAIN sources' = 1..NSources
    BY <1>1 DEF PolledSources
<1>5. failures' \in Nat /\ DOMAIN shown' = {"maximum", "streak"} /\ shown'.streak = failures'
    BY <1>1, <1>3
<1>6. ASSUME NEW s \in 1..NSources
      PROVE  /\ DOMAIN sources'[s] = {"has", "value", "streak"}
             /\ sources'[s].streak = IF kind = "simple" THEN sources[s].streak
                                     ELSE IF bad(s) THEN sources[s].streak + 1 ELSE 0
    <2>1. sources'[s] = IF kind = "simple" THEN sources[s]
                        ELSE IF bad(s) THEN [sources[s] EXCEPT !.streak = sources[s].streak + 1]
                        ELSE [has |-> TRUE, value |-> Truncated(Largest(Values(reply[s]))), streak |-> 0]
        BY <1>1 DEF PolledSources, bad
    <2>2. \A v, x : /\ DOMAIN [has |-> x, value |-> v, streak |-> 0] = {"has", "value", "streak"}
                    /\ [has |-> x, value |-> v, streak |-> 0].streak = 0
        OBVIOUS
    <2>3. CASE kind = "simple"
        BY <1>3, <2>1, <2>3, Zenon
    <2>4. CASE kind # "simple" /\ bad(s)
        <3>1. sources'[s] = [sources[s] EXCEPT !.streak = sources[s].streak + 1]
            BY <2>1, <2>4, Zenon
        <3> QED BY <1>3, <2>4, <3>1
    <2>5. CASE kind # "simple" /\ ~bad(s)
        <3>1. sources'[s] = [has |-> TRUE, value |-> Truncated(Largest(Values(reply[s]))), streak |-> 0]
            BY <2>1, <2>5, Zenon
        <3>2. DOMAIN sources'[s] = {"has", "value", "streak"} /\ sources'[s].streak = 0
            BY <2>2, <3>1, Zenon
        <3> QED BY <2>5, <3>2, Zenon
    <2> QED BY <2>3, <2>4, <2>5
<1>7. ShownIsTruth'
    <2> SUFFICES ASSUME kind = "authenticated"
                 PROVE  /\ \A s \in Active' : sources'[s].streak <= failures'
                        /\ \E s \in Active' : sources'[s].streak > 0
        BY <1>1, <1>3, <1>5 DEF ShownIsTruth
    <2>1. Active' = Active /\ Active \subseteq 1..NSources
        BY <1>1, ActiveSources DEF Active
    <2>2. \A s \in Active : sources[s].streak <= failures
        BY DEF ShownInv, ShownIsTruth
    <2>3. \A s \in Active : sources'[s].streak <= failures'
        BY <1>1, <1>3, <1>6, <2>1, <2>2
    <2>4. \A s \in 1..NSources : bad(s) => sources'[s].streak > 0
        <3> SUFFICES ASSUME NEW s \in 1..NSources, bad(s) PROVE sources'[s].streak > 0
            OBVIOUS
        <3>1. sources'[s].streak = sources[s].streak + 1
            BY <1>6
        <3>2. sources[s].streak \in Nat
            BY <1>3
        <3> QED BY <3>1, <3>2
    <2>5. sources'[sample.failed].streak > 0
        BY <1>2, <2>1, <2>4, Zenon
    <2> QED BY <1>2, <2>1, <2>3, <2>5
<1>8. \A s \in 1..NSources : sources'[s].streak \in Nat
    BY <1>3, <1>6
<1> QED BY <1>4, <1>5, <1>6, <1>7, <1>8 DEF ShownInv

\* A poll whose sample is good: the maximum of the rounded values is the rounded
\* maximum.
LEMMA ShowSuccess ==
    ASSUME PressureInv, ShownInv, UseSample, sample.failed = 0
    PROVE  ShownInv'
<1> DEFINE top(s) == Largest(Values(reply[s]))
           tops == {top(s) : s \in Active}
<1>1. /\ kind' = kind /\ sources' = PolledSources /\ failures' = 0
      /\ shown' = [maximum |-> Truncated(sample.maximum), streak |-> 0]
    BY DEF UseSample, Forget, PolledHealth
<1>2. /\ \A s \in Active : ~BodyFails(reply[s]) /\ top(s) \in Int
      /\ sample.maximum \in Int
      /\ \E r \in Active : sample.maximum = top(r)
      /\ \A s \in Active : sample.maximum >= top(s)
    <2>1. sample = Aggregate /\ PressureTypeOK
        BY DEF PressureInv, SampleInv, UseSample
    <2>2. /\ \A s \in Active : ~BodyFails(reply[s])
          /\ tops \subseteq Int /\ sample.maximum \in tops /\ \A v \in tops : sample.maximum >= v
        BY <2>1, AggregateFacts
    <2> QED BY <2>2
<1> HIDE DEF top
<1>3. DOMAIN sources' = 1..NSources
    BY <1>1 DEF PolledSources
<1>4. failures' \in Nat /\ DOMAIN shown' = {"maximum", "streak"} /\ shown'.streak = failures'
      /\ shown'.maximum = Truncated(sample.maximum)
    BY <1>1
<1>5. CASE kind = "simple"
    <2>1. \A s \in 1..NSources : sources'[s] = sources[s]
        BY <1>1, <1>5 DEF PolledSources
    <2>2. ShownIsTruth'
        BY <1>1, <1>5 DEF ShownIsTruth
    <2> QED BY <1>3, <1>4, <2>1, <2>2 DEF ShownInv
<1>6. CASE kind = "authenticated"
    <2>1. Active = 1..NSources /\ Active' = Active
        BY <1>1, <1>6 DEF Active
    <2>2. \A s \in Active : sources'[s] = [has |-> TRUE, value |-> Truncated(top(s)), streak |-> 0]
        BY <1>1, <1>2, <1>6, <2>1 DEF PolledSources, top
    <2>3. \A v : /\ DOMAIN [has |-> TRUE, value |-> v, streak |-> 0] = {"has", "value", "streak"}
                 /\ [has |-> TRUE, value |-> v, streak |-> 0].streak = 0
                 /\ [has |-> TRUE, value |-> v, streak |-> 0].value = v
        OBVIOUS
    <2>4. \A s \in Active : /\ DOMAIN sources'[s] = {"has", "value", "streak"}
                            /\ sources'[s].streak = 0 /\ sources'[s].value = Truncated(top(s))
        BY <2>2, <2>3, Zenon
    <2>5. \A s \in Active : sources'[s].has
        <3>1. \A v, x : [has |-> x, value |-> v, streak |-> 0].has = x
            OBVIOUS
        <3>2. \A s \in Active : sources'[s].has = TRUE
            BY <2>2, <3>1, Zenon
        <3> QED BY <3>2, Zenon
    <2> DEFINE values == {sources'[s].value : s \in Active}
    <2>6. \A s \in Active : /\ Truncated(top(s)) \in Int /\ Truncated(sample.maximum) \in Int
                            /\ Truncated(sample.maximum) >= Truncated(top(s))
        <3> TAKE s \in Active
        <3>1. top(s) \in Int /\ sample.maximum \in Int /\ top(s) <= sample.maximum
            BY <1>2
        <3>2. /\ Truncated(top(s)) \in Int /\ Truncated(sample.maximum) \in Int
              /\ Truncated(top(s)) <= Truncated(sample.maximum)
            BY <3>1, TruncatedMonotone
        <3> QED BY <3>2
    <2>7. /\ values \subseteq Int /\ Truncated(sample.maximum) \in values
          /\ \A v \in values : Truncated(sample.maximum) >= v
        BY <1>2, <2>4, <2>6
    <2>8. Max(values) = Truncated(sample.maximum)
        BY <2>7, MaxIs
    <2>9. ShownIsTruth'
        <3>1. \A s \in Active' : sources'[s].streak <= failures'
            BY <1>1, <2>1, <2>4
        <3>2. (Max({sources[s].value : s \in Active}))' = Max(values)
            BY <2>1
        <3> QED BY <1>1, <1>4, <2>1, <2>5, <2>8, <3>1, <3>2 DEF ShownIsTruth
    <2> QED BY <1>3, <1>4, <2>1, <2>4, <2>9 DEF ShownInv
<1> QED BY <1>5, <1>6 DEF PressureInv, PressureTypeOK

\* Only a poll changes what is shown.
LEMMA ShownStays == ShownInv /\ kind' = kind /\ UNCHANGED <<failures, sources, shown>> => ShownInv'
<1> SUFFICES ASSUME ShownInv, kind' = kind, UNCHANGED <<failures, sources, shown>> PROVE ShownInv'
    OBVIOUS
<1>1. Active' = Active
    BY DEF Active
<1>2. ShownIsTruth'
    BY <1>1 DEF ShownInv, ShownIsTruth
<1> QED BY <1>2 DEF ShownInv

\* What is shown is the truth: the whole agrees with its parts in every state.
THEOREM TrueView == Spec => []ShownIsTruth
<1>1. Init => ShownInv
    <2> SUFFICES ASSUME Init PROVE ShownInv
        OBVIOUS
    <2>1. /\ failures = 0 /\ shown = [maximum |-> 0, streak |-> 0]
          /\ sources = [s \in 1..NSources |-> [has |-> FALSE, value |-> 0, streak |-> 0]]
        BY DEF Init
    <2>2. /\ DOMAIN [has |-> FALSE, value |-> 0, streak |-> 0] = {"has", "value", "streak"}
          /\ [has |-> FALSE, value |-> 0, streak |-> 0].streak = 0
        OBVIOUS
    <2>3. \A s \in 1..NSources : /\ sources[s].streak = 0
                                 /\ DOMAIN sources[s] = {"has", "value", "streak"}
        BY <2>1, <2>2, Zenon
    <2>4. \A s \in 1..NSources : ~sources[s].has
        BY <2>1
    <2>5. /\ DOMAIN sources = 1..NSources /\ DOMAIN shown = {"maximum", "streak"} /\ shown.streak = 0
        BY <2>1
    <2>6. ShownIsTruth
        <3>1. /\ \A s \in Active : sources[s].streak = 0 /\ ~sources[s].has
              /\ failures = 0 /\ shown.streak = failures
            BY <2>1, <2>3, <2>4, <2>5, ActiveSources
        <3>2. ~(failures > 0) /\ \A s \in Active : sources[s].streak <= failures
            BY <3>1
        <3> QED BY <3>1, <3>2, Zenon DEF ShownIsTruth
    <2> QED BY <2>1, <2>3, <2>5, <2>6 DEF ShownInv
<1>2. PressureInv /\ ShownInv /\ [Next]_vars => ShownInv'
    <2> SUFFICES ASSUME PressureInv, ShownInv, [Next]_vars PROVE ShownInv'
        OBVIOUS
    <2>1. CASE UseSample
        BY <2>1, ShowFailure, ShowSuccess
    <2>2. CASE ~UseSample
        <3>1. kind' = kind /\ UNCHANGED <<failures, sources, shown>>
            BY <2>2 DEF Next, Poll, BeginSample, Sampled, Sampling, Source, TakeToken, AuthAnswers,
               AuthFails, DataAnswers, EndSample, PollerLeaves, Forget, Cancel, TimePasses, Tick,
               viewVars, vars, pressureVars
        <3> QED BY <3>1, ShownStays
    <2> QED BY <2>1, <2>2
<1>3. ShownInv => ShownIsTruth
    BY DEF ShownInv
<1> QED BY <1>1, <1>2, <1>3, PressureInvariant, PTL DEF Spec
=============================================================================
