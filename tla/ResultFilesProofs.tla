------------------------ MODULE ResultFilesProofs ------------------------
(***************************************************************************)
(* Proofs about ResultFiles for any number of tasks, runs, file names and  *)
(* interrupted, failed or killed runs, any order of the results and any    *)
(* flush interval.                                                         *)
(***************************************************************************)
EXTENDS ResultFiles, FiniteSetTheorems, TLAPS

-----------------------------------------------------------------------------
(* Records and files *)

\* The marks are records, and no row is one of them.
LEMMA MarkFacts ==
    /\ Mark("header") \in Records /\ Mark("torn") \in Records /\ Mark("bare") \in Records
    /\ Mark("glued") \in Records /\ Mark("older") \in Records
    /\ Mark("header") # Mark("torn") /\ Mark("header") # Mark("glued") /\ Mark("header") # Mark("bare")
    /\ Mark("glued") # Mark("torn") /\ Mark("glued") # Mark("bare") /\ Mark("torn") # Mark("bare")
    /\ Mark("header").task = 0 /\ Mark("torn").task = 0 /\ Mark("bare").task = 0
    /\ Mark("glued").task = 0 /\ Mark("older").task = 0
    /\ \A r \in Records : r.task \in Nat
    /\ Unended = {Mark("torn"), Mark("bare")}
    /\ \A cut \in Cuts : cut # "none" => Mark(cut) \in Unended
    /\ "none" \in Cuts
  <1>1. \A m : Mark(m).task = 0 /\ Mark(m).status = m
    BY DEF Mark
  <1>2. /\ Mark("header") \in Records /\ Mark("torn") \in Records /\ Mark("bare") \in Records
        /\ Mark("glued") \in Records /\ Mark("older") \in Records
    BY DEF Mark, Records
  <1>3. \A r \in Records : r.task \in Nat
    BY DEF Records
  <1>4. /\ Mark("header") # Mark("torn") /\ Mark("header") # Mark("glued") /\ Mark("header") # Mark("bare")
        /\ Mark("glued") # Mark("torn") /\ Mark("glued") # Mark("bare") /\ Mark("torn") # Mark("bare")
    <2>1. /\ "header" # "torn" /\ "header" # "glued" /\ "header" # "bare" /\ "torn" # "glued"
          /\ "glued" # "bare" /\ "torn" # "bare"
      OBVIOUS
    <2>2. QED BY <1>1, <2>1
  <1>5. /\ Unended = {Mark("torn"), Mark("bare")}
        /\ \A cut \in Cuts : cut # "none" => Mark(cut) \in Unended
        /\ "none" \in Cuts
    BY Zenon DEF Cuts, Unended
  <1>6. QED BY <1>1, <1>2, <1>3, <1>4, <1>5

\* What a file ends in when its last record is cut.
LEMMA UnendedFacts ==
    /\ \A r \in Unended : r \in Records /\ r.task = 0 /\ r # Mark("header") /\ r # Mark("glued")
    /\ Mark("torn") \in Unended
    /\ \A f \in Seq(Records) : EndsTorn(f) => Len(f) > 0 /\ f[Len(f)] \in Unended
    /\ \A f \in Seq(Records) : f # <<>> /\ f[Len(f)] \in Unended => EndsTorn(f)
  <1>1. \A f \in Seq(Records) : EndsTorn(f) => Len(f) > 0 /\ f[Len(f)] \in Unended
    BY DEF EndsTorn, Last
  <1>2. \A f \in Seq(Records) : f # <<>> /\ f[Len(f)] \in Unended => EndsTorn(f)
    BY DEF EndsTorn, Last
  <1>3. \A r \in Unended : r = Mark("torn") \/ r = Mark("bare")
    BY MarkFacts
  <1>4. \A r \in Unended : r \in Records /\ r.task = 0 /\ r # Mark("header") /\ r # Mark("glued")
    BY <1>3, MarkFacts
  <1>5. QED BY <1>1, <1>2, <1>4, MarkFacts

\* What reaches the disk of the records s: the first n, and perhaps a part of one.
Part(s, n, cut) == SubSeq(s, 1, n) \o IF cut = "none" THEN <<>> ELSE <<Mark(cut)>>

\* Its length and its records.
LEMMA PartFacts ==
    ASSUME NEW s \in Seq(Records), NEW n \in 0..Len(s), NEW cut \in Cuts
    PROVE  /\ Part(s, n, cut) \in Seq(Records)
           /\ Len(Part(s, n, cut)) = IF cut = "none" THEN n ELSE n + 1
           /\ \A i \in 1..n : Part(s, n, cut)[i] = s[i]
           /\ cut # "none" => Part(s, n, cut)[n + 1] = Mark(cut) /\ Mark(cut) \in Unended
  <1> DEFINE b == SubSeq(s, 1, n)
             m == Mark(cut)
  <1>2. b \in Seq(Records) /\ Len(b) = n /\ \A i \in 1..n : b[i] = s[i]
    OBVIOUS
  <1> HIDE DEF b
  <1>3. CASE cut # "none"
    <2>1. m \in Records /\ m \in Unended
      BY <1>3, MarkFacts, UnendedFacts
    <2>2. Part(s, n, cut) = b \o <<m>>
      BY <1>3 DEF Part, b
    <2> HIDE DEF m
    <2>3. /\ b \o <<m>> \in Seq(Records) /\ Len(b \o <<m>>) = n + 1
          /\ \A i \in 1..n : (b \o <<m>>)[i] = b[i]
          /\ (b \o <<m>>)[n + 1] = m
      BY <1>2, <2>1
    <2>4. QED BY <1>2, <1>3, <2>1, <2>2, <2>3 DEF m
  <1>4. CASE cut = "none"
    <2>1. Part(s, n, cut) = b \o <<>>
      BY <1>4 DEF Part, b
    <2>2. b \o <<>> = b
      BY <1>2
    <2>3. QED BY <1>2, <1>4, <2>1, <2>2
  <1>5. QED BY <1>3, <1>4

\* Two sequences after each other.
LEMMA ConcatFacts ==
    \A a, b \in Seq(Records) :
        /\ a \o b \in Seq(Records) /\ Len(a \o b) = Len(a) + Len(b)
        /\ \A i \in 1..Len(a) : (a \o b)[i] = a[i]
        /\ \A i \in 1..Len(b) : (a \o b)[Len(a) + i] = b[i]
  OBVIOUS

\* The two ways in which records are appended.
Appended(f, t, j) ==
    /\ Len(j) = Len(f) + Len(t)
    /\ \A i \in 1..Len(f) : j[i] = f[i]
    /\ \A i \in 1..Len(t) : j[Len(f) + i] = t[i]

\* The first one continues a cut record.
Glued(f, t, j) ==
    /\ Len(j) = Len(f) + Len(t) - 1
    /\ \A i \in 1..(Len(f) - 1) : j[i] = f[i]
    /\ j[Len(f)] = IF t[1] \in Unended THEN Mark("torn") ELSE Mark("glued")
    /\ \A i \in 2..Len(t) : j[Len(f) + i - 1] = t[i]

\* What is appended follows the old records; after a cut one it takes its place, and
\* the first record of it cannot be read any more.
LEMMA JoinedFacts ==
    ASSUME NEW f \in Seq(Records), NEW t \in Seq(Records)
    PROVE  /\ Joined(f, t) \in Seq(Records)
           /\ ~EndsTorn(f) \/ t = <<>> => Appended(f, t, Joined(f, t))
           /\ EndsTorn(f) /\ t # <<>> => Glued(f, t, Joined(f, t))
  <1>1. CASE ~EndsTorn(f) \/ t = <<>>
    <2>1. Joined(f, t) = f \o t
      BY <1>1 DEF Joined, EndsTorn
    <2>2. QED BY <1>1, <2>1 DEF Appended
  <1>3. CASE EndsTorn(f) /\ t # <<>>
    <2> DEFINE a == SubSeq(f, 1, Len(f) - 1)
               m == IF t[1] \in Unended THEN Mark("torn") ELSE Mark("glued")
               r == Tail(t)
               c == a \o <<m>>
    <2>1. Joined(f, t) = (a \o <<m>>) \o r
      <3>1. Head(t) = t[1]
        BY <1>3
      <3>2. QED BY <1>3, <3>1 DEF Joined, EndsTorn, Front
    <2>2. m \in Records
      BY MarkFacts
    <2>3. f # <<>> /\ Len(f) \in Nat \ {0} /\ Len(t) \in Nat \ {0}
      BY <1>3 DEF EndsTorn
    <2>4. /\ a \in Seq(Records) /\ Len(a) = Len(f) - 1
          /\ \A i \in 1..(Len(f) - 1) : a[i] = f[i]
      <3>1. 1 \in 1..(Len(f) + 1) /\ Len(f) - 1 \in 0..Len(f) /\ Len(f) - 1 \in Nat
        BY <2>3
      <3>2. \A n \in 0..Len(f) : /\ SubSeq(f, 1, n) \in Seq(Records) /\ Len(SubSeq(f, 1, n)) = n
                                 /\ \A i \in 1..n : SubSeq(f, 1, n)[i] = f[i]
        OBVIOUS
      <3>3. QED BY <3>1, <3>2
    <2>5. r \in Seq(Records) /\ Len(r) = Len(t) - 1 /\ \A i \in 1..(Len(t) - 1) : r[i] = t[i + 1]
      BY <1>3, <2>3
    <2> HIDE DEF a, m, r
    <2>6. /\ c \in Seq(Records) /\ Len(c) = Len(f)
          /\ \A i \in 1..(Len(f) - 1) : c[i] = f[i]
          /\ c[Len(f)] = m
      BY <2>2, <2>3, <2>4
    <2> HIDE DEF c
    <2>7. /\ c \o r \in Seq(Records) /\ Len(c \o r) = Len(f) + Len(t) - 1
          /\ \A i \in 1..Len(f) : (c \o r)[i] = c[i]
          /\ \A i \in 1..Len(r) : (c \o r)[Len(c) + i] = r[i]
      <3>1. c \in Seq(Records) /\ r \in Seq(Records) /\ Len(c) = Len(f) /\ Len(r) = Len(t) - 1
        BY <2>5, <2>6
      <3>2. /\ c \o r \in Seq(Records) /\ Len(c \o r) = Len(c) + Len(r)
            /\ \A i \in 1..Len(c) : (c \o r)[i] = c[i]
            /\ \A i \in 1..Len(r) : (c \o r)[Len(c) + i] = r[i]
        BY <3>1, ConcatFacts, Zenon
      <3>3. QED BY <2>3, <3>1, <3>2
    <2>8. \A i \in 2..Len(t) : (c \o r)[Len(f) + i - 1] = t[i]
      <3>1. TAKE i \in 2..Len(t)
      <3>2. i - 1 \in 1..Len(r) /\ Len(f) + i - 1 = Len(c) + (i - 1) /\ (i - 1) + 1 = i
        BY <2>3, <2>5, <2>6
      <3>3. (c \o r)[Len(c) + (i - 1)] = r[i - 1] /\ r[i - 1] = t[i]
        BY <2>5, <2>7, <3>2
      <3>4. QED BY <3>2, <3>3
    <2>9. Joined(f, t) = c \o r
      BY <2>1 DEF c
    <2>10. /\ Len(f) \in 1..Len(f)
           /\ \A i \in 1..(Len(f) - 1) : i \in 1..Len(f)
      BY <2>3
    <2>11. QED BY <1>3, <2>6, <2>7, <2>8, <2>9, <2>10 DEF m, Glued
  <1>4. QED BY <1>1, <1>3

\* Nothing that is in a file is overwritten, but for a cut record.
LEMMA JoinedKeeps ==
    ASSUME NEW f \in Seq(Records), NEW t \in Seq(Records)
    PROVE  Kept(f, Joined(f, t))
  <1> DEFINE j == Joined(f, t)
  <1>8. /\ j \in Seq(Records)
        /\ Appended(f, t, j) \/ (Glued(f, t, j) /\ EndsTorn(f) /\ t # <<>>)
    BY JoinedFacts, Zenon
  <1>7. SUFFICES Kept(f, j)
    OBVIOUS
  <1> HIDE DEF j
  <1>1. j \in Seq(Records) /\ Len(f) \in Nat /\ Len(t) \in Nat
    BY <1>8
  <1>6. DOMAIN f = 1..Len(f) /\ DOMAIN j = 1..Len(j)
    BY <1>8
  <1>2. CASE Appended(f, t, j)
    BY <1>1, <1>2, <1>6 DEF Appended, Kept
  <1>4. CASE Glued(f, t, j) /\ EndsTorn(f) /\ t # <<>>
    <2>1. SUFFICES ASSUME NEW i \in 1..Len(f), f[i] \notin Unended
                   PROVE  i \in 1..Len(j) /\ j[i] = f[i]
      BY <1>6 DEF Kept
    <2>2. f[Len(f)] \in Unended /\ Len(t) > 0
      BY <1>1, <1>4, UnendedFacts
    <2>3. i \in 1..(Len(f) - 1)
      BY <1>1, <2>1, <2>2
    <2>4. Len(j) >= Len(f) /\ j[i] = f[i]
      BY <1>1, <1>4, <2>2, <2>3 DEF Glued
    <2>5. QED BY <1>1, <2>4
  <1>5. QED BY <1>2, <1>4, <1>8

\* One header is enough: the file has it, or what is appended to an empty file brings
\* it.
LEMMA JoinedHeaded ==
    ASSUME NEW f \in Seq(Records), NEW t \in Seq(Records), HeadedOnce(f),
           \/ t = <<>>
           \/ f = <<>> /\ HeadedOnce(t)
           \/ /\ f # <<>> /\ f[1] \in {Mark("header"), Mark("bare")}
              /\ \A i \in 1..Len(t) : t[i] # Mark("header") /\ (t[i] \in Unended => i = Len(t))
    PROVE  HeadedOnce(Joined(f, t))
  <1> DEFINE j == Joined(f, t)
  <1>1. j \in Seq(Records) /\ DOMAIN j = 1..Len(j) /\ Len(j) \in Nat
    BY JoinedFacts
  <1>7. /\ ~EndsTorn(f) \/ t = <<>> => Appended(f, t, j)
        /\ EndsTorn(f) /\ t # <<>> => Glued(f, t, j)
    BY JoinedFacts
  <1>8. SUFFICES HeadedOnce(j)
    OBVIOUS
  <1> HIDE DEF j
  <1>2. /\ \A i \in 1..Len(f) : /\ i > 1 => f[i] # Mark("header") /\ f[1] # Mark("bare")
                                /\ f[i].task > 0 => f[1] \in {Mark("header"), Mark("glued")}
        /\ Len(f) \in Nat /\ Len(t) \in Nat
    BY DEF HeadedOnce
  <1>9. Len(f) > 0 => Len(f) = 1 \/ Len(f) > 1
    <2> DEFINE a == Len(f)
    <2>1. a \in Nat
      OBVIOUS
    <2> HIDE DEF a
    <2>2. a > 0 => a = 1 \/ a > 1
      BY <2>1
    <2>3. QED BY <2>2 DEF a
  <1>3. CASE t = <<>>
    <2>1. Len(j) = Len(f) /\ \A i \in 1..Len(f) : j[i] = f[i]
      BY <1>2, <1>3, <1>7 DEF Appended
    <2>2. QED BY <1>1, <1>2, <2>1 DEF HeadedOnce
  <1>4. CASE f = <<>> /\ HeadedOnce(t)
    <2>1. ~EndsTorn(f) /\ Len(f) = 0
      BY <1>4 DEF EndsTorn
    <2>2. Len(j) = Len(t) /\ \A i \in 1..Len(t) : j[i] = t[i]
      BY <1>2, <2>1, <1>7 DEF Appended
    <2>3. /\ \A i \in 1..Len(t) : /\ i > 1 => t[i] # Mark("header") /\ t[1] # Mark("bare")
                                  /\ t[i].task > 0 => t[1] \in {Mark("header"), Mark("glued")}
      BY <1>4 DEF HeadedOnce
    <2>4. ASSUME NEW i \in 1..Len(j)
          PROVE  /\ i > 1 => j[i] # Mark("header") /\ j[1] # Mark("bare")
                 /\ j[i].task > 0 => j[1] \in {Mark("header"), Mark("glued")}
      <3>1. 1 \in 1..Len(t) /\ i \in 1..Len(t) /\ j[1] = t[1] /\ j[i] = t[i]
        BY <1>2, <2>2
      <3>2. QED BY <2>3, <3>1
    <2>5. QED BY <1>1, <2>4 DEF HeadedOnce
  <1>5. CASE /\ t # <<>> /\ f # <<>> /\ f[1] \in {Mark("header"), Mark("bare")}
             /\ \A i \in 1..Len(t) : t[i] # Mark("header") /\ (t[i] \in Unended => i = Len(t))
    <2>1. Len(f) > 0 /\ Len(t) > 0 /\ (Len(f) > 1 => f[1] = Mark("header"))
      BY <1>2, <1>5
    <2>2. CASE ~EndsTorn(f)
      <3>1. /\ Len(j) = Len(f) + Len(t) /\ \A x \in 1..Len(f) : j[x] = f[x]
            /\ \A x \in 1..Len(t) : j[Len(f) + x] = t[x]
        BY <2>2, <1>7 DEF Appended
      <3>2. f[1] = Mark("header")
        <4>1. CASE Len(f) = 1
          BY <1>5, <2>2, <4>1, MarkFacts, UnendedFacts
        <4>2. CASE Len(f) > 1
          BY <2>1, <4>2
        <4>3. Len(f) = 1 \/ Len(f) > 1
          BY <1>9, <2>1, Zenon
        <4>4. QED BY <4>1, <4>2, <4>3
      <3>3. j[1] = Mark("header") /\ j[1] # Mark("bare")
        BY <1>2, <2>1, <3>1, <3>2, MarkFacts
      <3>4. ASSUME NEW i \in 1..Len(j), i > 1 PROVE j[i] # Mark("header")
        <4>1. CASE i <= Len(f)
          BY <1>2, <3>1, <3>4, <4>1
        <4>2. CASE i > Len(f)
          <5>1. i - Len(f) \in 1..Len(t) /\ Len(f) + (i - Len(f)) = i
            BY <1>2, <3>1, <4>2
          <5>2. PICK x \in 1..Len(t) : Len(f) + x = i
            BY <5>1
          <5>3. t[x] # Mark("header")
            BY <1>5
          <5>4. j[Len(f) + x] = t[x]
            BY <3>1
          <5>5. QED BY <5>2, <5>3, <5>4
        <4>3. QED BY <1>2, <4>1, <4>2
      <3>5. QED BY <1>1, <3>3, <3>4 DEF HeadedOnce
    <2>3. CASE EndsTorn(f)
      <3>1. /\ Len(j) = Len(f) + Len(t) - 1 /\ \A x \in 1..(Len(f) - 1) : j[x] = f[x]
            /\ j[Len(f)] = IF t[1] \in Unended THEN Mark("torn") ELSE Mark("glued")
            /\ \A x \in 2..Len(t) : j[Len(f) + x - 1] = t[x]
        BY <1>5, <2>3, <1>7 DEF Glued
      <3>2. Len(j) > 1 => j[1] \in {Mark("header"), Mark("glued")}
        <4>1. CASE Len(f) > 1
          <5>1. 1 \in 1..(Len(f) - 1)
            BY <1>2, <4>1
          <5>2. QED BY <2>1, <3>1, <4>1, <5>1
        <4>2. CASE Len(f) = 1
          <5>1. Len(j) > 1 => t[1] \notin Unended
            BY <1>2, <1>5, <2>1, <3>1, <4>2
          <5>2. QED BY <3>1, <4>2, <5>1
        <4>3. Len(f) = 1 \/ Len(f) > 1
          BY <1>9, <2>1, Zenon
        <4>4. QED BY <4>1, <4>2, <4>3
      <3>3. ASSUME NEW i \in 1..Len(j), i > 1 PROVE j[i] # Mark("header")
        <4>1. CASE i < Len(f)
          <5>1. i \in 1..(Len(f) - 1) /\ i \in 1..Len(f)
            BY <1>2, <4>1
          <5>2. QED BY <1>2, <3>1, <3>3, <5>1
        <4>2. CASE i = Len(f)
          BY <3>1, <4>2, MarkFacts
        <4>3. CASE i > Len(f)
          <5>1. i - Len(f) + 1 \in 2..Len(t) /\ Len(f) + (i - Len(f) + 1) - 1 = i
            BY <1>2, <3>1, <4>3
          <5>2. j[i] = t[i - Len(f) + 1] /\ i - Len(f) + 1 \in 1..Len(t)
            BY <3>1, <5>1
          <5>3. QED BY <1>5, <5>2
        <4>4. QED BY <1>2, <4>1, <4>2, <4>3
      <3>4. Len(j) = 1 => j[1].task = 0
        <4>1. SUFFICES ASSUME Len(j) = 1 PROVE j[1].task = 0
          OBVIOUS
        <4>2. Len(f) = 1
          <5> DEFINE a == Len(f)
                     b == Len(t)
          <5>1. a \in Nat /\ b \in Nat /\ a > 0 /\ b > 0 /\ a + b - 1 = 1
            BY <1>2, <2>1, <3>1, <4>1
          <5> HIDE DEF a, b
          <5>2. a = 1
            BY <5>1
          <5>3. QED BY <5>2 DEF a
        <4>3. j[1] = Mark("torn") \/ j[1] = Mark("glued")
          BY <3>1, <4>2
        <4>4. QED BY <4>3, MarkFacts
      <3>5. ASSUME NEW i \in 1..Len(j)
            PROVE  /\ i > 1 => j[i] # Mark("header") /\ j[1] # Mark("bare")
                   /\ j[i].task > 0 => j[1] \in {Mark("header"), Mark("glued")}
        <4>1. CASE Len(j) > 1
          <5>1. j[1] # Mark("bare")
            BY <3>2, <4>1, MarkFacts
          <5>2. QED BY <3>2, <3>3, <4>1, <5>1
        <4>2. CASE ~(Len(j) > 1)
          <5>1. i = 1 /\ Len(j) = 1
            BY <1>1, <4>2
          <5>2. QED BY <3>4, <5>1
        <4>3. QED BY <4>1, <4>2
      <3>6. QED BY <1>1, <3>5 DEF HeadedOnce
    <2>4. QED BY <2>2, <2>3
  <1>6. QED BY <1>3, <1>4, <1>5

-----------------------------------------------------------------------------
(* What a run costs *)

\* Tasks without a row are finitely many.
LEMMA MissingFinite ==
    ASSUME NEW f, NEW m \in Nat
    PROVE  IsFiniteSet(Missing(f, m)) /\ Cardinality(Missing(f, m)) \in Nat
  <1>1. IsFiniteSet(1..m)
    BY FS_Interval
  <1>2. Missing(f, m) \subseteq 1..m
    BY DEF Missing
  <1>3. QED BY <1>1, <1>2, FS_Subset, FS_CardinalityType

\* The rows of these tasks are among the first n records.
Rows(s, n, m, m2) == \A x \in (m + 1)..m2 : \E i \in 1..n : s[i].task = x

\* After a run that has flushed a row for each of the tasks m + 1..m2, a task is missing
\* that was before, or the one whose row was appended to a cut record.
LEMMA MissingAfter ==
    ASSUME NEW f \in Seq(Records), NEW s \in Seq(Records), NEW n \in 0..Len(s),
           NEW cut \in Cuts, NEW m \in Nat, NEW m2 \in Nat, m <= m2, Rows(s, n, m, m2),
           \A i \in 1..Len(s) : s[i] \notin Unended,
           NEW x \in Missing(Joined(f, Part(s, n, cut)), m2)
    PROVE  x \in Missing(f, m) \/ (EndsTorn(f) /\ n > 0 /\ x = s[1].task)
  <1> DEFINE t == Part(s, n, cut)
             j == Joined(f, t)
  <1>1. /\ t \in Seq(Records) /\ Len(t) = (IF cut = "none" THEN n ELSE n + 1)
        /\ \A i \in 1..n : t[i] = s[i]
    BY PartFacts
  <1>2. /\ j \in Seq(Records) /\ Kept(f, j)
        /\ ~EndsTorn(f) \/ t = <<>> => Appended(f, t, j)
        /\ EndsTorn(f) /\ t # <<>> => Glued(f, t, j)
    BY <1>1, JoinedFacts, JoinedKeeps, Zenon
  <1>3. x \in 1..m2 /\ ~\E i \in DOMAIN j : j[i].task = x
    BY DEF Missing
  <1> HIDE DEF t, j
  <1>4. DOMAIN j = 1..Len(j) /\ Len(j) \in Nat /\ Len(f) \in Nat /\ Len(t) \in Nat /\ Len(s) \in Nat
    BY <1>1, <1>2
  <1>5. CASE x <= m
    <2>1. SUFFICES ASSUME x \notin Missing(f, m) PROVE FALSE
      OBVIOUS
    <2>2. PICK i \in DOMAIN f : f[i].task = x
      BY <1>3, <1>5, <2>1 DEF Missing
    <2>3. f[i] \notin Unended
      BY <1>3, <2>2, UnendedFacts
    <2>4. i \in DOMAIN j /\ j[i] = f[i]
      BY <1>2, <2>2, <2>3 DEF Kept
    <2>5. QED BY <1>3, <2>2, <2>4
  <1>6. CASE x > m
    <2>1. PICK i \in 1..n : s[i].task = x
      <3>1. x \in (m + 1)..m2
        BY <1>3, <1>6
      <3>2. QED BY <3>1 DEF Rows
    <2>2. n > 0 /\ i \in 1..Len(t) /\ t # <<>> /\ t[i].task = x /\ 1 \in 1..n /\ n <= Len(s)
      BY <1>1, <1>4, <2>1
    <2>3. CASE ~EndsTorn(f)
      <3>1. Len(f) + i \in DOMAIN j /\ j[Len(f) + i] = t[i]
        BY <1>2, <1>4, <2>2, <2>3 DEF Appended
      <3>2. QED BY <1>3, <2>2, <3>1
    <2>4. CASE EndsTorn(f) /\ i > 1
      <3>1. Glued(f, t, j) /\ Len(f) > 0
        BY <1>2, <2>2, <2>4, UnendedFacts
      <3>2. i \in 2..Len(t)
        BY <1>4, <2>2, <2>4
      <3>3. Len(f) + i - 1 \in DOMAIN j /\ j[Len(f) + i - 1] = t[i]
        BY <1>4, <3>1, <3>2 DEF Glued
      <3>4. QED BY <1>3, <2>2, <3>3
    <2>5. CASE EndsTorn(f) /\ ~(i > 1)
      <3>1. i = 1
        BY <2>1, <2>5
      <3>2. QED BY <2>1, <2>2, <2>5, <3>1
    <2>6. QED BY <2>3, <2>4, <2>5
  <1>7. QED BY <1>3, <1>5, <1>6

\* A file ends in a cut record when the run left one, or wrote nothing to a file that
\* did so before.
LEMMA TornAfter ==
    ASSUME NEW f \in Seq(Records), NEW s \in Seq(Records), NEW n \in 0..Len(s),
           NEW cut \in Cuts, cut = "none",
           \A i \in 1..Len(s) : s[i] \notin Unended,
           EndsTorn(Joined(f, Part(s, n, cut)))
    PROVE  EndsTorn(f) /\ n = 0
  <1> DEFINE t == Part(s, n, cut)
             j == Joined(f, t)
  <1>1. /\ t \in Seq(Records) /\ Len(t) = n
        /\ \A i \in 1..n : t[i] = s[i]
    BY PartFacts
  <1>2. /\ j \in Seq(Records)
        /\ ~EndsTorn(f) \/ t = <<>> => Appended(f, t, j)
        /\ EndsTorn(f) /\ t # <<>> => Glued(f, t, j)
    BY <1>1, JoinedFacts, Zenon
  <1>3. EndsTorn(j)
    OBVIOUS
  <1> HIDE DEF t, j
  <1>4. j # <<>> /\ Len(j) \in Nat \ {0} /\ j[Len(j)] \in Unended
    BY <1>2, <1>3, UnendedFacts
  <1>5. CASE n = 0
    <2>1. t = <<>> /\ Appended(f, t, j)
      BY <1>1, <1>2, <1>5
    <2>2. Len(j) = Len(f) /\ j[Len(f)] = f[Len(f)] /\ f # <<>>
      BY <1>1, <1>4, <1>5, <2>1 DEF Appended
    <2>3. QED BY <1>4, <1>5, <2>2, UnendedFacts
  <1>6. CASE n > 0
    <2>1. /\ t # <<>> /\ t[1] \notin Unended /\ n \in 1..Len(t) /\ t[n] \notin Unended
      <3>1. n \in 1..n /\ 1 \in 1..n /\ n \in 1..Len(s) /\ 1 \in 1..Len(s)
        BY <1>6
      <3>2. QED BY <1>1, <1>6, <3>1
    <2>2. CASE ~EndsTorn(f)
      <3>1. Len(j) = Len(f) + n /\ j[Len(f) + n] = t[n]
        BY <1>1, <1>2, <2>1, <2>2 DEF Appended
      <3>2. QED BY <1>4, <2>1, <3>1
    <2>3. CASE EndsTorn(f)
      <3>1. Glued(f, t, j)
        BY <1>2, <2>1, <2>3
      <3>2. Len(j) = Len(f) + n - 1 /\ Len(f) \in Nat
        BY <1>1, <3>1 DEF Glued
      <3>3. CASE n = 1
        <4>1. j[Len(j)] = Mark("glued")
          BY <2>1, <3>1, <3>2, <3>3 DEF Glued
        <4>2. QED BY <1>4, <4>1, UnendedFacts
      <3>4. CASE n > 1
        <4>1. n \in 2..Len(t)
          BY <1>1, <3>4
        <4>2. j[Len(f) + n - 1] = t[n]
          BY <3>1, <4>1 DEF Glued
        <4>3. QED BY <1>4, <2>1, <3>2, <4>2
      <3>5. QED BY <1>6, <3>3, <3>4
    <2>4. QED BY <2>2, <2>3
  <1>7. QED BY <1>5, <1>6

\* A run costs at most what was owed when it began, and one more when it leaves a cut
\* record.
LEMMA RunCost ==
    ASSUME NEW f \in Seq(Records), NEW s \in Seq(Records), NEW n \in 0..Len(s),
           NEW cut \in Cuts, NEW m \in Nat, NEW m2 \in Nat, m <= m2, Rows(s, n, m, m2),
           \A i \in 1..Len(s) : s[i] \notin Unended
    PROVE  Cost(Joined(f, Part(s, n, cut)), m2) <= Cost(f, m) + IF cut = "none" THEN 0 ELSE 1
  <1> DEFINE j == Joined(f, Part(s, n, cut))
             A == Missing(f, m)
             B == Missing(j, m2)
             y == s[1].task
  <1>1. \A x \in B : x \in A \/ (EndsTorn(f) /\ x = y /\ n > 0)
    BY MissingAfter
  <1>2. cut = "none" /\ EndsTorn(j) => EndsTorn(f) /\ n = 0
    <2>1. SUFFICES ASSUME cut = "none", EndsTorn(j) PROVE EndsTorn(f) /\ n = 0
      OBVIOUS
    <2>2. EndsTorn(Joined(f, Part(s, n, cut)))
      BY <2>1, Zenon
    <2>3. QED BY <2>1, <2>2, TornAfter
  <1>3. IsFiniteSet(A) /\ Cardinality(A) \in Nat /\ IsFiniteSet(B) /\ Cardinality(B) \in Nat
    BY MissingFinite
  <1>4. /\ Cost(j, m2) = Cardinality(B) + IF EndsTorn(j) THEN 1 ELSE 0
        /\ Cost(f, m) = Cardinality(A) + IF EndsTorn(f) THEN 1 ELSE 0
    BY DEF Cost
  <1>5. SUFFICES Cost(j, m2) <= Cost(f, m) + IF cut = "none" THEN 0 ELSE 1
    OBVIOUS
  <1> HIDE DEF j, A, B, y
  <1>6. CASE EndsTorn(f) /\ n > 0
    <2>1. IsFiniteSet(A \cup {y}) /\ Cardinality(A \cup {y}) <= Cardinality(A) + 1
      <3>1. /\ IsFiniteSet(A \cup {y})
            /\ Cardinality(A \cup {y}) = IF y \in A THEN Cardinality(A) ELSE Cardinality(A) + 1
        BY <1>3, FS_AddElement, Zenon
      <3>2. QED BY <1>3, <3>1
    <2>2. B \subseteq A \cup {y}
      BY <1>1
    <2>3. Cardinality(B) <= Cardinality(A) + 1
      BY <1>3, <2>1, <2>2, FS_Subset, FS_CardinalityType
    <2>4. QED BY <1>2, <1>3, <1>4, <1>6, <2>3
  <1>7. CASE ~(EndsTorn(f) /\ n > 0)
    <2>1. B \subseteq A
      BY <1>1, <1>7
    <2>2. Cardinality(B) <= Cardinality(A)
      BY <1>3, <2>1, FS_Subset
    <2>3. QED BY <1>2, <1>3, <1>4, <1>7, <2>2
  <1>8. QED BY <1>6, <1>7

-----------------------------------------------------------------------------
(* The end of a run *)

\* Which files the run has open, place by place.
LEMMA Places ==
    /\ Kinds = {"scan", "open"} /\ Scanning = {"scan", "stopping", "failed"}
    /\ Opening["scan"] = "open scan" /\ Opening["open"] = "open opened"
    /\ Heading["scan"] = "head scan" /\ Heading["open"] = "head opened"
    /\ HasOpen("scan") <=> pc \in {"head scan", "open opened", "head opened", "scan", "stopping", "failed"}
    /\ HasOpen("open") <=> pc \in {"head opened", "scan", "stopping", "failed"}
    /\ HasOpen("scan")' <=> pc' \in {"head scan", "open opened", "head opened", "scan", "stopping", "failed"}
    /\ HasOpen("open")' <=> pc' \in {"head opened", "scan", "stopping", "failed"}
  BY DEF Kinds, Opening, Heading, HasOpen, Scanning

\* The numbers of the state.
LEMMA Shape ==
    ASSUME FilesInv
    PROVE  /\ NumTasks \in Nat /\ MaxSeq \in Nat
           /\ saved.next \in Nat /\ told.next \in Nat /\ cursor \in Nat /\ unwritten \in Nat
           /\ saved.next <= NumTasks /\ told.next <= NumTasks /\ cursor <= NumTasks
           /\ unwritten <= NumTasks /\ tears \in Nat
           /\ stream["scan"] \in Seq(Records) /\ Len(stream["scan"]) \in Nat /\ onDisk["scan"] \in Nat
  <1>1. saved.next \in 0..NumTasks /\ told.next \in 0..NumTasks
    BY DEF FilesInv, FilesTypeOK
  <1>2. cursor \in 0..NumTasks /\ unwritten \in 0..NumTasks /\ tears \in Nat
    BY DEF FilesInv, FilesTypeOK
  <1>3. NumTasks \in Nat /\ MaxSeq \in Nat
    BY FilesAssumption
  <1>4. stream["scan"] \in Seq(Records) /\ onDisk["scan"] \in Nat
    BY Places DEF FilesInv, FilesTypeOK
  <1>5. Len(stream["scan"]) \in Nat
    BY <1>4
  <1>6. QED BY <1>1, <1>2, <1>3, <1>4, <1>5

\* No run gives a cut record to its writer, and only the first one may be a header.
LEMMA StreamFacts ==
    ASSUME FilesInv, NEW k \in Kinds
    PROVE  /\ stream[k] \in Seq(Records)
           /\ \A i \in 1..Len(stream[k]) : stream[k][i] \notin Unended
           /\ \A i \in 1..Len(stream[k]) : i > 1 => stream[k][i] # Mark("header")
           /\ stream[k] # <<>> => HasOpen(k)
           /\ files[k][seq] # Nil /\ files[k][seq] # <<>> =>
                  \A i \in 1..Len(stream[k]) : stream[k][i] # Mark("header")
           /\ stream[k] # <<>> /\ files[k][seq] # <<>> => files[k][seq][1] \in {Mark("header"), Mark("bare")}
           /\ stream[k] # <<>> /\ files[k][seq] = <<>> => stream[k][1] = Mark("header")
  <1>1. stream[k] \in Seq(Records)
    BY DEF FilesInv, FilesTypeOK
  <1>2. CASE HasOpen(k)
    <2>1. /\ \A i \in DOMAIN stream[k] : i > 1 => stream[k][i].task > 0
          /\ IF files[k][seq] = <<>> THEN stream[k] # <<>> /\ stream[k][1] = Mark("header")
             ELSE /\ files[k][seq][1] \in {Mark("header"), Mark("bare")}
                  /\ \A i \in DOMAIN stream[k] : stream[k][i].task > 0
      BY <1>2 DEF FilesInv, StreamInv
    <2>2. DOMAIN stream[k] = 1..Len(stream[k]) /\ Len(stream[k]) \in Nat
      BY <1>1
    <2>3. \A i \in 1..Len(stream[k]) : stream[k][i].task > 0 \/ (i = 1 /\ stream[k][1] = Mark("header"))
      BY <2>1, <2>2
    <2>4. \A i \in 1..Len(stream[k]) : stream[k][i] \notin Unended
      BY <2>3, UnendedFacts
    <2>5. \A i \in 1..Len(stream[k]) : i > 1 => stream[k][i] # Mark("header")
      BY <2>1, <2>2, MarkFacts
    <2>6. files[k][seq] # <<>> => \A i \in 1..Len(stream[k]) : stream[k][i] # Mark("header")
      BY <2>1, <2>2, MarkFacts
    <2>7. QED BY <1>1, <1>2, <2>1, <2>4, <2>5, <2>6
  <1>3. CASE ~HasOpen(k)
    <2>1. stream[k] = <<>>
      BY <1>3 DEF FilesInv, StreamInv
    <2>2. QED BY <1>1, <2>1
  <1>4. QED BY <1>2, <1>3

\* What a run may leave of its records.
Leavable(n, cut) ==
    /\ n \in [Kinds -> Nat] /\ cut \in [Kinds -> Cuts]
    /\ \A k \in Kinds : /\ n[k] <= Len(stream[k])
                        /\ cut[k] # "none" => n[k] < Len(stream[k])
                        /\ cut[k] = "bare" => stream[k][n[k] + 1] = Mark("header")

\* The part of the records that reaches the disk has its header where the file needs
\* it.
LEMMA PartHeaded ==
    ASSUME FilesInv, NEW n, NEW cut, Leavable(n, cut), NEW k \in Kinds
    PROVE  LET t == Part(stream[k], n[k], cut[k]) IN
           /\ t \in Seq(Records)
           /\ \/ t = <<>>
              \/ files[k][seq] = <<>> /\ HeadedOnce(t)
              \/ /\ files[k][seq] # <<>> /\ files[k][seq][1] \in {Mark("header"), Mark("bare")}
                 /\ \A i \in 1..Len(t) : t[i] # Mark("header") /\ (t[i] \in Unended => i = Len(t))
  <1> DEFINE s == stream[k]
             a == n[k]
             b == cut[k]
             t == Part(s, a, b)
  <1>1. /\ s \in Seq(Records) /\ Len(s) \in Nat /\ a \in 0..Len(s) /\ b \in Cuts
        /\ b # "none" => a < Len(s)
        /\ b = "bare" => s[a + 1] = Mark("header")
    BY StreamFacts DEF Leavable
  <1>2. /\ t \in Seq(Records) /\ Len(t) = (IF b = "none" THEN a ELSE a + 1)
        /\ \A i \in 1..a : t[i] = s[i]
        /\ b # "none" => t[a + 1] = Mark(b) /\ Mark(b) \in Unended
    BY <1>1, PartFacts, Zenon
  <1>3. /\ s # <<>> => HasOpen(k) /\ \A i \in 1..Len(s) : i > 1 => s[i] # Mark("header")
        /\ \A i \in 1..Len(s) : s[i] \notin Unended
    BY StreamFacts, Zenon
  <1>4. /\ files[k][seq] # Nil /\ files[k][seq] # <<>> => \A i \in 1..Len(s) : s[i] # Mark("header")
        /\ s # <<>> /\ files[k][seq] # <<>> => files[k][seq][1] \in {Mark("header"), Mark("bare")}
        /\ s # <<>> /\ files[k][seq] = <<>> => s[1] = Mark("header")
    BY StreamFacts, Zenon
  <1>5. s # <<>> => files[k][seq] # Nil
    BY <1>3 DEF FilesInv, StreamInv
  <1>10. b # "none" => /\ t[a + 1].task = 0 /\ t[a + 1] # Mark("header")
                       /\ t[a + 1] = Mark(b)
    BY <1>2, UnendedFacts
  <1>11. b # "none" => b = "torn" \/ b = "bare"
    BY <1>1 DEF Cuts
  <1>12. Mark("torn") # Mark("bare")
    BY MarkFacts
  <1> HIDE DEF s, a, b, t
  <1>6. CASE s = <<>>
    <2>1. a = 0 /\ b = "none"
      BY <1>1, <1>6
    <2>2. t = <<>>
      BY <1>2, <2>1
    <2>3. QED BY <1>2, <2>2 DEF s, a, b, t
  <1>7. CASE s # <<>> /\ files[k][seq] # <<>>
    <2>1. \A i \in 1..Len(t) : t[i] # Mark("header") /\ (t[i] \in Unended => i = Len(t))
      <3>1. TAKE i \in 1..Len(t)
      <3>2. i \in 1..a \/ (b # "none" /\ i = a + 1 /\ i = Len(t))
        BY <1>1, <1>2
      <3>3. i \in 1..a => t[i] = s[i] /\ i \in 1..Len(s)
        BY <1>1, <1>2
      <3>4. QED BY <1>3, <1>4, <1>5, <1>7, <1>10, <3>2, <3>3
    <2>2. QED BY <1>2, <1>4, <1>7, <2>1 DEF s, a, b, t
  <1>8. CASE s # <<>> /\ files[k][seq] = <<>>
    <2>1. ASSUME NEW i \in 1..Len(t)
          PROVE  /\ i > 1 => t[i] # Mark("header") /\ t[1] # Mark("bare")
                 /\ t[i].task > 0 => t[1] \in {Mark("header"), Mark("glued")}
      <3>2. i \in 1..a \/ (b # "none" /\ i = a + 1)
        BY <1>1, <1>2
      <3>5. a > 0 => t[1] = Mark("header") /\ t[1] # Mark("bare")
        <4>1. a > 0 => 1 \in 1..a
          BY <1>1
        <4>2. QED BY <1>2, <1>4, <1>8, <4>1, MarkFacts
      <3>3. CASE i \in 1..a
        <4>1. t[i] = s[i] /\ i \in 1..Len(s) /\ a > 0
          BY <1>1, <1>2, <3>3
        <4>2. QED BY <1>3, <1>8, <3>5, <4>1
      <3>4. CASE b # "none" /\ i = a + 1
        <4>1. i > 1 => a > 0
          BY <1>1, <3>4
        <4>2. QED BY <1>10, <3>4, <3>5, <4>1
      <3>6. QED BY <3>2, <3>3, <3>4
    <2>2. DOMAIN t = 1..Len(t)
      BY <1>2
    <2>3. HeadedOnce(t)
      BY <2>1, <2>2 DEF HeadedOnce
    <2>4. QED BY <1>2, <1>8, <2>3 DEF s, a, b, t
  <1>9. QED BY <1>6, <1>7, <1>8

\* The end of a run, however it comes: every file has at most one header, keeps its
\* records, and the files of other names are as they were.
LEMMA LeaveFiles ==
    ASSUME FilesInv, NEW n, NEW cut, Leavable(n, cut), Leave(n, cut)
    PROVE  /\ files' \in [Kinds -> [0..MaxSeq -> {Nil} \cup Seq(Records)]]
           /\ HeaderInv'
           /\ \A k \in Kinds, i \in 0..MaxSeq :
                  /\ files[k][i] # Nil => files'[k][i] # Nil /\ Kept(files[k][i], files'[k][i])
                  /\ i # seq => files'[k][i] = files[k][i]
           /\ \A k \in Kinds : files[k][seq] # Nil =>
                  files'[k][seq] = Joined(files[k][seq], Part(stream[k], n[k], cut[k]))
  <1>1. /\ files \in [Kinds -> [0..MaxSeq -> {Nil} \cup Seq(Records)]] /\ seq \in 0..MaxSeq
        /\ \A k \in Kinds, i \in 0..MaxSeq : files[k][i] # Nil => HeadedOnce(files[k][i])
    BY DEF FilesInv, FilesTypeOK, HeaderInv
  <1>2. ASSUME NEW k \in Kinds, files[k][seq] # Nil
        PROVE  LET j == Joined(files[k][seq], Part(stream[k], n[k], cut[k])) IN
               j \in Seq(Records) /\ HeadedOnce(j) /\ Kept(files[k][seq], j)
    <2> DEFINE f == files[k][seq]
               t == Part(stream[k], n[k], cut[k])
    <2>1. f \in Seq(Records) /\ HeadedOnce(f)
      BY <1>1, <1>2
    <2>2. /\ t \in Seq(Records)
          /\ \/ t = <<>>
             \/ f = <<>> /\ HeadedOnce(t)
             \/ /\ f # <<>> /\ f[1] \in {Mark("header"), Mark("bare")}
                /\ \A i \in 1..Len(t) : t[i] # Mark("header") /\ (t[i] \in Unended => i = Len(t))
      BY PartHeaded, Zenon
    <2> HIDE DEF f, t
    <2>3. Joined(f, t) \in Seq(Records) /\ Kept(f, Joined(f, t)) /\ HeadedOnce(Joined(f, t))
      <3>1. Joined(f, t) \in Seq(Records) /\ Kept(f, Joined(f, t))
        BY <2>1, <2>2, JoinedFacts, JoinedKeeps, Zenon
      <3>2. HeadedOnce(Joined(f, t))
        BY <2>1, <2>2, JoinedHeaded
      <3>3. QED BY <3>1, <3>2
    <2>4. QED BY <2>3 DEF f, t
  <1>3. /\ files' = [k \in Kinds |->
              IF files[k][seq] = Nil THEN files[k]
              ELSE [files[k] EXCEPT ![seq] = Joined(files[k][seq], Part(stream[k], n[k], cut[k]))]]
    BY DEF Leave, Content, Flushed, Part
  <1>4. ASSUME NEW k \in Kinds
        PROVE  /\ files'[k] \in [0..MaxSeq -> {Nil} \cup Seq(Records)]
               /\ \A i \in 0..MaxSeq : i # seq => files'[k][i] = files[k][i]
               /\ files[k][seq] = Nil => files'[k][seq] = Nil
               /\ files[k][seq] # Nil =>
                    files'[k][seq] = Joined(files[k][seq], Part(stream[k], n[k], cut[k]))
    <2> DEFINE j == Joined(files[k][seq], Part(stream[k], n[k], cut[k]))
    <2>1. /\ files[k] \in [0..MaxSeq -> {Nil} \cup Seq(Records)]
          /\ files'[k] = IF files[k][seq] = Nil THEN files[k] ELSE [files[k] EXCEPT ![seq] = j]
      BY <1>1, <1>3
    <2>2. files[k][seq] # Nil => j \in Seq(Records)
      BY <1>2
    <2> HIDE DEF j
    <2>3. QED BY <1>1, <2>1, <2>2 DEF j
  <1>5. ASSUME NEW k \in Kinds, NEW i \in 0..MaxSeq
        PROVE  /\ files[k][i] # Nil => files'[k][i] # Nil /\ Kept(files[k][i], files'[k][i])
               /\ files'[k][i] # Nil => HeadedOnce(files'[k][i])
    <2>1. CASE i # seq
      <3>1. files'[k][i] = files[k][i]
        BY <1>4, <2>1
      <3>2. QED BY <1>1, <3>1 DEF Kept
    <2>2. CASE i = seq /\ files[k][seq] = Nil
      BY <1>4, <2>2
    <2>3. CASE i = seq /\ files[k][seq] # Nil
      <3>1. files'[k][seq] \in Seq(Records) /\ HeadedOnce(files'[k][seq])
            /\ Kept(files[k][seq], files'[k][seq])
        BY <1>2, <1>4, <2>3
      <3>2. files'[k][seq] # Nil
        BY <3>1, NilAssumption
      <3>3. QED BY <2>3, <3>1, <3>2
    <2>4. QED BY <2>1, <2>2, <2>3
  <1>6. files' \in [Kinds -> [0..MaxSeq -> {Nil} \cup Seq(Records)]]
    BY <1>3, <1>4
  <1>7. HeaderInv'
    BY <1>5 DEF HeaderInv
  <1>8. QED BY <1>4, <1>5, <1>6, <1>7

\* An empty file with no task to its name owes nothing.
LEMMA NothingOwed == Cost(<<>>, 0) = 0
  <1>1. Missing(<<>>, 0) = {}
    BY DEF Missing
  <1>2. ~EndsTorn(<<>>)
    BY DEF EndsTorn
  <1>3. QED BY <1>1, <1>2, FS_EmptySet DEF Cost

\* The end of a run costs what the cut records explain, if the rows up to the cursor
\* that it leaves have reached the disk.
LEMMA LeaveCost ==
    ASSUME FilesInv, pc # "down", ~lost, files["scan"][seq] # Nil,
           NEW n, NEW cut, Leavable(n, cut), Leave(n, cut),
           NEW m \in Nat, saved.next <= m, Rows(stream["scan"], n["scan"], saved.next, m)
    PROVE  Cost(files'["scan"][seq], m) <= tears'
  <1> DEFINE f == files["scan"][seq]
             s == stream["scan"]
             a == n["scan"]
             b == cut["scan"]
             c == saved.next
  <1>1. "scan" \in Kinds
    BY Places
  <1>2. f \in Seq(Records) /\ s \in Seq(Records) /\ c \in Nat /\ tears \in Nat
    <2>1. files["scan"][seq] \in {Nil} \cup Seq(Records) /\ stream["scan"] \in Seq(Records)
      BY <1>1 DEF FilesInv, FilesTypeOK
    <2>2. saved.next \in Nat /\ tears \in Nat
      BY Shape
    <2>3. QED BY <2>1, <2>2
  <1>3. a \in 0..Len(s) /\ b \in Cuts
    BY <1>1, <1>2 DEF Leavable
  <1>4. \A i \in 1..Len(s) : s[i] \notin Unended
    BY <1>1, StreamFacts, Zenon
  <1>5. c <= m /\ Rows(s, a, c, m)
    OBVIOUS
  <1>7. Cost(f, c) <= tears
    <2>1. told = saved /\ (append <=> saved.seq # Nil) /\ (append => seq = saved.seq)
      BY DEF FilesInv, RunInv
    <2>2. CASE append
      BY <2>1, <2>2 DEF FilesInv, CostInv
    <2>3. CASE ~append
      <3>1. f = <<>> /\ c = 0
        BY <1>1, <2>1, <2>3 DEF FilesInv, RunInv
      <3>2. QED BY <1>2, <3>1, NothingOwed
    <2>4. QED BY <2>2, <2>3
  <1>8. files'["scan"][seq] = Joined(f, Part(s, a, b))
    BY <1>1, LeaveFiles, Zenon
  <1>9. tears' = IF b = "none" THEN tears ELSE tears + 1
    BY DEF Leave
  <1> HIDE DEF f, s, a, b, c
  <1>10. Cost(Joined(f, Part(s, a, b)), m) <= Cost(f, c) + IF b = "none" THEN 0 ELSE 1
    BY <1>2, <1>3, <1>4, <1>5, RunCost
  <1>11. Cost(f, c) \in Nat /\ Cost(Joined(f, Part(s, a, b)), m) \in Nat
    BY <1>2, MissingFinite DEF Cost
  <1>12. QED
    BY <1>2, <1>7, <1>8, <1>9, <1>10, <1>11

\* What a snapshot may say.
Cursor == [seq : {Nil} \cup 0..MaxSeq, next : 0..NumTasks]

\* A run that ends keeps the invariant if the snapshot that it leaves does.
LEMMA LeaveStep ==
    ASSUME FilesInv, NEW n, NEW cut, Leavable(n, cut), Leave(n, cut),
           saved' \in Cursor, told' \in Cursor,
           told'.next < NumTasks => saved' = told',
           told'.seq = Nil => told'.next = 0,
           told'.seq # Nil /\ ~lost => /\ files["scan"][told'.seq] # Nil
                                       /\ Cost(files'["scan"][told'.seq], told'.next) <= tears'
    PROVE  FilesInv'
  <1>1. /\ files' \in [Kinds -> [0..MaxSeq -> {Nil} \cup Seq(Records)]] /\ HeaderInv'
        /\ \A k \in Kinds, i \in 0..MaxSeq : files[k][i] # Nil => files'[k][i] # Nil
    BY LeaveFiles, Zenon
  <1>2. /\ pc' = "down" /\ seq' = 0 /\ append' = FALSE /\ lost' = lost
        /\ stream' = [k \in Kinds |-> <<>>] /\ onDisk' = [k \in Kinds |-> 0]
        /\ cursor' = 0 /\ queued' = {} /\ unwritten' = 0
        /\ tears' = IF cut["scan"] = "none" THEN tears ELSE tears + 1
    BY DEF Leave, NoStream
  <1>3. FilesTypeOK'
    <2>1. seq' \in 0..MaxSeq /\ cursor' \in 0..NumTasks /\ unwritten' \in 0..NumTasks
      BY <1>2, Shape
    <2>2. tears' \in Nat
      BY <1>2, Shape
    <2>3. stream' \in [Kinds -> Seq(Records)] /\ onDisk' \in [Kinds -> Nat]
      BY <1>2
    <2>4. append' \in BOOLEAN /\ lost' \in BOOLEAN /\ queued' \subseteq 1..NumTasks
      BY <1>2 DEF FilesInv, FilesTypeOK
    <2>5. QED BY <1>1, <1>2, <2>1, <2>2, <2>3, <2>4 DEF FilesTypeOK, Cursor
  <1>4. RunInv'
    <2>1. told'.seq # Nil /\ ~lost' => files'["scan"][told'.seq] # Nil
      <3>1. told'.seq \in {Nil} \cup 0..MaxSeq /\ "scan" \in Kinds
        BY Places DEF Cursor
      <3>2. QED BY <1>1, <1>2, <3>1
    <2>2. QED BY <1>2, <2>1 DEF RunInv
  <1>5. StreamInv' /\ stream'["scan"] = <<>> /\ onDisk'["scan"] = 0
    <2>1. ASSUME NEW k \in Kinds
          PROVE  ~HasOpen(k)' /\ stream'[k] = <<>> /\ onDisk'[k] = 0
      BY <1>2, <2>1, Places
    <2>2. QED BY <2>1, Places DEF StreamInv
  <1>6. RowsInv'
    <2>1. ~HasOpen("scan")' /\ pc' \notin Scanning
      BY <1>2, Places
    <2>2. onDisk'["scan"] <= Len(stream'["scan"]) /\ DOMAIN stream'["scan"] = {}
      BY <1>5
    <2>3. QED BY <2>1, <2>2 DEF RowsInv
  <1>7. CostInv'
    BY <1>2 DEF CostInv
  <1>8. QED BY <1>1, <1>3, <1>4, <1>5, <1>6, <1>7 DEF FilesInv

\* What a failed write or a kill leaves is a part of what the run has written.
LEMMA RemainsLeavable ==
    ASSUME FilesInv, NEW m \in Nat, NEW n \in [Kinds -> 0..m], NEW cut \in [Kinds -> Cuts],
           Remains(n, cut)
    PROVE  Leavable(n, cut) /\ \A k \in Kinds : n[k] >= onDisk[k]
  <1>1. n \in [Kinds -> Nat]
    OBVIOUS
  <1>2. ASSUME NEW k \in Kinds
        PROVE  /\ n[k] <= Len(stream[k]) /\ n[k] >= onDisk[k]
               /\ cut[k] # "none" => n[k] < Len(stream[k])
               /\ cut[k] = "bare" => stream[k][n[k] + 1] = Mark("header")
    <2>1. /\ n[k] \in onDisk[k]..Len(stream[k]) /\ (cut[k] # "none" => n[k] < Len(stream[k]))
          /\ cut[k] = "bare" => stream[k][n[k] + 1] = Mark("header")
      BY <1>2 DEF Remains
    <2>2. onDisk[k] \in Nat /\ Len(stream[k]) \in Nat
      <3>1. onDisk[k] \in Nat /\ stream[k] \in Seq(Records)
        BY <1>2 DEF FilesInv, FilesTypeOK
      <3>2. QED BY <3>1
    <2>3. QED BY <2>1, <2>2
  <1>3. QED BY <1>1, <1>2 DEF Leavable

\* So is what the end of a run leaves that has failed, or that is killed.
LEMMA SomeLeavable ==
    ASSUME FilesInv, LeaveSome
    PROVE  \E n, cut : Leavable(n, cut) /\ Leave(n, cut) /\ \A k \in Kinds : n[k] >= onDisk[k]
  <1> DEFINE m == NumTasks + 1
  <1>1. m \in Nat
    BY FilesAssumption
  <1>2. PICK n \in [Kinds -> 0..m], cut \in [Kinds -> Cuts] : Remains(n, cut) /\ Leave(n, cut)
    BY DEF LeaveSome
  <1> HIDE DEF m
  <1>3. Leavable(n, cut) /\ \A k \in Kinds : n[k] >= onDisk[k]
    BY <1>1, <1>2, RemainsLeavable
  <1>4. QED BY <1>2, <1>3, Zenon

\* A run that ends without a save keeps the invariant.
LEMMA UnsavedStep ==
    ASSUME FilesInv, pc # "down", NEW n, NEW cut, Leavable(n, cut), Leave(n, cut),
           UNCHANGED <<saved, told>>
    PROVE  FilesInv'
  <1>1. /\ told = saved /\ (append <=> saved.seq # Nil) /\ (append => seq = saved.seq)
        /\ told.seq # Nil /\ ~lost => files["scan"][told.seq] # Nil
        /\ told.next < NumTasks => saved = told
        /\ told.seq = Nil => told.next = 0
    BY DEF FilesInv, RunInv
  <1>2. ASSUME told.seq # Nil, ~lost
        PROVE  Cost(files'["scan"][told.seq], told.next) <= tears'
    <2>1. seq = told.seq /\ files["scan"][seq] # Nil
      BY <1>1, <1>2
    <2>2. saved.next \in Nat /\ saved.next <= saved.next
      BY Shape
    <2>3. Rows(stream["scan"], n["scan"], saved.next, saved.next)
      <3> DEFINE c == saved.next
      <3>1. (c + 1)..c = {}
        BY <2>2
      <3>2. QED BY <3>1 DEF Rows
    <2>4. Cost(files'["scan"][seq], saved.next) <= tears'
      BY <1>2, <2>1, <2>2, <2>3, LeaveCost
    <2>5. QED BY <1>1, <2>1, <2>4
  <1>3. saved \in Cursor /\ told \in Cursor
    BY DEF FilesInv, FilesTypeOK, Cursor
  <1>4. QED BY <1>1, <1>2, <1>3, LeaveStep

\* A run that ends with the cursor at m keeps the invariant when the rows up to m are
\* on the disk.
LEMMA SavedStep ==
    ASSUME FilesInv, pc \in Scanning, NEW n, NEW cut, Leavable(n, cut), Leave(n, cut),
           NEW m \in Nat, saved.next <= m, m <= NumTasks,
           Rows(stream["scan"], n["scan"], saved.next, m),
           told' = [seq |-> seq, next |-> m],
           saved' = told' \/ (saved' = saved /\ m = NumTasks)
    PROVE  FilesInv'
  <1>1. HasOpen("scan") /\ pc # "down"
    BY Places
  <1>2. files["scan"][seq] # Nil
    BY <1>1, Places DEF FilesInv, StreamInv
  <1>3. ~lost => Cost(files'["scan"][seq], m) <= tears'
    BY <1>1, <1>2, LeaveCost
  <1>4. told'.seq = seq /\ told'.next = m
    OBVIOUS
  <1>5. seq \in 0..MaxSeq /\ saved \in Cursor
    BY DEF FilesInv, FilesTypeOK, Cursor
  <1>6. m \in 0..NumTasks /\ NumTasks \in Nat
    BY Shape
  <1>7. told' \in Cursor /\ saved' \in Cursor
    BY <1>5, <1>6 DEF Cursor
  <1>8. seq # Nil
    BY <1>5, NilAssumption
  <1>9. told'.next < NumTasks => saved' = told'
    BY <1>4, <1>6
  <1>10. QED BY <1>2, <1>3, <1>4, <1>7, <1>8, <1>9, LeaveStep

-----------------------------------------------------------------------------
(* The other steps *)

\* Without an open file there are no rows to speak of.
LEMMA NoRows ==
    ASSUME stream["scan"] = <<>>, onDisk["scan"] = 0, ~HasOpen("scan"), pc \notin Scanning
    PROVE  RowsInv
  <1>1. onDisk["scan"] <= Len(stream["scan"]) /\ DOMAIN stream["scan"] = {}
    OBVIOUS
  <1>2. QED BY <1>1 DEF RowsInv

\* The same for the next state.
LEMMA NoRowsNext ==
    ASSUME stream'["scan"] = <<>>, onDisk'["scan"] = 0, ~HasOpen("scan")', pc' \notin Scanning
    PROVE  RowsInv'
  <1>1. onDisk'["scan"] <= Len(stream'["scan"]) /\ DOMAIN stream'["scan"] = {}
    OBVIOUS
  <1>2. QED BY <1>1 DEF RowsInv

\* Before the first run there is no file.
LEMMA FilesInit == Init => FilesInv
  <1>1. SUFFICES ASSUME Init PROVE FilesInv
    OBVIOUS
  <1> USE <1>1 DEF Init
  <1>2. 0 \in 0..NumTasks /\ 0 \in 0..MaxSeq /\ 0 \in Nat
    BY FilesAssumption
  <1>3. FilesTypeOK
    <2>1. files \in [Kinds -> [0..MaxSeq -> {Nil} \cup Seq(Records)]]
      OBVIOUS
    <2>2. saved \in [seq : {Nil} \cup 0..MaxSeq, next : 0..NumTasks] /\ told = saved
      BY <1>2
    <2>3. stream \in [Kinds -> Seq(Records)] /\ onDisk \in [Kinds -> Nat]
      BY <1>2
    <2>4. append \in BOOLEAN /\ lost \in BOOLEAN
      OBVIOUS
    <2>5. /\ seq \in 0..MaxSeq /\ cursor \in 0..NumTasks /\ unwritten \in 0..NumTasks /\ tears \in Nat
          /\ queued \subseteq 1..NumTasks
      BY <1>2
    <2> HIDE DEF Init
    <2>6. pc = "down"
      BY DEF Init
    <2>7. QED BY <2>1, <2>2, <2>3, <2>4, <2>5, <2>6 DEF FilesTypeOK
  <1>4. RunInv /\ CostInv
    BY Places DEF RunInv, CostInv
  <1>5. StreamInv /\ RowsInv
    <2>1. \A k \in Kinds : ~HasOpen(k) /\ stream[k] = <<>> /\ onDisk[k] = 0
      BY Places
    <2>2. pc \notin Scanning /\ "scan" \in Kinds
      BY Places
    <2> HIDE DEF Init
    <2>3. QED BY <2>1, <2>2, NoRows DEF StreamInv
  <1>6. HeaderInv
    BY DEF HeaderInv
  <1>7. QED BY <1>3, <1>4, <1>5, <1>6 DEF FilesInv

\* A run starts: it resumes the snapshot or finds names that no file has.
LEMMA StartStep == FilesInv /\ Start => FilesInv'
  <1>1. SUFFICES ASSUME FilesInv, Start PROVE FilesInv'
    OBVIOUS
  <1>2. told.next < NumTasks /\ saved = told
    BY <1>1 DEF Start, FilesInv, RunInv
  <1>3. PICK n \in 0..MaxSeq :
          \/ Begin(n, TRUE) /\ saved.seq # Nil /\ n = saved.seq
          \/ Begin(n, FALSE) /\ saved.seq = Nil /\ \A k \in Kinds : files[k][n] = Nil
    <2>1. CASE saved.seq # Nil
      <3>1. saved.seq \in 0..MaxSeq /\ Begin(saved.seq, TRUE)
        BY <1>1, <2>1 DEF Start, FilesInv, FilesTypeOK
      <3>2. QED BY <2>1, <3>1, Zenon
    <2>2. CASE saved.seq = Nil
      <3>1. PICK n \in 0..MaxSeq : FirstFree(n) /\ Begin(n, FALSE)
        BY <1>1, <2>2 DEF Start
      <3>2. \A k \in Kinds : files[k][n] = Nil
        BY <3>1, Places DEF FirstFree, FreeName
      <3>3. QED BY <2>2, <3>1, <3>2, Zenon
    <2>3. QED BY <2>1, <2>2
  <1>11. /\ append' \in BOOLEAN /\ (append' <=> saved.seq # Nil)
         /\ append' => n = saved.seq
         /\ ~append' => \A k \in Kinds : files[k][n] = Nil
    BY <1>3, Zenon DEF Begin
  <1>4. /\ seq' = n /\ pc' = "open scan"
        /\ stream' = [k \in Kinds |-> <<>>] /\ onDisk' = [k \in Kinds |-> 0]
        /\ cursor' = saved.next /\ queued' = queued /\ unwritten' = unwritten
        /\ UNCHANGED <<files, saved, told, tears, lost>>
    BY <1>3, Places DEF Begin, NoStream, fileVars
  <1>5. FilesTypeOK'
    <2>1. /\ files \in [Kinds -> [0..MaxSeq -> {Nil} \cup Seq(Records)]]
          /\ saved \in [seq : {Nil} \cup 0..MaxSeq, next : 0..NumTasks]
          /\ told \in [seq : {Nil} \cup 0..MaxSeq, next : 0..NumTasks] /\ lost \in BOOLEAN
      BY <1>1 DEF FilesInv, FilesTypeOK
    <2>2. stream' \in [Kinds -> Seq(Records)] /\ onDisk' \in [Kinds -> Nat]
      <3>1. stream' = [k \in Kinds |-> <<>>] /\ onDisk' = [k \in Kinds |-> 0]
        BY <1>4, Zenon
      <3>2. QED BY <3>1
    <2>3. cursor' \in 0..NumTasks /\ tears' \in Nat
      <3> DEFINE c == saved.next
      <3>1. cursor' = c /\ tears' = tears
        BY <1>4, Zenon
      <3>2. c \in Nat /\ c <= NumTasks /\ NumTasks \in Nat /\ tears \in Nat
        BY <1>1, Shape, Zenon
      <3> HIDE DEF c
      <3>3. QED BY <3>1, <3>2
    <2>4. append' \in BOOLEAN /\ seq' \in 0..MaxSeq
      BY <1>4, <1>11, Zenon
    <2>5. queued' \subseteq 1..NumTasks /\ unwritten' \in 0..NumTasks
      BY <1>1, <1>4 DEF FilesInv, FilesTypeOK
    <2>6. QED BY <1>4, <2>1, <2>2, <2>3, <2>4, <2>5 DEF FilesTypeOK
  <1>6. \A k \in Kinds : ~HasOpen(k)' /\ stream'[k] = <<>> /\ onDisk'[k] = 0
    BY <1>4, Places
  <1>7. RunInv'
    <2>1. /\ told.seq = Nil => told.next = 0
          /\ told.seq # Nil /\ ~lost => files["scan"][told.seq] # Nil
      BY <1>1 DEF FilesInv, RunInv
    <2>2. ~append' => \A k \in Kinds : files'[k][seq'] = Nil
      BY <1>3, <1>4, <1>11, Zenon
    <2>3. (append' <=> saved'.seq # Nil) /\ (append' => seq' = saved'.seq)
      BY <1>3, <1>4, <1>11, Zenon
    <2>4. queued' = {} /\ unwritten' = 0
      <3>1. pc \notin Scanning
        BY <1>1, Places DEF Start
      <3>2. QED BY <1>1, <1>4, <3>1 DEF FilesInv, RunInv
    <2>5. QED BY <1>2, <1>4, <1>6, <2>1, <2>2, <2>3, <2>4 DEF RunInv
  <1>8. StreamInv' /\ RowsInv'
    <2>1. "scan" \in Kinds /\ pc' \notin Scanning
      BY <1>4, Places
    <2>2. QED BY <1>6, <2>1, NoRowsNext DEF StreamInv
  <1>9. HeaderInv' /\ CostInv'
    BY <1>1, <1>4 DEF FilesInv, HeaderInv, CostInv
  <1>10. QED BY <1>5, <1>7, <1>8, <1>9 DEF FilesInv

\* Opening a file keeps every record of it, and every other file.
LEMMA OpenedFacts ==
    ASSUME FilesInv, NEW k \in Kinds, OpenFile(k)
    PROVE  /\ Opened(k) \in Seq(Records) /\ HeadedOnce(Opened(k))
           /\ Opened(k) # <<>> => Opened(k)[1] \in {Mark("header"), Mark("bare")}
           /\ files[k][seq] # Nil => append /\ Opened(k) = files[k][seq]
           /\ files' \in [Kinds -> [0..MaxSeq -> {Nil} \cup Seq(Records)]]
           /\ files'[k][seq] = Opened(k)
           /\ \A j \in Kinds, i \in 0..MaxSeq :
                  j # k \/ i # seq => files'[j][i] = files[j][i]
  <1>1. /\ files \in [Kinds -> [0..MaxSeq -> {Nil} \cup Seq(Records)]] /\ seq \in 0..MaxSeq
        /\ \A j \in Kinds, i \in 0..MaxSeq : files[j][i] # Nil => HeadedOnce(files[j][i])
    BY DEF FilesInv, FilesTypeOK, HeaderInv
  <1>2. Opened(k) \in Seq(Records) /\ HeadedOnce(Opened(k))
    <2>1. HeadedOnce(<<>>) /\ <<>> \in Seq(Records)
      BY DEF HeadedOnce
    <2>2. files[k][seq] # Nil => files[k][seq] \in Seq(Records) /\ HeadedOnce(files[k][seq])
      BY <1>1
    <2>3. QED BY <2>1, <2>2 DEF Opened
  <1>3. files[k][seq] # Nil => append /\ Opened(k) = files[k][seq]
    <2>1. pc = Opening[k] /\ ~HasOpen(k) /\ pc # "down"
      BY Places DEF OpenFile
    <2>2. ~append => files[k][seq] = Nil
      BY <2>1 DEF FilesInv, RunInv
    <2>3. QED BY <2>2 DEF Opened
  <1>4. Opened(k) # <<>> => Opened(k)[1] \in {Mark("header"), Mark("bare")}
    <2>1. Opened(k) # <<>> => Head(Opened(k)) \in {Mark("header"), Mark("bare")}
      BY DEF OpenFile, HeaderMatches
    <2>2. QED BY <1>2, <2>1
  <1>5. files' = [files EXCEPT ![k] = [files[k] EXCEPT ![seq] = Opened(k)]]
    BY DEF OpenFile
  <1> DEFINE g == Opened(k)
  <1> HIDE DEF g
  <1>6. /\ files' \in [Kinds -> [0..MaxSeq -> {Nil} \cup Seq(Records)]]
        /\ files'[k][seq] = g
        /\ \A j \in Kinds, i \in 0..MaxSeq : j # k \/ i # seq => files'[j][i] = files[j][i]
    <2>1. files' = [files EXCEPT ![k] = [files[k] EXCEPT ![seq] = g]] /\ g \in Seq(Records)
      BY <1>2, <1>5 DEF g
    <2>2. QED BY <1>1, <2>1
  <1>7. QED BY <1>2, <1>3, <1>4, <1>6 DEF g

\* A file is opened: it has a header or gets one.
LEMMA OpenStep == ASSUME FilesInv, NEW k \in Kinds, OpenFile(k) PROVE FilesInv'
  <1> DEFINE g == Opened(k)
             h == IF g = <<>> THEN <<Mark("header")>> ELSE <<>>
  <1>1. /\ g \in Seq(Records) /\ HeadedOnce(g)
        /\ g # <<>> => g[1] \in {Mark("header"), Mark("bare")}
        /\ files[k][seq] # Nil => append /\ g = files[k][seq]
        /\ files' \in [Kinds -> [0..MaxSeq -> {Nil} \cup Seq(Records)]]
        /\ files'[k][seq] = g
        /\ \A j \in Kinds, i \in 0..MaxSeq : j # k \/ i # seq => files'[j][i] = files[j][i]
    BY OpenedFacts, Zenon
  <1>2. /\ pc = Opening[k] /\ pc' = Heading[k]
        /\ stream' = [stream EXCEPT ![k] = h]
        /\ UNCHANGED <<saved, seq, append, onDisk, cursor, queued, unwritten, told, tears, lost>>
    BY DEF OpenFile, NeedsHeader, runVars, histVars
  <1>3. /\ h \in Seq(Records)
        /\ \A i \in DOMAIN h : i = 1 /\ h[i] = Mark("header") /\ g = <<>>
        /\ g = <<>> => h # <<>> /\ h[1] = Mark("header")
        /\ g # <<>> => h = <<>>
    BY MarkFacts
  <1>4. g # Nil
    BY <1>1, NilAssumption
  <1> HIDE DEF g, h
  <1>5. /\ seq \in 0..MaxSeq /\ stream \in [Kinds -> Seq(Records)] /\ onDisk \in [Kinds -> Nat]
        /\ files \in [Kinds -> [0..MaxSeq -> {Nil} \cup Seq(Records)]]
    BY DEF FilesInv, FilesTypeOK
  <1>6. /\ HasOpen(k)' /\ ~HasOpen(k) /\ pc # "down" /\ pc \notin Scanning /\ pc' \notin Scanning /\ pc' # "down"
        /\ \A j \in Kinds : j # k => (HasOpen(j)' <=> HasOpen(j))
    BY <1>2, Places
  <1>7. /\ stream'[k] = h /\ \A j \in Kinds : j # k => stream'[j] = stream[j]
    BY <1>2, <1>5
  <1>8. FilesTypeOK'
    <2>1. stream' \in [Kinds -> Seq(Records)]
      BY <1>2, <1>3, <1>5
    <2>2. pc' \in {"down", "open scan", "head scan", "open opened", "head opened"} \cup Scanning
      BY <1>2, Places
    <2>3. QED BY <1>1, <1>2, <2>1, <2>2 DEF FilesInv, FilesTypeOK
  <1>9. \A j \in Kinds, i \in 0..MaxSeq : files[j][i] # Nil => files'[j][i] = files[j][i]
    BY <1>1
  <1>10. RunInv'
    <2>1. told.seq # Nil /\ ~lost => files'["scan"][told.seq] # Nil
      <3>1. told.seq \in {Nil} \cup 0..MaxSeq /\ "scan" \in Kinds
        BY Places DEF FilesInv, FilesTypeOK
      <3>2. QED BY <1>9, <3>1 DEF FilesInv, RunInv
    <2>2. ASSUME ~append, NEW j \in Kinds
          PROVE  files'[j][seq] = IF HasOpen(j)' THEN <<>> ELSE Nil
      <3>1. files[j][seq] = IF HasOpen(j) THEN <<>> ELSE Nil
        BY <1>6, <2>2 DEF FilesInv, RunInv
      <3>2. CASE j # k
        <4>1. files'[j][seq] = files[j][seq]
          BY <1>1, <1>5, <3>2
        <4>2. QED BY <1>6, <3>1, <3>2, <4>1
      <3>3. CASE j = k
        <4>1. g = <<>>
          BY <2>2 DEF g, Opened
        <4>2. QED BY <1>1, <1>6, <3>3, <4>1
      <3>4. QED BY <3>2, <3>3
    <2>3. QED BY <1>2, <1>6, <2>1, <2>2 DEF FilesInv, RunInv
  <1>11. StreamInv'
    <2>1. SUFFICES ASSUME NEW j \in Kinds
                   PROVE  IF HasOpen(j)'
                          THEN /\ files'[j][seq] # Nil
                               /\ \A i \in DOMAIN stream'[j] : i > 1 => stream'[j][i].task > 0
                               /\ IF files'[j][seq] = <<>>
                                  THEN stream'[j] # <<>> /\ stream'[j][1] = Mark("header")
                                  ELSE /\ files'[j][seq][1] \in {Mark("header"), Mark("bare")}
                                       /\ \A i \in DOMAIN stream'[j] : stream'[j][i].task > 0
                          ELSE stream'[j] = <<>> /\ onDisk'[j] = 0
      BY <1>2 DEF StreamInv
    <2>2. CASE j = k
      <3>1. files'[j][seq] = g /\ stream'[j] = h
        BY <1>1, <1>7, <2>2
      <3>2. \A i \in DOMAIN h : ~(i > 1)
        BY <1>3
      <3>3. g # <<>> => \A i \in DOMAIN h : h[i].task > 0
        BY <1>3
      <3>4. QED BY <1>1, <1>3, <1>4, <1>6, <2>2, <3>1, <3>2, <3>3
    <2>3. CASE j # k
      <3>1. files'[j][seq] = files[j][seq] /\ stream'[j] = stream[j] /\ onDisk'[j] = onDisk[j]
        BY <1>1, <1>2, <1>5, <1>7, <2>3
      <3>2. QED BY <1>6, <2>3, <3>1 DEF FilesInv, StreamInv
    <2>4. QED BY <2>2, <2>3
  <1>12. HeaderInv'
    <2>1. SUFFICES ASSUME NEW j \in Kinds, NEW i \in 0..MaxSeq, files'[j][i] # Nil
                   PROVE  HeadedOnce(files'[j][i])
      BY DEF HeaderInv
    <2>2. CASE j = k /\ i = seq
      BY <1>1, <2>2
    <2>3. CASE j # k \/ i # seq
      BY <1>1, <2>1, <2>3 DEF FilesInv, HeaderInv
    <2>4. QED BY <2>2, <2>3
  <1>13. RowsInv'
    <2>1. CASE k = "open"
      <3>1. /\ files'["scan"][seq] = files["scan"][seq] /\ stream'["scan"] = stream["scan"]
            /\ HasOpen("scan") /\ pc # Heading["scan"]
        BY <1>1, <1>2, <1>5, <1>7, <2>1, Places
      <3>2. QED BY <1>2, <1>6, <3>1 DEF FilesInv, RowsInv
    <2>2. CASE k = "scan"
      <3>1. /\ stream'["scan"] = h /\ pc' = Heading["scan"] /\ onDisk'["scan"] = 0
        BY <1>2, <1>6, <1>7, <2>2, Places DEF FilesInv, StreamInv
      <3>2. \A i \in DOMAIN h : ~(h[i].task > 0)
        BY <1>3, MarkFacts
      <3>3. Len(h) >= 0
        BY <1>3
      <3>4. QED BY <1>2, <1>6, <3>1, <3>2, <3>3 DEF RowsInv
    <2>3. QED BY <2>1, <2>2, Places
  <1>14. CostInv'
    <2>1. SUFFICES ASSUME told.seq # Nil, ~lost PROVE Cost(files'["scan"][told.seq], told.next) <= tears
      BY <1>2 DEF CostInv
    <2>2. told.seq \in 0..MaxSeq /\ "scan" \in Kinds /\ files["scan"][told.seq] # Nil
      BY <2>1, Places DEF FilesInv, FilesTypeOK, RunInv
    <2>3. files'["scan"][told.seq] = files["scan"][told.seq]
      BY <1>9, <2>2
    <2>4. QED BY <2>1, <2>3 DEF FilesInv, CostInv
  <1>15. QED BY <1>8, <1>10, <1>11, <1>12, <1>13, <1>14 DEF FilesInv

\* The header reaches the disk before the first row.
LEMMA HeaderStep == ASSUME FilesInv, NEW k \in Kinds, WriteHeader(k) PROVE FilesInv'
  <1>1. /\ pc = Heading[k] /\ pc' = IF k = "scan" THEN Opening["open"] ELSE "scan"
        /\ onDisk' = [onDisk EXCEPT ![k] = Len(stream[k])]
        /\ UNCHANGED <<files, saved, seq, append, stream, cursor, queued, unwritten, told, tears, lost>>
    BY DEF WriteHeader, fileVars, runVars, histVars
  <1>2. /\ HasOpen(k) /\ pc # "down" /\ pc \notin Scanning /\ pc' # "down"
        /\ \A j \in Kinds : HasOpen(j)' <=> HasOpen(j)
        /\ pc' \in {"down", "open scan", "head scan", "open opened", "head opened"} \cup Scanning
        /\ pc' # Heading["scan"]
    BY <1>1, Places
  <1>3. stream \in [Kinds -> Seq(Records)] /\ onDisk \in [Kinds -> Nat]
    BY DEF FilesInv, FilesTypeOK
  <1>4. FilesTypeOK'
    <2>1. onDisk' \in [Kinds -> Nat]
      <3>1. Len(stream[k]) \in Nat
        BY <1>3
      <3>2. QED BY <1>1, <1>3, <3>1
    <2>2. QED BY <1>1, <1>2, <2>1 DEF FilesInv, FilesTypeOK
  <1>5. RunInv'
    BY <1>1, <1>2 DEF FilesInv, RunInv
  <1>6. StreamInv'
    <2>1. \A j \in Kinds : ~HasOpen(j) => onDisk'[j] = onDisk[j]
      BY <1>1, <1>2, <1>3
    <2>2. QED BY <1>1, <1>2, <2>1 DEF FilesInv, StreamInv
  <1>7. HeaderInv' /\ CostInv'
    BY <1>1 DEF FilesInv, HeaderInv, CostInv
  <1>8. RowsInv'
    <2>1. HasOpen("scan") /\ HasOpen("scan")'
      BY <1>1, <1>2, Places
    <2>2. /\ queued = {} /\ unwritten = 0 /\ cursor = saved.next
          /\ cursor \in Nat /\ stream["scan"] \in Seq(Records) /\ Len(stream["scan"]) \in Nat
      BY <1>2, Shape DEF FilesInv, RunInv
    <2>3. /\ onDisk["scan"] <= Len(stream["scan"])
          /\ \A i \in DOMAIN stream["scan"] :
               stream["scan"][i].task > 0 => stream["scan"][i].task \in (saved.next + 1)..cursor
          /\ pc # Heading["scan"] /\ files["scan"][seq] = <<>> => onDisk["scan"] >= 1
      BY <2>1 DEF FilesInv, RowsInv
    <2>4. files["scan"][seq] = <<>> => Len(stream["scan"]) >= 1
      <3>1. files["scan"][seq] = <<>> => stream["scan"] # <<>>
        BY <2>1, Places DEF FilesInv, StreamInv
      <3>2. QED BY <2>2, <3>1
    <2>5. /\ onDisk'["scan"] <= Len(stream["scan"])
          /\ files["scan"][seq] = <<>> => onDisk'["scan"] >= 1
      <3>1. CASE k = "scan"
        <4>1. onDisk'["scan"] = Len(stream["scan"])
          BY <1>1, <1>3, <3>1, Places
        <4>2. QED BY <2>2, <2>4, <4>1
      <3>2. CASE k = "open"
        <4>1. onDisk'["scan"] = onDisk["scan"] /\ pc # Heading["scan"]
          BY <1>1, <1>3, <3>2, Places
        <4>2. QED BY <2>3, <4>1
      <3>3. QED BY <3>1, <3>2, Places
    <2>6. ASSUME pc' \in Scanning
          PROVE  /\ saved.next <= cursor /\ unwritten \in {0} \cup (saved.next + 1)..cursor
                 /\ queued \subseteq (saved.next + 1)..cursor
                 /\ (saved.next + 1)..cursor = {}
      <3> DEFINE c == saved.next
      <3>1. c = cursor
        BY <2>2
      <3> HIDE DEF c
      <3>2. c <= cursor /\ (c + 1)..cursor = {} /\ unwritten \in {0} /\ queued \subseteq {}
        BY <2>2, <3>1
      <3>3. QED BY <3>2 DEF c
    <2>7. QED BY <1>1, <2>3, <2>5, <2>6 DEF RowsInv
  <1>9. QED BY <1>4, <1>5, <1>6, <1>7, <1>8 DEF FilesInv

\* What a step of a running scan may change: the tasks that are waited for, the first
\* one that is marked, and how far the scan has come.
LEMMA ScanStep ==
    ASSUME FilesInv, pc \in Scanning, pc' \in Scanning,
           UNCHANGED <<files, saved, seq, append, told, tears, lost>>,
           stream' \in [Kinds -> Seq(Records)], onDisk' \in [Kinds -> Nat],
           cursor' \in 0..NumTasks, queued' \subseteq 1..NumTasks, unwritten' \in 0..NumTasks,
           \A k \in Kinds : /\ \A i \in DOMAIN stream'[k] :
                                  (i \in DOMAIN stream[k] /\ stream'[k][i] = stream[k][i]) \/ stream'[k][i].task > 0
                            /\ stream[k] # <<>> => stream'[k] # <<>> /\ stream'[k][1] = stream[k][1],
           RowsInv'
    PROVE  FilesInv'
  <1>1. pc # "down" /\ pc' # "down" /\ \A k \in Kinds : HasOpen(k) /\ HasOpen(k)'
    BY Places
  <1>2. FilesTypeOK'
    <2>1. pc' \in {"down", "open scan", "head scan", "open opened", "head opened"} \cup Scanning
      OBVIOUS
    <2>2. QED BY <2>1 DEF FilesInv, FilesTypeOK
  <1>3. RunInv'
    BY <1>1 DEF FilesInv, RunInv
  <1>4. StreamInv'
    <2>1. SUFFICES ASSUME NEW k \in Kinds
                   PROVE  /\ files[k][seq] # Nil
                          /\ \A i \in DOMAIN stream'[k] : i > 1 => stream'[k][i].task > 0
                          /\ IF files[k][seq] = <<>>
                             THEN stream'[k] # <<>> /\ stream'[k][1] = Mark("header")
                             ELSE /\ files[k][seq][1] \in {Mark("header"), Mark("bare")}
                                  /\ \A i \in DOMAIN stream'[k] : stream'[k][i].task > 0
      BY <1>1 DEF StreamInv
    <2> DEFINE s == stream[k]
               u == stream'[k]
    <2>2. /\ files[k][seq] # Nil
          /\ \A i \in DOMAIN s : i > 1 => s[i].task > 0
          /\ IF files[k][seq] = <<>> THEN s # <<>> /\ s[1] = Mark("header")
             ELSE /\ files[k][seq][1] \in {Mark("header"), Mark("bare")}
                  /\ \A i \in DOMAIN s : s[i].task > 0
      BY <1>1 DEF FilesInv, StreamInv
    <2>3. /\ \A i \in DOMAIN u : (i \in DOMAIN s /\ u[i] = s[i]) \/ u[i].task > 0
          /\ s # <<>> => u # <<>> /\ u[1] = s[1]
      OBVIOUS
    <2> HIDE DEF s, u
    <2>4. \A i \in DOMAIN u : i > 1 => u[i].task > 0
      BY <2>2, <2>3
    <2>5. files[k][seq] # <<>> => \A i \in DOMAIN u : u[i].task > 0
      BY <2>2, <2>3
    <2>6. QED BY <2>2, <2>3, <2>4, <2>5 DEF u
  <1>5. HeaderInv' /\ CostInv'
    BY DEF FilesInv, HeaderInv, CostInv
  <1>6. QED BY <1>2, <1>3, <1>4, <1>5 DEF FilesInv

\* What the rows of a running scan are, and where its tasks are.
LEMMA ScanRows ==
    ASSUME FilesInv, pc \in Scanning
    PROVE  /\ onDisk["scan"] <= Len(stream["scan"])
           /\ files["scan"][seq] = <<>> => onDisk["scan"] >= 1
           /\ \A i \in DOMAIN stream["scan"] :
                 stream["scan"][i].task > 0 => stream["scan"][i].task \in (saved.next + 1)..cursor
           /\ saved.next <= cursor /\ unwritten \in {0} \cup (saved.next + 1)..cursor
           /\ queued \subseteq (saved.next + 1)..cursor
           /\ \A t \in (saved.next + 1)..cursor : Settled(t)
  <1>1. HasOpen("scan") /\ pc # Heading["scan"]
    BY Places
  <1>2. QED BY <1>1 DEF FilesInv, RowsInv

\* A task is dispatched: it is waited for.
LEMMA DispatchStep == FilesInv /\ Dispatch => FilesInv'
  <1>1. SUFFICES ASSUME FilesInv, Dispatch PROVE FilesInv'
    OBVIOUS
  <1>2. /\ pc \in Scanning /\ pc' \in Scanning /\ cursor < NumTasks /\ pc' = pc
        /\ cursor' = cursor + 1 /\ queued' = queued \cup {cursor + 1}
        /\ UNCHANGED <<files, saved, seq, append, told, tears, lost, stream, onDisk, unwritten>>
    BY <1>1, Places DEF Dispatch, fileVars, streamVars, histVars
  <1>3. /\ saved.next \in Nat /\ cursor \in Nat /\ NumTasks \in Nat
        /\ stream \in [Kinds -> Seq(Records)] /\ onDisk \in [Kinds -> Nat]
        /\ queued \subseteq 1..NumTasks /\ unwritten \in 0..NumTasks
    BY <1>1, Shape DEF FilesInv, FilesTypeOK
  <1>4. cursor' \in 0..NumTasks /\ queued' \subseteq 1..NumTasks /\ unwritten' \in 0..NumTasks
    BY <1>2, <1>3
  <1>5. RowsInv'
    <2> DEFINE c == saved.next
    <2>1. /\ onDisk["scan"] <= Len(stream["scan"])
          /\ files["scan"][seq] = <<>> => onDisk["scan"] >= 1
          /\ \A i \in DOMAIN stream["scan"] :
                stream["scan"][i].task > 0 => stream["scan"][i].task \in (c + 1)..cursor
          /\ c <= cursor /\ unwritten \in {0} \cup (c + 1)..cursor
          /\ queued \subseteq (c + 1)..cursor
          /\ \A t \in (c + 1)..cursor : Settled(t)
      BY <1>1, <1>2, ScanRows, Zenon
    <2>2. c \in Nat
      BY <1>3
    <2>3. \A t \in (c + 1)..cursor : Settled(t)'
      BY <1>2, <2>1 DEF Settled
    <2>4. \A t : t = cursor + 1 => Settled(t)'
      BY <1>2 DEF Settled
    <2> HIDE DEF c
    <2>5. \A t \in (c + 1)..cursor' : t \in (c + 1)..cursor \/ t = cursor + 1
      BY <1>2, <1>3, <2>2
    <2>6. (c + 1)..cursor \subseteq (c + 1)..cursor' /\ cursor + 1 \in (c + 1)..cursor' /\ c <= cursor'
      BY <1>2, <1>3, <2>1, <2>2
    <2>7. \A t \in (c + 1)..cursor' : Settled(t)'
      BY <2>3, <2>4, <2>5
    <2>8. /\ unwritten \in {0} \cup (c + 1)..cursor' /\ queued' \subseteq (c + 1)..cursor'
          /\ \A i \in DOMAIN stream["scan"] :
                stream["scan"][i].task > 0 => stream["scan"][i].task \in (c + 1)..cursor'
      BY <1>2, <2>1, <2>6
    <2>9. QED BY <1>2, <2>1, <2>6, <2>7, <2>8 DEF RowsInv, c
  <1>6. QED BY <1>1, <1>2, <1>3, <1>4, <1>5, ScanStep, Zenon

\* The run is stopped.
LEMMA StopStep == FilesInv /\ Stop => FilesInv'
  <1>1. SUFFICES ASSUME FilesInv, Stop PROVE FilesInv'
    OBVIOUS
  <1>2. /\ pc \in Scanning /\ pc' \in Scanning /\ pc # "failed" /\ pc' # "failed"
        /\ UNCHANGED <<files, saved, seq, append, told, tears, lost, stream, onDisk, cursor, queued, unwritten>>
    BY <1>1, Places DEF Stop, fileVars, streamVars, runVars, histVars
  <1>3. /\ stream \in [Kinds -> Seq(Records)] /\ onDisk \in [Kinds -> Nat]
        /\ cursor \in 0..NumTasks /\ queued \subseteq 1..NumTasks /\ unwritten \in 0..NumTasks
    BY <1>1 DEF FilesInv, FilesTypeOK
  <1>4. RowsInv'
    <2>1. ASSUME NEW t \in (saved.next + 1)..cursor PROVE Settled(t)'
      <3>1. Settled(t)
        BY <1>1, <1>2, ScanRows
      <3>2. \/ t \in queued \/ (unwritten # 0 /\ unwritten <= t)
            \/ \E i \in DOMAIN stream["scan"] : stream["scan"][i].task = t
        BY <3>1 DEF Settled
      <3>3. QED BY <1>2, <3>2 DEF Settled
    <2>2. QED BY <1>1, <1>2, <2>1, ScanRows DEF RowsInv
  <1>5. QED BY <1>1, <1>2, <1>3, <1>4, ScanStep, Zenon

\* A result is given to the writers: a row for the scan file, and for the other file
\* if the port is open.
LEMMA AcceptFacts ==
    ASSUME FilesInv, NEW t \in queued, Accept(t)
    PROVE  /\ stream' \in [Kinds -> Seq(Records)]
           /\ \A k \in Kinds :
                /\ (Len(stream'[k]) = Len(stream[k]) \/ Len(stream'[k]) = Len(stream[k]) + 1)
                /\ \A i \in 1..Len(stream[k]) : stream'[k][i] = stream[k][i]
                /\ Len(stream'[k]) # Len(stream[k]) => stream'[k][Len(stream[k]) + 1].task = t
           /\ Len(stream'["scan"]) = Len(stream["scan"]) + 1
  <1>1. PICK err \in DialErrors :
          stream' = [k \in Kinds |-> stream[k] \o RowsFor(k, [task |-> t, status |-> ScanTCP(err)])]
    BY DEF Accept
  <1> DEFINE row == [task |-> t, status |-> ScanTCP(err)]
  <1>11. t \in Nat
    <2>1. queued \subseteq 1..NumTasks /\ NumTasks \in Nat
      BY FilesAssumption DEF FilesInv, FilesTypeOK
    <2>2. QED BY <2>1
  <1>2. row \in Records /\ row.task = t
    BY <1>11 DEF Records
  <1> HIDE DEF row
  <1>3. stream \in [Kinds -> Seq(Records)] /\ "scan" \in Kinds
    BY Places DEF FilesInv, FilesTypeOK
  <1>4. \A k \in Kinds : stream'[k] = stream[k] \o <<>> \/ stream'[k] = stream[k] \o <<row>>
    BY <1>1 DEF RowsFor, row
  <1>5. stream'["scan"] = stream["scan"] \o <<row>>
    BY <1>1, <1>3 DEF RowsFor, row
  <1>6. ASSUME NEW s \in Seq(Records)
        PROVE  /\ s \o <<>> \in Seq(Records) /\ Len(s \o <<>>) = Len(s)
               /\ \A i \in 1..Len(s) : (s \o <<>>)[i] = s[i]
               /\ s \o <<row>> \in Seq(Records) /\ Len(s \o <<row>>) = Len(s) + 1
               /\ \A i \in 1..Len(s) : (s \o <<row>>)[i] = s[i]
               /\ (s \o <<row>>)[Len(s) + 1] = row
    BY <1>2, <1>6
  <1>7. ASSUME NEW k \in Kinds
        PROVE  /\ stream'[k] \in Seq(Records)
               /\ (Len(stream'[k]) = Len(stream[k]) \/ Len(stream'[k]) = Len(stream[k]) + 1)
               /\ \A i \in 1..Len(stream[k]) : stream'[k][i] = stream[k][i]
               /\ Len(stream'[k]) # Len(stream[k]) => stream'[k][Len(stream[k]) + 1].task = t
    <2>1. stream[k] \in Seq(Records)
      BY <1>3
    <2>2. CASE stream'[k] = stream[k] \o <<>>
      BY <1>6, <2>1, <2>2
    <2>3. CASE stream'[k] = stream[k] \o <<row>>
      BY <1>2, <1>6, <2>1, <2>3
    <2>4. QED BY <1>4, <2>2, <2>3
  <1>8. stream' \in [Kinds -> Seq(Records)]
    BY <1>1, <1>7
  <1>9. Len(stream'["scan"]) = Len(stream["scan"]) + 1
    BY <1>3, <1>5, <1>6
  <1>10. QED BY <1>7, <1>8, <1>9

\* A sequence of records that is one row longer.
LEMMA OneMore ==
    ASSUME NEW s \in Seq(Records), NEW u \in Seq(Records), NEW x \in Nat, x > 0,
           Len(u) = Len(s) \/ Len(u) = Len(s) + 1,
           \A i \in 1..Len(s) : u[i] = s[i],
           Len(u) # Len(s) => u[Len(s) + 1].task = x
    PROVE  /\ \A i \in DOMAIN u : (i \in DOMAIN s /\ u[i] = s[i]) \/ u[i].task > 0
           /\ s # <<>> => u # <<>> /\ u[1] = s[1]
  <1>1. DOMAIN s = 1..Len(s) /\ DOMAIN u = 1..Len(u) /\ Len(s) \in Nat /\ Len(u) \in Nat
    OBVIOUS
  <1>2. ASSUME NEW i \in 1..Len(u) PROVE (i \in 1..Len(s) /\ u[i] = s[i]) \/ u[i].task > 0
    <2>1. CASE i \in 1..Len(s)
      BY <2>1
    <2>2. CASE i \notin 1..Len(s)
      <3>1. i = Len(s) + 1 /\ Len(u) # Len(s)
        <4> DEFINE a == Len(s)
                   b == Len(u)
        <4>1. a \in Nat /\ b \in Nat /\ (b = a \/ b = a + 1) /\ i \in 1..b /\ i \notin 1..a
          BY <1>1, <2>2
        <4> HIDE DEF a, b
        <4>2. i = a + 1 /\ b # a
          BY <4>1
        <4>3. QED BY <4>2 DEF a, b
      <3>2. u[i].task = x
        BY <3>1
      <3>3. QED BY <3>2
    <2>3. QED BY <2>1, <2>2
  <1>3. s # <<>> => u # <<>> /\ u[1] = s[1]
    <2>1. SUFFICES ASSUME s # <<>> PROVE u # <<>> /\ u[1] = s[1]
      OBVIOUS
    <2>2. Len(s) # 0
      BY <2>1
    <2> DEFINE a == Len(s)
               b == Len(u)
    <2>3. a \in Nat /\ b \in Nat /\ (b = a \/ b = a + 1) /\ a # 0
      BY <1>1, <2>2
    <2> HIDE DEF a, b
    <2>4. 1 \in 1..a /\ b # 0
      BY <2>3
    <2>5. QED BY <2>4 DEF a, b
  <1>4. QED BY <1>1, <1>2, <1>3

\* A result is accepted.
LEMMA AcceptStep == ASSUME FilesInv, NEW t \in queued, Accept(t) PROVE FilesInv'
  <1>2. /\ pc \in Scanning /\ pc' \in Scanning /\ pc # "failed" /\ pc' # "failed" /\ queued' = queued \ {t}
        /\ UNCHANGED <<files, saved, seq, append, onDisk, cursor, unwritten, told, tears, lost>>
    BY Places DEF Accept, fileVars, histVars
  <1>3. /\ stream' \in [Kinds -> Seq(Records)]
        /\ \A k \in Kinds :
             /\ (Len(stream'[k]) = Len(stream[k]) \/ Len(stream'[k]) = Len(stream[k]) + 1)
             /\ \A i \in 1..Len(stream[k]) : stream'[k][i] = stream[k][i]
             /\ Len(stream'[k]) # Len(stream[k]) => stream'[k][Len(stream[k]) + 1].task = t
        /\ Len(stream'["scan"]) = Len(stream["scan"]) + 1
    BY AcceptFacts, Zenon
  <1>4. /\ stream \in [Kinds -> Seq(Records)] /\ onDisk \in [Kinds -> Nat] /\ "scan" \in Kinds
        /\ cursor \in 0..NumTasks /\ queued \subseteq 1..NumTasks /\ unwritten \in 0..NumTasks
    BY Places DEF FilesInv, FilesTypeOK
  <1>5. t \in 1..NumTasks /\ NumTasks \in Nat /\ t \in Nat /\ t > 0
    <2>1. t \in 1..NumTasks
      BY <1>4
    <2>2. QED BY <2>1, FilesAssumption
  <1>6. \A k \in Kinds : /\ \A i \in DOMAIN stream'[k] :
                                  (i \in DOMAIN stream[k] /\ stream'[k][i] = stream[k][i]) \/ stream'[k][i].task > 0
                         /\ stream[k] # <<>> => stream'[k] # <<>> /\ stream'[k][1] = stream[k][1]
    BY <1>3, <1>4, <1>5, OneMore
  <1>7. RowsInv'
    <2> DEFINE c == saved.next
               s == stream["scan"]
               u == stream'["scan"]
    <2>1. /\ onDisk["scan"] <= Len(s)
          /\ files["scan"][seq] = <<>> => onDisk["scan"] >= 1
          /\ \A i \in DOMAIN s : s[i].task > 0 => s[i].task \in (c + 1)..cursor
          /\ c <= cursor /\ unwritten \in {0} \cup (c + 1)..cursor
          /\ queued \subseteq (c + 1)..cursor
      BY <1>2, ScanRows, Zenon
    <2>2. /\ s \in Seq(Records) /\ u \in Seq(Records) /\ Len(u) = Len(s) + 1
          /\ \A i \in 1..Len(s) : u[i] = s[i]
          /\ u[Len(s) + 1].task = t
      <3>1. /\ s \in Seq(Records) /\ u \in Seq(Records) /\ Len(u) = Len(s) + 1
            /\ \A i \in 1..Len(s) : u[i] = s[i]
            /\ Len(u) # Len(s) => u[Len(s) + 1].task = t
        BY <1>3, <1>4
      <3> HIDE DEF s, u
      <3>2. Len(u) # Len(s)
        <4>1. Len(s) \in Nat
          BY Shape DEF s
        <4>2. QED BY <3>1, <4>1
      <3>3. QED BY <3>1, <3>2
    <2>3. /\ DOMAIN s = 1..Len(s) /\ DOMAIN u = 1..(Len(s) + 1) /\ Len(s) \in Nat /\ onDisk["scan"] \in Nat
      BY <1>4, <2>2
    <2>4. ASSUME NEW x \in (c + 1)..cursor PROVE Settled(x)'
      <3>1. Settled(x)
        BY <1>2, ScanRows
      <3>2. CASE x \in queued /\ x # t
        BY <1>2, <3>2 DEF Settled
      <3>3. CASE unwritten # 0 /\ unwritten <= x
        BY <1>2, <3>3 DEF Settled
      <3>4. CASE \E i \in DOMAIN s : s[i].task = x
        <4>1. PICK i \in DOMAIN s : s[i].task = x
          BY <3>4
        <4>2. i \in DOMAIN u /\ u[i].task = x
          BY <2>2, <2>3, <4>1
        <4>3. QED BY <1>2, <4>2 DEF Settled, u
      <3>5. CASE x = t
        <4>1. Len(s) + 1 \in DOMAIN u
          BY <2>3
        <4>2. \E i \in DOMAIN u : u[i].task = x
          BY <2>2, <3>5, <4>1
        <4>3. QED BY <1>2, <4>2 DEF Settled, u
      <3>6. QED BY <3>1, <3>2, <3>3, <3>4, <3>5 DEF Settled, s
    <2>5. t \in (c + 1)..cursor
      BY <2>1
    <2> HIDE DEF c, s, u
    <2>6. onDisk["scan"] <= Len(u) /\ \A i \in DOMAIN u : u[i].task > 0 => u[i].task \in (c + 1)..cursor
      <3>1. onDisk["scan"] <= Len(u)
        BY <2>1, <2>2, <2>3
      <3>2. \A i \in DOMAIN u : i \in DOMAIN s \/ i = Len(s) + 1
        BY <2>3
      <3>3. QED BY <2>1, <2>2, <2>3, <2>5, <3>1, <3>2
    <2>7. QED BY <1>2, <2>1, <2>4, <2>6 DEF RowsInv, c, u
  <1>8. queued' \subseteq 1..NumTasks
    BY <1>2, <1>4
  <1>9. QED BY <1>2, <1>3, <1>4, <1>6, <1>7, <1>8, ScanStep, Zenon

\* A mark is never after the task that is marked, nor after an earlier one.
LEMMA MarkFirst ==
    ASSUME FilesInv, NEW t \in Nat, t > 0, MarkUnwritten(t)
    PROVE  /\ unwritten' = t \/ (unwritten' = unwritten /\ unwritten # 0)
           /\ unwritten' # 0 /\ unwritten' \in Nat /\ unwritten' <= t
           /\ unwritten # 0 => unwritten' <= unwritten
  <1>1. unwritten \in Nat
    BY Shape
  <1>2. unwritten' = IF unwritten = 0 \/ t < unwritten THEN t ELSE unwritten
    BY DEF MarkUnwritten
  <1>3. QED BY <1>1, <1>2

\* A task is given back without a row: the cursor will go back before it.
LEMMA MarkStep ==
    ASSUME FilesInv, NEW t \in queued, AcceptLate(t) \/ Abandon(t)
    PROVE  FilesInv'
  <1>2. /\ pc \in Scanning /\ pc' = pc /\ queued' = queued \ {t} /\ MarkUnwritten(t)
        /\ UNCHANGED <<files, saved, seq, append, stream, onDisk, cursor, told, tears, lost>>
    BY Places DEF AcceptLate, Abandon, fileVars, streamVars, histVars
  <1>3. /\ stream \in [Kinds -> Seq(Records)] /\ onDisk \in [Kinds -> Nat]
        /\ cursor \in 0..NumTasks /\ queued \subseteq 1..NumTasks /\ unwritten \in 0..NumTasks
        /\ NumTasks \in Nat
    BY Shape DEF FilesInv, FilesTypeOK
  <1>4. t \in 1..NumTasks /\ t \in Nat /\ t > 0
    <2>1. t \in 1..NumTasks
      BY <1>3
    <2>2. QED BY <1>3, <2>1
  <1>5. /\ unwritten' = t \/ (unwritten' = unwritten /\ unwritten # 0)
        /\ unwritten' # 0 /\ unwritten' \in Nat /\ unwritten' <= t
        /\ unwritten # 0 => unwritten' <= unwritten
    BY <1>2, <1>4, MarkFirst
  <1>6. RowsInv'
    <2> DEFINE c == saved.next
    <2>1. /\ onDisk["scan"] <= Len(stream["scan"])
          /\ files["scan"][seq] = <<>> => onDisk["scan"] >= 1
          /\ \A i \in DOMAIN stream["scan"] :
                stream["scan"][i].task > 0 => stream["scan"][i].task \in (c + 1)..cursor
          /\ c <= cursor /\ unwritten \in {0} \cup (c + 1)..cursor
          /\ queued \subseteq (c + 1)..cursor
      BY <1>2, ScanRows, Zenon
    <2>2. c \in Nat /\ cursor \in Nat /\ unwritten \in Nat
      BY Shape
    <2>3. ASSUME NEW x \in (c + 1)..cursor PROVE Settled(x)'
      <3>1. Settled(x) /\ x \in Nat
        BY <1>2, <2>2, ScanRows
      <3>2. CASE x \in queued /\ x # t
        BY <1>2, <3>2 DEF Settled
      <3>3. CASE x = t \/ (unwritten # 0 /\ unwritten <= x)
        <4>1. unwritten' # 0 /\ unwritten' <= x
          BY <1>5, <2>2, <3>1, <3>3
        <4>2. QED BY <4>1 DEF Settled
      <3>4. CASE \E i \in DOMAIN stream["scan"] :
                    stream["scan"][i].task = x /\ (pc = "failed" => i <= onDisk["scan"])
        BY <1>2, <3>4 DEF Settled
      <3>5. QED BY <3>1, <3>2, <3>3, <3>4 DEF Settled
    <2>4. unwritten' \in {0} \cup (c + 1)..cursor
      BY <1>5, <2>1
    <2>5. QED BY <1>2, <2>1, <2>3, <2>4 DEF RowsInv
  <1>7. queued' \subseteq 1..NumTasks /\ unwritten' \in 0..NumTasks
    BY <1>2, <1>3, <1>4, <1>5
  <1>8. QED BY <1>2, <1>3, <1>6, <1>7, ScanStep, Zenon

\* A batch is committed: all its rows are on the disk.
LEMMA CommitStep == FilesInv /\ Commit => FilesInv'
  <1>1. SUFFICES ASSUME FilesInv, Commit PROVE FilesInv'
    OBVIOUS
  <1>2. /\ pc \in Scanning /\ pc # "failed" /\ onDisk' = [k \in Kinds |-> Len(stream[k])]
        /\ UNCHANGED <<files, saved, pc, seq, append, stream, cursor, queued, unwritten, told, tears, lost>>
    BY <1>1, Places DEF Commit, fileVars, histVars
  <1>3. /\ stream \in [Kinds -> Seq(Records)]
        /\ cursor \in 0..NumTasks /\ queued \subseteq 1..NumTasks /\ unwritten \in 0..NumTasks
    BY <1>1 DEF FilesInv, FilesTypeOK
  <1>4. onDisk' \in [Kinds -> Nat] /\ onDisk'["scan"] = Len(stream["scan"]) /\ Len(stream["scan"]) \in Nat
    <2>1. \A k \in Kinds : Len(stream[k]) \in Nat
      BY <1>3
    <2>2. QED BY <1>2, <2>1, Places
  <1>5. RowsInv'
    <2>1. onDisk["scan"] <= Len(stream["scan"]) /\ onDisk["scan"] \in Nat
      BY <1>1, <1>2, ScanRows, Shape
    <2>2. files["scan"][seq] = <<>> => onDisk'["scan"] >= 1
      <3>1. files["scan"][seq] = <<>> => onDisk["scan"] >= 1
        BY <1>1, <1>2, ScanRows
      <3>2. QED BY <1>4, <2>1, <3>1
    <2>3. \A t \in (saved.next + 1)..cursor : Settled(t)'
      BY <1>1, <1>2, ScanRows DEF Settled
    <2>4. onDisk'["scan"] <= Len(stream["scan"])
      BY <1>4
    <2>5. QED BY <1>1, <1>2, <2>2, <2>3, <2>4, ScanRows DEF RowsInv
  <1>6. QED BY <1>1, <1>2, <1>3, <1>4, <1>5, ScanStep, Zenon

\* A write or a flush fails: of the rows that are not on the disk the earliest task is
\* marked.
LEMMA FailStep == FilesInv /\ OutputFails => FilesInv'
  <1>1. SUFFICES ASSUME FilesInv, OutputFails PROVE FilesInv'
    OBVIOUS
  <1>2. /\ pc \in Scanning /\ pc' = "failed" /\ pc' \in Scanning
        /\ UNCHANGED <<files, saved, seq, append, stream, onDisk, cursor, queued, told, tears, lost>>
    BY <1>1, Places DEF OutputFails, fileVars, streamVars, histVars
  <1>3. /\ stream \in [Kinds -> Seq(Records)] /\ onDisk \in [Kinds -> Nat] /\ NumTasks \in Nat
        /\ cursor \in 0..NumTasks /\ queued \subseteq 1..NumTasks /\ unwritten \in 0..NumTasks
    BY <1>1, Shape DEF FilesInv, FilesTypeOK
  <1> DEFINE s == stream["scan"]
             d == onDisk["scan"]
             c == saved.next
  <1>4. PICK i \in Pending : (\A j \in Pending : s[i].task <= s[j].task) /\ MarkUnwritten(s[i].task)
    BY <1>1 DEF OutputFails
  <1>5. s \in Seq(Records) /\ d \in Nat /\ DOMAIN s = 1..Len(s) /\ Len(s) \in Nat /\ d <= Len(s)
        /\ c \in Nat /\ cursor \in Nat
    BY <1>1, <1>2, Shape, ScanRows
  <1>6. i \in DOMAIN s /\ i > d /\ i \in Nat
    <2>1. i \in (d + 1)..Len(s)
      BY DEF Pending
    <2> HIDE DEF s, d
    <2>2. QED BY <1>5, <2>1
  <1>7. s[i].task > 0
    <2>1. \A j \in DOMAIN s : j > 1 => s[j].task > 0
      BY <1>1, <1>2, Places DEF FilesInv, StreamInv
    <2>2. files["scan"][seq] # <<>> => \A j \in DOMAIN s : s[j].task > 0
      BY <1>1, <1>2, Places DEF FilesInv, StreamInv
    <2>3. files["scan"][seq] = <<>> => d >= 1
      BY <1>1, <1>2, ScanRows
    <2> HIDE DEF s, d
    <2>4. QED BY <1>5, <1>6, <2>1, <2>2, <2>3
  <1>8. s[i].task \in (c + 1)..cursor
    BY <1>1, <1>2, <1>6, <1>7, ScanRows
  <1> DEFINE y == s[i].task
  <1>9. y \in Nat /\ y > 0 /\ y <= cursor
    <2>1. y \in (c + 1)..cursor
      BY <1>8
    <2> HIDE DEF y, c
    <2>2. QED BY <1>5, <2>1
  <1>10. /\ unwritten' = y \/ (unwritten' = unwritten /\ unwritten # 0)
         /\ unwritten' # 0 /\ unwritten' \in Nat /\ unwritten' <= y
         /\ unwritten # 0 => unwritten' <= unwritten
    BY <1>1, <1>4, <1>9, MarkFirst
  <1>11. RowsInv'
    <2>1. /\ d <= Len(s) /\ (files["scan"][seq] = <<>> => d >= 1)
          /\ \A j \in DOMAIN s : s[j].task > 0 => s[j].task \in (c + 1)..cursor
          /\ c <= cursor /\ unwritten \in {0} \cup (c + 1)..cursor
          /\ queued \subseteq (c + 1)..cursor
      BY <1>1, <1>2, ScanRows, Zenon
    <2>2. ASSUME NEW x \in (c + 1)..cursor PROVE Settled(x)'
      <3>1. Settled(x) /\ x \in Nat /\ unwritten \in Nat
        BY <1>1, <1>2, <1>5, ScanRows, Shape
      <3>2. CASE x \in queued
        BY <1>2, <3>2 DEF Settled
      <3>3. CASE unwritten # 0 /\ unwritten <= x
        <4>1. unwritten' # 0 /\ unwritten' <= x
          BY <1>10, <3>1, <3>3
        <4>2. QED BY <4>1 DEF Settled
      <3>4. CASE \E j \in DOMAIN s : s[j].task = x
        <4>1. PICK j \in DOMAIN s : s[j].task = x
          BY <3>4
        <4>2. CASE j <= d
          BY <1>2, <4>1, <4>2 DEF Settled
        <4>3. CASE ~(j <= d)
          <5>1. j \in Pending
            <6>1. j \in (d + 1)..Len(s)
              <7> HIDE DEF s, d
              <7>1. QED BY <1>5, <4>1, <4>3
            <6>2. QED BY <6>1 DEF Pending
          <5>2. y <= x
            BY <1>4, <4>1, <5>1
          <5>3. unwritten' <= x
            <6> HIDE DEF y
            <6>1. QED BY <1>9, <1>10, <3>1, <5>2
          <5>4. QED BY <1>10, <5>3 DEF Settled
        <4>4. QED BY <4>2, <4>3
      <3>5. QED BY <3>1, <3>2, <3>3, <3>4 DEF Settled
    <2>3. unwritten' \in {0} \cup (c + 1)..cursor
      BY <1>8, <1>10, <2>1
    <2>4. QED BY <1>2, <2>1, <2>2, <2>3 DEF RowsInv
  <1>12. unwritten' \in 0..NumTasks
    BY <1>3, <1>9, <1>10
  <1>13. QED BY <1>1, <1>2, <1>3, <1>11, <1>12, ScanStep, Zenon

\* Between the runs: a file is removed or replaced, or a new snapshot is made.
LEMMA DownStep == FilesInv /\ (Operator \/ NewSnapshot) => FilesInv'
  <1>1. SUFFICES ASSUME FilesInv, Operator \/ NewSnapshot PROVE FilesInv'
    OBVIOUS
  <1>2. /\ pc = "down"
        /\ UNCHANGED <<pc, seq, append, stream, onDisk, cursor, queued, unwritten>>
    BY <1>1 DEF Operator, NewSnapshot, streamVars, runVars
  <1>3. \A k \in Kinds : ~HasOpen(k) /\ ~HasOpen(k)'
    BY <1>2, Places
  <1>4. StreamInv' /\ RowsInv'
    <2>1. \A k \in Kinds : stream[k] = <<>> /\ onDisk[k] = 0
      BY <1>1, <1>3 DEF FilesInv, StreamInv
    <2>2. "scan" \in Kinds /\ pc' \notin Scanning
      BY <1>2, Places
    <2>3. QED BY <1>2, <1>3, <2>1, <2>2, NoRowsNext DEF StreamInv
  <1>8. queued = {} /\ unwritten = 0 /\ pc \notin Scanning
    BY <1>1, <1>2, Places DEF FilesInv, RunInv
  <1>5. CASE Operator
    <2>1. PICK k \in Kinds, n \in 0..MaxSeq, lines \in {Nil, <<>>, <<Mark("older")>>} :
            files' = [files EXCEPT ![k] = [files[k] EXCEPT ![n] = lines]]
      BY <1>5 DEF Operator
    <2>2. lost' = TRUE /\ UNCHANGED <<saved, told, tears>>
      BY <1>5 DEF Operator
    <2>3. files \in [Kinds -> [0..MaxSeq -> {Nil} \cup Seq(Records)]]
      BY <1>1 DEF FilesInv, FilesTypeOK
    <2>4. lines \in {Nil} \cup Seq(Records) /\ (lines # Nil => HeadedOnce(lines))
      <3>1. CASE lines = Nil
        BY <3>1
      <3>2. CASE lines = <<Mark("older")>>
        <4> DEFINE m == Mark("older")
        <4>1. m \in Records /\ m.task = 0
          BY MarkFacts
        <4> HIDE DEF m
        <4>2. <<m>> \in Seq(Records) /\ DOMAIN <<m>> = {1} /\ <<m>>[1] = m
          BY <4>1
        <4>3. HeadedOnce(<<m>>)
          BY <4>1, <4>2 DEF HeadedOnce
        <4>4. QED BY <3>2, <4>2, <4>3 DEF m
      <3>3. CASE lines = <<>>
        BY <3>3 DEF HeadedOnce
      <3>4. QED BY <3>1, <3>2, <3>3
    <2>5. files' \in [Kinds -> [0..MaxSeq -> {Nil} \cup Seq(Records)]]
      BY <2>1, <2>3, <2>4
    <2>6. \A j \in Kinds, i \in 0..MaxSeq : files'[j][i] = files[j][i] \/ files'[j][i] = lines
      BY <2>1, <2>3
    <2>7. HeaderInv'
      BY <1>1, <2>4, <2>6 DEF FilesInv, HeaderInv
    <2>8. FilesTypeOK'
      BY <1>1, <1>2, <2>2, <2>5 DEF FilesInv, FilesTypeOK
    <2>9. RunInv' /\ CostInv'
      BY <1>1, <1>2, <2>2 DEF FilesInv, RunInv, CostInv
    <2>10. QED BY <1>4, <2>7, <2>8, <2>9 DEF FilesInv
  <1>6. CASE NewSnapshot
    <2>1. /\ saved' = [seq |-> Nil, next |-> 0] /\ told' = saved' /\ tears' = 0 /\ lost' = FALSE
          /\ files' = files
      BY <1>6 DEF NewSnapshot, fileVars
    <2>2. saved'.seq = Nil /\ saved'.next = 0
      BY <2>1
    <2>3. FilesTypeOK'
      <3>1. saved' \in [seq : {Nil} \cup 0..MaxSeq, next : 0..NumTasks]
        BY <2>1, FilesAssumption
      <3>2. lost' \in BOOLEAN /\ tears' \in Nat
        BY <2>1
      <3>3. QED BY <1>1, <1>2, <2>1, <3>1, <3>2 DEF FilesInv, FilesTypeOK
    <2>4. RunInv' /\ CostInv'
      BY <1>2, <1>8, <2>1, <2>2 DEF RunInv, CostInv
    <2>5. HeaderInv'
      BY <1>1, <2>1 DEF FilesInv, HeaderInv
    <2>6. QED BY <1>4, <2>3, <2>4, <2>5 DEF FilesInv
  <1>7. QED BY <1>1, <1>5, <1>6

\* A step that touches neither the files nor the run.
LEMMA IdleStep == FilesInv /\ (NoNameLeft \/ UNCHANGED vars) => FilesInv'
  <1>1. SUFFICES ASSUME FilesInv, NoNameLeft \/ UNCHANGED vars PROVE FilesInv'
    OBVIOUS
  <1>2. UNCHANGED <<files, saved, pc, seq, append, stream, onDisk, cursor, queued, unwritten, told, tears, lost>>
    BY <1>1 DEF NoNameLeft, vars, fileVars, streamVars, runVars, histVars
  <1>3. \A k \in Kinds : HasOpen(k)' <=> HasOpen(k)
    BY <1>2, Places
  <1>4. FilesTypeOK' /\ HeaderInv' /\ CostInv'
    BY <1>1, <1>2 DEF FilesInv, FilesTypeOK, HeaderInv, CostInv
  <1>5. RunInv' /\ StreamInv'
    BY <1>1, <1>2, <1>3 DEF FilesInv, RunInv, StreamInv
  <1>6. RowsInv'
    BY <1>1, <1>2, <1>3, Places DEF FilesInv, RowsInv, Settled
  <1>7. QED BY <1>4, <1>5, <1>6 DEF FilesInv

-----------------------------------------------------------------------------
(* Every end of a run *)

\* The last row that counts: all rows after a clean end, and after a failure those
\* that were flushed.
Told == IF pc = "failed" THEN onDisk["scan"] ELSE Len(stream["scan"])

\* Where the cursor goes when nothing is waited for any more: behind no task without a
\* row that counts.
LEMMA RewindFacts ==
    ASSUME FilesInv, pc \in Scanning, queued = {}
    PROVE  /\ RewindUnwritten \in Nat /\ saved.next <= RewindUnwritten /\ RewindUnwritten <= NumTasks
           /\ Told \in Nat /\ Told <= Len(stream["scan"])
           /\ Rows(stream["scan"], Told, saved.next, RewindUnwritten)
  <1> DEFINE s == stream["scan"]
             c == saved.next
             m == RewindUnwritten
  <1>1. /\ s \in Seq(Records) /\ DOMAIN s = 1..Len(s) /\ Len(s) \in Nat /\ onDisk["scan"] \in Nat
        /\ c \in Nat /\ cursor \in Nat /\ unwritten \in Nat /\ NumTasks \in Nat /\ cursor <= NumTasks
    BY Shape
  <1>2. /\ onDisk["scan"] <= Len(s) /\ c <= cursor /\ unwritten \in {0} \cup (c + 1)..cursor
        /\ \A t \in (c + 1)..cursor : Settled(t)
    BY ScanRows, Zenon
  <1>3. Told \in Nat /\ Told <= Len(s) /\ (pc = "failed" => Told = onDisk["scan"])
        /\ (pc # "failed" => Told = Len(s))
    BY <1>1, <1>2 DEF Told
  <1>4. m = IF unwritten = 0 THEN cursor ELSE unwritten - 1
    BY DEF RewindUnwritten
  <1> HIDE DEF m, c
  <1>5. /\ m \in Nat /\ c <= m /\ m <= NumTasks /\ m <= cursor
        /\ unwritten # 0 => m < unwritten
    BY <1>1, <1>2, <1>4
  <1>6. ASSUME NEW x \in (c + 1)..m PROVE \E i \in 1..Told : s[i].task = x
    <2>1. x \in (c + 1)..cursor /\ ~(unwritten # 0 /\ unwritten <= x)
      BY <1>1, <1>5
    <2>2. PICK i \in DOMAIN s : s[i].task = x /\ (pc = "failed" => i <= onDisk["scan"])
      BY <1>2, <2>1 DEF Settled
    <2>3. i \in 1..Told
      <3> HIDE DEF s
      <3>1. i \in 1..Len(s)
        BY <1>1, <2>2
      <3>2. CASE pc = "failed"
        BY <1>1, <1>3, <2>2, <3>1, <3>2
      <3>3. CASE pc # "failed"
        BY <1>1, <1>3, <3>1, <3>3
      <3>4. QED BY <3>2, <3>3
    <2>4. QED BY <2>2, <2>3
  <1>7. QED BY <1>3, <1>5, <1>6 DEF Rows, m, c

\* What a run that saves, or need not, leaves as its progress.
Progress ==
    \/ UNCHANGED <<saved, told>>
    \/ /\ told' = [seq |-> seq, next |-> RewindUnwritten]
       /\ saved' = told' \/ (saved' = saved /\ RewindUnwritten = NumTasks)

\* How a run can end: before it scans or by a kill, with nothing told; or with a
\* summary, after everything was given back.
LEMMA Ends ==
    ASSUME FilesInv, StartFails \/ Finish \/ FinishFailed \/ Kill
    PROVE  \E n, cut :
             /\ Leavable(n, cut) /\ Leave(n, cut) /\ pc # "down"
             /\ \/ UNCHANGED <<saved, told, reported>>
                \/ /\ pc \in Scanning /\ queued = {} /\ Progress /\ Told <= n["scan"]
                   /\ \/ pc = "failed" /\ reported' = summary
                      \/ pc # "failed" /\ reported' = Counted /\ cut["scan"] = "none"
                         /\ n["scan"] = Len(stream["scan"])
  <1>1. ASSUME Persist PROVE Progress
    BY <1>1 DEF Persist, Progress
  <1>2. CASE StartFails \/ Kill
    <2>1. LeaveSome /\ UNCHANGED <<saved, told, reported>> /\ pc # "down"
      BY <1>2, Places DEF StartFails, Kill
    <2>2. QED BY <2>1, SomeLeavable, Zenon
  <1>3. CASE FinishFailed
    <2>1. /\ LeaveSome /\ Persist /\ pc = "failed" /\ pc # "down" /\ pc \in Scanning /\ queued = {}
          /\ reported' = summary
      BY <1>3, Places DEF FinishFailed, CountOnFailure
    <2>2. PICK n, cut : Leavable(n, cut) /\ Leave(n, cut) /\ \A k \in Kinds : n[k] >= onDisk[k]
      BY <2>1, SomeLeavable, Zenon
    <2>3. Told <= n["scan"]
      <3>1. n["scan"] >= onDisk["scan"] /\ n["scan"] \in Nat
        BY <2>2, Places DEF Leavable
      <3>2. Told = onDisk["scan"] /\ onDisk["scan"] \in Nat
        BY <2>1, Shape DEF Told
      <3>3. QED BY <3>1, <3>2
    <2>4. QED BY <1>1, <2>1, <2>2, <2>3, Zenon
  <1>4. CASE Finish
    <2> DEFINE n == [k \in Kinds |-> Len(stream[k])]
               cut == [k \in Kinds |-> "none"]
    <2>1. /\ Leave(n, cut) /\ Persist /\ pc \in Scanning /\ pc # "down" /\ pc # "failed" /\ queued = {}
          /\ reported' = Counted
      BY <1>4, Places DEF Finish
    <2>2. \A k \in Kinds : Len(stream[k]) \in Nat
      <3>1. \A k \in Kinds : stream[k] \in Seq(Records)
        BY DEF FilesInv, FilesTypeOK
      <3>2. QED BY <3>1
    <2>3. n["scan"] = Len(stream["scan"]) /\ cut["scan"] = "none" /\ Told <= n["scan"]
      <3>1. "scan" \in Kinds
        BY Places
      <3>2. n["scan"] = Len(stream["scan"]) /\ cut["scan"] = "none"
        BY <3>1
      <3>3. Told = Len(stream["scan"])
        BY <2>1 DEF Told
      <3> HIDE DEF n, cut
      <3>4. Told <= n["scan"]
        BY <2>2, <3>1, <3>2, <3>3
      <3>5. QED BY <3>2, <3>4
    <2>4. Leavable(n, cut)
      <3>1. "none" # "bare" /\ "none" \in Cuts
        BY DEF Cuts
      <3>2. \A k \in Kinds : n[k] <= Len(stream[k]) /\ cut[k] = "none"
        BY <2>2
      <3>3. n \in [Kinds -> Nat] /\ cut \in [Kinds -> Cuts]
        BY <2>2, <3>1
      <3> HIDE DEF n, cut
      <3>4. QED BY <3>1, <3>2, <3>3 DEF Leavable
    <2> HIDE DEF n, cut
    <2>5. QED BY <1>1, <2>1, <2>3, <2>4, Zenon
  <1>5. QED BY <1>2, <1>3, <1>4

\* However a run ends, the invariant holds.
LEMMA EndStep == FilesInv /\ (StartFails \/ Finish \/ FinishFailed \/ Kill) => FilesInv'
  <1>1. SUFFICES ASSUME FilesInv, StartFails \/ Finish \/ FinishFailed \/ Kill PROVE FilesInv'
    OBVIOUS
  <1>2. PICK n, cut :
          /\ Leavable(n, cut) /\ Leave(n, cut) /\ pc # "down"
          /\ \/ UNCHANGED <<saved, told, reported>>
             \/ pc \in Scanning /\ queued = {} /\ Progress /\ Told <= n["scan"]
    BY <1>1, Ends, Zenon
  <1>3. CASE UNCHANGED <<saved, told>>
    BY <1>1, <1>2, <1>3, UnsavedStep, Zenon
  <1>4. CASE /\ pc \in Scanning /\ queued = {} /\ Told <= n["scan"]
             /\ told' = [seq |-> seq, next |-> RewindUnwritten]
             /\ saved' = told' \/ (saved' = saved /\ RewindUnwritten = NumTasks)
    <2> DEFINE m == RewindUnwritten
               a == n["scan"]
    <2>1. /\ m \in Nat /\ saved.next <= m /\ m <= NumTasks
          /\ Told \in Nat /\ Rows(stream["scan"], Told, saved.next, m)
      BY <1>1, <1>4, RewindFacts
    <2>2. a \in Nat /\ Told <= a
      BY <1>2, <1>4, Places DEF Leavable
    <2>3. \A i \in 1..Told : i \in 1..a
      <3> HIDE DEF a
      <3>1. QED BY <2>1, <2>2
    <2>4. Rows(stream["scan"], a, saved.next, m)
      BY <2>1, <2>3 DEF Rows
    <2>5. told' = [seq |-> seq, next |-> m] /\ (saved' = told' \/ (saved' = saved /\ m = NumTasks))
      BY <1>4
    <2> HIDE DEF m
    <2>6. QED BY <1>1, <1>2, <1>4, <2>1, <2>4, <2>5, SavedStep, Zenon DEF a
  <1>5. QED BY <1>2, <1>3, <1>4 DEF Progress

-----------------------------------------------------------------------------
(* The theorems *)

\* The invariant of the result files holds in every state of every sequence of runs.
THEOREM FilesInvariant == Spec => []FilesInv
  <1>1. FilesInv /\ [Next]_vars => FilesInv'
    <2>1. SUFFICES ASSUME FilesInv, [Next]_vars PROVE FilesInv'
      OBVIOUS
    <2>2. CASE StartFails \/ Finish \/ FinishFailed \/ Kill
      BY <2>1, <2>2, EndStep
    <2>3. CASE Start \/ Dispatch \/ Stop
      BY <2>1, <2>3, StartStep, DispatchStep, StopStep
    <2>4. CASE Commit \/ OutputFails
      BY <2>1, <2>4, CommitStep, FailStep
    <2>5. ASSUME NEW t \in queued, Accept(t) \/ AcceptLate(t) \/ Abandon(t) PROVE FilesInv'
      BY <2>1, <2>5, AcceptStep, MarkStep
    <2>6. CASE \E k \in Kinds : OpenFile(k) \/ WriteHeader(k)
      BY <2>1, <2>6, OpenStep, HeaderStep
    <2>7. CASE Operator \/ NewSnapshot
      BY <2>1, <2>7, DownStep
    <2>8. CASE NoNameLeft \/ UNCHANGED vars
      BY <2>1, <2>8, IdleStep
    <2>9. QED BY <2>1, <2>2, <2>3, <2>4, <2>5, <2>6, <2>7, <2>8 DEF Next, Ended
  <1>2. QED BY <1>1, FilesInit, PTL DEF Spec

\* What a stop may cost: for any number of tasks, runs, failed writes and kills, and
\* whatever the order of the results, the tasks that are left as done and have no
\* readable row are no more than the cut records.
THEOREM BoundedLoss == Spec => []LossIsBounded
  <1>1. FilesInv => LossIsBounded
    <2>1. SUFFICES ASSUME FilesInv, told.seq # Nil, ~lost PROVE Cardinality(Unrecorded) <= tears
      BY DEF LossIsBounded
    <2> DEFINE f == files["scan"][told.seq]
    <2>2. Unrecorded = Missing(f, told.next)
      BY DEF Unrecorded, Missing, TaskHasRow, ToSet
    <2>3. Cardinality(Missing(f, told.next)) + (IF EndsTorn(f) THEN 1 ELSE 0) <= tears
      BY <2>1 DEF FilesInv, CostInv, Cost
    <2>4. told.next \in Nat /\ tears \in Nat
      BY <2>1, Shape
    <2>5. Cardinality(Missing(f, told.next)) \in Nat
      BY <2>4, MissingFinite
    <2> DEFINE c == Cardinality(Missing(f, told.next))
    <2> HIDE DEF f, c
    <2>6. c <= tears
      BY <2>3, <2>4, <2>5 DEF c
    <2>7. QED BY <2>2, <2>6 DEF c
  <1>2. QED BY <1>1, FilesInvariant, PTL

\* A file that holds rows begins with the header of this build and has no other.
THEOREM HeaderOnce == Spec => []OneHeader
  <1>1. FilesInv => OneHeader
    <2>1. SUFFICES ASSUME FilesInv, NEW k \in Kinds, NEW n \in 0..MaxSeq, files[k][n] # Nil,
                          NEW r \in ToSet(files[k][n]), r.task > 0
                   PROVE  /\ Head(files[k][n]) \in {Mark("header"), Mark("glued")}
                          /\ \A i \in 2..Len(files[k][n]) : files[k][n][i] # Mark("header")
      BY DEF OneHeader
    <2> DEFINE f == files[k][n]
    <2>2. f \in Seq(Records)
      BY <2>1 DEF FilesInv, FilesTypeOK
    <2>3. HeadedOnce(f)
      BY <2>1 DEF FilesInv, HeaderInv
    <2>4. PICK i \in DOMAIN f : f[i].task > 0
      BY <2>1 DEF ToSet
    <2> HIDE DEF f
    <2>5. f[1] \in {Mark("header"), Mark("glued")} /\ \A j \in DOMAIN f : j > 1 => f[j] # Mark("header")
      BY <2>3, <2>4 DEF HeadedOnce
    <2>6. Head(f) = f[1] /\ \A j \in 2..Len(f) : j \in DOMAIN f /\ j > 1
      BY <2>2, <2>4
    <2>7. QED BY <2>5, <2>6 DEF f
  <1>2. QED BY <1>1, FilesInvariant, PTL

\* No run takes a record out of a result file.
THEOREM RecordsStay == Spec => RowsStay
  <1>1. FilesInv /\ [Next]_vars =>
          [pc # "down" => \A k \in Kinds, n \in 0..MaxSeq :
              files[k][n] # Nil => Kept(files[k][n], files'[k][n])]_vars
    <2>1. SUFFICES ASSUME FilesInv, [Next]_vars, pc # "down",
                          NEW k \in Kinds, NEW n \in 0..MaxSeq, files[k][n] # Nil
                   PROVE  Kept(files[k][n], files'[k][n])
      OBVIOUS
    <2>2. CASE files' = files
      BY <2>2 DEF Kept
    <2>3. CASE StartFails \/ Finish \/ FinishFailed \/ Kill
      <3>1. PICK c, cut : Leavable(c, cut) /\ Leave(c, cut)
        BY <2>1, <2>3, Ends, Zenon
      <3>2. QED BY <2>1, <3>1, LeaveFiles, Zenon
    <2>4. ASSUME NEW j \in Kinds, OpenFile(j) PROVE Kept(files[k][n], files'[k][n])
      <3>1. files'[k][n] = files[k][n]
        BY <2>1, <2>4, OpenedFacts, Zenon
      <3>2. QED BY <3>1 DEF Kept
    <2>5. CASE \/ Dispatch \/ Stop \/ Commit \/ OutputFails \/ UNCHANGED vars
               \/ \E t \in queued : Accept(t) \/ AcceptLate(t) \/ Abandon(t)
               \/ \E j \in Kinds : WriteHeader(j)
      BY <2>2, <2>5 DEF Dispatch, Stop, Accept, AcceptLate, Abandon, Commit, OutputFails, WriteHeader,
                        vars, fileVars
    <2>6. CASE Start \/ NoNameLeft \/ Operator \/ NewSnapshot
      BY <2>1, <2>6 DEF Start, NoNameLeft, Operator, NewSnapshot
    <2>7. QED BY <2>1, <2>3, <2>4, <2>5, <2>6 DEF Next, Ended
  <1>2. QED BY <1>1, FilesInvariant, PTL DEF Spec, RowsStay


-----------------------------------------------------------------------------
(* Tallies *)

\* Which records a tally counts.
Hits(lines, idx, s) == {i \in idx : lines[i].status = s}

\* A tally is a number.
LEMMA HitsFinite ==
    ASSUME NEW l, NEW a \in Int, NEW b \in Int, NEW s
    PROVE  /\ IsFiniteSet(Hits(l, a..b, s)) /\ Tally(l, a..b, s) = Cardinality(Hits(l, a..b, s))
           /\ Tally(l, a..b, s) \in Nat
  <1>1. IsFiniteSet(a..b)
    BY FS_Interval
  <1>2. Hits(l, a..b, s) \subseteq a..b
    BY DEF Hits
  <1>3. Tally(l, a..b, s) = Cardinality(Hits(l, a..b, s))
    BY DEF Tally, Hits
  <1> HIDE DEF Hits
  <1>4. QED BY <1>1, <1>2, <1>3, FS_Subset, FS_CardinalityType

\* Two sets without a common element.
LEMMA DisjointSum ==
    ASSUME NEW A, IsFiniteSet(A), NEW B, IsFiniteSet(B), A \cap B = {}
    PROVE  /\ IsFiniteSet(A \cup B) /\ Cardinality(A \cup B) = Cardinality(A) + Cardinality(B)
           /\ Cardinality(A) \in Nat /\ Cardinality(B) \in Nat
  <1>1. Cardinality(A) \in Nat /\ Cardinality(B) \in Nat /\ Cardinality({}) = 0
    BY FS_CardinalityType, FS_EmptySet
  <1>2. /\ IsFiniteSet(A \cup B)
        /\ Cardinality(A \cup B) = Cardinality(A) + Cardinality(B) - Cardinality(A \cap B)
    BY FS_Union
  <1>3. Cardinality(A \cap B) = 0
    BY <1>1, Zenon
  <1>4. QED BY <1>1, <1>2, <1>3

\* The tally of the first b records from that of the first a of them.
LEMMA TallySplit ==
    ASSUME NEW l, NEW a \in Nat, NEW b \in Nat, a <= b, NEW s
    PROVE  /\ Tally(l, 1..b, s) = Tally(l, 1..a, s) + Tally(l, (a + 1)..b, s)
           /\ Tally(l, 1..a, s) <= Tally(l, 1..b, s)
  <1> DEFINE A == Hits(l, 1..a, s)
             B == Hits(l, (a + 1)..b, s)
             C == Hits(l, 1..b, s)
  <1>1. /\ IsFiniteSet(A) /\ IsFiniteSet(B)
        /\ Tally(l, 1..a, s) = Cardinality(A) /\ Tally(l, (a + 1)..b, s) = Cardinality(B)
        /\ Tally(l, 1..b, s) = Cardinality(C)
    <2>1. 1 \in Int /\ a \in Int /\ b \in Int /\ a + 1 \in Int
      OBVIOUS
    <2>2. QED BY <2>1, HitsFinite
  <1>2. (1..a) \cup ((a + 1)..b) = 1..b /\ (1..a) \cap ((a + 1)..b) = {}
    OBVIOUS
  <1>3. C = A \cup B /\ A \cap B = {}
    BY <1>2 DEF Hits
  <1> HIDE DEF A, B, C
  <1>4. /\ Cardinality(C) = Cardinality(A) + Cardinality(B)
        /\ Cardinality(A) \in Nat /\ Cardinality(B) \in Nat
    BY <1>1, <1>3, DisjointSum
  <1>5. QED BY <1>1, <1>4

\* Records that agree where one counts have the same tally.
LEMMA TallySame ==
    ASSUME NEW l, NEW g, NEW idx, \A i \in idx : g[i] = l[i], NEW s
    PROVE  Tally(g, idx, s) = Tally(l, idx, s)
  <1>1. {i \in idx : g[i].status = s} = {i \in idx : l[i].status = s}
    OBVIOUS
  <1>2. QED BY <1>1, Zenon DEF Tally

\* A tally that finds nothing.
LEMMA TallyNone ==
    ASSUME NEW l, NEW idx, NEW s, \A i \in idx : l[i].status # s
    PROVE  Tally(l, idx, s) = 0
  <1>1. {i \in idx : l[i].status = s} = {}
    OBVIOUS
  <1>2. QED BY <1>1, FS_EmptySet, Zenon DEF Tally

\* A row that does not count makes no difference.
LEMMA MarkStatus ==
    /\ \A m : Mark(m).status = m
    /\ \A m \in {"header", "torn", "bare", "glued", "older"} : m \notin Statuses
    /\ \A r \in Unended : r.status \notin Statuses
  <1>1. \A m : Mark(m).status = m
    BY DEF Mark
  <1>2. \A m \in {"header", "torn", "bare", "glued", "older"} : m \notin Statuses
    BY DEF Statuses
  <1>3. QED BY <1>1, <1>2 DEF Unended

\* What reaches the disk has the tally of the records that were flushed whole.
LEMMA TallyPart ==
    ASSUME NEW l \in Seq(Records), NEW n \in 0..Len(l), NEW cut \in Cuts, NEW s \in Statuses
    PROVE  RowCount(Part(l, n, cut), s) = Tally(l, 1..n, s)
  <1> DEFINE t == Part(l, n, cut)
  <1>1. /\ t \in Seq(Records) /\ Len(t) = (IF cut = "none" THEN n ELSE n + 1)
        /\ \A i \in 1..n : t[i] = l[i]
        /\ cut # "none" => t[n + 1] = Mark(cut) /\ Mark(cut) \in Unended
    BY PartFacts, Zenon
  <1>2. n \in Nat
    OBVIOUS
  <1> HIDE DEF t
  <1>3. cut # "none" => t[n + 1].status # s
    BY <1>1, MarkStatus
  <1>4. \A i \in 1..Len(t) : i \in 1..n \/ (cut # "none" /\ i = n + 1)
    BY <1>1, <1>2
  <1>5. \A i \in 1..n : i \in 1..Len(t)
    BY <1>1, <1>2
  <1>6. {i \in 1..Len(t) : t[i].status = s} = {i \in 1..n : l[i].status = s}
    BY <1>1, <1>3, <1>4, <1>5
  <1>7. DOMAIN t = 1..Len(t)
    BY <1>1
  <1>8. QED BY <1>6, <1>7, Zenon DEF RowCount, Tally, t

\* Indices, and others that are moved behind them.
LEMMA MovedSum ==
    ASSUME NEW d \in Nat, NEW A, IsFiniteSet(A), \A i \in A : i <= d,
           NEW B, IsFiniteSet(B), \A i \in B : i \in Nat /\ i >= 1,
           \A i \in A : i \in Nat
    PROVE  LET M == {d + i : i \in B} IN
           /\ Cardinality(A \cup M) = Cardinality(A) + Cardinality(B)
           /\ Cardinality(A) \in Nat /\ Cardinality(B) \in Nat
  <1> DEFINE M == {d + i : i \in B}
             g == [i \in B |-> d + i]
  <1>1. A \cap M = {}
    OBVIOUS
  <1>2. \A x, y \in B : g[x] = g[y] => x = y
    OBVIOUS
  <1>3. \A y \in M : \E x \in B : g[x] = y
    OBVIOUS
  <1>4. g \in [B -> M]
    OBVIOUS
  <1> HIDE DEF g, M
  <1>5. g \in Bijection(B, M)
    BY <1>2, <1>3, <1>4 DEF Bijection, Injection, Surjection, IsInjective
  <1>6. ExistsBijection(B, M)
    BY <1>5 DEF ExistsBijection
  <1>7. IsFiniteSet(M) /\ Cardinality(M) = Cardinality(B)
    BY <1>6, FS_Bijection
  <1>8. QED BY <1>1, <1>7, DisjointSum DEF M

\* Records that are appended to a file add their tally to it; the first one may be lost
\* on a line that was cut.
LEMMA TallyJoined ==
    ASSUME NEW f \in Seq(Records), NEW t \in Seq(Records), NEW s \in Statuses
    PROVE  LET a == RowCount(f, s)
               b == RowCount(t, s)
               c == RowCount(Joined(f, t), s)
           IN  /\ a \in Nat /\ b \in Nat /\ c \in Nat
               /\ c <= a + b /\ a + b <= c + IF EndsTorn(f) THEN 1 ELSE 0
  <1> DEFINE j == Joined(f, t)
             A == Hits(f, 1..Len(f), s)
             B == Hits(t, 1..Len(t), s)
             J == Hits(j, 1..Len(j), s)
  <1>1. /\ j \in Seq(Records)
        /\ ~EndsTorn(f) \/ t = <<>> => Appended(f, t, j)
        /\ EndsTorn(f) /\ t # <<>> => Glued(f, t, j)
    BY JoinedFacts, Zenon
  <1>2. /\ DOMAIN f = 1..Len(f) /\ Len(f) \in Nat /\ DOMAIN t = 1..Len(t) /\ Len(t) \in Nat
        /\ DOMAIN j = 1..Len(j) /\ Len(j) \in Nat
    BY <1>1
  <1>3. /\ RowCount(f, s) = Cardinality(A) /\ RowCount(t, s) = Cardinality(B)
        /\ RowCount(j, s) = Cardinality(J)
        /\ IsFiniteSet(A) /\ IsFiniteSet(B) /\ RowCount(f, s) \in Nat /\ RowCount(t, s) \in Nat
        /\ RowCount(j, s) \in Nat
    <2>1. 1 \in Int /\ Len(f) \in Int /\ Len(t) \in Int /\ Len(j) \in Int
      BY <1>2
    <2>2. QED BY <1>2, <2>1, HitsFinite DEF RowCount
  <1>4. SUFFICES /\ Cardinality(J) <= Cardinality(A) + Cardinality(B)
                 /\ Cardinality(A) + Cardinality(B) <= Cardinality(J) + IF EndsTorn(f) THEN 1 ELSE 0
    BY <1>3
  <1> HIDE DEF j
  <1>5. CASE Appended(f, t, j)
    <2> DEFINE d == Len(f)
               M == {d + i : i \in B}
    <2>1. J = A \cup M
      <3>1. /\ \A i \in 1..Len(f) : i \in 1..Len(j) /\ j[i] = f[i]
            /\ \A i \in 1..Len(t) : d + i \in 1..Len(j) /\ j[d + i] = t[i]
            /\ \A i \in 1..Len(j) : i \in 1..Len(f) \/ (i - d \in 1..Len(t) /\ d + (i - d) = i)
        BY <1>2, <1>5 DEF Appended
      <3> HIDE DEF d
      <3>2. ASSUME NEW i \in J PROVE i \in A \cup M
        <4>1. i \in 1..Len(j) /\ j[i].status = s
          BY <3>2 DEF Hits
        <4>2. CASE i \in 1..Len(f)
          BY <3>1, <4>1, <4>2 DEF Hits
        <4>3. CASE i - d \in 1..Len(t) /\ d + (i - d) = i
          <5>1. j[d + (i - d)] = t[i - d]
            BY <3>1, <4>3
          <5>2. t[i - d].status = s
            BY <4>1, <4>3, <5>1
          <5>3. i - d \in B
            BY <4>3, <5>2 DEF Hits
          <5>4. QED BY <4>3, <5>3
        <4>4. QED BY <3>1, <4>1, <4>2, <4>3
      <3>3. A \subseteq J /\ M \subseteq J
        BY <3>1 DEF Hits
      <3>4. QED BY <3>2, <3>3
    <2>2. /\ \A i \in A : i <= d /\ i \in Nat
          /\ \A i \in B : i \in Nat /\ i >= 1
      BY <1>2 DEF Hits
    <2>3. d \in Nat
      BY <1>2
    <2> HIDE DEF A, B, J, d
    <2>4. Cardinality(J) = Cardinality(A) + Cardinality(B) /\ Cardinality(A) \in Nat /\ Cardinality(B) \in Nat
      BY <1>3, <2>1, <2>2, <2>3, MovedSum
    <2>5. QED BY <2>4
  <1>6. CASE Glued(f, t, j) /\ EndsTorn(f) /\ t # <<>>
    <2> DEFINE d == Len(f) - 1
               E == B \ {1}
               M == {d + i : i \in E}
    <2>1. f[Len(f)].status # s /\ j[Len(f)].status # s /\ Len(f) > 0 /\ Len(t) > 0
      <3>1. Len(f) > 0 /\ f[Len(f)] \in Unended /\ Len(t) > 0
        BY <1>2, <1>6, UnendedFacts
      <3>2. j[Len(f)] = Mark("torn") \/ j[Len(f)] = Mark("glued")
        BY <1>6 DEF Glued
      <3>3. QED BY <3>1, <3>2, MarkStatus
    <2>2. d \in Nat /\ Len(f) = d + 1
      BY <1>2, <2>1
    <2>3. J = A \cup M
      <3>1. /\ \A i \in 1..d : i \in 1..Len(j) /\ i \in 1..Len(f) /\ j[i] = f[i]
            /\ \A i \in 2..Len(t) : d + i \in 1..Len(j) /\ j[d + i] = t[i]
        <4>1. /\ Len(j) = Len(f) + Len(t) - 1
              /\ \A i \in 1..(Len(f) - 1) : j[i] = f[i]
              /\ \A i \in 2..Len(t) : j[Len(f) + i - 1] = t[i]
          BY <1>6 DEF Glued
        <4>2. \A i \in 2..Len(t) : d + i = Len(f) + i - 1
          BY <1>2
        <4>3. QED BY <1>2, <2>1, <4>1, <4>2
      <3>2. /\ \A i \in 1..Len(j) : i \in 1..d \/ i = Len(f) \/ (i - d \in 2..Len(t) /\ d + (i - d) = i)
            /\ \A i \in 1..Len(f) : i \in 1..d \/ i = Len(f)
            /\ \A i \in 1..Len(t) : i # 1 => i \in 2..Len(t)
            /\ \A i \in 2..Len(t) : i # 1 /\ i \in 1..Len(t)
        <4>1. Len(j) = Len(f) + Len(t) - 1
          BY <1>6 DEF Glued
        <4> DEFINE a == Len(f)
                   b == Len(t)
                   c == Len(j)
        <4>2. a \in Nat /\ b \in Nat /\ c = a + b - 1 /\ d = a - 1 /\ a > 0 /\ b > 0
          BY <1>2, <2>1, <4>1
        <4> HIDE DEF a, b, c, d
        <4>3. ASSUME NEW i \in 1..c PROVE i \in 1..d \/ i = a \/ (i - d \in 2..b /\ d + (i - d) = i)
          BY <4>2
        <4>4. ASSUME NEW i \in 1..a PROVE i \in 1..d \/ i = a
          BY <4>2
        <4>5. ASSUME NEW i \in 1..b PROVE i # 1 => i \in 2..b
          BY <4>2
        <4>6. ASSUME NEW i \in 2..b PROVE i # 1 /\ i \in 1..b
          BY <4>2
        <4>7. QED BY <4>3, <4>4, <4>5, <4>6 DEF a, b, c
      <3> HIDE DEF d
      <3>3. ASSUME NEW i \in J PROVE i \in A \cup M
        <4>1. i \in 1..Len(j) /\ j[i].status = s
          BY <3>3 DEF Hits
        <4>2. CASE i \in 1..d
          BY <3>1, <4>1, <4>2 DEF Hits
        <4>3. CASE i - d \in 2..Len(t) /\ d + (i - d) = i
          <5>1. j[d + (i - d)] = t[i - d]
            BY <3>1, <4>3
          <5>2. t[i - d].status = s
            BY <4>1, <4>3, <5>1
          <5>3. i - d \in E
            BY <3>2, <4>3, <5>2 DEF Hits
          <5>4. QED BY <4>3, <5>3
        <4>4. QED BY <2>1, <3>2, <4>1, <4>2, <4>3
      <3>4. A \subseteq J
        BY <2>1, <3>1, <3>2 DEF Hits
      <3>5. M \subseteq J
        BY <3>1, <3>2 DEF Hits
      <3>6. QED BY <3>3, <3>4, <3>5
    <2>4. \A i \in A : i <= d /\ i \in Nat
      <3>1. ASSUME NEW i \in 1..Len(f), i # Len(f) PROVE i <= d /\ i \in Nat
        <4> DEFINE a == Len(f)
        <4>1. a \in Nat /\ d = a - 1 /\ i \in 1..a /\ i # a
          BY <1>2, <3>1
        <4> HIDE DEF a, d
        <4>2. QED BY <4>1
      <3> HIDE DEF d
      <3>2. QED BY <2>1, <3>1 DEF Hits
    <2>5. \A i \in E : i \in Nat /\ i >= 1
      BY <1>2 DEF Hits
    <2>6. /\ IsFiniteSet(E)
          /\ Cardinality(E) = IF 1 \in B THEN Cardinality(B) - 1 ELSE Cardinality(B)
      <3> HIDE DEF B
      <3>1. QED BY <1>3, FS_RemoveElement
    <2> HIDE DEF A, B, J, d, E
    <2>7. Cardinality(J) = Cardinality(A) + Cardinality(E) /\ Cardinality(A) \in Nat /\ Cardinality(E) \in Nat
      BY <1>3, <2>2, <2>3, <2>4, <2>5, <2>6, MovedSum
    <2>8. Cardinality(B) \in Nat
      BY <1>3, FS_CardinalityType
    <2>9. Cardinality(E) <= Cardinality(B) /\ Cardinality(B) <= Cardinality(E) + 1
      BY <2>6, <2>7, <2>8
    <2>10. QED BY <1>6, <2>7, <2>8, <2>9
  <1>7. QED BY <1>1, <1>5, <1>6

\* Every outcome of a probe has a status of the summary.
LEMMA KnownStatus == \A err : ScanTCP(err) \in Statuses
  <1>1. \A o : StatusForOutcome(o) \in {"open", "close", "close(timeout)", "error(local)", "unknown"}
    BY Zenon DEF StatusForOutcome
  <1>2. QED BY <1>1 DEF ScanTCP, Statuses

\* The tallies of all statuses count the records that have one.
LEMMA TallyTotal ==
    ASSUME NEW l, NEW b \in Nat
    PROVE  LET D == {i \in 1..b : l[i].status \in Statuses} IN
           IsFiniteSet(D) /\ Total([s \in Statuses |-> Tally(l, 1..b, s)]) = Cardinality(D)
  <1> DEFINE D == {i \in 1..b : l[i].status \in Statuses}
             H(s) == Hits(l, 1..b, s)
             s1 == "open"
             s2 == "close"
             s3 == "close(timeout)"
             s4 == "error(local)"
             s5 == "unknown"
  <1>4. Statuses = {s1, s2, s3, s4, s5}
    BY DEF Statuses
  <1>6. D = (((H(s1) \cup H(s2)) \cup H(s3)) \cup H(s4)) \cup H(s5)
    <2>1. \A i : l[i].status \in Statuses <=> \/ l[i].status = s1 \/ l[i].status = s2 \/ l[i].status = s3
                                              \/ l[i].status = s4 \/ l[i].status = s5
      BY <1>4, Zenon
    <2>2. QED BY <2>1, Zenon DEF Hits
  <1>7. \A s : IsFiniteSet(H(s)) /\ Tally(l, 1..b, s) = Cardinality(H(s)) /\ Cardinality(H(s)) \in Nat
    <2>1. 1 \in Int /\ b \in Int
      OBVIOUS
    <2>2. QED BY <2>1, HitsFinite
  <1>8. \A s, t : s # t => H(s) \cap H(t) = {}
    BY DEF Hits
  <1>9. /\ s1 # s2 /\ s1 # s3 /\ s1 # s4 /\ s1 # s5 /\ s2 # s3 /\ s2 # s4 /\ s2 # s5
        /\ s3 # s4 /\ s3 # s5 /\ s4 # s5
    OBVIOUS
  <1>10. Total([s \in Statuses |-> Tally(l, 1..b, s)]) =
            Cardinality(H(s1)) + Cardinality(H(s2)) + Cardinality(H(s3)) + Cardinality(H(s4)) + Cardinality(H(s5))
    <2> HIDE DEF H
    <2>1. QED BY <1>4, <1>7 DEF Total
  <1> DEFINE A == H(s1)
             B == H(s2)
             C == H(s3)
             E == H(s4)
             F == H(s5)
  <1>11. /\ A \cap B = {} /\ (A \cup B) \cap C = {} /\ ((A \cup B) \cup C) \cap E = {}
         /\ (((A \cup B) \cup C) \cup E) \cap F = {}
    <2>1. /\ A \cap B = {} /\ A \cap C = {} /\ A \cap E = {} /\ A \cap F = {} /\ B \cap C = {}
          /\ B \cap E = {} /\ B \cap F = {} /\ C \cap E = {} /\ C \cap F = {} /\ E \cap F = {}
      BY <1>8, <1>9, Zenon
    <2> HIDE DEF A, B, C, E, F
    <2>2. QED BY <2>1
  <1>12. /\ IsFiniteSet(A) /\ IsFiniteSet(B) /\ IsFiniteSet(C) /\ IsFiniteSet(E) /\ IsFiniteSet(F)
    BY <1>7
  <1>13. D = (((A \cup B) \cup C) \cup E) \cup F
    BY <1>6
  <1>14. Total([s \in Statuses |-> Tally(l, 1..b, s)]) =
            Cardinality(A) + Cardinality(B) + Cardinality(C) + Cardinality(E) + Cardinality(F)
    BY <1>10
  <1>15. /\ Cardinality(A) \in Nat /\ Cardinality(B) \in Nat /\ Cardinality(C) \in Nat
         /\ Cardinality(E) \in Nat /\ Cardinality(F) \in Nat
    BY <1>7
  <1> HIDE DEF A, B, C, E, F, D
  <1>16. IsFiniteSet(A \cup B) /\ Cardinality(A \cup B) = Cardinality(A) + Cardinality(B)
    BY <1>11, <1>12, DisjointSum
  <1>17. /\ IsFiniteSet((A \cup B) \cup C)
         /\ Cardinality((A \cup B) \cup C) = Cardinality(A \cup B) + Cardinality(C)
    BY <1>11, <1>12, <1>16, DisjointSum
  <1>18. /\ IsFiniteSet(((A \cup B) \cup C) \cup E)
         /\ Cardinality(((A \cup B) \cup C) \cup E) = Cardinality((A \cup B) \cup C) + Cardinality(E)
    BY <1>11, <1>12, <1>17, DisjointSum
  <1>19. IsFiniteSet(D) /\ Cardinality(D) = Cardinality(((A \cup B) \cup C) \cup E) + Cardinality(F)
    BY <1>11, <1>12, <1>13, <1>18, DisjointSum
  <1>20. QED BY <1>14, <1>15, <1>16, <1>17, <1>18, <1>19 DEF D

\* Where each of the tasks c + 1..m has a row, the tallies add up to at least as many.
LEMMA TotalCovers ==
    ASSUME NEW l \in Seq(Records), NEW b \in 0..Len(l), NEW c \in Nat, NEW m \in Nat, c <= m,
           Rows(l, b, c, m), \A i \in DOMAIN l : l[i].task > 0 => l[i].status \in Statuses
    PROVE  LET T == Total([s \in Statuses |-> Tally(l, 1..b, s)]) IN T \in Nat /\ m - c <= T
  <1> DEFINE D == {i \in 1..b : l[i].status \in Statuses}
             X == (c + 1)..m
             g == [x \in X |-> CHOOSE i \in 1..b : l[i].task = x]
             T == Total([s \in Statuses |-> Tally(l, 1..b, s)])
  <1>1. IsFiniteSet(D) /\ T = Cardinality(D)
    <2>1. b \in Nat
      OBVIOUS
    <2>2. QED BY <2>1, TallyTotal
  <1>2. \A x \in X : g[x] \in 1..b /\ l[g[x]].task = x
    <2>1. \A x \in X : \E i \in 1..b : l[i].task = x
      BY DEF Rows
    <2>2. QED BY <2>1, Zenon
  <1>3. \A x \in X : g[x] \in D
    <2>1. \A i \in 1..b : i \in DOMAIN l
      OBVIOUS
    <2>2. \A x \in X : x > 0
      OBVIOUS
    <2> HIDE DEF X, g
    <2>3. QED BY <1>2, <2>1, <2>2
  <1>4. IsFiniteSet(X) /\ Cardinality(X) = m - c
    <2> DEFINE a == c + 1
    <2>1. a \in Int /\ m \in Int
      OBVIOUS
    <2> HIDE DEF a
    <2>2. Cardinality(a..m) = (IF a > m THEN 0 ELSE m - a + 1) /\ IsFiniteSet(a..m)
      BY <2>1, FS_Interval
    <2> HIDE DEF X
    <2>3. X = a..m
      BY DEF a, X
    <2>4. (IF a > m THEN 0 ELSE m - a + 1) = m - c
      BY <2>1 DEF a
    <2>5. QED BY <2>2, <2>3, <2>4
  <1>5. g \in [X -> D]
    BY <1>3
  <1> HIDE DEF D, X, T, g
  <1>6. \A x, y \in X : g[x] = g[y] => x = y
    BY <1>2
  <1>7. g \in Injection(X, D)
    BY <1>5, <1>6 DEF Injection, IsInjective
  <1>8. Cardinality(X) <= Cardinality(D)
    BY <1>1, <1>7, FS_Injection
  <1>9. QED BY <1>1, <1>4, <1>8, FS_CardinalityType DEF T

\* Nothing was counted.
LEMMA NoTally == \A l, s : Tally(l, 1..0, s) = 0
  <1>1. 1..0 = {}
    OBVIOUS
  <1>2. \A l, s : {i \in 1..0 : l[i].status = s} = {}
    BY <1>1
  <1>3. QED BY <1>2, FS_EmptySet DEF Tally

-----------------------------------------------------------------------------
(* The summaries *)

\* Every tally that a run may report is a number, and grows with the records.
LEMMA CountedIs ==
    ASSUME FilesInv, CountInv
    PROVE  Counted = [s \in Statuses |-> Tally(stream["scan"], 1..Len(stream["scan"]), s)]
  <1> DEFINE l == stream["scan"]
             a == onDisk["scan"]
             b == Len(l)
  <1>1. a \in Nat /\ b \in Nat /\ a <= b
    BY Shape DEF FilesInv, RowsInv
  <1>2. \A s \in Statuses : summary[s] = Tally(l, 1..a, s)
    BY DEF CountInv
  <1>3. Counted = [s \in Statuses |-> summary[s] + Tally(l, (a + 1)..b, s)]
    BY DEF Counted, Pending
  <1> HIDE DEF l, a, b
  <1>4. \A s : Tally(l, 1..b, s) = Tally(l, 1..a, s) + Tally(l, (a + 1)..b, s)
    BY <1>1, TallySplit
  <1>5. QED BY <1>2, <1>3, <1>4 DEF l, b

\* A state without rows and without a report.
Blank ==
    /\ \A i \in DOMAIN stream["scan"] : stream["scan"][i].task = 0
    /\ onDisk["scan"] = 0 /\ summary = [s \in Statuses |-> 0]

\* It has the empty tally.
LEMMA BlankCount ==
    ASSUME Blank, pc # "down" => reported = Nil PROVE CountInv
  <1>2. \A s : Tally(stream["scan"], 1..onDisk["scan"], s) = 0
    BY NoTally DEF Blank
  <1>3. ~(0 > 0)
    OBVIOUS
  <1>4. QED BY <1>2, <1>3 DEF CountInv, Blank

\* The same for the state that a step leads to.
LEMMA BlankNext ==
    ASSUME Blank', pc' # "down" => reported' = Nil PROVE CountInv'
  <1>2. \A s : Tally(stream'["scan"], 1..onDisk'["scan"], s) = 0
    BY NoTally DEF Blank
  <1>3. ~(0 > 0)
    OBVIOUS
  <1>4. QED BY <1>2, <1>3 DEF CountInv, Blank

\* Before the first run.
LEMMA CountInit == Init => CountInv
  <1>1. SUFFICES ASSUME Init PROVE CountInv
    OBVIOUS
  <1>2. Blank /\ pc = "down"
    <2>1. "scan" \in Kinds
      BY Places
    <2>2. stream["scan"] = <<>> /\ onDisk["scan"] = 0 /\ summary = [s \in Statuses |-> 0] /\ pc = "down"
      BY <1>1, <2>1 DEF Init
    <2>3. \A i \in DOMAIN <<>> : <<>>[i].task = 0
      OBVIOUS
    <2>4. QED BY <2>2, <2>3, Zenon DEF Blank
  <1>3. QED BY <1>2, BlankCount

\* Steps that leave alone what the summaries are about.
LEMMA CountIdle ==
    ASSUME CountInv, UNCHANGED <<summary, stream>>, onDisk'["scan"] = onDisk["scan"],
           pc' # "down" => reported' = Nil
    PROVE  CountInv'
  BY DEF CountInv

\* While no task has a row, nothing is counted.
LEMMA NoneCounted ==
    ASSUME FilesInv, CountInv, \A i \in DOMAIN stream["scan"] : ~(stream["scan"][i].task > 0)
    PROVE  /\ \A s \in Statuses, b \in 0..Len(stream["scan"]) : Tally(stream["scan"], 1..b, s) = 0
           /\ summary = [s \in Statuses |-> 0]
           /\ \A i \in DOMAIN stream["scan"] : stream["scan"][i].task = 0
  <1> DEFINE l == stream["scan"]
  <1>1. /\ l \in Seq(Records) /\ Len(l) \in Nat /\ onDisk["scan"] \in Nat /\ onDisk["scan"] <= Len(l)
        /\ "scan" \in Kinds
    BY Shape, Places DEF FilesInv, RowsInv
  <1>2. ASSUME NEW i \in DOMAIN l PROVE l[i].status \notin Statuses /\ l[i].task = 0
    <2>1. l # <<>> /\ i \in 1..Len(l) /\ HasOpen("scan")
      BY <1>1, <1>2 DEF FilesInv, StreamInv
    <2>2. ~(l[i].task > 0)
      OBVIOUS
    <2>3. /\ \A x \in DOMAIN l : x > 1 => l[x].task > 0
          /\ IF files["scan"][seq] = <<>> THEN l # <<>> /\ l[1] = Mark("header")
             ELSE \A x \in DOMAIN l : l[x].task > 0
      BY <1>1, <2>1 DEF FilesInv, StreamInv
    <2>4. ~(i > 1) /\ files["scan"][seq] = <<>>
      BY <1>2, <2>2, <2>3
    <2>5. i = 1 /\ l[1] = Mark("header")
      BY <2>1, <2>3, <2>4
    <2> HIDE DEF l
    <2>6. l[i] = Mark("header")
      BY <2>5
    <2>7. QED BY <2>6, MarkStatus, MarkFacts
  <1>3. \A s \in Statuses, b \in 0..Len(l) : Tally(l, 1..b, s) = 0
    <2> HIDE DEF l
    <2>1. SUFFICES ASSUME NEW s \in Statuses, NEW b \in 0..Len(l) PROVE Tally(l, 1..b, s) = 0
      OBVIOUS
    <2>2. \A i \in 1..b : i \in DOMAIN l
      BY <1>1
    <2>3. \A i \in 1..b : l[i].status # s
      BY <1>2, <2>2
    <2>4. QED BY <2>3, TallyNone
  <1>4. summary = [s \in Statuses |-> Tally(l, 1..onDisk["scan"], s)]
    BY DEF CountInv
  <1>5. QED BY <1>1, <1>2, <1>3, <1>4

\* Between the runs there is nothing to count.
LEMMA DownBlank ==
    ASSUME FilesInv, CountInv, ~HasOpen("scan")
    PROVE  summary = [s \in Statuses |-> 0] /\ onDisk["scan"] = 0 /\ stream["scan"] = <<>>
  <1>1. stream["scan"] = <<>> /\ onDisk["scan"] = 0
    BY Places DEF FilesInv, StreamInv
  <1>2. \A i \in DOMAIN stream["scan"] : ~(stream["scan"][i].task > 0)
    BY <1>1
  <1>3. QED BY <1>1, <1>2, NoneCounted

\* A run begins with an empty stream.
LEMMA StartCount == FilesInv /\ CountInv /\ Start => CountInv'
  <1>1. SUFFICES ASSUME FilesInv, CountInv, Start PROVE CountInv'
    OBVIOUS
  <1>2. pc = "down" /\ ~HasOpen("scan") /\ "scan" \in Kinds
    BY <1>1, Places DEF Start
  <1>3. PICK n, again : Begin(n, again)
    BY <1>1 DEF Start
  <1>4. stream'["scan"] = <<>> /\ onDisk'["scan"] = 0 /\ summary' = summary /\ reported' = Nil
    BY <1>2, <1>3 DEF Begin, NoStream
  <1>5. Blank'
    <2>1. \A i \in DOMAIN <<>> : <<>>[i].task = 0
      OBVIOUS
    <2>2. summary = [s \in Statuses |-> 0]
      BY <1>1, <1>2, DownBlank
    <2>3. QED BY <1>4, <2>1, <2>2 DEF Blank
  <1>6. QED BY <1>4, <1>5, BlankNext

\* The end of a run.
LEMMA LeaveCount == ASSUME NEW n, NEW cut, Leave(n, cut) PROVE CountInv'
  <1>1. /\ stream'["scan"] = <<>> /\ onDisk'["scan"] = 0 /\ summary' = [s \in Statuses |-> 0]
        /\ pc' = "down"
    BY Places DEF Leave, NoStream
  <1>2. Blank'
    <2>1. \A i \in DOMAIN <<>> : <<>>[i].task = 0
      OBVIOUS
    <2>2. QED BY <1>1, <2>1 DEF Blank
  <1>3. QED BY <1>1, <1>2, BlankNext

\* The header is not counted.
LEMMA OpenCount ==
    ASSUME FilesInv, CountInv, NEW k \in Kinds, OpenFile(k) \/ WriteHeader(k) PROVE CountInv'
  <1>1. summary' = summary /\ reported' = reported /\ pc # "down" /\ reported = Nil
    BY Places DEF OpenFile, WriteHeader, runVars, histVars, CountInv
  <1>2. stream \in [Kinds -> Seq(Records)] /\ onDisk \in [Kinds -> Nat] /\ "scan" \in Kinds
    BY Places DEF FilesInv, FilesTypeOK
  <1>3. CASE k # "scan"
    <2>1. stream'["scan"] = stream["scan"] /\ onDisk'["scan"] = onDisk["scan"]
      BY <1>2, <1>3 DEF OpenFile, WriteHeader
    <2>2. QED BY <1>1, <2>1 DEF CountInv
  <1>4. CASE k = "scan" /\ OpenFile(k)
    <2>1. ~HasOpen("scan") /\ onDisk' = onDisk
      BY <1>4, Places DEF OpenFile
    <2>2. summary = [s \in Statuses |-> 0] /\ onDisk["scan"] = 0
      BY <2>1, DownBlank
    <2>3. stream'["scan"] = <<Mark("header")>> \/ stream'["scan"] = <<>>
      BY <1>2, <1>4 DEF OpenFile
    <2>4. \A i \in DOMAIN stream'["scan"] : stream'["scan"][i].task = 0
      <3> DEFINE m == Mark("header")
      <3>1. m.task = 0
        BY MarkFacts
      <3> HIDE DEF m
      <3>2. \A i \in DOMAIN <<m>> : <<m>>[i].task = 0
        BY <3>1
      <3>3. \A i \in DOMAIN <<>> : <<>>[i].task = 0
        OBVIOUS
      <3>4. QED BY <2>3, <3>2, <3>3 DEF m
    <2>5. Blank'
      BY <1>1, <2>1, <2>2, <2>4 DEF Blank
    <2>6. QED BY <1>1, <2>5, BlankNext
  <1>5. CASE k = "scan" /\ WriteHeader(k)
    <2>1. /\ pc = Heading["scan"] /\ stream' = stream /\ onDisk'["scan"] = Len(stream["scan"])
          /\ pc \notin Scanning /\ pc # "down"
      BY <1>2, <1>5, Places DEF WriteHeader
    <2>2. \A i \in DOMAIN stream["scan"] : ~(stream["scan"][i].task > 0)
      <3>1. cursor = saved.next /\ cursor \in Nat
        BY <2>1, Shape DEF FilesInv, RunInv
      <3>2. \A i \in DOMAIN stream["scan"] :
               stream["scan"][i].task > 0 => stream["scan"][i].task \in (saved.next + 1)..cursor
        BY DEF FilesInv, RowsInv
      <3>3. (saved.next + 1)..cursor = {}
        BY <3>1
      <3>4. QED BY <3>2, <3>3
    <2>3. Len(stream["scan"]) \in 0..Len(stream["scan"])
      BY Shape
    <2>4. /\ summary = [s \in Statuses |-> 0]
          /\ \A s \in Statuses : Tally(stream["scan"], 1..Len(stream["scan"]), s) = 0
      BY <2>2, <2>3, NoneCounted
    <2>5. summary' = [s \in Statuses |-> Tally(stream'["scan"], 1..onDisk'["scan"], s)]
      BY <1>1, <2>1, <2>4
    <2>6. \A i \in DOMAIN stream'["scan"] :
             stream'["scan"][i].task > 0 => stream'["scan"][i].status \in Statuses
      BY <2>1, <2>2
    <2>7. QED BY <1>1, <2>5, <2>6 DEF CountInv
  <1>6. QED BY <1>3, <1>4, <1>5

\* A row that is accepted is not yet counted.
LEMMA AcceptCount == ASSUME FilesInv, CountInv, NEW t \in queued, Accept(t) PROVE CountInv'
  <1> DEFINE l == stream["scan"]
             g == stream'["scan"]
             b == onDisk["scan"]
  <1>1. PICK err \in DialErrors :
          stream' = [k \in Kinds |-> stream[k] \o RowsFor(k, [task |-> t, status |-> ScanTCP(err)])]
    BY DEF Accept
  <1> DEFINE row == [task |-> t, status |-> ScanTCP(err)]
  <1>2. row \in Records /\ row.status \in Statuses
    <2>1. t \in Nat
      <3>1. queued \subseteq 1..NumTasks /\ NumTasks \in Nat
        BY FilesAssumption DEF FilesInv, FilesTypeOK
      <3>2. QED BY <3>1
    <2>2. QED BY <2>1, KnownStatus DEF Records
  <1>3. l \in Seq(Records) /\ "scan" \in Kinds /\ b \in Nat /\ b <= Len(l)
    BY Shape, Places DEF FilesInv, RowsInv
  <1>4. g = l \o <<row>>
    BY <1>1, <1>3 DEF RowsFor
  <1>5. UNCHANGED <<summary, onDisk, reported, pc>> /\ (pc # "down" => reported = Nil)
    BY DEF Accept, histVars, CountInv
  <1>6. \A i \in DOMAIN l : l[i].task > 0 => l[i].status \in Statuses
    BY DEF CountInv
  <1>7. summary = [s \in Statuses |-> Tally(l, 1..b, s)]
    BY DEF CountInv
  <1> HIDE DEF l, g, b, row
  <1>8. /\ DOMAIN g = 1..(Len(l) + 1) /\ DOMAIN l = 1..Len(l) /\ Len(l) \in Nat
        /\ g[Len(l) + 1] = row /\ \A i \in 1..Len(l) : g[i] = l[i]
    BY <1>2, <1>3, <1>4
  <1>9. \A s : Tally(g, 1..b, s) = Tally(l, 1..b, s)
    <2>1. \A i \in 1..b : g[i] = l[i]
      BY <1>3, <1>8
    <2> DEFINE idx == 1..b
    <2>2. \A i \in idx : g[i] = l[i]
      BY <2>1
    <2> HIDE DEF idx
    <2>3. \A s : Tally(g, idx, s) = Tally(l, idx, s)
      BY <2>2, TallySame
    <2>4. QED BY <2>3 DEF idx
  <1>10. \A i \in DOMAIN g : g[i].task > 0 => g[i].status \in Statuses
    <2>1. \A i \in DOMAIN g : i \in DOMAIN l \/ i = Len(l) + 1
      BY <1>8
    <2>2. QED BY <1>2, <1>6, <1>8, <2>1
  <1>11. summary' = [s \in Statuses |-> Tally(g, 1..onDisk'["scan"], s)]
    BY <1>5, <1>7, <1>9 DEF b
  <1>12. QED BY <1>5, <1>10, <1>11 DEF CountInv, g

\* A commit counts the batch.
LEMMA CommitCount == FilesInv /\ CountInv /\ Commit => CountInv'
  <1>1. SUFFICES ASSUME FilesInv, CountInv, Commit PROVE CountInv'
    OBVIOUS
  <1>2. /\ UNCHANGED <<stream, pc, reported>> /\ onDisk'["scan"] = Len(stream["scan"])
        /\ summary' = Counted
    BY <1>1, Places DEF Commit, histVars
  <1>3. Counted = [s \in Statuses |-> Tally(stream["scan"], 1..Len(stream["scan"]), s)]
    BY <1>1, CountedIs
  <1>4. QED BY <1>1, <1>2, <1>3 DEF CountInv

\* Every step keeps the tally.
LEMMA CountStep == FilesInv /\ CountInv /\ [Next]_vars => CountInv'
  <1>1. SUFFICES ASSUME FilesInv, CountInv, [Next]_vars PROVE CountInv'
    OBVIOUS
  <1>2. CASE StartFails \/ Finish \/ FinishFailed \/ Kill
    <2>1. PICK n, cut : Leave(n, cut)
      BY <1>1, <1>2, Ends, Zenon
    <2>2. QED BY <2>1, LeaveCount
  <1>3. CASE Start
    BY <1>1, <1>3, StartCount
  <1>4. CASE Commit
    BY <1>1, <1>4, CommitCount
  <1>5. ASSUME NEW t \in queued, Accept(t) PROVE CountInv'
    BY <1>1, <1>5, AcceptCount
  <1>6. CASE \E k \in Kinds : OpenFile(k) \/ WriteHeader(k)
    BY <1>1, <1>6, OpenCount
  <1>7. CASE \/ Dispatch \/ Stop \/ OutputFails \/ NoNameLeft \/ Operator \/ NewSnapshot \/ UNCHANGED vars
             \/ \E t \in queued : AcceptLate(t) \/ Abandon(t)
    <2>1. UNCHANGED <<summary, stream, onDisk>>
      BY <1>7 DEF Dispatch, Stop, OutputFails, NoNameLeft, Operator, NewSnapshot, AcceptLate, Abandon,
                  vars, runVars, streamVars
    <2>2. pc' # "down" => reported' = Nil
      <3>1. pc # "down" => reported = Nil
        BY <1>1 DEF CountInv
      <3>2. CASE Operator \/ NewSnapshot \/ NoNameLeft
        BY <3>2 DEF Operator, NewSnapshot, NoNameLeft
      <3>3. CASE Dispatch \/ Stop \/ OutputFails \/ UNCHANGED vars
                 \/ \E t \in queued : AcceptLate(t) \/ Abandon(t)
        BY <3>1, <3>3 DEF Dispatch, Stop, OutputFails, AcceptLate, Abandon, vars, histVars
      <3>4. QED BY <1>7, <3>2, <3>3
    <2>3. QED BY <1>1, <2>1, <2>2, CountIdle
  <1>8. QED BY <1>1, <1>2, <1>3, <1>4, <1>5, <1>6, <1>7 DEF Next, Ended

\* The summary at the end of a run counts what the run has added to the file, and at
\* least the tasks over which it moves the cursor.
LEMMA SummaryStep ==
    ASSUME FilesInv, CountInv, StartFails \/ Finish \/ FinishFailed \/ Kill, reported' # Nil
    PROVE  LET old == files["scan"][seq]
               new == files'["scan"][seq]
           IN /\ \A s \in Statuses :
                    /\ reported'[s] <= RowCount(new, s) - RowCount(old, s) + IF EndsTorn(old) THEN 1 ELSE 0
                    /\ pc # "failed" => RowCount(new, s) - RowCount(old, s) <= reported'[s]
              /\ told'.next - told.next <= Total(reported')
  <1>1. PICK n, cut :
          /\ Leavable(n, cut) /\ Leave(n, cut) /\ pc # "down"
          /\ pc \in Scanning /\ queued = {} /\ Progress /\ Told <= n["scan"]
          /\ \/ pc = "failed" /\ reported' = summary
             \/ pc # "failed" /\ reported' = Counted /\ cut["scan"] = "none"
                /\ n["scan"] = Len(stream["scan"])
    <2>1. pc # "down" => reported = Nil
      BY DEF CountInv
    <2>2. ~(UNCHANGED <<saved, told, reported>> /\ pc # "down")
      BY <2>1
    <2>3. QED BY <2>2, Ends, Zenon
  <1> DEFINE l == stream["scan"]
             a == n["scan"]
             b == Told
             t == Part(l, a, cut["scan"])
             old == files["scan"][seq]
             new == files'["scan"][seq]
             R == [s \in Statuses |-> Tally(l, 1..b, s)]
  <1>2. /\ l \in Seq(Records) /\ Len(l) \in Nat /\ a \in 0..Len(l) /\ b \in 0..Len(l) /\ b <= a
        /\ cut["scan"] \in Cuts /\ "scan" \in Kinds
    <2>1. a \in Nat /\ a <= Len(l) /\ cut["scan"] \in Cuts /\ "scan" \in Kinds
      BY <1>1, Places DEF Leavable
    <2>2. b \in Nat /\ b <= Len(l)
      BY <1>1, RewindFacts
    <2>3. QED BY <1>1, <2>1, <2>2, Shape
  <1>3. reported' = R
    <2>1. CASE pc = "failed"
      <3>1. b = onDisk["scan"]
        BY <2>1 DEF Told
      <3>2. summary = [s \in Statuses |-> Tally(l, 1..onDisk["scan"], s)]
        BY DEF CountInv
      <3>3. QED BY <1>1, <2>1, <3>1, <3>2
    <2>2. CASE pc # "failed"
      <3>1. b = Len(l)
        BY <2>2 DEF Told
      <3>2. Counted = [s \in Statuses |-> Tally(l, 1..Len(l), s)]
        BY CountedIs
      <3>3. QED BY <1>1, <2>2, <3>1, <3>2
    <2>3. QED BY <2>1, <2>2
  <1>4. pc # "failed" => a = b
    BY <1>1 DEF Told
  <1>5. old \in Seq(Records) /\ new = Joined(old, t)
    <2>1. files["scan"][seq] # Nil /\ files["scan"][seq] \in {Nil} \cup Seq(Records)
      <3>1. HasOpen("scan")
        BY <1>1, Places
      <3>2. QED BY <1>2, <3>1 DEF FilesInv, FilesTypeOK, StreamInv
    <2>2. QED BY <1>1, <1>2, <2>1, LeaveFiles
  <1>6. t \in Seq(Records)
    BY <1>2, PartFacts, Zenon
  <1>7. ASSUME NEW s \in Statuses
        PROVE  /\ reported'[s] <= RowCount(new, s) - RowCount(old, s) + IF EndsTorn(old) THEN 1 ELSE 0
               /\ pc # "failed" => RowCount(new, s) - RowCount(old, s) <= reported'[s]
    <2>1. RowCount(t, s) = Tally(l, 1..a, s)
      BY <1>2, TallyPart
    <2>2. Tally(l, 1..b, s) <= Tally(l, 1..a, s)
      <3> HIDE DEF l, a, b
      <3>1. a \in Nat /\ b \in Nat
        BY <1>2
      <3>2. QED BY <1>2, <3>1, TallySplit
    <2>3. Tally(l, 1..a, s) \in Nat /\ Tally(l, 1..b, s) \in Nat
      <3> HIDE DEF l, a, b
      <3>1. 1 \in Int /\ a \in Int /\ b \in Int
        BY <1>2
      <3>2. QED BY <3>1, HitsFinite
    <2>4. reported'[s] = Tally(l, 1..b, s)
      BY <1>3
    <2> HIDE DEF l, a, b, t, old, new, R
    <2> DEFINE x == RowCount(old, s)
               y == RowCount(t, s)
               z == RowCount(new, s)
    <2>5. /\ x \in Nat /\ y \in Nat /\ z \in Nat
          /\ z <= x + y /\ x + y <= z + IF EndsTorn(old) THEN 1 ELSE 0
      BY <1>5, <1>6, TallyJoined
    <2>6. y = Tally(l, 1..a, s)
      BY <2>1
    <2> HIDE DEF x, y, z
    <2>7. reported'[s] <= y /\ (pc # "failed" => reported'[s] = y) /\ reported'[s] \in Nat
      BY <1>4, <2>2, <2>3, <2>4, <2>6
    <2>8. QED BY <2>5, <2>7 DEF x, z
  <1>8. told'.next - told.next <= Total(reported')
    <2>1. \A i \in DOMAIN l : l[i].task > 0 => l[i].status \in Statuses
      BY DEF CountInv
    <2>2. told.next = saved.next /\ told.next \in Nat
      BY <1>1, Shape DEF FilesInv, RunInv
    <2> DEFINE m == RewindUnwritten
               c == saved.next
    <2>3. m \in Nat /\ c \in Nat /\ c <= m /\ Rows(l, b, c, m)
      BY <1>1, <2>2, RewindFacts
    <2> HIDE DEF l, a, b, t, old, new, m, c, R
    <2>4. Total(R) \in Nat /\ m - c <= Total(R)
      BY <1>2, <2>1, <2>3, TotalCovers DEF R
    <2>5. told'.next = m \/ told'.next = told.next
      BY <1>1 DEF Progress, m
    <2>6. reported' = R
      BY <1>3 DEF R
    <2>7. Total(reported') = Total(R)
      BY <2>6
    <2> DEFINE T == Total(R)
    <2> HIDE DEF T
    <2>8. T \in Nat /\ m - c <= T /\ c = told.next
      BY <2>2, <2>4 DEF T, c
    <2>9. told'.next - told.next <= T
      BY <2>2, <2>3, <2>5, <2>8
    <2>10. QED BY <2>7, <2>9 DEF T
  <1>9. QED BY <1>7, <1>8

\* What a completion summary says of the run that emits it, for any number of tasks and
\* runs, any order of the results, and any failure.
THEOREM TrueSummaries == Spec => SummaryIsTrue
  <1>1. FilesInv /\ CountInv /\ [Next]_vars =>
          [pc # "down" /\ pc' = "down" /\ reported' # Nil =>
             LET old == files["scan"][seq]
                 new == files'["scan"][seq]
             IN /\ \A s \in Statuses :
                      /\ reported'[s] <= RowCount(new, s) - RowCount(old, s) + IF EndsTorn(old) THEN 1 ELSE 0
                      /\ pc # "failed" => RowCount(new, s) - RowCount(old, s) <= reported'[s]
                /\ told'.next - told.next <= Total(reported')]_vars
    <2>1. SUFFICES ASSUME FilesInv, CountInv, [Next]_vars, pc # "down", pc' = "down", reported' # Nil
                   PROVE  LET old == files["scan"][seq]
                              new == files'["scan"][seq]
                          IN /\ \A s \in Statuses :
                                   /\ reported'[s] <= RowCount(new, s) - RowCount(old, s)
                                                        + IF EndsTorn(old) THEN 1 ELSE 0
                                   /\ pc # "failed" => RowCount(new, s) - RowCount(old, s) <= reported'[s]
                             /\ told'.next - told.next <= Total(reported')
      OBVIOUS
    <2>2. StartFails \/ Finish \/ FinishFailed \/ Kill
      <3>1. ~(Start \/ NoNameLeft \/ Operator \/ NewSnapshot \/ Ended)
        BY <2>1 DEF Start, NoNameLeft, Operator, NewSnapshot, Ended
      <3>2. ~(Dispatch \/ Stop \/ Commit \/ OutputFails \/ UNCHANGED vars)
        BY <2>1 DEF Dispatch, Stop, Commit, OutputFails, vars
      <3>3. ~\E t \in queued : Accept(t) \/ AcceptLate(t) \/ Abandon(t)
        BY <2>1 DEF Accept, AcceptLate, Abandon
      <3>4. ~\E k \in Kinds : OpenFile(k) \/ WriteHeader(k)
        BY <2>1, Places DEF OpenFile, WriteHeader
      <3>5. QED BY <2>1, <3>1, <3>2, <3>3, <3>4 DEF Next
    <2>3. QED BY <2>1, <2>2, SummaryStep
  <1>2. Spec => []CountInv
    BY CountInit, CountStep, FilesInvariant, PTL DEF Spec
  <1>3. QED BY <1>1, <1>2, FilesInvariant, PTL DEF Spec, SummaryIsTrue
=============================================================================
