----------------------------- MODULE SaintProofs -----------------------------
(***************************************************************************)
(* For every set of files, every limit and any number of imports, clears   *)
(* and analyses, in any order and from any number of tabs: the map, the    *)
(* job, the analyses and the session agree, and the session holds the      *)
(* newest passages of each source, as many as its list says.               *)
(***************************************************************************)
EXTENDS SaintPage, FiniteSetTheorems, TLAPS

\* Merging leaves the session as it is, or makes one that has no map.
LEMMA MergedHasNoMap ==
  ASSUME NEW file, NEW all, NEW kept
  PROVE  LET merged == Merged(snapshot, file, all, kept)
         IN merged = snapshot \/ (DOMAIN merged = DOMAIN Empty /\ merged.map = NoMap)
BY DEF Merged, Empty, NoMap

\* A new session has a new generation: what runs on the old one is out of date.
LEMMA ReplaceAgrees ==
  ASSUME SessionAgrees, NEW merged, Replace(merged),
         DOMAIN merged = DOMAIN Empty, merged.map = NoMap, imported' \subseteq File
  PROVE  SessionAgrees'
<1> USE DEF SessionAgrees, Replace
<1>1. \A a \in analyses' : a.generation # generation'
  BY DEF TypeOK, AnalysesAgree
<1>2. TypeOK'
  BY DEF TypeOK
<1>3. MapOfSession'
  BY DEF MapOfSession
<1>4. JobTruthful'
  BY <1>1 DEF JobTruthful
<1>5. AnalysesAgree'
  BY <1>1 DEF AnalysesAgree, TypeOK
<1> QED
  BY <1>2, <1>3, <1>4, <1>5

LEMMA InitAgrees == Init => SessionAgrees
<1> SUFFICES ASSUME Init PROVE SessionAgrees
  OBVIOUS
<1> USE DEF Init
<1>1. TypeOK
  BY DEF TypeOK
<1>2. MapOfSession
  BY DEF MapOfSession, Empty
<1>3. JobTruthful
  BY DEF JobTruthful
<1>4. AnalysesAgree
  BY DEF AnalysesAgree
<1> QED
  BY <1>1, <1>2, <1>3, <1>4 DEF SessionAgrees

LEMMA ImportAgrees ==
  ASSUME SessionAgrees, NEW file \in File, Import(file)
  PROVE  SessionAgrees'
<1>1. imported' \subseteq File
  BY DEF Import, SessionAgrees, TypeOK
<1>2. PICK all, kept :
        LET merged == Merged(snapshot, file, all, kept)
        IN IF merged = snapshot
           THEN UNCHANGED <<snapshot, generation, job, worker_busy, analyses>>
           ELSE Replace(merged)
  BY DEF Import
<1>3. CASE UNCHANGED <<snapshot, generation, job, worker_busy, analyses>>
  BY <1>1, <1>3 DEF SessionAgrees, TypeOK, MapOfSession, JobTruthful, AnalysesAgree
<1>4. CASE /\ Merged(snapshot, file, all, kept) # snapshot
           /\ Replace(Merged(snapshot, file, all, kept))
  BY <1>1, <1>4, MergedHasNoMap, ReplaceAgrees
<1> QED
  BY <1>2, <1>3, <1>4

LEMMA ClearAgrees == ASSUME SessionAgrees, Clear PROVE SessionAgrees'
BY ReplaceAgrees DEF Clear, Empty, NoMap

LEMMA AnalyzeAgrees == ASSUME SessionAgrees, Analyze PROVE SessionAgrees'
<1> DEFINE new == [records |-> snapshot.records, generation |-> generation]
<1>1. analyses = {} /\ analyses' = {new}
  BY DEF Analyze, CanAnalyze, SessionAgrees, TypeOK, AnalysesAgree
<1>2. TypeOK'
  BY <1>1 DEF Analyze, SessionAgrees, TypeOK
<1>3. MapOfSession'
  BY DEF Analyze, SessionAgrees, MapOfSession
<1>4. JobTruthful'
  BY <1>1 DEF Analyze, JobTruthful
<1>5. AnalysesAgree'
  BY <1>1 DEF Analyze, CanAnalyze, SessionAgrees, TypeOK, AnalysesAgree
<1> QED
  BY <1>2, <1>3, <1>4, <1>5 DEF SessionAgrees

LEMMA EndsAgree ==
  ASSUME SessionAgrees, NEW a \in analyses, AnalysisEnds(a)
  PROVE  SessionAgrees'
<1>1. analyses' = {} /\ worker_busy' = FALSE /\ generation' = generation
  BY DEF AnalysisEnds, SessionAgrees, AnalysesAgree
<1>2. AnalysesAgree'
  BY <1>1 DEF AnalysesAgree
<1>3. CASE a.generation = generation /\ job' = "done" /\ snapshot' = [snapshot EXCEPT !.map = a.records]
  <2>1. a.records = snapshot.records /\ a.records # NoMap
    BY <1>3, LimitsAssumption DEF SessionAgrees, AnalysesAgree, NoMap
  <2>2. /\ snapshot'.map = a.records /\ snapshot'.records = snapshot.records
        /\ DOMAIN snapshot' = DOMAIN Empty
    BY <1>3 DEF SessionAgrees, TypeOK, Empty
  <2> QED
    BY <1>1, <1>2, <1>3, <2>1, <2>2
       DEF SessionAgrees, TypeOK, MapOfSession, JobTruthful, AnalysisEnds
<1>4. CASE a.generation = generation /\ job' = "error" /\ UNCHANGED snapshot
  BY <1>1, <1>2, <1>4 DEF SessionAgrees, TypeOK, MapOfSession, JobTruthful, AnalysisEnds
<1>5. CASE a.generation # generation /\ UNCHANGED <<job, snapshot>>
  <2>1. job # "running"
    BY <1>5 DEF SessionAgrees, JobTruthful, AnalysesAgree
  <2> QED
    BY <1>1, <1>2, <1>5, <2>1 DEF SessionAgrees, TypeOK, MapOfSession, JobTruthful, AnalysisEnds
<1> QED
  BY <1>3, <1>4, <1>5 DEF AnalysisEnds

\* The map shown is the map of the session, "running" is shown while and only
\* while it is analysed, and an analysis that outlives its session is without
\* effect (app.py:438-454).
THEOREM SessionAgreesHolds == Spec => []SessionAgrees
<1>1. ASSUME SessionAgrees, [Next]_vars PROVE SessionAgrees'
  <2>1. CASE UNCHANGED vars
    BY <1>1, <2>1 DEF vars, SessionAgrees, TypeOK, MapOfSession, JobTruthful, AnalysesAgree
  <2>2. ASSUME NEW file \in File, Import(file) PROVE SessionAgrees'
    BY <1>1, <2>2, ImportAgrees
  <2>3. CASE Clear
    BY <1>1, <2>3, ClearAgrees
  <2>4. CASE Analyze
    BY <1>1, <2>4, AnalyzeAgrees
  <2>5. ASSUME NEW a \in analyses, AnalysisEnds(a) PROVE SessionAgrees'
    BY <1>1, <2>5, EndsAgree
  <2> QED
    BY <1>1, <2>1, <2>2, <2>3, <2>4, <2>5 DEF Next
<1> QED
  BY InitAgrees, <1>1, PTL DEF Spec

-----------------------------------------------------------------------------
(* Ranks: what sorted()[:count] and the multiset of _not_already_present   *)
(* come down to.                                                           *)

\* A strict total order on S, as a set of pairs.
Orders(R, S) ==
  \A i, j, k \in S :
    /\ <<i, i>> \notin R
    /\ i # j => <<i, j>> \in R \/ <<j, i>> \in R
    /\ <<i, j>> \in R /\ <<j, k>> \in R => <<i, k>> \in R

Rank(R, S, j) == Cardinality({i \in S : <<i, j>> \in R})

\* The elements of a finite set have the ranks 0, 1, 2 and so on.
LEMMA Ranks ==
  ASSUME NEW S, IsFiniteSet(S), NEW R, Orders(R, S)
  PROVE  /\ \A j \in S : Rank(R, S, j) \in 0..(Cardinality(S) - 1)
         /\ \A i, j \in S : <<i, j>> \in R => Rank(R, S, i) < Rank(R, S, j)
         /\ [j \in S |-> Rank(R, S, j)] \in Bijection(S, 0..(Cardinality(S) - 1))
<1> DEFINE below(j) == {i \in S : <<i, j>> \in R}
           f == [j \in S |-> Rank(R, S, j)]
           T == 0..(Cardinality(S) - 1)
<1>1. Cardinality(S) \in Nat
  BY FS_CardinalityType
<1>2. \A j \in S : IsFiniteSet(below(j)) /\ Cardinality(below(j)) \in Nat
  BY FS_Subset, FS_CardinalityType
<1>3. ASSUME NEW j \in S PROVE Rank(R, S, j) \in T
  <2>1. below(j) \in SUBSET S /\ below(j) # S
    BY DEF Orders
  <2>2. Cardinality(below(j)) < Cardinality(S)
    <3> HIDE DEF below
    <3>1. Cardinality(below(j)) <= Cardinality(S) /\ Cardinality(below(j)) # Cardinality(S)
      BY <2>1, FS_Subset
    <3> QED
      BY <1>1, <1>2, <3>1
  <2> QED
    BY <1>1, <1>2, <2>2 DEF Rank
<1>4. ASSUME NEW i \in S, NEW j \in S, <<i, j>> \in R PROVE Rank(R, S, i) < Rank(R, S, j)
  <2>1. below(i) \cup {i} \in SUBSET below(j) /\ i \notin below(i)
    BY <1>4 DEF Orders
  <2> HIDE DEF below
  <2>2. Cardinality(below(i) \cup {i}) = Cardinality(below(i)) + 1
    BY <1>2, <2>1, FS_AddElement
  <2>3. Cardinality(below(i) \cup {i}) <= Cardinality(below(j))
    BY <1>2, <2>1, FS_Subset
  <2>4. Cardinality(below(i)) < Cardinality(below(j))
    BY <1>2, <2>2, <2>3
  <2> QED
    BY <2>4 DEF Rank, below
<1>5. f \in Injection(S, T)
  <2>1. f \in [S -> T]
    BY <1>3
  <2>2. ASSUME NEW i \in S, NEW j \in S, f[i] = f[j] PROVE i = j
    <3>1. Rank(R, S, i) = Rank(R, S, j) /\ Rank(R, S, i) \in Int
      BY <1>3, <2>2
    <3>2. <<i, j>> \notin R /\ <<j, i>> \notin R
      BY <1>4, <3>1
    <3> QED
      BY <3>2 DEF Orders
  <2> QED
    BY <2>1, <2>2 DEF Injection, IsInjective
<1>6. IsFiniteSet(T) /\ Cardinality(T) = Cardinality(S)
  BY <1>1, FS_Interval
<1>7. f \in Surjection(S, T)
  <2> HIDE DEF f, T
  <2> QED
    BY <1>5, <1>6, FS_Injection
<1> QED
  BY <1>3, <1>4, <1>5, <1>7 DEF Bijection

\* So the elements of rank below c are as many as that.
LEMMA FirstOnes ==
  ASSUME NEW S, IsFiniteSet(S), NEW R, Orders(R, S), NEW c \in Nat
  PROVE  Cardinality({j \in S : Rank(R, S, j) < c}) = IF c < Cardinality(S) THEN c ELSE Cardinality(S)
<1> DEFINE m == IF c < Cardinality(S) THEN c ELSE Cardinality(S)
           f == [j \in S |-> Rank(R, S, j)]
           F == {j \in S : Rank(R, S, j) < c}
           g == [j \in F |-> Rank(R, S, j)]
           T == 0..(m - 1)
<1>1. Cardinality(S) \in Nat /\ m \in Nat /\ m <= Cardinality(S)
  BY FS_CardinalityType
<1>2. f \in Bijection(S, 0..(Cardinality(S) - 1))
  BY Ranks
<1>3. \A j \in S : f[j] \in 0..(Cardinality(S) - 1)
  BY Ranks
<1>4. \A i, j \in S : f[i] = f[j] => i = j
  BY <1>2 DEF Bijection, Injection, IsInjective
<1>5. \A y \in 0..(Cardinality(S) - 1) : \E j \in S : f[j] = y
  BY <1>2 DEF Bijection, Surjection
<1>6. g \in [F -> T]
  BY <1>1, <1>3
<1>7. g \in Bijection(F, T)
  <2>1. \A i, j \in F : g[i] = g[j] => i = j
    BY <1>4
  <2>2. ASSUME NEW y \in T PROVE \E j \in F : g[j] = y
    <3>1. y \in 0..(Cardinality(S) - 1) /\ y < c
      BY <1>1
    <3>2. PICK j \in S : f[j] = y
      BY <3>1, <1>5
    <3> QED
      BY <3>1, <3>2
  <2> HIDE DEF g, F, T
  <2> QED
    BY <1>6, <2>1, <2>2 DEF Bijection, Injection, IsInjective, Surjection
<1>8. IsFiniteSet(F)
  BY FS_Subset
<1>9. Cardinality(T) = m
  <2> HIDE DEF m
  <2>1. 0 \in Int /\ m - 1 \in Int
    BY <1>1
  <2>2. Cardinality(0..(m - 1)) = IF 0 > m - 1 THEN 0 ELSE (m - 1) - 0 + 1
    BY <2>1, FS_Interval
  <2> QED
    BY <1>1, <2>2
<1>10. Cardinality(F) = Cardinality(T)
  <2> HIDE DEF g, F, T
  <2> QED
    BY <1>7, <1>8, FS_Bijection DEF ExistsBijection
<1> QED
  BY <1>9, <1>10

\* The positions of a sequence, by < .
Less == {p \in Nat \X Nat : p[1] < p[2]}

\* By their place, positions are ordered.
LEMMA LessOrders == ASSUME NEW S \in SUBSET Nat PROVE Orders(Less, S)
BY DEF Orders, Less

\* The nth positions are the positions.
LEMMA NthPosition ==
  ASSUME NEW S \in SUBSET Nat, IsFiniteSet(S)
  PROVE  /\ \A n \in 1..Cardinality(S) :
              Nth(S, n) \in S /\ Rank(Less, S, Nth(S, n)) = n - 1
         /\ \A j \in S : /\ Rank(Less, S, j) + 1 \in 1..Cardinality(S)
                         /\ Nth(S, Rank(Less, S, j) + 1) = j
<1> DEFINE f == [j \in S |-> Rank(Less, S, j)]
<1>1. Cardinality(S) \in Nat
  BY FS_CardinalityType
<1>2. \A j \in S : Rank(Less, S, j) = Cardinality({i \in S : i < j})
  <2> SUFFICES ASSUME NEW j \in S PROVE {i \in S : <<i, j>> \in Less} = {i \in S : i < j}
    BY DEF Rank
  <2> QED
    BY DEF Less
<1>3. f \in Bijection(S, 0..(Cardinality(S) - 1)) /\ \A j \in S : Rank(Less, S, j) \in 0..(Cardinality(S) - 1)
  BY Ranks, LessOrders
<1>4. \A i, j \in S : Rank(Less, S, i) = Rank(Less, S, j) => i = j
  <2>1. \A i, j \in S : f[i] = f[j] => i = j
    BY <1>3 DEF Bijection, Injection, IsInjective
  <2> QED
    BY <2>1
<1>5. ASSUME NEW n \in 1..Cardinality(S) PROVE Nth(S, n) \in S /\ Rank(Less, S, Nth(S, n)) = n - 1
  <2>1. n - 1 \in 0..(Cardinality(S) - 1)
    BY <1>1
  <2>2. \E j \in S : f[j] = n - 1
    BY <1>3, <2>1 DEF Bijection, Surjection
  <2>3. \E j \in S : Cardinality({i \in S : i < j}) = n - 1
    BY <1>2, <2>2
  <2>4. Nth(S, n) \in S /\ Cardinality({i \in S : i < Nth(S, n)}) = n - 1
    BY <2>3 DEF Nth
  <2> QED
    BY <1>2, <2>4
<1>6. ASSUME NEW j \in S
      PROVE  Rank(Less, S, j) + 1 \in 1..Cardinality(S) /\ Nth(S, Rank(Less, S, j) + 1) = j
  <2>1. Rank(Less, S, j) \in 0..(Cardinality(S) - 1)
    BY <1>3
  <2> DEFINE n == Rank(Less, S, j) + 1
  <2>2. n \in 1..Cardinality(S) /\ n - 1 = Rank(Less, S, j)
    BY <1>1, <2>1
  <2>3. Nth(S, n) \in S /\ Rank(Less, S, Nth(S, n)) = Rank(Less, S, j)
    BY <1>5, <2>2
  <2> QED
    BY <1>4, <2>2, <2>3
<1> QED
  BY <1>5, <1>6

\* Picking loses nothing and repeats nothing.
LEMMA PickedOnce ==
  ASSUME NEW S \in SUBSET Nat, IsFiniteSet(S), NEW P \in SUBSET S
  PROVE  Cardinality({n \in 1..Cardinality(S) : Nth(S, n) \in P}) = Cardinality(P)
<1> DEFINE N == {n \in 1..Cardinality(S) : Nth(S, n) \in P}
           g == [j \in P |-> Rank(Less, S, j) + 1]
<1>1. \A n \in 1..Cardinality(S) : Nth(S, n) \in S /\ Rank(Less, S, Nth(S, n)) = n - 1
  BY NthPosition
<1>2. \A j \in S : /\ Rank(Less, S, j) + 1 \in 1..Cardinality(S)
                   /\ Nth(S, Rank(Less, S, j) + 1) = j
  BY NthPosition
<1>3. g \in [P -> N]
  BY <1>2
<1>4. \A i, j \in P : g[i] = g[j] => i = j
  BY <1>2
<1>5. ASSUME NEW n \in N PROVE \E j \in P : g[j] = n
  <2>1. g[Nth(S, n)] = n
    BY <1>1
  <2> QED
    BY <2>1
<1>6. g \in Bijection(P, N)
  <2> HIDE DEF g, N
  <2> QED
    BY <1>3, <1>4, <1>5 DEF Bijection, Injection, IsInjective, Surjection
<1>7. IsFiniteSet(P)
  BY FS_Subset
<1> HIDE DEF g, N
<1>8. Cardinality(N) = Cardinality(P)
  BY <1>6, <1>7, FS_Bijection DEF ExistsBijection
<1> QED
  BY <1>8 DEF N

-----------------------------------------------------------------------------
(* Sequences that are picked and joined                                    *)

\* How many of the passages of s are among C.
Number(s, C) == Cardinality({i \in DOMAIN s : s[i] \in C})

\* The positions of a sequence.
LEMMA Positions ==
  ASSUME NEW U, NEW s \in Seq(U)
  PROVE  /\ DOMAIN s = 1..Len(s) /\ Len(s) \in Nat
         /\ DOMAIN s \in SUBSET Nat
         /\ IsFiniteSet(DOMAIN s) /\ Cardinality(DOMAIN s) = Len(s)
<1>1. DOMAIN s = 1..Len(s) /\ Len(s) \in Nat
  OBVIOUS
<1>2. IsFiniteSet(1..Len(s)) /\ Cardinality(1..Len(s)) = IF 1 > Len(s) THEN 0 ELSE Len(s) - 1 + 1
  BY <1>1, FS_Interval
<1> QED
  BY <1>1, <1>2

\* What is picked is a sequence of what is at the positions, in number, too.
LEMMA PickedSequence ==
  ASSUME NEW U, NEW s \in Seq(U), NEW S \in SUBSET DOMAIN s
  PROVE  /\ IsFiniteSet(S)
         /\ Pick(s, S) \in Seq(U)
         /\ Len(Pick(s, S)) = Cardinality(S)
         /\ \A n \in DOMAIN Pick(s, S) : Nth(S, n) \in S /\ Pick(s, S)[n] = s[Nth(S, n)]
         /\ \A C : Number(Pick(s, S), C) = Cardinality({i \in S : s[i] \in C})
<1>1. S \in SUBSET Nat /\ IsFiniteSet(S) /\ Cardinality(S) \in Nat
  BY Positions, FS_Subset, FS_CardinalityType
<1>2. \A n \in 1..Cardinality(S) : Nth(S, n) \in S
  BY <1>1, NthPosition
<1>3. /\ DOMAIN Pick(s, S) = 1..Cardinality(S)
      /\ \A n \in 1..Cardinality(S) : Pick(s, S)[n] = s[Nth(S, n)] /\ s[Nth(S, n)] \in U
  BY <1>2 DEF Pick
<1>4. Pick(s, S) \in [1..Cardinality(S) -> U]
  BY <1>2 DEF Pick
<1>5. Pick(s, S) \in Seq(U) /\ Len(Pick(s, S)) = Cardinality(S)
  BY <1>1, <1>4
<1>6. ASSUME NEW C
      PROVE  Number(Pick(s, S), C) = Cardinality({i \in S : s[i] \in C})
  <2> DEFINE P == {i \in S : s[i] \in C}
  <2>1. {n \in DOMAIN Pick(s, S) : Pick(s, S)[n] \in C} = {n \in 1..Cardinality(S) : Nth(S, n) \in P}
    BY <1>2, <1>3
  <2>2. P \in SUBSET S
    OBVIOUS
  <2> HIDE DEF P
  <2>3. Cardinality({n \in 1..Cardinality(S) : Nth(S, n) \in P}) = Cardinality(P)
    BY <1>1, <2>2, PickedOnce
  <2> QED
    BY <2>1, <2>3 DEF Number, P
<1> QED
  BY <1>1, <1>2, <1>3, <1>5, <1>6

\* Who picks all has the sequence itself.
LEMMA PickedAll == ASSUME NEW U, NEW s \in Seq(U) PROVE Pick(s, DOMAIN s) = s
<1>1. DOMAIN s = 1..Len(s) /\ Len(s) \in Nat /\ DOMAIN s \in SUBSET Nat
      /\ IsFiniteSet(DOMAIN s) /\ Cardinality(DOMAIN s) = Len(s)
  BY Positions
<1>2. ASSUME NEW n \in DOMAIN s PROVE Nth(DOMAIN s, n) = n
  <2>1. {i \in DOMAIN s : <<i, n>> \in Less} = 1..(n - 1)
    BY <1>1 DEF Less
  <2>2. n \in Nat /\ 1 \in Int /\ n - 1 \in Int /\ n - 1 >= 0
    BY <1>1
  <2>3. Cardinality(1..(n - 1)) = IF 1 > n - 1 THEN 0 ELSE (n - 1) - 1 + 1
    BY <2>2, FS_Interval
  <2>4. Rank(Less, DOMAIN s, n) = Cardinality(1..(n - 1))
    BY <2>1 DEF Rank
  <2>5. Rank(Less, DOMAIN s, n) + 1 = n
    BY <2>2, <2>3, <2>4
  <2> QED
    BY <1>1, <2>5, NthPosition
<1>3. Pick(s, DOMAIN s) = [n \in 1..Len(s) |-> s[n]]
  BY <1>1, <1>2 DEF Pick
<1> QED
  BY <1>1, <1>3

\* Numbers add up.
LEMMA NumbersAdd ==
  ASSUME NEW U, NEW s \in Seq(U), NEW t \in Seq(U), NEW C
  PROVE  /\ Number(s \o t, C) = Number(s, C) + Number(t, C)
         /\ Number(s, C) \in Nat /\ Number(t, C) \in Nat
<1> DEFINE A == {i \in DOMAIN s : s[i] \in C}
           B == {i \in DOMAIN t : t[i] \in C}
           D == {i \in DOMAIN (s \o t) : i > Len(s) /\ (s \o t)[i] \in C}
           g == [i \in B |-> Len(s) + i]
<1>1. /\ DOMAIN s = 1..Len(s) /\ Len(s) \in Nat /\ IsFiniteSet(DOMAIN s)
      /\ DOMAIN t = 1..Len(t) /\ Len(t) \in Nat /\ IsFiniteSet(DOMAIN t)
      /\ s \o t \in Seq(U) /\ Len(s \o t) = Len(s) + Len(t) /\ IsFiniteSet(DOMAIN (s \o t))
      /\ DOMAIN (s \o t) = 1..(Len(s) + Len(t))
  <2>1. s \o t \in Seq(U) /\ Len(s \o t) = Len(s) + Len(t)
    OBVIOUS
  <2>2. IsFiniteSet(DOMAIN (s \o t)) /\ DOMAIN (s \o t) = 1..Len(s \o t)
    BY <2>1, Positions
  <2> QED
    BY <2>1, <2>2, Positions
<1>2. /\ \A i \in DOMAIN s : (s \o t)[i] = s[i]
      /\ \A i \in DOMAIN t : (s \o t)[Len(s) + i] = t[i]
  OBVIOUS
<1>3. IsFiniteSet(A) /\ IsFiniteSet(B) /\ IsFiniteSet(D)
  BY <1>1, FS_Subset
<1>4. Cardinality(A) \in Nat /\ Cardinality(B) \in Nat /\ Cardinality(D) \in Nat
  BY <1>3, FS_CardinalityType
<1>5. Cardinality(D) = Cardinality(B)
  <2>1. g \in [B -> D]
    BY <1>1, <1>2
  <2>2. \A i, j \in B : g[i] = g[j] => i = j
    BY <1>1
  <2>3. ASSUME NEW y \in D PROVE \E i \in B : g[i] = y
    <3>1. y - Len(s) \in DOMAIN t /\ Len(s) + (y - Len(s)) = y
      BY <1>1
    <3>2. y - Len(s) \in B
      BY <1>2, <3>1
    <3> QED
      BY <3>1, <3>2
  <2> HIDE DEF g, B, D
  <2>4. g \in Bijection(B, D)
    BY <2>1, <2>2, <2>3 DEF Bijection, Injection, IsInjective, Surjection
  <2> QED
    BY <1>3, <2>4, FS_Bijection DEF ExistsBijection
<1>6. {i \in DOMAIN (s \o t) : (s \o t)[i] \in C} = A \cup D /\ A \cap D = {}
  <2>1. \A i \in DOMAIN (s \o t) : i \in DOMAIN s <=> ~(i > Len(s))
    BY <1>1
  <2>2. DOMAIN s \subseteq DOMAIN (s \o t)
    BY <1>1
  <2> QED
    BY <1>2, <2>1, <2>2
<1>7. Cardinality(A \cup D) = Cardinality(A) + Cardinality(D)
  <2> HIDE DEF A, D
  <2>1. Cardinality(A \cup D) = Cardinality(A) + Cardinality(D) - Cardinality(A \cap D)
    BY <1>3, FS_Union
  <2> QED
    <3>1. Cardinality(A \cap D) = 0
      BY <1>6, FS_EmptySet
    <3> QED
      BY <1>4, <2>1, <3>1
<1> QED
  BY <1>4, <1>5, <1>6, <1>7 DEF Number

-----------------------------------------------------------------------------
(* One import                                                              *)

\* The passages of U with one key, and those of one source.
SameKey(U, k) == {r \in U : RecordKey(r) = k}
SameSource(U, source) == {r \in U : r.origin = source}

Dated(U) == \A r \in U : r.when \in Nat

\* Copies and counts of the model are such numbers.
LEMMA CopiesCounted ==
  ASSUME NEW U, NEW s \in Seq(U), NEW k
  PROVE  /\ Copies(RecordKeys(s), k) = Number(s, SameKey(U, k))
         /\ CountOf(s, k) = Number(s, SameSource(U, k))
<1>1. \A i \in DOMAIN s : s[i] \in U
  OBVIOUS
<1>2. {i \in DOMAIN RecordKeys(s) : RecordKeys(s)[i] = k} = {i \in DOMAIN s : s[i] \in SameKey(U, k)}
  BY <1>1 DEF RecordKeys, SameKey
<1>3. {i \in DOMAIN s : s[i].origin = k} = {i \in DOMAIN s : s[i] \in SameSource(U, k)}
  BY <1>1 DEF SameSource
<1> QED
  BY <1>2, <1>3 DEF Copies, CountOf, Number

\* What the session has already absorbs as many copies.
LEMMA NewCopies ==
  ASSUME NEW U, NEW s \in Seq(U), NEW t \in Seq(U), NEW k
  PROVE  LET new == NotAlreadyPresent(RecordKeys(s), RecordKeys(t))
             here == Number(s, SameKey(U, k))
             there == Number(t, SameKey(U, k))
         IN /\ new \in SUBSET DOMAIN t
            /\ here \in Nat /\ there \in Nat
            /\ Cardinality({j \in new : t[j] \in SameKey(U, k)})
                 = IF here < there THEN there - here ELSE 0
<1> DEFINE new == NotAlreadyPresent(RecordKeys(s), RecordKeys(t))
           here == Number(s, SameKey(U, k))
           there == Number(t, SameKey(U, k))
           P == {j \in DOMAIN t : t[j] \in SameKey(U, k)}
           F == {j \in P : Rank(Less, P, j) < here}
<1>1. DOMAIN t = 1..Len(t) /\ Len(t) \in Nat /\ IsFiniteSet(DOMAIN t) /\ DOMAIN t \in SUBSET Nat
  BY Positions
<1>2. here \in Nat /\ there \in Nat
  BY NumbersAdd
<1>3. DOMAIN RecordKeys(t) = DOMAIN t /\ \A j \in DOMAIN t : RecordKeys(t)[j] = RecordKey(t[j])
  BY DEF RecordKeys
<1>4. new \in SUBSET DOMAIN t
  BY <1>3 DEF NotAlreadyPresent
<1>5. \A j \in DOMAIN t : t[j] \in U
  OBVIOUS
<1>6. P \in SUBSET Nat /\ IsFiniteSet(P) /\ Cardinality(P) = there
  BY <1>1, FS_Subset DEF Number
<1>7. ASSUME NEW j \in P
      PROVE  j \in new <=> here <= Rank(Less, P, j)
  <2>1. RecordKeys(t)[j] = k /\ j \in DOMAIN t
    BY <1>3 DEF SameKey
  <2>2. {i \in DOMAIN RecordKeys(t) : RecordKeys(t)[i] = RecordKeys(t)[j] /\ i < j}
          = {i \in P : <<i, j>> \in Less}
    BY <1>1, <1>3, <1>5, <2>1 DEF SameKey, Less
  <2>3. Copies(RecordKeys(s), RecordKeys(t)[j]) = here
    BY <2>1, CopiesCounted
  <2> HIDE DEF P, here
  <2> QED
    BY <1>3, <2>1, <2>2, <2>3 DEF NotAlreadyPresent, Rank, new
<1>8. \A j \in P : Rank(Less, P, j) \in Nat
  <2> HIDE DEF P
  <2>1. \A j \in P : Rank(Less, P, j) \in 0..(Cardinality(P) - 1)
    BY <1>6, Ranks, LessOrders
  <2> QED
    BY <2>1
<1>9. {j \in new : t[j] \in SameKey(U, k)} = P \ F
  <2>1. {j \in new : t[j] \in SameKey(U, k)} = {j \in P : j \in new}
    BY <1>4
  <2> HIDE DEF P, here, new
  <2>2. \A j \in P : j \in new <=> j \notin F
    BY <1>2, <1>7, <1>8
  <2> QED
    BY <2>1, <2>2
<1>10. Cardinality(P \ F) = Cardinality(P) - Cardinality(F)
  <2>1. P \cap F = F
    OBVIOUS
  <2> HIDE DEF P, F
  <2>2. Cardinality(P \ F) = Cardinality(P) - Cardinality(P \cap F)
    BY <1>6, FS_Difference
  <2> QED
    BY <2>1, <2>2
<1>11. Cardinality(F) = IF here < Cardinality(P) THEN here ELSE Cardinality(P)
  <2> HIDE DEF P, here
  <2>1. Orders(Less, P)
    BY <1>6, LessOrders
  <2>2. Cardinality({j \in P : Rank(Less, P, j) < here})
          = IF here < Cardinality(P) THEN here ELSE Cardinality(P)
    BY <1>2, <1>6, <2>1, FirstOnes
  <2> QED
    BY <2>2
<1>12. Cardinality(P \ F) = IF here < there THEN there - here ELSE 0
  <2> HIDE DEF P, F, here, there
  <2> QED
    BY <1>2, <1>6, <1>10, <1>11
<1> QED
  BY <1>2, <1>4, <1>9, <1>12

\* So of every passage there are as many as in the one that has more of it.
LEMMA MergedCopies ==
  ASSUME NEW U, NEW s \in Seq(U), NEW t \in Seq(U), NEW k
  PROVE  LET new == NotAlreadyPresent(RecordKeys(s), RecordKeys(t))
             here == Number(s, SameKey(U, k))
             there == Number(t, SameKey(U, k))
         IN /\ here \in Nat /\ there \in Nat
            /\ Number(s \o Pick(t, new), SameKey(U, k)) = IF here < there THEN there ELSE here
<1> DEFINE new == NotAlreadyPresent(RecordKeys(s), RecordKeys(t))
           here == Number(s, SameKey(U, k))
           there == Number(t, SameKey(U, k))
<1>1. /\ new \in SUBSET DOMAIN t
      /\ here \in Nat /\ there \in Nat
      /\ Cardinality({j \in new : t[j] \in SameKey(U, k)}) = IF here < there THEN there - here ELSE 0
  BY NewCopies
<1>2. /\ Pick(t, new) \in Seq(U)
      /\ Number(Pick(t, new), SameKey(U, k)) = Cardinality({j \in new : t[j] \in SameKey(U, k)})
  BY <1>1, PickedSequence
<1>3. Number(s \o Pick(t, new), SameKey(U, k)) = here + Number(Pick(t, new), SameKey(U, k))
  BY <1>2, NumbersAdd
<1> HIDE DEF new, here, there
<1>4. Number(s \o Pick(t, new), SameKey(U, k)) = IF here < there THEN there ELSE here
  BY <1>1, <1>2, <1>3
<1> QED
  BY <1>1, <1>4 DEF new, here, there

\* The given positions that come before j.
Ahead(s, S, j) == {i \in S : Before(s, i, j)}

\* Newest takes as many as asked for, where there are so many, and none of
\* them is older than one it leaves.
LEMMA NewestOnes ==
  ASSUME NEW U, Dated(U), NEW s \in Seq(U), NEW S \in SUBSET DOMAIN s, NEW c \in Nat
  PROVE  /\ Newest(s, S, c) \in SUBSET S
         /\ Cardinality(Newest(s, S, c)) = IF c < Cardinality(S) THEN c ELSE Cardinality(S)
         /\ \A i \in Newest(s, S, c), j \in S \ Newest(s, S, c) : s[i].when >= s[j].when
         /\ \A j \in Newest(s, S, c) : Cardinality(Ahead(s, S, j)) < c
<1> DEFINE R == {p \in S \X S : Before(s, p[1], p[2])}
<1>1. DOMAIN s \in SUBSET Nat /\ IsFiniteSet(S)
  BY Positions, FS_Subset
<1>2. \A i \in S : i \in Nat /\ s[i].when \in Nat
  BY <1>1 DEF Dated
<1>3. \A i, j \in S : <<i, j>> \in R <=> Before(s, i, j)
  OBVIOUS
<1>4. Orders(R, S)
  <2> HIDE DEF R
  <2>1. \A i, j, k \in S :
          /\ ~Before(s, i, i)
          /\ i # j => Before(s, i, j) \/ Before(s, j, i)
          /\ Before(s, i, j) /\ Before(s, j, k) => Before(s, i, k)
    BY <1>2 DEF Before
  <2> QED
    BY <1>3, <2>1 DEF Orders
<1>5. \A j \in S : Rank(R, S, j) = Cardinality(Ahead(s, S, j))
  <2> SUFFICES ASSUME NEW j \in S
               PROVE  {i \in S : <<i, j>> \in R} = Ahead(s, S, j)
    BY DEF Rank
  <2> HIDE DEF R
  <2> QED
    BY <1>3 DEF Ahead
<1> HIDE DEF R
<1>6. Newest(s, S, c) = {j \in S : Rank(R, S, j) < c}
  BY <1>5 DEF Newest, Ahead
<1>7. Cardinality(Newest(s, S, c)) = IF c < Cardinality(S) THEN c ELSE Cardinality(S)
  BY <1>1, <1>4, <1>6, FirstOnes
<1>8. ASSUME NEW i \in Newest(s, S, c), NEW j \in S \ Newest(s, S, c)
      PROVE  s[i].when >= s[j].when
  <2>1. i \in S /\ j \in S /\ Rank(R, S, i) < c /\ ~(Rank(R, S, j) < c) /\ i # j
    BY <1>6
  <2>2. \A a \in S : Rank(R, S, a) \in 0..(Cardinality(S) - 1)
    BY <1>1, <1>4, Ranks
  <2>3. Rank(R, S, i) \in Int /\ Rank(R, S, j) \in Int
    BY <2>1, <2>2
  <2>4. <<j, i>> \notin R
    <3>1. <<j, i>> \in R => Rank(R, S, j) < Rank(R, S, i)
      BY <1>1, <1>4, <2>1, Ranks
    <3> QED
      BY <2>1, <2>3, <3>1
  <2>5. <<i, j>> \in R
    BY <1>4, <2>1, <2>4 DEF Orders
  <2>6. Before(s, i, j)
    BY <1>3, <2>1, <2>5
  <2> QED
    BY <1>2, <2>1, <2>6 DEF Before
<1> QED
  BY <1>5, <1>6, <1>7, <1>8

\* What is kept of a session that had room, with new passages of one source
\* behind it.
LEMMA KeptOnes ==
  ASSUME NEW U, Dated(U), NEW e \in Seq(U), Len(e) <= MAX_RECORDS, NEW source,
         NEW added \in Seq(U), \A i \in DOMAIN added : added[i].origin = source
  PROVE  LET all == e \o added
             kept == Kept(e, all, source)
         IN /\ all \in Seq(U) /\ kept \in SUBSET DOMAIN all
            /\ Len(all) <= MAX_RECORDS => kept = DOMAIN all
            /\ Len(all) > MAX_RECORDS => Cardinality(kept) = MAX_RECORDS
            /\ \A i \in DOMAIN all : all[i].origin # source => i \in kept
            /\ \A i \in kept, j \in DOMAIN all \ kept :
                 all[i].origin = source => all[i].when >= all[j].when
            /\ \A w \in Nat :
                 /\ Len(e) = MAX_RECORDS
                 /\ \A i \in DOMAIN e : e[i].origin = source => e[i].when >= w
                 => \A j \in kept : all[j].origin = source => all[j].when >= w
<1> DEFINE all == e \o added
           kept == Kept(e, all, source)
           same == {i \in DOMAIN all : all[i].origin = source}
           others == DOMAIN all \ same
           c == MAX_RECORDS - Cardinality(others)
           newest == Newest(all, same, c)
<1>1. /\ Len(e) \in Nat /\ DOMAIN e = 1..Len(e) /\ IsFiniteSet(DOMAIN e) /\ Cardinality(DOMAIN e) = Len(e)
      /\ Len(added) \in Nat /\ DOMAIN added = 1..Len(added)
  BY Positions
<1>2. all \in Seq(U) /\ Len(all) = Len(e) + Len(added)
  OBVIOUS
<1>3. DOMAIN all = 1..Len(all) /\ DOMAIN all \in SUBSET Nat
      /\ IsFiniteSet(DOMAIN all) /\ Cardinality(DOMAIN all) = Len(all)
  BY <1>2, Positions
<1>4. /\ \A i \in DOMAIN e : i \in DOMAIN all /\ all[i] = e[i]
      /\ \A i \in DOMAIN all \ DOMAIN e : all[i].origin = source
  <2>1. \A i \in DOMAIN e : i \in DOMAIN all /\ all[i] = e[i]
    BY <1>1, <1>2, <1>3
  <2>2. ASSUME NEW i \in DOMAIN all \ DOMAIN e PROVE all[i].origin = source
    <3>1. i - Len(e) \in DOMAIN added /\ all[i] = added[i - Len(e)]
      BY <1>1, <1>2, <1>3
    <3> QED
      BY <3>1
  <2> QED
    BY <2>1, <2>2
<1>5. others \in SUBSET DOMAIN e
  BY <1>4
<1> HIDE DEF all
<1>6. /\ IsFiniteSet(others) /\ Cardinality(others) \in Nat /\ Cardinality(others) <= Len(e)
      /\ IsFiniteSet(same) /\ Cardinality(same) \in Nat
      /\ Cardinality(others) + Cardinality(same) = Len(all)
  <2>1. same \in SUBSET DOMAIN all
    OBVIOUS
  <2> HIDE DEF same
  <2>2. DOMAIN all \cap same = same
    BY <2>1
  <2>3. IsFiniteSet(others) /\ Cardinality(others) = Len(all) - Cardinality(DOMAIN all \cap same)
    BY <1>3, FS_Difference
  <2>4. IsFiniteSet(same) /\ Cardinality(same) \in Nat
    BY <1>3, <2>1, FS_Subset, FS_CardinalityType
  <2> HIDE DEF others
  <2>5. Cardinality(others) \in Nat /\ Cardinality(others) <= Len(e)
    BY <1>1, <1>5, <2>3, FS_Subset, FS_CardinalityType
  <2> QED
    <3>1. Cardinality(others) = Len(all) - Cardinality(same)
      BY <2>2, <2>3
    <3>2. Len(all) \in Nat
      BY <1>1, <1>2
    <3> QED
      BY <2>3, <2>4, <2>5, <3>1, <3>2
<1>7. c \in Nat
  <2> HIDE DEF others
  <2> QED
    BY <1>1, <1>6, LimitsAssumption
<1>8. kept = IF Len(all) <= MAX_RECORDS THEN DOMAIN all ELSE others \cup newest
  BY DEF Kept
<1>9. /\ newest \in SUBSET same
      /\ Cardinality(newest) = IF c < Cardinality(same) THEN c ELSE Cardinality(same)
      /\ \A i \in newest, j \in same \ newest : all[i].when >= all[j].when
      /\ \A j \in newest : Cardinality(Ahead(all, same, j)) < c
  <2>1. same \in SUBSET DOMAIN all
    OBVIOUS
  <2> HIDE DEF same, c
  <2>2. /\ Newest(all, same, c) \in SUBSET same
        /\ Cardinality(Newest(all, same, c)) = IF c < Cardinality(same) THEN c ELSE Cardinality(same)
    BY <1>2, <1>7, <2>1, NewestOnes
  <2>3. \A i \in Newest(all, same, c), j \in same \ Newest(all, same, c) : all[i].when >= all[j].when
    BY <1>2, <1>7, <2>1, NewestOnes
  <2>4. \A j \in Newest(all, same, c) : Cardinality(Ahead(all, same, j)) < c
    BY <1>2, <1>7, <2>1, NewestOnes
  <2> QED
    BY <2>2, <2>3, <2>4
<1>10. kept \in SUBSET DOMAIN all
  BY <1>8, <1>9
<1>11. ASSUME Len(all) > MAX_RECORDS PROVE Cardinality(kept) = MAX_RECORDS
  <2>1. Len(all) \in Nat /\ kept = others \cup newest
    BY <1>2, <1>8, <1>11, LimitsAssumption
  <2>2. IsFiniteSet(newest)
    <3> HIDE DEF newest, same
    <3> QED
      BY <1>6, <1>9, FS_Subset
  <2>3. others \cap newest = {}
    BY <1>9
  <2> HIDE DEF others, newest, same
  <2>4. Cardinality(newest) = c
    BY <1>6, <1>9, <1>11, <2>1, LimitsAssumption
  <2>5. Cardinality(others \cup newest) = Cardinality(others) + Cardinality(newest) - Cardinality({})
    BY <1>6, <2>2, <2>3, FS_Union
  <2>6. Cardinality({}) = 0
    BY FS_EmptySet
  <2> QED
    BY <1>6, <1>7, <2>1, <2>4, <2>5, <2>6, LimitsAssumption
<1>12. \A i \in DOMAIN all : all[i].origin # source => i \in kept
  BY <1>8
<1>13. ASSUME NEW i \in kept, NEW j \in DOMAIN all \ kept, all[i].origin = source
       PROVE  all[i].when >= all[j].when
  <2>1. kept = others \cup newest
    BY <1>8, <1>13
  <2>2. i \in newest /\ j \in same \ newest
    BY <1>13, <2>1
  <2> QED
    BY <1>9, <2>2
<1>14. ASSUME NEW w \in Nat, Len(e) = MAX_RECORDS,
              \A i \in DOMAIN e : e[i].origin = source => e[i].when >= w,
              NEW j \in kept, all[j].origin = source
       PROVE  all[j].when >= w
  <2> DEFINE old == {i \in DOMAIN e : e[i].origin = source}
  <2>1. CASE Len(all) <= MAX_RECORDS
    <3>1. DOMAIN all = DOMAIN e
      BY <1>1, <1>2, <1>3, <1>14, <2>1
    <3> QED
      BY <1>4, <1>10, <1>14, <3>1
  <2>2. CASE ~(Len(all) <= MAX_RECORDS)
    <3>1. j \in newest
      BY <1>8, <1>14, <2>2
    <3>2. SUFFICES ASSUME ~(all[j].when >= w) PROVE FALSE
      OBVIOUS
    <3>3. \A i \in DOMAIN all : all[i].when \in Nat
      BY <1>2 DEF Dated
    <3>4. \A i \in old : i \in same /\ all[i].when > all[j].when
      BY <1>4, <1>10, <1>14, <3>2, <3>3
    <3>5. old \in SUBSET Ahead(all, same, j)
      BY <3>4 DEF Before, Ahead
    <3>6. old = DOMAIN e \ others
      BY <1>4
    <3>7. Cardinality(old) = c
      <4>1. DOMAIN e \cap others = others
        BY <1>5
      <4> HIDE DEF others, old
      <4>2. Cardinality(DOMAIN e \ others) = Cardinality(DOMAIN e) - Cardinality(DOMAIN e \cap others)
        BY <1>1, FS_Difference
      <4> QED
        BY <1>1, <1>14, <3>6, <4>1, <4>2
    <3>8. Cardinality(old) <= Cardinality(Ahead(all, same, j))
      <4> DEFINE before == Ahead(all, same, j)
      <4>1. before \in SUBSET same
        BY DEF Ahead
      <4> HIDE DEF before, old, same
      <4>2. IsFiniteSet(before)
        BY <1>6, <4>1, FS_Subset
      <4>3. Cardinality(old) <= Cardinality(before)
        BY <3>5, <4>2, FS_Subset DEF before
      <4> QED
        BY <4>3 DEF before
    <3>9. Cardinality(Ahead(all, same, j)) \in Nat
      <4> DEFINE before == Ahead(all, same, j)
      <4>1. before \in SUBSET same
        BY DEF Ahead
      <4> HIDE DEF before, same
      <4>2. Cardinality(before) \in Nat
        BY <1>6, <4>1, FS_Subset, FS_CardinalityType
      <4> QED
        BY <4>2 DEF before
    <3> HIDE DEF old, same, c, newest
    <3> QED
      BY <1>7, <1>9, <3>1, <3>7, <3>8, <3>9
  <2> QED
    BY <2>1, <2>2
<1> HIDE DEF kept
<1>15. \A w \in Nat :
         /\ Len(e) = MAX_RECORDS
         /\ \A i \in DOMAIN e : e[i].origin = source => e[i].when >= w
         => \A j \in kept : all[j].origin = source => all[j].when >= w
  BY <1>14
<1> QED
  BY <1>2, <1>8, <1>10, <1>11, <1>12, <1>13, <1>15 DEF all, kept

\* The properties, of the passages e of a session into which the files in I
\* were imported.
BroughtBy(I) == UNION {{Tagged(f)[n] : n \in DOMAIN Tagged(f)} : f \in I}
HeldIn(e, r) == Copies(RecordKeys(e), RecordKey(r))
NoneOlder(e, r) == \A i \in DOMAIN e : e[i].origin = r.origin => e[i].when >= r.when
NewestOf(e, I) ==
  \A r \in BroughtBy(I) :
    /\ \E f \in I : HeldIn(e, r) <= InFile(r, f)
    /\ (\E f \in I : HeldIn(e, r) < InFile(r, f)) =>
         /\ Len(e) = MAX_RECORDS
         /\ \E b \in BroughtBy(I) : RecordKey(b) = RecordKey(r) /\ NoneOlder(e, b)

\* What an import makes of e: all there is, and what is left of it.
AllOf(e, file) ==
  e \o Pick(Tagged(file), NotAlreadyPresent(RecordKeys(e), RecordKeys(Tagged(file))))
KeptOf(e, file) == Kept(e, AllOf(e, file), file.source)
LeftOf(e, file) == Pick(AllOf(e, file), KeptOf(e, file))

\* What the files bring has a date, and its source.
LEMMA FilesDated ==
  ASSUME NEW I \in SUBSET File
  PROVE  /\ Dated(BroughtBy(I))
         /\ \A f \in I : /\ Tagged(f) \in Seq(BroughtBy(I))
                         /\ \A n \in DOMAIN Tagged(f) : Tagged(f)[n].origin = f.source
<1>1. ASSUME NEW f \in I
      PROVE  /\ Len(f.records) \in Nat /\ DOMAIN Tagged(f) = 1..Len(f.records)
             /\ \A n \in DOMAIN Tagged(f) : Tagged(f)[n].origin = f.source /\ Tagged(f)[n].when \in Nat
  <2>1. /\ f.records \in Seq({f.records[n] : n \in DOMAIN f.records})
        /\ \A n \in DOMAIN f.records : f.records[n].when \in Nat
    BY FileAssumption
  <2>2. Len(f.records) \in Nat /\ DOMAIN f.records = 1..Len(f.records)
    BY <2>1
  <2> QED
    BY <2>1, <2>2 DEF Tagged
<1>2. Dated(BroughtBy(I))
  BY <1>1 DEF Dated, BroughtBy
<1>3. ASSUME NEW f \in I PROVE Tagged(f) \in Seq(BroughtBy(I))
  <2>1. \A n \in DOMAIN Tagged(f) : Tagged(f)[n] \in BroughtBy(I)
    BY DEF BroughtBy
  <2>2. Tagged(f) = [n \in 1..Len(f.records) |-> Tagged(f)[n]]
    BY <1>1 DEF Tagged
  <2>3. Tagged(f) \in [1..Len(f.records) -> BroughtBy(I)]
    BY <1>1, <2>1, <2>2
  <2> QED
    BY <1>1, <2>3
<1> QED
  BY <1>1, <1>2, <1>3

\* An import leaves passages that were brought, as many as there is room for.
LEMMA ImportLeaves ==
  ASSUME NEW U, Dated(U), NEW e \in Seq(U), Len(e) <= MAX_RECORDS,
         NEW file \in File, Tagged(file) \in Seq(U)
  PROVE  /\ AllOf(e, file) \in Seq(U)
         /\ KeptOf(e, file) \in SUBSET DOMAIN AllOf(e, file)
         /\ \A i \in DOMAIN e : i \in DOMAIN AllOf(e, file)
         /\ \A i \in DOMAIN AllOf(e, file) :
              IF i \in DOMAIN e THEN AllOf(e, file)[i] = e[i] ELSE AllOf(e, file)[i].origin = file.source
         /\ LeftOf(e, file) \in Seq(U)
         /\ Len(LeftOf(e, file)) <= MAX_RECORDS
         /\ Len(e) = MAX_RECORDS => Len(LeftOf(e, file)) = MAX_RECORDS
         /\ \/ LeftOf(e, file) = AllOf(e, file) /\ KeptOf(e, file) = DOMAIN AllOf(e, file)
            \/ Len(LeftOf(e, file)) = MAX_RECORDS
         /\ KeptOf(e, file) \subseteq DOMAIN e => LeftOf(e, file) = e
         /\ \A C : Number(LeftOf(e, file), C) = Cardinality({i \in KeptOf(e, file) : AllOf(e, file)[i] \in C})
         /\ \A i \in DOMAIN AllOf(e, file) : AllOf(e, file)[i].origin # file.source => i \in KeptOf(e, file)
         /\ \A i \in KeptOf(e, file), j \in DOMAIN AllOf(e, file) \ KeptOf(e, file) :
              AllOf(e, file)[i].origin = file.source => AllOf(e, file)[i].when >= AllOf(e, file)[j].when
         /\ \A w \in Nat :
              /\ Len(e) = MAX_RECORDS
              /\ \A i \in DOMAIN e : e[i].origin = file.source => e[i].when >= w
              => \A j \in KeptOf(e, file) : AllOf(e, file)[j].origin = file.source => AllOf(e, file)[j].when >= w
<1> DEFINE t == Tagged(file)
           new == NotAlreadyPresent(RecordKeys(e), RecordKeys(t))
           added == Pick(t, new)
           all == AllOf(e, file)
           kept == KeptOf(e, file)
           left == LeftOf(e, file)
<1>1. new \in SUBSET DOMAIN t
  BY DEF NotAlreadyPresent, RecordKeys
<1>2. added \in Seq(U) /\ \A n \in DOMAIN added : Nth(new, n) \in DOMAIN t /\ added[n] = t[Nth(new, n)]
  <2>1. t \in Seq(U)
    OBVIOUS
  <2> HIDE DEF t, new
  <2> QED
    BY <1>1, <2>1, PickedSequence
<1>3. \A n \in DOMAIN added : added[n].origin = file.source
  <2>1. \A n \in DOMAIN t : t[n].origin = file.source
    BY FilesDated
  <2> HIDE DEF t, new
  <2> QED
    BY <1>2, <2>1
<1>4. all = e \o added /\ kept = Kept(e, e \o added, file.source)
  BY DEF AllOf, KeptOf
<1> HIDE DEF added
<1>5. /\ all \in Seq(U) /\ kept \in SUBSET DOMAIN all
      /\ Len(all) <= MAX_RECORDS => kept = DOMAIN all
      /\ Len(all) > MAX_RECORDS => Cardinality(kept) = MAX_RECORDS
      /\ \A i \in DOMAIN all : all[i].origin # file.source => i \in kept
      /\ \A i \in kept, j \in DOMAIN all \ kept :
           all[i].origin = file.source => all[i].when >= all[j].when
      /\ \A w \in Nat :
           /\ Len(e) = MAX_RECORDS
           /\ \A i \in DOMAIN e : e[i].origin = file.source => e[i].when >= w
           => \A j \in kept : all[j].origin = file.source => all[j].when >= w
  <2>1. /\ e \o added \in Seq(U)
        /\ Kept(e, e \o added, file.source) \in SUBSET DOMAIN (e \o added)
        /\ Len(e \o added) <= MAX_RECORDS => Kept(e, e \o added, file.source) = DOMAIN (e \o added)
        /\ Len(e \o added) > MAX_RECORDS => Cardinality(Kept(e, e \o added, file.source)) = MAX_RECORDS
        /\ \A i \in DOMAIN (e \o added) : (e \o added)[i].origin # file.source => i \in Kept(e, e \o added, file.source)
        /\ \A i \in Kept(e, e \o added, file.source), j \in DOMAIN (e \o added) \ Kept(e, e \o added, file.source) :
             (e \o added)[i].origin = file.source => (e \o added)[i].when >= (e \o added)[j].when
        /\ \A w \in Nat :
             /\ Len(e) = MAX_RECORDS
             /\ \A i \in DOMAIN e : e[i].origin = file.source => e[i].when >= w
             => \A j \in Kept(e, e \o added, file.source) : (e \o added)[j].origin = file.source => (e \o added)[j].when >= w
    BY <1>2, <1>3, KeptOnes
  <2> HIDE DEF all, kept
  <2> QED
    BY <1>4, <2>1
<1>6. /\ Len(e) \in Nat /\ DOMAIN e = 1..Len(e) /\ IsFiniteSet(DOMAIN e) /\ Cardinality(DOMAIN e) = Len(e)
      /\ Len(added) \in Nat /\ DOMAIN added = 1..Len(added)
      /\ Len(all) = Len(e) + Len(added) /\ DOMAIN all = 1..Len(all)
  BY <1>2, <1>4, <1>5, Positions
<1>7. ASSUME NEW i \in DOMAIN all
      PROVE  IF i \in DOMAIN e THEN all[i] = e[i] ELSE all[i].origin = file.source
  <2>1. i \in DOMAIN e => all[i] = e[i]
    BY <1>2, <1>4, <1>6
  <2>2. i \notin DOMAIN e => i - Len(e) \in DOMAIN added /\ all[i] = added[i - Len(e)]
    BY <1>2, <1>4, <1>6
  <2> QED
    BY <1>3, <2>1, <2>2
<1> HIDE DEF all, kept
<1>8. left = Pick(all, kept)
  BY DEF LeftOf, all, kept
<1> HIDE DEF left
<1>9. /\ left \in Seq(U) /\ Len(left) = Cardinality(kept)
      /\ \A C : Number(left, C) = Cardinality({i \in kept : all[i] \in C})
  BY <1>5, <1>8, PickedSequence
<1>10. Len(all) <= MAX_RECORDS => left = all /\ kept = DOMAIN all
  BY <1>5, <1>8, PickedAll
<1>11. Len(all) > MAX_RECORDS => Len(left) = MAX_RECORDS
  BY <1>5, <1>9
<1>12. Len(left) <= MAX_RECORDS /\ (Len(e) = MAX_RECORDS => Len(left) = MAX_RECORDS)
  <2>1. CASE Len(all) <= MAX_RECORDS
    <3>1. Len(left) = Len(all)
      BY <1>10, <2>1
    <3>2. Len(e) \in Nat /\ Len(added) \in Nat /\ Len(all) = Len(e) + Len(added)
      BY <1>6
    <3> QED
      BY <2>1, <3>1, <3>2, LimitsAssumption
  <2>2. CASE Len(all) > MAX_RECORDS
    BY <1>11, <2>2, LimitsAssumption
  <2>3. Len(all) \in Nat
    BY <1>6
  <2> QED
    BY <2>1, <2>2, <2>3, LimitsAssumption
<1>13. ASSUME kept \subseteq DOMAIN e PROVE left = e
  <2>1. kept = DOMAIN e
    <3>1. CASE Len(all) <= MAX_RECORDS
      <4>1. DOMAIN e \subseteq DOMAIN all
        BY <1>6
      <4> QED
        BY <1>10, <1>13, <3>1, <4>1
    <3>2. CASE Len(all) > MAX_RECORDS
      <4>1. Cardinality(kept) = MAX_RECORDS /\ Cardinality(kept) <= Len(e)
        BY <1>5, <1>6, <1>13, <3>2, FS_Subset
      <4>2. Cardinality(kept) = Cardinality(DOMAIN e)
        BY <1>6, <4>1, LimitsAssumption
      <4> QED
        BY <1>6, <1>13, <4>2, FS_Subset
    <3> QED
      BY <1>6, <3>1, <3>2, LimitsAssumption
  <2>2. \A n \in 1..Cardinality(DOMAIN e) : Nth(DOMAIN e, n) \in DOMAIN e
    BY <1>6, NthPosition, Positions
  <2>3. \A n \in DOMAIN e : all[n] = e[n]
    BY <1>6, <1>7
  <2>4. Pick(all, DOMAIN e) = Pick(e, DOMAIN e)
    BY <2>2, <2>3 DEF Pick
  <2> QED
    BY <1>8, <2>1, <2>4, PickedAll
<1>14. (left = all /\ kept = DOMAIN all) \/ Len(left) = MAX_RECORDS
  BY <1>6, <1>10, <1>11, LimitsAssumption
<1>15. \A i \in DOMAIN e : i \in DOMAIN all
  BY <1>6
<1> QED
  BY <1>5, <1>7, <1>9, <1>12, <1>13, <1>14, <1>15 DEF all, kept, left

\* A number above 0 has someone in it.
LEMMA SomeOne ==
  ASSUME NEW U, NEW s \in Seq(U), NEW C, Number(s, C) > 0
  PROVE  \E i \in DOMAIN s : s[i] \in C
<1> SUFFICES ASSUME ~ \E i \in DOMAIN s : s[i] \in C PROVE FALSE
  OBVIOUS
<1>1. {i \in DOMAIN s : s[i] \in C} = {}
  OBVIOUS
<1>2. Number(s, C) = 0
  BY <1>1, FS_EmptySet DEF Number
<1> QED
  BY <1>2

\* An import keeps the newest, as the session did before it.
LEMMA ImportKeepsNewest ==
  ASSUME NEW I \in SUBSET File, NEW e \in Seq(BroughtBy(I)), Len(e) <= MAX_RECORDS,
         NewestOf(e, I), NEW file \in File
  PROVE  NewestOf(LeftOf(e, file), I \cup {file})
<1> DEFINE J == I \cup {file}
           U == BroughtBy(J)
           all == AllOf(e, file)
           kept == KeptOf(e, file)
           left == LeftOf(e, file)
           src == file.source
<1>1. J \in SUBSET File /\ BroughtBy(I) \subseteq U
  BY DEF BroughtBy
<1>2. /\ Dated(U) /\ e \in Seq(U)
      /\ \A f \in J : Tagged(f) \in Seq(U) /\ \A n \in DOMAIN Tagged(f) : Tagged(f)[n].origin = f.source
  <2>1. e \in Seq(U)
    <3> HIDE DEF U
    <3> QED
      BY <1>1
  <2> QED
    BY <1>1, <2>1, FilesDated
<1>3. Tagged(file) \in Seq(U)
  BY <1>2
<1> HIDE DEF U
<1>4. /\ all \in Seq(U) /\ left \in Seq(U) /\ kept \in SUBSET DOMAIN all
      /\ \A i \in DOMAIN all : IF i \in DOMAIN e THEN all[i] = e[i] ELSE all[i].origin = src
      /\ Len(e) = MAX_RECORDS => Len(left) = MAX_RECORDS
      /\ (left = all /\ kept = DOMAIN all) \/ Len(left) = MAX_RECORDS
  BY <1>2, <1>3, ImportLeaves
<1>5. \A C : Number(left, C) = Cardinality({i \in kept : all[i] \in C})
  BY <1>2, <1>3, ImportLeaves
<1>6. \A n \in DOMAIN left : \E i \in kept : left[n] = all[i]
  BY <1>4, PickedSequence DEF LeftOf
<1>7. /\ \A i \in DOMAIN all : all[i].origin # src => i \in kept
      /\ \A i \in kept, j \in DOMAIN all \ kept : all[i].origin = src => all[i].when >= all[j].when
      /\ \A w \in Nat : /\ Len(e) = MAX_RECORDS
                        /\ \A i \in DOMAIN e : e[i].origin = src => e[i].when >= w
                        => \A j \in kept : all[j].origin = src => all[j].when >= w
  BY <1>2, <1>3, ImportLeaves
<1> SUFFICES ASSUME NEW r \in U
             PROVE  /\ \E f \in J : HeldIn(left, r) <= InFile(r, f)
                    /\ (\E f \in J : HeldIn(left, r) < InFile(r, f)) =>
                         /\ Len(left) = MAX_RECORDS
                         /\ \E b \in U : RecordKey(b) = RecordKey(r) /\ NoneOlder(left, b)
  BY DEF NewestOf, U
<1> DEFINE k == RecordKey(r)
           C == SameKey(U, k)
           here == Number(e, C)
           there == Number(Tagged(file), C)
<1>8. /\ HeldIn(left, r) = Number(left, C) /\ HeldIn(e, r) = here
      /\ \A f \in J : InFile(r, f) = Number(Tagged(f), C)
  BY <1>2, <1>4, CopiesCounted DEF HeldIn, InFile
<1>9. /\ here \in Nat /\ there \in Nat
      /\ Number(all, C) = IF here < there THEN there ELSE here
  BY <1>2, <1>3, MergedCopies DEF AllOf
<1>10. Number(left, C) \in Nat /\ \A f \in J : Number(Tagged(f), C) \in Nat
  BY <1>2, <1>4, NumbersAdd
<1>11. Number(left, C) <= Number(all, C)
  <2> DEFINE A == {i \in DOMAIN all : all[i] \in C}
             K == {i \in kept : all[i] \in C}
  <2>1. IsFiniteSet(A) /\ K \in SUBSET A
    BY <1>4, Positions, FS_Subset
  <2> HIDE DEF A, K
  <2>2. Cardinality(K) <= Cardinality(A)
    BY <2>1, FS_Subset
  <2> QED
    BY <1>5, <2>2 DEF Number, A, K
\* A passage of this key that was there before, and what is known of it.
<1>12. ASSUME NEW q \in BroughtBy(I), RecordKey(q) = k
       PROVE  /\ \E f \in I : here <= InFile(r, f)
              /\ (\E f \in I : here < InFile(r, f)) =>
                   /\ Len(e) = MAX_RECORDS
                   /\ \E b \in BroughtBy(I) : RecordKey(b) = k /\ NoneOlder(e, b)
  <2>1. HeldIn(e, q) = here /\ \A f \in I : InFile(q, f) = InFile(r, f)
    BY <1>8, <1>12 DEF HeldIn, InFile
  <2> HIDE DEF here, k
  <2> QED
    BY <1>12, <2>1 DEF NewestOf
<1>13. \E f \in J : HeldIn(left, r) <= InFile(r, f)
  <2>1. CASE here <= there
    <3>1. InFile(r, file) = there /\ file \in J
      BY <1>8
    <3> HIDE DEF here, there, C, J
    <3> QED
      BY <1>8, <1>9, <1>10, <1>11, <2>1, <3>1
  <2>2. CASE ~(here <= there)
    <3>1. here > 0
      BY <1>9, <2>2
    <3>2. PICK i \in DOMAIN e : e[i] \in C
      <4> HIDE DEF C
      <4> QED
        BY <3>1, SomeOne
    <3>3. e[i] \in BroughtBy(I) /\ RecordKey(e[i]) = k
      BY <3>2 DEF SameKey
    <3>4. PICK f \in I : here <= InFile(r, f)
      BY <1>12, <3>3
    <3>5. f \in J /\ InFile(r, f) \in Nat
      BY <1>8, <1>10
    <3> HIDE DEF here, there, C, J
    <3> QED
      BY <1>8, <1>9, <1>10, <1>11, <2>2, <3>4, <3>5
  <2> QED
    BY <2>1, <2>2
<1>14. ASSUME NEW f \in J, HeldIn(left, r) < InFile(r, f)
       PROVE  /\ Len(left) = MAX_RECORDS
              /\ \E b \in U : RecordKey(b) = k /\ NoneOlder(left, b)
  <2>1. CASE \E j \in DOMAIN all \ kept : all[j] \in C
    <3>1. PICK j \in DOMAIN all \ kept : all[j] \in C
      BY <2>1
    <3>2. Len(left) = MAX_RECORDS
      BY <1>4
    <3>3. all[j] \in U /\ RecordKey(all[j]) = k /\ all[j].origin = src
      BY <1>7, <3>1 DEF SameKey
    <3>4. NoneOlder(left, all[j])
      <4> SUFFICES ASSUME NEW n \in DOMAIN left, left[n].origin = all[j].origin
                   PROVE  left[n].when >= all[j].when
        BY DEF NoneOlder
      <4>1. PICK i \in kept : left[n] = all[i]
        BY <1>6
      <4> HIDE DEF all, kept, left, src, C
      <4> QED
        BY <1>7, <3>1, <3>3, <4>1
    <3> QED
      BY <3>2, <3>3, <3>4
  <2>2. CASE ~ \E j \in DOMAIN all \ kept : all[j] \in C
    <3>1. {i \in kept : all[i] \in C} = {i \in DOMAIN all : all[i] \in C}
      BY <1>4, <2>2
    <3>2. Number(left, C) = Number(all, C)
      BY <1>5, <3>1 DEF Number
    <3>3. f # file /\ here < InFile(r, f) /\ Number(Tagged(f), C) > 0
      <4>1. InFile(r, file) = there /\ InFile(r, f) = Number(Tagged(f), C)
        BY <1>8
      <4>2. InFile(r, f) \in Nat
        BY <1>10, <4>1
      <4> HIDE DEF here, there, C
      <4> QED
        BY <1>8, <1>9, <1>10, <1>14, <3>2, <4>1, <4>2
    <3>4. f \in I
      BY <3>3
    <3>5. PICK i \in DOMAIN Tagged(f) : Tagged(f)[i] \in C
      <4>1. Tagged(f) \in Seq(U)
        BY <1>2
      <4> HIDE DEF C
      <4> QED
        BY <3>3, <4>1, SomeOne
    <3>6. Tagged(f)[i] \in BroughtBy(I) /\ RecordKey(Tagged(f)[i]) = k
      BY <3>4, <3>5 DEF BroughtBy, SameKey
    <3>7. PICK b \in BroughtBy(I) : RecordKey(b) = k /\ NoneOlder(e, b) /\ Len(e) = MAX_RECORDS
      BY <1>12, <3>3, <3>4, <3>6
    <3>8. b \in U /\ b.when \in Nat
      BY <1>1, <1>2 DEF Dated
    <3>9. NoneOlder(left, b)
      <4> SUFFICES ASSUME NEW n \in DOMAIN left, left[n].origin = b.origin
                   PROVE  left[n].when >= b.when
        BY DEF NoneOlder
      <4>1. PICK m \in kept : left[n] = all[m]
        BY <1>6
      <4>2. CASE b.origin = src
        <5>1. \A x \in DOMAIN e : e[x].origin = src => e[x].when >= b.when
          BY <3>7, <4>2 DEF NoneOlder
        <5> HIDE DEF all, kept, left, src
        <5> QED
          BY <1>7, <3>7, <3>8, <4>1, <4>2, <5>1
      <4>3. CASE b.origin # src
        <5>1. m \in DOMAIN e /\ all[m] = e[m]
          BY <1>4, <4>1, <4>3
        <5> HIDE DEF all, kept, left, src
        <5> QED
          BY <3>7, <4>1, <5>1 DEF NoneOlder
      <4> QED
        BY <4>2, <4>3
    <3> QED
      BY <1>4, <3>7, <3>8, <3>9
  <2> QED
    BY <2>1, <2>2
<1> QED
  BY <1>13, <1>14

\* An import takes nothing from another source and gives it nothing.
LEMMA OtherSources ==
  ASSUME NEW U, Dated(U), NEW e \in Seq(U), Len(e) <= MAX_RECORDS,
         NEW file \in File, Tagged(file) \in Seq(U), NEW s, s # file.source
  PROVE  CountOf(LeftOf(e, file), s) = CountOf(e, s)
<1> DEFINE all == AllOf(e, file)
           kept == KeptOf(e, file)
           C == SameSource(U, s)
<1>1. /\ all \in Seq(U) /\ kept \in SUBSET DOMAIN all
      /\ \A i \in DOMAIN all : IF i \in DOMAIN e THEN all[i] = e[i] ELSE all[i].origin = file.source
      /\ Number(LeftOf(e, file), C) = Cardinality({i \in kept : all[i] \in C})
      /\ LeftOf(e, file) \in Seq(U)
  BY ImportLeaves
<1>2. /\ \A i \in DOMAIN e : i \in DOMAIN all
      /\ \A i \in DOMAIN all : all[i].origin # file.source => i \in kept
  BY ImportLeaves
<1>3. \A i \in DOMAIN e : e[i] \in U
  OBVIOUS
<1>4. {i \in kept : all[i] \in C} = {i \in DOMAIN e : e[i] \in C}
  <2> HIDE DEF all, kept
  <2> QED
    BY <1>1, <1>2, <1>3 DEF SameSource
<1> QED
  <2>1. CountOf(LeftOf(e, file), s) = Number(LeftOf(e, file), C) /\ CountOf(e, s) = Number(e, C)
    BY <1>1, CopiesCounted
  <2>2. Number(e, C) = Cardinality({i \in DOMAIN e : e[i] \in C})
    BY DEF Number
  <2> HIDE DEF all, kept, C
  <2> QED
    BY <1>1, <1>4, <2>1, <2>2

\* The counts after an import that changed the session.
NewCounts(counts, e, file) ==
  [s \in DOMAIN counts \cup {file.source} |->
     IF s = file.source THEN CountOf(LeftOf(e, file), s) ELSE counts[s]]

\* What an import leaves in the session.
LEMMA ImportLeft ==
  ASSUME NEW file, Import(file), DOMAIN snapshot = DOMAIN Empty,
         NEW e, e = snapshot.records,
         KeptOf(e, file) \subseteq DOMAIN e => LeftOf(e, file) = e
  PROVE  /\ imported' = imported \cup {file}
         /\ snapshot'.records = LeftOf(e, file)
         /\ \/ snapshot'.records = e /\ snapshot'.counts = snapshot.counts
            \/ snapshot'.counts = NewCounts(snapshot.counts, e, file)
<1> DEFINE merged == Merged(snapshot, file, AllOf(e, file), KeptOf(e, file))
<1>1. snapshot' = merged /\ imported' = imported \cup {file}
  BY DEF Import, AllOf, KeptOf, Replace
<1>2. \/ KeptOf(e, file) \subseteq DOMAIN e /\ merged = snapshot
      \/ /\ merged.records = LeftOf(e, file)
         /\ merged.counts = NewCounts(snapshot.counts, e, file)
  BY DEF Merged, LeftOf, NewCounts
<1> QED
  BY <1>1, <1>2

-----------------------------------------------------------------------------
(* The invariant                                                           *)

\* What the session holds, and what its list of sources says of it.
Holdings ==
  /\ snapshot.records \in Seq(Brought)
  /\ CountsAgree
  /\ NewestKept

\* The same in terms of the operators above.
LEMMA HoldingsOf ==
  Holdings <=> /\ snapshot.records \in Seq(BroughtBy(imported))
               /\ CountsAgree
               /\ NewestOf(snapshot.records, imported)
BY DEF Holdings, NewestKept, NewestOf, Brought, BroughtBy, Held, HeldIn, InFile, RoomOnlyForNewer, NoneOlder

\* An empty session holds what was brought to it.
LEMMA EmptyHoldings ==
  ASSUME snapshot = Empty, imported = {}
  PROVE  Holdings
<1>1. Brought = {} /\ snapshot.records = <<>> /\ snapshot.counts = <<>>
  BY DEF Brought, Empty
<1>2. NewestKept
  BY <1>1 DEF NewestKept
<1>3. \A s : CountOf(snapshot.records, s) = 0
  <2>1. \A s : {i \in DOMAIN snapshot.records : snapshot.records[i].origin = s} = {}
    BY <1>1
  <2> QED
    BY <2>1, FS_EmptySet DEF CountOf
<1>4. CountsAgree
  BY <1>1, <1>3, LimitsAssumption DEF CountsAgree
<1> QED
  BY <1>1, <1>2, <1>4 DEF Holdings

\* An import keeps the invariant.
LEMMA ImportHoldings ==
  ASSUME TypeOK, Holdings, NEW file \in File, Import(file)
  PROVE  Holdings'
<1> DEFINE U == BroughtBy(imported \cup {file})
<1>1. PICK e : e = snapshot.records
  OBVIOUS
<1>2. imported \in SUBSET File /\ DOMAIN snapshot = DOMAIN Empty
  BY DEF TypeOK
<1>3. /\ e \in Seq(BroughtBy(imported)) /\ Len(e) <= MAX_RECORDS /\ NewestOf(e, imported)
  BY <1>1, HoldingsOf DEF CountsAgree
<1>4. BroughtBy(imported) \subseteq U
  BY DEF BroughtBy
<1>5. Dated(U) /\ Tagged(file) \in Seq(U)
  BY <1>2, FilesDated
<1>6. e \in Seq(U)
  <2> HIDE DEF U
  <2> QED
    BY <1>3, <1>4
<1> HIDE DEF U
<1>7. /\ LeftOf(e, file) \in Seq(U) /\ Len(LeftOf(e, file)) <= MAX_RECORDS
      /\ KeptOf(e, file) \subseteq DOMAIN e => LeftOf(e, file) = e
  BY <1>3, <1>5, <1>6, ImportLeaves
<1>8. /\ imported' = imported \cup {file}
      /\ snapshot'.records = LeftOf(e, file)
      /\ \/ snapshot'.records = e /\ snapshot'.counts = snapshot.counts
         \/ snapshot'.counts = NewCounts(snapshot.counts, e, file)
  BY <1>1, <1>2, <1>7, ImportLeft
<1>9. NewestOf(LeftOf(e, file), imported \cup {file})
  BY <1>2, <1>3, ImportKeepsNewest
<1>10. ASSUME NEW s \in {f.source : f \in File}
       PROVE  CountOf(LeftOf(e, file), s) = IF s \in DOMAIN snapshot'.counts THEN snapshot'.counts[s] ELSE 0
  <2>1. CountOf(e, s) = IF s \in DOMAIN snapshot.counts THEN snapshot.counts[s] ELSE 0
    BY <1>1 DEF Holdings, CountsAgree
  <2>2. CASE snapshot'.records = e /\ snapshot'.counts = snapshot.counts
    BY <1>8, <2>1, <2>2
  <2>3. CASE snapshot'.counts = NewCounts(snapshot.counts, e, file)
    <3>1. CASE s = file.source
      BY <2>3, <3>1 DEF NewCounts
    <3>2. CASE s # file.source
      BY <1>3, <1>5, <1>6, <2>1, <2>3, <3>2, OtherSources DEF NewCounts
    <3> QED
      BY <3>1, <3>2
  <2> QED
    BY <1>8, <2>2, <2>3
<1>11. CountsAgree'
  BY <1>7, <1>8, <1>10 DEF CountsAgree
<1>12. /\ snapshot'.records \in Seq(BroughtBy(imported'))
       /\ NewestOf(snapshot'.records, imported')
  BY <1>7, <1>8, <1>9 DEF U
<1>13. Holdings' <=> /\ snapshot'.records \in Seq(BroughtBy(imported'))
                     /\ CountsAgree'
                     /\ NewestOf(snapshot'.records, imported')
  BY DEF Holdings, NewestKept, NewestOf, Brought, BroughtBy, Held, HeldIn, InFile, RoomOnlyForNewer, NoneOlder
<1> QED
  BY <1>11, <1>12, <1>13

\* The rest touches neither the passages nor their counts.
LEMMA HoldingsUndisturbed ==
  ASSUME Holdings, snapshot'.records = snapshot.records, snapshot'.counts = snapshot.counts,
         imported' = imported
  PROVE  Holdings'
BY DEF Holdings, CountsAgree, NewestKept, Brought, Held, RoomOnlyForNewer

\* And so does every step.
LEMMA HoldingsKept ==
  ASSUME TypeOK, Holdings, [Next]_vars
  PROVE  Holdings'
<1>1. CASE UNCHANGED vars
  BY <1>1, HoldingsUndisturbed DEF vars
<1>2. ASSUME NEW file \in File, Import(file) PROVE Holdings'
  BY <1>2, ImportHoldings
<1>3. CASE Clear
  <2>1. (snapshot = Empty /\ imported = {})'
    BY <1>3 DEF Clear, Replace
  <2>2. (snapshot = Empty /\ imported = {} => Holdings)'
    BY EmptyHoldings, PTL
  <2> QED
    BY <2>1, <2>2
<1>4. CASE Analyze
  BY <1>4, HoldingsUndisturbed DEF Analyze
<1>5. ASSUME NEW a \in analyses, AnalysisEnds(a) PROVE Holdings'
  <2>1. /\ snapshot'.records = snapshot.records /\ snapshot'.counts = snapshot.counts
        /\ imported' = imported
    BY <1>5 DEF AnalysisEnds, TypeOK, Empty
  <2> QED
    BY <2>1, HoldingsUndisturbed
<1> QED
  BY <1>1, <1>2, <1>3, <1>4, <1>5 DEF Next

\* Where the invariant holds, the list of sources is right and the newest are
\* kept, whatever was imported and in whatever order.
THEOREM HoldingsHold == Spec => []Holdings
<1>1. Init => Holdings
  BY EmptyHoldings DEF Init
<1>2. TypeOK /\ Holdings /\ [Next]_vars => Holdings'
  BY HoldingsKept
<1>3. SessionAgrees => TypeOK
  BY DEF SessionAgrees
<1> QED
  BY SessionAgreesHolds, <1>1, <1>2, <1>3, PTL DEF Spec

\* The list of sources counts what the session holds, and no import takes a
\* passage from another source (app.py:235-261).
THEOREM CountsAgreeHolds == Spec => []CountsAgree
<1>1. Holdings => CountsAgree
  BY DEF Holdings
<1> QED
  BY HoldingsHold, <1>1, PTL

\* Overlapping files in any order: no passage is held more often than a file
\* has it, and one is missing only from a full session that holds nothing older
\* of its source (app.py:203-246).
THEOREM NewestKeptHolds == Spec => []NewestKept
<1>1. Holdings => NewestKept
  BY DEF Holdings
<1> QED
  BY HoldingsHold, <1>1, PTL

-----------------------------------------------------------------------------
(* The page                                                                *)

\* What is still to be posted of a selection are files.
PartsAreFiles ==
  user.step = "import" =>
    user.parts \in Seq(File) /\ user = [step |-> "import", parts |-> user.parts, ok |-> user.ok]

LEMMA PartsStayFiles == PageSpec => []PartsAreFiles
<1>1. PageInit => PartsAreFiles
  BY DEF PageInit, IdleUser, PartsAreFiles
<1>2. ASSUME PartsAreFiles, [PageNext]_<<vars, page>> PROVE PartsAreFiles'
  <2> USE DEF PartsAreFiles
  <2>1. ASSUME NEW parts \in Selection, Imports(parts) PROVE PartsAreFiles'
    BY <2>1, SelectionAssumption DEF Imports
  <2>2. CASE PostsPart
    <3>1. /\ user.parts \in Seq(File) /\ user.parts # <<>>
          /\ user = [step |-> "import", parts |-> user.parts, ok |-> user.ok]
      BY <1>2, <2>2 DEF PostsPart
    <3>2. PICK ok : user' = [step |-> "import", parts |-> Tail(user.parts), ok |-> ok]
      BY <2>2, <3>1 DEF PostsPart
    <3> QED
      BY <3>1, <3>2
  <2>3. CASE UNCHANGED user
    BY <1>2, <2>3
  <2>4. CASE Clears \/ Analyzes
    BY <2>4 DEF Clears, Analyzes
  <2>5. CASE Imported \/ PostsClear \/ UserAnswered
    BY <2>5 DEF Imported, PostsClear, UserAnswered
  <2>6. CASE ImportFailed \/ PostsAnalyze \/ UserShown
    <3>1. user' = [step |-> "idle"] \/ user' = [step |-> "refresh"]
      BY <2>6 DEF ImportFailed, PostsAnalyze, UserShown, Finishes, IdleUser
    <3> QED
      BY <3>1
  <2>7. AutoGoesOn \/ BackGoesOn \/ ServerGoesOn \/ UNCHANGED page => UNCHANGED user
    BY DEF AutoGoesOn, AutoPosts, AutoAnswered, AutoShown, AutoLooksAgain,
           BackGoesOn, TimerFires, BackAnswered, BackShown, ServerGoesOn, page
  <2> QED
    BY <1>2, <2>1, <2>2, <2>3, <2>4, <2>5, <2>6, <2>7 DEF PageNext, UserGoesOn
<1> QED
  BY <1>1, <1>2, PTL DEF PageSpec

\* The page, with its user, its automatic requests and its refreshes, asks
\* nothing of the server but what any tab may ask at any time.
THEOREM PageIsATab == PageSpec => Spec
<1>1. PageInit => Init
  BY DEF PageInit
<1>2. PartsAreFiles /\ [PageNext]_<<vars, page>> => [Next]_vars
  <2> SUFFICES ASSUME PartsAreFiles, [PageNext]_<<vars, page>> PROVE [Next]_vars
    OBVIOUS
  <2>1. ASSUME Clears \/ Analyzes \/ \E parts \in Selection : Imports(parts) PROVE UNCHANGED vars
    BY <2>1 DEF Clears, Analyzes, Imports
  <2>2. CASE PostsPart
    <3>1. Head(user.parts) \in File
      BY <2>2 DEF PartsAreFiles, PostsPart
    <3> QED
      BY <2>2, <3>1 DEF PostsPart, Next
  <2>6. CASE PostsClear \/ PostsAnalyze
    BY <2>6 DEF PostsClear, PostsAnalyze, Next
  <2>7. CASE Imported \/ ImportFailed \/ UserAnswered \/ UserShown
    BY <2>7 DEF Imported, ImportFailed, UserAnswered, UserShown
  <2>3. CASE AutoGoesOn
    BY <2>3 DEF AutoGoesOn, AutoPosts, AutoAnswered, AutoShown, AutoLooksAgain, Next
  <2>4. CASE BackGoesOn
    BY <2>4 DEF BackGoesOn, TimerFires, BackAnswered, BackShown
  <2>5. CASE ServerGoesOn
    BY <2>5 DEF ServerGoesOn, Next
  <2> QED
    BY <2>1, <2>2, <2>3, <2>4, <2>5, <2>6, <2>7 DEF PageNext, UserGoesOn
<1> QED
  BY <1>1, <1>2, PartsStayFiles, PTL DEF PageSpec, Spec

\* So what holds of the session holds behind the page, too.
THEOREM PageSessionAgrees == PageSpec => [](SessionAgrees /\ CountsAgree /\ NewestKept)
BY SessionAgreesHolds, CountsAgreeHolds, NewestKeptHolds, PageIsATab, PTL
=============================================================================
