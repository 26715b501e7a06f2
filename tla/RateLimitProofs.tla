--------------------------- MODULE RateLimitProofs ---------------------------
(***************************************************************************)
(* The limiter lets through exactly its budget, for every rate, burst and  *)
(* number of callers, whatever is forgotten to make room.                  *)
(***************************************************************************)
EXTENDS RateLimit, TLAPS

USE ParametersAssumption

\* What an interval costs, taken apart.
LEMMA Product ==
  ASSUME NEW p \in Int, NEW q \in Int
  PROVE  Interval * p \in Int /\ Interval * (p - q) = Interval * p - Interval * q
  OBVIOUS

\* Moving a term across an inequality, for terms that are products.
LEMMA Shift ==
  ASSUME NEW x \in Int, NEW y \in Int, NEW z \in Int, NEW u \in Int, NEW v \in Int, x = y - z
  PROVE  x <= v - u <=> (u + y) - z <= v
  OBVIOUS

LEMMA ToleranceNat == Tolerance \in Nat
  BY DEF Tolerance

\* What hit starts from is never in the past.
LEMMA TatAhead ==
  ASSUME TypeOK, NEW k \in Key
  PROVE  Tat(k) \in Nat /\ Tat(k) >= now
  BY DEF TypeOK, Tat

\* Times in the history, and when they are paid for, are numbers.
LEMMA PaidByInt ==
  ASSUME TypeOK, NEW k \in Key, NEW i \in DOMAIN admitted[k]
  PROVE  admitted[k][i] \in Nat /\ PaidBy(k, i) \in Int
<1> DEFINE s == admitted[k]
<1>1. s \in Seq(Nat) /\ i \in DOMAIN s BY DEF TypeOK
<1>2. i \in Nat /\ Len(s) \in Nat /\ s[i] \in Nat
  <2> HIDE DEF s
  <2> QED BY <1>1
<1>3. Interval * (Len(s) - i + 1) \in Int
  <2> HIDE DEF s
  <2> QED BY <1>2
<1> QED BY <1>2, <1>3 DEF PaidBy

\* A window that ends with a request made now has room for it just when the
\* requests before it will have been paid for by now, give or take Tolerance.
LEMMA LastWindow ==
  ASSUME TypeOK, NEW k \in Key, NEW i \in DOMAIN admitted[k]
  PROVE  Interval * ((Len(admitted[k]) + 1) - i + 1 - Burst) <= now - admitted[k][i]
           <=> PaidBy(k, i) - Tolerance <= now
<1> DEFINE n == Len(admitted[k])
           x == Interval * ((n + 1) - i + 1 - Burst)
           y == Interval * (n - i + 1)
           z == Interval * (Burst - 1)
<1>1. n \in Nat /\ i \in 1..n /\ admitted[k][i] \in Nat /\ now \in Nat BY PaidByInt DEF TypeOK
<1>2. x \in Int /\ y \in Int /\ z \in Int /\ x = y - z
  <2> DEFINE p == n - i + 1
             q == Burst - 1
  <2>1. p \in Int /\ q \in Int /\ (n + 1) - i + 1 - Burst = p - q BY <1>1
  <2> HIDE DEF p, q, n
  <2>2. Interval * p \in Int /\ Interval * q \in Int /\ Interval * (p - q) = Interval * p - Interval * q
    BY <2>1, Product
  <2> QED BY <2>1, <2>2 DEF p, q, n
<1>3. PaidBy(k, i) = admitted[k][i] + y /\ Tolerance = z BY DEF PaidBy, Tolerance
<1>4. x <= now - admitted[k][i] <=> PaidBy(k, i) - Tolerance <= now
  <2> HIDE DEF x, y, z
  <2> QED BY <1>1, <1>2, <1>3, Shift
<1> QED BY <1>4

\* Appending a request made now adds the windows that end with it, no others.
LEMMA AppendWindows ==
  ASSUME TypeOK, NEW k \in Key, WithinBudget(admitted[k])
  PROVE  WithinBudget(Append(admitted[k], now)) <=>
           \A i \in DOMAIN admitted[k] : PaidBy(k, i) - Tolerance <= now
<1> DEFINE s == admitted[k]
           n == Len(s)
           t == Append(s, now)
<1>1. s \in Seq(Nat) /\ n \in Nat /\ now \in Nat BY DEF TypeOK
<1>2. DOMAIN t = 1..(n + 1) /\ DOMAIN s = 1..n /\ t[n + 1] = now /\ \A i \in 1..n : t[i] = s[i]
  BY <1>1
<1>3. ASSUME WithinBudget(t), NEW i \in 1..n
      PROVE  PaidBy(k, i) - Tolerance <= now
  <2>1. i \in DOMAIN t /\ n + 1 \in DOMAIN t /\ i <= n + 1 BY <1>1, <1>2, <1>3
  <2>2. Interval * ((n + 1) - i + 1 - Burst) <= t[n + 1] - t[i]
    <3> HIDE DEF t, n
    <3> QED BY <1>3, <2>1 DEF WithinBudget
  <2> QED BY <2>2, <1>2, <1>3, LastWindow
<1>4. ASSUME \A i \in 1..n : PaidBy(k, i) - Tolerance <= now,
             NEW i \in 1..(n + 1), NEW j \in 1..(n + 1), i <= j
      PROVE  Interval * (j - i + 1 - Burst) <= t[j] - t[i]
  <2>1. CASE j \in 1..n
    <3>1. i \in 1..n BY <2>1, <1>4, <1>1
    <3> QED BY <2>1, <3>1, <1>2, <1>4 DEF WithinBudget
  <2>2. CASE j = n + 1 /\ i \in 1..n
    <3>1. Interval * ((n + 1) - i + 1 - Burst) <= now - s[i] BY <2>2, <1>2, <1>4, LastWindow
    <3> QED BY <3>1, <2>2, <1>2
  <2>3. CASE j = n + 1 /\ i = n + 1
    <3>1. Interval * (1 - Burst) <= 0 OBVIOUS
    <3>2. j - i + 1 - Burst = 1 - Burst BY <2>3, <1>1
    <3>3. t[j] - t[i] = 0 BY <2>3, <1>1, <1>2
    <3> QED BY <3>1, <3>2, <3>3
  <2> QED BY <2>1, <2>2, <2>3, <1>1
<1> QED BY <1>2, <1>3, <1>4 DEF WithinBudget

\* The stored number stands for the whole history: a request is let through
\* just when every window leaves room for it.
LEMMA AllowsExactly ==
  ASSUME Budgeted, NEW k \in Key
  PROVE  Allows(k) <=> WithinBudget(Append(admitted[k], now))
<1>1. TypeOK /\ WithinBudget(admitted[k]) /\ now \in Nat /\ Tat(k) \in Nat /\ Tolerance \in Nat
  BY TatAhead, ToleranceNat DEF Budgeted, TypeOK
<1>2. \A i \in DOMAIN admitted[k] : PaidBy(k, i) \in Int BY <1>1, PaidByInt
<1>3. ASSUME Allows(k), NEW i \in DOMAIN admitted[k] PROVE PaidBy(k, i) - Tolerance <= now
  <2>1. PaidBy(k, i) <= Tat(k) BY DEF Budgeted, TatIsDebt
  <2> QED BY <2>1, <1>1, <1>2, <1>3 DEF Allows
<1>4. ASSUME \A i \in DOMAIN admitted[k] : PaidBy(k, i) - Tolerance <= now PROVE Allows(k)
  <2>1. CASE Tat(k) = now BY <2>1, <1>1 DEF Allows
  <2>2. CASE Tat(k) # now
    <3>1. k \in DOMAIN tat /\ Tat(k) = tat[k] BY <2>2 DEF Tat
    <3>2. PICK i \in DOMAIN admitted[k] : PaidBy(k, i) = tat[k] BY <3>1 DEF Budgeted, TatIsDebt
    <3> QED BY <3>1, <3>2, <1>1, <1>4 DEF Allows
  <2> QED BY <2>1, <2>2
<1> QED BY <1>1, <1>3, <1>4, AppendWindows

\* Making room forgets only entries that lie in the past.
LEMMA KeepsAhead ==
  ASSUME NEW S, NEW entries \in [S -> Nat], now \in Nat
  PROVE  /\ DOMAIN Kept(entries) \subseteq S
         /\ \A k \in DOMAIN Kept(entries) : Kept(entries)[k] = entries[k]
         /\ \A k \in S \ DOMAIN Kept(entries) : entries[k] <= now
         /\ Kept(entries) \in [DOMAIN Kept(entries) -> Nat]
  BY DEF Kept

\* A request that is let through.
LEMMA HitStep == ASSUME Budgeted, NEW k \in Key, Hit(k) PROVE Budgeted'
<1> DEFINE entries == [j \in DOMAIN tat \cup {k} |-> IF j = k THEN Tat(k) + Interval ELSE tat[j]]
           n == Len(admitted[k])
<1>1. TypeOK BY DEF Budgeted
<1>2. now' = now /\ now \in Nat /\ backend' = backend BY <1>1 DEF Hit, TypeOK
<1>3. entries \in [DOMAIN tat \cup {k} -> Nat] BY <1>1, TatAhead DEF TypeOK
<1>4. tat' = Kept(entries) BY DEF Hit
<1>5. admitted[k] \in Seq(Nat) /\ n \in Nat BY <1>1 DEF TypeOK
<1>6. /\ admitted' \in [Key -> Seq(Nat)]
      /\ admitted'[k] = Append(admitted[k], now)
      /\ \A j \in Key \ {k} : admitted'[j] = admitted[j]
  BY <1>1, <1>2 DEF Hit, TypeOK
<1>7. /\ DOMAIN tat' \subseteq DOMAIN tat \cup {k}
      /\ \A j \in DOMAIN tat' : tat'[j] = entries[j]
      /\ \A j \in (DOMAIN tat \cup {k}) \ DOMAIN tat' : entries[j] <= now
      /\ tat' \in [DOMAIN tat' -> Nat]
  <2> HIDE DEF entries
  <2> QED BY <1>2, <1>3, <1>4, KeepsAhead
<1>8. TypeOK' BY <1>1, <1>2, <1>6, <1>7 DEF TypeOK
<1>9. \A j \in Key : WithinBudget(admitted'[j])
  <2>1. WithinBudget(Append(admitted[k], now)) BY AllowsExactly DEF Hit
  <2>2. \A j \in Key : WithinBudget(admitted[j]) BY DEF Budgeted
  <2> QED BY <2>1, <2>2, <1>6
<1>10. ASSUME NEW j \in Key, j # k
       PROVE  /\ \A i \in DOMAIN admitted'[j] : admitted'[j][i] <= now'
              /\ \A i \in DOMAIN admitted'[j] : PaidBy(j, i)' <= Tat(j)'
              /\ j \in DOMAIN tat' => \E i \in DOMAIN admitted'[j] : PaidBy(j, i)' = tat'[j]
  <2>1. admitted'[j] = admitted[j] BY <1>6, <1>10
  <2>2. Tat(j)' = Tat(j)
    <3>1. CASE j \in DOMAIN tat'
      <4>1. j \in DOMAIN tat /\ tat'[j] = tat[j] BY <3>1, <1>7, <1>10
      <4> QED BY <3>1, <4>1, <1>2 DEF Tat
    <3>2. CASE j \notin DOMAIN tat' /\ j \in DOMAIN tat
      <4>1. tat[j] <= now BY <3>2, <1>7, <1>10
      <4>2. tat[j] \in Nat BY <3>2, <1>1 DEF TypeOK
      <4> QED BY <3>2, <4>1, <4>2, <1>2 DEF Tat
    <3>3. CASE j \notin DOMAIN tat' /\ j \notin DOMAIN tat BY <3>3, <1>2 DEF Tat
    <3> QED BY <3>1, <3>2, <3>3
  <2>3. \A i \in DOMAIN admitted[j] : PaidBy(j, i)' = PaidBy(j, i) BY <2>1 DEF PaidBy
  <2>4. j \in DOMAIN tat' => j \in DOMAIN tat /\ tat'[j] = tat[j] BY <1>7, <1>10
  <2> QED BY <2>1, <2>2, <2>3, <2>4, <1>2 DEF Budgeted, TatIsDebt
<1>11. /\ \A i \in DOMAIN admitted'[k] : admitted'[k][i] <= now'
       /\ \A i \in DOMAIN admitted'[k] : PaidBy(k, i)' <= Tat(k)'
       /\ k \in DOMAIN tat' => \E i \in DOMAIN admitted'[k] : PaidBy(k, i)' = tat'[k]
  <2>1. /\ DOMAIN admitted'[k] = 1..(n + 1) /\ Len(admitted'[k]) = n + 1
        /\ admitted'[k][n + 1] = now /\ \A i \in 1..n : admitted'[k][i] = admitted[k][i]
    BY <1>2, <1>5, <1>6
  <2>2. Tat(k) \in Nat /\ Tat(k) >= now /\ Tat(k) + Interval > now BY <1>1, <1>2, TatAhead
  <2>3. Tat(k)' = Tat(k) + Interval
    <3>1. entries[k] = Tat(k) + Interval OBVIOUS
    <3>2. k \in DOMAIN tat' /\ tat'[k] = entries[k]
      <4> HIDE DEF entries
      <4> QED BY <3>1, <1>2, <1>7, <2>2
    <3> QED BY <3>1, <3>2, <2>2, <1>2 DEF Tat
  <2>4. ASSUME NEW i \in 1..n PROVE PaidBy(k, i)' = PaidBy(k, i) + Interval
    <3>1. PaidBy(k, i)' = admitted[k][i] + Interval * ((n + 1) - i + 1) BY <2>1 DEF PaidBy
    <3>2. Interval * ((n + 1) - i + 1) = Interval * (n - i + 1) + Interval
          /\ Interval * (n - i + 1) \in Int
      BY <1>5
    <3>3. admitted[k][i] \in Nat BY <1>5
    <3> QED BY <3>1, <3>2, <3>3 DEF PaidBy
  <2>5. ASSUME NEW i, i = n + 1 PROVE PaidBy(k, i)' = now + Interval
    <3>1. PaidBy(k, i)' = now + Interval * ((n + 1) - (n + 1) + 1) BY <2>1, <2>5 DEF PaidBy
    <3> QED BY <3>1, <1>5
  <2>6. \A i \in 1..n : admitted[k][i] <= now /\ PaidBy(k, i) <= Tat(k) /\ PaidBy(k, i) \in Int
    BY <1>1, <1>5, PaidByInt DEF Budgeted, TatIsDebt
  <2>7. \E i \in 1..(n + 1) : PaidBy(k, i)' = Tat(k) + Interval
    <3>1. CASE Tat(k) = now
      <4>1. PICK i \in 1..(n + 1) : i = n + 1 BY <1>5
      <4> QED BY <3>1, <4>1, <2>5
    <3>2. CASE Tat(k) # now
      <4>1. k \in DOMAIN tat /\ Tat(k) = tat[k] BY <3>2 DEF Tat
      <4>2. PICK i \in 1..n : PaidBy(k, i) = tat[k] BY <4>1, <1>5 DEF Budgeted, TatIsDebt
      <4> QED BY <4>1, <4>2, <2>4, <1>5
    <3> QED BY <3>1, <3>2
  <2>8. ASSUME NEW i \in 1..(n + 1) PROVE admitted'[k][i] <= now
    <3>1. CASE i \in 1..n BY <3>1, <2>1, <2>6
    <3>2. CASE i = n + 1 BY <3>2, <2>1, <1>2
    <3> QED BY <3>1, <3>2, <1>5
  <2>9. ASSUME NEW i \in 1..(n + 1) PROVE PaidBy(k, i)' <= Tat(k)'
    <3>1. CASE i \in 1..n BY <3>1, <2>2, <2>3, <2>4, <2>6
    <3>2. CASE i = n + 1 BY <3>2, <1>2, <2>2, <2>3, <2>5
    <3> QED BY <3>1, <3>2, <1>5
  <2>10. k \in DOMAIN tat' => tat'[k] = Tat(k) + Interval BY <1>7
  <2> QED BY <2>1, <2>7, <2>8, <2>9, <2>10, <1>2
<1>12. TatIsDebt' BY <1>10, <1>11 DEF TatIsDebt
<1> QED BY <1>8, <1>9, <1>12 DEF Budgeted

\* An entry that lapses lay in the past; time going by changes no entry.
LEMMA TimeStep == ASSUME Budgeted, Tick \/ \E k \in Key : Lapse(k) PROVE Budgeted'
<1>1. TypeOK BY DEF Budgeted
<1>2. TypeOK'
  <2>1. CASE Tick BY <2>1, <1>1 DEF Tick, TypeOK
  <2>2. ASSUME NEW k \in Key, Lapse(k) PROVE TypeOK'
    <3>1. DOMAIN tat' = DOMAIN tat \ {k} /\ tat' \in [DOMAIN tat' -> Nat]
      BY <2>2, <1>1 DEF Lapse, TypeOK
    <3>2. UNCHANGED <<backend, now, admitted>> BY <2>2 DEF Lapse
    <3> QED BY <3>1, <3>2, <1>1 DEF TypeOK
  <2> QED BY <2>1, <2>2
<1>3. admitted' = admitted /\ now' >= now /\ now \in Nat /\ now' \in Nat
  <2>1. CASE Tick BY <2>1, <1>1 DEF Tick, TypeOK
  <2>2. ASSUME NEW k \in Key, Lapse(k) PROVE admitted' = admitted /\ now' = now BY <2>2 DEF Lapse
  <2> QED BY <2>1, <2>2, <1>1 DEF TypeOK
<1>4. ASSUME NEW j \in Key PROVE Tat(j)' >= Tat(j) /\ Tat(j)' \in Nat
  <2>1. Tat(j)' \in Nat BY <1>2, <1>3 DEF Tat, TypeOK
  <2>2. CASE Tick BY <2>2, <1>1 DEF Tick, Tat, TypeOK
  <2>3. ASSUME NEW k \in Key, Lapse(k) PROVE Tat(j)' >= Tat(j)
    <3>1. k \in DOMAIN tat /\ tat[k] < now /\ now' = now BY <2>3 DEF Lapse
    <3>2. DOMAIN tat' = DOMAIN tat \ {k} /\ \A i \in DOMAIN tat' : tat'[i] = tat[i] BY <2>3 DEF Lapse
    <3>3. Tat(j)' = Tat(j)
      <4>1. CASE j = k BY <4>1, <3>1, <3>2, <1>1 DEF Tat, TypeOK
      <4>2. CASE j # k BY <4>2, <3>1, <3>2 DEF Tat
      <4> QED BY <4>1, <4>2
    <3> QED BY <3>3, <1>1, TatAhead DEF TypeOK
  <2> QED BY <2>1, <2>2, <2>3
<1>5. ASSUME NEW j \in Key, NEW i \in DOMAIN admitted[j]
      PROVE  admitted[j][i] <= now' /\ PaidBy(j, i)' <= Tat(j)'
  <2>1. admitted[j][i] \in Nat /\ PaidBy(j, i) \in Int BY <1>1, PaidByInt
  <2>2. PaidBy(j, i)' = PaidBy(j, i) BY <1>3 DEF PaidBy
  <2>3. admitted[j][i] <= now /\ PaidBy(j, i) <= Tat(j) BY DEF Budgeted, TatIsDebt
  <2> QED BY <2>1, <2>2, <2>3, <1>1, <1>3, <1>4, TatAhead
<1>6. ASSUME NEW j \in Key, j \in DOMAIN tat'
      PROVE  \E i \in DOMAIN admitted[j] : PaidBy(j, i)' = tat'[j]
  <2>1. j \in DOMAIN tat /\ tat'[j] = tat[j] BY <1>6 DEF Tick, Lapse
  <2>2. \A i \in DOMAIN admitted[j] : PaidBy(j, i)' = PaidBy(j, i) BY <1>3 DEF PaidBy
  <2> QED BY <2>1, <2>2 DEF Budgeted, TatIsDebt
<1>7. TatIsDebt' BY <1>3, <1>5, <1>6 DEF TatIsDebt
<1> QED BY <1>2, <1>3, <1>7 DEF Budgeted

\* The inductive invariant: types, budgets, and an entry for what is owed.
THEOREM BudgetedHolds == Spec => []Budgeted
<1>1. Init => Budgeted
  BY DEF Init, Budgeted, TypeOK, TatIsDebt, WithinBudget, Tat
<1>2. Budgeted /\ [Next]_vars => Budgeted'
  <2> SUFFICES ASSUME Budgeted, [Next]_vars PROVE Budgeted' OBVIOUS
  <2>1. CASE UNCHANGED vars
    BY <2>1 DEF vars, Budgeted, TypeOK, TatIsDebt, WithinBudget, Tat, PaidBy
  <2> QED BY <2>1, HitStep, TimeStep DEF Next
<1> QED BY <1>1, <1>2, PTL DEF Spec

\* The limiter is exact (ratelimit.py:10), for any rate, burst and callers.
THEOREM ExactBudgetHolds == Spec => []ExactBudget
<1>1. Budgeted => ExactBudget BY AllowsExactly DEF ExactBudget, Budgeted
<1> QED BY <1>1, BudgetedHolds, PTL
=============================================================================
