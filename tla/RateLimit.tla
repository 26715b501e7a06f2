------------------------------ MODULE RateLimit ------------------------------
(***************************************************************************)
(* The limiter of POST /consent/authorize (remembrance-consent/app/        *)
(* ratelimit.py).  One number for each caller, the theoretical arrival     *)
(* time (TAT), stands for the whole history of the caller's requests.  The *)
(* in-process limiter forgets entries when it holds too many, and Redis    *)
(* lets an entry lapse; the budget must come out the same.                 *)
(*                                                                         *)
(* A hit is one step: the in-process limiter holds its lock, Redis runs    *)
(* the script alone.  Time is counted in ticks of a clock that does not go *)
(* back; the rounding of floating point numbers is left out.               *)
(***************************************************************************)
EXTENDS Integers, Sequences, FiniteSets

CONSTANTS
  Key,        \* path and caller: what the middleware limits by
  Interval,   \* T, the emission interval (60 s / rate_per_minute)
  Burst,      \* requests that may arrive at once
  MAX_KEYS,   \* entries the in-process limiter holds before it forgets some
  MaxTime     \* bound: the last tick

\* _parameters refuses a rate or a burst below 1.
ASSUME ParametersAssumption ==
  Interval \in Nat \ {0} /\ Burst \in Nat \ {0} /\ MAX_KEYS \in Nat /\ MaxTime \in Nat

VARIABLES
  backend,   \* rate_limit_backend of the settings
  now,       \* the limiter's clock
  tat,       \* the stored TAT of each caller it has one for
  admitted   \* history: when each caller's requests were let through

vars == <<backend, now, tat, admitted>>

Tolerance == Interval * (Burst - 1)

\* What hit starts from: no entry counts like one that lies in the past.
Tat(k) == IF k \in DOMAIN tat /\ tat[k] > now THEN tat[k] ELSE now

\* Variant: the tolerance is one request too wide.  ExactBudget fails.
AllowsOneMore(k) == now >= Tat(k) - Interval * Burst

Allows(k) == now >= Tat(k) - Tolerance

Init ==
  /\ backend \in {"memory", "redis"}
  /\ now = 0
  /\ tat = <<>>
  /\ admitted = [k \in Key |-> <<>>]

\* Variant: making room drops entries that still count.  Budgeted fails.
KeptLater(entries) ==
  IF backend = "memory" /\ Cardinality(DOMAIN entries) > MAX_KEYS
  THEN [k \in {j \in DOMAIN entries : entries[j] > now + Interval} |-> entries[k]]
  ELSE entries

Kept(entries) ==
  IF backend = "memory" /\ Cardinality(DOMAIN entries) > MAX_KEYS
  THEN [k \in {j \in DOMAIN entries : entries[j] > now} |-> entries[k]]
  ELSE entries

\* hit lets the request through; a refused one changes nothing.
Hit(k) ==
  /\ Allows(k)
  /\ tat' = Kept([j \in DOMAIN tat \cup {k} |-> IF j = k THEN Tat(k) + Interval ELSE tat[j]])
  /\ admitted' = [admitted EXCEPT ![k] = Append(@, now)]
  /\ UNCHANGED <<backend, now>>

\* Redis drops the entry some time after its TAT has passed (PX).
Lapse(k) ==
  /\ backend = "redis"
  /\ k \in DOMAIN tat /\ tat[k] < now
  /\ tat' = [j \in DOMAIN tat \ {k} |-> tat[j]]
  /\ UNCHANGED <<backend, now, admitted>>

Tick ==
  /\ now < MaxTime
  /\ now' = now + 1
  /\ UNCHANGED <<backend, tat, admitted>>

Next == Tick \/ \E k \in Key : Hit(k) \/ Lapse(k)

Spec == Init /\ [][Next]_vars
-----------------------------------------------------------------------------
(* Properties                                                              *)

TypeOK ==
  /\ backend \in {"memory", "redis"}
  /\ now \in Nat
  /\ DOMAIN tat \subseteq Key /\ tat \in [DOMAIN tat -> Nat]
  /\ admitted \in [Key -> Seq(Nat)]

\* The budget, said of the history alone: in no window of time do more than
\* Burst requests come through, beyond one for each interval of its length.
WithinBudget(times) ==
  \A i, j \in DOMAIN times :
    i <= j => Interval * (j - i + 1 - Burst) <= times[j] - times[i]

\* "It is exact" (ratelimit.py:10): at every moment a request is let through if
\* and only if the caller's whole history leaves room for it in every window,
\* whatever other callers did and whichever entries were forgotten meanwhile.
ExactBudget ==
  \A k \in Key :
    /\ WithinBudget(admitted[k])
    /\ Allows(k) <=> WithinBudget(Append(admitted[k], now))

-----------------------------------------------------------------------------
(* What makes it true: the inductive invariant                             *)

\* When the requests from the i-th on have been paid for, one an interval.
PaidBy(k, i) == admitted[k][i] + Interval * (Len(admitted[k]) - i + 1)

\* An entry is the latest of these times; none that was forgotten lies ahead.
TatIsDebt ==
  \A k \in Key :
    /\ \A i \in DOMAIN admitted[k] : admitted[k][i] <= now
    /\ \A i \in DOMAIN admitted[k] : PaidBy(k, i) <= Tat(k)
    /\ k \in DOMAIN tat => \E i \in DOMAIN admitted[k] : PaidBy(k, i) = tat[k]

Budgeted ==
  /\ TypeOK
  /\ TatIsDebt
  /\ \A k \in Key : WithinBudget(admitted[k])
=============================================================================
