---------------------- MODULE RevocationCascadeProofs ----------------------
(***************************************************************************)
(* What a cascade deletes, and what it leaves, for any number of grants,   *)
(* artifacts, workers and faults, and any scopes that overlap: Sound is an *)
(* inductive invariant.                                                    *)
(***************************************************************************)
EXTENDS RevocationCascade, TLAPS

USE ItemAssumption, TagAssumption, SourceAssumption, BoundAssumption DEF Item, Artifact

-----------------------------------------------------------------------------
(* Runs                                                                    *)

Working == {"work", "object", "tombstone"}

LEMMA Shapes ==
  ASSUME TypeOK, NEW w \in Worker
  PROVE  /\ run[w] \in Run
         /\ \/ run[w] = Idle /\ run[w].step = "idle"
            \/ run[w].step \in {"tokens", "complete"} /\ run[w].grant \in Grant
            \/ /\ run[w].step = "check" /\ run[w].grant \in Grant /\ run[w].left \in BOOLEAN
               /\ run[w].kind \in {"tokens", "delivery", "audio", "model"}
            \/ /\ run[w].step \in Working
               /\ run[w].grant \in Grant /\ run[w].kind \in {"tokens", "delivery", "audio", "model"}
               /\ run[w].todo \subseteq Item
<1>1. run[w] \in Run BY DEF TypeOK
<1> QED BY <1>1 DEF Run, Idle, Working

LEMMA Shortly ==
  ASSUME NEW s \in {"tokens", "complete"}, NEW g \in Grant
  PROVE  [step |-> s, grant |-> g] \in Run
  BY DEF Run

LEMMA Checking ==
  ASSUME NEW g \in Grant, NEW k \in {"tokens", "delivery", "audio", "model"}, NEW left \in BOOLEAN
  PROVE  [step |-> "check", grant |-> g, kind |-> k, left |-> left] \in Run
  BY DEF Run

LEMMA AtLength ==
  ASSUME NEW s \in Working, NEW g \in Grant, NEW k \in {"tokens", "delivery", "audio", "model"},
         NEW todo \in SUBSET Item
  PROVE  [step |-> s, grant |-> g, kind |-> k, todo |-> todo] \in Run
  BY DEF Run, Working

LEMMA Stepped ==
  ASSUME TypeOK, NEW w \in Worker, NEW r \in Run, run' = [run EXCEPT ![w] = r]
  PROVE  /\ run' \in [Worker -> Run] /\ run'[w] = r
         /\ \A v \in Worker : v # w => run'[v] = run[v]
  BY DEF TypeOK

LEMMA ScopeFixed == \A g : scope(g)' = scope(g)
  BY DEF scope, model_scope, audio_scope, delivery_scope

\* A run whose final check, if it is at one, has counted nothing yet.
Fresh(r) == r.step \notin {"check", "complete"} \/ (r.step = "check" /\ r.kind = "tokens")

LEMMA FreshCountsNothing == ASSUME NEW w \in Worker, Fresh(run'[w]) PROVE Counted(w)' = {}
  BY DEF Fresh, Counted

\* What was found stays found while items only leave "live", and no run has
\* counted more and no request is completed.
LEMMA Kept ==
  ASSUME Sound, late' = late,
         \A v \in Worker : Fresh(run'[v]) \/ (run'[v] = run[v] /\ missed'[v] = missed[v]),
         \A i \in Item : status'[i] = "live" => status[i] = "live",
         \A g \in Grant : request'[g] = "COMPLETE" => request[g] = "COMPLETE"
  PROVE  (\A v \in Worker : NoneMissed(v)') /\ (\A g \in Grant : NoneLeft(g)')
<1>1. ASSUME NEW v \in Worker PROVE NoneMissed(v)'
  <2>1. CASE Fresh(run'[v]) BY <2>1, FreshCountsNothing DEF NoneMissed
  <2>2. CASE run'[v] = run[v] /\ missed'[v] = missed[v]
    <3>1. Counted(v)' = Counted(v) /\ Counted(v) \subseteq Item
      BY <2>2, ScopeFixed DEF Counted
    <3>2. NoneMissed(v) BY DEF Sound
    <3> QED BY <2>2, <3>1, <3>2 DEF NoneMissed
  <2> QED BY <2>1, <2>2
<1>2. ASSUME NEW g \in Grant PROVE NoneLeft(g)'
  <2>1. scope(g)' = scope(g) /\ scope(g) \subseteq Item
    BY ScopeFixed DEF scope, model_scope, audio_scope, delivery_scope
  <2>2. NoneLeft(g) BY DEF Sound
  <2> QED BY <2>1, <2>2 DEF NoneLeft
<1> QED BY <1>1, <1>2

\* The same, of a step that moves one run to a place where it has counted nothing.
LEMMA KeptMoving ==
  ASSUME Sound, NEW w \in Worker, NEW r \in Run, run' = [run EXCEPT ![w] = r], Fresh(r),
         UNCHANGED history,
         \A i \in Item : status'[i] = "live" => status[i] = "live",
         \A g \in Grant : request'[g] = "COMPLETE" => request[g] = "COMPLETE"
  PROVE  (\A v \in Worker : NoneMissed(v)') /\ (\A g \in Grant : NoneLeft(g)')
<1>1. TypeOK BY DEF Sound
<1>2. run'[w] = r /\ \A v \in Worker : v # w => run'[v] = run[v] BY <1>1, Stepped
<1> QED BY <1>2, Kept DEF history

LEMMA Start == Init => Sound
<1> SUFFICES ASSUME Init PROVE Sound OBVIOUS
<1>1. \A w \in Worker : run[w] = Idle /\ run[w].step = "idle" /\ locked[w] = {} BY DEF Init, Idle
<1>2. TypeOK BY DEF Init, TypeOK, Run
<1>3. \A w \in Worker : Listed(w) /\ Holds(w) BY <1>1 DEF Listed, Holds
<1>4. /\ \A w \in Worker : NoneMissed(w)
      /\ \A g \in Grant : NoneLeft(g)
  BY <1>1 DEF Init, NoneMissed, Counted, NoneLeft
<1>5. DeletedOnce /\ TombstonesErased BY DEF Init, DeletedOnce, TombstonesErased
<1> QED BY <1>1, <1>2, <1>3, <1>4, <1>5 DEF Sound

-----------------------------------------------------------------------------
(* Steps that touch no item                                                *)

\* A step of one run that neither locks nor deletes.
LEMMA RunStep ==
  ASSUME Sound, NEW w \in Worker, NEW r \in Run, run' = [run EXCEPT ![w] = r],
         UNCHANGED <<status, objects, deleted>>, TypeOK',
         r.step \notin {"object", "tombstone"},
         r.step = "work" => r.todo \subseteq CASE r.kind = "tokens" -> {}
                              [] r.kind = "delivery" -> Delivery
                              [] r.kind = "audio" -> Audio
                              [] r.kind = "model" -> Model,
         locked' = [locked EXCEPT ![w] = {}],
         \A v \in Worker : NoneMissed(v)',
         \A g \in Grant : NoneLeft(g)'
  PROVE  Sound'
<1>1. TypeOK BY DEF Sound
<1>2. run'[w] = r /\ \A v \in Worker : v # w => run'[v] = run[v] BY <1>1, Stepped
<1>3. locked'[w] = {} /\ \A v \in Worker : v # w => locked'[v] = locked[v] BY <1>1 DEF TypeOK
<1>4. \A v \in Worker : Listed(v)' /\ Holds(v)'
  <2> TAKE v \in Worker
  <2>1. CASE v = w BY <1>2, <1>3, <2>1 DEF Listed, Holds
  <2>2. CASE v # w BY <1>2, <1>3, <2>2 DEF Sound, Listed, Holds
  <2> QED BY <2>1, <2>2
<1>5. \A u, v \in Worker : u # v => locked'[u] \cap locked'[v] = {} BY <1>3 DEF Sound
<1>6. DeletedOnce' /\ TombstonesErased' BY DEF Sound, DeletedOnce, TombstonesErased
<1> QED BY <1>4, <1>5, <1>6 DEF Sound

\* A step of no run, that changes no item.
LEMMA Quiet ==
  ASSUME Sound, UNCHANGED <<status, objects, deleted, history, locked, run>>, TypeOK',
         \A g \in Grant : request'[g] = "COMPLETE" => request[g] = "COMPLETE"
  PROVE  Sound'
<1>1. \A w \in Worker : Listed(w)' /\ Holds(w)' BY DEF Sound, Listed, Holds
<1>2. \A v, w \in Worker : v # w => locked'[v] \cap locked'[w] = {} BY DEF Sound
<1>3. DeletedOnce' /\ TombstonesErased' BY DEF Sound, DeletedOnce, TombstonesErased
<1>4. (\A w \in Worker : NoneMissed(w)') /\ (\A g \in Grant : NoneLeft(g)')
  BY Kept DEF history
<1> QED BY <1>1, <1>2, <1>3, <1>4 DEF Sound

\* A run that holds no row.
LEMMA Unlocked ==
  ASSUME Sound, NEW w \in Worker, run[w].step \notin {"object", "tombstone"}
  PROVE  locked = [locked EXCEPT ![w] = {}]
  BY DEF Sound, TypeOK, Holds

-----------------------------------------------------------------------------
(* The actions of the grants' owners, the sweeper and the runs             *)

LEMMA ConsentStep == ASSUME Sound, NEW g \in Grant, Consent(g) PROVE Sound'
<1>1. TypeOK BY DEF Sound
<1>2. UNCHANGED <<status, objects, deleted, history, locked, run, completed, faults>>
  BY DEF Consent, IssueToken, Revoke, RevokeAgain, RevokeOutOfBand, tables, bounds
<1>3. /\ revoked' \subseteq Grant /\ live_token' \subseteq Grant /\ queue' \subseteq Grant
      /\ issued' \in 0..MaxIssued
  BY <1>1 DEF Consent, IssueToken, Revoke, RevokeAgain, RevokeOutOfBand, tables, bounds,
              Dispatch, TypeOK
<1>4. request' = request \/ request' = [request EXCEPT ![g] = "PENDING"]
  BY DEF Consent, IssueToken, Revoke, RevokeAgain, RevokeOutOfBand, tables
<1>5. /\ request' \in [Grant -> {"NONE", "PENDING", "PROCESSING", "COMPLETE"}]
      /\ \A h \in Grant : request'[h] = "COMPLETE" => request[h] = "COMPLETE"
  BY <1>1, <1>4 DEF TypeOK
<1>6. TypeOK' BY <1>1, <1>2, <1>3, <1>5 DEF TypeOK, history
<1> QED BY <1>2, <1>5, <1>6, Quiet

LEMMA SweepStep == ASSUME Sound, sweep_stale_revocations PROVE Sound'
<1>1. TypeOK BY DEF Sound
<1>2. queue' \subseteq Grant BY <1>1 DEF sweep_stale_revocations, Open, TypeOK
<1>3. UNCHANGED <<tables, objects, locked, run, history, bounds>> BY DEF sweep_stale_revocations
<1>4. TypeOK' BY <1>1, <1>2, <1>3 DEF TypeOK, tables, bounds, history
<1> QED BY <1>3, <1>4, Quiet DEF tables

LEMMA ClaimStep == ASSUME Sound, NEW w \in Worker, NEW g \in Grant, claim(w, g) PROVE Sound'
<1>1. TypeOK BY DEF Sound
<1>2. CASE request[g] = "COMPLETE"
  <2>1. UNCHANGED <<revoked, request, live_token, status, deleted, completed, objects,
                    locked, run, history, bounds>> /\ queue' = queue \ {g}
    BY <1>2 DEF claim
  <2>2. TypeOK' BY <1>1, <2>1 DEF TypeOK, bounds, history
  <2> QED BY <2>1, <2>2, Quiet
<1>3. CASE request[g] # "COMPLETE"
  <2> DEFINE r == [step |-> "tokens", grant |-> g]
  <2>1. r \in Run /\ r.step = "tokens" /\ Fresh(r) BY Shortly DEF Fresh
  <2>2. /\ run' = [run EXCEPT ![w] = r] /\ request' = [request EXCEPT ![g] = "PROCESSING"]
        /\ queue' = queue \ {g}
        /\ UNCHANGED <<revoked, live_token, status, deleted, completed, objects, locked, history, bounds>>
    BY <1>3 DEF claim, Step
  <2>3. run[w].step = "idle" BY DEF claim, Running
  <2> HIDE DEF r
  <2>4. /\ request' \in [Grant -> {"NONE", "PENDING", "PROCESSING", "COMPLETE"}]
        /\ \A h \in Grant : request'[h] = "COMPLETE" => request[h] = "COMPLETE"
    BY <1>1, <2>2 DEF TypeOK
  <2>5. TypeOK' BY <1>1, <2>1, <2>2, <2>4, Stepped DEF TypeOK, bounds, history
  <2>6. (\A v \in Worker : NoneMissed(v)') /\ (\A h \in Grant : NoneLeft(h)')
    BY <2>1, <2>2, <2>4, KeptMoving
  <2>7. locked' = [locked EXCEPT ![w] = {}] BY <2>2, <2>3, Unlocked
  <2> QED BY <2>1, <2>2, <2>5, <2>6, <2>7, RunStep
<1> QED BY <1>2, <1>3

LEMMA TokensStep == ASSUME Sound, NEW w \in Worker, RevokeTokens(w) PROVE Sound'
<1>1. TypeOK BY DEF Sound
<1> DEFINE r == [step |-> "work", grant |-> run[w].grant, kind |-> "tokens", todo |-> {}]
<1>2. run[w].step = "tokens" /\ run[w].grant \in Grant BY <1>1, Shapes DEF RevokeTokens, Working
<1>3. r \in Run /\ r.step = "work" /\ r.kind = "tokens" /\ r.todo = {} /\ Fresh(r)
  BY <1>2, AtLength DEF Working, Fresh
<1>4. /\ run' = [run EXCEPT ![w] = r] /\ live_token' = live_token \ {run[w].grant}
      /\ UNCHANGED <<revoked, request, status, deleted, completed, queue, objects, locked, history, bounds>>
  BY DEF RevokeTokens, Step
<1> HIDE DEF r
<1>5. TypeOK' BY <1>1, <1>3, <1>4, Stepped DEF TypeOK, bounds, history
<1>6. (\A v \in Worker : NoneMissed(v)') /\ (\A g \in Grant : NoneLeft(g)')
  BY <1>3, <1>4, KeptMoving
<1>7. locked' = [locked EXCEPT ![w] = {}] BY <1>2, <1>4, Unlocked
<1> QED BY <1>3, <1>4, <1>5, <1>6, <1>7, RunStep

\* A step that only moves a run on, and holds no row afterwards.
LEMMA MovesOn ==
  ASSUME Sound, NEW w \in Worker, NEW r \in Run, run' = [run EXCEPT ![w] = r],
         UNCHANGED <<tables, queue, objects, locked, history, bounds>>,
         run[w].step \notin {"object", "tombstone"},
         r.step \notin {"object", "tombstone"}, Fresh(r),
         r.step = "work" => r.todo \subseteq CASE r.kind = "tokens" -> {}
                              [] r.kind = "delivery" -> Delivery
                              [] r.kind = "audio" -> Audio
                              [] r.kind = "model" -> Model
  PROVE  Sound'
<1>1. TypeOK BY DEF Sound
<1>2. TypeOK' BY <1>1, Stepped DEF TypeOK, tables, bounds, history
<1>3. (\A v \in Worker : NoneMissed(v)') /\ (\A g \in Grant : NoneLeft(g)')
  BY KeptMoving DEF tables
<1>4. locked' = [locked EXCEPT ![w] = {}] BY Unlocked
<1> QED BY <1>2, <1>3, <1>4, RunStep DEF tables

LEMMA ListStep == ASSUME Sound, NEW w \in Worker, ListNext(w) PROVE Sound'
<1>1. TypeOK BY DEF Sound
<1>2. /\ run[w].step = "work" /\ run[w].grant \in Grant
      /\ run[w].kind \in {"tokens", "delivery", "audio", "model"}
  BY <1>1, Shapes DEF ListNext, Working
<1>3. UNCHANGED <<tables, queue, objects, locked, history, bounds>> BY DEF ListNext
<1>4. CASE run[w].kind = "model"
  <2> DEFINE r == [step |-> "check", grant |-> run[w].grant, kind |-> "tokens", left |-> FALSE]
  <2>1. r \in Run /\ r.step = "check" /\ Fresh(r) BY <1>2, Checking DEF Fresh
  <2>2. run' = [run EXCEPT ![w] = r] BY <1>4 DEF ListNext, Step
  <2> HIDE DEF r
  <2> QED BY <1>2, <1>3, <2>1, <2>2, MovesOn
<1>5. CASE run[w].kind # "model"
  <2> DEFINE k == Next_kind[run[w].kind]
             todo == selected(run[w].grant, k)
             r == [step |-> "work", grant |-> run[w].grant, kind |-> k, todo |-> todo]
  <2>1. /\ k \in {"delivery", "audio", "model"}
        /\ todo \subseteq CASE k = "tokens" -> {}
                            [] k = "delivery" -> Delivery
                            [] k = "audio" -> Audio
                            [] k = "model" -> Model
    BY <1>2, <1>5 DEF Next_kind, selected, model_scope, audio_scope, delivery_scope
  <2>2. run' = [run EXCEPT ![w] = r] BY <1>5 DEF ListNext, Step
  <2> HIDE DEF k, todo
  <2>3. todo \in SUBSET Item BY <2>1
  <2>4. r \in Run /\ r.step = "work" /\ r.kind = k /\ r.todo = todo /\ Fresh(r)
    BY <1>2, <2>1, <2>3, AtLength DEF Working, Fresh
  <2> HIDE DEF r
  <2> QED BY <1>2, <1>3, <2>1, <2>2, <2>4, MovesOn
<1> QED BY <1>4, <1>5

-----------------------------------------------------------------------------
(* Items written and sent                                                  *)

LEMMA WriteStep == ASSUME Sound, NEW i \in Item, Write(i) PROVE Sound'
<1>1. TypeOK BY DEF Sound
<1>2. /\ status[i] = "absent" /\ status'[i] = "live"
      /\ \A j \in Item : j # i => status'[j] = status[j]
      /\ status' \in [Item -> {"absent", "live", "sent", "gone"}]
  BY <1>1 DEF Write, TypeOK
<1>3. /\ objects \subseteq objects' /\ objects' \subseteq objects \cup {i}
      /\ objects' \subseteq Artifact
      /\ missed' \in [Worker -> SUBSET Item] /\ late' \in [Grant -> SUBSET Item]
  BY <1>1 DEF Write, TypeOK
<1>4. UNCHANGED <<revoked, request, live_token, deleted, completed, queue, locked, run, bounds>>
  BY DEF Write
<1>5. /\ \A w \in Worker : missed[w] \subseteq missed'[w] /\ (i \in Counted(w) => i \in missed'[w])
      /\ \A g \in Grant : /\ late[g] \subseteq late'[g]
                          /\ request[g] = "COMPLETE" /\ i \in scope(g) => i \in late'[g]
  BY DEF Write
<1>6. TypeOK' BY <1>1, <1>2, <1>3, <1>4 DEF TypeOK, bounds, history
<1>7. \A w \in Worker : Listed(w)' BY <1>4 DEF Sound, Listed
<1>8. \A w \in Worker : Holds(w)' BY <1>2, <1>3, <1>4 DEF Sound, Holds
<1>9. \A v, w \in Worker : v # w => locked'[v] \cap locked'[w] = {} BY <1>4 DEF Sound
<1>10. DeletedOnce' BY <1>2, <1>4 DEF Sound, DeletedOnce
<1>11. TombstonesErased' BY <1>2, <1>3 DEF Sound, TombstonesErased
<1>12. \A w \in Worker : NoneMissed(w)'
  <2> SUFFICES ASSUME NEW w \in Worker, NEW j \in Counted(w)', status'[j] = "live"
               PROVE  j \in missed'[w]
    BY DEF NoneMissed
  <2>1. j \in Counted(w) /\ j \in Item BY <1>4, ScopeFixed DEF Counted
  <2>2. CASE j = i BY <1>5, <2>1, <2>2
  <2>3. CASE j # i
    <3>1. NoneMissed(w) BY DEF Sound
    <3> QED BY <1>2, <1>5, <2>1, <2>3, <3>1 DEF NoneMissed
  <2> QED BY <2>2, <2>3
<1>13. \A g \in Grant : NoneLeft(g)'
  <2> SUFFICES ASSUME NEW g \in Grant, request'[g] = "COMPLETE", NEW j \in scope(g)',
                      status'[j] = "live"
               PROVE  j \in late'[g]
    BY DEF NoneLeft
  <2>1. j \in scope(g) /\ j \in Item /\ request[g] = "COMPLETE"
    BY <1>4, ScopeFixed DEF scope, model_scope, audio_scope, delivery_scope
  <2>2. CASE j = i BY <1>5, <2>1, <2>2
  <2>3. CASE j # i
    <3>1. NoneLeft(g) BY DEF Sound
    <3> QED BY <1>2, <1>5, <2>1, <2>3, <3>1 DEF NoneLeft
  <2> QED BY <2>2, <2>3
<1> QED BY <1>6, <1>7, <1>8, <1>9, <1>10, <1>11, <1>12, <1>13 DEF Sound

LEMMA SendStep == ASSUME Sound, NEW d \in Item, Send(d) PROVE Sound'
<1>1. TypeOK BY DEF Sound
<1>2. /\ d \in Delivery /\ status[d] = "live" /\ status'[d] = "sent"
      /\ \A j \in Item : j # d => status'[j] = status[j]
      /\ status' = [status EXCEPT ![d] = "sent"]
      /\ status' \in [Item -> {"absent", "live", "sent", "gone"}]
  BY <1>1 DEF Send, TypeOK
<1>3. UNCHANGED <<revoked, request, live_token, deleted, completed, queue, objects, locked, run,
                  history, bounds>>
  BY DEF Send
<1>4. TypeOK' BY <1>1, <1>2, <1>3 DEF TypeOK, bounds, history
<1>5. \A w \in Worker : Listed(w)' BY <1>3 DEF Sound, Listed
<1>6. \A w \in Worker : Holds(w)' BY <1>2, <1>3 DEF Sound, Holds
<1>7. \A v, w \in Worker : v # w => locked'[v] \cap locked'[w] = {} BY <1>3 DEF Sound
<1>8. DeletedOnce' BY <1>2, <1>3 DEF Sound, DeletedOnce
<1>9. TombstonesErased' BY <1>2, <1>3 DEF Sound, TombstonesErased
<1>10. (\A v \in Worker : NoneMissed(v)') /\ (\A g \in Grant : NoneLeft(g)')
  BY <1>2, <1>3, Kept DEF history
<1> QED BY <1>4, <1>5, <1>6, <1>7, <1>8, <1>9, <1>10 DEF Sound

-----------------------------------------------------------------------------
(* A worker's run, item by item                                            *)

\* The run that takes up an item is at work, and the item is of its kind.
LEMMA Taken ==
  ASSUME Sound, NEW w \in Worker, NEW i \in Item, Takes(w, i)
  PROVE  /\ run[w].step = "work" /\ run[w].grant \in Grant
         /\ run[w].kind \in {"tokens", "delivery", "audio", "model"} /\ run[w].todo \in SUBSET Item
         /\ run[w].kind = "delivery" => i \in Delivery
         /\ run[w].kind # "delivery" => i \in Artifact
         /\ run[w].todo \subseteq CASE run[w].kind = "tokens" -> {}
                                    [] run[w].kind = "delivery" -> Delivery
                                    [] run[w].kind = "audio" -> Audio
                                    [] run[w].kind = "model" -> Model
         /\ \A v \in Worker : i \notin locked[v]
<1>1. run[w].step = "work" /\ i \in run[w].todo /\ \A v \in Worker : i \notin locked[v] BY DEF Takes
<1>2. /\ run[w].grant \in Grant /\ run[w].kind \in {"tokens", "delivery", "audio", "model"}
      /\ run[w].todo \in SUBSET Item
  BY <1>1, Shapes DEF Sound, Working
<1>3. Listed(w) BY DEF Sound
<1>4. run[w].todo \subseteq CASE run[w].kind = "tokens" -> {}
                              [] run[w].kind = "delivery" -> Delivery
                              [] run[w].kind = "audio" -> Audio
                              [] run[w].kind = "model" -> Model
  BY <1>1, <1>3 DEF Listed
<1>5. (run[w].kind = "delivery" => i \in Delivery) /\ (run[w].kind # "delivery" => i \in Artifact)
  BY <1>1, <1>2, <1>4
<1> QED BY <1>1, <1>2, <1>4, <1>5

LEMMA SkipStep == ASSUME Sound, NEW w \in Worker, NEW i \in Item, Skip(w, i) PROVE Sound'
<1>1. Takes(w, i) /\ UNCHANGED <<tables, queue, objects, locked, history, bounds>> BY DEF Skip
<1> DEFINE r == [step |-> "work", grant |-> run[w].grant, kind |-> run[w].kind,
                 todo |-> run[w].todo \ {i}]
<1>2. run' = [run EXCEPT ![w] = r] BY DEF Skip, DoneWith, Works, Step
<1>3. r \in Run /\ r.step = "work" /\ r.kind = run[w].kind /\ r.todo = run[w].todo \ {i} /\ Fresh(r)
  BY <1>1, Taken, AtLength DEF Working, Fresh
<1>4. r.todo \subseteq CASE r.kind = "tokens" -> {}
                         [] r.kind = "delivery" -> Delivery
                         [] r.kind = "audio" -> Audio
                         [] r.kind = "model" -> Model
  BY <1>1, <1>3, Taken
<1>5. run[w].step = "work" BY <1>1, Taken
<1> HIDE DEF r
<1> QED BY <1>1, <1>2, <1>3, <1>4, <1>5, MovesOn

LEMMA CancelStep ==
  ASSUME Sound, NEW w \in Worker, NEW i \in Item, cancel_delivery(w, i) PROVE Sound'
<1>1. TypeOK BY DEF Sound
<1>2. Takes(w, i) /\ i \in Delivery BY Taken DEF cancel_delivery
<1> DEFINE r == [step |-> "work", grant |-> run[w].grant, kind |-> run[w].kind,
                 todo |-> run[w].todo \ {i}]
<1>3. run' = [run EXCEPT ![w] = r] BY DEF cancel_delivery, DoneWith, Works, Step
<1>4. r \in Run /\ r.step = "work" /\ r.kind = run[w].kind /\ r.todo = run[w].todo \ {i} /\ Fresh(r)
  BY <1>2, Taken, AtLength DEF Working, Fresh
<1>5. r.todo \subseteq CASE r.kind = "tokens" -> {}
                         [] r.kind = "delivery" -> Delivery
                         [] r.kind = "audio" -> Audio
                         [] r.kind = "model" -> Model
  BY <1>2, <1>4, Taken
<1>6. run[w].step = "work" BY <1>2, Taken
<1> HIDE DEF r
<1>7. /\ status[i] = "live" /\ status' = [status EXCEPT ![i] = "gone"]
      /\ deleted' = [deleted EXCEPT ![i] = @ + 1]
      /\ UNCHANGED <<revoked, request, live_token, completed, queue, objects, locked, history, bounds>>
  BY DEF cancel_delivery
<1>8. /\ status'[i] = "gone" /\ \A j \in Item : j # i => status'[j] = status[j]
      /\ status' \in [Item -> {"absent", "live", "sent", "gone"}]
      /\ deleted'[i] = deleted[i] + 1 /\ \A j \in Item : j # i => deleted'[j] = deleted[j]
      /\ deleted' \in [Item -> Nat]
  BY <1>1, <1>7 DEF TypeOK
<1>9. run'[w] = r /\ run' \in [Worker -> Run] /\ \A v \in Worker : v # w => run'[v] = run[v]
  BY <1>1, <1>3, <1>4, Stepped
<1>10. TypeOK' BY <1>1, <1>7, <1>8, <1>9 DEF TypeOK, bounds, history
<1>11. \A v \in Worker : Listed(v)' /\ Holds(v)'
  <2> TAKE v \in Worker
  <2>1. CASE v = w BY <1>4, <1>5, <1>6, <1>7, <1>9, <2>1 DEF Sound, Listed, Holds
  <2>2. CASE v # w
    <3>1. run'[v] = run[v] /\ Listed(v) /\ Holds(v) /\ locked'[v] = locked[v] /\ objects' = objects
      BY <1>7, <1>9, <2>2 DEF Sound
    <3>2. \A j \in Artifact : status'[j] = status[j] BY <1>2, <1>8
    <3>3. Holds(v)' BY <3>1, <3>2 DEF Holds
    <3> QED BY <3>1, <3>3 DEF Listed
  <2> QED BY <2>1, <2>2
<1>12. \A u, v \in Worker : u # v => locked'[u] \cap locked'[v] = {} BY <1>7 DEF Sound
<1>13. DeletedOnce' BY <1>7, <1>8 DEF Sound, DeletedOnce
<1>14. TombstonesErased' BY <1>2, <1>7, <1>8 DEF Sound, TombstonesErased
<1>15. (\A v \in Worker : NoneMissed(v)') /\ (\A g \in Grant : NoneLeft(g)')
  BY <1>3, <1>4, <1>7, <1>8, KeptMoving
<1> QED BY <1>10, <1>11, <1>12, <1>13, <1>14, <1>15 DEF Sound

LEMMA LockStep ==
  ASSUME Sound, NEW w \in Worker, NEW i \in Item, LockArtifact(w, i) PROVE Sound'
<1>1. TypeOK BY DEF Sound
<1>2. Takes(w, i) /\ run[w].kind # "delivery" /\ i \in Artifact BY Taken DEF LockArtifact
<1> DEFINE r == [step |-> "object", grant |-> run[w].grant, kind |-> run[w].kind,
                 todo |-> run[w].todo]
<1>3. run' = [run EXCEPT ![w] = r] BY DEF LockArtifact, Works, Step
<1>4. r \in Run /\ r.step = "object" /\ r.kind = run[w].kind /\ r.todo = run[w].todo /\ Fresh(r)
  BY <1>2, Taken, AtLength DEF Working, Fresh
<1>5. run[w].step = "work" BY <1>2, Taken
<1>6. r.todo \subseteq CASE r.kind = "tokens" -> {}
                         [] r.kind = "delivery" -> Delivery
                         [] r.kind = "audio" -> Audio
                         [] r.kind = "model" -> Model
  BY <1>2, <1>4, Taken
<1> HIDE DEF r
<1>7. status[i] = "live" /\ UNCHANGED <<tables, queue, objects, history, bounds>> BY DEF LockArtifact
<1>8. locked[w] = {} BY <1>5 DEF Sound, Holds
<1>9. /\ locked'[w] = {i} /\ \A v \in Worker : v # w => locked'[v] = locked[v]
      /\ locked' \in [Worker -> SUBSET Item]
  BY <1>1, <1>8 DEF LockArtifact, TypeOK
<1>10. run'[w] = r /\ run' \in [Worker -> Run] /\ \A v \in Worker : v # w => run'[v] = run[v]
  BY <1>1, <1>3, <1>4, Stepped
<1>11. TypeOK' BY <1>1, <1>7, <1>9, <1>10 DEF TypeOK, tables, bounds, history
<1>12. \A v \in Worker : Listed(v)' /\ Holds(v)'
  <2> TAKE v \in Worker
  <2>1. CASE v = w BY <1>2, <1>4, <1>6, <1>7, <1>9, <1>10, <2>1 DEF Listed, Holds, tables
  <2>2. CASE v # w BY <1>7, <1>9, <1>10, <2>2 DEF Sound, Listed, Holds, tables
  <2> QED BY <2>1, <2>2
<1>13. \A u, v \in Worker : u # v => locked'[u] \cap locked'[v] = {}
  BY <1>2, <1>9, Taken DEF Sound
<1>14. DeletedOnce' /\ TombstonesErased' BY <1>7 DEF Sound, DeletedOnce, TombstonesErased, tables
<1>15. (\A v \in Worker : NoneMissed(v)') /\ (\A g \in Grant : NoneLeft(g)')
  BY <1>3, <1>4, <1>7, KeptMoving DEF tables
<1> QED BY <1>11, <1>12, <1>13, <1>14, <1>15 DEF Sound

\* What a run that has locked a row knows of it.
LEMMA Held ==
  ASSUME Sound, NEW w \in Worker, run[w].step \in {"object", "tombstone"}
  PROVE  /\ \E i \in Artifact : locked[w] = {i} /\ status[i] = "live"
         /\ run[w].step = "tombstone" => locked[w] \cap objects = {}
         /\ run[w].grant \in Grant /\ run[w].kind \in {"tokens", "delivery", "audio", "model"}
         /\ run[w].todo \in SUBSET Item
         /\ run[w].todo \subseteq CASE run[w].kind = "tokens" -> {}
                                    [] run[w].kind = "delivery" -> Delivery
                                    [] run[w].kind = "audio" -> Audio
                                    [] run[w].kind = "model" -> Model
<1>1. Holds(w) /\ Listed(w) BY DEF Sound
<1>2. /\ run[w].grant \in Grant /\ run[w].kind \in {"tokens", "delivery", "audio", "model"}
      /\ run[w].todo \in SUBSET Item
  BY Shapes DEF Sound, Working
<1>3. /\ \E i \in Artifact : locked[w] = {i} /\ status[i] = "live"
      /\ run[w].step = "tombstone" => locked[w] \cap objects = {}
  BY <1>1 DEF Holds
<1>4. run[w].todo \subseteq CASE run[w].kind = "tokens" -> {}
                              [] run[w].kind = "delivery" -> Delivery
                              [] run[w].kind = "audio" -> Audio
                              [] run[w].kind = "model" -> Model
  BY <1>1 DEF Listed
<1> QED BY <1>2, <1>3, <1>4

LEMMA ObjectStep == ASSUME Sound, NEW w \in Worker, DeleteObject(w) PROVE Sound'
<1>1. TypeOK BY DEF Sound
<1>2. run[w].step = "object" BY DEF DeleteObject
<1> DEFINE r == [step |-> "tombstone", grant |-> run[w].grant, kind |-> run[w].kind,
                 todo |-> run[w].todo]
<1>3. run' = [run EXCEPT ![w] = r] BY DEF DeleteObject, Works, Step
<1>4. r \in Run /\ r.step = "tombstone" /\ r.kind = run[w].kind /\ r.todo = run[w].todo /\ Fresh(r)
  BY <1>2, Held, AtLength DEF Working, Fresh
<1>5. r.todo \subseteq CASE r.kind = "tokens" -> {}
                         [] r.kind = "delivery" -> Delivery
                         [] r.kind = "audio" -> Audio
                         [] r.kind = "model" -> Model
  BY <1>2, <1>4, Held
<1> HIDE DEF r
<1>6. objects' = objects \ locked[w] /\ UNCHANGED <<tables, queue, locked, history, bounds>>
  BY DEF DeleteObject
<1>7. run'[w] = r /\ run' \in [Worker -> Run] /\ \A v \in Worker : v # w => run'[v] = run[v]
  BY <1>1, <1>3, <1>4, Stepped
<1>8. TypeOK' BY <1>1, <1>6, <1>7 DEF TypeOK, tables, bounds, history
<1>9. \A v \in Worker : Listed(v)' /\ Holds(v)'
  <2> TAKE v \in Worker
  <2>1. CASE v = w
    <3>1. \E i \in Artifact : locked[w] = {i} /\ status[i] = "live" BY <1>2, Held
    <3>2. Holds(w)' BY <1>4, <1>6, <1>7, <3>1 DEF Holds, tables
    <3>3. Listed(w)' BY <1>4, <1>5, <1>7 DEF Listed
    <3> QED BY <2>1, <3>2, <3>3
  <2>2. CASE v # w BY <1>6, <1>7, <2>2 DEF Sound, Listed, Holds, tables
  <2> QED BY <2>1, <2>2
<1>10. \A u, v \in Worker : u # v => locked'[u] \cap locked'[v] = {} BY <1>6 DEF Sound
<1>11. DeletedOnce' /\ TombstonesErased' BY <1>6 DEF Sound, DeletedOnce, TombstonesErased, tables
<1>12. (\A v \in Worker : NoneMissed(v)') /\ (\A g \in Grant : NoneLeft(g)')
  BY <1>3, <1>4, <1>6, KeptMoving DEF tables
<1> QED BY <1>8, <1>9, <1>10, <1>11, <1>12 DEF Sound

LEMMA TombstoneStep == ASSUME Sound, NEW w \in Worker, Tombstone(w) PROVE Sound'
<1>1. TypeOK BY DEF Sound
<1>2. run[w].step = "tombstone" BY DEF Tombstone
<1>3. PICK i \in locked[w] : /\ status' = [status EXCEPT ![i] = "gone"]
                             /\ deleted' = [deleted EXCEPT ![i] = @ + 1]
                             /\ DoneWith(w, i)
  BY DEF Tombstone
<1>4. i \in Artifact /\ locked[w] = {i} /\ status[i] = "live" /\ i \notin objects
  BY <1>2, Held
<1> DEFINE r == [step |-> "work", grant |-> run[w].grant, kind |-> run[w].kind,
                 todo |-> run[w].todo \ {i}]
<1>5. run' = [run EXCEPT ![w] = r] BY <1>3 DEF DoneWith, Works, Step
<1>6. r \in Run /\ r.step = "work" /\ r.kind = run[w].kind /\ r.todo = run[w].todo \ {i} /\ Fresh(r)
  BY <1>2, Held, AtLength DEF Working, Fresh
<1>7. r.todo \subseteq CASE r.kind = "tokens" -> {}
                         [] r.kind = "delivery" -> Delivery
                         [] r.kind = "audio" -> Audio
                         [] r.kind = "model" -> Model
  BY <1>2, <1>6, Held
<1> HIDE DEF r
<1>8. /\ locked' = [locked EXCEPT ![w] = {}]
      /\ UNCHANGED <<revoked, request, live_token, completed, queue, objects, history, bounds>>
  BY DEF Tombstone
<1>9. /\ status'[i] = "gone" /\ \A j \in Item : j # i => status'[j] = status[j]
      /\ status' \in [Item -> {"absent", "live", "sent", "gone"}]
      /\ deleted'[i] = deleted[i] + 1 /\ \A j \in Item : j # i => deleted'[j] = deleted[j]
      /\ deleted' \in [Item -> Nat]
  BY <1>1, <1>3, <1>4 DEF TypeOK
<1>10. /\ locked'[w] = {} /\ \A v \in Worker : v # w => locked'[v] = locked[v]
       /\ locked' \in [Worker -> SUBSET Item]
  BY <1>1, <1>8 DEF TypeOK
<1>11. run'[w] = r /\ run' \in [Worker -> Run] /\ \A v \in Worker : v # w => run'[v] = run[v]
  BY <1>1, <1>5, <1>6, Stepped
<1>12. TypeOK' BY <1>1, <1>8, <1>9, <1>10, <1>11 DEF TypeOK, bounds, history
<1>13. \A v \in Worker : Listed(v)' /\ Holds(v)'
  <2> TAKE v \in Worker
  <2>1. CASE v = w BY <1>6, <1>7, <1>10, <1>11, <2>1 DEF Listed, Holds
  <2>2. CASE v # w
    <3>1. run'[v] = run[v] /\ Listed(v) /\ Holds(v) /\ locked'[v] = locked[v] /\ objects' = objects
      BY <1>8, <1>10, <1>11, <2>2 DEF Sound
    <3>2. i \notin locked[v] BY <1>4, <2>2 DEF Sound
    <3>3. Holds(v)' BY <1>9, <3>1, <3>2 DEF Holds
    <3> QED BY <3>1, <3>3 DEF Listed
  <2> QED BY <2>1, <2>2
<1>14. \A u, v \in Worker : u # v => locked'[u] \cap locked'[v] = {} BY <1>10 DEF Sound
<1>15. DeletedOnce' BY <1>4, <1>9 DEF Sound, DeletedOnce
<1>16. TombstonesErased' BY <1>4, <1>8, <1>9 DEF Sound, TombstonesErased
<1>17. (\A v \in Worker : NoneMissed(v)') /\ (\A g \in Grant : NoneLeft(g)')
  BY <1>5, <1>6, <1>8, <1>9, KeptMoving
<1> QED BY <1>12, <1>13, <1>14, <1>15, <1>16, <1>17 DEF Sound

\* A run that stops, whatever it had done: its task is in the queue again.
LEMMA StopStep ==
  ASSUME Sound, NEW w \in Worker, Stop(w), run[w].grant \in Grant,
         queue' = queue \cup {run[w].grant}, faults' \in 0..MaxFaults, issued' = issued,
         UNCHANGED <<tables, objects, late>>
  PROVE  Sound'
<1>1. TypeOK BY DEF Sound
<1>2. Idle \in Run /\ Idle.step = "idle" /\ Fresh(Idle) BY DEF Run, Idle, Fresh
<1>3. /\ run' = [run EXCEPT ![w] = Idle] /\ locked' = [locked EXCEPT ![w] = {}]
      /\ missed' = [missed EXCEPT ![w] = {}]
  BY DEF Stop
<1>4. /\ run' \in [Worker -> Run] /\ run'[w] = Idle
      /\ \A v \in Worker : v # w => run'[v] = run[v]
  BY <1>1, <1>2, <1>3, Stepped
<1>5. missed' \in [Worker -> SUBSET Item] /\ \A v \in Worker : v # w => missed'[v] = missed[v]
  BY <1>1, <1>3 DEF TypeOK
<1>6. TypeOK' BY <1>1, <1>3, <1>4, <1>5 DEF TypeOK, tables
<1>7. (\A v \in Worker : NoneMissed(v)') /\ (\A g \in Grant : NoneLeft(g)')
  BY <1>2, <1>4, <1>5, Kept DEF tables
<1> QED BY <1>2, <1>3, <1>6, <1>7, RunStep DEF tables

\* A count that ends or goes on, with what it found added to what was left.
LEMMA CountStep == ASSUME Sound, NEW w \in Worker, Count(w) PROVE Sound'
<1>1. TypeOK BY DEF Sound
<1>2. /\ run[w].step = "check" /\ run[w].grant \in Grant /\ run[w].left \in BOOLEAN
      /\ run[w].kind \in {"tokens", "delivery", "audio", "model"}
  BY <1>1, Shapes DEF Count, Working
<1> DEFINE grant == run[w].grant
           kind == run[w].kind
           left == run[w].left \/ finds(grant, kind)
<1>3. UNCHANGED <<tables, objects, late, bounds>> /\ Counts(w, left) BY DEF Count, Counts
<1>4. CASE kind = "model" /\ left
  <2>1. Stop(w) /\ queue' = queue \cup {grant} BY <1>3, <1>4 DEF Counts, Retry
  <2>2. faults' \in 0..MaxFaults BY <1>1, <1>3 DEF TypeOK, bounds
  <2> QED BY <1>2, <1>3, <2>1, <2>2, StopStep DEF bounds
<1>5. ASSUME NEW r \in Run, run' = [run EXCEPT ![w] = r], UNCHANGED <<queue, locked, missed>>,
             r.step \in {"check", "complete"},
             \A i \in Counted(w)' : i \in Counted(w) \/ status[i] # "live"
      PROVE  Sound'
  <2>1. TypeOK' BY <1>1, <1>3, <1>5, Stepped DEF TypeOK, tables, bounds
  <2>2. \A v \in Worker : v # w => run'[v] = run[v] BY <1>1, <1>5, Stepped
  <2>3. \A v \in Worker : NoneMissed(v) BY DEF Sound
  <2>4. \A v \in Worker : NoneMissed(v)'
    <3> TAKE v \in Worker
    <3>1. CASE v = w BY <1>3, <1>5, <2>3, <3>1 DEF NoneMissed, tables
    <3>2. CASE v # w
      <4>1. Counted(v)' = Counted(v) BY <2>2, <3>2, ScopeFixed DEF Counted
      <4> QED BY <1>3, <1>5, <2>3, <4>1 DEF NoneMissed, tables
    <3> QED BY <3>1, <3>2
  <2>5. \A g \in Grant : NoneLeft(g)' BY <1>3, ScopeFixed DEF Sound, NoneLeft, tables
  <2>6. locked' = [locked EXCEPT ![w] = {}] BY <1>2, <1>5, Unlocked
  <2> QED BY <1>3, <1>5, <2>1, <2>4, <2>5, <2>6, RunStep DEF tables
<1>6. CASE kind = "model" /\ ~left
  <2> DEFINE r == [step |-> "complete", grant |-> grant]
  <2>1. r \in Run /\ r.step = "complete" /\ r.grant = grant BY <1>2, Shortly
  <2>2. run' = [run EXCEPT ![w] = r] /\ UNCHANGED <<queue, locked, missed>>
    BY <1>3, <1>6 DEF Counts, Step
  <2> HIDE DEF r
  <2>3. run'[w] = r BY <1>1, <2>1, <2>2, Stepped
  <2>4. \A i \in model_scope(grant) : status[i] # "live" BY <1>6 DEF finds, selected
  <2>5. Counted(w) = (Delivery \cup Audio) \cap scope(grant) BY <1>2, <1>6 DEF Counted
  <2>6. Counted(w)' \subseteq Item \cap scope(grant) BY <2>1, <2>3, ScopeFixed DEF Counted
  <2>7. \A i \in Model \cap scope(grant) : i \in model_scope(grant)
    BY DEF scope, model_scope, audio_scope, delivery_scope
  <2>8. \A i \in Counted(w)' : i \in Counted(w) \/ status[i] # "live"
    BY <2>4, <2>5, <2>6, <2>7
  <2> QED BY <1>5, <2>1, <2>2, <2>8
<1>7. CASE kind # "model"
  <2> DEFINE r == [run[w] EXCEPT !.kind = Next_kind[kind], !.left = left]
  <2>1. run' = [run EXCEPT ![w] = r] /\ UNCHANGED <<queue, locked, missed>>
    BY <1>3, <1>7 DEF Counts, Step
  <2>2. /\ r.step = "check" /\ r.grant = grant /\ r.left = left /\ r.kind = Next_kind[kind]
        /\ r \in Run
    <3>1. run[w] \in Run BY <1>1, Shapes
    <3>2. run[w] \in [step : {"check"}, grant : Grant,
                      kind : {"tokens", "delivery", "audio", "model"}, left : BOOLEAN]
      BY <1>2, <3>1 DEF Run, Idle
    <3>3. Next_kind[kind] \in {"tokens", "delivery", "audio", "model"}
      BY <1>2, <1>7 DEF Next_kind
    <3>4. left \in BOOLEAN BY <1>2 DEF finds
    <3> HIDE DEF left
    <3> QED BY <3>2, <3>3, <3>4 DEF Run
  <2> HIDE DEF r
  <2>3. run'[w] = r BY <1>1, <2>1, <2>2, Stepped
  <2>4. CASE left
    <3>1. Counted(w)' = {} BY <2>2, <2>3, <2>4 DEF Counted
    <3> QED BY <1>5, <2>1, <2>2, <3>1
  <2>5. CASE ~left
    <3>1. CASE kind = "tokens"
      <4>1. Counted(w)' = {} BY <2>2, <2>3, <3>1 DEF Counted, Next_kind
      <4> QED BY <1>5, <2>1, <2>2, <4>1
    <3>2. CASE kind = "delivery"
      <4>1. \A i \in delivery_scope(grant) : status[i] # "live"
        BY <2>5, <3>2 DEF finds, selected
      <4>2. Counted(w)' \subseteq Delivery \cap scope(grant)
        BY <2>2, <2>3, <2>5, <3>2, ScopeFixed DEF Counted, Next_kind
      <4>3. \A i \in Delivery \cap scope(grant) : i \in delivery_scope(grant)
        BY DEF scope, model_scope, audio_scope, delivery_scope
      <4> QED BY <1>5, <2>1, <2>2, <4>1, <4>2, <4>3
    <3>3. CASE kind = "audio"
      <4>1. \A i \in audio_scope(grant) : status[i] # "live" BY <2>5, <3>3 DEF finds, selected
      <4>2. Counted(w)' \subseteq (Delivery \cup Audio) \cap scope(grant)
        BY <2>2, <2>3, <2>5, <3>3, ScopeFixed DEF Counted, Next_kind
      <4>3. Counted(w) = Delivery \cap scope(grant) BY <1>2, <2>5, <3>3 DEF Counted
      <4>4. \A i \in Audio \cap scope(grant) : i \in audio_scope(grant)
        BY DEF scope, model_scope, audio_scope, delivery_scope
      <4>5. \A i \in Counted(w)' : i \in Counted(w) \/ status[i] # "live"
        BY <4>1, <4>2, <4>3, <4>4
      <4> QED BY <1>5, <2>1, <2>2, <4>5
    <3> QED BY <1>2, <1>7, <3>1, <3>2, <3>3
  <2> QED BY <2>4, <2>5
<1> QED BY <1>4, <1>6, <1>7

\* What the completing check missed is what is left: it becomes late.
LEMMA CompleteStep == ASSUME Sound, NEW w \in Worker, Complete(w) PROVE Sound'
<1>1. TypeOK BY DEF Sound
<1>2. run[w].step = "complete" /\ run[w].grant \in Grant BY <1>1, Shapes DEF Complete, Working
<1>3. Idle \in Run /\ Idle.step = "idle" /\ Fresh(Idle) BY DEF Run, Idle, Fresh
<1>4. /\ run' = [run EXCEPT ![w] = Idle] /\ locked' = [locked EXCEPT ![w] = {}]
      /\ missed' = [missed EXCEPT ![w] = {}]
      /\ late' = [late EXCEPT ![run[w].grant] = @ \cup missed[w]]
      /\ UNCHANGED <<revoked, live_token, status, deleted, queue, objects, bounds>>
  BY DEF Complete, Stop
<1>5. /\ request' \in [Grant -> {"NONE", "PENDING", "PROCESSING", "COMPLETE"}]
      /\ completed' \in [Grant -> Nat]
      /\ \A h \in Grant : h # run[w].grant => request'[h] = request[h]
  BY <1>1, <1>2 DEF Complete, TypeOK
<1>6. /\ run' \in [Worker -> Run] /\ run'[w] = Idle
      /\ \A v \in Worker : v # w => run'[v] = run[v]
  BY <1>1, <1>3, <1>4, Stepped
<1>7. /\ missed' \in [Worker -> SUBSET Item] /\ late' \in [Grant -> SUBSET Item]
      /\ \A v \in Worker : v # w => missed'[v] = missed[v]
      /\ \A h \in Grant : h # run[w].grant => late'[h] = late[h]
      /\ late'[run[w].grant] = late[run[w].grant] \cup missed[w]
  BY <1>1, <1>2, <1>4 DEF TypeOK
<1>8. TypeOK' BY <1>1, <1>4, <1>5, <1>6, <1>7 DEF TypeOK, bounds
<1>9. ASSUME NEW v \in Worker PROVE NoneMissed(v)'
  <2>1. CASE v = w BY <1>3, <1>6, <2>1, FreshCountsNothing DEF NoneMissed
  <2>2. CASE v # w
    <3>1. Counted(v)' = Counted(v) BY <1>6, <2>2, ScopeFixed DEF Counted
    <3>2. NoneMissed(v) BY DEF Sound
    <3> QED BY <1>4, <1>7, <2>2, <3>1, <3>2 DEF NoneMissed
  <2> QED BY <2>1, <2>2
<1>10. ASSUME NEW h \in Grant PROVE NoneLeft(h)'
  <2>1. CASE h = run[w].grant
    <3>1. Counted(w) = Item \cap scope(h) BY <1>2, <2>1 DEF Counted
    <3>2. scope(h)' = scope(h) /\ scope(h) \subseteq Item
      BY ScopeFixed DEF scope, model_scope, audio_scope, delivery_scope
    <3>3. NoneMissed(w) BY DEF Sound
    <3> QED BY <1>4, <1>7, <2>1, <3>1, <3>2, <3>3 DEF NoneMissed, NoneLeft
  <2>2. CASE h # run[w].grant
    <3>1. NoneLeft(h) BY DEF Sound
    <3> QED BY <1>4, <1>5, <1>7, <2>2, <3>1, ScopeFixed DEF NoneLeft
  <2> QED BY <2>1, <2>2
<1> QED BY <1>3, <1>4, <1>8, <1>9, <1>10, RunStep

LEMMA FaultStep ==
  ASSUME Sound, NEW w \in Worker, Fails(w) \/ Crash(w) \/ Redeliver(w) PROVE Sound'
<1>1. TypeOK BY DEF Sound
<1>2. run[w].step # "idle" BY DEF Fails, Crash, Redeliver, Running
<1>3. run[w].grant \in Grant BY <1>1, <1>2, Shapes
<1>4. faults' \in 0..MaxFaults /\ issued' = issued
  BY <1>1 DEF Fails, Crash, Redeliver, Fault, TypeOK
<1>5. queue' = queue \cup {run[w].grant} /\ UNCHANGED <<tables, objects, late>>
  BY DEF Fails, Crash, Redeliver, Retry, tables, history
<1>6. CASE Fails(w) \/ Crash(w)
  <2>1. Stop(w) BY <1>6 DEF Fails, Crash, Retry
  <2> QED BY <1>3, <1>4, <1>5, <2>1, StopStep
<1>7. CASE Redeliver(w)
  <2>1. UNCHANGED <<locked, run, history>> BY <1>7 DEF Redeliver
  <2>2. TypeOK' BY <1>1, <1>3, <1>4, <1>5, <2>1 DEF TypeOK, tables, history
  <2> QED BY <1>5, <2>1, <2>2, Quiet DEF tables
<1> QED BY <1>6, <1>7

-----------------------------------------------------------------------------
(* The theorems                                                            *)

LEMMA ProceedStep == ASSUME Sound, NEW w \in Worker, Proceed(w) PROVE Sound'
<1>1. CASE RevokeTokens(w) BY <1>1, TokensStep
<1>2. CASE ListNext(w) BY <1>2, ListStep
<1>3. CASE \E i \in Item : Skip(w, i) \/ cancel_delivery(w, i) \/ LockArtifact(w, i)
  BY <1>3, SkipStep, CancelStep, LockStep
<1>4. CASE DeleteObject(w) BY <1>4, ObjectStep
<1>5. CASE Tombstone(w) BY <1>5, TombstoneStep
<1>6. CASE Count(w) BY <1>6, CountStep
<1>7. CASE Complete(w) BY <1>7, CompleteStep
<1> QED BY <1>1, <1>2, <1>3, <1>4, <1>5, <1>6, <1>7 DEF Proceed

LEMMA SoundStep == ASSUME Sound, [Next]_vars PROVE Sound'
<1>1. CASE UNCHANGED vars
  BY <1>1 DEF vars, tables, bounds, Sound, TypeOK, Listed, Holds, DeletedOnce, TombstonesErased,
              NoneMissed, NoneLeft, Counted, history, scope, model_scope, audio_scope, delivery_scope
<1>2. CASE \E i \in Item : Write(i) \/ Send(i) BY <1>2, WriteStep, SendStep
<1>3. CASE \E g \in Grant : Consent(g) BY <1>3, ConsentStep
<1>4. CASE sweep_stale_revocations BY <1>4, SweepStep
<1>5. ASSUME NEW w \in Worker, \E g \in Grant : claim(w, g) PROVE Sound' BY <1>5, ClaimStep
<1>6. ASSUME NEW w \in Worker, Proceed(w) PROVE Sound' BY <1>6, ProceedStep
<1>7. ASSUME NEW w \in Worker, Fails(w) \/ Crash(w) \/ Redeliver(w) PROVE Sound'
  BY <1>7, FaultStep
<1> QED BY <1>1, <1>2, <1>3, <1>4, <1>5, <1>6, <1>7 DEF Next

\* In every reachable state the runs, their locks, the rows, the objects and the
\* ledger's events agree as Sound says, whatever crashed, failed, was redelivered
\* or was written meanwhile (cascade.py:162-360).
THEOREM SoundHolds == Spec => []Sound
<1>1. Init => Sound BY Start
<1>2. Sound /\ [Next]_vars => Sound' BY SoundStep
<1> QED BY <1>1, <1>2, PTL DEF Spec

\* An item that is gone has exactly one event, and no other has any.
THEOREM DeletedOnceHolds == Spec => []DeletedOnce
<1>1. Sound => DeletedOnce BY DEF Sound
<1> QED BY <1>1, SoundHolds, PTL

\* No tombstone is written over an object that is still in the store.
THEOREM TombstonesErasedHolds == Spec => []TombstonesErased
<1>1. Sound => TombstonesErased BY DEF Sound
<1> QED BY <1>1, SoundHolds, PTL

\* The three scope queries of a cascade find all that derives from the grant: a
\* delivery is two steps from a model, and nothing is further from it.
LEMMA ScopesFindAll == ASSUME NEW g \in Grant PROVE Derived(g) \subseteq scope(g)
<1> SUFFICES ASSUME NEW i \in Derived(g) PROVE i \in scope(g) OBVIOUS
<1>1. i \in Item BY DEF Derived
<1>2. CASE tag[i] = g BY <1>1, <1>2 DEF scope, model_scope, audio_scope, delivery_scope
<1>3. CASE source[i] \in Item /\ tag[source[i]] = g
  BY <1>1, <1>3 DEF scope, model_scope, audio_scope, delivery_scope
<1>4. CASE /\ source[i] \in Item /\ source[source[i]] \in Item
           /\ tag[source[source[i]]] = g
  BY <1>1, <1>4 DEF scope, model_scope, audio_scope, delivery_scope
<1> QED BY <1>1, <1>2, <1>3, <1>4 DEF Derived

\* COMPLETE is set only when all there was of the grant, the derived included,
\* when its kind was counted, is gone, sent or cancelled: what is live was
\* written later.
THEOREM NothingLeftBehindHolds == Spec => []NothingLeftBehind
<1>1. Sound => NothingLeftBehind BY ScopesFindAll DEF Sound, NoneLeft, NothingLeftBehind
<1> QED BY <1>1, SoundHolds, PTL
=============================================================================
