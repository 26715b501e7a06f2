--------------------------- MODULE RevocationCascade ---------------------------
(***************************************************************************)
(* The revocation cascade (app/consent/cascade.py): after a grant is       *)
(* revoked, Celery workers cancel the deliveries and delete the audio and  *)
(* the voice models made under it, from the object store and from the      *)
(* tables, and mark the revocation request COMPLETE.                       *)
(*                                                                         *)
(* A worker's run is a sequence of transactions, each one action, except   *)
(* that the object store is called, and may fail, inside the transaction   *)
(* that tombstones a row, and that the last transaction is five actions:   *)
(* the four counts of the final check, each a statement with its own READ  *)
(* COMMITTED snapshot, and the commit of COMPLETE, with nothing locked in  *)
(* between.  Runs of one grant may overlap: delivery is at least once,     *)
(* POST /revoke and the sweeper dispatch again.                            *)
(***************************************************************************)
EXTENDS Naturals, FiniteSets

CONSTANTS
  Grant,      \* consent grants
  Model,      \* voice_model rows downstream may write
  Audio,      \* audio_artifact rows
  Delivery,   \* scheduled_delivery rows
  tag,        \* consent_grant_id of each of these
  source,     \* the model of an audio, the audio of a delivery (or NoItem)
  Worker,     \* Celery worker processes
  MaxFaults,  \* bound: crashes, failures and broker redeliveries
  MaxIssued   \* bound: rights tokens issued while a cascade may run

Item == Model \cup Audio \cup Delivery
Artifact == Model \cup Audio
NoItem == 0

ASSUME ItemAssumption ==
  /\ Item \subseteq Nat \ {NoItem}
  /\ Model \cap Audio = {} /\ Model \cap Delivery = {} /\ Audio \cap Delivery = {}
ASSUME TagAssumption == tag \in [Item -> Grant]
ASSUME SourceAssumption ==
  /\ source \in [Item -> Item \cup {NoItem}]
  /\ \A i \in Item : source[i] \in CASE i \in Model -> {NoItem}
                                     [] i \in Audio -> Model \cup {NoItem}
                                     [] i \in Delivery -> Audio \cup {NoItem}
ASSUME BoundAssumption == MaxFaults \in Nat /\ MaxIssued \in Nat

VARIABLES
  revoked,      \* grants with revoked_at set
  request,      \* status of each grant's revocation_request ("NONE": no row)
  queue,        \* grants with a task in the broker (any number of them)
  live_token,   \* grants with a live authorization_token
  status,       \* of each item: "absent", "live" (SCHEDULED), "sent" or "gone"
  objects,      \* items whose object is in the store
  deleted,      \* MODEL_DELETED and DELIVERY_CANCELLED events of each item
  completed,    \* REVOCATION_CASCADE_COMPLETED events of each grant
  locked,       \* item rows each worker holds FOR UPDATE
  run,          \* what each worker is doing
  missed,       \* items written since each worker's final check counted their kind
  late,         \* items the check that completed each grant missed, or came after
  faults,       \* faults so far (bounds the model)
  issued        \* rights tokens issued so far (bounds the model)

tables == <<revoked, request, live_token, status, deleted, completed>>
bounds == <<faults, issued>>
history == <<missed, late>>
vars == <<tables, queue, objects, locked, run, history, bounds>>

Idle == [step |-> "idle"]
Running(w) == run[w].step # "idle"

\* What a cascade of g covers: _grant_models, _audio_scope, _delivery_scope.
model_scope(g) == {m \in Model : tag[m] = g}
audio_scope(g) == {a \in Audio : tag[a] = g \/ source[a] \in model_scope(g)}
delivery_scope(g) == {d \in Delivery : tag[d] = g \/ source[d] \in audio_scope(g)}

\* The items of a kind a cascade of g selects now, and all that _remaining
\* counts.
selected(g, kind) ==
  {i \in CASE kind = "delivery" -> delivery_scope(g)
           [] kind = "audio" -> audio_scope(g)
           [] kind = "model" -> model_scope(g) : status[i] = "live"}
remaining(g) == UNION {selected(g, k) : k \in {"delivery", "audio", "model"}}
scope(g) == model_scope(g) \cup audio_scope(g) \cup delivery_scope(g)

Init ==
  /\ revoked = {}
  /\ request = [g \in Grant |-> "NONE"]
  /\ queue = {}
  /\ live_token = {}
  /\ status = [i \in Item |-> "absent"]
  /\ objects = {}
  /\ deleted = [i \in Item |-> 0]
  /\ completed = [g \in Grant |-> 0]
  /\ locked = [w \in Worker |-> {}]
  /\ run = [w \in Worker |-> Idle]
  /\ missed = [w \in Worker |-> {}]
  /\ late = [g \in Grant |-> {}]
  /\ faults = 0
  /\ issued = 0

-----------------------------------------------------------------------------
(* Downstream features and the kernel                                      *)

\* The items that w's final check, finding nothing so far, will not look at
\* again: those of the kinds it has counted.
Counted(w) ==
  {i \in CASE run[w].step = "complete" -> Item
           [] run[w].step = "check" /\ ~run[w].left ->
                CASE run[w].kind = "audio" -> Delivery
                  [] run[w].kind = "model" -> Delivery \cup Audio
                  [] OTHER -> {}
           [] OTHER -> {} : i \in scope(run[w].grant)}

\* A downstream feature writes an item and, for an artifact, its object.  The
\* token that allowed the work was validated some time before.
Write(i) ==
  /\ status[i] = "absent"
  /\ source[i] # NoItem => status[source[i]] # "absent"
  /\ status' = [status EXCEPT ![i] = "live"]
  /\ objects' = IF i \in Artifact THEN objects \cup {i} ELSE objects
  /\ missed' = [w \in Worker |-> IF i \in Counted(w) THEN missed[w] \cup {i} ELSE missed[w]]
  /\ late' = [g \in Grant |-> IF request[g] = "COMPLETE" /\ i \in scope(g)
                             THEN late[g] \cup {i} ELSE late[g]]
  /\ UNCHANGED <<revoked, request, live_token, deleted, completed,
                 queue, locked, run, bounds>>

\* The downstream sender delivers a scheduled message.
Send(d) ==
  /\ d \in Delivery /\ status[d] = "live"
  /\ status' = [status EXCEPT ![d] = "sent"]
  /\ UNCHANGED <<revoked, request, live_token, deleted, completed,
                 queue, objects, locked, run, history, bounds>>

\* The kernel issues a token under g: one for any action before revocation,
\* one for a rights action after (a revoked grant still gives rights).
IssueToken(g) ==
  /\ g \notin live_token
  /\ issued < MaxIssued
  /\ issued' = issued + 1
  /\ live_token' = live_token \cup {g}
  /\ UNCHANGED <<revoked, request, status, deleted, completed,
                 queue, objects, locked, run, history, faults>>

-----------------------------------------------------------------------------
(* POST /grants/{id}/revoke (router.py revoke) and the sweeper             *)

\* A dispatch after the commit, which may be lost: the broker is down or the
\* server dies, and the error is only logged.
Dispatch(g) == queue' \in {queue, queue \cup {g}}

\* One transaction under the grant's row lock, then the dispatch.
Revoke(g) ==
  /\ g \notin revoked
  /\ revoked' = revoked \cup {g}
  /\ request' = [request EXCEPT ![g] = "PENDING"]
  /\ live_token' = live_token \ {g}
  /\ Dispatch(g)
  /\ UNCHANGED <<status, deleted, completed, objects, locked, run, history, bounds>>

\* An operator revokes out of band, with no request row, and sends the task.
RevokeOutOfBand(g) ==
  /\ g \notin revoked
  /\ revoked' = revoked \cup {g}
  /\ queue' = queue \cup {g}
  /\ UNCHANGED <<request, live_token, status, deleted, completed,
                 objects, locked, run, history, bounds>>

Open == {g \in Grant : request[g] \in {"PENDING", "PROCESSING"}}

\* Revoking again only dispatches again, unless the cascade is COMPLETE.
RevokeAgain(g) ==
  /\ g \in Open /\ g \notin queue
  /\ queue' = queue \cup {g}
  /\ UNCHANGED <<tables, objects, locked, run, history, bounds>>

\* The sweeper dispatches every open request that has not been touched for
\* stale_after_seconds: which those are, the clock decides.
sweep_stale_revocations ==
  /\ Open \ queue # {}
  /\ \E stale \in SUBSET (Open \ queue) : stale # {} /\ queue' = queue \cup stale
  /\ UNCHANGED <<tables, objects, locked, run, history, bounds>>

-----------------------------------------------------------------------------
(* A worker's run                                                          *)

Step(w, r) == run' = [run EXCEPT ![w] = r]

\* The end of a run, committed or not: its locks go with its transaction.
Stop(w) ==
  /\ run' = [run EXCEPT ![w] = Idle]
  /\ locked' = [locked EXCEPT ![w] = {}]
  /\ missed' = [missed EXCEPT ![w] = {}]

\* Variant: a request another run is PROCESSING is left to it.
\* EventuallyComplete fails: the other run may have died.
ClaimOnce(w, g) ==
  /\ ~Running(w)
  /\ g \in queue /\ g \in revoked
  /\ queue' = queue \ {g}
  /\ IF request[g] \in {"COMPLETE", "PROCESSING"}
     THEN UNCHANGED <<request, run>>
     ELSE /\ request' = [request EXCEPT ![g] = "PROCESSING"]
          /\ Step(w, [step |-> "tokens", grant |-> g])
  /\ UNCHANGED <<revoked, live_token, status, deleted, completed,
                 objects, locked, history, bounds>>

\* A worker takes a task and claims its request under FOR UPDATE, creating
\* the request if there is none.  On a COMPLETE request the task is done.
claim(w, g) ==
  /\ ~Running(w)
  /\ g \in queue /\ g \in revoked
  /\ queue' = queue \ {g}
  /\ IF request[g] = "COMPLETE"
     THEN UNCHANGED <<request, run>>
     ELSE /\ request' = [request EXCEPT ![g] = "PROCESSING"]
          /\ Step(w, [step |-> "tokens", grant |-> g])
  /\ UNCHANGED <<revoked, live_token, status, deleted, completed,
                 objects, locked, history, bounds>>

RevokeTokens(w) ==
  /\ run[w].step = "tokens"
  /\ live_token' = live_token \ {run[w].grant}
  /\ Step(w, [step |-> "work", grant |-> run[w].grant, kind |-> "tokens", todo |-> {}])
  /\ UNCHANGED <<revoked, request, status, deleted, completed,
                 queue, objects, locked, history, bounds>>

Next_kind == [tokens |-> "delivery", delivery |-> "audio", audio |-> "model"]

\* The ids of the next kind are listed, in a read of their own; after the
\* models comes the final check.
ListNext(w) ==
  /\ run[w].step = "work" /\ run[w].todo = {}
  /\ LET grant == run[w].grant IN
     IF run[w].kind = "model"
     THEN Step(w, [step |-> "check", grant |-> grant, kind |-> "tokens", left |-> FALSE])
     ELSE LET next == Next_kind[run[w].kind] IN
          Step(w, [step |-> "work", grant |-> grant, kind |-> next, todo |-> selected(grant, next)])
  /\ UNCHANGED <<tables, queue, objects, locked, history, bounds>>

\* The first of the listed ids is taken up, once no other run holds its row.
Takes(w, i) ==
  /\ run[w].step = "work"
  /\ i \in run[w].todo /\ \A j \in run[w].todo : i <= j
  /\ \A v \in Worker : i \notin locked[v]

Works(w, step, todo) ==
  Step(w, [step |-> step, grant |-> run[w].grant, kind |-> run[w].kind, todo |-> todo])
DoneWith(w, i) == Works(w, "work", run[w].todo \ {i})

\* Meanwhile cancelled, sent or deleted: not selected by the locking read.
Skip(w, i) ==
  /\ Takes(w, i)
  /\ status[i] # "live"
  /\ DoneWith(w, i)
  /\ UNCHANGED <<tables, queue, objects, locked, history, bounds>>

cancel_delivery(w, i) ==
  /\ Takes(w, i)
  /\ run[w].kind = "delivery" /\ status[i] = "live"
  /\ status' = [status EXCEPT ![i] = "gone"]
  /\ deleted' = [deleted EXCEPT ![i] = @ + 1]
  /\ DoneWith(w, i)
  /\ UNCHANGED <<revoked, request, live_token, completed,
                 queue, objects, locked, history, bounds>>

\* Variant: the row is read before it is locked.  DeletedOnce fails.
LockListed(w, i) ==
  /\ Takes(w, i)
  /\ run[w].kind # "delivery"
  /\ locked' = [locked EXCEPT ![w] = @ \cup {i}]
  /\ Works(w, "object", run[w].todo)
  /\ UNCHANGED <<tables, queue, objects, history, bounds>>

LockArtifact(w, i) ==
  /\ Takes(w, i)
  /\ run[w].kind # "delivery" /\ status[i] = "live"
  /\ locked' = [locked EXCEPT ![w] = @ \cup {i}]
  /\ Works(w, "object", run[w].todo)
  /\ UNCHANGED <<tables, queue, objects, history, bounds>>

\* Variant: a failed delete is taken for done.  TombstonesErased fails.
DeleteObjectMaybe(w) ==
  /\ run[w].step = "object"
  /\ objects' \in {objects, objects \ locked[w]}
  /\ Works(w, "tombstone", run[w].todo)
  /\ UNCHANGED <<tables, queue, locked, history, bounds>>

\* storage.delete succeeds, whether or not the object is still there.
DeleteObject(w) ==
  /\ run[w].step = "object"
  /\ objects' = objects \ locked[w]
  /\ Works(w, "tombstone", run[w].todo)
  /\ UNCHANGED <<tables, queue, locked, history, bounds>>

\* Variant: the row lock outlives the transaction.  Sound fails.
TombstoneHolding(w) ==
  /\ run[w].step = "tombstone"
  /\ \E i \in locked[w] :
       /\ status' = [status EXCEPT ![i] = "gone"]
       /\ deleted' = [deleted EXCEPT ![i] = @ + 1]
       /\ DoneWith(w, i)
  /\ UNCHANGED <<revoked, request, live_token, completed, queue, objects, locked, history, bounds>>

\* Tombstone and audit event commit.
Tombstone(w) ==
  /\ run[w].step = "tombstone"
  /\ \E i \in locked[w] :
       /\ status' = [status EXCEPT ![i] = "gone"]
       /\ deleted' = [deleted EXCEPT ![i] = @ + 1]
       /\ DoneWith(w, i)
  /\ locked' = [locked EXCEPT ![w] = {}]
  /\ UNCHANGED <<revoked, request, live_token, completed,
                 queue, objects, history, bounds>>

\* An attempt that failed: the open transaction rolls back, record_failure
\* touches the request, and the task is retried.
Retry(w) ==
  /\ Stop(w)
  /\ queue' = queue \cup {run[w].grant}

\* What a count of the final check finds of its kind.
finds(g, kind) == IF kind = "tokens" THEN g \in live_token ELSE selected(g, kind) # {}

\* After a count: the next one or, after the last, the retry of the attempt if
\* anything is left.
Counts(w, left) ==
  /\ LET run_w == run[w] IN
     \/ /\ run_w.kind # "model"
        /\ Step(w, [run_w EXCEPT !.kind = Next_kind[@], !.left = left])
        /\ UNCHANGED <<queue, locked, missed>>
     \/ /\ run_w.kind = "model" /\ ~left
        /\ Step(w, [step |-> "complete", grant |-> run_w.grant])
        /\ UNCHANGED <<queue, locked, missed>>
     \/ run_w.kind = "model" /\ left /\ Retry(w)
  /\ UNCHANGED <<tables, objects, late, bounds>>

\* Variant: only the last count decides.  NothingLeftBehind fails.
CountLast(w) ==
  /\ run[w].step = "check"
  /\ Counts(w, finds(run[w].grant, run[w].kind))

\* finish, first half: what is left is counted, kind after kind, under no lock.
\* Whatever any of the four finds fails the attempt.
Count(w) ==
  /\ run[w].step = "check"
  /\ Counts(w, run[w].left \/ finds(run[w].grant, run[w].kind))

\* finish, second half: lock the request, set COMPLETE, audit, commit.
Complete(w) ==
  /\ run[w].step = "complete"
  /\ request' = [request EXCEPT ![run[w].grant] = "COMPLETE"]
  /\ completed' = [completed EXCEPT ![run[w].grant] = @ + 1]
  /\ late' = [late EXCEPT ![run[w].grant] = @ \cup missed[w]]
  /\ Stop(w)
  /\ UNCHANGED <<revoked, live_token, status, deleted, queue, objects, bounds>>

-----------------------------------------------------------------------------
(* Faults                                                                  *)

Fault ==
  /\ faults < MaxFaults
  /\ faults' = faults + 1

\* The object store or the database raises at any step.
Fails(w) ==
  /\ Fault
  /\ Running(w)
  /\ Retry(w)
  /\ UNCHANGED <<tables, objects, late, issued>>

\* The worker process dies: the broker redelivers the unacknowledged task.
Crash(w) ==
  /\ Fault
  /\ Running(w)
  /\ Stop(w)
  /\ queue' = queue \cup {run[w].grant}
  /\ UNCHANGED <<tables, objects, late, issued>>

\* The broker delivers a task a worker is still running once more.
Redeliver(w) ==
  /\ Fault
  /\ Running(w)
  /\ queue' = queue \cup {run[w].grant}
  /\ UNCHANGED <<tables, objects, locked, run, history, issued>>

-----------------------------------------------------------------------------
Proceed(w) ==
  \/ RevokeTokens(w)
  \/ ListNext(w)
  \/ \E i \in Item : Skip(w, i) \/ cancel_delivery(w, i) \/ LockArtifact(w, i)
  \/ DeleteObject(w)
  \/ Tombstone(w)
  \/ Count(w)
  \/ Complete(w)

Consent(g) ==
  \/ IssueToken(g)
  \/ Revoke(g)
  \/ RevokeAgain(g)
  \/ RevokeOutOfBand(g)

Next ==
  \/ \E i \in Item : Write(i) \/ Send(i)
  \/ \E g \in Grant : Consent(g)
  \/ sweep_stale_revocations
  \/ \E w \in Worker :
       \/ \E g \in Grant : claim(w, g)
       \/ Proceed(w)
       \/ Fails(w)
       \/ Crash(w)
       \/ Redeliver(w)

Spec == Init /\ [][Next]_vars

\* Time passes, beat runs the sweeper, and a worker that is alive takes tasks
\* and goes on with its run.  Nobody need revoke, write or dispatch, and the
\* faults come to an end (MaxFaults).
Fairness ==
  /\ WF_vars(sweep_stale_revocations)
  /\ \A w \in Worker :
       WF_vars(\E g \in Grant : claim(w, g)) /\ WF_vars(Proceed(w))

FairSpec == Spec /\ Fairness
-----------------------------------------------------------------------------
(* Properties                                                              *)

Run ==
  {Idle}
    \cup [step : {"tokens", "complete"}, grant : Grant]
    \cup [step : {"check"}, grant : Grant,
          kind : {"tokens", "delivery", "audio", "model"}, left : BOOLEAN]
    \cup [step : {"work", "object", "tombstone"}, grant : Grant,
          kind : {"tokens", "delivery", "audio", "model"}, todo : SUBSET Item]

\* The types of the rows and of the workers' state.
TypeOK ==
  /\ revoked \subseteq Grant
  /\ request \in [Grant -> {"NONE", "PENDING", "PROCESSING", "COMPLETE"}]
  /\ queue \subseteq Grant /\ live_token \subseteq Grant
  /\ status \in [Item -> {"absent", "live", "sent", "gone"}]
  /\ objects \subseteq Artifact
  /\ deleted \in [Item -> Nat] /\ completed \in [Grant -> Nat]
  /\ locked \in [Worker -> SUBSET Item]
  /\ run \in [Worker -> Run]
  /\ missed \in [Worker -> SUBSET Item] /\ late \in [Grant -> SUBSET Item]
  /\ faults \in 0..MaxFaults /\ issued \in 0..MaxIssued

\* MODEL_DELETED and DELIVERY_CANCELLED are in the ledger exactly once for
\* each item that is gone, however many runs, of one grant or of two whose
\* scopes overlap, crashed or worked side by side.
DeletedOnce == \A i \in Item : deleted[i] = IF status[i] = "gone" THEN 1 ELSE 0

\* A tombstone never outruns the object store: the row keeps its key until
\* the object is gone.
TombstonesErased == \A i \in Artifact : status[i] = "gone" => i \notin objects

\* All that derives from what was made under g, whatever it is tagged with.
Derived(g) ==
  LET tagged == {i \in Item : tag[i] = g}
      once(S) == S \cup {i \in Item : source[i] \in S}
  IN once(once(tagged))

\* Once the request is COMPLETE, what is live of all that derives from the
\* grant was written after the check that completed it had counted that kind:
\* whatever was there before its kind was counted, the run found.
NothingLeftBehind ==
  \A g \in Grant : request[g] = "COMPLETE" =>
    \A i \in Derived(g) : status[i] = "live" => i \in late[g]

\* What a run has listed is of the kind it is at.
Listed(w) ==
  run[w].step \in {"work", "object", "tombstone"} =>
    run[w].todo \subseteq CASE run[w].kind = "tokens" -> {}
                            [] run[w].kind = "delivery" -> Delivery
                            [] run[w].kind = "audio" -> Audio
                            [] run[w].kind = "model" -> Model

\* A run holds one row, of a live artifact, from its lock to its tombstone,
\* and its object is gone before the tombstone is written.
Holds(w) ==
  IF run[w].step \in {"object", "tombstone"}
  THEN /\ \E i \in Artifact : locked[w] = {i} /\ status[i] = "live"
       /\ run[w].step = "tombstone" => locked[w] \cap objects = {}
  ELSE locked[w] = {}

\* A final check that has found nothing has missed only what was written since.
NoneMissed(w) == \A i \in Counted(w) : status[i] = "live" => i \in missed[w]

NoneLeft(g) ==
  request[g] = "COMPLETE" => \A i \in scope(g) : status[i] = "live" => i \in late[g]

\* The inductive invariant: it implies the properties above.
Sound ==
  /\ TypeOK
  /\ \A w \in Worker : Listed(w) /\ Holds(w)
  /\ \A v, w \in Worker : v # w => locked[v] \cap locked[w] = {}
  /\ DeletedOnce /\ TombstonesErased
  /\ \A w \in Worker : NoneMissed(w)
  /\ \A g \in Grant : NoneLeft(g)

\* Every revocation is carried out: lost dispatches, crashes, storage errors,
\* racing writers and rights tokens only delay it.
EventuallyComplete ==
  \A g \in Grant : g \in revoked ~> request[g] = "COMPLETE"

-----------------------------------------------------------------------------
(* A statement of the documentation that the code does not keep            *)

\* README.md:304: an artifact written during the cascade is found by the final
\* check and deleted, so COMPLETE is never set over a live one.
CompleteMeansNothingLeft ==
  [][\A g \in Grant :
       request[g] # "COMPLETE" /\ request'[g] = "COMPLETE" => remaining(g) = {}]_vars
=============================================================================
