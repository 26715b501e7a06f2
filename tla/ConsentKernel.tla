---------------------------- MODULE ConsentKernel ----------------------------
(***************************************************************************)
(* The consent kernel's transactions on one profile: creating, verifying,  *)
(* acknowledging and revoking grants, designating successors, recording    *)
(* the death, and authorizing actions (remembrance-consent/app).           *)
(*                                                                         *)
(* Every request runs in a server thread as one READ COMMITTED             *)
(* transaction.  It is two or three actions: the reads (with the row locks *)
(* they take and the checks made on what they returned), and the writes,   *)
(* which appear together with the audit event when the transaction         *)
(* commits.  Any other request may commit in between; FOR UPDATE and       *)
(* FOR SHARE row locks are what keeps some of them out.  A request that    *)
(* answers 4xx before writing changes nothing and is not an action; a      *)
(* request that dies before it commits is Abort.                           *)
(***************************************************************************)
EXTENDS ConsentDecision

CONSTANTS
  Proc,          \* server threads
  Request,       \* [action, purpose] pairs callers send to POST /authorize
  Offer,         \* [type, scope, named, required] of grants callers create
  Successor,     \* accounts that may be named as successor
  Priority,      \* priority_order values
  MaxRequests    \* bound: requests that reach the database in a behaviour

ASSUME RequestAssumption ==
  Request \subseteq [action : ConsentAction, purpose : PurposeCode]
ASSUME OfferAssumption ==
  /\ Offer \subseteq [type : GrantorType, scope : SUBSET PurposeScope,
                      named : SUBSET Actor, required : Nat \cup {AllNamed}]
  /\ \A o \in Offer : IsFiniteSet(o.named)
  /\ \A o \in Offer : o.required # AllNamed => o.required <= Cardinality(o.named)
ASSUME SuccessorAssumption == Successor \subseteq Actor
ASSUME MaxRequestsAssumption == MaxRequests \in Nat

VARIABLES
  profile,      \* deceased_profile: "ABSENT", "ALIVE" or "DEAD" (date_of_death set)
  row,          \* consent_grant: the committed rows by id, with their terms and state
  acks,         \* beneficiary_acknowledgment rows of each grant
  designations, \* successor_designation rows
  tokens,       \* authorization_token rows (rows equal in every column are one)
  requested,    \* grants with a revocation_request row
  ledger,       \* audit_event rows: how many of each [type, grant, actor] there are
  txn,          \* what each thread has read and decided so far
  shared,       \* grant rows each thread holds FOR SHARE
  exclusive,    \* grant rows each thread holds FOR UPDATE
  accepted      \* requests accepted so far (bounds the model)

data == <<profile, row, acks, designations, tokens, requested>>
vars == <<data, ledger, txn, shared, exclusive, accepted>>

granted == DOMAIN row

Idle == [phase |-> "idle"]

GrantRow ==
  [type : GrantorType, grantor : Actor, scope : SUBSET PurposeScope,
   named : SUBSET Actor, required : Nat \cup {AllNamed},
   verified : BOOLEAN, revoked : BOOLEAN, active : BOOLEAN]

NewRow(actor, offer) ==
  [type |-> offer.type, grantor |-> actor, scope |-> offer.scope,
   named |-> offer.named, required |-> offer.required,
   verified |-> FALSE, revoked |-> FALSE, active |-> TRUE]

WithRow(g, r) == [h \in granted \cup {g} |-> IF h = g THEN r ELSE row[h]]

Token == [grant : GrantId \cup {NoGrant}, action : ConsentAction, actor : Actor, revoked : BOOLEAN]

UseToken(t) == t.action \in USE_ACTIONS
Live(t) == ~t.revoked

-----------------------------------------------------------------------------
(* Reading a snapshot                                                      *)

\* load_profile_facts, given the profile row as it was read: session.get
\* takes no lock, and the identity map keeps it while the thread waits.
facts_from(seen) ==
  [known |-> seen # "ABSENT",
   dead |-> seen = "DEAD",
   successors |-> {d.user : d \in designations},
   grants |-> [g \in granted |->
      [type |-> row[g].type, grantor |-> row[g].grantor, scope |-> row[g].scope,
       named |-> row[g].named, required |-> row[g].required,
       verified |-> row[g].verified, revoked |-> row[g].revoked,
       active |-> row[g].active, acknowledged |-> acks[g]]]]

facts == facts_from(profile)

\* Variant: FOR UPDATE does not wait for FOR SHARE.  Safe fails.
WritableOverShared(p, g) == \A q \in Proc \ {p} : g \notin exclusive[q]

\* Locks of other threads that FOR UPDATE, and FOR SHARE, on g wait for.
Writable(p, g) == \A q \in Proc \ {p} : g \notin shared[q] /\ g \notin exclusive[q]

\* Variant: plain reads instead of FOR SHARE.  NoUseAfterRevocation fails.
ShareableUnlocked(p, g) == TRUE

Shareable(p, g) == \A q \in Proc \ {p} : g \notin exclusive[q]

Copies(e) == IF e \in DOMAIN ledger THEN ledger[e] ELSE 0
Record(es) ==
  ledger' = [e \in DOMAIN ledger \cup es |-> IF e \in es THEN Copies(e) + 1 ELSE ledger[e]]
Event(type, g, actor) == [type |-> type, grant |-> g, actor |-> actor]

\* A thread picks up a request.
Accept(p) ==
  /\ txn[p] = Idle
  /\ accepted < MaxRequests
  /\ accepted' = accepted + 1

\* The transaction ends, committed or rolled back: its locks are released.
End(p) ==
  /\ txn' = [txn EXCEPT ![p] = Idle]
  /\ shared' = [shared EXCEPT ![p] = {}]
  /\ exclusive' = [exclusive EXCEPT ![p] = {}]
  /\ UNCHANGED accepted

KeepLocks == UNCHANGED <<shared, exclusive>>

Init ==
  /\ profile = "ABSENT"
  /\ row = <<>>
  /\ acks = [g \in GrantId |-> {}]
  /\ designations = {}
  /\ tokens = {}
  /\ requested = {}
  /\ ledger = <<>>
  /\ txn = [p \in Proc |-> Idle]
  /\ shared = [p \in Proc |-> {}]
  /\ exclusive = [p \in Proc |-> {}]
  /\ accepted = 0

-----------------------------------------------------------------------------
(* POST /grants (router.py create_grant)                                   *)

\* The grant comes with its profile: nothing is read, all rows are new.
CreateWithProfile(p, actor, offer, g) ==
  /\ Accept(p)
  /\ actor \in Human
  /\ profile = "ABSENT"
  /\ profile' = IF offer.type = "ESTATE" THEN "DEAD" ELSE "ALIVE"
  /\ row' = WithRow(g, NewRow(actor, offer))
  /\ Record({Event("PROFILE_CREATED", NoGrant, actor), Event("CONSENT_CREATED", g, actor)})
  /\ KeepLocks
  /\ UNCHANGED <<acks, designations, tokens, requested, txn>>

\* For an existing profile everything is read without a lock.
\* Variant: no PRE_NEED_SUBJECT_CONFLICT check.  OneSubject fails.
CreateReadAnyone(p, actor, offer) ==
  /\ Accept(p)
  /\ actor \in Human
  /\ profile = IF offer.type = "SELF_PRE_NEED" THEN "ALIVE" ELSE "DEAD"
  /\ ~is_deceased_actor(actor, facts)
  /\ txn' = [txn EXCEPT ![p] = [phase |-> "create", actor |-> actor, offer |-> offer]]
  /\ KeepLocks
  /\ UNCHANGED <<data, ledger>>

CreateRead(p, actor, offer) ==
  /\ Accept(p)
  /\ actor \in Human
  /\ profile = IF offer.type = "SELF_PRE_NEED" THEN "ALIVE" ELSE "DEAD"
  /\ ~is_deceased_actor(actor, facts)
  /\ offer.type = "SELF_PRE_NEED" =>
       \A g \in granted : row[g].type = "SELF_PRE_NEED" => row[g].grantor = actor
  /\ txn' = [txn EXCEPT ![p] = [phase |-> "create", actor |-> actor, offer |-> offer]]
  /\ KeepLocks
  /\ UNCHANGED <<data, ledger>>

CreateCommit(p, g) ==
  /\ txn[p].phase = "create"
  /\ g \notin granted
  /\ row' = WithRow(g, NewRow(txn[p].actor, txn[p].offer))
  /\ Record({Event("CONSENT_CREATED", g, txn[p].actor)})
  /\ End(p)
  /\ UNCHANGED <<profile, acks, designations, tokens, requested>>

-----------------------------------------------------------------------------
(* POST /grants/{id}/verify                                                *)

\* Variant: the grant is read without FOR UPDATE.  LedgerAgrees fails.
VerifyReadUnlocked(p, actor, g) ==
  /\ Accept(p)
  /\ actor \in Admin \cap Human
  /\ g \in granted
  /\ row[g].grantor # actor
  /\ ~row[g].revoked /\ ~row[g].verified
  /\ txn' = [txn EXCEPT ![p] = [phase |-> "verify", actor |-> actor, grant |-> g]]
  /\ KeepLocks
  /\ UNCHANGED <<data, ledger>>

VerifyRead(p, actor, g) ==
  /\ Accept(p)
  /\ actor \in Admin \cap Human
  /\ g \in granted /\ Writable(p, g)
  /\ row[g].grantor # actor
  /\ ~row[g].revoked /\ ~row[g].verified
  /\ txn' = [txn EXCEPT ![p] = [phase |-> "verify", actor |-> actor, grant |-> g]]
  /\ exclusive' = [exclusive EXCEPT ![p] = {g}]
  /\ UNCHANGED <<data, ledger, shared>>

VerifyCommit(p) ==
  /\ txn[p].phase = "verify"
  /\ row' = [row EXCEPT ![txn[p].grant].verified = TRUE]
  /\ Record({Event("AUTHORITY_VERIFIED", txn[p].grant, txn[p].actor)})
  /\ End(p)
  /\ UNCHANGED <<profile, acks, designations, tokens, requested>>

-----------------------------------------------------------------------------
(* POST /grants/{id}/acknowledge: the grant is read without a lock.        *)

AcknowledgeRead(p, actor, g) ==
  /\ Accept(p)
  /\ actor \in Human
  /\ g \in granted
  /\ "BENEFICIARY" \in roles_on(actor, facts, {g})
  /\ ~is_deceased_actor(actor, facts)
  /\ ~row[g].revoked
  /\ actor \notin acks[g]
  /\ txn' = [txn EXCEPT ![p] = [phase |-> "acknowledge", actor |-> actor, grant |-> g]]
  /\ KeepLocks
  /\ UNCHANGED <<data, ledger>>

\* The insert's foreign key takes FOR KEY SHARE on the grant, which waits for
\* FOR UPDATE.  Nothing is read again.
AcknowledgeCommit(p) ==
  /\ txn[p].phase = "acknowledge"
  /\ Shareable(p, txn[p].grant)
  /\ txn[p].actor \notin acks[txn[p].grant]
  /\ acks' = [acks EXCEPT ![txn[p].grant] = @ \cup {txn[p].actor}]
  /\ Record({Event("BENEFICIARY_ACKNOWLEDGED", txn[p].grant, txn[p].actor)})
  /\ End(p)
  /\ UNCHANGED <<profile, row, designations, tokens, requested>>

\* Another request of the same beneficiary came first: the unique constraint
\* rejects the row and the transaction rolls back (409).
AcknowledgeConflict(p) ==
  /\ txn[p].phase = "acknowledge"
  /\ Shareable(p, txn[p].grant)
  /\ txn[p].actor \in acks[txn[p].grant]
  /\ End(p)
  /\ UNCHANGED <<data, ledger>>

-----------------------------------------------------------------------------
(* POST /grants/{id}/revoke                                                *)

REVOKE_ROLES == {"OWNER", "BENEFICIARY", "SUCCESSOR", "ADMIN"}

\* On a grant already revoked the request only re-sends the cascade.
RevokeRead(p, actor, g) ==
  /\ Accept(p)
  /\ actor \in Human
  /\ g \in granted /\ Writable(p, g)
  /\ roles_on(actor, facts, {g}) \cap REVOKE_ROLES # {}
  /\ ~is_deceased_actor(actor, facts)
  /\ ~row[g].revoked
  /\ txn' = [txn EXCEPT ![p] = [phase |-> "revoke", actor |-> actor, grant |-> g]]
  /\ exclusive' = [exclusive EXCEPT ![p] = {g}]
  /\ UNCHANGED <<data, ledger, shared>>

revoke_grant_tokens(g) ==
  {IF t.grant = g THEN [t EXCEPT !.revoked = TRUE] ELSE t : t \in tokens}

\* Variant: the tokens are left to the cascade.  KeepsPromise fails.
RevokeCommitTokensLater(p) ==
  /\ txn[p].phase = "revoke"
  /\ row' = [row EXCEPT ![txn[p].grant] = [@ EXCEPT !.active = FALSE, !.revoked = TRUE]]
  /\ requested' = requested \cup {txn[p].grant}
  /\ Record({Event("CONSENT_REVOKED", txn[p].grant, txn[p].actor)})
  /\ End(p)
  /\ UNCHANGED <<profile, acks, designations, tokens>>

RevokeCommit(p) ==
  /\ txn[p].phase = "revoke"
  /\ row' = [row EXCEPT ![txn[p].grant] = [@ EXCEPT !.active = FALSE, !.revoked = TRUE]]
  /\ tokens' = revoke_grant_tokens(txn[p].grant)
  /\ requested' = requested \cup {txn[p].grant}
  /\ Record({Event("CONSENT_REVOKED", txn[p].grant, txn[p].actor)})
  /\ End(p)
  /\ UNCHANGED <<profile, acks, designations>>

-----------------------------------------------------------------------------
(* POST /authorize (kernel.py authorize)                                   *)

\* A banned purpose is audited and refused before anything is decided.
PurposeViolation(p, actor, q) ==
  /\ Accept(p)
  /\ q.purpose = BannedPurpose
  /\ Record({Event("PURPOSE_VIOLATION_ATTEMPT", NoGrant, actor)})
  /\ KeepLocks
  /\ UNCHANGED <<data, txn>>

AuthorizeRead(p, actor, q) ==
  /\ Accept(p)
  /\ q.purpose # BannedPurpose
  /\ txn' = [txn EXCEPT ![p] =
       [phase |-> "authorize", actor |-> actor, request |-> q, seen |-> profile]]
  /\ KeepLocks
  /\ UNCHANGED <<data, ledger>>

\* The grants are read FOR SHARE, after waiting for every FOR UPDATE on them,
\* and the decision is taken on them and on the profile as read before.
AuthorizeDecide(p) ==
  /\ txn[p].phase = "authorize"
  /\ txn[p].seen # "ABSENT" => \A g \in granted : Shareable(p, g)
  /\ shared' = [shared EXCEPT ![p] = IF txn[p].seen = "ABSENT" THEN {} ELSE granted]
  /\ LET q == txn[p].request
         decision == decide(q.action, q.purpose, txn[p].actor, facts_from(txn[p].seen))
     IN txn' = [txn EXCEPT ![p] =
          [phase |-> "decided", actor |-> txn[p].actor, action |-> q.action,
           allowed |-> decision.allowed, grant |-> decision.grant]]
  /\ UNCHANGED <<data, ledger, exclusive, accepted>>

AuthorizationEvent(action, allowed) ==
  IF action \in SYNTHESIS_ACTIONS
  THEN IF allowed THEN "SYNTHESIS_REQUESTED" ELSE "SYNTHESIS_BLOCKED"
  ELSE IF allowed THEN "AUTHORIZATION_GRANTED" ELSE "AUTHORIZATION_DENIED"

\* The token row and the audit event commit together.
AuthorizeCommit(p) ==
  /\ txn[p].phase = "decided"
  /\ LET t == txn[p] IN
     /\ tokens' = IF t.allowed
                  THEN tokens \cup {[grant |-> t.grant, action |-> t.action,
                                     actor |-> t.actor, revoked |-> FALSE]}
                  ELSE tokens
     /\ Record({Event(AuthorizationEvent(t.action, t.allowed), t.grant, t.actor)})
  /\ End(p)
  /\ UNCHANGED <<profile, row, acks, designations, requested>>

-----------------------------------------------------------------------------
(* POST /successors                                                        *)

Clash(d) == \E e \in designations : e.user = d.user \/ e.priority = d.priority

DesignateRead(p, actor, d) ==
  /\ Accept(p)
  /\ actor \in Human
  /\ profile # "ABSENT"
  /\ txn' = [txn EXCEPT ![p] =
       [phase |-> "designate", actor |-> actor, designation |-> d, seen |-> profile]]
  /\ KeepLocks
  /\ UNCHANGED <<data, ledger>>

\* A refused designation ends here; nothing of it was written.
DesignateCheck(p) ==
  /\ txn[p].phase = "designate"
  /\ \A g \in granted : Shareable(p, g)
  /\ LET actor == txn[p].actor  f == facts_from(txn[p].seen) IN
     IF /\ ~is_deceased_actor(actor, f)
        /\ \/ actor \in Admin
           \/ \E g \in granted : row[g].verified /\ ~row[g].revoked /\ row[g].grantor = actor
        /\ ~Clash(txn[p].designation)
     THEN /\ txn' = [txn EXCEPT ![p] = [phase |-> "designating", actor |-> actor,
                                        designation |-> txn[p].designation]]
          /\ shared' = [shared EXCEPT ![p] = granted]
          /\ UNCHANGED <<exclusive, accepted>>
     ELSE End(p)
  /\ UNCHANGED <<data, ledger>>

\* Variant: no unique constraints.  SuccessorsUnambiguous fails.
DesignateCommitTwice(p) ==
  /\ txn[p].phase = "designating"
  /\ designations' = designations \cup {txn[p].designation}
  /\ Record({Event("SUCCESSOR_DESIGNATED", NoGrant, txn[p].actor)})
  /\ End(p)
  /\ UNCHANGED <<profile, row, acks, tokens, requested>>

\* The unique constraints decide what two designations at once do.
DesignateCommit(p) ==
  /\ txn[p].phase = "designating"
  /\ IF Clash(txn[p].designation)
     THEN UNCHANGED <<designations, ledger>>
     ELSE /\ designations' = designations \cup {txn[p].designation}
          /\ Record({Event("SUCCESSOR_DESIGNATED", NoGrant, txn[p].actor)})
  /\ End(p)
  /\ UNCHANGED <<profile, row, acks, tokens, requested>>

-----------------------------------------------------------------------------
(* POST /profiles/{id}/death: reads and writes one row under FOR UPDATE.   *)

RecordDeath(p, actor) ==
  /\ Accept(p)
  /\ actor \in Admin
  /\ profile = "ALIVE"
  /\ profile' = "DEAD"
  /\ Record({Event("DEATH_RECORDED", NoGrant, actor)})
  /\ KeepLocks
  /\ UNCHANGED <<row, acks, designations, tokens, requested, txn>>

\* The thread, its connection or a statement fails: the database rolls back.
Abort(p) ==
  /\ txn[p] # Idle
  /\ End(p)
  /\ UNCHANGED <<data, ledger>>

-----------------------------------------------------------------------------
GrantRequests(p, actor) ==
  \/ \E o \in Offer : CreateRead(p, actor, o) \/ \E g \in GrantId : CreateWithProfile(p, actor, o, g)
  \/ \E g \in GrantId : VerifyRead(p, actor, g) \/ AcknowledgeRead(p, actor, g) \/ RevokeRead(p, actor, g)

OtherRequests(p, actor) ==
  \/ \E q \in Request : PurposeViolation(p, actor, q) \/ AuthorizeRead(p, actor, q)
  \/ \E d \in [user : Successor, priority : Priority] : DesignateRead(p, actor, d)
  \/ RecordDeath(p, actor)

Continue(p) ==
  \/ \E g \in GrantId : CreateCommit(p, g)
  \/ VerifyCommit(p)
  \/ AcknowledgeCommit(p)
  \/ AcknowledgeConflict(p)
  \/ RevokeCommit(p)
  \/ AuthorizeDecide(p)
  \/ AuthorizeCommit(p)
  \/ DesignateCheck(p)
  \/ DesignateCommit(p)
  \/ Abort(p)

\* No further request comes and none is under way.
Quiet ==
  /\ accepted = MaxRequests
  /\ \A p \in Proc : txn[p] = Idle
  /\ UNCHANGED vars

Next ==
  \/ \E p \in Proc :
       \/ \E actor \in Actor : GrantRequests(p, actor) \/ OtherRequests(p, actor)
       \/ Continue(p)
  \/ Quiet

Spec == Init /\ [][Next]_vars
-----------------------------------------------------------------------------
(* Properties                                                              *)

Designation == [user : Successor, priority : Priority]

\* What a thread holds between its statements.
Txn ==
  {Idle}
    \cup [phase : {"create"}, actor : Actor, offer : Offer]
    \cup [phase : {"verify", "acknowledge", "revoke"}, actor : Actor, grant : GrantId]
    \cup [phase : {"authorize"}, actor : Actor, request : Request,
          seen : {"ABSENT", "ALIVE", "DEAD"}]
    \cup [phase : {"decided"}, actor : Actor, action : ConsentAction,
          allowed : BOOLEAN, grant : GrantId \cup {NoGrant}]
    \cup [phase : {"designate"}, actor : Actor, designation : Designation,
          seen : {"ABSENT", "ALIVE", "DEAD"}]
    \cup [phase : {"designating"}, actor : Actor, designation : Designation]

\* The types of the rows, of what threads hold, and of their locks.
TypeOK ==
  /\ profile \in {"ABSENT", "ALIVE", "DEAD"}
  /\ granted \subseteq GrantId
  /\ row \in [granted -> GrantRow]
  /\ acks \in [GrantId -> SUBSET Actor]
  /\ designations \subseteq Designation
  /\ tokens \subseteq Token
  /\ requested \subseteq GrantId
  /\ txn \in [Proc -> Txn]
  /\ shared \in [Proc -> SUBSET GrantId]
  /\ exclusive \in [Proc -> SUBSET GrantId]
  /\ accepted \in Nat

\* Revoking a grant ends every use licensed under it: no committed state
\* holds a live use token of a revoked grant, however authorize and revoke
\* interleave.  (Tokens for rights actions outlive consent on purpose.)
NoUseAfterRevocation ==
  \A t \in tokens : UseToken(t) /\ Live(t) =>
    t.grant \in granted /\ ~row[t.grant].revoked

Unrevoked(f, g) == [f.grants[g] EXCEPT !.revoked = FALSE, !.active = TRUE]

\* Revocation apart, the profile as it is would let the actor use the grant.
Backed(action, actor, g) ==
  /\ profile = "DEAD"
  /\ g \in granted
  /\ grant_permits(action, ACTION_PURPOSE[action], actor, Unrevoked(facts, g), facts)

\* Revocation apart, what a use token was issued on still holds whenever it
\* is looked at: its subject is dead, its grant verified and in scope, the
\* quorum met, its holder entitled, although all of it was read before the
\* commit and only the grant rows were locked.
UseTokenBacked ==
  \A t \in tokens : UseToken(t) => Backed(t.action, t.actor, t.grant)

Never(type, g) == \A a \in Actor : Copies(Event(type, g, a)) = 0
Once(type, g) ==
  \E a \in Actor :
    /\ Copies(Event(type, g, a)) = 1
    /\ \A b \in Actor \ {a} : Copies(Event(type, g, b)) = 0
OnceIff(fact, type, g) == IF fact THEN Once(type, g) ELSE Never(type, g)

GrantAgrees(g) ==
  /\ OnceIff(g \in granted, "CONSENT_CREATED", g)
  /\ OnceIff(g \in granted /\ row[g].verified, "AUTHORITY_VERIFIED", g)
  /\ OnceIff(g \in granted /\ row[g].revoked, "CONSENT_REVOKED", g)
  /\ g \in requested <=> g \in granted /\ row[g].revoked
  /\ \A a \in Actor :
       Copies(Event("BENEFICIARY_ACKNOWLEDGED", g, a)) = IF a \in acks[g] THEN 1 ELSE 0

ProfileAgrees ==
  /\ OnceIff(profile # "ABSENT", "PROFILE_CREATED", NoGrant)
  /\ \/ Never("DEATH_RECORDED", NoGrant)
     \/ Once("DEATH_RECORDED", NoGrant) /\ profile = "DEAD"

\* The ledger tells the story the tables tell: each grant was created,
\* verified and revoked once if it is so in its row, each acknowledgment and
\* the death were recorded once, and a revocation has its request; also when
\* two requests try the same thing at once, or one dies half way.
LedgerAgrees == ProfileAgrees /\ \A g \in GrantId : GrantAgrees(g)

\* One account at most holds pre-need consent of a profile, although the check
\* for it (create_grant) reads the grants without a lock: a living profile was
\* created with a pre-need grant, so every reader sees whose it is.
OnePreNeedSubject ==
  \A g, h \in granted :
    row[g].type = "SELF_PRE_NEED" /\ row[h].type = "SELF_PRE_NEED"
      => row[g].grantor = row[h].grantor

\* Successors stay unambiguous: one designation per account and per priority.
SuccessorsUnambiguous ==
  \A d, e \in designations : d.user = e.user \/ d.priority = e.priority => d = e

\* What the profile could look like instead, for all a stranger knows.
OtherFacts ==
  {[facts EXCEPT !.dead = ~@], [facts EXCEPT !.known = FALSE, !.grants = <<>>]}
    \cup {[facts EXCEPT !.grants[g].revoked = ~@, !.grants[g].active = ~@] : g \in granted}
    \cup {[facts EXCEPT !.grants[g].verified = ~@] : g \in granted}

\* A denial tells an unrelated caller nothing about the profile: had it been
\* revoked, unverified or alive, the same reason would have come back; and had
\* it been unknown, unless the caller is a service, which is told that it is
\* not a person only once the profile was found.
StrangersLearnNothing ==
  \A a \in Actor, q \in Request :
    roles_for(a, facts) = {"PUBLIC"} =>
      LET told(f) == disclosed_reason(decide(q.action, q.purpose, a, f))
          denied(f) == ~decide(q.action, q.purpose, a, f).allowed
      IN \A f \in OtherFacts :
           (a \in Human \/ f.known = facts.known) /\ denied(facts) /\ denied(f)
             => told(facts) = told(f)

\* Access and erasure outlive consent: whoever holds a verified grant may
\* export and erase, revoked or not, unless the holder is the deceased.
RightsOutliveConsent ==
  \A g \in granted :
    LET a == row[g].grantor IN
    row[g].verified /\ a \in Human /\ ~is_deceased_actor(a, facts) =>
      \A right \in RIGHTS_ACTIONS :
        decide(right, ACTION_PURPOSE[right], a, facts).allowed

Standing(g) ==
  IF g \notin granted THEN "absent"
  ELSE IF row[g].revoked THEN "revoked"
  ELSE IF row[g].verified THEN "verified" ELSE "unverified"

Licensed == {t.grant : t \in {u \in tokens : UseToken(u) /\ Live(u)}}

Promise == INSTANCE ConsentPromise WITH
  standing <- [g \in GrantId |-> Standing(g)],
  licensed <- Licensed,
  dead <- profile = "DEAD"

\* The transactions keep the promise of ConsentPromise: consent moves one way,
\* a use is licensed only under verified consent after death, and revoking it
\* ends all licences in one step.
KeepsPromise == Promise!PromiseSpec

-----------------------------------------------------------------------------
(* What makes them true: the inductive invariants                          *)

\* A row held FOR UPDATE is held by nobody else.
LockExclusion ==
  \A p \in Proc : \A q \in Proc \ {p} : exclusive[p] \cap (exclusive[q] \cup shared[q]) = {}

\* Whoever is about to verify or revoke a grant holds its row, as it was read.
ChangersHold ==
  \A p \in Proc : txn[p].phase \in {"verify", "revoke"} =>
    /\ txn[p].grant \in exclusive[p] \cap granted
    /\ ~row[txn[p].grant].revoked
    /\ txn[p].phase = "verify" => ~row[txn[p].grant].verified

\* A death once read stays recorded.
DeathSeen ==
  \A p \in Proc :
    txn[p].phase = "authorize" => (txn[p].seen = "DEAD" => profile = "DEAD")

\* A use decided but not committed rests on a verified grant that is held
\* FOR SHARE, so that it cannot be revoked before the token is stored.
VerdictsHold ==
  \A p \in Proc :
    txn[p].phase = "decided" /\ txn[p].allowed /\ txn[p].action \in USE_ACTIONS =>
      /\ profile = "DEAD"
      /\ txn[p].grant \in shared[p] \cap granted
      /\ row[txn[p].grant].verified /\ ~row[txn[p].grant].revoked

\* A thread that has allowed a use and not stored its token yet.
Verdict(action, actor, g) ==
  [phase |-> "decided", actor |-> actor, action |-> action, allowed |-> TRUE, grant |-> g]

\* What stored tokens rest on, and what those about to be stored rest on;
\* the lists of beneficiaries that quorums count are finite.
Backing ==
  /\ UseTokenBacked
  /\ \A p \in Proc, action \in USE_ACTIONS, actor \in Actor, g \in GrantId :
       txn[p] = Verdict(action, actor, g) => Backed(action, actor, g)
  /\ \A g \in granted : IsFiniteSet(row[g].named)

\* The rows, the locks and what each thread has decided fit together at every
\* moment between two statements.
Safe ==
  /\ TypeOK
  /\ LockExclusion
  /\ ChangersHold
  /\ DeathSeen
  /\ VerdictsHold
  /\ NoUseAfterRevocation

PreNeed(g) == row[g].type = "SELF_PRE_NEED"

\* Grants come with or after their profile, a living profile came with a
\* pre-need grant, and whoever is creating another one already holds one.
OneSubject ==
  /\ profile = "ABSENT" => granted = {} /\ \A p \in Proc : txn[p].phase # "create"
  /\ profile = "ALIVE" => \E g \in granted : PreNeed(g)
  /\ \A p \in Proc : txn[p].phase = "create" =>
       (txn[p].offer.type = "SELF_PRE_NEED" =>
          \E g \in granted : PreNeed(g) /\ row[g].grantor = txn[p].actor)
  /\ OnePreNeedSubject

=============================================================================
