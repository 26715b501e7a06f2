------------------------- MODULE ConsentKernelProofs -------------------------
(***************************************************************************)
(* Theorems about ConsentKernel, for any number of accounts, grants,       *)
(* server threads and requests.                                            *)
(***************************************************************************)
EXTENDS ConsentKernel, FiniteSetTheorems, WellFoundedInduction, TLAPS

USE DEF NoGrant

-----------------------------------------------------------------------------
(* The decision                                                            *)

\* kernel.py decide takes the first grant of a nonempty list: there is one.
LEMMA FirstLeast ==
  ASSUME NEW S \in SUBSET Nat, S # {}
  PROVE  First(S) \in S /\ \A h \in S : First(S) <= h
<1>1. PICK x \in S : \A y \in S : ~(<<y, x>> \in OpToRel(<, Nat))
  BY NatLessThanWellFounded, WFMin
<1>2. ASSUME NEW y \in S PROVE x <= y
  <2>1. <<y, x>> \notin OpToRel(<, Nat) BY <1>1
  <2>2. x \in Nat /\ y \in Nat OBVIOUS
  <2>3. ~(y < x) BY <2>1, <2>2 DEF OpToRel
  <2> QED BY <2>2, <2>3
<1>3. \E z \in S : \A h \in S : z <= h BY <1>2
<1> QED BY <1>3 DEF First

FactsOver(f) == DOMAIN f.grants \subseteq GrantId

\* A rights action is allowed without a grant or on one of the profile's.
LEMMA DecideRights ==
  ASSUME NEW actor, NEW f, NEW related \in BOOLEAN, FactsOver(f)
  PROVE  LET d == decide_rights(actor, f, related) IN
         d.allowed \in BOOLEAN /\ d.grant \in GrantId \cup {NoGrant}
<1> DEFINE owned == {g \in DOMAIN f.grants : f.grants[g].verified /\ f.grants[g].grantor = actor}
<1>1. owned \in SUBSET Nat /\ owned \subseteq GrantId BY GrantIdAssumption DEF FactsOver
<1>2. owned # {} => First(owned) \in GrantId BY <1>1, FirstLeast
<1> HIDE DEF owned
<1>3. decide_rights(actor, f, related) =
        IF actor \in Admin \/ actor \in f.successors THEN Allowed(NoGrant, TRUE)
        ELSE IF owned # {} THEN Allowed(First(owned), TRUE)
        ELSE Denied("ROLE_NOT_PERMITTED", related)
  BY DEF decide_rights, owned
<1> QED BY <1>2, <1>3 DEF Allowed, Denied

\* A use is allowed only for a dead subject, on a grant of the profile that
\* passes every check.
LEMMA DecideUse ==
  ASSUME NEW action, NEW purpose, NEW actor, NEW f, NEW related \in BOOLEAN, FactsOver(f)
  PROVE  LET d == decide_use(action, purpose, actor, f, related) IN
         /\ d.allowed \in BOOLEAN /\ d.grant \in GrantId \cup {NoGrant}
         /\ d.allowed => /\ f.dead
                         /\ d.grant \in DOMAIN f.grants
                         /\ grant_permits(action, purpose, actor, f.grants[d.grant], f)
<1> DEFINE permitting == {g \in DOMAIN f.grants :
                            grant_permits(action, purpose, actor, f.grants[g], f)}
           failures == {grant_failure(action, purpose, actor, f.grants[g], f) : g \in DOMAIN f.grants}
           furthest == CHOOSE r \in failures : \A s \in failures : GrantStage[s] <= GrantStage[r]
           d == decide_use(action, purpose, actor, f, related)
<1>1. permitting \in SUBSET Nat /\ permitting \subseteq GrantId
  BY GrantIdAssumption DEF FactsOver
<1>2. permitting # {} => First(permitting) \in permitting BY <1>1, FirstLeast
<1>3. d = IF ~f.dead THEN Denied("SUBJECT_NOT_DECEASED", related)
          ELSE IF DOMAIN f.grants = {} THEN Denied("NO_GRANT", related)
          ELSE IF permitting # {} THEN Allowed(First(permitting), related)
          ELSE Denied(furthest, related)
  BY DEF decide_use
<1>4. CASE f.dead /\ DOMAIN f.grants # {} /\ permitting # {}
  <2>1. d.allowed = TRUE /\ d.grant = First(permitting) BY <1>3, <1>4 DEF Allowed
  <2>2. First(permitting) \in permitting BY <1>2, <1>4
  <2> QED BY <2>1, <2>2, <1>1, <1>4
<1>5. CASE ~(f.dead /\ DOMAIN f.grants # {} /\ permitting # {})
  <2> HIDE DEF permitting, furthest
  <2>1. d.allowed = FALSE /\ d.grant = NoGrant BY <1>3, <1>5 DEF Denied
  <2> QED BY <2>1
<1> QED BY <1>4, <1>5

\* What decide answers, and what an allowed use rests on.
LEMMA Decision ==
  ASSUME NEW action, NEW purpose, NEW actor, NEW f, FactsOver(f)
  PROVE  LET d == decide(action, purpose, actor, f) IN
         /\ d.allowed \in BOOLEAN /\ d.grant \in GrantId \cup {NoGrant}
         /\ d.allowed /\ action \in USE_ACTIONS =>
              /\ f.known /\ f.dead
              /\ d.grant \in DOMAIN f.grants
              /\ grant_permits(action, purpose, actor, f.grants[d.grant], f)
<1> DEFINE related == f.known /\ roles_for(actor, f) # {"PUBLIC"}
           d == decide(action, purpose, actor, f)
           refused == \/ purpose \in {UnknownPurpose, BannedPurpose}
                      \/ ACTION_PURPOSE[action] # purpose
                      \/ ~f.known
                      \/ actor \notin Human
                      \/ is_deceased_actor(actor, f)
<1>1. related \in BOOLEAN OBVIOUS
<1>2. CASE refused
  <2>1. d.allowed = FALSE /\ d.grant = NoGrant BY <1>2 DEF decide, Denied
  <2> QED BY <2>1
<1>3. CASE ~refused /\ action \notin USE_ACTIONS
  <2>1. d = decide_rights(actor, f, related) BY <1>3 DEF decide
  <2> HIDE DEF related, refused
  <2> QED BY <2>1, <1>1, <1>3, DecideRights
<1>4. CASE ~refused /\ action \in USE_ACTIONS
  <2>1. d = decide_use(action, purpose, actor, f, related) BY <1>4 DEF decide
  <2>2. f.known BY <1>4
  <2> HIDE DEF related, refused
  <2> QED BY <2>1, <2>2, <1>1, <1>4, DecideUse
<1> QED BY <1>2, <1>3, <1>4

-----------------------------------------------------------------------------
(* Type correctness                                                        *)

\* What a thread holds in each phase.
LEMMA Held ==
  ASSUME TypeOK, NEW p \in Proc
  PROVE  /\ txn[p].phase = "create" => txn[p].actor \in Actor /\ txn[p].offer \in Offer
         /\ txn[p].phase \in {"verify", "acknowledge", "revoke"} =>
              txn[p].actor \in Actor /\ txn[p].grant \in GrantId
         /\ txn[p].phase = "authorize" =>
              /\ txn[p].actor \in Actor /\ txn[p].request \in Request
              /\ txn[p].seen \in {"ABSENT", "ALIVE", "DEAD"}
         /\ txn[p].phase = "decided" =>
              /\ txn[p].actor \in Actor /\ txn[p].action \in ConsentAction
              /\ txn[p].allowed \in BOOLEAN /\ txn[p].grant \in GrantId \cup {NoGrant}
         /\ txn[p].phase \in {"designate", "designating"} =>
              txn[p].actor \in Actor /\ txn[p].designation \in Designation
<1>1. txn[p] \in Txn BY DEF TypeOK
<1> QED BY <1>1 DEF Txn, Idle

\* Ending a transaction keeps the types of what threads hold.
LEMMA EndTypes ==
  ASSUME TypeOK, NEW p \in Proc, End(p)
  PROVE  /\ txn' \in [Proc -> Txn]
         /\ shared' \in [Proc -> SUBSET GrantId] /\ exclusive' \in [Proc -> SUBSET GrantId]
         /\ accepted' \in Nat
<1>1. Idle \in Txn BY DEF Txn
<1> QED BY <1>1 DEF End, TypeOK

\* Accepting a request keeps the count of requests a number.
LEMMA AcceptTypes == ASSUME TypeOK, NEW p, Accept(p) PROVE accepted' \in Nat
  BY MaxRequestsAssumption DEF Accept, TypeOK

\* An inserted row.
LEMMA InsertRow ==
  ASSUME TypeOK, NEW g \in GrantId, NEW r \in GrantRow, row' = WithRow(g, r)
  PROVE  /\ granted' = granted \cup {g} /\ granted' \subseteq GrantId
         /\ row' \in [granted' -> GrantRow]
         /\ row'[g] = r
         /\ \A h \in granted : h # g => row'[h] = row[h]
  BY DEF TypeOK, WithRow, granted

\* The row create_grant inserts for an offered grant is a grant row.
LEMMA NewRowType ==
  ASSUME NEW actor \in Actor, NEW offer \in Offer
  PROVE  NewRow(actor, offer) \in GrantRow
  BY OfferAssumption DEF NewRow, GrantRow

\* What load_profile_facts reads names grants of the profile only.
LEMMA FactsOfRows == ASSUME TypeOK, NEW seen PROVE FactsOver(facts_from(seen))
  BY DEF TypeOK, FactsOver, facts_from

\* Every transaction step keeps the types of rows, locks and threads.
LEMMA TypeStep == TypeOK /\ [Next]_vars => TypeOK'
<1> SUFFICES ASSUME TypeOK, [Next]_vars PROVE TypeOK'
  OBVIOUS
<1>1. ASSUME NEW p \in Proc, NEW actor \in Actor, NEW offer \in Offer, NEW g \in GrantId,
             CreateWithProfile(p, actor, offer, g)
      PROVE  TypeOK'
  <2>1. row' = WithRow(g, NewRow(actor, offer)) BY <1>1 DEF CreateWithProfile
  <2>2. granted' \subseteq GrantId /\ row' \in [granted' -> GrantRow]
    BY <2>1, InsertRow, NewRowType
  <2>3. accepted' \in Nat BY <1>1, AcceptTypes DEF CreateWithProfile
  <2> QED BY <1>1, <2>2, <2>3 DEF CreateWithProfile, KeepLocks, TypeOK
<1>2. ASSUME NEW p \in Proc, NEW actor \in Actor, NEW offer \in Offer, CreateRead(p, actor, offer)
      PROVE  TypeOK'
  <2>1. [phase |-> "create", actor |-> actor, offer |-> offer] \in Txn BY DEF Txn
  <2>2. accepted' \in Nat BY <1>2, AcceptTypes DEF CreateRead
  <2> QED BY <1>2, <2>1, <2>2 DEF CreateRead, KeepLocks, data, TypeOK, granted
<1>3. ASSUME NEW p \in Proc, NEW g \in GrantId, CreateCommit(p, g)
      PROVE  TypeOK'
  <2>1. row' = WithRow(g, NewRow(txn[p].actor, txn[p].offer)) BY <1>3 DEF CreateCommit
  <2>2. NewRow(txn[p].actor, txn[p].offer) \in GrantRow
    BY <1>3, Held, NewRowType DEF CreateCommit
  <2>3. granted' \subseteq GrantId /\ row' \in [granted' -> GrantRow] BY <2>1, <2>2, InsertRow
  <2> QED BY <1>3, <2>3, EndTypes DEF CreateCommit, TypeOK
<1>4. ASSUME NEW p \in Proc, NEW actor \in Actor, NEW g \in GrantId,
             VerifyRead(p, actor, g) \/ AcknowledgeRead(p, actor, g) \/ RevokeRead(p, actor, g)
      PROVE  TypeOK'
  <2>1. \A ph \in {"verify", "acknowledge", "revoke"} :
          [phase |-> ph, actor |-> actor, grant |-> g] \in Txn
    BY DEF Txn
  <2>2. accepted' \in Nat BY <1>4, AcceptTypes DEF VerifyRead, AcknowledgeRead, RevokeRead
  <2> QED BY <1>4, <2>1, <2>2
          DEF VerifyRead, AcknowledgeRead, RevokeRead, KeepLocks, data, TypeOK, granted
<1>5. ASSUME NEW p \in Proc, VerifyCommit(p) \/ RevokeCommit(p)
      PROVE  TypeOK'
  <2>1. granted' = granted /\ row' \in [granted -> GrantRow]
    <3>1. CASE VerifyCommit(p)
      <4>1. \A r \in GrantRow : [r EXCEPT !.verified = TRUE] \in GrantRow BY DEF GrantRow
      <4>2. txn[p].grant \in GrantId BY <3>1, Held DEF VerifyCommit
      <4> QED BY <3>1, <4>1, <4>2 DEF VerifyCommit, TypeOK, granted
    <3>2. CASE RevokeCommit(p)
      <4>1. \A r \in GrantRow : [r EXCEPT !.active = FALSE, !.revoked = TRUE] \in GrantRow
        BY DEF GrantRow
      <4> QED BY <3>2, <4>1 DEF RevokeCommit, TypeOK, granted
    <3> QED BY <1>5, <3>1, <3>2
  <2>2. \A t \in Token : [t EXCEPT !.revoked = TRUE] \in Token BY DEF Token
  <2>3. tokens' \subseteq Token
    <3>1. CASE VerifyCommit(p) BY <3>1 DEF VerifyCommit, TypeOK
    <3>2. CASE RevokeCommit(p)
      <4>1. tokens \subseteq Token BY DEF TypeOK
      <4>2. tokens' = revoke_grant_tokens(txn[p].grant) BY <3>2 DEF RevokeCommit
      <4> QED BY <4>1, <4>2, <2>2 DEF revoke_grant_tokens
    <3> QED BY <1>5, <3>1, <3>2
  <2>4. requested' \subseteq GrantId
    <3>1. CASE VerifyCommit(p) BY <3>1 DEF VerifyCommit, TypeOK
    <3>2. CASE RevokeCommit(p)
      <4>1. txn[p].grant \in GrantId BY <3>2, Held DEF RevokeCommit
      <4> QED BY <3>2, <4>1 DEF RevokeCommit, TypeOK
    <3> QED BY <1>5, <3>1, <3>2
  <2> QED BY <1>5, <2>1, <2>3, <2>4, EndTypes DEF VerifyCommit, RevokeCommit, TypeOK
<1>6. ASSUME NEW p \in Proc, AcknowledgeCommit(p) \/ AcknowledgeConflict(p)
      PROVE  TypeOK'
  BY <1>6, Held, EndTypes DEF AcknowledgeCommit, AcknowledgeConflict, data, TypeOK, granted
<1>7. ASSUME NEW p \in Proc, NEW actor \in Actor, NEW q \in Request,
             PurposeViolation(p, actor, q) \/ AuthorizeRead(p, actor, q)
      PROVE  TypeOK'
  <2>1. [phase |-> "authorize", actor |-> actor, request |-> q, seen |-> profile] \in Txn
    BY DEF Txn, TypeOK
  <2>2. accepted' \in Nat BY <1>7, AcceptTypes DEF PurposeViolation, AuthorizeRead
  <2> QED BY <1>7, <2>1, <2>2 DEF PurposeViolation, AuthorizeRead, KeepLocks, data, TypeOK, granted
<1>8. ASSUME NEW p \in Proc, AuthorizeDecide(p)
      PROVE  TypeOK'
  <2> DEFINE q == txn[p].request
             decision == decide(q.action, q.purpose, txn[p].actor, facts_from(txn[p].seen))
             held == [phase |-> "decided", actor |-> txn[p].actor, action |-> q.action,
                      allowed |-> decision.allowed, grant |-> decision.grant]
  <2>1. txn' = [txn EXCEPT ![p] = held] BY <1>8 DEF AuthorizeDecide
  <2>2. decision.allowed \in BOOLEAN /\ decision.grant \in GrantId \cup {NoGrant}
    BY Decision, FactsOfRows
  <2>3. txn[p].actor \in Actor /\ q.action \in ConsentAction
    BY <1>8, Held, RequestAssumption DEF AuthorizeDecide
  <2>4. held \in Txn
    <3> HIDE DEF decision, q
    <3> QED BY <2>2, <2>3 DEF Txn
  <2>5. txn' \in [Proc -> Txn]
    <3> HIDE DEF held
    <3> QED BY <2>1, <2>4 DEF TypeOK
  <2> QED BY <1>8, <2>5 DEF AuthorizeDecide, data, TypeOK, granted
<1>9. ASSUME NEW p \in Proc, AuthorizeCommit(p)
      PROVE  TypeOK'
  <2>1. [grant |-> txn[p].grant, action |-> txn[p].action, actor |-> txn[p].actor,
          revoked |-> FALSE] \in Token
    BY <1>9, Held DEF AuthorizeCommit, Token
  <2>2. tokens' \subseteq Token BY <1>9, <2>1 DEF AuthorizeCommit, TypeOK
  <2> QED BY <1>9, <2>2, EndTypes DEF AuthorizeCommit, TypeOK, granted
<1>10. ASSUME NEW p \in Proc, NEW actor \in Actor, NEW d \in Designation, DesignateRead(p, actor, d)
       PROVE  TypeOK'
  <2>1. [phase |-> "designate", actor |-> actor, designation |-> d, seen |-> profile] \in Txn
    BY DEF Txn, TypeOK
  <2>2. accepted' \in Nat BY <1>10, AcceptTypes DEF DesignateRead
  <2> QED BY <1>10, <2>1, <2>2 DEF DesignateRead, KeepLocks, data, TypeOK, granted
<1>11. ASSUME NEW p \in Proc, DesignateCheck(p)
       PROVE  TypeOK'
  <2>1. CASE End(p) BY <1>11, <2>1, EndTypes DEF DesignateCheck, data, TypeOK, granted
  <2>2. CASE ~End(p)
    <3>1. [phase |-> "designating", actor |-> txn[p].actor, designation |-> txn[p].designation] \in Txn
      BY <1>11, Held DEF DesignateCheck, Txn
    <3> QED BY <1>11, <2>2, <3>1 DEF DesignateCheck, data, TypeOK, granted
  <2> QED BY <2>1, <2>2
<1>12. ASSUME NEW p \in Proc, DesignateCommit(p)
       PROVE  TypeOK'
  BY <1>12, Held, EndTypes DEF DesignateCommit, TypeOK, granted
<1>13. ASSUME NEW p \in Proc, NEW actor \in Actor, RecordDeath(p, actor)
       PROVE  TypeOK'
  BY <1>13, AcceptTypes DEF RecordDeath, KeepLocks, TypeOK, granted
<1>14. ASSUME NEW p \in Proc, Abort(p)
       PROVE  TypeOK'
  BY <1>14, EndTypes DEF Abort, data, TypeOK, granted
<1>15. ASSUME UNCHANGED vars
       PROVE  TypeOK'
  BY <1>15 DEF vars, data, TypeOK, granted
<1>16. ASSUME NEW p \in Proc, NEW actor \in Actor, GrantRequests(p, actor)
       PROVE  TypeOK'
  BY <1>16, <1>1, <1>2, <1>4 DEF GrantRequests
<1>17. ASSUME NEW p \in Proc, NEW actor \in Actor, OtherRequests(p, actor)
       PROVE  TypeOK'
  BY <1>17, <1>7, <1>10, <1>13 DEF OtherRequests, Designation
<1>18. ASSUME NEW p \in Proc, Continue(p)
       PROVE  TypeOK'
  BY <1>18, <1>3, <1>5, <1>6, <1>8, <1>9, <1>11, <1>12, <1>14 DEF Continue
<1> QED BY <1>15, <1>16, <1>17, <1>18 DEF Next, Quiet

\* Rows, tokens, locks and what threads hold always have their types.
THEOREM TypeCorrect == Spec => []TypeOK
<1>1. Init => TypeOK BY DEF Init, TypeOK, granted, Idle, Txn
<1>2. TypeOK /\ [Next]_vars => TypeOK' BY TypeStep
<1> QED BY <1>1, <1>2, PTL DEF Spec

-----------------------------------------------------------------------------
(* No use after revocation                                                 *)

\* What the steps that change no grant, token or decision keep: a thread that
\* only reads and takes FOR SHARE locks, or that ends, cannot break Safe.
LEMMA SafeUndisturbed ==
  ASSUME Safe, TypeOK', NEW p \in Proc,
         row' = row, tokens' = tokens,
         profile' = profile \/ (profile # "DEAD"),
         \A q \in Proc \ {p} : txn'[q] = txn[q] /\ shared'[q] = shared[q] /\ exclusive'[q] = exclusive[q],
         \/ txn'[p] = txn[p] /\ shared'[p] = shared[p] /\ exclusive'[p] = exclusive[p]
         \/ txn'[p] = Idle /\ shared'[p] = {} /\ exclusive'[p] = {}
         \/ /\ txn'[p].phase \notin {"verify", "revoke", "decided"}
            /\ txn'[p].phase = "authorize" => txn'[p].seen = profile'
            /\ shared'[p] \subseteq shared[p] \cup {g \in GrantId : Shareable(p, g)}
            /\ exclusive'[p] = exclusive[p]
  PROVE  Safe'
<1>1. granted' = granted BY DEF granted
<1>2. LockExclusion' BY DEF Safe, LockExclusion, Shareable
<1>3. ChangersHold' BY <1>1 DEF Safe, ChangersHold, Idle
<1>4. DeathSeen' BY DEF Safe, DeathSeen, Idle
<1>5. VerdictsHold' BY <1>1 DEF Safe, VerdictsHold, Idle
<1>6. NoUseAfterRevocation' BY <1>1 DEF Safe, NoUseAfterRevocation
<1> QED BY <1>2, <1>3, <1>4, <1>5, <1>6 DEF Safe

\* The effect of End on the threads.
LEMMA EndEffect ==
  ASSUME TypeOK, NEW p \in Proc, End(p)
  PROVE  /\ txn'[p] = Idle /\ shared'[p] = {} /\ exclusive'[p] = {}
         /\ \A q \in Proc \ {p} :
              txn'[q] = txn[q] /\ shared'[q] = shared[q] /\ exclusive'[q] = exclusive[q]
  BY DEF End, TypeOK

\* A new grant leaves the others as they were.
LEMMA SafeCreate ==
  ASSUME Safe, TypeOK', NEW p \in Proc, NEW g \in GrantId, NEW r \in GrantRow,
         row' = WithRow(g, r), g \notin granted, tokens' = tokens,
         profile' = profile \/ profile # "DEAD",
         \/ UNCHANGED <<txn, shared, exclusive>>
         \/ End(p)
  PROVE  Safe'
<1>1. granted' = granted \cup {g} /\ \A h \in granted : row'[h] = row[h]
  BY InsertRow DEF Safe
<1>2. \A q \in Proc :
        \/ txn'[q] = txn[q] /\ shared'[q] = shared[q] /\ exclusive'[q] = exclusive[q]
        \/ txn'[q] = Idle /\ shared'[q] = {} /\ exclusive'[q] = {}
  BY EndEffect DEF Safe
<1>3. LockExclusion' BY <1>2 DEF Safe, LockExclusion
<1>4. ChangersHold' BY <1>1, <1>2 DEF Safe, ChangersHold, Idle
<1>5. DeathSeen' BY <1>2 DEF Safe, DeathSeen, Idle
<1>6. VerdictsHold' BY <1>1, <1>2 DEF Safe, VerdictsHold, Idle
<1>7. NoUseAfterRevocation' BY <1>1 DEF Safe, NoUseAfterRevocation
<1> QED BY <1>3, <1>4, <1>5, <1>6, <1>7 DEF Safe

\* Verifying and revoking: only the thread that holds the row changes it, so
\* no other thread has a decision or a change pending on that grant.
LEMMA SafeChange ==
  ASSUME Safe, TypeOK', NEW p \in Proc, VerifyCommit(p) \/ RevokeCommit(p)
  PROVE  Safe'
<1> DEFINE g == txn[p].grant
<1>1. txn[p].phase \in {"verify", "revoke"} BY DEF VerifyCommit, RevokeCommit
<1>2. g \in exclusive[p] /\ g \in granted BY <1>1 DEF Safe, ChangersHold
<1>3. \A q \in Proc \ {p} : g \notin exclusive[q] /\ g \notin shared[q]
  BY <1>2 DEF Safe, LockExclusion
<1>4. End(p) /\ profile' = profile BY DEF VerifyCommit, RevokeCommit
<1>5. /\ txn'[p] = Idle /\ shared'[p] = {} /\ exclusive'[p] = {}
      /\ \A q \in Proc \ {p} :
           txn'[q] = txn[q] /\ shared'[q] = shared[q] /\ exclusive'[q] = exclusive[q]
  BY <1>4, EndEffect DEF Safe
<1>6. granted' = granted /\ \A h \in granted : h # g => row'[h] = row[h]
  BY DEF VerifyCommit, RevokeCommit, granted, Safe, TypeOK
<1>7. LockExclusion' BY <1>5 DEF Safe, LockExclusion
<1>8. ChangersHold'
  <2>1. ASSUME NEW q \in Proc \ {p}, txn[q].phase \in {"verify", "revoke"} PROVE txn[q].grant # g
    BY <2>1, <1>3 DEF Safe, ChangersHold
  <2> QED BY <2>1, <1>5, <1>6 DEF Safe, ChangersHold, Idle
<1>9. DeathSeen' BY <1>4, <1>5 DEF Safe, DeathSeen, Idle
<1>10. VerdictsHold'
  <2>1. ASSUME NEW q \in Proc \ {p}, txn[q].phase = "decided", txn[q].allowed,
               txn[q].action \in USE_ACTIONS
        PROVE  txn[q].grant # g
    BY <2>1, <1>3 DEF Safe, VerdictsHold
  <2> QED BY <2>1, <1>4, <1>5, <1>6 DEF Safe, VerdictsHold, Idle
<1>11. NoUseAfterRevocation'
  <2>1. CASE VerifyCommit(p)
    <3>1. row'[g].revoked = row[g].revoked BY <2>1, <1>2 DEF VerifyCommit, granted, Safe, TypeOK, GrantRow
    <3>2. tokens' = tokens BY <2>1 DEF VerifyCommit
    <3> QED BY <3>1, <3>2, <1>6 DEF Safe, NoUseAfterRevocation
  <2>2. CASE RevokeCommit(p)
    <3>1. ASSUME NEW t \in tokens', UseToken(t), Live(t) PROVE t \in tokens /\ t.grant # g
      <4>1. tokens' = revoke_grant_tokens(g) BY <2>2 DEF RevokeCommit
      <4>2. PICK u \in tokens : t = IF u.grant = g THEN [u EXCEPT !.revoked = TRUE] ELSE u
        BY <4>1 DEF revoke_grant_tokens
      <4>3. u \in Token BY DEF Safe, TypeOK
      <4>4. u.grant # g BY <4>2, <4>3, <3>1 DEF Live, Token
      <4> QED BY <4>2, <4>4
    <3> QED BY <3>1, <1>6 DEF Safe, NoUseAfterRevocation
  <2> QED BY <2>1, <2>2
<1> QED BY <1>7, <1>8, <1>9, <1>10, <1>11 DEF Safe

\* Taking the locks of a verification or a revocation.
LEMMA SafeLock ==
  ASSUME Safe, TypeOK', NEW p \in Proc, NEW actor \in Actor, NEW g \in GrantId,
         VerifyRead(p, actor, g) \/ RevokeRead(p, actor, g)
  PROVE  Safe'
<1>1. /\ UNCHANGED <<row, profile, tokens, shared>>
      /\ exclusive' = [exclusive EXCEPT ![p] = {g}]
      /\ \E ph \in {"verify", "revoke"} :
           /\ txn' = [txn EXCEPT ![p] = [phase |-> ph, actor |-> actor, grant |-> g]]
           /\ ph = "verify" => ~row[g].verified
      /\ Writable(p, g) /\ g \in granted /\ ~row[g].revoked
  BY DEF VerifyRead, RevokeRead, data
<1>2. granted' = granted BY <1>1 DEF granted
<1>3. txn \in [Proc -> Txn] /\ exclusive \in [Proc -> SUBSET GrantId] BY DEF Safe, TypeOK
<1>4. LockExclusion' BY <1>1, <1>3 DEF Safe, LockExclusion, Writable
<1>5. ChangersHold' BY <1>1, <1>2, <1>3 DEF Safe, ChangersHold
<1>6. DeathSeen' BY <1>1, <1>3 DEF Safe, DeathSeen
<1>7. VerdictsHold' BY <1>1, <1>2, <1>3 DEF Safe, VerdictsHold
<1>8. NoUseAfterRevocation' BY <1>1, <1>2 DEF Safe, NoUseAfterRevocation
<1> QED BY <1>4, <1>5, <1>6, <1>7, <1>8 DEF Safe

\* Deciding: the grants are held FOR SHARE, and an allowed use rests on one of
\* them, verified and unrevoked, whose subject has died.
LEMMA SafeDecide ==
  ASSUME Safe, TypeOK', NEW p \in Proc, AuthorizeDecide(p)
  PROVE  Safe'
<1> DEFINE q == txn[p].request
           f == facts_from(txn[p].seen)
           decision == decide(q.action, q.purpose, txn[p].actor, f)
<1>1. /\ txn[p].phase = "authorize"
      /\ UNCHANGED <<row, profile, tokens, exclusive>>
      /\ txn' = [txn EXCEPT ![p] =
             [phase |-> "decided", actor |-> txn[p].actor, action |-> q.action,
              allowed |-> decision.allowed, grant |-> decision.grant]]
      /\ shared' = [shared EXCEPT ![p] = IF txn[p].seen = "ABSENT" THEN {} ELSE granted]
  BY DEF AuthorizeDecide, data
<1>2. granted' = granted BY <1>1 DEF granted
<1>3. txn \in [Proc -> Txn] /\ shared \in [Proc -> SUBSET GrantId] BY DEF Safe, TypeOK
<1>4. LockExclusion' BY <1>1, <1>3 DEF Safe, LockExclusion, AuthorizeDecide, Shareable
<1>5. ChangersHold' BY <1>1, <1>2, <1>3 DEF Safe, ChangersHold
<1>6. DeathSeen' BY <1>1, <1>3 DEF Safe, DeathSeen
<1>7. VerdictsHold'
  <2>1. ASSUME decision.allowed, q.action \in USE_ACTIONS
        PROVE  /\ txn[p].seen = "DEAD"
               /\ decision.grant \in granted
               /\ row[decision.grant].verified /\ ~row[decision.grant].revoked
    <3>1. /\ f.known /\ f.dead
          /\ decision.grant \in DOMAIN f.grants
          /\ grant_permits(q.action, q.purpose, txn[p].actor, f.grants[decision.grant], f)
      BY <2>1, Decision, FactsOfRows DEF Safe
    <3>2. txn[p].seen = "DEAD" /\ decision.grant \in granted BY <3>1 DEF facts_from
    <3>3. f.grants[decision.grant].verified /\ ~f.grants[decision.grant].revoked
      BY <3>1 DEF grant_permits, failed_checks
    <3>4. /\ f.grants[decision.grant].verified = row[decision.grant].verified
          /\ f.grants[decision.grant].revoked = row[decision.grant].revoked
      BY <3>2 DEF facts_from
    <3> QED BY <3>2, <3>3, <3>4
  <2>2. txn[p].seen = "DEAD" => profile = "DEAD" BY <1>1 DEF Safe, DeathSeen
  <2> HIDE DEF decision, q
  <2>3. /\ txn'[p].allowed = decision.allowed /\ txn'[p].action = q.action
        /\ txn'[p].grant = decision.grant
    BY <1>1, <1>3
  <2>4. txn[p].seen = "DEAD" => shared'[p] = granted BY <1>1, <1>3
  <2>5. \A r \in Proc \ {p} : txn'[r] = txn[r] /\ shared'[r] = shared[r] BY <1>1, <1>3
  <2> QED BY <2>1, <2>2, <2>3, <2>4, <2>5, <1>1, <1>2 DEF Safe, VerdictsHold
<1>8. NoUseAfterRevocation' BY <1>1, <1>2 DEF Safe, NoUseAfterRevocation
<1> QED BY <1>4, <1>5, <1>6, <1>7, <1>8 DEF Safe

\* Storing a token: the decision still rests on what it rested on.
LEMMA SafeAuthorize ==
  ASSUME Safe, TypeOK', NEW p \in Proc, AuthorizeCommit(p)
  PROVE  Safe'
<1> DEFINE new == [grant |-> txn[p].grant, action |-> txn[p].action,
                   actor |-> txn[p].actor, revoked |-> FALSE]
<1>1. /\ txn[p].phase = "decided"
      /\ tokens' = IF txn[p].allowed THEN tokens \cup {new} ELSE tokens
      /\ UNCHANGED <<row, profile>> /\ End(p)
  BY DEF AuthorizeCommit
<1>2. granted' = granted BY <1>1 DEF granted
<1>3. /\ txn'[p] = Idle /\ shared'[p] = {} /\ exclusive'[p] = {}
      /\ \A q \in Proc \ {p} :
           txn'[q] = txn[q] /\ shared'[q] = shared[q] /\ exclusive'[q] = exclusive[q]
  BY <1>1, EndEffect DEF Safe
<1>4. LockExclusion' BY <1>3 DEF Safe, LockExclusion
<1>5. ChangersHold' BY <1>1, <1>2, <1>3 DEF Safe, ChangersHold, Idle
<1>6. DeathSeen' BY <1>1, <1>3 DEF Safe, DeathSeen, Idle
<1>7. VerdictsHold' BY <1>1, <1>2, <1>3 DEF Safe, VerdictsHold, Idle
<1>8. NoUseAfterRevocation'
  <2>1. ASSUME txn[p].allowed, UseToken(new)
        PROVE  new.grant \in granted /\ ~row[new.grant].revoked
    BY <2>1, <1>1 DEF Safe, VerdictsHold, UseToken
  <2>2. ASSUME NEW t \in tokens', UseToken(t), Live(t)
        PROVE  t.grant \in granted /\ ~row[t.grant].revoked
    <3>1. CASE t \in tokens BY <3>1, <2>2 DEF Safe, NoUseAfterRevocation
    <3>2. CASE t \notin tokens BY <3>2, <2>1, <2>2, <1>1
    <3> QED BY <3>1, <3>2
  <2> QED BY <2>2, <1>1, <1>2 DEF NoUseAfterRevocation
<1> QED BY <1>4, <1>5, <1>6, <1>7, <1>8 DEF Safe

\* No transaction breaks Safe; OneSubject says that the grant created with a
\* profile is new.
LEMMA SafeStep == Safe /\ OneSubject /\ [Next]_vars => Safe'
<1> SUFFICES ASSUME Safe, OneSubject, [Next]_vars PROVE Safe'
  OBVIOUS
<1> TypeOK' BY TypeStep DEF Safe
<1> TypeOK BY DEF Safe
<1>1. ASSUME NEW p \in Proc, NEW actor \in Actor, NEW offer \in Offer, NEW g \in GrantId,
             CreateWithProfile(p, actor, offer, g)
      PROVE  Safe'
  <2>1. /\ row' = WithRow(g, NewRow(actor, offer)) /\ g \notin granted
        /\ profile # "DEAD" /\ UNCHANGED <<tokens, txn, shared, exclusive>>
    BY <1>1 DEF CreateWithProfile, KeepLocks, OneSubject
  <2> QED BY <2>1, SafeCreate, NewRowType
<1>2. ASSUME NEW p \in Proc, NEW g \in GrantId, CreateCommit(p, g)
      PROVE  Safe'
  <2>1. NewRow(txn[p].actor, txn[p].offer) \in GrantRow
    BY <1>2, Held, NewRowType DEF CreateCommit
  <2>2. /\ row' = WithRow(g, NewRow(txn[p].actor, txn[p].offer)) /\ g \notin granted
        /\ profile' = profile /\ tokens' = tokens /\ End(p)
    BY <1>2 DEF CreateCommit
  <2> QED BY <2>1, <2>2, SafeCreate
<1>3. ASSUME NEW p \in Proc, NEW actor \in Actor, NEW offer \in Offer, CreateRead(p, actor, offer)
      PROVE  Safe'
  BY <1>3, SafeUndisturbed DEF CreateRead, KeepLocks, data, TypeOK
<1>4. ASSUME NEW p \in Proc, NEW actor \in Actor, NEW g \in GrantId, AcknowledgeRead(p, actor, g)
      PROVE  Safe'
  BY <1>4, SafeUndisturbed DEF AcknowledgeRead, KeepLocks, data, TypeOK
<1>5. ASSUME NEW p \in Proc, NEW actor \in Actor, NEW q \in Request,
             PurposeViolation(p, actor, q) \/ AuthorizeRead(p, actor, q)
      PROVE  Safe'
  BY <1>5, SafeUndisturbed DEF PurposeViolation, AuthorizeRead, KeepLocks, data, TypeOK
<1>6. ASSUME NEW p \in Proc, NEW actor \in Actor, NEW d \in Designation, DesignateRead(p, actor, d)
      PROVE  Safe'
  BY <1>6, SafeUndisturbed DEF DesignateRead, KeepLocks, data, TypeOK
<1>7. ASSUME NEW p \in Proc, NEW actor \in Actor, RecordDeath(p, actor)
      PROVE  Safe'
  BY <1>7, SafeUndisturbed DEF RecordDeath, KeepLocks, TypeOK
<1>8. ASSUME NEW p \in Proc,
             \/ AcknowledgeCommit(p) \/ AcknowledgeConflict(p) \/ DesignateCommit(p) \/ Abort(p)
      PROVE  Safe'
  <2>1. End(p) /\ UNCHANGED <<row, tokens, profile>>
    BY <1>8 DEF AcknowledgeCommit, AcknowledgeConflict, DesignateCommit, Abort, data
  <2> QED BY <2>1, EndEffect, SafeUndisturbed
<1>9. ASSUME NEW p \in Proc, DesignateCheck(p)
      PROVE  Safe'
  <2>1. UNCHANGED <<row, tokens, profile>> BY <1>9 DEF DesignateCheck, data
  <2>2. CASE End(p) BY <2>1, <2>2, EndEffect, SafeUndisturbed
  <2>3. CASE ~End(p)
    <3>1. /\ \A g \in granted : Shareable(p, g)
          /\ txn' = [txn EXCEPT ![p] = [phase |-> "designating", actor |-> txn[p].actor,
                                        designation |-> txn[p].designation]]
          /\ shared' = [shared EXCEPT ![p] = granted]
          /\ exclusive' = exclusive
      BY <1>9, <2>3 DEF DesignateCheck
    <3> QED BY <2>1, <3>1, SafeUndisturbed DEF TypeOK
  <2> QED BY <2>2, <2>3
<1>10. ASSUME UNCHANGED vars
       PROVE  Safe'
  <2>1. granted' = granted BY <1>10 DEF vars, data, granted
  <2> QED BY <1>10, <2>1 DEF vars, data, Safe, LockExclusion, ChangersHold, DeathSeen, VerdictsHold,
             NoUseAfterRevocation
<1>11. ASSUME NEW p \in Proc, NEW actor \in Actor, GrantRequests(p, actor)
       PROVE  Safe'
  BY <1>11, <1>1, <1>3, <1>4, SafeLock DEF GrantRequests
<1>12. ASSUME NEW p \in Proc, NEW actor \in Actor, OtherRequests(p, actor)
       PROVE  Safe'
  BY <1>12, <1>5, <1>6, <1>7 DEF OtherRequests, Designation
<1>13. ASSUME NEW p \in Proc, Continue(p)
       PROVE  Safe'
  BY <1>13, <1>2, <1>8, <1>9, SafeChange, SafeDecide, SafeAuthorize DEF Continue
<1> QED BY <1>10, <1>11, <1>12, <1>13 DEF Next, Quiet

-----------------------------------------------------------------------------
(* One pre-need subject                                                    *)

\* Except for creation, a step keeps every grant and its terms, brings no
\* thread to the creation of a grant, and a profile only moves forward.
LEMMA TermsKept ==
  ASSUME TypeOK, NEW p \in Proc,
         \/ \E actor \in Actor :
              \/ \E g \in GrantId : VerifyRead(p, actor, g) \/ AcknowledgeRead(p, actor, g) \/ RevokeRead(p, actor, g)
              \/ OtherRequests(p, actor)
         \/ VerifyCommit(p) \/ AcknowledgeCommit(p) \/ AcknowledgeConflict(p) \/ RevokeCommit(p)
         \/ AuthorizeDecide(p) \/ AuthorizeCommit(p)
         \/ DesignateCheck(p) \/ DesignateCommit(p) \/ Abort(p)
  PROVE  /\ granted' = granted
         /\ \A g \in granted : row'[g].type = row[g].type /\ row'[g].grantor = row[g].grantor
         /\ \A q \in Proc : txn'[q].phase = "create" => txn'[q] = txn[q]
         /\ profile' = profile \/ (profile = "ALIVE" /\ profile' = "DEAD")
<1>1. ASSUME NEW actor \in Actor, NEW g \in GrantId,
             VerifyRead(p, actor, g) \/ AcknowledgeRead(p, actor, g) \/ RevokeRead(p, actor, g)
      PROVE  /\ row' = row /\ profile' = profile
             /\ \A q \in Proc : txn'[q].phase = "create" => txn'[q] = txn[q]
  BY <1>1 DEF VerifyRead, AcknowledgeRead, RevokeRead, data, TypeOK
<1>2. ASSUME NEW actor \in Actor, OtherRequests(p, actor)
      PROVE  /\ row' = row /\ (profile' = profile \/ (profile = "ALIVE" /\ profile' = "DEAD"))
             /\ \A q \in Proc : txn'[q].phase = "create" => txn'[q] = txn[q]
  <2>1. ASSUME NEW q \in Request, PurposeViolation(p, actor, q) \/ AuthorizeRead(p, actor, q)
        PROVE  /\ row' = row /\ profile' = profile
               /\ \A r \in Proc : txn'[r].phase = "create" => txn'[r] = txn[r]
    BY <2>1 DEF PurposeViolation, AuthorizeRead, data, TypeOK
  <2>2. ASSUME NEW d \in Designation, DesignateRead(p, actor, d)
        PROVE  /\ row' = row /\ profile' = profile
               /\ \A r \in Proc : txn'[r].phase = "create" => txn'[r] = txn[r]
    BY <2>2 DEF DesignateRead, data, TypeOK
  <2>3. CASE RecordDeath(p, actor) BY <2>3 DEF RecordDeath
  <2> QED BY <1>2, <2>1, <2>2, <2>3 DEF OtherRequests, Designation
<1>3. ASSUME \/ AcknowledgeCommit(p) \/ AcknowledgeConflict(p) \/ AuthorizeCommit(p)
             \/ DesignateCommit(p) \/ Abort(p)
      PROVE  /\ row' = row /\ profile' = profile
             /\ \A q \in Proc : txn'[q].phase = "create" => txn'[q] = txn[q]
  <2>1. End(p) /\ row' = row /\ profile' = profile
    BY <1>3 DEF AcknowledgeCommit, AcknowledgeConflict, AuthorizeCommit, DesignateCommit, Abort, data
  <2> QED BY <2>1, EndEffect DEF Idle
<1>4. ASSUME AuthorizeDecide(p)
      PROVE  /\ row' = row /\ profile' = profile
             /\ \A q \in Proc : txn'[q].phase = "create" => txn'[q] = txn[q]
  BY <1>4 DEF AuthorizeDecide, data, TypeOK
<1>5. ASSUME DesignateCheck(p)
      PROVE  /\ row' = row /\ profile' = profile
             /\ \A q \in Proc : txn'[q].phase = "create" => txn'[q] = txn[q]
  <2>1. CASE End(p) BY <1>5, <2>1, EndEffect DEF DesignateCheck, data, Idle
  <2>2. CASE ~End(p) BY <1>5, <2>2 DEF DesignateCheck, data, TypeOK
  <2> QED BY <2>1, <2>2
<1>6. ASSUME VerifyCommit(p) \/ RevokeCommit(p)
      PROVE  /\ granted' = granted
             /\ \A g \in granted : row'[g].type = row[g].type /\ row'[g].grantor = row[g].grantor
             /\ profile' = profile
             /\ \A q \in Proc : txn'[q].phase = "create" => txn'[q] = txn[q]
  <2>1. End(p) /\ profile' = profile BY <1>6 DEF VerifyCommit, RevokeCommit
  <2>2. CASE VerifyCommit(p)
    BY <2>1, <2>2, EndEffect DEF VerifyCommit, granted, TypeOK, GrantRow, Idle
  <2>3. CASE RevokeCommit(p)
    <3>1. \A r \in GrantRow : /\ [r EXCEPT !.active = FALSE, !.revoked = TRUE].type = r.type
                              /\ [r EXCEPT !.active = FALSE, !.revoked = TRUE].grantor = r.grantor
      BY DEF GrantRow
    <3>2. /\ granted' = granted
          /\ \A g \in granted : row'[g] = row[g]
                \/ row'[g] = [row[g] EXCEPT !.active = FALSE, !.revoked = TRUE]
      BY <2>3 DEF RevokeCommit, granted, TypeOK
    <3>3. \A g \in granted : row[g] \in GrantRow BY DEF TypeOK
    <3>4. \A g \in granted : row'[g].type = row[g].type /\ row'[g].grantor = row[g].grantor
      BY <3>1, <3>2, <3>3
    <3>5. \A q \in Proc : txn'[q].phase = "create" => txn'[q] = txn[q] BY <2>1, EndEffect DEF Idle
    <3> QED BY <3>2, <3>4, <3>5, <2>1
  <2> QED BY <1>6, <2>2, <2>3
<1>7. row' = row => /\ granted' = granted
                    /\ \A g \in granted : row'[g].type = row[g].type /\ row'[g].grantor = row[g].grantor
  BY DEF granted
<1> QED BY <1>1, <1>2, <1>3, <1>4, <1>5, <1>6, <1>7

\* No step gives a profile a second pre-need subject.
LEMMA OneSubjectStep == TypeOK /\ OneSubject /\ [Next]_vars => OneSubject'
<1> SUFFICES ASSUME TypeOK, OneSubject, [Next]_vars PROVE OneSubject'
  OBVIOUS
<1>1. ASSUME NEW p \in Proc, NEW actor \in Actor, NEW offer \in Offer, NEW g \in GrantId,
             CreateWithProfile(p, actor, offer, g)
      PROVE  OneSubject'
  <2>1. /\ profile = "ABSENT" /\ granted = {}
        /\ \A q \in Proc : txn[q].phase # "create"
    BY <1>1 DEF CreateWithProfile, OneSubject
  <2>2. /\ row' = WithRow(g, NewRow(actor, offer)) /\ txn' = txn
        /\ profile' = IF offer.type = "ESTATE" THEN "DEAD" ELSE "ALIVE"
    BY <1>1 DEF CreateWithProfile
  <2>3. granted' = {g} /\ row'[g] = NewRow(actor, offer)
    BY <2>1, <2>2, InsertRow, NewRowType
  <2>4. profile' = "ALIVE" => PreNeed(g)'
    BY <2>2, <2>3, OfferAssumption DEF NewRow, PreNeed, GrantorType
  <2> QED BY <2>1, <2>2, <2>3, <2>4 DEF OneSubject, OnePreNeedSubject
<1>2. ASSUME NEW p \in Proc, NEW actor \in Actor, NEW offer \in Offer, CreateRead(p, actor, offer)
      PROVE  OneSubject'
  <2>1. /\ profile # "ABSENT" /\ profile' = profile /\ row' = row
        /\ txn' = [txn EXCEPT ![p] = [phase |-> "create", actor |-> actor, offer |-> offer]]
    BY <1>2 DEF CreateRead, data
  <2>2. offer.type = "SELF_PRE_NEED" => \E g \in granted : PreNeed(g) /\ row[g].grantor = actor
    BY <1>2 DEF CreateRead, OneSubject, PreNeed
  <2>3. /\ txn'[p].actor = actor /\ txn'[p].offer = offer
        /\ \A q \in Proc \ {p} : txn'[q] = txn[q]
    BY <2>1 DEF TypeOK
  <2> QED BY <2>1, <2>2, <2>3 DEF OneSubject, OnePreNeedSubject, PreNeed, granted
<1>3. ASSUME NEW p \in Proc, NEW g \in GrantId, CreateCommit(p, g)
      PROVE  OneSubject'
  <2> DEFINE new == NewRow(txn[p].actor, txn[p].offer)
  <2>1. /\ txn[p].phase = "create" /\ g \notin granted /\ profile' = profile
        /\ row' = WithRow(g, new) /\ End(p)
    BY <1>3 DEF CreateCommit
  <2>2. new \in GrantRow BY <2>1, Held, NewRowType
  <2>3. new.type = txn[p].offer.type /\ new.grantor = txn[p].actor BY DEF NewRow
  <2> HIDE DEF new
  <2>4. /\ granted' = granted \cup {g} /\ row'[g] = new
        /\ \A h \in granted : row'[h] = row[h]
    BY <2>1, <2>2, InsertRow
  <2>5. PreNeed(g)' => \E h \in granted : PreNeed(h) /\ row[h].grantor = row'[g].grantor
    BY <2>1, <2>3, <2>4 DEF OneSubject, PreNeed
  <2>6. OnePreNeedSubject' BY <2>4, <2>5 DEF OneSubject, OnePreNeedSubject, PreNeed
  <2>7. txn'[p] = Idle /\ \A q \in Proc \ {p} : txn'[q] = txn[q] BY <2>1, EndEffect
  <2>8. profile # "ABSENT" BY <2>1 DEF OneSubject
  <2> QED BY <2>1, <2>4, <2>6, <2>7, <2>8 DEF OneSubject, PreNeed, Idle
<1>4. ASSUME /\ granted' = granted
             /\ \A g \in granted : row'[g].type = row[g].type /\ row'[g].grantor = row[g].grantor
             /\ \A q \in Proc : txn'[q].phase = "create" => txn'[q] = txn[q]
             /\ profile' = profile \/ (profile = "ALIVE" /\ profile' = "DEAD")
      PROVE  OneSubject'
  BY <1>4 DEF OneSubject, OnePreNeedSubject, PreNeed
<1>5. ASSUME UNCHANGED vars
      PROVE  OneSubject'
  <2>1. row' = row /\ profile' = profile /\ txn' = txn BY <1>5 DEF vars, data
  <2>2. granted' = granted BY <2>1 DEF granted
  <2> QED BY <2>1, <2>2, <1>4
<1>6. ASSUME NEW p \in Proc, NEW actor \in Actor, GrantRequests(p, actor)
      PROVE  OneSubject'
  BY <1>6, <1>1, <1>2, <1>4, TermsKept DEF GrantRequests
<1>7. ASSUME NEW p \in Proc, NEW actor \in Actor, OtherRequests(p, actor)
      PROVE  OneSubject'
  BY <1>7, <1>4, TermsKept
<1>8. ASSUME NEW p \in Proc, Continue(p)
      PROVE  OneSubject'
  BY <1>8, <1>3, <1>4, TermsKept DEF Continue
<1> QED BY <1>5, <1>6, <1>7, <1>8 DEF Next, Quiet

-----------------------------------------------------------------------------
(* The theorems                                                            *)

\* The empty database satisfies the invariants.
LEMMA Start == Init => TypeOK /\ OneSubject /\ Safe
<1> SUFFICES ASSUME Init PROVE TypeOK /\ OneSubject /\ Safe
  OBVIOUS
<1>1. granted = {} BY DEF Init, granted
<1>2. TypeOK BY <1>1 DEF Init, TypeOK, Idle, Txn, granted
<1>3. OneSubject BY <1>1 DEF Init, OneSubject, OnePreNeedSubject, Idle
<1>4. Safe
  BY <1>2 DEF Init, Safe, LockExclusion, ChangersHold, DeathSeen, VerdictsHold, NoUseAfterRevocation, Idle
<1> QED BY <1>2, <1>3, <1>4

\* Grants come with or after their profile and name one pre-need subject.
THEOREM OneSubjectHolds == Spec => []OneSubject
<1>1. TypeOK /\ OneSubject /\ [Next]_vars => (TypeOK /\ OneSubject)'
  BY TypeStep, OneSubjectStep
<1>2. Init => TypeOK /\ OneSubject BY Start
<1> QED BY <1>1, <1>2, PTL DEF Spec

\* One account at most holds pre-need consent of a profile (create_grant,
\* PRE_NEED_SUBJECT_CONFLICT), although the check reads without a lock.
THEOREM OnePreNeed == Spec => []OnePreNeedSubject
<1>1. OneSubject => OnePreNeedSubject BY DEF OneSubject
<1> QED BY <1>1, OneSubjectHolds, PTL

\* Locks, pending changes, pending decisions and tokens fit together.
THEOREM SafeHolds == Spec => []Safe
<1>1. OneSubject /\ Safe /\ [Next]_vars => Safe' BY SafeStep
<1>2. Init => Safe BY Start
<1> QED BY <1>1, <1>2, OneSubjectHolds, PTL DEF Spec

\* No live use token ever belongs to a revoked grant: revoking ends every use
\* licensed under it, however authorize and revoke interleave.
THEOREM NoUseAfterRevocationHolds == Spec => []NoUseAfterRevocation
<1>1. Safe => NoUseAfterRevocation BY DEF Safe
<1> QED BY <1>1, SafeHolds, PTL

-----------------------------------------------------------------------------
(* Successors and rights                                                   *)

\* Only DesignateCommit adds a designation, and only one that clashes with none.
LEMMA SuccessorsStep == TypeOK /\ SuccessorsUnambiguous /\ [Next]_vars => SuccessorsUnambiguous'
<1> SUFFICES ASSUME TypeOK, SuccessorsUnambiguous, [Next]_vars PROVE SuccessorsUnambiguous'
  OBVIOUS
<1>1. ASSUME designations' = designations PROVE SuccessorsUnambiguous'
  BY <1>1 DEF SuccessorsUnambiguous
<1>2. ASSUME NEW p \in Proc, DesignateCommit(p) PROVE SuccessorsUnambiguous'
  <2> DEFINE new == txn[p].designation
  <2>1. CASE Clash(new) BY <1>2, <1>1, <2>1 DEF DesignateCommit
  <2>2. CASE ~Clash(new)
    <3>1. designations' = designations \cup {new} BY <1>2, <2>2 DEF DesignateCommit
    <3>2. \A e \in designations : e.user # new.user /\ e.priority # new.priority
      BY <2>2 DEF Clash
    <3> HIDE DEF new
    <3> QED BY <3>1, <3>2 DEF SuccessorsUnambiguous
  <2> QED BY <2>1, <2>2
<1>3. ASSUME NEW p \in Proc, NEW actor \in Actor, GrantRequests(p, actor)
      PROVE  designations' = designations
  BY <1>3 DEF GrantRequests, CreateWithProfile, CreateRead, VerifyRead, AcknowledgeRead, RevokeRead, data
<1>4. ASSUME NEW p \in Proc, NEW actor \in Actor, OtherRequests(p, actor)
      PROVE  designations' = designations
  BY <1>4 DEF OtherRequests, PurposeViolation, AuthorizeRead, DesignateRead, RecordDeath, data
<1>5. ASSUME NEW p \in Proc, Continue(p), ~DesignateCommit(p)
      PROVE  designations' = designations
  BY <1>5 DEF Continue, CreateCommit, VerifyCommit, AcknowledgeCommit, AcknowledgeConflict,
              RevokeCommit, AuthorizeDecide, AuthorizeCommit, DesignateCheck, Abort, data
<1>6. CASE UNCHANGED vars BY <1>6, <1>1 DEF vars, data
<1> QED BY <1>1, <1>2, <1>3, <1>4, <1>5, <1>6 DEF Next, Quiet

\* Successors stay unambiguous: one designation per account and per priority,
\* also when two requests designate at once.
THEOREM SuccessorsUnambiguousHolds == Spec => []SuccessorsUnambiguous
<1>1. Init => SuccessorsUnambiguous BY DEF Init, SuccessorsUnambiguous
<1>2. TypeOK /\ SuccessorsUnambiguous /\ [Next]_vars => SuccessorsUnambiguous'
  BY SuccessorsStep
<1> QED BY <1>1, <1>2, TypeCorrect, PTL DEF Spec

\* A verified grant gives its grantor the rights actions.
LEMMA RightsOfGrantor ==
  ASSUME NEW a, NEW f, NEW related \in BOOLEAN,
         NEW g \in DOMAIN f.grants, f.grants[g].verified, f.grants[g].grantor = a
  PROVE  decide_rights(a, f, related).allowed
<1> DEFINE owned == {h \in DOMAIN f.grants : f.grants[h].verified /\ f.grants[h].grantor = a}
<1>1. owned # {} OBVIOUS
<1>2. decide_rights(a, f, related) =
        IF a \in Admin \/ a \in f.successors THEN Allowed(NoGrant, TRUE)
        ELSE IF owned # {} THEN Allowed(First(owned), TRUE)
        ELSE Denied("ROLE_NOT_PERMITTED", related)
  BY DEF decide_rights
<1> HIDE DEF owned
<1> QED BY <1>1, <1>2 DEF Allowed

\* Whoever holds a verified grant may export and erase, revoked or not, unless
\* the holder is the deceased: both decisions find the grant in every reachable
\* profile.
THEOREM RightsOutliveConsentHolds == Spec => []RightsOutliveConsent
<1>1. TypeOK /\ OneSubject => RightsOutliveConsent
  <2> SUFFICES ASSUME TypeOK, OneSubject, NEW g \in granted, row[g].verified,
                      row[g].grantor \in Human, ~is_deceased_actor(row[g].grantor, facts),
                      NEW right \in RIGHTS_ACTIONS
               PROVE  decide(right, ACTION_PURPOSE[right], row[g].grantor, facts).allowed
    BY DEF RightsOutliveConsent
  <2> DEFINE a == row[g].grantor
             related == facts.known /\ roles_for(a, facts) # {"PUBLIC"}
  <2>1. facts.known BY DEF OneSubject, facts, facts_from
  <2>2. ACTION_PURPOSE[right] \notin {UnknownPurpose, BannedPurpose}
    <3>1. CASE right = "EXPORT_DATA"
      <4>1. ACTION_PURPOSE["EXPORT_DATA"] = "DATA_PORTABILITY"
        BY DEF ACTION_PURPOSE, ConsentAction, RIGHTS_ACTIONS
      <4> QED BY <3>1, <4>1 DEF UnknownPurpose, BannedPurpose
    <3>2. CASE right = "DELETE_VOICE_MODEL"
      <4>1. ACTION_PURPOSE["DELETE_VOICE_MODEL"] = "ERASURE"
        BY DEF ACTION_PURPOSE, ConsentAction, RIGHTS_ACTIONS
      <4> QED BY <3>2, <4>1 DEF UnknownPurpose, BannedPurpose
    <3> QED BY <3>1, <3>2 DEF RIGHTS_ACTIONS
  <2>3. right \notin USE_ACTIONS BY DEF USE_ACTIONS, SYNTHESIS_ACTIONS, RIGHTS_ACTIONS
  <2>4. decide(right, ACTION_PURPOSE[right], a, facts) = decide_rights(a, facts, related)
    BY <2>1, <2>2, <2>3 DEF decide
  <2>5. g \in DOMAIN facts.grants /\ facts.grants[g].verified /\ facts.grants[g].grantor = a
    BY DEF facts, facts_from
  <2> HIDE DEF related, a
  <2>6. related \in BOOLEAN BY DEF related
  <2>7. decide_rights(a, facts, related).allowed BY <2>5, <2>6, RightsOfGrantor
  <2> QED BY <2>4, <2>7 DEF a
<1> QED BY <1>1, TypeCorrect, OneSubjectHolds, PTL

-----------------------------------------------------------------------------
(* What strangers are told                                                 *)

\* Who is a stranger: no administrator, no successor, on no grant.
LEMMA Stranger ==
  ASSUME NEW a, NEW f
  PROVE  roles_for(a, f) = {"PUBLIC"} <=>
           /\ a \notin Admin /\ a \notin f.successors
           /\ \A g \in DOMAIN f.grants :
                f.grants[g].grantor # a /\ ~(a \in Emailed /\ a \in f.grants[g].named)
<1> DEFINE owner == \E g \in DOMAIN f.grants : f.grants[g].grantor = a
           beneficiary == a \in Emailed /\ \E g \in DOMAIN f.grants : a \in f.grants[g].named
<1>1. roles_for(a, f) =
        {"PUBLIC"}
          \cup {r \in {"ADMIN"}       : a \in Admin}
          \cup {r \in {"SUCCESSOR"}   : a \in f.successors}
          \cup {r \in {"OWNER"}       : owner}
          \cup {r \in {"BENEFICIARY"} : beneficiary}
  BY DEF roles_for, roles_on
<1>2. /\ "ADMIN" \in roles_for(a, f) <=> a \in Admin
      /\ "SUCCESSOR" \in roles_for(a, f) <=> a \in f.successors
      /\ "OWNER" \in roles_for(a, f) <=> owner
      /\ "BENEFICIARY" \in roles_for(a, f) <=> beneficiary
      /\ "PUBLIC" \in roles_for(a, f)
      /\ roles_for(a, f) \subseteq {"PUBLIC", "ADMIN", "SUCCESSOR", "OWNER", "BENEFICIARY"}
  <2> HIDE DEF owner, beneficiary
  <2> QED BY <1>1
<1>3. roles_for(a, f) = {"PUBLIC"} <=>
        a \notin Admin /\ a \notin f.successors /\ ~owner /\ ~beneficiary
  <2> HIDE DEF owner, beneficiary
  <2> QED BY <1>2
<1> QED BY <1>3

\* Failures of grants have a least and a greatest stage.
LEMMA Stages ==
  ASSUME NEW S \in SUBSET DOMAIN GrantStage, S # {}
  PROVE  /\ \E r \in S : \A s \in S : GrantStage[r] <= GrantStage[s]
         /\ \E r \in S : \A s \in S : GrantStage[s] <= GrantStage[r]
<1> DEFINE stages == {GrantStage[r] : r \in S}
<1>1. \A r \in S : GrantStage[r] \in 0..5 BY DEF GrantStage
<1>2. stages \in SUBSET Nat /\ stages # {} BY <1>1
<1>3. \E r \in S : \A s \in S : GrantStage[r] <= GrantStage[s]
  <2>1. PICK n \in stages : \A m \in stages : n <= m
    <3> HIDE DEF stages
    <3> QED BY <1>2, FirstLeast
  <2> QED BY <2>1
<1> DEFINE rest == {5 - n : n \in stages}
<1>4. rest \in SUBSET Nat /\ rest # {} BY <1>1, <1>2
<1>5. PICK n \in stages : \A m \in stages : 5 - n <= 5 - m
  <2>1. PICK k \in rest : \A j \in rest : k <= j
    <3> HIDE DEF rest
    <3> QED BY <1>4, FirstLeast
  <2> QED BY <2>1
<1>6. \A m \in stages : m <= n BY <1>1, <1>5
<1> QED BY <1>3, <1>6

\* A grant that does not permit the use fails one of the checks.
LEMMA Failure ==
  ASSUME NEW action, NEW purpose, NEW a, NEW grant, NEW f,
         ~grant_permits(action, purpose, a, grant, f)
  PROVE  grant_failure(action, purpose, a, grant, f) \in DOMAIN GrantStage
<1> DEFINE failed == failed_checks(action, purpose, a, grant, f)
<1>1. failed # {} BY DEF grant_permits
<1>2. failed \subseteq DOMAIN GrantStage BY DEF failed_checks, GrantStage
<1>3. \E r \in failed : \A s \in failed : GrantStage[r] <= GrantStage[s]
  <2> HIDE DEF failed
  <2> QED BY <1>1, <1>2, Stages
<1>4. grant_failure(action, purpose, a, grant, f) \in failed BY <1>3 DEF grant_failure
<1> QED BY <1>2, <1>4

\* A refused use gives a reason that only related people are told.
LEMMA RefusedUse ==
  ASSUME NEW action, NEW purpose, NEW a, NEW f, NEW related,
         ~decide_use(action, purpose, a, f, related).allowed
  PROVE  LET d == decide_use(action, purpose, a, f, related) IN
         d.related = related /\ d.reason \notin PUBLIC_DENIAL_REASONS
<1> DEFINE permitting == {g \in DOMAIN f.grants : grant_permits(action, purpose, a, f.grants[g], f)}
           failures == {grant_failure(action, purpose, a, f.grants[g], f) : g \in DOMAIN f.grants}
           furthest == CHOOSE r \in failures : \A s \in failures : GrantStage[s] <= GrantStage[r]
           d == decide_use(action, purpose, a, f, related)
<1>1. d = IF ~f.dead THEN Denied("SUBJECT_NOT_DECEASED", related)
          ELSE IF DOMAIN f.grants = {} THEN Denied("NO_GRANT", related)
          ELSE IF permitting # {} THEN Allowed(First(permitting), related)
          ELSE Denied(furthest, related)
  BY DEF decide_use
<1>2. CASE ~f.dead \/ DOMAIN f.grants = {}
  <2>1. d.related = related /\ d.reason \in {"SUBJECT_NOT_DECEASED", "NO_GRANT"}
    BY <1>1, <1>2 DEF Denied
  <2> QED BY <2>1 DEF PUBLIC_DENIAL_REASONS
<1>3. CASE f.dead /\ DOMAIN f.grants # {} /\ permitting # {}
  <2> HIDE DEF permitting
  <2>1. d = Allowed(First(permitting), related) BY <1>1, <1>3
  <2> QED BY <2>1 DEF Allowed
<1>4. CASE f.dead /\ DOMAIN f.grants # {} /\ permitting = {}
  <2>1. failures # {} BY <1>4
  <2>2. failures \subseteq DOMAIN GrantStage BY <1>4, Failure
  <2>3. \E r \in failures : \A s \in failures : GrantStage[s] <= GrantStage[r]
    <3> HIDE DEF failures
    <3> QED BY <2>1, <2>2, Stages
  <2>4. furthest \in failures
    <3> HIDE DEF failures
    <3> QED BY <2>3
  <2>5. furthest \in DOMAIN GrantStage BY <2>2, <2>4
  <2> HIDE DEF furthest, permitting
  <2>6. d.related = related /\ d.reason = furthest BY <1>1, <1>4 DEF Denied
  <2> QED BY <2>5, <2>6 DEF GrantStage, PUBLIC_DENIAL_REASONS
<1> QED BY <1>2, <1>3, <1>4

\* What a stranger who is refused is told depends on the request, on whether
\* the profile exists and on the stranger alone.
LEMMA ToldStranger ==
  ASSUME NEW action, NEW purpose, NEW a, NEW f, roles_for(a, f) = {"PUBLIC"},
         ~decide(action, purpose, a, f).allowed
  PROVE  disclosed_reason(decide(action, purpose, a, f)) =
           IF purpose \in {UnknownPurpose, BannedPurpose} THEN "UNKNOWN_PURPOSE"
           ELSE IF ACTION_PURPOSE[action] # purpose THEN "PURPOSE_ACTION_MISMATCH"
           ELSE IF f.known /\ a \notin Human THEN "NON_HUMAN_ACTOR"
           ELSE "NOT_AUTHORIZED"
<1> DEFINE d == decide(action, purpose, a, f)
           screened == purpose \in {UnknownPurpose, BannedPurpose} \/ ACTION_PURPOSE[action] # purpose
<1>1. (f.known /\ roles_for(a, f) # {"PUBLIC"}) = FALSE OBVIOUS
<1>2. CASE screened \/ ~f.known \/ a \notin Human
  <2>1. d = IF purpose \in {UnknownPurpose, BannedPurpose} THEN Denied("UNKNOWN_PURPOSE", FALSE)
            ELSE IF ACTION_PURPOSE[action] # purpose THEN Denied("PURPOSE_ACTION_MISMATCH", FALSE)
            ELSE IF ~f.known THEN Denied("PROFILE_NOT_FOUND", FALSE)
            ELSE Denied("NON_HUMAN_ACTOR", FALSE)
    BY <1>1, <1>2 DEF decide
  <2> QED BY <1>2, <2>1 DEF disclosed_reason, Denied, PUBLIC_DENIAL_REASONS
<1>3. CASE ~(screened \/ ~f.known \/ a \notin Human)
  <2>1. d = IF is_deceased_actor(a, f) THEN Denied("DECEASED_CANNOT_ACT", FALSE)
            ELSE IF action \notin USE_ACTIONS THEN decide_rights(a, f, FALSE)
            ELSE decide_use(action, purpose, a, f, FALSE)
    BY <1>1, <1>3 DEF decide
  <2>2. d.related = FALSE /\ d.reason \notin PUBLIC_DENIAL_REASONS
    <3>1. CASE is_deceased_actor(a, f) BY <2>1, <3>1 DEF Denied, PUBLIC_DENIAL_REASONS
    <3>2. CASE ~is_deceased_actor(a, f) /\ action \notin USE_ACTIONS
      <4> DEFINE owned == {g \in DOMAIN f.grants : f.grants[g].verified /\ f.grants[g].grantor = a}
      <4>1. d = IF a \in Admin \/ a \in f.successors THEN Allowed(NoGrant, TRUE)
                ELSE IF owned # {} THEN Allowed(First(owned), TRUE)
                ELSE Denied("ROLE_NOT_PERMITTED", FALSE)
        BY <2>1, <3>2 DEF decide_rights
      <4>2. \A g : Allowed(g, TRUE).allowed BY DEF Allowed
      <4>3. ~d.allowed OBVIOUS
      <4>4. d = Denied("ROLE_NOT_PERMITTED", FALSE)
        <5> HIDE DEF owned, d
        <5> QED BY <4>1, <4>2, <4>3
      <4> QED BY <4>4 DEF Denied, PUBLIC_DENIAL_REASONS
    <3>3. CASE ~is_deceased_actor(a, f) /\ action \in USE_ACTIONS
      <4>1. d = decide_use(action, purpose, a, f, FALSE) BY <2>1, <3>3
      <4>2. ~decide_use(action, purpose, a, f, FALSE).allowed BY <4>1
      <4>3. /\ decide_use(action, purpose, a, f, FALSE).related = FALSE
            /\ decide_use(action, purpose, a, f, FALSE).reason \notin PUBLIC_DENIAL_REASONS
        BY <4>2, RefusedUse
      <4> HIDE DEF d
      <4> QED BY <4>1, <4>3
    <3> QED BY <3>1, <3>2, <3>3
  <2> HIDE DEF d
  <2>3. disclosed_reason(d) = "NOT_AUTHORIZED" BY <2>2 DEF disclosed_reason, d
  <2> QED BY <1>3, <2>3 DEF d
<1> QED BY <1>2, <1>3

\* The other profiles a stranger might be looking at have no other people.
LEMMA OthersSamePeople ==
  ASSUME NEW f \in OtherFacts
  PROVE  /\ f.successors = facts.successors
         /\ DOMAIN f.grants \subseteq DOMAIN facts.grants
         /\ \A g \in DOMAIN f.grants : /\ f.grants[g].grantor = facts.grants[g].grantor
                                       /\ f.grants[g].named = facts.grants[g].named
<1>1. /\ DOMAIN facts = {"known", "dead", "successors", "grants"}
      /\ DOMAIN facts.grants = granted
      /\ \A g \in granted : DOMAIN facts.grants[g] =
           {"type", "grantor", "scope", "named", "required", "verified", "revoked", "active", "acknowledged"}
  BY DEF facts, facts_from
<1>2. CASE f = [facts EXCEPT !.dead = ~@] BY <1>1, <1>2
<1>3. CASE f = [facts EXCEPT !.known = FALSE, !.grants = <<>>] BY <1>1, <1>3
<1>4. ASSUME NEW g \in granted, f = [facts EXCEPT !.grants[g].revoked = ~@, !.grants[g].active = ~@]
      PROVE  /\ f.successors = facts.successors
             /\ DOMAIN f.grants = DOMAIN facts.grants
             /\ \A h \in granted : /\ f.grants[h].grantor = facts.grants[h].grantor
                                   /\ f.grants[h].named = facts.grants[h].named
  BY <1>1, <1>4
<1>5. ASSUME NEW g \in granted, f = [facts EXCEPT !.grants[g].verified = ~@]
      PROVE  /\ f.successors = facts.successors
             /\ DOMAIN f.grants = DOMAIN facts.grants
             /\ \A h \in granted : /\ f.grants[h].grantor = facts.grants[h].grantor
                                   /\ f.grants[h].named = facts.grants[h].named
  BY <1>1, <1>5
<1> QED BY <1>1, <1>2, <1>3, <1>4, <1>5 DEF OtherFacts

\* A refused stranger is told the same whatever state the profile is in, and a
\* person among them also whether or not there is one (disclosed_reason).
THEOREM StrangersLearnNothingHolds == Spec => []StrangersLearnNothing
<1>1. StrangersLearnNothing
  <2> SUFFICES ASSUME NEW a \in Actor, NEW q \in Request, NEW f \in OtherFacts,
                      roles_for(a, facts) = {"PUBLIC"},
                      a \in Human \/ f.known = facts.known,
                      ~decide(q.action, q.purpose, a, facts).allowed,
                      ~decide(q.action, q.purpose, a, f).allowed
               PROVE  disclosed_reason(decide(q.action, q.purpose, a, facts))
                        = disclosed_reason(decide(q.action, q.purpose, a, f))
    BY DEF StrangersLearnNothing
  <2>1. roles_for(a, f) = {"PUBLIC"}
    <3>1. /\ a \notin Admin /\ a \notin facts.successors
          /\ \A g \in DOMAIN facts.grants :
               facts.grants[g].grantor # a /\ ~(a \in Emailed /\ a \in facts.grants[g].named)
      BY Stranger
    <3>2. /\ f.successors = facts.successors
          /\ \A g \in DOMAIN f.grants :
               f.grants[g].grantor # a /\ ~(a \in Emailed /\ a \in f.grants[g].named)
      BY <3>1, OthersSamePeople
    <3> QED BY <3>1, <3>2, Stranger
  <2> QED BY <2>1, ToldStranger
<1> QED BY <1>1, PTL

-----------------------------------------------------------------------------
(* What a use token rests on                                               *)

\* A use that a grant permitted stays permitted while its terms stay and its
\* acknowledgments and the successors only grow.
LEMMA PermitsGrows ==
  ASSUME NEW action, NEW purpose, NEW who, NEW grant, NEW f, NEW later, NEW fLater,
         grant_permits(action, purpose, who, grant, f),
         later.type = grant.type, later.grantor = grant.grantor, later.scope = grant.scope,
         later.named = grant.named, later.required = grant.required,
         later.verified = grant.verified, ~later.revoked, later.active,
         IsFiniteSet(grant.named), grant.required \in Nat \cup {AllNamed},
         grant.acknowledged \subseteq later.acknowledged,
         f.successors \subseteq fLater.successors
  PROVE  grant_permits(action, purpose, who, later, fLater)
<1>1. /\ may_use(action, who, grant, f) /\ grant.verified /\ purpose \in grant.scope
      /\ quorum_satisfied(grant.named, grant.acknowledged, grant.required)
  BY DEF grant_permits, failed_checks
<1>2. may_use(action, who, later, fLater) BY <1>1 DEF may_use
<1>3. quorum_satisfied(later.named, later.acknowledged, later.required)
  <2> DEFINE before == grant.named \cap grant.acknowledged
             after == grant.named \cap later.acknowledged
  <2>1. IsFiniteSet(after) /\ before \subseteq after BY FS_Subset
  <2>2. Cardinality(before) <= Cardinality(after) BY <2>1, FS_Subset
  <2>3. /\ Cardinality(before) \in Nat /\ Cardinality(after) \in Nat
        /\ Cardinality(grant.named) \in Nat
    BY <2>1, FS_Subset, FS_CardinalityType
  <2>4. Cardinality(before) >=
          IF grant.required = AllNamed THEN Cardinality(grant.named) ELSE grant.required
    BY <1>1 DEF quorum_satisfied
  <2> HIDE DEF before, after
  <2>5. Cardinality(after) >=
          IF grant.required = AllNamed THEN Cardinality(grant.named) ELSE grant.required
    BY <2>2, <2>3, <2>4
  <2> QED BY <2>5 DEF quorum_satisfied, after
<1> QED BY <1>1, <1>2, <1>3 DEF grant_permits, failed_checks

\* The step leaves the terms of a grant alone, and its verification.
SameTerms(g) ==
  /\ row'[g].type = row[g].type /\ row'[g].grantor = row[g].grantor
  /\ row'[g].scope = row[g].scope /\ row'[g].named = row[g].named
  /\ row'[g].required = row[g].required
  /\ row[g].verified => row'[g].verified

\* A backed use stays backed through any step that moves things forward.
LEMMA StaysBacked ==
  ASSUME TypeOK, TypeOK', NEW action, NEW who, NEW g, Backed(action, who, g),
         IsFiniteSet(row[g].named), profile = "DEAD" => profile' = "DEAD",
         g \in granted', SameTerms(g), acks[g] \subseteq acks'[g], designations \subseteq designations'
  PROVE  Backed(action, who, g)'
<1>1. profile' = "DEAD" /\ g \in granted BY DEF Backed
<1>2. grant_permits(action, ACTION_PURPOSE[action], who, Unrevoked(facts, g), facts)
  BY DEF Backed, Unrevoked
<1>3. LET u == Unrevoked(facts, g) IN
      /\ u.type = row[g].type /\ u.grantor = row[g].grantor /\ u.scope = row[g].scope
      /\ u.named = row[g].named /\ u.required = row[g].required
      /\ u.verified = row[g].verified /\ u.acknowledged = acks[g]
  BY <1>1 DEF Unrevoked, facts, facts_from
<1>4. LET u == Unrevoked(facts', g) IN
      /\ u.type = row'[g].type /\ u.grantor = row'[g].grantor /\ u.scope = row'[g].scope
      /\ u.named = row'[g].named /\ u.required = row'[g].required
      /\ u.verified = row'[g].verified /\ ~u.revoked /\ u.active
      /\ u.acknowledged = acks'[g]
  BY DEF Unrevoked, facts, facts_from
<1>5. facts.successors \subseteq facts'.successors BY DEF facts, facts_from
<1>6. row[g] \in GrantRow /\ row'[g] \in GrantRow BY <1>1 DEF TypeOK
<1>7. row[g].required \in Nat \cup {AllNamed} /\ row[g].verified \in BOOLEAN
      /\ row'[g].verified \in BOOLEAN
  BY <1>6 DEF GrantRow
<1>8. row[g].verified BY <1>2, <1>3 DEF grant_permits, failed_checks
<1>9. row'[g].verified = row[g].verified BY <1>7, <1>8 DEF SameTerms
<1>10. grant_permits(action, ACTION_PURPOSE[action], who, Unrevoked(facts', g), facts')
  <2> DEFINE u == Unrevoked(facts, g)
             v == Unrevoked(facts', g)
             f == facts
             h == facts'
  <2>1. /\ v.type = u.type /\ v.grantor = u.grantor /\ v.scope = u.scope
        /\ v.named = u.named /\ v.required = u.required /\ v.verified = u.verified
        /\ ~v.revoked /\ v.active
        /\ IsFiniteSet(u.named) /\ u.required \in Nat \cup {AllNamed}
        /\ u.acknowledged \subseteq v.acknowledged
    BY <1>3, <1>4, <1>7, <1>9 DEF SameTerms
  <2>2. grant_permits(action, ACTION_PURPOSE[action], who, u, f) BY <1>2
  <2>3. f.successors \subseteq h.successors BY <1>5
  <2> HIDE DEF u, v, f, h
  <2>4. grant_permits(action, ACTION_PURPOSE[action], who, v, h) BY <2>1, <2>2, <2>3, PermitsGrows
  <2> QED BY <2>4 DEF v, h
<1> QED BY <1>1, <1>10 DEF Backed, Unrevoked

\* What every step does that neither decides nor stores a decision.
LEMMA BackingKept ==
  ASSUME TypeOK, TypeOK', Backing,
         granted \subseteq granted', \A g \in granted : SameTerms(g),
         \A g \in granted' \ granted : IsFiniteSet(row'[g].named),
         \A g \in GrantId : acks[g] \subseteq acks'[g],
         designations \subseteq designations', profile = "DEAD" => profile' = "DEAD",
         \A t \in tokens' : UseToken(t) =>
            \/ \E u \in tokens : u.action = t.action /\ u.actor = t.actor /\ u.grant = t.grant
            \/ Backed(t.action, t.actor, t.grant)',
         \A q \in Proc, action \in USE_ACTIONS, actor \in Actor, g \in GrantId :
            txn'[q] = Verdict(action, actor, g) => txn[q] = txn'[q] \/ Backed(action, actor, g)'
  PROVE  Backing'
<1>1. ASSUME NEW action, NEW who, NEW g, Backed(action, who, g) PROVE Backed(action, who, g)'
  <2>1. g \in granted BY <1>1 DEF Backed
  <2>2. IsFiniteSet(row[g].named) /\ g \in granted' /\ SameTerms(g) /\ acks[g] \subseteq acks'[g]
    BY <2>1 DEF Backing, TypeOK
  <2> QED BY <1>1, <2>2, StaysBacked
<1>2. UseTokenBacked'
  <2> SUFFICES ASSUME NEW t \in tokens', UseToken(t) PROVE Backed(t.action, t.actor, t.grant)'
    BY DEF UseTokenBacked, UseToken
  <2>1. ASSUME NEW u \in tokens, u.action = t.action, u.actor = t.actor, u.grant = t.grant
        PROVE  Backed(t.action, t.actor, t.grant)'
    <3>1. Backed(u.action, u.actor, u.grant) BY <2>1 DEF Backing, UseTokenBacked, UseToken
    <3> QED BY <2>1, <3>1, <1>1
  <2> QED BY <2>1
<1>3. ASSUME NEW q \in Proc, NEW action \in USE_ACTIONS, NEW actor \in Actor, NEW g \in GrantId,
             txn'[q] = Verdict(action, actor, g)
      PROVE  Backed(action, actor, g)'
  <2>1. CASE txn[q] = txn'[q]
    <3>1. Backed(action, actor, g) BY <2>1, <1>3 DEF Backing, Verdict
    <3> QED BY <3>1, <1>1
  <2> QED BY <2>1, <1>3
<1>4. ASSUME NEW g \in granted' PROVE IsFiniteSet(row'[g].named)
  BY <1>4 DEF Backing, SameTerms
<1> QED BY <1>2, <1>3, <1>4 DEF Backing, Verdict

\* A step that leaves the rows and the tokens alone and decides nothing.
LEMMA BackingUndisturbed ==
  ASSUME TypeOK, TypeOK', Backing, row' = row, tokens' = tokens,
         \A g \in GrantId : acks[g] \subseteq acks'[g],
         designations \subseteq designations', profile = "DEAD" => profile' = "DEAD",
         \A q \in Proc : txn'[q].phase = "decided" => txn'[q] = txn[q]
  PROVE  Backing'
<1>1. granted' = granted BY DEF granted
<1>2. \A g \in granted : SameTerms(g) BY DEF SameTerms
<1>3. \A q \in Proc, action \in USE_ACTIONS, actor \in Actor, g \in GrantId :
        txn'[q] = Verdict(action, actor, g) => txn[q] = txn'[q]
  BY DEF Verdict
<1> QED BY <1>1, <1>2, <1>3, BackingKept

\* An allowed request declared the purpose of its action.
LEMMA Declared ==
  ASSUME NEW action, NEW purpose, NEW actor, NEW f, decide(action, purpose, actor, f).allowed
  PROVE  ACTION_PURPOSE[action] = purpose
<1> SUFFICES ASSUME ACTION_PURPOSE[action] # purpose
             PROVE  ~decide(action, purpose, actor, f).allowed
  OBVIOUS
<1>1. \/ decide(action, purpose, actor, f) = Denied("UNKNOWN_PURPOSE", FALSE)
      \/ decide(action, purpose, actor, f) = Denied("PURPOSE_ACTION_MISMATCH", FALSE)
  BY DEF decide
<1> QED BY <1>1 DEF Denied

\* The kernel decides a use only on a grant that backs it.
LEMMA BackingDecide ==
  ASSUME Safe, TypeOK', Backing, NEW p \in Proc, AuthorizeDecide(p)
  PROVE  Backing'
<1> TypeOK BY DEF Safe
<1>1. /\ txn[p].phase = "authorize"
      /\ UNCHANGED <<row, profile, tokens, acks, designations>>
      /\ LET q == txn[p].request
             decision == decide(q.action, q.purpose, txn[p].actor, facts_from(txn[p].seen))
         IN txn' = [txn EXCEPT ![p] =
              [phase |-> "decided", actor |-> txn[p].actor, action |-> q.action,
               allowed |-> decision.allowed, grant |-> decision.grant]]
  BY DEF AuthorizeDecide, data
<1>2. granted' = granted BY <1>1 DEF granted
<1>3. ASSUME NEW action \in USE_ACTIONS, NEW actor \in Actor, NEW g \in GrantId,
             txn'[p] = Verdict(action, actor, g)
      PROVE  Backed(action, actor, g)'
  <2> DEFINE f == facts_from(txn[p].seen)
             decision == decide(action, txn[p].request.purpose, actor, f)
  <2>1. /\ txn[p].request.action = action /\ txn[p].actor = actor
        /\ decision.allowed /\ decision.grant = g
    <3>1. /\ txn[p].request.action = action /\ txn[p].actor = actor
          /\ LET d == decide(txn[p].request.action, txn[p].request.purpose, txn[p].actor, f)
             IN d.allowed /\ d.grant = g
      <4> HIDE DEF f
      <4> QED BY <1>1, <1>3 DEF TypeOK, Verdict, f
    <3> QED BY <3>1
  <2>2. /\ f.known /\ f.dead /\ g \in DOMAIN f.grants
        /\ grant_permits(action, txn[p].request.purpose, actor, f.grants[g], f)
    BY <2>1, Decision, FactsOfRows
  <2>3. txn[p].request.purpose = ACTION_PURPOSE[action] BY <2>1, Declared
  <2>4. txn[p].seen = "DEAD" /\ g \in granted BY <2>2 DEF facts_from
  <2>5. profile' = "DEAD" BY <1>1, <2>4 DEF Safe, DeathSeen
  <2>6. row[g].required \in Nat \cup {AllNamed} /\ IsFiniteSet(row[g].named)
    BY <2>4 DEF TypeOK, GrantRow, Backing
  <2> DEFINE r == f.grants[g]
             u == Unrevoked(facts', g)
  <2>7. /\ r.required = row[g].required /\ r.named = row[g].named
        /\ u.type = r.type /\ u.grantor = r.grantor /\ u.scope = r.scope
        /\ u.named = r.named /\ u.required = r.required
        /\ u.verified = r.verified /\ ~u.revoked /\ u.active
        /\ r.acknowledged \subseteq u.acknowledged
    BY <2>4, <1>1, <1>2 DEF Unrevoked, facts, facts_from
  <2>8. f.successors \subseteq facts'.successors BY <1>1 DEF facts, facts_from
  <2> DEFINE later == facts'
  <2>9. grant_permits(action, ACTION_PURPOSE[action], actor, u, later)
    <3>1. grant_permits(action, ACTION_PURPOSE[action], actor, r, f) BY <2>2, <2>3
    <3>2. IsFiniteSet(r.named) /\ r.required \in Nat \cup {AllNamed} BY <2>6, <2>7
    <3> HIDE DEF r, u, f, later
    <3> QED BY <3>1, <3>2, <2>7, <2>8, PermitsGrows DEF later
  <2> QED BY <2>4, <2>5, <2>9, <1>2 DEF Backed, Unrevoked
<1>4. \A q \in Proc, action \in USE_ACTIONS, actor \in Actor, g \in GrantId :
        txn'[q] = Verdict(action, actor, g) => txn[q] = txn'[q] \/ Backed(action, actor, g)'
  <2>1. \A q \in Proc \ {p} : txn'[q] = txn[q] BY <1>1 DEF TypeOK
  <2> QED BY <1>3, <2>1
<1>5. \A h \in granted : SameTerms(h) BY <1>1 DEF SameTerms
<1>6. \A h \in GrantId : acks[h] \subseteq acks'[h] BY <1>1
<1> QED BY <1>1, <1>2, <1>4, <1>5, <1>6, BackingKept

\* The stored token is backed by what backed the decision.
LEMMA BackingCommit ==
  ASSUME Safe, TypeOK', Backing, NEW p \in Proc, AuthorizeCommit(p)
  PROVE  Backing'
<1> TypeOK BY DEF Safe
<1>1. /\ txn[p].phase = "decided" /\ UNCHANGED <<row, profile, acks, designations>> /\ End(p)
      /\ tokens' = IF txn[p].allowed
                   THEN tokens \cup {[grant |-> txn[p].grant, action |-> txn[p].action,
                                      actor |-> txn[p].actor, revoked |-> FALSE]}
                   ELSE tokens
  BY DEF AuthorizeCommit
<1>2. granted' = granted /\ facts' = facts BY <1>1 DEF granted, facts, facts_from
<1>3. ASSUME NEW t \in tokens', UseToken(t), t \notin tokens PROVE Backed(t.action, t.actor, t.grant)'
  <2>1. /\ txn[p].allowed = TRUE
        /\ txn[p].action = t.action /\ txn[p].actor = t.actor /\ txn[p].grant = t.grant
    BY <1>1, <1>3, Held
  <2>2. t.action \in USE_ACTIONS BY <1>3 DEF UseToken
  <2>3. txn[p] \in [phase : {"decided"}, actor : Actor, action : ConsentAction,
                    allowed : BOOLEAN, grant : GrantId \cup {NoGrant}]
    BY <1>1 DEF TypeOK, Txn, Idle
  <2>4. t.grant \in GrantId BY <1>1, <2>1, <2>2 DEF Safe, VerdictsHold, TypeOK
  <2>5. txn[p] = Verdict(t.action, t.actor, t.grant) BY <2>1, <2>3 DEF Verdict
  <2>6. Backed(t.action, t.actor, t.grant) BY <2>2, <2>3, <2>4, <2>5, <2>1 DEF Backing, Verdict
  <2> QED BY <2>6, <1>1, <1>2 DEF Backed
<1>4. \A t \in tokens' : UseToken(t) =>
         \/ \E u \in tokens : u.action = t.action /\ u.actor = t.actor /\ u.grant = t.grant
         \/ Backed(t.action, t.actor, t.grant)'
  BY <1>3
<1>5. \A q \in Proc, action \in USE_ACTIONS, actor \in Actor, g \in GrantId :
        txn'[q] = Verdict(action, actor, g) => txn[q] = txn'[q]
  BY <1>1, EndEffect DEF Idle, Verdict
<1>6. \A h \in granted : SameTerms(h) BY <1>1 DEF SameTerms
<1> QED BY <1>1, <1>2, <1>4, <1>5, <1>6, BackingKept

\* Verifying and revoking change no terms, and revoked tokens stay backed.
LEMMA BackingChange ==
  ASSUME TypeOK, TypeOK', Backing, NEW p \in Proc, VerifyCommit(p) \/ RevokeCommit(p)
  PROVE  Backing'
<1>1. /\ UNCHANGED <<profile, acks, designations>> /\ End(p)
      /\ tokens' \in {tokens, revoke_grant_tokens(txn[p].grant)}
      /\ \/ row' = [row EXCEPT ![txn[p].grant].verified = TRUE]
         \/ row' = [row EXCEPT ![txn[p].grant] = [@ EXCEPT !.active = FALSE, !.revoked = TRUE]]
  BY DEF VerifyCommit, RevokeCommit
<1>2. granted' = granted BY <1>1 DEF granted, TypeOK
<1>3. \A h \in granted : SameTerms(h)
  <2> SUFFICES ASSUME NEW h \in granted PROVE SameTerms(h)
    OBVIOUS
  <2>1. /\ row[h] \in GrantRow
        /\ \/ row'[h] = row[h]
           \/ row'[h] = [row[h] EXCEPT !.verified = TRUE]
           \/ row'[h] = [row[h] EXCEPT !.active = FALSE, !.revoked = TRUE]
    BY <1>1 DEF TypeOK, granted
  <2> QED BY <2>1 DEF SameTerms, GrantRow
<1>4. \A t \in tokens' : \E u \in tokens : u.action = t.action /\ u.actor = t.actor /\ u.grant = t.grant
  <2> SUFFICES ASSUME NEW t \in tokens'
               PROVE  \E u \in tokens : u.action = t.action /\ u.actor = t.actor /\ u.grant = t.grant
    OBVIOUS
  <2>1. PICK u \in tokens : t \in {u, [u EXCEPT !.revoked = TRUE]} BY <1>1 DEF revoke_grant_tokens
  <2>2. u \in Token BY DEF TypeOK
  <2> QED BY <2>1, <2>2 DEF Token
<1>5. \A q \in Proc, action \in USE_ACTIONS, actor \in Actor, g \in GrantId :
        txn'[q] = Verdict(action, actor, g) => txn[q] = txn'[q]
  BY <1>1, EndEffect DEF Idle, Verdict
<1> QED BY <1>1, <1>2, <1>3, <1>4, <1>5, BackingKept

\* A new grant comes with a finite list of beneficiaries.
LEMMA BackingCreate ==
  ASSUME TypeOK, TypeOK', Backing, NEW g \in GrantId, g \notin granted,
         NEW actor \in Actor, NEW offer \in Offer, row' = WithRow(g, NewRow(actor, offer)),
         UNCHANGED <<tokens, acks, designations>>, profile = "DEAD" => profile' = "DEAD",
         \A q \in Proc : txn'[q].phase = "decided" => txn'[q] = txn[q]
  PROVE  Backing'
<1> DEFINE new == NewRow(actor, offer)
<1>1. new \in GrantRow BY NewRowType
<1>2. IsFiniteSet(new.named) BY OfferAssumption DEF NewRow
<1> HIDE DEF new
<1>3. /\ granted' = granted \cup {g} /\ row'[g] = new
      /\ \A h \in granted : row'[h] = row[h]
  BY <1>1, InsertRow DEF new
<1>4. \A h \in granted : SameTerms(h) BY <1>3 DEF SameTerms
<1>5. \A q \in Proc, action \in USE_ACTIONS, who \in Actor, h \in GrantId :
        txn'[q] = Verdict(action, who, h) => txn[q] = txn'[q]
  BY DEF Verdict
<1> QED BY <1>2, <1>3, <1>4, <1>5, BackingKept

\* No transaction takes away what a use token rests on.
LEMMA BackingStep == Safe /\ OneSubject /\ Backing /\ [Next]_vars => Backing'
<1> SUFFICES ASSUME Safe, OneSubject, Backing, [Next]_vars PROVE Backing'
  OBVIOUS
<1> TypeOK BY DEF Safe
<1> TypeOK' BY TypeStep
<1>1. ASSUME NEW p \in Proc, NEW actor \in Actor, NEW offer \in Offer, NEW g \in GrantId,
             CreateWithProfile(p, actor, offer, g)
      PROVE  Backing'
  <2>1. /\ row' = WithRow(g, NewRow(actor, offer)) /\ g \notin granted /\ profile # "DEAD"
        /\ UNCHANGED <<tokens, acks, designations, txn>>
    BY <1>1 DEF CreateWithProfile, OneSubject
  <2> QED BY <2>1, BackingCreate
<1>2. ASSUME NEW p \in Proc, NEW g \in GrantId, CreateCommit(p, g)
      PROVE  Backing'
  <2>1. txn[p].actor \in Actor /\ txn[p].offer \in Offer BY <1>2, Held DEF CreateCommit
  <2>2. /\ row' = WithRow(g, NewRow(txn[p].actor, txn[p].offer)) /\ g \notin granted
        /\ UNCHANGED <<tokens, acks, designations, profile>> /\ End(p)
    BY <1>2 DEF CreateCommit
  <2>3. \A q \in Proc : txn'[q].phase = "decided" => txn'[q] = txn[q]
    BY <2>2, EndEffect DEF Idle
  <2> QED BY <2>1, <2>2, <2>3, BackingCreate
<1>3. ASSUME NEW p \in Proc, NEW actor \in Actor, NEW offer \in Offer, CreateRead(p, actor, offer)
      PROVE  Backing'
  BY <1>3, BackingUndisturbed DEF CreateRead, data, TypeOK
<1>4. ASSUME NEW p \in Proc, NEW actor \in Actor, NEW g \in GrantId,
             VerifyRead(p, actor, g) \/ AcknowledgeRead(p, actor, g) \/ RevokeRead(p, actor, g)
      PROVE  Backing'
  BY <1>4, BackingUndisturbed DEF VerifyRead, AcknowledgeRead, RevokeRead, data, TypeOK
<1>5. ASSUME NEW p \in Proc, NEW actor \in Actor, NEW q \in Request,
             PurposeViolation(p, actor, q) \/ AuthorizeRead(p, actor, q)
      PROVE  Backing'
  BY <1>5, BackingUndisturbed DEF PurposeViolation, AuthorizeRead, data, TypeOK
<1>6. ASSUME NEW p \in Proc, NEW actor \in Actor, NEW d \in Designation, DesignateRead(p, actor, d)
      PROVE  Backing'
  BY <1>6, BackingUndisturbed DEF DesignateRead, data, TypeOK
<1>7. ASSUME NEW p \in Proc, NEW actor \in Actor, RecordDeath(p, actor)
      PROVE  Backing'
  BY <1>7, BackingUndisturbed DEF RecordDeath
<1>8. ASSUME NEW p \in Proc,
             \/ AcknowledgeCommit(p) \/ AcknowledgeConflict(p) \/ DesignateCommit(p) \/ Abort(p)
      PROVE  Backing'
  <2>1. /\ End(p) /\ UNCHANGED <<row, tokens, profile>> /\ designations \subseteq designations'
        /\ \A g \in GrantId : acks[g] \subseteq acks'[g]
    BY <1>8 DEF AcknowledgeCommit, AcknowledgeConflict, DesignateCommit, Abort, data, TypeOK
  <2>2. \A q \in Proc : txn'[q].phase = "decided" => txn'[q] = txn[q]
    BY <2>1, EndEffect DEF Idle
  <2> QED BY <2>1, <2>2, BackingUndisturbed
<1>9. ASSUME NEW p \in Proc, DesignateCheck(p)
      PROVE  Backing'
  <2>1. UNCHANGED data BY <1>9 DEF DesignateCheck
  <2>2. \A q \in Proc : txn'[q].phase = "decided" => txn'[q] = txn[q]
    <3>1. CASE End(p) BY <3>1, EndEffect DEF Idle
    <3>2. CASE ~End(p) BY <1>9, <3>2 DEF DesignateCheck, TypeOK
    <3> QED BY <3>1, <3>2
  <2> QED BY <2>1, <2>2, BackingUndisturbed DEF data
<1>10. CASE UNCHANGED vars BY <1>10, BackingUndisturbed DEF vars, data
<1>11. ASSUME NEW p \in Proc, NEW actor \in Actor, GrantRequests(p, actor)
       PROVE  Backing'
  BY <1>11, <1>1, <1>3, <1>4 DEF GrantRequests
<1>12. ASSUME NEW p \in Proc, NEW actor \in Actor, OtherRequests(p, actor)
       PROVE  Backing'
  BY <1>12, <1>5, <1>6, <1>7 DEF OtherRequests, Designation
<1>13. ASSUME NEW p \in Proc, Continue(p)
       PROVE  Backing'
  BY <1>13, <1>2, <1>8, <1>9, BackingDecide, BackingCommit, BackingChange DEF Continue
<1> QED BY <1>10, <1>11, <1>12, <1>13 DEF Next, Quiet

\* Revocation apart, what a use token was issued on still holds whenever it is
\* looked at, although only the grant rows were locked when it was read.
THEOREM UseTokenBackedHolds == Spec => []UseTokenBacked
<1>1. Init => Backing BY DEF Init, Backing, Verdict, UseTokenBacked, Idle, granted
<1>2. Safe /\ OneSubject /\ Backing /\ [Next]_vars => Backing' BY BackingStep
<1>3. Backing => UseTokenBacked BY DEF Backing
<1> QED BY <1>1, <1>2, <1>3, SafeHolds, OneSubjectHolds, PTL DEF Spec

-----------------------------------------------------------------------------
(* The ledger and the tables                                               *)

\* What recording events does to the count of each.
LEMMA RecordEffect ==
  ASSUME NEW es, Record(es), NEW e
  PROVE  Copies(e)' = IF e \in es THEN Copies(e) + 1 ELSE Copies(e)
BY DEF Record, Copies

\* No event of this type and grant is recorded or lost.
SameCopies(type, g) == \A a \in Actor : Copies(Event(type, g, a))' = Copies(Event(type, g, a))

\* A count that no step touched says what it said.
LEMMA OnceKept ==
  ASSUME NEW type, NEW g, SameCopies(type, g)
  PROVE  (Never(type, g)' <=> Never(type, g)) /\ (Once(type, g)' <=> Once(type, g))
BY DEF SameCopies, Never, Once

\* The first event of its kind.
LEMMA FirstCopy ==
  ASSUME NEW type, NEW g, NEW es, NEW a \in Actor, Never(type, g), Record(es),
         Event(type, g, a) \in es, \A b \in Actor : Event(type, g, b) \in es => b = a
  PROVE  Once(type, g)'
<1>1. \A b \in Actor : Copies(Event(type, g, b)) = 0 BY DEF Never
<1>2. \A b \in Actor : Copies(Event(type, g, b))' = IF b = a THEN 1 ELSE 0
  <2> SUFFICES ASSUME NEW b \in Actor
               PROVE  Copies(Event(type, g, b))' = IF b = a THEN 1 ELSE 0
    OBVIOUS
  <2> DEFINE e == Event(type, g, b)
  <2>1. Copies(e)' = IF e \in es THEN Copies(e) + 1 ELSE Copies(e) BY RecordEffect
  <2>2. Copies(e) = 0 BY <1>1
  <2>3. e \in es <=> b = a OBVIOUS
  <2> HIDE DEF e
  <2>4. Copies(e)' = IF b = a THEN 1 ELSE 0 BY <2>1, <2>2, <2>3
  <2> QED BY <2>4 DEF e
<1> QED BY <1>2 DEF Once

\* Events of another type or another grant change no count of these.
LEMMA OtherCopies ==
  ASSUME NEW es, Record(es), NEW type, NEW g,
         \A a \in Actor : Event(type, g, a) \notin es
  PROVE  SameCopies(type, g)
BY RecordEffect DEF SameCopies

\* Events are the same only if they agree in everything.
LEMMA Distinct ==
  \A t, u, g, h, a, b : Event(t, g, a) = Event(u, h, b) <=> t = u /\ g = h /\ a = b
BY DEF Event

\* The events that tell the story of a grant.
GrantEvents == {"CONSENT_CREATED", "AUTHORITY_VERIFIED", "CONSENT_REVOKED", "BENEFICIARY_ACKNOWLEDGED"}

\* A step that touches neither a grant nor its events.
LEMMA GrantUntouched ==
  ASSUME NEW g, GrantAgrees(g), g \in granted' <=> g \in granted,
         g \in granted => row'[g].verified = row[g].verified /\ row'[g].revoked = row[g].revoked,
         g \in requested' <=> g \in requested, acks'[g] = acks[g],
         \A type \in GrantEvents : SameCopies(type, g)
  PROVE  GrantAgrees(g)'
<1>1. \A type \in GrantEvents : (Never(type, g)' <=> Never(type, g)) /\ (Once(type, g)' <=> Once(type, g))
  BY OnceKept
<1>2. \A a \in Actor : Copies(Event("BENEFICIARY_ACKNOWLEDGED", g, a))'
                         = Copies(Event("BENEFICIARY_ACKNOWLEDGED", g, a))
  BY DEF GrantEvents, SameCopies
<1>3. OnceIff(g \in granted, "CONSENT_CREATED", g)'
  BY <1>1 DEF GrantAgrees, OnceIff, GrantEvents
<1>4. OnceIff(g \in granted /\ row[g].verified, "AUTHORITY_VERIFIED", g)'
  BY <1>1 DEF GrantAgrees, OnceIff, GrantEvents
<1>5. OnceIff(g \in granted /\ row[g].revoked, "CONSENT_REVOKED", g)'
  BY <1>1 DEF GrantAgrees, OnceIff, GrantEvents
<1>6. (g \in requested <=> g \in granted /\ row[g].revoked)' BY DEF GrantAgrees
<1>7. \A a \in Actor : (Copies(Event("BENEFICIARY_ACKNOWLEDGED", g, a)) = IF a \in acks[g] THEN 1 ELSE 0)'
  BY <1>2 DEF GrantAgrees
<1> QED BY <1>3, <1>4, <1>5, <1>6, <1>7 DEF GrantAgrees

\* A step that neither creates the profile nor records its death.
LEMMA ProfileUntouched ==
  ASSUME ProfileAgrees, profile' = profile,
         SameCopies("PROFILE_CREATED", NoGrant), SameCopies("DEATH_RECORDED", NoGrant)
  PROVE  ProfileAgrees'
BY OnceKept DEF ProfileAgrees, OnceIff

\* A step that touches no grant and records nothing of one.
LEMMA GrantsUntouched ==
  ASSUME LedgerAgrees, UNCHANGED <<row, requested, acks>>,
         \A type \in GrantEvents, g \in GrantId : SameCopies(type, g)
  PROVE  \A g \in GrantId : GrantAgrees(g)'
<1>1. granted' = granted BY DEF granted
<1>2. ASSUME NEW g \in GrantId PROVE GrantAgrees(g)'
  BY <1>1, GrantUntouched DEF LedgerAgrees
<1> QED BY <1>2

\* An event of one grant is no event of another, nor of the profile.
LEMMA OneGrantsEvent ==
  ASSUME NEW type \in GrantEvents, NEW g, NEW who, Record({Event(type, g, who)})
  PROVE  /\ \A t \in GrantEvents : \A h : h # g \/ t # type => SameCopies(t, h)
         /\ SameCopies("PROFILE_CREATED", NoGrant) /\ SameCopies("DEATH_RECORDED", NoGrant)
<1>1. \A t, h : t # type \/ h # g => SameCopies(t, h)
  <2> SUFFICES ASSUME NEW t, NEW h, t # type \/ h # g PROVE SameCopies(t, h)
    OBVIOUS
  <2> DEFINE es == {Event(type, g, who)}
  <2>1. \A a \in Actor : Event(t, h, a) \notin es BY Distinct
  <2>2. Record(es) OBVIOUS
  <2> HIDE DEF es
  <2> QED BY <2>1, <2>2, OtherCopies
<1>2. "PROFILE_CREATED" # type /\ "DEATH_RECORDED" # type BY DEF GrantEvents
<1> QED BY <1>1, <1>2

\* A step that changes one grant and records it.
LEMMA OneGrantChanged ==
  ASSUME LedgerAgrees, NEW type \in GrantEvents, NEW g, NEW who, Record({Event(type, g, who)}),
         profile' = profile, GrantAgrees(g)',
         \A h \in GrantId \ {g} :
            /\ h \in granted' <=> h \in granted
            /\ h \in granted => row'[h].verified = row[h].verified /\ row'[h].revoked = row[h].revoked
            /\ h \in requested' <=> h \in requested
            /\ acks'[h] = acks[h]
  PROVE  LedgerAgrees'
<1>1. ProfileAgrees' BY OneGrantsEvent, ProfileUntouched DEF LedgerAgrees
<1>2. ASSUME NEW h \in GrantId \ {g} PROVE GrantAgrees(h)'
  <2>1. \A t \in GrantEvents : SameCopies(t, h) BY OneGrantsEvent
  <2> QED BY <2>1, GrantUntouched DEF LedgerAgrees
<1> QED BY <1>1, <1>2 DEF LedgerAgrees

\* A step that changes no row and records nothing the tables tell.
LEMMA LedgerUntouched ==
  ASSUME LedgerAgrees, UNCHANGED <<profile, row, requested, acks>>,
         \/ ledger' = ledger
         \/ \E e : Record({e}) /\ e.type \notin GrantEvents \cup {"PROFILE_CREATED", "DEATH_RECORDED"}
  PROVE  LedgerAgrees'
<1>1. ASSUME NEW t \in GrantEvents \cup {"PROFILE_CREATED", "DEATH_RECORDED"}, NEW g
      PROVE  SameCopies(t, g)
  <2>1. CASE ledger' = ledger BY <2>1 DEF SameCopies, Copies
  <2>2. ASSUME NEW e, Record({e}), e.type \notin GrantEvents \cup {"PROFILE_CREATED", "DEATH_RECORDED"}
        PROVE  SameCopies(t, g)
    <3> DEFINE es == {e}
    <3>1. \A a \in Actor : Event(t, g, a) \notin es BY <2>2, <1>1 DEF Event
    <3>2. Record(es) BY <2>2
    <3> HIDE DEF es
    <3> QED BY <3>1, <3>2, OtherCopies
  <2> QED BY <2>1, <2>2
<1> QED BY <1>1, GrantsUntouched, ProfileUntouched DEF LedgerAgrees

\* What agreement says of a new grant, given its first event.
LEMMA NewGrantAgrees ==
  ASSUME TypeOK, NEW g \in GrantId, GrantAgrees(g), g \notin granted,
         NEW actor \in Actor, NEW offer \in Offer, row' = WithRow(g, NewRow(actor, offer)),
         UNCHANGED <<requested, acks>>,
         Once("CONSENT_CREATED", g)',
         \A type \in GrantEvents \ {"CONSENT_CREATED"} : SameCopies(type, g)
  PROVE  GrantAgrees(g)'
<1>1. g \in granted' /\ ~row'[g].verified /\ ~row'[g].revoked
  <2>1. g \in granted' /\ row'[g] = NewRow(actor, offer) BY InsertRow, NewRowType
  <2> QED BY <2>1 DEF NewRow
<1>2. Never("AUTHORITY_VERIFIED", g)' /\ Never("CONSENT_REVOKED", g)'
  BY OnceKept DEF GrantAgrees, OnceIff, GrantEvents
<1>3. \A a \in Actor : Copies(Event("BENEFICIARY_ACKNOWLEDGED", g, a))'
                         = Copies(Event("BENEFICIARY_ACKNOWLEDGED", g, a))
  BY DEF GrantEvents, SameCopies
<1>4. ~(g \in requested') BY DEF GrantAgrees
<1>5. \A a \in Actor : (Copies(Event("BENEFICIARY_ACKNOWLEDGED", g, a)) = IF a \in acks[g] THEN 1 ELSE 0)'
  BY <1>3 DEF GrantAgrees
<1> QED BY <1>1, <1>2, <1>4, <1>5 DEF GrantAgrees, OnceIff

\* The grants a new row leaves as they were.
LEMMA OtherRows ==
  ASSUME TypeOK, NEW g \in GrantId, NEW actor \in Actor, NEW offer \in Offer,
         row' = WithRow(g, NewRow(actor, offer))
  PROVE  \A h \in GrantId \ {g} : /\ h \in granted' <=> h \in granted
                                  /\ h \in granted => row'[h] = row[h]
BY InsertRow, NewRowType

\* Creating a profile with its grant records both, each for the first time.
LEMMA LedgerCreateWithProfile ==
  ASSUME TypeOK, OneSubject, LedgerAgrees, NEW p \in Proc, NEW actor \in Actor,
         NEW offer \in Offer, NEW g \in GrantId, CreateWithProfile(p, actor, offer, g)
  PROVE  LedgerAgrees'
<1> DEFINE es == {Event("PROFILE_CREATED", NoGrant, actor), Event("CONSENT_CREATED", g, actor)}
<1>1. /\ profile = "ABSENT" /\ profile' # "ABSENT" /\ granted = {}
      /\ row' = WithRow(g, NewRow(actor, offer)) /\ Record(es)
      /\ UNCHANGED <<acks, requested>>
  BY DEF CreateWithProfile, OneSubject
<1>2. \A t, h, a : Event(t, h, a) \in es <=>
        a = actor /\ ((t = "PROFILE_CREATED" /\ h = NoGrant) \/ (t = "CONSENT_CREATED" /\ h = g))
  <2> SUFFICES ASSUME NEW t, NEW h, NEW a
               PROVE  Event(t, h, a) \in es <=>
                        a = actor /\ ((t = "PROFILE_CREATED" /\ h = NoGrant) \/ (t = "CONSENT_CREATED" /\ h = g))
    OBVIOUS
  <2>1. Event(t, h, a) = Event("PROFILE_CREATED", NoGrant, actor) <=>
          t = "PROFILE_CREATED" /\ h = NoGrant /\ a = actor
    BY Distinct
  <2>2. Event(t, h, a) = Event("CONSENT_CREATED", g, actor) <=>
          t = "CONSENT_CREATED" /\ h = g /\ a = actor
    BY Distinct
  <2> QED BY <2>1, <2>2
<1> HIDE DEF es
<1>3. ASSUME NEW t, NEW h, ~(t = "PROFILE_CREATED" /\ h = NoGrant), ~(t = "CONSENT_CREATED" /\ h = g)
      PROVE  SameCopies(t, h)
  BY <1>1, <1>2, <1>3, OtherCopies
<1>4. ProfileAgrees'
  <2>1. Never("PROFILE_CREATED", NoGrant) BY <1>1 DEF LedgerAgrees, ProfileAgrees, OnceIff
  <2>2. Once("PROFILE_CREATED", NoGrant)'
    <3>1. \A b \in Actor : Event("PROFILE_CREATED", NoGrant, b) \in es <=> b = actor BY <1>2
    <3> QED BY <3>1, <2>1, <1>1, FirstCopy
  <2>3. Never("DEATH_RECORDED", NoGrant) BY <1>1 DEF LedgerAgrees, ProfileAgrees
  <2>4. Never("DEATH_RECORDED", NoGrant)' BY <2>3, <1>3, OnceKept
  <2> QED BY <2>2, <2>4, <1>1 DEF ProfileAgrees, OnceIff
<1>5. GrantAgrees(g)'
  <2>1. GrantAgrees(g) BY DEF LedgerAgrees
  <2>2. Never("CONSENT_CREATED", g) BY <2>1, <1>1 DEF GrantAgrees, OnceIff
  <2>3. Once("CONSENT_CREATED", g)' BY <2>2, <1>1, <1>2, FirstCopy
  <2>4. \A type \in GrantEvents \ {"CONSENT_CREATED"} : SameCopies(type, g)
    BY <1>3 DEF GrantEvents
  <2> QED BY <2>1, <2>3, <2>4, <1>1, NewGrantAgrees
<1>6. ASSUME NEW h \in GrantId \ {g} PROVE GrantAgrees(h)'
  <2>1. \A type \in GrantEvents : SameCopies(type, h) BY <1>3 DEF GrantEvents
  <2>2. (h \in granted' <=> h \in granted) /\ (h \in granted => row'[h] = row[h])
    BY <1>1, OtherRows
  <2> QED BY <2>1, <2>2, <1>1, GrantUntouched DEF LedgerAgrees
<1> QED BY <1>4, <1>5, <1>6 DEF LedgerAgrees

\* Creating a grant records it for the first time.
LEMMA LedgerCreate ==
  ASSUME TypeOK, LedgerAgrees, NEW p \in Proc, NEW g \in GrantId, CreateCommit(p, g)
  PROVE  LedgerAgrees'
<1> DEFINE who == txn[p].actor
<1>1. who \in Actor /\ txn[p].offer \in Offer BY Held DEF CreateCommit
<1>2. /\ g \notin granted /\ row' = WithRow(g, NewRow(who, txn[p].offer))
      /\ Record({Event("CONSENT_CREATED", g, who)})
      /\ UNCHANGED <<profile, acks, requested>>
  BY DEF CreateCommit
<1> HIDE DEF who
<1>3. "CONSENT_CREATED" \in GrantEvents BY DEF GrantEvents
<1>4. GrantAgrees(g) BY DEF LedgerAgrees
<1>5. Once("CONSENT_CREATED", g)'
  <2>1. Never("CONSENT_CREATED", g) BY <1>2, <1>4 DEF GrantAgrees, OnceIff
  <2>2. \A b \in Actor : Event("CONSENT_CREATED", g, b) \in {Event("CONSENT_CREATED", g, who)} => b = who
    BY Distinct
  <2> QED BY <2>1, <2>2, <1>1, <1>2, FirstCopy
<1>6. \A type \in GrantEvents \ {"CONSENT_CREATED"} : SameCopies(type, g)
  BY <1>2, <1>3, OneGrantsEvent
<1>7. GrantAgrees(g)' BY <1>1, <1>2, <1>4, <1>5, <1>6, NewGrantAgrees
<1>8. \A h \in GrantId \ {g} : /\ h \in granted' <=> h \in granted
                               /\ h \in granted => row'[h] = row[h]
  BY <1>1, <1>2, OtherRows
<1> QED BY <1>2, <1>3, <1>7, <1>8, OneGrantChanged

\* Verifying a grant records it for the first time: the row was held, unverified.
LEMMA LedgerVerify ==
  ASSUME Safe, LedgerAgrees, NEW p \in Proc, VerifyCommit(p),
         NEW g \in GrantId, g = txn[p].grant, NEW who \in Actor, who = txn[p].actor
  PROVE  LedgerAgrees'
<1> TypeOK BY DEF Safe
<1>1. /\ txn[p].phase = "verify"
      /\ UNCHANGED <<profile, acks, requested>> /\ Record({Event("AUTHORITY_VERIFIED", g, who)})
      /\ row' = [row EXCEPT ![g].verified = TRUE]
  BY DEF VerifyCommit
<1>2. g \in granted /\ ~row[g].revoked /\ ~row[g].verified BY <1>1 DEF Safe, ChangersHold
<1>3. /\ granted' = granted /\ \A h \in granted \ {g} : row'[h] = row[h]
      /\ row'[g].verified /\ ~row'[g].revoked
  BY <1>1, <1>2 DEF granted, TypeOK, GrantRow
<1>4. "AUTHORITY_VERIFIED" \in GrantEvents BY DEF GrantEvents
<1>5. GrantAgrees(g) BY <1>1 DEF LedgerAgrees
<1>6. Once("AUTHORITY_VERIFIED", g)'
  <2>1. Never("AUTHORITY_VERIFIED", g) BY <1>2, <1>5 DEF GrantAgrees, OnceIff
  <2>2. \A b \in Actor : Event("AUTHORITY_VERIFIED", g, b) \in {Event("AUTHORITY_VERIFIED", g, who)}
          => b = who
    BY Distinct
  <2> QED BY <2>1, <2>2, <1>1, FirstCopy
<1>7. \A t \in GrantEvents \ {"AUTHORITY_VERIFIED"} : SameCopies(t, g) BY <1>1, <1>4, OneGrantsEvent
<1>8. GrantAgrees(g)'
  <2>1. Once("CONSENT_CREATED", g)' /\ Never("CONSENT_REVOKED", g)'
    BY <1>2, <1>5, <1>7, OnceKept DEF GrantAgrees, OnceIff, GrantEvents
  <2>2. \A a \in Actor : Copies(Event("BENEFICIARY_ACKNOWLEDGED", g, a))'
                           = Copies(Event("BENEFICIARY_ACKNOWLEDGED", g, a))
    BY <1>7 DEF GrantEvents, SameCopies
  <2>3. \A a \in Actor : (Copies(Event("BENEFICIARY_ACKNOWLEDGED", g, a)) = IF a \in acks[g] THEN 1 ELSE 0)'
    BY <2>2, <1>1, <1>5 DEF GrantAgrees
  <2>4. ~(g \in requested') BY <1>1, <1>2, <1>5 DEF GrantAgrees
  <2> QED BY <2>1, <2>3, <2>4, <1>2, <1>3, <1>6 DEF GrantAgrees, OnceIff
<1> QED BY <1>1, <1>3, <1>4, <1>8, OneGrantChanged

\* Revoking a grant records it for the first time, with its request.
LEMMA LedgerRevoke ==
  ASSUME Safe, LedgerAgrees, NEW p \in Proc, RevokeCommit(p),
         NEW g \in GrantId, g = txn[p].grant, NEW who \in Actor, who = txn[p].actor
  PROVE  LedgerAgrees'
<1> TypeOK BY DEF Safe
<1>1. /\ txn[p].phase = "revoke"
      /\ UNCHANGED <<profile, acks>> /\ Record({Event("CONSENT_REVOKED", g, who)})
      /\ row' = [row EXCEPT ![g] = [@ EXCEPT !.active = FALSE, !.revoked = TRUE]]
      /\ requested' = requested \cup {g}
  BY DEF RevokeCommit
<1>2. g \in granted /\ ~row[g].revoked BY <1>1 DEF Safe, ChangersHold
<1>3. /\ granted' = granted /\ \A h \in granted \ {g} : row'[h] = row[h]
      /\ row'[g].verified = row[g].verified /\ row'[g].revoked
  BY <1>1, <1>2 DEF granted, TypeOK, GrantRow
<1>4. "CONSENT_REVOKED" \in GrantEvents BY DEF GrantEvents
<1>5. GrantAgrees(g) BY <1>1 DEF LedgerAgrees
<1>6. Once("CONSENT_REVOKED", g)'
  <2>1. Never("CONSENT_REVOKED", g) BY <1>2, <1>5 DEF GrantAgrees, OnceIff
  <2>2. \A b \in Actor : Event("CONSENT_REVOKED", g, b) \in {Event("CONSENT_REVOKED", g, who)}
          => b = who
    BY Distinct
  <2> QED BY <2>1, <2>2, <1>1, FirstCopy
<1>7. \A t \in GrantEvents \ {"CONSENT_REVOKED"} : SameCopies(t, g) BY <1>1, <1>4, OneGrantsEvent
<1>8. GrantAgrees(g)'
  <2>1. Once("CONSENT_CREATED", g)' /\ OnceIff(g \in granted /\ row[g].verified, "AUTHORITY_VERIFIED", g)'
    BY <1>2, <1>3, <1>5, <1>7, OnceKept DEF GrantAgrees, OnceIff, GrantEvents
  <2>2. \A a \in Actor : Copies(Event("BENEFICIARY_ACKNOWLEDGED", g, a))'
                           = Copies(Event("BENEFICIARY_ACKNOWLEDGED", g, a))
    BY <1>7 DEF GrantEvents, SameCopies
  <2>3. \A a \in Actor : (Copies(Event("BENEFICIARY_ACKNOWLEDGED", g, a)) = IF a \in acks[g] THEN 1 ELSE 0)'
    BY <2>2, <1>1, <1>5 DEF GrantAgrees
  <2>4. g \in requested' BY <1>1
  <2> QED BY <2>1, <2>3, <2>4, <1>2, <1>3, <1>6 DEF GrantAgrees, OnceIff
<1>9. \A h \in GrantId \ {g} : h \in requested' <=> h \in requested BY <1>1
<1> QED BY <1>1, <1>3, <1>4, <1>8, <1>9, OneGrantChanged

\* An acknowledgment is recorded with its row, which was not there.
LEMMA LedgerAcknowledge ==
  ASSUME TypeOK, LedgerAgrees, NEW p \in Proc, AcknowledgeCommit(p),
         NEW g \in GrantId, g = txn[p].grant, NEW who \in Actor, who = txn[p].actor
  PROVE  LedgerAgrees'
<1> DEFINE type == "BENEFICIARY_ACKNOWLEDGED"
<1>1. /\ who \notin acks[g]
      /\ UNCHANGED <<profile, row, requested>> /\ Record({Event(type, g, who)})
      /\ acks' = [acks EXCEPT ![g] = @ \cup {who}]
  BY DEF AcknowledgeCommit
<1>2. granted' = granted /\ acks'[g] = acks[g] \cup {who} /\ \A h \in GrantId \ {g} : acks'[h] = acks[h]
  BY <1>1 DEF granted, TypeOK
<1>3. type \in GrantEvents BY DEF GrantEvents
<1>4. GrantAgrees(g) BY <1>1 DEF LedgerAgrees
<1>5. \A t \in GrantEvents \ {type} : SameCopies(t, g) BY <1>1, <1>3, OneGrantsEvent
<1>6. \A a \in Actor : Copies(Event(type, g, a))' = IF a \in acks'[g] THEN 1 ELSE 0
  <2> SUFFICES ASSUME NEW a \in Actor
               PROVE  Copies(Event(type, g, a))' = IF a \in acks'[g] THEN 1 ELSE 0
    OBVIOUS
  <2> DEFINE e == Event(type, g, a)
             es == {Event(type, g, who)}
  <2>1. Copies(e)' = IF e \in es THEN Copies(e) + 1 ELSE Copies(e) BY <1>1, RecordEffect
  <2>2. Copies(e) = IF a \in acks[g] THEN 1 ELSE 0 BY <1>4 DEF GrantAgrees
  <2>3. e \in es <=> a = who BY Distinct
  <2> HIDE DEF e, es
  <2>4. Copies(e)' = IF a \in acks'[g] THEN 1 ELSE 0 BY <2>1, <2>2, <2>3, <1>1, <1>2
  <2> QED BY <2>4 DEF e
<1>7. GrantAgrees(g)'
  <2>1. /\ OnceIff(g \in granted, "CONSENT_CREATED", g)'
        /\ OnceIff(g \in granted /\ row[g].verified, "AUTHORITY_VERIFIED", g)'
        /\ OnceIff(g \in granted /\ row[g].revoked, "CONSENT_REVOKED", g)'
    BY <1>1, <1>2, <1>4, <1>5, OnceKept DEF GrantAgrees, OnceIff, GrantEvents
  <2>2. (g \in requested <=> g \in granted /\ row[g].revoked)' BY <1>1, <1>2, <1>4 DEF GrantAgrees
  <2> QED BY <2>1, <2>2, <1>6 DEF GrantAgrees
<1> QED BY <1>1, <1>2, <1>3, <1>7, OneGrantChanged

\* The death is recorded for the first time: the profile was alive.
LEMMA LedgerDeath ==
  ASSUME LedgerAgrees, NEW p \in Proc, NEW actor \in Actor, RecordDeath(p, actor)
  PROVE  LedgerAgrees'
<1>1. /\ profile = "ALIVE" /\ profile' = "DEAD" /\ UNCHANGED <<row, acks, requested>>
      /\ Record({Event("DEATH_RECORDED", NoGrant, actor)})
  BY DEF RecordDeath
<1>2. ASSUME NEW t, NEW g, t # "DEATH_RECORDED" PROVE SameCopies(t, g)
  <2> DEFINE es == {Event("DEATH_RECORDED", NoGrant, actor)}
  <2>1. \A a \in Actor : Event(t, g, a) \notin es BY <1>2, Distinct
  <2>2. Record(es) BY <1>1
  <2> HIDE DEF es
  <2> QED BY <2>1, <2>2, OtherCopies
<1>3. Once("DEATH_RECORDED", NoGrant)'
  <2>1. Never("DEATH_RECORDED", NoGrant) BY <1>1 DEF LedgerAgrees, ProfileAgrees
  <2>2. \A b \in Actor : Event("DEATH_RECORDED", NoGrant, b) \in {Event("DEATH_RECORDED", NoGrant, actor)}
          => b = actor
    BY Distinct
  <2> QED BY <2>1, <2>2, <1>1, FirstCopy
<1>4. Once("PROFILE_CREATED", NoGrant)'
  <2>1. Once("PROFILE_CREATED", NoGrant) BY <1>1 DEF LedgerAgrees, ProfileAgrees, OnceIff
  <2> QED BY <2>1, <1>2, OnceKept
<1>5. ProfileAgrees' BY <1>1, <1>3, <1>4 DEF ProfileAgrees, OnceIff
<1>6. \A t \in GrantEvents, g \in GrantId : SameCopies(t, g) BY <1>2 DEF GrantEvents
<1> QED BY <1>1, <1>5, <1>6, GrantsUntouched DEF LedgerAgrees

\* No transaction makes the ledger and the tables disagree.
LEMMA LedgerStep == Safe /\ OneSubject /\ LedgerAgrees /\ [Next]_vars => LedgerAgrees'
<1> SUFFICES ASSUME Safe, OneSubject, LedgerAgrees, [Next]_vars PROVE LedgerAgrees'
  OBVIOUS
<1> TypeOK BY DEF Safe
<1>1. ASSUME UNCHANGED <<data, ledger>> PROVE LedgerAgrees'
  BY <1>1, LedgerUntouched DEF data
<1>2. ASSUME NEW p \in Proc, NEW actor \in Actor, GrantRequests(p, actor)
      PROVE  LedgerAgrees'
  BY <1>1, <1>2, LedgerCreateWithProfile
     DEF GrantRequests, CreateRead, VerifyRead, AcknowledgeRead, RevokeRead
<1>3. ASSUME NEW p \in Proc, NEW actor \in Actor, OtherRequests(p, actor)
      PROVE  LedgerAgrees'
  <2>1. ASSUME NEW q \in Request, PurposeViolation(p, actor, q) PROVE LedgerAgrees'
    <3> DEFINE e == Event("PURPOSE_VIOLATION_ATTEMPT", NoGrant, actor)
    <3>1. e.type \notin GrantEvents \cup {"PROFILE_CREATED", "DEATH_RECORDED"}
      BY DEF Event, GrantEvents
    <3>2. Record({e}) /\ UNCHANGED <<profile, row, requested, acks>>
      BY <2>1 DEF PurposeViolation, data
    <3> HIDE DEF e
    <3> QED BY <3>1, <3>2, LedgerUntouched
  <2> QED BY <1>1, <1>3, <2>1, LedgerDeath
          DEF OtherRequests, AuthorizeRead, DesignateRead
<1>4. ASSUME NEW p \in Proc, AuthorizeCommit(p) PROVE LedgerAgrees'
  <2> DEFINE e == Event(AuthorizationEvent(txn[p].action, txn[p].allowed), txn[p].grant, txn[p].actor)
  <2>1. e.type \notin GrantEvents \cup {"PROFILE_CREATED", "DEATH_RECORDED"}
    BY DEF Event, GrantEvents, AuthorizationEvent
  <2>2. Record({e}) /\ UNCHANGED <<profile, row, requested, acks>> BY <1>4 DEF AuthorizeCommit
  <2> HIDE DEF e
  <2> QED BY <2>1, <2>2, LedgerUntouched
<1>5. ASSUME NEW p \in Proc, DesignateCommit(p) PROVE LedgerAgrees'
  <2> DEFINE e == Event("SUCCESSOR_DESIGNATED", NoGrant, txn[p].actor)
  <2>1. e.type \notin GrantEvents \cup {"PROFILE_CREATED", "DEATH_RECORDED"}
    BY DEF Event, GrantEvents
  <2>2. (Record({e}) \/ ledger' = ledger) /\ UNCHANGED <<profile, row, requested, acks>>
    BY <1>5 DEF DesignateCommit
  <2> HIDE DEF e
  <2> QED BY <2>1, <2>2, LedgerUntouched
<1>6. ASSUME NEW p \in Proc,
             AcknowledgeConflict(p) \/ AuthorizeDecide(p) \/ DesignateCheck(p) \/ Abort(p)
      PROVE  LedgerAgrees'
  BY <1>1, <1>6 DEF AcknowledgeConflict, AuthorizeDecide, DesignateCheck, Abort
<1>7. ASSUME NEW p \in Proc, VerifyCommit(p) \/ RevokeCommit(p) \/ AcknowledgeCommit(p)
      PROVE  LedgerAgrees'
  <2>1. PICK g \in GrantId, who \in Actor : g = txn[p].grant /\ who = txn[p].actor
    BY <1>7, Held DEF VerifyCommit, RevokeCommit, AcknowledgeCommit
  <2> QED BY <2>1, <1>7, LedgerVerify, LedgerRevoke, LedgerAcknowledge
<1>8. ASSUME NEW p \in Proc, Continue(p) PROVE LedgerAgrees'
  BY <1>4, <1>5, <1>6, <1>7, <1>8, LedgerCreate DEF Continue
<1>9. CASE UNCHANGED vars BY <1>1, <1>9 DEF vars
<1> QED BY <1>2, <1>3, <1>8, <1>9 DEF Next, Quiet

\* The ledger tells the story the tables tell, also when two requests try the
\* same thing at once or one dies half way.
THEOREM LedgerAgreesHolds == Spec => []LedgerAgrees
<1>1. Init => LedgerAgrees
  <2> SUFFICES ASSUME Init PROVE LedgerAgrees
    OBVIOUS
  <2>1. granted = {} /\ profile = "ABSENT" /\ requested = {} BY DEF Init, granted
  <2>2. \A e : Copies(e) = 0 BY DEF Init, Copies
  <2>3. \A g \in GrantId : acks[g] = {} BY DEF Init
  <2> QED BY <2>1, <2>2, <2>3 DEF LedgerAgrees, ProfileAgrees, GrantAgrees, OnceIff, Never
<1>2. Safe /\ OneSubject /\ LedgerAgrees /\ [Next]_vars => LedgerAgrees' BY LedgerStep
<1> QED BY <1>1, <1>2, SafeHolds, OneSubjectHolds, PTL DEF Spec

-----------------------------------------------------------------------------
(* The promise is kept                                                     *)

standing_of == [g \in GrantId |-> Standing(g)]

\* Creating a grant is Give.
LEMMA GiveStep ==
  ASSUME TypeOK, NEW g \in GrantId, g \notin granted, NEW actor \in Actor, NEW offer \in Offer,
         row' = WithRow(g, NewRow(actor, offer)), tokens' = tokens,
         profile' = profile \/ profile # "DEAD"
  PROVE  Promise!Give(g)
<1> DEFINE new == NewRow(actor, offer)
<1>1. /\ granted' = granted \cup {g} /\ row'[g] = new
      /\ \A h \in granted : h # g => row'[h] = row[h]
  BY InsertRow, NewRowType
<1>2. ~new.verified /\ ~new.revoked BY DEF NewRow
<1> HIDE DEF new
<1>3. Standing(g) = "absent" BY DEF Standing
<1>4. \A h \in GrantId : Standing(h)' = IF h = g THEN "unverified" ELSE Standing(h)
  BY <1>1, <1>2 DEF Standing
<1>5. standing_of' = [standing_of EXCEPT ![g] = "unverified"] BY <1>4 DEF standing_of
<1>6. standing_of[g] = "absent" BY <1>3 DEF standing_of
<1>7. Licensed' = Licensed BY DEF Licensed, UseToken, Live
<1>8. (profile' = "DEAD") \in {profile = "DEAD", TRUE} OBVIOUS
<1> QED BY <1>5, <1>6, <1>7, <1>8 DEF Promise!Give, standing_of

\* Verifying a grant is Verify: it was neither verified nor revoked.
LEMMA VerifyStep ==
  ASSUME Safe, NEW p \in Proc, VerifyCommit(p)
  PROVE  txn[p].grant \in GrantId /\ Promise!Verify(txn[p].grant)
<1> DEFINE g == txn[p].grant
<1>1. /\ txn[p].phase = "verify" /\ row' = [row EXCEPT ![g].verified = TRUE]
      /\ UNCHANGED <<tokens, profile>>
  BY DEF VerifyCommit
<1>2. TypeOK BY DEF Safe
<1>3. g \in GrantId BY <1>1, <1>2, Held
<1>4. g \in granted /\ ~row[g].revoked /\ ~row[g].verified BY <1>1 DEF Safe, ChangersHold
<1>5. /\ granted' = granted /\ row'[g].verified /\ ~row'[g].revoked
      /\ \A h \in granted : h # g => row'[h] = row[h]
  BY <1>1, <1>2, <1>4 DEF granted, TypeOK, GrantRow
<1> HIDE DEF g
<1>6. \A h \in GrantId : Standing(h)' = IF h = g THEN "verified" ELSE Standing(h)
  BY <1>4, <1>5 DEF Standing
<1>7. standing_of' = [standing_of EXCEPT ![g] = "verified"] BY <1>6 DEF standing_of
<1>8. standing_of[g] = "unverified" BY <1>3, <1>4 DEF standing_of, Standing
<1>9. Licensed' = Licensed BY <1>1 DEF Licensed, UseToken, Live
<1>10. Promise!Verify(g) BY <1>1, <1>7, <1>8, <1>9 DEF Promise!Verify, standing_of
<1> QED BY <1>3, <1>10 DEF g

\* Revoking a grant is TakeBack: its licences end in the same step.
LEMMA TakeBackStep ==
  ASSUME Safe, NEW p \in Proc, RevokeCommit(p)
  PROVE  txn[p].grant \in GrantId /\ Promise!TakeBack(txn[p].grant)
<1> DEFINE g == txn[p].grant
<1>1. /\ txn[p].phase = "revoke" /\ profile' = profile
      /\ row' = [row EXCEPT ![g] = [@ EXCEPT !.active = FALSE, !.revoked = TRUE]]
      /\ tokens' = revoke_grant_tokens(g)
  BY DEF RevokeCommit
<1>2. TypeOK BY DEF Safe
<1>3. g \in GrantId BY <1>1, <1>2, Held
<1>4. g \in granted /\ ~row[g].revoked BY <1>1 DEF Safe, ChangersHold
<1>5. /\ granted' = granted /\ row'[g].revoked
      /\ \A h \in granted : h # g => row'[h] = row[h]
  BY <1>1, <1>2, <1>4 DEF granted, TypeOK, GrantRow
<1> HIDE DEF g
<1>6. \A h \in GrantId : Standing(h)' = IF h = g THEN "revoked" ELSE Standing(h)
  BY <1>4, <1>5 DEF Standing
<1>7. standing_of' = [standing_of EXCEPT ![g] = "revoked"] BY <1>6 DEF standing_of
<1>8. standing_of[g] \in {"unverified", "verified"} BY <1>3, <1>4 DEF standing_of, Standing
<1>9. Licensed' = Licensed \ {g}
  <2>1. \A t \in tokens' : UseToken(t) /\ Live(t) <=> t \in tokens /\ UseToken(t) /\ Live(t) /\ t.grant # g
    <3> SUFFICES ASSUME NEW t \in tokens'
                 PROVE  UseToken(t) /\ Live(t) <=> t \in tokens /\ UseToken(t) /\ Live(t) /\ t.grant # g
      OBVIOUS
    <3>1. PICK u \in tokens : t = IF u.grant = g THEN [u EXCEPT !.revoked = TRUE] ELSE u
      BY <1>1 DEF revoke_grant_tokens
    <3>2. u \in Token BY <1>2 DEF TypeOK
    <3>3. CASE u.grant = g
      <4>1. t.revoked /\ t.grant = g BY <3>1, <3>2, <3>3 DEF Token
      <4> QED BY <4>1 DEF Live
    <3>4. CASE u.grant # g BY <3>1, <3>4
    <3> QED BY <3>3, <3>4
  <2>2. \A t \in tokens : t.grant # g => t \in tokens' BY <1>1 DEF revoke_grant_tokens
  <2>3. ASSUME NEW x \in Licensed' PROVE x \in Licensed \ {g} BY <2>1, <2>3 DEF Licensed
  <2>4. ASSUME NEW x \in Licensed \ {g} PROVE x \in Licensed' BY <2>1, <2>2, <2>4 DEF Licensed
  <2> QED BY <2>3, <2>4
<1>10. Promise!TakeBack(g) BY <1>1, <1>7, <1>8, <1>9 DEF Promise!TakeBack, standing_of
<1> QED BY <1>3, <1>10 DEF g

\* Storing a use token is License; storing any other token, or a denial,
\* changes nothing that was promised.
LEMMA LicenseStep ==
  ASSUME Safe, NEW p \in Proc, AuthorizeCommit(p)
  PROVE  \/ txn[p].grant \in GrantId /\ Promise!License(txn[p].grant)
         \/ UNCHANGED Promise!promiseVars
<1> DEFINE g == txn[p].grant
           new == [grant |-> g, action |-> txn[p].action, actor |-> txn[p].actor, revoked |-> FALSE]
<1>1. /\ txn[p].phase = "decided" /\ UNCHANGED <<row, profile>>
      /\ tokens' = IF txn[p].allowed THEN tokens \cup {new} ELSE tokens
  BY DEF AuthorizeCommit
<1>2. TypeOK BY DEF Safe
<1>3. Live(new) /\ new.grant = g /\ new.action = txn[p].action BY DEF Live
<1>4. standing_of' = standing_of BY <1>1 DEF standing_of, Standing, granted
<1> HIDE DEF new, g
<1>5. CASE txn[p].allowed /\ txn[p].action \in USE_ACTIONS
  <2>1. profile = "DEAD" /\ g \in granted /\ row[g].verified /\ ~row[g].revoked
    BY <1>1, <1>5 DEF Safe, VerdictsHold, g
  <2>2. g \in GrantId BY <1>2, <2>1 DEF TypeOK
  <2>3. standing_of[g] = "verified" BY <2>1, <2>2 DEF standing_of, Standing
  <2>4. UseToken(new) BY <1>3, <1>5 DEF UseToken
  <2>5. tokens' = tokens \cup {new} BY <1>1, <1>5
  <2>6. Licensed' = Licensed \cup {g}
    BY <2>4, <2>5, <1>3 DEF Licensed, UseToken, Live
  <2>7. Promise!License(g) BY <1>1, <1>4, <2>1, <2>3, <2>6 DEF Promise!License, standing_of
  <2> QED BY <2>2, <2>7 DEF g
<1>6. CASE ~(txn[p].allowed /\ txn[p].action \in USE_ACTIONS)
  <2>1. CASE ~txn[p].allowed BY <2>1, <1>1, <1>4 DEF Promise!promiseVars, standing_of, Licensed, UseToken, Live
  <2>2. CASE txn[p].allowed
    <3>1. ~UseToken(new) BY <1>3, <1>6, <2>2 DEF UseToken
    <3>2. tokens' = tokens \cup {new} BY <1>1, <2>2
    <3>3. Licensed' = Licensed BY <3>1, <3>2 DEF Licensed, UseToken, Live
    <3> QED BY <1>1, <1>4, <3>3 DEF Promise!promiseVars, standing_of
  <2> QED BY <2>1, <2>2
<1> QED BY <1>5, <1>6

\* A step that leaves profile, grants and tokens alone changes nothing that
\* was promised.
LEMMA PromiseUntouched ==
  ASSUME UNCHANGED <<row, tokens, profile>>
  PROVE  UNCHANGED Promise!promiseVars
BY DEF Promise!promiseVars, Standing, granted, Licensed, UseToken, Live

\* Every transaction step is a step of ConsentPromise or changes nothing that
\* was promised.
LEMMA PromiseStep == Safe /\ OneSubject /\ [Next]_vars => [Promise!PromiseNext]_(Promise!promiseVars)
<1> DEFINE Kept == [Promise!PromiseNext]_(Promise!promiseVars)
<1> SUFFICES ASSUME Safe, OneSubject, [Next]_vars PROVE Kept
  OBVIOUS
<1> TypeOK BY DEF Safe
<1>1. ASSUME NEW p \in Proc, NEW actor \in Actor, NEW offer \in Offer, NEW g \in GrantId,
             CreateWithProfile(p, actor, offer, g)
      PROVE  Kept
  <2>1. /\ row' = WithRow(g, NewRow(actor, offer)) /\ g \notin granted
        /\ profile # "DEAD" /\ tokens' = tokens
    BY <1>1 DEF CreateWithProfile, OneSubject
  <2>2. Promise!Give(g) BY <2>1, GiveStep
  <2> QED BY <2>2 DEF Promise!PromiseNext
<1>2. ASSUME NEW p \in Proc, NEW g \in GrantId, CreateCommit(p, g)
      PROVE  Kept
  <2>1. txn[p].actor \in Actor /\ txn[p].offer \in Offer BY <1>2, Held DEF CreateCommit
  <2>2. /\ row' = WithRow(g, NewRow(txn[p].actor, txn[p].offer)) /\ g \notin granted
        /\ profile' = profile /\ tokens' = tokens
    BY <1>2 DEF CreateCommit
  <2>3. Promise!Give(g) BY <2>1, <2>2, GiveStep
  <2> QED BY <2>3 DEF Promise!PromiseNext
<1>3. ASSUME NEW p \in Proc, VerifyCommit(p) \/ RevokeCommit(p) \/ AuthorizeCommit(p)
      PROVE  Kept
  BY <1>3, VerifyStep, TakeBackStep, LicenseStep DEF Promise!PromiseNext
<1>4. ASSUME NEW p \in Proc, NEW actor \in Actor, RecordDeath(p, actor)
      PROVE  Kept
  <2>1. UNCHANGED <<row, tokens>> /\ profile' = "DEAD" BY <1>4 DEF RecordDeath
  <2>2. Promise!Die BY <2>1 DEF Promise!Die, Standing, granted, Licensed, UseToken, Live
  <2> QED BY <2>2 DEF Promise!PromiseNext
<1>5. ASSUME UNCHANGED <<row, tokens, profile>> PROVE Kept
  BY <1>5, PromiseUntouched
<1>6. ASSUME NEW p \in Proc, NEW actor \in Actor, GrantRequests(p, actor)
      PROVE  Kept
  <2>1. ASSUME NEW o \in Offer, CreateRead(p, actor, o) PROVE Kept
    BY <2>1, <1>5 DEF CreateRead, data
  <2>2. ASSUME NEW g \in GrantId,
               VerifyRead(p, actor, g) \/ AcknowledgeRead(p, actor, g) \/ RevokeRead(p, actor, g)
        PROVE  Kept
    BY <2>2, <1>5 DEF VerifyRead, AcknowledgeRead, RevokeRead, data
  <2> HIDE DEF Kept
  <2> QED BY <1>6, <1>1, <2>1, <2>2 DEF GrantRequests
<1>7. ASSUME NEW p \in Proc, NEW actor \in Actor, OtherRequests(p, actor)
      PROVE  Kept
  <2>1. ASSUME NEW q \in Request, PurposeViolation(p, actor, q) \/ AuthorizeRead(p, actor, q)
        PROVE  Kept
    BY <2>1, <1>5 DEF PurposeViolation, AuthorizeRead, data
  <2>2. ASSUME NEW d \in Designation, DesignateRead(p, actor, d) PROVE Kept
    BY <2>2, <1>5 DEF DesignateRead, data
  <2> HIDE DEF Kept
  <2> QED BY <1>7, <1>4, <2>1, <2>2 DEF OtherRequests, Designation
<1>8. ASSUME NEW p \in Proc, Continue(p)
      PROVE  Kept
  <2>1. ASSUME \/ AcknowledgeCommit(p) \/ AcknowledgeConflict(p) \/ AuthorizeDecide(p)
               \/ DesignateCheck(p) \/ DesignateCommit(p) \/ Abort(p)
        PROVE  Kept
    BY <2>1, <1>5 DEF AcknowledgeCommit, AcknowledgeConflict, AuthorizeDecide, DesignateCheck,
                      DesignateCommit, Abort, data
  <2> HIDE DEF Kept
  <2> QED BY <1>8, <1>2, <1>3, <2>1 DEF Continue
<1>9. ASSUME UNCHANGED vars PROVE Kept BY <1>9, <1>5 DEF vars, data
<1> HIDE DEF Kept
<1> QED BY <1>6, <1>7, <1>8, <1>9 DEF Next, Quiet

\* The kernel's transactions implement ConsentPromise: consent moves one way,
\* a use is licensed only under verified consent after death, and revoking
\* consent ends every licence given under it in the same step.
THEOREM PromiseKept == Spec => KeepsPromise
<1>1. Init => Promise!PromiseInit
  <2> SUFFICES ASSUME Init PROVE Promise!PromiseInit
    OBVIOUS
  <2>1. granted = {} /\ tokens = {} /\ profile = "ABSENT" BY DEF Init, granted
  <2>2. Licensed = {} BY <2>1 DEF Licensed
  <2>3. \A g \in GrantId : Standing(g) = "absent" BY <2>1 DEF Standing
  <2> QED BY <2>1, <2>2, <2>3 DEF Promise!PromiseInit
<1>2. Safe /\ OneSubject /\ [Next]_vars => [Promise!PromiseNext]_(Promise!promiseVars)
  BY PromiseStep
<1> QED BY <1>1, <1>2, SafeHolds, OneSubjectHolds, PTL DEF Spec, KeepsPromise, Promise!PromiseSpec
=============================================================================
