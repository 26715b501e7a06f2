-------------------------- MODULE MemorialCareProofs --------------------------
(***************************************************************************)
(* What stays true of a memorial's care, for any number of accounts,       *)
(* grants, nominations, requests and visits: Sound is an inductive         *)
(* invariant.  The rows of three tables change alike, so what each change  *)
(* of one table must leave true is a lemma of its own.                     *)
(***************************************************************************)
EXTENDS MemorialCare, TLAPS

-----------------------------------------------------------------------------
(* Rows                                                                    *)

LEMMA PutGrant ==
  ASSUME NEW f, IsPartial(f, Grant, GrantRow), NEW k \in Grant, k \notin DOMAIN f, NEW r \in GrantRow
  PROVE  /\ IsPartial(Put(f, k, r), Grant, GrantRow) /\ DOMAIN Put(f, k, r) = DOMAIN f \cup {k}
         /\ Put(f, k, r)[k] = r /\ \A x \in DOMAIN f : Put(f, k, r)[x] = f[x]
  BY DEF Put, IsPartial

LEMMA PutNomination ==
  ASSUME NEW f, IsPartial(f, Nomination, NominationRow), NEW k \in Nomination, k \notin DOMAIN f, NEW r \in NominationRow
  PROVE  /\ IsPartial(Put(f, k, r), Nomination, NominationRow) /\ DOMAIN Put(f, k, r) = DOMAIN f \cup {k}
         /\ Put(f, k, r)[k] = r /\ \A x \in DOMAIN f : Put(f, k, r)[x] = f[x]
  BY DEF Put, IsPartial

LEMMA PutRequest ==
  ASSUME NEW f, IsPartial(f, Request, RequestRow), NEW k \in Request, k \notin DOMAIN f, NEW r \in RequestRow
  PROVE  /\ IsPartial(Put(f, k, r), Request, RequestRow) /\ DOMAIN Put(f, k, r) = DOMAIN f \cup {k}
         /\ Put(f, k, r)[k] = r /\ \A x \in DOMAIN f : Put(f, k, r)[x] = f[x]
  BY DEF Put, IsPartial

LEMMA StatusOfGrant ==
  ASSUME NEW f, IsPartial(f, Grant, GrantRow), NEW i \in DOMAIN f,
         NEW s \in {"pending", "verified", "revoked"}
  PROVE  /\ IsPartial(WithStatus(f, i, s), Grant, GrantRow) /\ DOMAIN WithStatus(f, i, s) = DOMAIN f
         /\ WithStatus(f, i, s)[i].status = s
         /\ \A x \in DOMAIN f : x # i => WithStatus(f, i, s)[x] = f[x]
  BY DEF WithStatus, IsPartial, GrantRow

LEMMA StatusOfNomination ==
  ASSUME NEW f, IsPartial(f, Nomination, NominationRow), NEW i \in DOMAIN f,
         NEW s \in {"offered", "accepted", "declined", "cancelled", "completed"}
  PROVE  /\ IsPartial(WithStatus(f, i, s), Nomination, NominationRow)
         /\ DOMAIN WithStatus(f, i, s) = DOMAIN f
         /\ WithStatus(f, i, s)[i].status = s
         /\ WithStatus(f, i, s)[i].from = f[i].from /\ WithStatus(f, i, s)[i].to = f[i].to
         /\ \A x \in DOMAIN f : x # i => WithStatus(f, i, s)[x] = f[x]
  BY DEF WithStatus, IsPartial, NominationRow

LEMMA StatusOfRequest ==
  ASSUME NEW f, IsPartial(f, Request, RequestRow), NEW i \in DOMAIN f,
         NEW s \in {"pending", "withdrawn", "declined"}
  PROVE  /\ IsPartial(WithStatus(f, i, s), Request, RequestRow)
         /\ DOMAIN WithStatus(f, i, s) = DOMAIN f
         /\ WithStatus(f, i, s)[i].status = s
         /\ \A x \in DOMAIN f : x # i => WithStatus(f, i, s)[x] = f[x]
  BY DEF WithStatus, IsPartial, RequestRow

LEMMA Tables ==
  ASSUME TypeOK
  PROVE  /\ IsPartial(grants, Grant, GrantRow) /\ IsPartial(nominations, Nomination, NominationRow)
         /\ IsPartial(requests, Request, RequestRow)
  BY DEF TypeOK

\* A memorial that has an owner is there, as is one with a row of any table.
LEMMA Present ==
  ASSUME TypeOK
  PROVE  /\ \A a \in Account : Owner(a) => there
         /\ there => memorial \in MemorialRow /\ memorial.owner \in Account
         /\ enabled \/ grants # Nothing \/ nominations # Nothing \/ requests # Nothing => there
         /\ DOMAIN Nothing = {}
  BY FounderAssumption DEF TypeOK, Owner, there, Gone, MemorialRow, Nothing

LEMMA RowIsThere == ASSUME NEW r \in MemorialRow PROVE r # Gone
  BY FounderAssumption DEF MemorialRow, Gone

-----------------------------------------------------------------------------
(* What an event adds to the history                                       *)

\* An authorization adds nothing to a history that shows a grant for it, a denial
\* nothing to any, and an erasure replaces all there was.
LEMMA ToldOfVisits ==
  ASSUME NEW k, NEW i
  PROVE  /\ Told(k, Event("denied", i)) = k
         /\ Told(k, Event("memorial_erased", i)) = Erased
  BY DEF Told, Event

LEMMA ToldOfAuthorization ==
  ASSUME NEW o, NEW gs, NEW d, NEW ns, NEW rs, NEW i, decide(gs, d, "family")
  PROVE  Told(Known(o, gs, d, ns, rs), Event("authorized", i)) = Known(o, gs, d, ns, rs)
  BY DEF Told, Known, Event

-----------------------------------------------------------------------------
(* A change of one table                                                   *)

LEMMA GrantsChange ==
  ASSUME Sound, there, UNCHANGED <<memorial, members, death, nominations, requests, visit>>,
         IsPartial(grants', Grant, GrantRow), AtMostOne(Current)', enabled' = TRUE,
         told' = Known(memorial.owner, grants', death, nominations, requests)
  PROVE  Sound'
<1>1. there' /\ Active' = Active /\ Pending' = Pending BY DEF there, Active, Pending
<1>2. TypeOK' BY <1>1 DEF Sound, TypeOK, AtMostOne
<1>3. PendingKeepsArchived' BY <1>1 DEF Sound, PendingKeepsArchived
<1>4. RequestsFollowOwner' BY <1>1 DEF Sound, RequestsFollowOwner
<1>5. SuccessorNamed' BY <1>1 DEF Sound, SuccessorNamed
<1>6. HistoryTruthful' BY <1>1 DEF HistoryTruthful
<1> QED BY <1>2, <1>3, <1>4, <1>5, <1>6 DEF Sound

LEMMA NominationsChange ==
  ASSUME Sound, there, UNCHANGED <<members, enabled, death, grants, requests, visit>>,
         memorial' \in MemorialRow, memorial'.owner = memorial.owner,
         memorial'.archived = memorial.archived,
         IsPartial(nominations', Nomination, NominationRow), AtMostOne(Active)',
         \A n \in Active' : /\ nominations'[n].from = memorial.owner
                            /\ nominations'[n].to # memorial.owner
                            /\ memorial'.successor = nominations'[n].to,
         Active' = {} => memorial'.successor = Nobody,
         told' = Known(memorial.owner, grants, death, nominations', requests)
  PROVE  Sound'
<1>1. there' BY RowIsThere DEF there
<1>2. Current' = Current /\ Pending' = Pending BY DEF Current, Pending
<1>3. TypeOK' BY <1>1, <1>2 DEF Sound, TypeOK, AtMostOne
<1>4. PendingKeepsArchived' BY <1>2 DEF Sound, PendingKeepsArchived
<1>5. RequestsFollowOwner' BY <1>2 DEF Sound, RequestsFollowOwner
<1>6. SuccessorNamed' BY DEF SuccessorNamed
<1>7. HistoryTruthful' BY <1>1 DEF HistoryTruthful
<1> QED BY <1>3, <1>4, <1>5, <1>6, <1>7 DEF Sound

LEMMA RequestsChange ==
  ASSUME Sound, there, UNCHANGED <<members, enabled, death, grants, nominations, visit>>,
         memorial' \in MemorialRow, memorial'.owner = memorial.owner,
         memorial'.successor = memorial.successor,
         IsPartial(requests', Request, RequestRow), AtMostOne(Pending)',
         \A r \in Pending' : requests'[r].by = memorial.owner,
         Pending' # {} => memorial'.archived,
         told' = Known(memorial.owner, grants, death, nominations, requests')
  PROVE  Sound'
<1>1. there' BY RowIsThere DEF there
<1>2. Current' = Current /\ Active' = Active BY DEF Current, Active
<1>3. TypeOK' BY <1>1, <1>2 DEF Sound, TypeOK, AtMostOne
<1>4. PendingKeepsArchived' BY DEF PendingKeepsArchived
<1>5. RequestsFollowOwner' BY <1>2 DEF Sound, RequestsFollowOwner
<1>6. SuccessorNamed' BY <1>2 DEF Sound, SuccessorNamed
<1>7. HistoryTruthful' BY <1>1 DEF HistoryTruthful
<1> QED BY <1>3, <1>4, <1>5, <1>6, <1>7 DEF Sound

-----------------------------------------------------------------------------
(* Sharing grants                                                          *)

LEMMA RecordGrantStep ==
  ASSUME Sound, NEW a \in Account, NEW g \in Grant, NEW audience \in {"family", "public"},
         NEW activation \in {"now", "after_death"}, record_grant(a, g, audience, activation)
  PROVE  Sound'
<1>1. TypeOK /\ there /\ told = Known(memorial.owner, grants, death, nominations, requests)
  BY Present DEF Sound, record_grant, HistoryTruthful
<1> DEFINE terms == [audience |-> audience, activation |-> activation, status |-> "pending"]
<1>2. terms \in GrantRow BY DEF GrantRow
<1>3. /\ Current = {} /\ g \notin DOMAIN grants /\ enabled' = TRUE
      /\ grants' = Put(grants, g, terms)
      /\ told' = Told(told, EventWith("grant_recorded", g, terms))
      /\ UNCHANGED <<memorial, members, death, nominations, requests, visit>>
  BY DEF record_grant, append_event
<1> HIDE DEF terms
<1>4. /\ IsPartial(grants', Grant, GrantRow) /\ DOMAIN grants' = DOMAIN grants \cup {g}
      /\ \A x \in DOMAIN grants : grants'[x] = grants[x]
  <2>1. IsPartial(grants, Grant, GrantRow) BY <1>1, Tables
  <2>2. g \in Grant /\ g \notin DOMAIN grants BY <1>3
  <2>3. /\ IsPartial(Put(grants, g, terms), Grant, GrantRow)
        /\ DOMAIN Put(grants, g, terms) = DOMAIN grants \cup {g}
        /\ \A x \in DOMAIN grants : Put(grants, g, terms)[x] = grants[x]
    BY <1>2, <2>1, <2>2, PutGrant
  <2> QED BY <1>3, <2>3
<1>5. AtMostOne(Current)' BY <1>3, <1>4 DEF Current, AtMostOne
<1>6. told' = Known(memorial.owner, grants', death, nominations, requests)
  BY <1>1, <1>3 DEF Told, Known, EventWith
<1> QED BY <1>1, <1>3, <1>4, <1>5, <1>6, GrantsChange

\* A grant that is there changes its status: no closed one is opened.
LEMMA GrantStatusStep ==
  ASSUME Sound, NEW g \in DOMAIN grants, NEW s \in {"verified", "revoked"},
         grants[g].status # "revoked",
         grants' = WithStatus(grants, g, s),
         append_event(Event(IF s = "verified" THEN "grant_verified" ELSE "grant_revoked", g)),
         UNCHANGED <<memorial, members, enabled, death, nominations, requests, visit>>
  PROVE  Sound'
<1>1. TypeOK BY DEF Sound
<1>2. grants # Nothing BY DEF Nothing
<1>3. there BY <1>1, <1>2, Present
<1>4. enabled' = TRUE BY <1>1, <1>2 DEF TypeOK
<1>5. told = Known(memorial.owner, grants, death, nominations, requests)
  BY <1>3 DEF Sound, HistoryTruthful
<1>6. /\ IsPartial(grants', Grant, GrantRow) /\ DOMAIN grants' = DOMAIN grants
      /\ \A x \in DOMAIN grants : x # g => grants'[x] = grants[x]
  BY <1>1, Tables, StatusOfGrant
<1>7. AtMostOne(Current)' BY <1>1, <1>6 DEF TypeOK, Current, AtMostOne
<1>8. told' = Known(memorial.owner, grants', death, nominations, requests)
  BY <1>5 DEF append_event, Told, Known, Event
<1> QED BY <1>3, <1>4, <1>6, <1>7, <1>8, GrantsChange

LEMMA VerifyStep == ASSUME Sound, NEW g \in Grant, verify_grant(g) PROVE Sound'
<1>1. /\ g \in DOMAIN grants /\ grants[g].status = "pending"
      /\ grants' = WithStatus(grants, g, "verified") /\ append_event(Event("grant_verified", g))
      /\ UNCHANGED <<memorial, members, enabled, death, nominations, requests, visit>>
  BY DEF verify_grant
<1> QED BY <1>1, GrantStatusStep

LEMMA RevokeStep ==
  ASSUME Sound, NEW by, NEW g \in Grant, revoke_grant(by, g) PROVE Sound'
<1>1. /\ g \in DOMAIN grants /\ grants[g].status # "revoked"
      /\ grants' = WithStatus(grants, g, "revoked") /\ append_event(Event("grant_revoked", g))
      /\ UNCHANGED <<memorial, members, enabled, death, nominations, requests, visit>>
  BY DEF revoke_grant, Current
<1> QED BY <1>1, GrantStatusStep

LEMMA DeathStep == ASSUME Sound, confirm_death \/ clear_death PROVE Sound'
<1>1. TypeOK /\ enabled BY DEF Sound, confirm_death, clear_death
<1>2. there BY <1>1, Present
<1>3. told = Known(memorial.owner, grants, death, nominations, requests)
  BY <1>2 DEF Sound, HistoryTruthful
<1>4. UNCHANGED <<memorial, members, enabled, grants, nominations, requests, visit>>
  BY DEF confirm_death, clear_death
<1>5. there' /\ Current' = Current /\ Active' = Active /\ Pending' = Pending
  BY <1>2, <1>4 DEF there, Current, Active, Pending
<1>6. death' \in BOOLEAN /\ told' = Known(memorial.owner, grants, death', nominations, requests)
  <2>1. CASE confirm_death
    <3>1. death' = TRUE /\ told' = Told(told, Event("death_confirmed", Nobody))
      BY <2>1 DEF confirm_death, append_event
    <3>2. Told(Known(memorial.owner, grants, death, nominations, requests),
               Event("death_confirmed", Nobody))
            = Known(memorial.owner, grants, TRUE, nominations, requests)
      BY DEF Told, Known, Event
    <3> QED BY <1>3, <3>1, <3>2
  <2>2. CASE clear_death
    <3>1. death' = FALSE /\ told' = Told(told, Event("death_confirmation_cleared", Nobody))
      BY <2>2 DEF clear_death, append_event
    <3>2. Told(Known(memorial.owner, grants, death, nominations, requests),
               Event("death_confirmation_cleared", Nobody))
            = Known(memorial.owner, grants, FALSE, nominations, requests)
      BY DEF Told, Known, Event
    <3> QED BY <1>3, <3>1, <3>2
  <2> QED BY <2>1, <2>2
<1>7. TypeOK' BY <1>1, <1>4, <1>5, <1>6 DEF TypeOK, AtMostOne
<1>8. PendingKeepsArchived' /\ RequestsFollowOwner' /\ SuccessorNamed'
  BY <1>4, <1>5 DEF Sound, PendingKeepsArchived, RequestsFollowOwner, SuccessorNamed
<1>9. HistoryTruthful' BY <1>4, <1>5, <1>6 DEF HistoryTruthful
<1> QED BY <1>7, <1>8, <1>9 DEF Sound

-----------------------------------------------------------------------------
(* Visitors                                                                *)

\* Only what a visit has read, or the history, changes; the history as it may.
LEMMA OnlyVisits ==
  ASSUME Sound, UNCHANGED rows, told' = told, visit' \in [Visit -> VisitRow]
  PROVE  Sound'
<1>1. there' = there /\ Current' = Current /\ Active' = Active /\ Pending' = Pending
  BY DEF rows, there, Current, Active, Pending
<1>2. TypeOK' BY <1>1 DEF Sound, TypeOK, AtMostOne, rows
<1>3. PendingKeepsArchived' /\ RequestsFollowOwner' /\ SuccessorNamed'
  BY <1>1 DEF Sound, PendingKeepsArchived, RequestsFollowOwner, SuccessorNamed, rows
<1>4. HistoryTruthful' BY <1>1 DEF Sound, HistoryTruthful, rows
<1> QED BY <1>2, <1>3, <1>4 DEF Sound

LEMMA VisitReadStep ==
  ASSUME Sound, NEW v \in Visit, NEW who, VisitRead(v, who) PROVE Sound'
<1>1. UNCHANGED <<rows, told>> BY DEF VisitRead
<1>2. [step |-> "authorize", role |-> role_of(who)] \in VisitRow BY DEF VisitRow, role_of
<1>3. visit' \in [Visit -> VisitRow] BY <1>2 DEF Sound, TypeOK, VisitRead
<1> QED BY <1>1, <1>3, OnlyVisits

\* What a visitor of the public may see, family may see.
LEMMA FamilyFirst ==
  ASSUME NEW gs, NEW confirmed, NEW role, decide(gs, confirmed, role)
  PROVE  decide(gs, confirmed, "family")
  BY DEF decide, permits

LEMMA AuthorizeStep == ASSUME Sound, NEW v \in Visit, authorize(v) PROVE Sound'
<1>1. UNCHANGED rows BY DEF authorize
<1>2. Idle \in VisitRow BY DEF VisitRow
<1>3. visit' \in [Visit -> VisitRow] BY <1>2 DEF Sound, TypeOK, authorize
<1>4. told' = told
  <2>1. CASE enabled /\ decide(grants, death, visit[v].role)
    <3>1. decide(grants, death, "family") BY <2>1, FamilyFirst
    <3>2. told = Known(memorial.owner, grants, death, nominations, requests)
      BY <2>1, Present DEF Sound, HistoryTruthful
    <3>3. told' = Told(told, Event("authorized", Nobody)) BY <2>1 DEF authorize, append_event
    <3> QED BY <3>1, <3>2, <3>3, ToldOfAuthorization
  <2>2. CASE ~(enabled /\ decide(grants, death, visit[v].role))
    <3>1. told' = Told(told, Event("denied", Nobody)) BY <2>2 DEF authorize, append_event
    <3> QED BY <3>1, ToldOfVisits
  <2> QED BY <2>1, <2>2
<1> QED BY <1>1, <1>3, <1>4, OnlyVisits

-----------------------------------------------------------------------------
(* Succession                                                              *)

LEMMA NominateStep ==
  ASSUME Sound, NEW a \in Account, NEW n \in Nomination, NEW to \in Account, nominate(a, n, to)
  PROVE  Sound'
<1>1. TypeOK /\ there /\ told = Known(memorial.owner, grants, death, nominations, requests)
  BY Present DEF Sound, nominate, HistoryTruthful
<1>2. memorial \in MemorialRow /\ memorial.owner = a BY <1>1, Present DEF nominate, Owner
<1> DEFINE terms == [from |-> a, to |-> to, status |-> "offered"]
<1>3. terms \in NominationRow /\ terms.from = a /\ terms.to = to BY DEF NominationRow
<1>4. /\ Active = {} /\ n \notin DOMAIN nominations /\ to # a
      /\ nominations' = Put(nominations, n, terms)
      /\ told' = Told(told, EventWith("successor_nominated", n, terms))
      /\ memorial' = [memorial EXCEPT !.successor = to]
      /\ UNCHANGED <<members, enabled, death, grants, requests, visit>>
  BY DEF nominate, append_event
<1>5. terms.status = "offered" OBVIOUS
<1> HIDE DEF terms
<1>6. /\ memorial' \in MemorialRow /\ memorial'.owner = memorial.owner
      /\ memorial'.archived = memorial.archived /\ memorial'.successor = to
  BY <1>2, <1>4 DEF MemorialRow
<1>7. /\ IsPartial(nominations', Nomination, NominationRow)
      /\ DOMAIN nominations' = DOMAIN nominations \cup {n} /\ nominations'[n] = terms
      /\ \A x \in DOMAIN nominations : nominations'[x] = nominations[x]
  <2>1. IsPartial(nominations, Nomination, NominationRow) BY <1>1, Tables
  <2>2. n \notin DOMAIN nominations BY <1>4
  <2>3. /\ IsPartial(Put(nominations, n, terms), Nomination, NominationRow)
        /\ DOMAIN Put(nominations, n, terms) = DOMAIN nominations \cup {n}
        /\ Put(nominations, n, terms)[n] = terms
        /\ \A x \in DOMAIN nominations : Put(nominations, n, terms)[x] = nominations[x]
    BY <1>3, <2>1, <2>2, PutNomination
  <2> QED BY <1>4, <2>3
<1>8. Active' = {n} BY <1>4, <1>5, <1>7 DEF Active
<1>9. AtMostOne(Active)' BY <1>8 DEF AtMostOne
<1>10. told' = Known(memorial.owner, grants, death, nominations', requests)
  BY <1>1, <1>4 DEF Told, Known, EventWith
<1>11. to # Nobody BY FounderAssumption
<1>12. /\ \A m \in Active' : /\ nominations'[m].from = memorial.owner
                             /\ nominations'[m].to # memorial.owner
                             /\ memorial'.successor = nominations'[m].to
       /\ Active' = {} => memorial'.successor = Nobody
  BY <1>2, <1>3, <1>4, <1>6, <1>7, <1>8, <1>11
<1> QED BY <1>1, <1>4, <1>6, <1>7, <1>9, <1>10, <1>12, NominationsChange

LEMMA AcceptStep == ASSUME Sound, NEW n \in Nomination, respond_accept(n) PROVE Sound'
<1>1. TypeOK BY DEF Sound
<1>2. n \in DOMAIN nominations /\ nominations[n].status = "offered" /\ n \in Active
  BY DEF respond_accept, Active
<1>3. there BY <1>1, <1>2, Present
<1>4. told = Known(memorial.owner, grants, death, nominations, requests) /\ memorial \in MemorialRow
  BY <1>1, <1>3, Present DEF Sound, HistoryTruthful
<1>5. /\ nominations' = WithStatus(nominations, n, "accepted")
      /\ told' = Told(told, Event("successor_accepted", n))
      /\ UNCHANGED <<memorial, members, enabled, death, grants, requests, visit>>
  BY DEF respond_accept, append_event
<1>6. /\ IsPartial(nominations', Nomination, NominationRow)
      /\ DOMAIN nominations' = DOMAIN nominations /\ nominations'[n].status = "accepted"
      /\ nominations'[n].from = nominations[n].from /\ nominations'[n].to = nominations[n].to
      /\ \A x \in DOMAIN nominations : x # n => nominations'[x] = nominations[x]
  <2>1. IsPartial(nominations, Nomination, NominationRow) BY <1>1, Tables
  <2>2. /\ IsPartial(WithStatus(nominations, n, "accepted"), Nomination, NominationRow)
        /\ DOMAIN WithStatus(nominations, n, "accepted") = DOMAIN nominations
        /\ WithStatus(nominations, n, "accepted")[n].status = "accepted"
        /\ WithStatus(nominations, n, "accepted")[n].from = nominations[n].from
        /\ WithStatus(nominations, n, "accepted")[n].to = nominations[n].to
        /\ \A x \in DOMAIN nominations : x # n => WithStatus(nominations, n, "accepted")[x] = nominations[x]
    BY <1>2, <2>1, StatusOfNomination
  <2> QED BY <1>5, <2>2
<1>7. Active' = Active BY <1>2, <1>6 DEF Active
<1>8. AtMostOne(Active)' BY <1>1, <1>7 DEF TypeOK, AtMostOne
<1>9. told' = Known(memorial.owner, grants, death, nominations', requests)
  BY <1>4, <1>5 DEF Told, Known, Event
<1>10. \A m \in Active : m \in DOMAIN nominations BY DEF Active
<1>11. /\ \A m \in Active' : /\ nominations'[m].from = memorial.owner
                             /\ nominations'[m].to # memorial.owner
                             /\ memorial'.successor = nominations'[m].to
       /\ Active' = {} => memorial'.successor = Nobody
  BY <1>2, <1>5, <1>6, <1>7, <1>10 DEF Sound, RequestsFollowOwner, SuccessorNamed
<1> QED BY <1>3, <1>4, <1>5, <1>6, <1>8, <1>9, <1>11, NominationsChange

\* An open nomination is closed, and the successor is removed with it.
LEMMA ClosesStep ==
  ASSUME Sound, NEW n \in Active, NEW s \in {"declined", "cancelled"},
         nominations' = WithStatus(nominations, n, s),
         memorial' = [memorial EXCEPT !.successor = Nobody],
         append_event(Event(IF s = "declined" THEN "successor_declined" ELSE "successor_cancelled", n)),
         UNCHANGED <<members, enabled, death, grants, requests, visit>>
  PROVE  Sound'
<1>1. TypeOK BY DEF Sound
<1>2. n \in DOMAIN nominations BY DEF Active
<1>3. there BY <1>1, <1>2, Present
<1>4. told = Known(memorial.owner, grants, death, nominations, requests) /\ memorial \in MemorialRow
  BY <1>1, <1>3, Present DEF Sound, HistoryTruthful
<1>5. /\ memorial' \in MemorialRow /\ memorial'.owner = memorial.owner
      /\ memorial'.archived = memorial.archived /\ memorial'.successor = Nobody
  BY <1>4 DEF MemorialRow
<1>6. /\ IsPartial(nominations', Nomination, NominationRow)
      /\ DOMAIN nominations' = DOMAIN nominations /\ nominations'[n].status = s
      /\ \A x \in DOMAIN nominations : x # n => nominations'[x] = nominations[x]
  <2>1. IsPartial(nominations, Nomination, NominationRow) BY <1>1, Tables
  <2>2. /\ IsPartial(WithStatus(nominations, n, s), Nomination, NominationRow)
        /\ DOMAIN WithStatus(nominations, n, s) = DOMAIN nominations
        /\ WithStatus(nominations, n, s)[n].status = s
        /\ \A x \in DOMAIN nominations : x # n => WithStatus(nominations, n, s)[x] = nominations[x]
    <3>1. CASE s = "declined" BY <1>2, <2>1, <3>1, StatusOfNomination
    <3>2. CASE s = "cancelled" BY <1>2, <2>1, <3>2, StatusOfNomination
    <3> QED BY <3>1, <3>2
  <2> QED BY <2>2
<1>7. Active' = {} BY <1>1, <1>6 DEF Active, TypeOK, AtMostOne
<1>8. AtMostOne(Active)' BY <1>7 DEF AtMostOne
<1>9. told' = Known(memorial.owner, grants, death, nominations', requests)
  <2>1. CASE s = "declined"
    <3>1. told' = Told(told, Event("successor_declined", n)) BY <2>1 DEF append_event
    <3> QED BY <1>4, <2>1, <3>1 DEF Told, Known, Event
  <2>2. CASE s = "cancelled"
    <3>1. told' = Told(told, Event("successor_cancelled", n)) BY <2>2 DEF append_event
    <3> QED BY <1>4, <2>2, <3>1 DEF Told, Known, Event
  <2> QED BY <2>1, <2>2
<1> QED BY <1>3, <1>5, <1>6, <1>7, <1>8, <1>9, NominationsChange

LEMMA DeclineNominationStep == ASSUME Sound, NEW n \in Nomination, respond_decline(n) PROVE Sound'
<1>1. /\ n \in Active /\ nominations' = WithStatus(nominations, n, "declined")
      /\ memorial' = [memorial EXCEPT !.successor = Nobody]
      /\ append_event(Event("successor_declined", n))
      /\ UNCHANGED <<members, enabled, death, grants, requests, visit>>
  BY DEF respond_decline
<1> QED BY <1>1, ClosesStep

LEMMA CancelStep ==
  ASSUME Sound, NEW a \in Account, NEW n \in Nomination, cancel(a, n) PROVE Sound'
<1>1. /\ n \in Active /\ nominations' = WithStatus(nominations, n, "cancelled")
      /\ memorial' = [memorial EXCEPT !.successor = Nobody]
      /\ append_event(Event("successor_cancelled", n))
      /\ UNCHANGED <<members, enabled, death, grants, requests, visit>>
  BY DEF cancel
<1> QED BY <1>1, ClosesStep

LEMMA TransferStep == ASSUME Sound, NEW n \in Nomination, transfer(n) PROVE Sound'
<1>1. TypeOK BY DEF Sound
<1>2. n \in DOMAIN nominations /\ nominations[n].status = "accepted" /\ Pending = {}
  BY DEF transfer
<1>3. there BY <1>1, <1>2, Present
<1>4. /\ told = Known(memorial.owner, grants, death, nominations, requests)
      /\ memorial \in MemorialRow /\ nominations[n].to \in Account
  BY <1>1, <1>2, <1>3, Present DEF Sound, HistoryTruthful, TypeOK, IsPartial, NominationRow
<1>5. /\ memorial' = [owner |-> nominations[n].to, archived |-> memorial.archived,
                      visibility |-> memorial.visibility, successor |-> Nobody]
      /\ members' \subseteq members
      /\ nominations' = WithStatus(nominations, n, "completed")
      /\ told' = Told(told, Event("ownership_transferred", n))
      /\ UNCHANGED <<enabled, death, grants, requests, visit>>
  BY DEF transfer, append_event
<1>6. /\ memorial' \in MemorialRow /\ memorial'.owner = nominations[n].to
      /\ memorial'.successor = Nobody
  BY <1>4, <1>5 DEF MemorialRow
<1>7. /\ IsPartial(nominations', Nomination, NominationRow)
      /\ DOMAIN nominations' = DOMAIN nominations /\ nominations'[n].status = "completed"
      /\ \A x \in DOMAIN nominations : x # n => nominations'[x] = nominations[x]
  <2>1. IsPartial(nominations, Nomination, NominationRow) BY <1>1, Tables
  <2>2. /\ IsPartial(WithStatus(nominations, n, "completed"), Nomination, NominationRow)
        /\ DOMAIN WithStatus(nominations, n, "completed") = DOMAIN nominations
        /\ WithStatus(nominations, n, "completed")[n].status = "completed"
        /\ \A x \in DOMAIN nominations : x # n => WithStatus(nominations, n, "completed")[x] = nominations[x]
    BY <1>2, <2>1, StatusOfNomination
  <2> QED BY <1>5, <2>2
<1>8. Active' = {} BY <1>1, <1>2, <1>7 DEF Active, TypeOK, AtMostOne
<1>9. Current' = Current /\ Pending' = {} BY <1>2, <1>5 DEF Current, Pending
<1>10. told' = Known(memorial'.owner, grants', death', nominations', requests')
  <2>1. Told(Known(memorial.owner, grants, death, nominations, requests),
             Event("ownership_transferred", n))
          = Known(nominations[n].to, grants, death, WithStatus(nominations, n, "completed"), requests)
    BY DEF Told, Known, Event
  <2> QED BY <1>4, <1>5, <1>6, <2>1
<1>11. there' BY <1>6, RowIsThere DEF there
<1>12. TypeOK' BY <1>1, <1>5, <1>6, <1>7, <1>8, <1>9, <1>11 DEF TypeOK, AtMostOne
<1>13. PendingKeepsArchived' /\ RequestsFollowOwner' /\ SuccessorNamed'
  BY <1>6, <1>8, <1>9 DEF PendingKeepsArchived, RequestsFollowOwner, SuccessorNamed
<1>14. HistoryTruthful' BY <1>10, <1>11 DEF HistoryTruthful
<1> QED BY <1>12, <1>13, <1>14 DEF Sound

-----------------------------------------------------------------------------
(* Requests for erasure, erasure, and the owner's other edits              *)

LEMMA RequestStep ==
  ASSUME Sound, NEW a \in Account, NEW r \in Request, request(a, r) PROVE Sound'
<1>1. TypeOK /\ there /\ told = Known(memorial.owner, grants, death, nominations, requests)
  BY Present DEF Sound, request, HistoryTruthful
<1>2. memorial \in MemorialRow /\ memorial.owner = a BY <1>1, Present DEF request, Owner
<1> DEFINE terms == [by |-> a, status |-> "pending"]
<1>3. terms \in RequestRow /\ terms.by = a /\ terms.status = "pending" BY DEF RequestRow
<1>4. /\ Pending = {} /\ r \notin DOMAIN requests
      /\ requests' = Put(requests, r, terms)
      /\ told' = Told(told, EventWith("erasure_requested", r, terms))
      /\ memorial' = [memorial EXCEPT !.archived = TRUE]
      /\ UNCHANGED <<members, enabled, death, grants, nominations, visit>>
  BY DEF request, append_event
<1> HIDE DEF terms
<1>5. /\ memorial' \in MemorialRow /\ memorial'.owner = memorial.owner
      /\ memorial'.archived = TRUE /\ memorial'.successor = memorial.successor
  BY <1>2, <1>4 DEF MemorialRow
<1>6. /\ IsPartial(requests', Request, RequestRow)
      /\ DOMAIN requests' = DOMAIN requests \cup {r} /\ requests'[r] = terms
      /\ \A x \in DOMAIN requests : requests'[x] = requests[x]
  <2>1. IsPartial(requests, Request, RequestRow) BY <1>1, Tables
  <2>2. r \notin DOMAIN requests BY <1>4
  <2>3. /\ IsPartial(Put(requests, r, terms), Request, RequestRow)
        /\ DOMAIN Put(requests, r, terms) = DOMAIN requests \cup {r}
        /\ Put(requests, r, terms)[r] = terms
        /\ \A x \in DOMAIN requests : Put(requests, r, terms)[x] = requests[x]
    <3>1. terms \in RequestRow BY <1>3
    <3> QED BY <2>1, <2>2, <3>1, PutRequest
  <2> QED BY <1>4, <2>3
<1>7. Pending' = {r} BY <1>3, <1>4, <1>6 DEF Pending
<1>8. AtMostOne(Pending)' BY <1>7 DEF AtMostOne
<1>9. told' = Known(memorial.owner, grants, death, nominations, requests')
  BY <1>1, <1>4 DEF Told, Known, EventWith
<1>10. \A x \in Pending' : requests'[x].by = memorial.owner BY <1>2, <1>3, <1>6, <1>7
<1> QED BY <1>1, <1>4, <1>5, <1>6, <1>8, <1>9, <1>10, RequestsChange

\* A pending request is closed.
LEMMA RequestCloses ==
  ASSUME Sound, NEW r \in Pending, NEW s \in {"withdrawn", "declined"},
         requests' = WithStatus(requests, r, s),
         append_event(Event(IF s = "withdrawn" THEN "erasure_withdrawn" ELSE "erasure_declined", r)),
         UNCHANGED <<memorial, members, enabled, death, grants, nominations, visit>>
  PROVE  Sound'
<1>1. TypeOK BY DEF Sound
<1>2. r \in DOMAIN requests BY DEF Pending
<1>3. there BY <1>1, <1>2, Present
<1>4. told = Known(memorial.owner, grants, death, nominations, requests) /\ memorial \in MemorialRow
  BY <1>1, <1>3, Present DEF Sound, HistoryTruthful
<1>5. /\ IsPartial(requests', Request, RequestRow)
      /\ DOMAIN requests' = DOMAIN requests /\ requests'[r].status = s
      /\ \A x \in DOMAIN requests : x # r => requests'[x] = requests[x]
  BY <1>1, <1>2, Tables, StatusOfRequest
<1>6. Pending' = {} BY <1>1, <1>5 DEF Pending, TypeOK, AtMostOne
<1>7. AtMostOne(Pending)' BY <1>6 DEF AtMostOne
<1>8. told' = Known(memorial.owner, grants, death, nominations, requests')
  BY <1>4 DEF append_event, Told, Known, Event
<1> QED BY <1>3, <1>4, <1>5, <1>6, <1>7, <1>8, RequestsChange

LEMMA WithdrawStep ==
  ASSUME Sound, NEW a \in Account, NEW r \in Request, withdraw(a, r) PROVE Sound'
<1>1. /\ r \in Pending /\ requests' = WithStatus(requests, r, "withdrawn")
      /\ append_event(Event("erasure_withdrawn", r))
      /\ UNCHANGED <<memorial, members, enabled, death, grants, nominations, visit>>
  BY DEF withdraw
<1> QED BY <1>1, RequestCloses

LEMMA DeclineStep == ASSUME Sound, NEW r \in Request, decline(r) PROVE Sound'
<1>1. /\ r \in Pending /\ requests' = WithStatus(requests, r, "declined")
      /\ append_event(Event("erasure_declined", r))
      /\ UNCHANGED <<memorial, members, enabled, death, grants, nominations, visit>>
  BY DEF decline
<1> QED BY <1>1, RequestCloses

LEMMA EraseStep == ASSUME Sound, erase PROVE Sound'
<1>1. /\ memorial' = Gone /\ members' = {} /\ enabled' = FALSE /\ death' = FALSE
      /\ grants' = Nothing /\ nominations' = Nothing /\ requests' = Nothing
      /\ told' = Told(told, Event("memorial_erased", Nobody)) /\ visit' = visit
  BY DEF erase, append_event
<1>2. ~there' /\ Current' = {} /\ Active' = {} /\ Pending' = {}
  BY <1>1 DEF there, Current, Active, Pending, Nothing
<1>3. told' = Erased BY <1>1, ToldOfVisits
<1>4. IsPartial(Nothing, Grant, GrantRow) /\ IsPartial(Nothing, Nomination, NominationRow)
      /\ IsPartial(Nothing, Request, RequestRow)
  BY DEF IsPartial, Nothing
<1>5. TypeOK' BY <1>1, <1>2, <1>4 DEF Sound, TypeOK, AtMostOne
<1>6. PendingKeepsArchived' /\ RequestsFollowOwner' BY <1>2 DEF PendingKeepsArchived, RequestsFollowOwner
<1>7. SuccessorNamed' BY <1>1, <1>2 DEF SuccessorNamed, Gone
<1>8. HistoryTruthful' BY <1>2, <1>3 DEF HistoryTruthful
<1> QED BY <1>5, <1>6, <1>7, <1>8 DEF Sound

LEMMA EditStep ==
  ASSUME Sound, NEW a \in Account, Owner(a),
         memorial' \in MemorialRow, memorial'.owner = memorial.owner,
         memorial'.successor = memorial.successor, memorial'.archived \/ Pending = {}
           \/ memorial'.archived = memorial.archived,
         members' \subseteq Account,
         UNCHANGED <<enabled, death, grants, nominations, requests, told, visit>>
  PROVE  Sound'
<1>1. there BY Present DEF Sound
<1>2. there' BY RowIsThere DEF there
<1>3. Current' = Current /\ Active' = Active /\ Pending' = Pending BY DEF Current, Active, Pending
<1>4. TypeOK' BY <1>2, <1>3 DEF Sound, TypeOK, AtMostOne
<1>5. PendingKeepsArchived' BY <1>3 DEF Sound, PendingKeepsArchived
<1>6. RequestsFollowOwner' BY <1>3 DEF Sound, RequestsFollowOwner
<1>7. SuccessorNamed' BY <1>3 DEF Sound, SuccessorNamed
<1>8. HistoryTruthful' BY <1>1, <1>2 DEF Sound, HistoryTruthful
<1> QED BY <1>4, <1>5, <1>6, <1>7, <1>8 DEF Sound

LEMMA EditsStep ==
  ASSUME Sound, NEW a \in Account,
         \/ \E visibility \in {"public", "family", "private"} : edit(a, visibility)
         \/ \E archive \in BOOLEAN : settings(a, archive)
         \/ \E b \in Account, add \in BOOLEAN : member(a, b, add)
  PROVE  Sound'
<1>1. Owner(a) /\ UNCHANGED <<enabled, death, grants, nominations, requests, told, visit>>
  BY DEF edit, settings, member, commit_owned
<1>2. memorial \in MemorialRow /\ members \subseteq Account BY <1>1, Present DEF Sound, TypeOK
<1>3. CASE \E visibility \in {"public", "family", "private"} : edit(a, visibility)
  <2>1. PICK visibility \in {"public", "family", "private"} :
          memorial' = [memorial EXCEPT !.visibility = visibility] /\ members' = members
    BY <1>3 DEF edit
  <2>2. /\ memorial' \in MemorialRow /\ memorial'.owner = memorial.owner
        /\ memorial'.successor = memorial.successor /\ memorial'.archived = memorial.archived
    BY <1>2, <2>1 DEF MemorialRow
  <2> QED BY <1>1, <1>2, <2>1, <2>2, EditStep
<1>4. CASE \E archive \in BOOLEAN : settings(a, archive)
  <2>1. PICK archive \in BOOLEAN :
          /\ archive \/ Pending = {}
          /\ memorial' = [memorial EXCEPT !.archived = archive] /\ members' = members
    BY <1>4 DEF settings
  <2>2. /\ memorial' \in MemorialRow /\ memorial'.owner = memorial.owner
        /\ memorial'.successor = memorial.successor /\ memorial'.archived = archive
    BY <1>2, <2>1 DEF MemorialRow
  <2> QED BY <1>1, <1>2, <2>1, <2>2, EditStep
<1>5. CASE \E b \in Account, add \in BOOLEAN : member(a, b, add)
  <2>1. memorial' = memorial /\ members' \subseteq Account BY <1>2, <1>5 DEF member
  <2> QED BY <1>1, <1>2, <2>1, EditStep
<1> QED BY <1>3, <1>4, <1>5

-----------------------------------------------------------------------------
(* The theorems                                                            *)

LEMMA Start == Init => Sound
<1> SUFFICES ASSUME Init PROVE Sound OBVIOUS
<1>1. memorial \in MemorialRow /\ memorial.owner = founder
  BY FounderAssumption DEF Init, MemorialRow
<1>2. there BY <1>1, RowIsThere DEF there
<1>3. Current = {} /\ Active = {} /\ Pending = {} BY DEF Init, Current, Active, Pending, Nothing
<1>4. IsPartial(Nothing, Grant, GrantRow) /\ IsPartial(Nothing, Nomination, NominationRow)
      /\ IsPartial(Nothing, Request, RequestRow)
  BY DEF IsPartial, Nothing
<1>5. visit \in [Visit -> VisitRow] BY DEF Init, VisitRow
<1>6. TypeOK BY <1>1, <1>2, <1>3, <1>4, <1>5 DEF Init, TypeOK, AtMostOne
<1>7. PendingKeepsArchived /\ RequestsFollowOwner BY <1>3 DEF PendingKeepsArchived, RequestsFollowOwner
<1>8. SuccessorNamed BY <1>3 DEF Init, SuccessorNamed
<1>9. HistoryTruthful BY <1>1, <1>2 DEF Init, HistoryTruthful, Untold
<1> QED BY <1>6, <1>7, <1>8, <1>9 DEF Sound

LEMMA OwnerStep == ASSUME Sound, NEW a \in Account, OwnerActs(a) PROVE Sound'
<1>1. CASE \E g \in Grant, audience \in {"family", "public"}, activation \in {"now", "after_death"} :
             record_grant(a, g, audience, activation)
  BY <1>1, RecordGrantStep
<1>2. CASE \E n \in Nomination : cancel(a, n) \/ \E to \in Account : nominate(a, n, to)
  BY <1>2, CancelStep, NominateStep
<1>3. CASE \E r \in Request : request(a, r) \/ withdraw(a, r) BY <1>3, RequestStep, WithdrawStep
<1>4. CASE \/ \E visibility \in {"public", "family", "private"} : edit(a, visibility)
           \/ \E archive \in BOOLEAN : settings(a, archive)
           \/ \E b \in Account, add \in BOOLEAN : member(a, b, add)
  BY <1>4, EditsStep
<1> QED BY <1>1, <1>2, <1>3, <1>4 DEF OwnerActs

LEMMA OperatorStep == ASSUME Sound, OperatorActs PROVE Sound'
  BY VerifyStep, DeathStep, TransferStep, DeclineStep, EraseStep DEF OperatorActs

LEMMA SoundStep == ASSUME Sound, [Next]_vars PROVE Sound'
<1>1. CASE UNCHANGED vars
  <2>1. UNCHANGED rows /\ told' = told /\ visit' = visit BY <1>1 DEF vars
  <2> QED BY <2>1, OnlyVisits DEF Sound, TypeOK
<1>2. CASE \E a \in Account : OwnerActs(a) BY <1>2, OwnerStep
<1>3. CASE \E by \in Account \cup {"operator"}, g \in Grant : revoke_grant(by, g)
  BY <1>3, RevokeStep
<1>4. CASE OperatorActs BY <1>4, OperatorStep
<1>5. CASE \E n \in Nomination : respond_accept(n) \/ respond_decline(n)
  BY <1>5, AcceptStep, DeclineNominationStep
<1>6. CASE \E v \in Visit : \/ \E who \in Account \cup {Anonymous} : VisitRead(v, who)
                            \/ authorize(v)
  BY <1>6, VisitReadStep, AuthorizeStep
<1> QED BY <1>1, <1>2, <1>3, <1>4, <1>5, <1>6 DEF Next

\* Whatever owners, nominees, visitors and the operator do, in any order, the
\* rows of a memorial and its history fit together as Sound says.
THEOREM SoundHolds == Spec => []Sound
<1>1. Init => Sound BY Start
<1>2. Sound /\ [Next]_vars => Sound' BY SoundStep
<1> QED BY <1>1, <1>2, PTL DEF Spec

\* No page is shown again while a request to erase it is pending (app.py:683).
THEOREM PendingKeepsArchivedHolds == Spec => []PendingKeepsArchived
<1>1. Sound => PendingKeepsArchived BY DEF Sound
<1> QED BY <1>1, SoundHolds, PTL

\* Every open request and nomination is the present owner's, through any number
\* of transfers of care (succession.py:93-118).
THEOREM RequestsFollowOwnerHolds == Spec => []RequestsFollowOwner
<1>1. Sound => RequestsFollowOwner BY DEF Sound
<1> QED BY <1>1, SoundHolds, PTL

\* The consent history can be read in place of the tables (consent.py:64-87).
THEOREM HistoryTruthfulHolds == Spec => []HistoryTruthful
<1>1. Sound => HistoryTruthful BY DEF Sound
<1> QED BY <1>1, SoundHolds, PTL
===============================================================================
