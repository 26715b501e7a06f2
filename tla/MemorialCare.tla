---------------------------- MODULE MemorialCare ----------------------------
(***************************************************************************)
(* The care of one memorial (remembrance/consent.py, succession.py,        *)
(* erasure.py and the handlers of app.py that call them): sharing grants   *)
(* reviewed by the operator, the nomination of a successor and the         *)
(* transfer to one, the owner's request for erasure, and visitors.         *)
(*                                                                         *)
(* Every change is one SQLite write transaction (BEGIN IMMEDIATE, or the   *)
(* first UPDATE of a handler that rechecks ownership in commit_owned), so  *)
(* it is one action.  A visit is two: the page is looked up with plain     *)
(* reads, and the consent decision is a write transaction of its own.      *)
(* The example memorial (demo) is left out.                                *)
(***************************************************************************)
CONSTANTS
  Account,      \* user accounts
  founder,      \* the account that created the memorial
  Anonymous,    \* a visitor who is not signed in
  Grant,        \* ids of sharing grants
  Nomination,   \* ids of nominations
  Request,      \* ids of erasure requests
  Visit         \* requests of visitors being served

Nobody == "nobody"
Elsewhere == "elsewhere"   \* an e-mail address of no account

ASSUME FounderAssumption ==
  founder \in Account /\ Nobody \notin Account /\ Elsewhere \notin Account
ASSUME AnonymousAssumption == Anonymous \notin Account

VARIABLES
  memorial,     \* its row: owner, archived, visibility and successor (or Gone)
  members,      \* accounts with family access
  enabled,      \* the memorial has a consent_controls row
  death,        \* death_confirmed_at is set
  grants,       \* consent_grants
  nominations,  \* succession_requests
  requests,     \* erasure_requests
  told,         \* what the consent history says, read from its start
  visit         \* what each visit has read

rows == <<memorial, members, enabled, death, grants, nominations, requests>>
vars == <<rows, told, visit>>

Idle == [step |-> "idle"]

Nothing == [x \in {} |-> x]
Put(f, k, r) == [x \in DOMAIN f \cup {k} |-> IF x = k THEN r ELSE f[x]]

Active == {n \in DOMAIN nominations : nominations[n].status \in {"offered", "accepted"}}
Current == {g \in DOMAIN grants : grants[g].status # "revoked"}
Pending == {r \in DOMAIN requests : requests[r].status = "pending"}

Gone == [owner |-> Nobody, archived |-> FALSE, visibility |-> "private", successor |-> Nobody]
there == memorial # Gone
Owner(a) == memorial.owner = a

-----------------------------------------------------------------------------
(* The decision (consent.py decide)                                        *)

permits(grant, confirmed, role) ==
  /\ grant.status = "verified"
  /\ grant.activation = "after_death" => confirmed
  /\ grant.audience = "family" => role = "family"

\* current_grant: at most one grant is not revoked.
decide(gs, confirmed, role) ==
  \E g \in DOMAIN gs : permits(gs[g], confirmed, role)

-----------------------------------------------------------------------------
(* The consent history                                                     *)

WithStatus(f, id, status) == [f EXCEPT ![id].status = status]

\* What a history tells that tells of no erasure, and of no authorization it
\* shows no grant for.
Known(owner, gs, confirmed, ns, rs) ==
  [owner |-> owner, grants |-> gs, death |-> confirmed, nominations |-> ns, requests |-> rs,
   erased |-> FALSE, doubtful |-> FALSE]
Untold(a) == Known(a, Nothing, FALSE, Nothing, Nothing)
Erased == [Untold(Nobody) EXCEPT !.erased = TRUE]

\* What a reader of the history knows after event e who knew k before.  The
\* terms of a grant, a nomination and a request are in the event.
Told(k, e) ==
  CASE e.type = "grant_recorded" -> [k EXCEPT !.grants = Put(@, e.id, e.terms)]
    [] e.type = "grant_verified" -> [k EXCEPT !.grants = WithStatus(@, e.id, "verified")]
    [] e.type = "grant_revoked"  -> [k EXCEPT !.grants = WithStatus(@, e.id, "revoked")]
    [] e.type = "death_confirmed" -> [k EXCEPT !.death = TRUE]
    [] e.type = "death_confirmation_cleared" -> [k EXCEPT !.death = FALSE]
    [] e.type = "successor_nominated" -> [k EXCEPT !.nominations = Put(@, e.id, e.terms)]
    [] e.type = "successor_accepted"  -> [k EXCEPT !.nominations = WithStatus(@, e.id, "accepted")]
    [] e.type = "successor_declined"  -> [k EXCEPT !.nominations = WithStatus(@, e.id, "declined")]
    [] e.type = "successor_cancelled" -> [k EXCEPT !.nominations = WithStatus(@, e.id, "cancelled")]
    [] e.type = "ownership_transferred" ->
         [k EXCEPT !.nominations = WithStatus(@, e.id, "completed"),
                   !.owner = k.nominations[e.id].to]
    [] e.type = "erasure_requested" -> [k EXCEPT !.requests = Put(@, e.id, e.terms)]
    [] e.type = "erasure_withdrawn" -> [k EXCEPT !.requests = WithStatus(@, e.id, "withdrawn")]
    [] e.type = "erasure_declined"  -> [k EXCEPT !.requests = WithStatus(@, e.id, "declined")]
    [] e.type = "memorial_erased" -> Erased
    [] e.type = "authorized" ->
         [k EXCEPT !.doubtful = @ \/ ~decide(k.grants, k.death, "family")]
    [] e.type = "denied" -> k

Event(type, id) == [type |-> type, id |-> id]
EventWith(type, id, terms) == [type |-> type, id |-> id, terms |-> terms]

\* append_event, in the transaction of the change it records.
append_event(e) == told' = Told(told, e)

\* A new memorial, or one from before succession was reviewed: the successor
\* its owner had saved, by e-mail address, is retained without a nomination.
Init ==
  /\ \E saved \in Account \cup {Nobody, Elsewhere} :
       memorial = [owner |-> founder, archived |-> FALSE, visibility |-> "private",
                   successor |-> saved]
  /\ members = {}
  /\ enabled = FALSE /\ death = FALSE
  /\ grants = Nothing /\ nominations = Nothing /\ requests = Nothing
  /\ told = Untold(founder)
  /\ visit = [v \in Visit |-> Idle]

-----------------------------------------------------------------------------
(* Sharing grants (consent.py)                                             *)

record_grant(a, g, audience, activation) ==
  /\ Owner(a)
  /\ Current = {} /\ g \notin DOMAIN grants
  /\ enabled' = TRUE
  /\ LET terms == [audience |-> audience, activation |-> activation, status |-> "pending"] IN
     /\ grants' = Put(grants, g, terms)
     /\ append_event(EventWith("grant_recorded", g, terms))
  /\ UNCHANGED <<memorial, members, death, nominations, requests, visit>>

verify_grant(g) ==
  /\ g \in DOMAIN grants /\ grants[g].status = "pending"
  /\ grants' = WithStatus(grants, g, "verified")
  /\ append_event(Event("grant_verified", g))
  /\ UNCHANGED <<memorial, members, enabled, death, nominations, requests, visit>>

\* By the owner, or by the operator in a dispute.
revoke_grant(by, g) ==
  /\ by = "operator" \/ Owner(by)
  /\ g \in Current
  /\ grants' = WithStatus(grants, g, "revoked")
  /\ append_event(Event("grant_revoked", g))
  /\ UNCHANGED <<memorial, members, enabled, death, nominations, requests, visit>>

confirm_death ==
  /\ enabled /\ ~death
  /\ death' = TRUE
  /\ append_event(Event("death_confirmed", Nobody))
  /\ UNCHANGED <<memorial, members, enabled, grants, nominations, requests, visit>>

clear_death ==
  /\ enabled /\ death
  /\ death' = FALSE
  /\ append_event(Event("death_confirmation_cleared", Nobody))
  /\ UNCHANGED <<memorial, members, enabled, grants, nominations, requests, visit>>

-----------------------------------------------------------------------------
(* Visitors (app.py get_memorial, sharing_allowed; consent.py authorize)   *)

role_of(who) == IF who \in members THEN "family" ELSE "public"

\* The three plain reads (row, family access, control), taken as one.  The page
\* is found and open to this visitor; if sharing is under review the
\* consent decision comes next, else the page is served.
VisitRead(v, who) ==
  /\ visit[v] = Idle
  /\ there /\ ~Owner(who)
  /\ ~memorial.archived
  /\ memorial.visibility = "public" \/ (memorial.visibility = "family" /\ role_of(who) = "family")
  /\ enabled
  /\ visit' = [visit EXCEPT ![v] = [step |-> "authorize", role |-> role_of(who)]]
  /\ UNCHANGED <<rows, told>>

\* Variant: a grant awaiting review counts.  HistoryTruthful fails.
authorize_unreviewed(v) ==
  /\ visit[v].step = "authorize"
  /\ visit' = [visit EXCEPT ![v] = Idle]
  /\ append_event(Event(IF enabled /\ Current # {} THEN "authorized" ELSE "denied", Nobody))
  /\ UNCHANGED rows

\* One write transaction: decide on what is there now, and record it.
authorize(v) ==
  /\ visit[v].step = "authorize"
  /\ visit' = [visit EXCEPT ![v] = Idle]
  /\ append_event(Event(IF enabled /\ decide(grants, death, visit[v].role)
                        THEN "authorized" ELSE "denied", Nobody))
  /\ UNCHANGED rows

-----------------------------------------------------------------------------
(* Succession (succession.py)                                              *)

nominate(a, n, to) ==
  /\ Owner(a)
  /\ to # a
  /\ Active = {} /\ n \notin DOMAIN nominations
  /\ LET terms == [from |-> a, to |-> to, status |-> "offered"] IN
     /\ nominations' = Put(nominations, n, terms)
     /\ append_event(EventWith("successor_nominated", n, terms))
  /\ memorial' = [memorial EXCEPT !.successor = to]
  /\ UNCHANGED <<members, enabled, death, grants, requests, visit>>

respond_accept(n) ==
  /\ n \in DOMAIN nominations /\ nominations[n].status = "offered"
  /\ Owner(nominations[n].from)
  /\ nominations' = WithStatus(nominations, n, "accepted")
  /\ append_event(Event("successor_accepted", n))
  /\ UNCHANGED <<memorial, members, enabled, death, grants, requests, visit>>

\* A nominee may decline after accepting.
respond_decline(n) ==
  /\ n \in Active
  /\ Owner(nominations[n].from)
  /\ nominations' = WithStatus(nominations, n, "declined")
  /\ memorial' = [memorial EXCEPT !.successor = Nobody]
  /\ append_event(Event("successor_declined", n))
  /\ UNCHANGED <<members, enabled, death, grants, requests, visit>>

\* Variant: the nominated successor stays on the memorial.  Sound fails.
cancel_keeping(a, n) ==
  /\ n \in Active /\ nominations[n].from = a
  /\ Owner(a)
  /\ nominations' = WithStatus(nominations, n, "cancelled")
  /\ append_event(Event("successor_cancelled", n))
  /\ UNCHANGED <<memorial, members, enabled, death, grants, requests, visit>>

cancel(a, n) ==
  /\ n \in Active /\ nominations[n].from = a
  /\ Owner(a)
  /\ nominations' = WithStatus(nominations, n, "cancelled")
  /\ memorial' = [memorial EXCEPT !.successor = Nobody]
  /\ append_event(Event("successor_cancelled", n))
  /\ UNCHANGED <<members, enabled, death, grants, requests, visit>>

\* Variant: care is transferred over a pending erasure request.
\* RequestsFollowOwner fails.
transfer_regardless(n) ==
  /\ n \in DOMAIN nominations /\ nominations[n].status = "accepted"
  /\ Owner(nominations[n].from)
  /\ LET taker == nominations[n].to  former == nominations[n].from IN
     /\ memorial' = [owner |-> taker, archived |-> memorial.archived,
                     visibility |-> memorial.visibility, successor |-> Nobody]
     /\ members' = members \ {former}
     /\ append_event(Event("ownership_transferred", n))
  /\ nominations' = WithStatus(nominations, n, "completed")
  /\ UNCHANGED <<enabled, death, grants, requests, visit>>

\* The operator completes an accepted nomination.
transfer(n) ==
  /\ n \in DOMAIN nominations /\ nominations[n].status = "accepted"
  /\ Owner(nominations[n].from)
  /\ Pending = {}
  /\ LET taker == nominations[n].to  former == nominations[n].from IN
     /\ memorial' = [owner |-> taker, archived |-> memorial.archived,
                     visibility |-> memorial.visibility, successor |-> Nobody]
     /\ members' = members \ {former}
     /\ append_event(Event("ownership_transferred", n))
  /\ nominations' = WithStatus(nominations, n, "completed")
  /\ UNCHANGED <<enabled, death, grants, requests, visit>>

-----------------------------------------------------------------------------
(* Requests for erasure, and erasure (erasure.py)                          *)

request(a, r) ==
  /\ Owner(a)
  /\ Pending = {} /\ r \notin DOMAIN requests
  /\ LET terms == [by |-> a, status |-> "pending"] IN
     /\ requests' = Put(requests, r, terms)
     /\ append_event(EventWith("erasure_requested", r, terms))
  /\ memorial' = [memorial EXCEPT !.archived = TRUE]
  /\ UNCHANGED <<members, enabled, death, grants, nominations, visit>>

withdraw(a, r) ==
  /\ Owner(a)
  /\ r \in Pending
  /\ requests' = WithStatus(requests, r, "withdrawn")
  /\ append_event(Event("erasure_withdrawn", r))
  /\ UNCHANGED <<memorial, members, enabled, death, grants, nominations, visit>>

decline(r) ==
  /\ r \in Pending
  /\ requests' = WithStatus(requests, r, "declined")
  /\ append_event(Event("erasure_declined", r))
  /\ UNCHANGED <<memorial, members, enabled, death, grants, nominations, visit>>

\* With or without a request, whatever is pending (see ErasureLedger).
\* Every row of the memorial goes; the consent history stays.
erase ==
  /\ there
  /\ memorial' = Gone
  /\ members' = {}
  /\ enabled' = FALSE /\ death' = FALSE
  /\ grants' = Nothing /\ nominations' = Nothing /\ requests' = Nothing
  /\ append_event(Event("memorial_erased", Nobody))
  /\ UNCHANGED visit

-----------------------------------------------------------------------------
(* The owner's other edits (app.py): each rechecks ownership when it       *)
(* commits, and none of them is in the consent history.                    *)

commit_owned(a) ==
  /\ Owner(a)
  /\ UNCHANGED <<enabled, death, grants, nominations, requests, told, visit>>

edit(a, visibility) ==
  /\ commit_owned(a)
  /\ memorial' = [memorial EXCEPT !.visibility = visibility]
  /\ UNCHANGED members

\* Variant: restoring is not refused.  PendingKeepsArchived fails.
settings_unchecked(a, archive) ==
  /\ commit_owned(a)
  /\ memorial' = [memorial EXCEPT !.archived = archive]
  /\ UNCHANGED members

\* Restoring an archived memorial is refused while its erasure is pending.
settings(a, archive) ==
  /\ commit_owned(a)
  /\ archive \/ Pending = {}
  /\ memorial' = [memorial EXCEPT !.archived = archive]
  /\ UNCHANGED members

member(a, b, add) ==
  /\ commit_owned(a)
  /\ members' = IF add THEN members \cup {b} ELSE members \ {b}
  /\ UNCHANGED memorial

-----------------------------------------------------------------------------
OwnerActs(a) ==
  \/ \E g \in Grant, audience \in {"family", "public"}, activation \in {"now", "after_death"} :
       record_grant(a, g, audience, activation)
  \/ \E n \in Nomination : cancel(a, n) \/ \E to \in Account : nominate(a, n, to)
  \/ \E r \in Request : request(a, r) \/ withdraw(a, r)
  \/ \E visibility \in {"public", "family", "private"} : edit(a, visibility)
  \/ \E archive \in BOOLEAN : settings(a, archive)
  \/ \E b \in Account, add \in BOOLEAN : member(a, b, add)

OperatorActs ==
  \/ \E g \in Grant : verify_grant(g)
  \/ confirm_death
  \/ clear_death
  \/ \E n \in Nomination : transfer(n)
  \/ \E r \in Request : decline(r)
  \/ erase

Next ==
  \/ \E a \in Account : OwnerActs(a)
  \/ \E by \in Account \cup {"operator"}, g \in Grant : revoke_grant(by, g)
  \/ OperatorActs
  \/ \E n \in Nomination : respond_accept(n) \/ respond_decline(n)
  \/ \E v \in Visit :
       \/ \E who \in Account \cup {Anonymous} : VisitRead(v, who)
       \/ authorize(v)

Spec == Init /\ [][Next]_vars
-----------------------------------------------------------------------------
(* Properties                                                              *)

IsPartial(f, S, R) == DOMAIN f \subseteq S /\ f \in [DOMAIN f -> R]
AtMostOne(S) == \A x, y \in S : x = y

MemorialRow == [owner : Account, archived : BOOLEAN,
                visibility : {"public", "family", "private"},
                successor : Account \cup {Nobody, Elsewhere}]
GrantRow == [audience : {"family", "public"}, activation : {"now", "after_death"},
             status : {"pending", "verified", "revoked"}]
NominationRow == [from : Account, to : Account,
                  status : {"offered", "accepted", "declined", "cancelled", "completed"}]
RequestRow == [by : Account, status : {"pending", "withdrawn", "declined"}]
VisitRow == {Idle} \cup [step : {"authorize"}, role : {"family", "public"}]

\* The types of the rows; of each kind at most one is current, although ids
\* of closed ones pile up; and rows refer to a memorial that exists.
TypeOK ==
  /\ memorial \in {Gone} \cup MemorialRow
  /\ enabled \in BOOLEAN /\ death \in BOOLEAN
  /\ members \subseteq Account
  /\ IsPartial(grants, Grant, GrantRow)
  /\ IsPartial(nominations, Nomination, NominationRow)
  /\ IsPartial(requests, Request, RequestRow)
  /\ AtMostOne(Current) /\ AtMostOne(Active) /\ AtMostOne(Pending)
  /\ grants # Nothing \/ death => enabled
  /\ ~there => members = {} /\ ~enabled /\ nominations = Nothing /\ requests = Nothing
  /\ visit \in [Visit -> VisitRow]

\* While an erasure request is pending the memorial stays archived: nothing
\* its owner does in between, in whatever order it commits, shows it again.
PendingKeepsArchived == Pending # {} => memorial.archived

\* The pending erasure request, and the open nomination, are the present
\* owner's: a transfer of care never leaves behind a request the new owner
\* did not make.
RequestsFollowOwner ==
  /\ \A r \in Pending : requests[r].by = memorial.owner
  /\ \A n \in Active : nominations[n].from = memorial.owner /\ nominations[n].to # memorial.owner

\* The successor shown on the memorial is the nominee of the open nomination.
\* Once there has been a nomination it is nobody without an open one: what
\* was saved before the first does not come back.
SuccessorNamed ==
  /\ \A n \in Active : memorial.successor = nominations[n].to
  /\ Active = {} /\ nominations # Nothing => memorial.successor = Nobody

\* The consent history tells all there is to know: read from its start it
\* gives the grants, the death, the nominations, the requests and the owner
\* as the tables have them, until it tells of the erasure; and no visitor was
\* authorized whom it shows no grant for.
HistoryTruthful ==
  told = IF there THEN Known(memorial.owner, grants, death, nominations, requests) ELSE Erased

\* The inductive invariant: the properties above need each other, and that of
\* each kind of request at most one is open.
Sound ==
  /\ TypeOK
  /\ PendingKeepsArchived
  /\ RequestsFollowOwner
  /\ SuccessorNamed
  /\ HistoryTruthful
=============================================================================
