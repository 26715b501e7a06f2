--------------------------- MODULE ConsentDecision ---------------------------
(***************************************************************************)
(* The pure half of the consent kernel (app/consent/kernel.py): who an     *)
(* actor is to a profile, which grant an action may run under, and the     *)
(* decision that `decide` takes on a snapshot of the profile.              *)
(*                                                                         *)
(* A snapshot ("facts", kernel.py ProfileFacts) is a record                *)
(*   known      the profile row exists                                     *)
(*   dead       date_of_death is set                                       *)
(*   successors the designated successor accounts                          *)
(*   grants     a function from the ids of the profile's grants to         *)
(*              GrantFacts; ids are ordered as (granted_at, id) orders the *)
(*              rows                                                       *)
(* An account and its verified email are one value: an account outside     *)
(* Emailed has none, so it can be named on a grant and never acknowledge.  *)
(***************************************************************************)
EXTENDS Naturals, FiniteSets

CONSTANTS
  Actor,      \* authenticated accounts (auth.py Actor)
  Admin,      \* those whose token carries the admin role
  Human,      \* those of kind HUMAN; the others are services
  Emailed,    \* those whose identity provider verified an email
  GrantId,    \* ids of the profile's consent grants, ordered
  AllNamed    \* required_acknowledgments = None: every named beneficiary

ASSUME ActorAssumption ==
  Admin \subseteq Actor /\ Human \subseteq Actor /\ Emailed \subseteq Actor
ASSUME GrantIdAssumption == GrantId \subseteq Nat \ {0}
ASSUME AllNamedAssumption == AllNamed \notin Nat

NoGrant == 0

GrantorType == {"SELF_PRE_NEED", "ESTATE"}
PurposeScope == {"MEMORIAL_VIEW", "VOICE_SYNTHESIS", "SCRIPT_GENERATION"}
RightsPurpose == {"DATA_PORTABILITY", "ERASURE"}

\* What a caller may write as its purpose: a declared purpose, a banned one
\* (is_banned_purpose), or something that parses as neither.
BannedPurpose == "FINANCIAL"
UnknownPurpose == "UNPARSED"
PurposeCode == PurposeScope \cup RightsPurpose \cup {BannedPurpose, UnknownPurpose}

SYNTHESIS_ACTIONS == {"INITIATE_VOICE_SYNTHESIS", "GENERATE_SCRIPT", "DELIVER_MESSAGE"}
USE_ACTIONS == SYNTHESIS_ACTIONS \cup {"VIEW_MEMORIAL"}
RIGHTS_ACTIONS == {"EXPORT_DATA", "DELETE_VOICE_MODEL"}
ConsentAction == USE_ACTIONS \cup RIGHTS_ACTIONS

ACTION_PURPOSE ==
  [a \in ConsentAction |->
     CASE a = "VIEW_MEMORIAL"            -> "MEMORIAL_VIEW"
       [] a = "INITIATE_VOICE_SYNTHESIS" -> "VOICE_SYNTHESIS"
       [] a = "DELIVER_MESSAGE"          -> "VOICE_SYNTHESIS"
       [] a = "GENERATE_SCRIPT"          -> "SCRIPT_GENERATION"
       [] a = "EXPORT_DATA"              -> "DATA_PORTABILITY"
       [] a = "DELETE_VOICE_MODEL"       -> "ERASURE"]

PUBLIC_DENIAL_REASONS ==
  {"UNKNOWN_PURPOSE", "PURPOSE_ACTION_MISMATCH", "NON_HUMAN_ACTOR"}

-----------------------------------------------------------------------------
(* Relationships                                                           *)

roles_on(actor, f, gs) ==
  {"PUBLIC"}
    \cup {r \in {"ADMIN"}       : actor \in Admin}
    \cup {r \in {"SUCCESSOR"}   : actor \in f.successors}
    \cup {r \in {"OWNER"}       : \E g \in gs : f.grants[g].grantor = actor}
    \cup {r \in {"BENEFICIARY"} : actor \in Emailed /\ \E g \in gs : actor \in f.grants[g].named}

\* roles_for without a grant: the actor's roles on any grant of the profile.
roles_for(actor, f) == roles_on(actor, f, DOMAIN f.grants)

\* Once the death is recorded, a pre-need grantor is the deceased.
is_deceased_actor(actor, f) ==
  /\ f.dead
  /\ \E g \in DOMAIN f.grants :
        f.grants[g].type = "SELF_PRE_NEED" /\ f.grants[g].grantor = actor

may_use(action, actor, grant, f) ==
  \/ action = "VIEW_MEMORIAL"
  \/ IF grant.type = "SELF_PRE_NEED" THEN actor \in f.successors
                                     ELSE actor = grant.grantor

quorum_satisfied(named, acknowledged, required) ==
  Cardinality(named \cap acknowledged) >=
    IF required = AllNamed THEN Cardinality(named) ELSE required

-----------------------------------------------------------------------------
(* One grant                                                               *)

\* How far a grant got before it failed; kernel.py _GRANT_STAGES.
GrantStage ==
  [ROLE_NOT_PERMITTED |-> 0, GRANT_REVOKED |-> 1, GRANT_INACTIVE |-> 2,
   AUTHORITY_NOT_VERIFIED |-> 3, PURPOSE_NOT_IN_SCOPE |-> 4,
   ACKNOWLEDGMENT_QUORUM_NOT_MET |-> 5]

\* The checks of _grant_failure that fail, and the one it reports: the first.
failed_checks(action, purpose, actor, grant, f) ==
  {r \in {"ROLE_NOT_PERMITTED"} : ~may_use(action, actor, grant, f)}
    \cup {r \in {"GRANT_REVOKED"} : grant.revoked}
    \cup {r \in {"GRANT_INACTIVE"} : ~grant.active}
    \cup {r \in {"AUTHORITY_NOT_VERIFIED"} : ~grant.verified}
    \cup {r \in {"PURPOSE_NOT_IN_SCOPE"} : purpose \notin grant.scope}
    \cup {r \in {"ACKNOWLEDGMENT_QUORUM_NOT_MET"} :
            ~quorum_satisfied(grant.named, grant.acknowledged, grant.required)}

grant_permits(action, purpose, actor, grant, f) ==
  failed_checks(action, purpose, actor, grant, f) = {}

grant_failure(action, purpose, actor, grant, f) ==
  LET failed == failed_checks(action, purpose, actor, grant, f) IN
  CHOOSE r \in failed : \A s \in failed : GrantStage[r] <= GrantStage[s]

-----------------------------------------------------------------------------
(* The decision                                                            *)

Allowed(g, related) ==
  [allowed |-> TRUE, reason |-> "NONE", grant |-> g, related |-> related]
Denied(reason, related) ==
  [allowed |-> FALSE, reason |-> reason, grant |-> NoGrant, related |-> related]

First(gs) == CHOOSE g \in gs : \A h \in gs : g <= h

\* Variant: a revoked grant gives its grantor no rights.  RightsOutliveConsent
\* fails.
decide_rights_standing(actor, f, related) ==
  LET owned == {g \in DOMAIN f.grants :
                  f.grants[g].verified /\ ~f.grants[g].revoked /\ f.grants[g].grantor = actor}
  IN IF actor \in Admin \/ actor \in f.successors THEN Allowed(NoGrant, TRUE)
     ELSE IF owned # {} THEN Allowed(First(owned), TRUE)
     ELSE Denied("ROLE_NOT_PERMITTED", related)

\* Rights actions: an administrator, a successor, or the grantor of a
\* verified grant (revoked or not).
decide_rights(actor, f, related) ==
  LET owned == {g \in DOMAIN f.grants : f.grants[g].verified /\ f.grants[g].grantor = actor}
  IN IF actor \in Admin \/ actor \in f.successors THEN Allowed(NoGrant, TRUE)
     ELSE IF owned # {} THEN Allowed(First(owned), TRUE)
     ELSE Denied("ROLE_NOT_PERMITTED", related)

\* Variant: pre-need consent taking effect in life.  UseTokenBacked fails.
decide_use_in_life(action, purpose, actor, f, related) ==
  LET permitting == {g \in DOMAIN f.grants : grant_permits(action, purpose, actor, f.grants[g], f)}
  IN IF permitting # {} THEN Allowed(First(permitting), related)
     ELSE Denied("NO_GRANT", related)

\* Use actions: the first grant that passes every check, else the failure of
\* the grant that got furthest.
decide_use(action, purpose, actor, f, related) ==
  LET permitting == {g \in DOMAIN f.grants : grant_permits(action, purpose, actor, f.grants[g], f)}
      failures == {grant_failure(action, purpose, actor, f.grants[g], f) : g \in DOMAIN f.grants}
      furthest == CHOOSE r \in failures : \A s \in failures : GrantStage[s] <= GrantStage[r]
  IN IF ~f.dead THEN Denied("SUBJECT_NOT_DECEASED", related)
     ELSE IF DOMAIN f.grants = {} THEN Denied("NO_GRANT", related)
     ELSE IF permitting # {} THEN Allowed(First(permitting), related)
     ELSE Denied(furthest, related)

decide(action, purpose, actor, f) ==
  LET related == f.known /\ roles_for(actor, f) # {"PUBLIC"} IN
  IF purpose \in {UnknownPurpose, BannedPurpose} THEN Denied("UNKNOWN_PURPOSE", FALSE)
  ELSE IF ACTION_PURPOSE[action] # purpose THEN Denied("PURPOSE_ACTION_MISMATCH", FALSE)
  ELSE IF ~f.known THEN Denied("PROFILE_NOT_FOUND", FALSE)
  ELSE IF actor \notin Human THEN Denied("NON_HUMAN_ACTOR", related)
  ELSE IF is_deceased_actor(actor, f) THEN Denied("DECEASED_CANNOT_ACT", related)
  ELSE IF action \notin USE_ACTIONS THEN decide_rights(actor, f, related)
  ELSE decide_use(action, purpose, actor, f, related)

\* Variant: everyone gets the precise reason.  StrangersLearnNothing fails.
disclosed_reason_precise(d) == d.reason

\* What the caller is told: strangers get the generic reason.
disclosed_reason(d) ==
  IF d.allowed \/ d.related \/ d.reason \in PUBLIC_DENIAL_REASONS THEN d.reason
  ELSE "NOT_AUTHORIZED"
=============================================================================
