--------------------------- MODULE ConsentPromise ---------------------------
(***************************************************************************)
(* What the consent kernel promises the people who use it, with no         *)
(* requests, locks or rows: a grant is given, verified and at any moment   *)
(* taken back for good; a use of the deceased's likeness is licensed only  *)
(* under a verified grant and only once the subject has died; and taking   *)
(* the grant back ends every licence it ever gave in the same instant.     *)
(***************************************************************************)
CONSTANT GrantId

VARIABLES
  standing,   \* of each grant: "absent", "unverified", "verified" or "revoked"
  licensed,   \* grants under which some use token is usable now
  dead        \* the subject's death is recorded

promiseVars == <<standing, licensed, dead>>

PromiseInit ==
  /\ standing = [g \in GrantId |-> "absent"]
  /\ licensed = {}
  /\ dead = FALSE

\* An estate grant may come with the profile, death included.
Give(g) ==
  /\ standing[g] = "absent"
  /\ standing' = [standing EXCEPT ![g] = "unverified"]
  /\ dead' \in {dead, TRUE}
  /\ UNCHANGED licensed

Verify(g) ==
  /\ standing[g] = "unverified"
  /\ standing' = [standing EXCEPT ![g] = "verified"]
  /\ UNCHANGED <<licensed, dead>>

License(g) ==
  /\ dead /\ standing[g] = "verified"
  /\ licensed' = licensed \cup {g}
  /\ UNCHANGED <<standing, dead>>

TakeBack(g) ==
  /\ standing[g] \in {"unverified", "verified"}
  /\ standing' = [standing EXCEPT ![g] = "revoked"]
  /\ licensed' = licensed \ {g}
  /\ UNCHANGED dead

Die ==
  /\ dead' = TRUE
  /\ UNCHANGED <<standing, licensed>>

PromiseNext ==
  \/ \E g \in GrantId : Give(g) \/ Verify(g) \/ License(g) \/ TakeBack(g)
  \/ Die

PromiseSpec == PromiseInit /\ [][PromiseNext]_promiseVars
=============================================================================
