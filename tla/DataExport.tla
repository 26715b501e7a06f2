----------------------------- MODULE DataExport -----------------------------
(***************************************************************************)
(* Exporting a profile (remembrance-consent/app/export/router.py), which   *)
(* is a downstream feature of the kernel: it gets a token, validates it    *)
(* (consent/tokens.py), reads the tables and the audit chain, stores an    *)
(* archive, records DATA_EXPORTED and only then answers with a link.       *)
(* Several exports of one profile run at once, beside changes of its data, *)
(* a revocation and its cascade, and a rotation of the signing key; each   *)
(* may die at any step.  What is read and signed stands for the archive;   *)
(* the database is PostgreSQL.                                             *)
(*                                                                         *)
(* Time is in ticks of the service's clock, several to the second, because *)
(* tokens and links round to seconds.                                      *)
(***************************************************************************)
EXTENDS Integers, Sequences, FiniteSets

CONSTANTS
  Export,                 \* requests to export; their ids name tokens and archives
  Second,                 \* ticks to the second
  TTL,                    \* token_ttl_seconds
  MAX_TOKEN_TTL_SECONDS,
  CLOCK_SKEW_SECONDS,
  UrlTTL,                 \* export_url_ttl_seconds
  MaxChanges, MaxTime     \* bounds: changes of the profile, the last tick

ASSUME TimeAssumption ==
  /\ Second \in Nat \ {0} /\ TTL \in Nat \ {0} /\ MAX_TOKEN_TTL_SECONDS \in Nat
  /\ TTL <= MAX_TOKEN_TTL_SECONDS
  /\ CLOCK_SKEW_SECONDS \in Nat /\ UrlTTL \in Nat \ {0}
  /\ MaxChanges \in Nat /\ MaxTime \in Nat

VARIABLES
  now,
  changes,   \* how often the profile's tables were changed
  chain,     \* the profile's audit events: [type, of]
  revocation, \* of the grant: "none", "cascade" while tokens are swept, "complete"
  token,     \* what was issued for each export
  dead,      \* tokens whose row has revoked_at
  run,       \* the request handlers: [step, ...]
  storage,   \* stored archives
  link,      \* links answered with
  signing,   \* kid of the signing key
  known,     \* kids of the verification keys
  rotated,   \* when the key was rotated
  backend    \* storage_backend: where archives are put, and who makes their links

vars == <<now, changes, chain, revocation, token, dead, run, storage, link, signing, known, rotated,
          backend>>
keys == <<signing, known, rotated>>

None == [step |-> "none"]
Seconds(n) == n * Second
Truncated(t) == t - (t % Second)

Init ==
  /\ now = 0
  /\ changes = 0
  /\ chain = <<>>
  /\ revocation = "none"
  /\ token = <<>>
  /\ dead = {}
  /\ run = [e \in Export |-> None]
  /\ storage = <<>>
  /\ link = <<>>
  /\ signing = 1
  /\ known = {1}
  /\ rotated = 0
  /\ backend \in {"local", "s3"}

Event(type, e) == [type |-> type, of |-> e]
With(f, e, value) == [x \in DOMAIN f \cup {e} |-> IF x = e THEN value ELSE f[x]]

-----------------------------------------------------------------------------
(* One export                                                              *)

\* TokenIssuer.issue: all times in whole seconds.  The token of a verified
\* grantor names the grant.
Issued(t, grantor) ==
  [kid |-> signing, grant |-> grantor, at |-> t, iat |-> Truncated(t), exp |-> Truncated(t) + Seconds(TTL)]

\* TokenValidator.validate, as far as the token decides; nbf is iat.
TokenHolds(t, clock) ==
  /\ t.kid \in known
  /\ t.exp - t.iat <= Seconds(MAX_TOKEN_TTL_SECONDS) /\ t.exp > t.iat
  /\ clock <= t.exp + Seconds(CLOCK_SKEW_SECONDS)
  /\ clock + Seconds(CLOCK_SKEW_SECONDS) >= t.iat

\* authorize commits the token's row with AUTHORIZATION_GRANTED.
Authorize(e) ==
  /\ run[e].step = "none"
  /\ \E grantor \in BOOLEAN : token' = With(token, e, Issued(now, grantor))
  /\ chain' = Append(chain, Event("AUTHORIZATION_GRANTED", e))
  /\ run' = [run EXCEPT ![e] = [step |-> "validate"]]
  /\ UNCHANGED <<now, changes, revocation, dead, storage, link, keys, backend>>

Validate(e) ==
  /\ run[e].step = "validate"
  /\ TokenHolds(token[e], now) /\ e \notin dead
  /\ run' = [run EXCEPT ![e] = [step |-> "collect", at |-> now]]
  /\ UNCHANGED <<now, changes, chain, revocation, token, dead, storage, link, keys, backend>>

\* 503: the token was issued a moment ago and does not hold.
Refuse(e) ==
  /\ run[e].step = "validate"
  /\ ~TokenHolds(token[e], now) \/ e \in dead
  /\ run' = [run EXCEPT ![e] = [step |-> "refused"]]
  /\ UNCHANGED <<now, changes, chain, revocation, token, dead, storage, link, keys, backend>>

\* collect_documents; REPEATABLE READ keeps the chain as it is now for the
\* second read.
Collect(e) ==
  /\ run[e].step = "collect"
  /\ run' = [run EXCEPT ![e] = [step |-> "events", at |-> @.at, changes |-> changes, snapshot |-> chain]]
  /\ UNCHANGED <<now, changes, chain, revocation, token, dead, storage, link, keys, backend>>

\* Variant: READ COMMITTED, each statement sees what is committed by then.
\* ArchiveTrue fails.
LogSeenNow(e) == chain

LogSeen(e) == run[e].snapshot

\* iter_events and build_bundle, signed with the current key.
Build(e) ==
  /\ run[e].step = "events"
  /\ run' = [run EXCEPT ![e] = [step |-> "put", at |-> @.at,
               archive |-> [changes |-> @.changes, log |-> LogSeen(e), kid |-> signing]]]
  /\ UNCHANGED <<now, changes, chain, revocation, token, dead, storage, link, keys, backend>>

\* Variant: the link is answered with before the event is recorded.
\* LinksAudited fails.
PutAndReply(e) ==
  /\ run[e].step = "put"
  /\ storage' = With(storage, e, run[e].archive)
  /\ run' = [run EXCEPT ![e].step = "reply"]
  /\ UNCHANGED <<now, changes, chain, revocation, token, dead, link, keys, backend>>

Put(e) ==
  /\ run[e].step = "put"
  /\ storage' = With(storage, e, run[e].archive)
  /\ run' = [run EXCEPT ![e].step = "record"]
  /\ UNCHANGED <<now, changes, chain, revocation, token, dead, link, keys, backend>>

Record(e) ==
  /\ run[e].step = "record"
  /\ chain' = Append(chain, Event("DATA_EXPORTED", e))
  /\ run' = [run EXCEPT ![e].step = "reply"]
  /\ UNCHANGED <<now, changes, revocation, token, dead, storage, link, keys, backend>>

\* A link's lifetime is in whole seconds.
Link(e, from) ==
  [expires |-> Truncated(from + Seconds(UrlTTL)), at |-> run[e].at, signed |-> now]

\* Variant: every link's lifetime starts with the answer.  LinksOpen fails.
signed_url_now(e) == Link(e, now)

\* A link counts from the time the export began or, from S3Storage, which
\* ignores the time it is given, from the time it is signed.
signed_url(e) == Link(e, IF backend = "s3" THEN now ELSE run[e].at)

Reply(e) ==
  /\ run[e].step = "reply"
  /\ link' = With(link, e, signed_url(e))
  /\ run' = [run EXCEPT ![e] = [step |-> "done"]]
  /\ UNCHANGED <<now, changes, chain, revocation, token, dead, storage, keys, backend>>

\* The process dies, or storage or the database fails.
Dies(e) ==
  /\ run[e].step \notin {"none", "refused", "done", "died"}
  /\ run' = [run EXCEPT ![e] = [step |-> "died"]]
  /\ UNCHANGED <<now, changes, chain, revocation, token, dead, storage, link, keys, backend>>

\* What GET /export/download, or S3, does with the link of e.
Opens(e) == e \in DOMAIN link /\ now <= link[e].expires /\ e \in DOMAIN storage

-----------------------------------------------------------------------------
(* What goes on beside it                                                  *)

\* Any other unit of work on the profile: rows and their event together.
Change ==
  /\ changes < MaxChanges
  /\ changes' = changes + 1
  /\ chain' = Append(chain, Event("CHANGE", "profile"))
  /\ UNCHANGED <<now, revocation, token, dead, run, storage, link, keys, backend>>

\* Tokens that name the grant, those of exports included.
GrantTokens == {e \in DOMAIN token : token[e].grant}

Revoke ==
  /\ revocation = "none"
  /\ changes < MaxChanges
  /\ revocation' = "cascade"
  /\ dead' = dead \cup GrantTokens
  /\ changes' = changes + 1
  /\ chain' = Append(chain, Event("CHANGE", "profile"))
  /\ UNCHANGED <<now, token, run, storage, link, keys, backend>>

\* A run of the cascade kills tokens issued since.
SweepTokens ==
  /\ revocation = "cascade"
  /\ ~ GrantTokens \subseteq dead
  /\ dead' = dead \cup GrantTokens
  /\ UNCHANGED <<now, changes, chain, revocation, token, run, storage, link, keys, backend>>

\* The final check passes.
CompleteCascade ==
  /\ revocation = "cascade"
  /\ GrantTokens \subseteq dead
  /\ revocation' = "complete"
  /\ UNCHANGED <<now, changes, chain, token, dead, run, storage, link, keys, backend>>

\* README.md:308: a new key signs; the old one is kept for verification ...
Rotate ==
  /\ signing = 1
  /\ signing' = 2
  /\ known' = known \cup {2}
  /\ rotated' = now
  /\ UNCHANGED <<now, changes, chain, revocation, token, dead, run, storage, link, backend>>

\* Variant: it is removed when the lifetime configured for tokens, less the
\* allowance for skewed clocks, has passed.  TokensHonoured fails.
RetireEarly ==
  /\ signing = 2 /\ 1 \in known
  /\ now >= rotated + Seconds(TTL - CLOCK_SKEW_SECONDS)
  /\ known' = {2}
  /\ UNCHANGED <<now, changes, chain, revocation, token, dead, run, storage, link, signing, rotated, backend>>

\* ... until 300 s have passed.
Retire ==
  /\ signing = 2 /\ 1 \in known
  /\ now >= rotated + Seconds(MAX_TOKEN_TTL_SECONDS)
  /\ known' = {2}
  /\ UNCHANGED <<now, changes, chain, revocation, token, dead, run, storage, link, signing, rotated, backend>>

Tick ==
  /\ now < MaxTime
  /\ now' = now + 1
  /\ UNCHANGED <<changes, chain, revocation, token, dead, run, storage, link, keys, backend>>

Next ==
  \/ \E e \in Export :
       \/ Authorize(e) \/ Validate(e) \/ Refuse(e) \/ Collect(e) \/ Build(e)
       \/ Put(e) \/ Record(e) \/ Reply(e) \/ Dies(e)
  \/ Change \/ Revoke \/ SweepTokens \/ CompleteCascade
  \/ Rotate \/ Retire \/ Tick

Spec == Init /\ [][Next]_vars
-----------------------------------------------------------------------------
(* Properties                                                              *)

CountIn(log, type) == Cardinality({i \in DOMAIN log : log[i].type = type})
Recorded(log, type, e) == \E i \in DOMAIN log : log[i] = Event(type, e)

\* What is in an archive is the profile at one moment, with its history from
\* the beginning to that moment: tables and log agree, the log is a prefix of
\* the chain, and it names the authorization the export was made under.
ArchiveTrue ==
  \A e \in DOMAIN storage :
    LET log == storage[e].log
    IN /\ storage[e].changes = CountIn(log, "CHANGE")
       /\ log = SubSeq(chain, 1, Len(log))
       /\ Recorded(log, "AUTHORIZATION_GRANTED", e)

\* No link without its event and its archive, and one event at most for an
\* export, wherever a handler dies.
LinksAudited ==
  /\ \A e \in DOMAIN link : e \in DOMAIN storage /\ Recorded(chain, "DATA_EXPORTED", e)
  /\ \A i, j \in DOMAIN chain :
       chain[i].type = "DATA_EXPORTED" /\ chain[i] = chain[j] => i = j

\* The answer names expires_at, the time of the export plus UrlTTL: the link
\* opens until the second before.  A local link does not open after it; S3's
\* outlives it, by as long as the export took and no longer.
LinksOpen ==
  \A e \in DOMAIN link :
    LET expires_at == link[e].at + Seconds(UrlTTL)
        took == link[e].signed - link[e].at
        closes == IF backend = "s3" THEN expires_at + took ELSE expires_at
    IN /\ now <= expires_at - Second => Opens(e)
       /\ now > closes => ~Opens(e)

\* A token that has not expired is honoured by every validator with these keys
\* whose clock is at most the allowed skew from the issuer's, through a rotation
\* too; and no token is by one whose clock is further on than the longest
\* lifetime and the skew from when it was issued.
TokensHonoured ==
  \A e \in DOMAIN token :
    LET t == token[e]
        skew == Seconds(CLOCK_SKEW_SECONDS)
    IN /\ now < t.exp => \A clock \in now - skew .. now + skew : TokenHolds(t, clock)
       /\ now > t.at + Seconds(MAX_TOKEN_TTL_SECONDS) + skew => ~TokenHolds(t, now)

-----------------------------------------------------------------------------
(* What makes it true: the inductive invariant                             *)

LogEvent == [type : {"AUTHORIZATION_GRANTED", "DATA_EXPORTED", "CHANGE"}, of : Export \cup {"profile"}]
Archive == [changes : Nat, log : Seq(LogEvent), kid : {1, 2}]
Handler ==
  [step : {"none", "validate", "refused", "done", "died"}]
    \cup [step : {"collect"}, at : Nat]
    \cup [step : {"events"}, at : Nat, changes : Nat, snapshot : Seq(LogEvent)]
    \cup [step : {"put", "record", "reply"}, at : Nat, archive : Archive]

TypeOK ==
  /\ now \in Nat /\ changes \in Nat /\ rotated \in Nat
  /\ chain \in Seq(LogEvent)
  /\ DOMAIN run = Export /\ \A e \in Export : run[e] \in Handler
  /\ DOMAIN token \subseteq Export /\ DOMAIN storage \subseteq Export
  /\ \A e \in DOMAIN storage : storage[e] \in Archive
  /\ \A e \in DOMAIN link : link[e].at \in Nat /\ link[e].signed \in Nat
  /\ backend \in {"local", "s3"}

\* A log is the chain's beginning, agrees with the tables as they then were,
\* and has the authorization of e.
TrueLog(log, n, e) ==
  /\ Len(log) <= Len(chain) /\ \A i \in 1..Len(log) : log[i] = chain[i]
  /\ n = CountIn(log, "CHANGE")
  /\ Recorded(log, "AUTHORIZATION_GRANTED", e)

\* How far a handler has come is what it has left behind.
HandlerAgrees(e) ==
  /\ run[e].step \in {"validate", "collect"} => Recorded(chain, "AUTHORIZATION_GRANTED", e)
  /\ run[e].step = "events" => TrueLog(run[e].snapshot, run[e].changes, e)
  /\ run[e].step = "put" => TrueLog(run[e].archive.log, run[e].archive.changes, e)
  /\ run[e].step \in {"collect", "events", "put", "record", "reply"} => run[e].at <= now
  /\ run[e].step \in {"record", "reply"} => e \in DOMAIN storage
  /\ run[e].step = "reply" => Recorded(chain, "DATA_EXPORTED", e)
  /\ run[e].step \notin {"reply", "done", "died"} => ~Recorded(chain, "DATA_EXPORTED", e)

\* A key is removed when all it signed has expired.
KeysOutliveTokens ==
  /\ signing \in {1, 2} /\ signing \in known
  /\ signing = 1 => known = {1}
  /\ rotated <= now
  /\ 1 \notin known => now >= rotated + Seconds(MAX_TOKEN_TTL_SECONDS)
  /\ \A e \in DOMAIN token :
       LET t == token[e]
       IN /\ t.at \in Nat /\ t.at <= now
          /\ t.iat = Truncated(t.at) /\ t.exp = Truncated(t.at) + Seconds(TTL)
          /\ t.kid \in {1, 2} /\ t.kid <= signing
          /\ t.kid < signing => t.at <= rotated

\* A link is signed after its export began, and expires as its backend counts.
Linked(e) ==
  LET from == IF backend = "s3" THEN link[e].signed ELSE link[e].at
  IN /\ link[e].at <= link[e].signed
     /\ link[e].expires = Truncated(from + Seconds(UrlTTL))

Logged ==
  /\ changes = CountIn(chain, "CHANGE")
  /\ LinksAudited
  /\ \A e \in Export : HandlerAgrees(e)
  /\ \A e \in DOMAIN storage : TrueLog(storage[e].log, storage[e].changes, e)
  /\ \A e \in DOMAIN link : Linked(e)

Consistent == TypeOK /\ Logged /\ KeysOutliveTokens
=============================================================================
