--------------------------- MODULE DataExportProofs ---------------------------
(***************************************************************************)
(* What DataExport checks on one export is proved here for any number of   *)
(* them, any lifetimes and any number of changes, without end of time.     *)
(***************************************************************************)
EXTENDS DataExport, FiniteSetTheorems, TLAPS

-----------------------------------------------------------------------------
(* Times                                                                   *)

\* Products of the constants, so that no later step multiplies.
LEMMA Spans ==
  /\ Second \in Nat /\ Second > 0
  /\ Seconds(TTL) \in Nat /\ Seconds(TTL) > 0
  /\ Seconds(MAX_TOKEN_TTL_SECONDS) \in Nat /\ Seconds(TTL) <= Seconds(MAX_TOKEN_TTL_SECONDS)
  /\ Seconds(CLOCK_SKEW_SECONDS) \in Nat
  /\ Seconds(UrlTTL) \in Nat
<1> USE TimeAssumption
<1>1. \A m, n \in Nat : m * n \in Nat OBVIOUS
<1>2. \A l, m, n \in Nat : l <= m => l * n <= m * n OBVIOUS
<1>3. \A m, n \in Nat : m > 0 /\ n > 0 => m * n > 0 OBVIOUS
<1> QED BY <1>1, <1>2, <1>3 DEF Seconds

LEMMA Cut ==
  ASSUME NEW t \in Nat
  PROVE  Truncated(t) \in Int /\ Truncated(t) <= t /\ t < Truncated(t) + Second
<1>1. Second \in Nat /\ Second > 0 BY Spans
<1>2. t % Second \in 0 .. Second - 1 BY <1>1
<1> QED BY <1>1, <1>2 DEF Truncated

-----------------------------------------------------------------------------
(* The chain                                                               *)

\* What one more event adds to a count.
LEMMA CountAppend ==
  ASSUME NEW log \in Seq(LogEvent), NEW ev \in LogEvent, NEW type
  PROVE  /\ CountIn(log, type) \in Nat
         /\ CountIn(Append(log, ev), type) = CountIn(log, type) + (IF ev.type = type THEN 1 ELSE 0)
<1> DEFINE n == Len(log)
           S == {i \in DOMAIN log : log[i].type = type}
           T == {i \in DOMAIN Append(log, ev) : Append(log, ev)[i].type = type}
<1>1. n \in Nat /\ DOMAIN log = 1..n /\ DOMAIN Append(log, ev) = 1..n+1 OBVIOUS
<1>2. Append(log, ev)[n + 1] = ev /\ \A i \in 1..n : Append(log, ev)[i] = log[i] OBVIOUS
<1>3. IsFiniteSet(S) /\ n + 1 \notin S
  <2>1. S \subseteq 1..n /\ IsFiniteSet(1..n) BY <1>1, FS_Interval
  <2>2. n + 1 \notin 1..n BY <1>1
  <2> HIDE DEF n, S
  <2> QED BY <2>1, <2>2, FS_Subset
<1>4. Cardinality(S) \in Nat
  <2> HIDE DEF S
  <2> QED BY <1>3, FS_CardinalityType
<1>5. T = IF ev.type = type THEN S \cup {n + 1} ELSE S
  <2>1. \A i : i \in 1..n+1 <=> i \in 1..n \/ i = n + 1 BY <1>1
  <2> HIDE DEF n
  <2> QED BY <1>1, <1>2, <2>1
<1>6. Cardinality(S \cup {n + 1}) = Cardinality(S) + 1
  <2> HIDE DEF S, n
  <2> QED BY <1>3, FS_AddElement
<1> HIDE DEF S, T
<1>7. CountIn(log, type) = Cardinality(S) /\ CountIn(Append(log, ev), type) = Cardinality(T)
  BY DEF CountIn, S, T
<1> QED BY <1>4, <1>5, <1>6, <1>7

\* What one more event leaves as it was, and what it records.
LEMMA Appended ==
  ASSUME TypeOK, NEW ev \in LogEvent, chain' = Append(chain, ev)
  PROVE  /\ chain' \in Seq(LogEvent)
         /\ \A type, e : Recorded(chain', type, e) <=> Recorded(chain, type, e) \/ ev = Event(type, e)
         /\ \A log, n, e : log \in Seq(LogEvent) /\ TrueLog(log, n, e) => TrueLog(log, n, e)'
<1>1. chain \in Seq(LogEvent) BY DEF TypeOK
<1>2. chain' \in Seq(LogEvent) BY <1>1
<1>3. /\ Len(chain) \in Nat /\ Len(chain') = Len(chain) + 1
      /\ DOMAIN chain = 1..Len(chain) /\ DOMAIN chain' = 1..Len(chain) + 1
      /\ chain'[Len(chain) + 1] = ev /\ \A i \in 1..Len(chain) : chain'[i] = chain[i]
  BY <1>1
<1>4. ASSUME NEW type, NEW e
      PROVE  Recorded(chain', type, e) <=> Recorded(chain, type, e) \/ ev = Event(type, e)
  <2>1. \A i : i \in 1..Len(chain)+1 <=> i \in 1..Len(chain) \/ i = Len(chain) + 1 BY <1>3
  <2> QED BY <1>3, <2>1 DEF Recorded
<1>5. ASSUME NEW log \in Seq(LogEvent), NEW n, NEW e, TrueLog(log, n, e)
      PROVE  TrueLog(log, n, e)'
  <2>1. Len(log) \in Nat OBVIOUS
  <2>2. \A i \in 1..Len(log) : i \in 1..Len(chain) BY <1>3, <1>5, <2>1 DEF TrueLog
  <2>3. Len(log) <= Len(chain') /\ \A i \in 1..Len(log) : log[i] = chain'[i]
    BY <1>3, <1>5, <2>1, <2>2 DEF TrueLog
  <2> QED BY <1>5, <2>3 DEF TrueLog, CountIn, Recorded
<1> QED BY <1>2, <1>4, <1>5

\* A step that appends nothing leaves every log as true as it was.
LEMMA LogKept ==
  ASSUME chain' = chain
  PROVE  /\ \A type, e : Recorded(chain', type, e) <=> Recorded(chain, type, e)
         /\ \A log, n, e : TrueLog(log, n, e)' <=> TrueLog(log, n, e)
  BY DEF Recorded, TrueLog, CountIn

-----------------------------------------------------------------------------
(* Keys and tokens                                                         *)

LEMMA KeysStart == Init => KeysOutliveTokens
  BY DEF Init, KeysOutliveTokens

\* Only time goes on.
LEMMA KeysKept ==
  ASSUME TypeOK, KeysOutliveTokens, UNCHANGED <<token, keys>>, now' \in Nat, now <= now'
  PROVE  KeysOutliveTokens'
<1>1. now \in Nat /\ rotated \in Nat BY DEF TypeOK
<1>2. Seconds(MAX_TOKEN_TTL_SECONDS) \in Nat BY Spans
<1>3. \A e \in DOMAIN token : token[e].at \in Nat BY DEF KeysOutliveTokens
<1> QED BY <1>1, <1>2, <1>3 DEF KeysOutliveTokens, keys, Truncated

LEMMA KeysStep ==
  ASSUME TypeOK, KeysOutliveTokens, [Next]_vars
  PROVE  KeysOutliveTokens'
<1>1. now \in Nat /\ rotated \in Nat BY DEF TypeOK
<1>2. Seconds(MAX_TOKEN_TTL_SECONDS) \in Nat BY Spans
<1>3. ASSUME NEW e \in Export, Authorize(e) PROVE KeysOutliveTokens'
  <2>1. PICK grantor \in BOOLEAN : token' = With(token, e, Issued(now, grantor)) BY <1>3 DEF Authorize
  <2>2. /\ DOMAIN token' = DOMAIN token \cup {e} /\ token'[e] = Issued(now, grantor)
        /\ \A f \in DOMAIN token \ {e} : token'[f] = token[f]
    BY <2>1 DEF With
  <2>3. UNCHANGED <<now, keys>> BY <1>3 DEF Authorize
  <2>4. /\ Issued(now, grantor).at = now /\ Issued(now, grantor).kid = signing
        /\ Issued(now, grantor).iat = Truncated(now)
        /\ Issued(now, grantor).exp = Truncated(now) + Seconds(TTL)
    BY DEF Issued
  <2>5. signing \in {1, 2} BY DEF KeysOutliveTokens
  <2>6. ASSUME NEW f \in DOMAIN token'
        PROVE  /\ token'[f].at \in Nat /\ token'[f].at <= now
               /\ token'[f].iat = Truncated(token'[f].at)
               /\ token'[f].exp = Truncated(token'[f].at) + Seconds(TTL)
               /\ token'[f].kid \in {1, 2} /\ token'[f].kid <= signing
               /\ token'[f].kid < signing => token'[f].at <= rotated
    <3>1. CASE f = e BY <3>1, <2>2, <2>4, <2>5, <1>1
    <3>2. CASE f # e BY <3>2, <2>2 DEF KeysOutliveTokens
    <3> QED BY <3>1, <3>2
  <2> QED BY <2>3, <2>6 DEF KeysOutliveTokens, keys, Truncated, Seconds
<1>4. CASE Rotate
  <2>1. UNCHANGED <<now, token>> /\ signing = 1 /\ signing' = 2 /\ known' = known \cup {2} /\ rotated' = now
    BY <1>4 DEF Rotate
  <2>2. 1 \in known' BY <2>1 DEF KeysOutliveTokens
  <2> QED BY <1>1, <2>1, <2>2 DEF KeysOutliveTokens, Truncated, Seconds
<1>5. CASE Retire
  <2>1. /\ UNCHANGED <<now, token, signing, rotated>> /\ signing = 2 /\ known' = {2}
        /\ now >= rotated + Seconds(MAX_TOKEN_TTL_SECONDS)
    BY <1>5 DEF Retire
  <2> QED BY <1>1, <2>1 DEF KeysOutliveTokens, Truncated, Seconds
<1>6. CASE Tick BY <1>1, <1>6, KeysKept DEF Tick
<1>7. ASSUME UNCHANGED <<now, token, keys>> PROVE KeysOutliveTokens' BY <1>1, <1>7, KeysKept
<1>8. ASSUME NEW e \in Export, Validate(e) \/ Refuse(e) \/ Collect(e) \/ Build(e) \/ Put(e)
                               \/ Record(e) \/ Reply(e) \/ Dies(e)
      PROVE  KeysOutliveTokens'
  BY <1>7, <1>8 DEF Validate, Refuse, Collect, Build, Put, Record, Reply, Dies
<1>9. CASE Change \/ Revoke \/ SweepTokens \/ CompleteCascade
  BY <1>7, <1>9 DEF Change, Revoke, SweepTokens, CompleteCascade
<1>10. CASE UNCHANGED vars BY <1>7, <1>10 DEF vars, keys
<1> QED BY <1>3, <1>4, <1>5, <1>6, <1>8, <1>9, <1>10 DEF Next

-----------------------------------------------------------------------------
(* Handlers, archives and links                                            *)

\* What a handler holds at each step.
LEMMA Holds ==
  ASSUME TypeOK, NEW e \in Export
  PROVE  /\ run[e].step \in {"collect", "events", "put", "record", "reply"} => run[e].at \in Nat
         /\ run[e].step = "events" => run[e].changes \in Nat /\ run[e].snapshot \in Seq(LogEvent)
         /\ run[e].step = "put" => run[e].archive \in Archive
         /\ run[e].step \in {"put", "record"} =>
              run[e] \in [step : {"put", "record", "reply"}, at : Nat, archive : Archive]
<1>1. run[e] \in Handler BY DEF TypeOK
<1>2. CASE run[e] \in [step : {"none", "validate", "refused", "done", "died"}] BY <1>2
<1>3. CASE run[e] \in [step : {"collect"}, at : Nat] BY <1>3
<1>4. CASE run[e] \in [step : {"events"}, at : Nat, changes : Nat, snapshot : Seq(LogEvent)] BY <1>4
<1>5. CASE run[e] \in [step : {"put", "record", "reply"}, at : Nat, archive : Archive] BY <1>5
<1> QED BY <1>1, <1>2, <1>3, <1>4, <1>5 DEF Handler

\* A step of one handler that appends nothing and stores nothing.
LEMMA HandlerMoves ==
  ASSUME TypeOK, Logged, NEW e \in Export, NEW h \in Handler,
         run' = [run EXCEPT ![e] = h], HandlerAgrees(e)',
         UNCHANGED <<now, changes, chain, rotated, token, storage, link, backend>>
  PROVE  TypeOK' /\ Logged'
<1>1. /\ DOMAIN run' = Export /\ run'[e] = h
      /\ \A f \in Export \ {e} : run'[f] = run[f]
  BY DEF TypeOK
<1>2. TypeOK' BY <1>1 DEF TypeOK
<1>3. ASSUME NEW f \in Export, f # e PROVE HandlerAgrees(f)'
  BY <1>1, <1>3, LogKept DEF Logged, HandlerAgrees
<1>4. Logged'
  BY <1>3, LogKept DEF Logged, LinksAudited, CountIn, Recorded, Linked, Truncated, Seconds
<1> QED BY <1>2, <1>4

\* What another handler has done stays done.
LEMMA OthersAgree ==
  ASSUME TypeOK, Logged, NEW f \in Export, run'[f] = run[f],
         NEW ev \in LogEvent, chain' = Append(chain, ev), ev # Event("DATA_EXPORTED", f), now' = now,
         DOMAIN storage \subseteq DOMAIN storage'
  PROVE  HandlerAgrees(f)'
<1>1. HandlerAgrees(f) BY DEF Logged
<1>2. run[f].step = "put" => run[f].archive.log \in Seq(LogEvent)
  BY Holds DEF Archive
<1>3. \A type : Recorded(chain, type, f) => Recorded(chain', type, f) BY Appended
<1>4. Recorded(chain', "DATA_EXPORTED", f) => Recorded(chain, "DATA_EXPORTED", f) BY Appended
<1>5. \A log \in Seq(LogEvent) : \A n : TrueLog(log, n, f) => TrueLog(log, n, f)' BY Appended
<1> QED BY <1>1, <1>2, <1>3, <1>4, <1>5, Holds DEF HandlerAgrees

\* Links and archives go on being right under an event of another kind.
LEMMA RestAgrees ==
  ASSUME TypeOK, Logged, NEW ev \in LogEvent, chain' = Append(chain, ev),
         ev.type # "DATA_EXPORTED", UNCHANGED <<storage, link, backend>>
  PROVE  /\ LinksAudited'
         /\ \A e \in DOMAIN storage' : TrueLog(storage[e].log, storage[e].changes, e)'
         /\ \A e \in DOMAIN link' : Linked(e)'
<1>1. chain \in Seq(LogEvent) BY DEF TypeOK
<1>2. /\ DOMAIN chain = 1..Len(chain) /\ DOMAIN chain' = 1..Len(chain) + 1 /\ Len(chain) \in Nat
      /\ chain'[Len(chain) + 1] = ev /\ \A i \in 1..Len(chain) : chain'[i] = chain[i]
  BY <1>1
<1>3. \A i : i \in 1..Len(chain)+1 <=> i \in 1..Len(chain) \/ i = Len(chain) + 1 BY <1>2
<1>4. LinksAudited'
  <2>1. \A e \in DOMAIN link : e \in DOMAIN storage /\ Recorded(chain, "DATA_EXPORTED", e)
    BY DEF Logged, LinksAudited
  <2>2. \A e : Recorded(chain, "DATA_EXPORTED", e) => Recorded(chain', "DATA_EXPORTED", e) BY Appended
  <2>3. \A i, j \in DOMAIN chain' : chain'[i].type = "DATA_EXPORTED" /\ chain'[i] = chain'[j] => i = j
    BY <1>2, <1>3 DEF Logged, LinksAudited
  <2> QED BY <2>1, <2>2, <2>3 DEF LinksAudited
<1>5. \A e \in DOMAIN storage : storage[e].log \in Seq(LogEvent) BY DEF TypeOK, Archive
<1>6. ASSUME NEW e \in DOMAIN storage PROVE TrueLog(storage[e].log, storage[e].changes, e)'
  <2>1. storage' = storage OBVIOUS
  <2>2. TrueLog(storage[e].log, storage[e].changes, e) BY DEF Logged
  <2> DEFINE log == storage[e].log
             n == storage[e].changes
  <2>3. TrueLog(log, n, e) => Len(log) <= Len(chain') /\ (\A i \in 1..Len(log) : log[i] = chain'[i])
    BY <1>2, <1>5 DEF TrueLog
  <2> QED BY <2>1, <2>2, <2>3 DEF TrueLog, CountIn, Recorded
<1>7. storage' = storage /\ link' = link /\ backend' = backend OBVIOUS
<1> QED BY <1>4, <1>6, <1>7 DEF Logged, Linked, Truncated, Seconds

-----------------------------------------------------------------------------
(* The invariant                                                           *)

LEMMA Start == Init => Consistent
<1> SUFFICES ASSUME Init PROVE Consistent OBVIOUS
<1>1. chain = <<>> /\ DOMAIN chain = {} /\ chain \in Seq(LogEvent) BY DEF Init
<1>2. DOMAIN token = {} /\ DOMAIN storage = {} /\ DOMAIN link = {} BY DEF Init
<1>3. DOMAIN run = Export /\ \A e \in Export : run[e] = None BY DEF Init
<1>4. None \in Handler BY DEF None, Handler
<1>5. TypeOK BY <1>1, <1>2, <1>3, <1>4 DEF Init, TypeOK
<1>6. CountIn(chain, "CHANGE") = 0
  <2>1. {i \in DOMAIN chain : chain[i].type = "CHANGE"} = {} BY <1>1
  <2> QED BY <2>1, FS_EmptySet DEF CountIn
<1>7. LinksAudited BY <1>1, <1>2 DEF LinksAudited
<1>8. \A e \in Export : HandlerAgrees(e) BY <1>1, <1>3 DEF HandlerAgrees, None, Recorded
<1>9. Logged BY <1>2, <1>6, <1>7, <1>8 DEF Init, Logged
<1> QED BY <1>5, <1>9, KeysStart DEF Consistent

LEMMA Announced ==
  ASSUME TypeOK, Logged, NEW e \in Export, Authorize(e)
  PROVE  TypeOK' /\ Logged'
<1> DEFINE ev == Event("AUTHORIZATION_GRANTED", e)
<1>1. /\ ev \in LogEvent /\ ev.type = "AUTHORIZATION_GRANTED"
      /\ \A f : ev # Event("DATA_EXPORTED", f)
  BY DEF Event, LogEvent
<1>2. /\ chain' = Append(chain, ev) /\ run[e].step = "none"
      /\ UNCHANGED <<now, changes, rotated, storage, link, backend>>
  BY DEF Authorize, keys
<1>3. /\ DOMAIN run' = Export /\ run'[e] = [step |-> "validate"]
      /\ \A f \in Export \ {e} : run'[f] = run[f]
  BY DEF Authorize, TypeOK
<1>4. DOMAIN token' \subseteq Export BY DEF Authorize, With, TypeOK
<1> HIDE DEF ev
<1>5. chain' \in Seq(LogEvent) BY <1>1, <1>2, Appended
<1>6. [step |-> "validate"] \in Handler BY DEF Handler
<1>7. TypeOK' BY <1>2, <1>3, <1>4, <1>5, <1>6 DEF TypeOK
<1>8. changes' = CountIn(chain', "CHANGE")
  <2>1. chain \in Seq(LogEvent) BY DEF TypeOK
  <2>2. changes \in Nat /\ changes = CountIn(chain, "CHANGE") BY DEF TypeOK, Logged
  <2> QED BY <1>1, <1>2, <2>1, <2>2, CountAppend
<1>9. ASSUME NEW f \in Export PROVE HandlerAgrees(f)'
  <2>1. CASE f = e
    <3>1. Recorded(chain', "AUTHORIZATION_GRANTED", e) BY <1>1, <1>2, Appended DEF ev
    <3>2. ~Recorded(chain, "DATA_EXPORTED", e) BY <1>2 DEF Logged, HandlerAgrees
    <3>3. ~Recorded(chain', "DATA_EXPORTED", e) BY <1>1, <1>2, <3>2, Appended
    <3> QED BY <1>3, <2>1, <3>1, <3>3 DEF HandlerAgrees
  <2>2. CASE f # e BY <1>1, <1>2, <1>3, <2>2, OthersAgree
  <2> QED BY <2>1, <2>2
<1>10. Logged'
  <2>1. ev.type # "DATA_EXPORTED" BY <1>1
  <2> QED BY <1>1, <1>2, <1>8, <1>9, <2>1, RestAgrees DEF Logged, Linked, Truncated, Seconds
<1> QED BY <1>7, <1>10

LEMMA Changed ==
  ASSUME TypeOK, Logged, Change \/ Revoke
  PROVE  TypeOK' /\ Logged'
<1> DEFINE ev == Event("CHANGE", "profile")
<1>1. ev \in LogEvent /\ ev.type = "CHANGE" /\ \A f : ev # Event("DATA_EXPORTED", f)
  BY DEF Event, LogEvent
<1>2. /\ chain' = Append(chain, ev) /\ changes' = changes + 1
      /\ UNCHANGED <<now, run, rotated, token, storage, link, backend>>
  BY DEF Change, Revoke, keys
<1> HIDE DEF ev
<1>3. chain' \in Seq(LogEvent) BY <1>1, <1>2, Appended
<1>4. TypeOK' BY <1>2, <1>3 DEF TypeOK
<1>5. changes' = CountIn(chain', "CHANGE")
  <2>1. chain \in Seq(LogEvent) BY DEF TypeOK
  <2>2. changes \in Nat /\ changes = CountIn(chain, "CHANGE") BY DEF TypeOK, Logged
  <2> QED BY <1>1, <1>2, <2>1, <2>2, CountAppend
<1>6. ASSUME NEW f \in Export PROVE HandlerAgrees(f)' BY <1>1, <1>2, OthersAgree
<1>7. ev.type # "DATA_EXPORTED" BY <1>1
<1>8. Logged' BY <1>1, <1>2, <1>5, <1>6, <1>7, RestAgrees DEF Logged, Linked, Truncated, Seconds
<1> QED BY <1>4, <1>8

LEMMA Moved ==
  ASSUME TypeOK, Logged, signing \in {1, 2}, NEW e \in Export,
         Validate(e) \/ Refuse(e) \/ Collect(e) \/ Build(e) \/ Dies(e)
  PROVE  TypeOK' /\ Logged'
<1>1. HandlerAgrees(e) BY DEF Logged
<1>2. UNCHANGED <<now, changes, chain, rotated, token, storage, link, backend>>
  BY DEF Validate, Refuse, Collect, Build, Dies, keys
<1>3. DOMAIN run = Export /\ chain \in Seq(LogEvent) /\ now \in Nat /\ changes \in Nat BY DEF TypeOK
<1>4. CASE Validate(e)
  <2> DEFINE h == [step |-> "collect", at |-> now]
  <2>1. run' = [run EXCEPT ![e] = h] /\ run[e].step = "validate" BY <1>4 DEF Validate
  <2>2. h \in Handler BY <1>3 DEF Handler
  <2>3. HandlerAgrees(e)' BY <1>1, <1>2, <1>3, <2>1, LogKept DEF HandlerAgrees
  <2> QED BY <1>2, <2>1, <2>2, <2>3, HandlerMoves
<1>5. CASE Refuse(e)
  <2> DEFINE h == [step |-> "refused"]
  <2>1. run' = [run EXCEPT ![e] = h] /\ run[e].step = "validate" BY <1>5 DEF Refuse
  <2>2. h \in Handler BY DEF Handler
  <2>3. HandlerAgrees(e)' BY <1>1, <1>2, <1>3, <2>1, LogKept DEF HandlerAgrees
  <2> QED BY <1>2, <2>1, <2>2, <2>3, HandlerMoves
<1>6. CASE Collect(e)
  <2> DEFINE h == [step |-> "events", at |-> run[e].at, changes |-> changes, snapshot |-> chain]
  <2>1. run' = [run EXCEPT ![e] = h] /\ run[e].step = "collect" BY <1>3, <1>6 DEF Collect
  <2>2. h \in Handler BY <1>3, <2>1, Holds DEF Handler
  <2>3. TrueLog(chain, changes, e) BY <1>1, <1>3, <2>1 DEF HandlerAgrees, TrueLog, Logged
  <2>4. HandlerAgrees(e)' BY <1>1, <1>2, <1>3, <2>1, <2>3, LogKept DEF HandlerAgrees
  <2> QED BY <1>2, <2>1, <2>2, <2>4, HandlerMoves
<1>7. CASE Build(e)
  <2> DEFINE log == run[e].snapshot
             h == [step |-> "put", at |-> run[e].at,
                   archive |-> [changes |-> run[e].changes, log |-> log, kid |-> signing]]
  <2>1. run' = [run EXCEPT ![e] = h] /\ run[e].step = "events" BY <1>3, <1>7 DEF Build, LogSeen
  <2>2. h \in Handler BY <2>1, Holds DEF Handler, Archive
  <2>3. TrueLog(log, run[e].changes, e) BY <1>1, <2>1 DEF HandlerAgrees
  <2>4. HandlerAgrees(e)' BY <1>1, <1>2, <1>3, <2>1, <2>3, LogKept DEF HandlerAgrees
  <2> QED BY <1>2, <2>1, <2>2, <2>4, HandlerMoves
<1>8. CASE Dies(e)
  <2> DEFINE h == [step |-> "died"]
  <2>1. run' = [run EXCEPT ![e] = h] BY <1>8 DEF Dies
  <2>2. h \in Handler BY DEF Handler
  <2>3. HandlerAgrees(e)' BY <1>3, <2>1 DEF HandlerAgrees
  <2> QED BY <1>2, <2>1, <2>2, <2>3, HandlerMoves
<1> QED BY <1>4, <1>5, <1>6, <1>7, <1>8

LEMMA Stored ==
  ASSUME TypeOK, Logged, NEW e \in Export, Put(e)
  PROVE  TypeOK' /\ Logged'
<1> DEFINE h == [run[e] EXCEPT !.step = "record"]
<1>1. /\ run[e].step = "put" /\ storage' = With(storage, e, run[e].archive)
      /\ UNCHANGED <<now, changes, chain, rotated, token, link, backend>>
  BY DEF Put, keys
<1>2. run' = [run EXCEPT ![e] = h] BY DEF Put
<1>3. DOMAIN run' = Export /\ run'[e] = h /\ \A f \in Export \ {e} : run'[f] = run[f]
  BY <1>2 DEF TypeOK
<1>4. h \in Handler /\ h.step = "record" /\ h.at = run[e].at BY <1>1, Holds DEF Handler
<1>5. run[e].archive \in Archive BY <1>1, Holds
<1>6. /\ DOMAIN storage' = DOMAIN storage \cup {e} /\ storage'[e] = run[e].archive
      /\ \A f \in DOMAIN storage \ {e} : storage'[f] = storage[f]
  BY <1>1 DEF With
<1> HIDE DEF h
<1>7. TypeOK' BY <1>1, <1>3, <1>4, <1>5, <1>6 DEF TypeOK
<1>8. \A f \in Export : HandlerAgrees(f) BY DEF Logged
<1>9. HandlerAgrees(e)' BY <1>1, <1>3, <1>4, <1>6, <1>8, LogKept DEF HandlerAgrees
<1>10. ASSUME NEW f \in Export, f # e PROVE HandlerAgrees(f)'
  BY <1>1, <1>3, <1>6, <1>8, <1>10, LogKept DEF HandlerAgrees
<1>11. ASSUME NEW f \in DOMAIN storage'
       PROVE  TrueLog(storage[f].log, storage[f].changes, f)'
  <2>1. CASE f = e
    <3>1. TrueLog(run[e].archive.log, run[e].archive.changes, e) BY <1>1, <1>8 DEF HandlerAgrees
    <3> QED BY <1>1, <1>6, <2>1, <3>1 DEF TrueLog, CountIn, Recorded
  <2>2. CASE f # e
    <3>1. TrueLog(storage[f].log, storage[f].changes, f) BY <1>6, <2>2 DEF Logged
    <3> QED BY <1>1, <1>6, <2>2, <3>1 DEF TrueLog, CountIn, Recorded
  <2> QED BY <2>1, <2>2
<1>12. LinksAudited' BY <1>1, <1>6 DEF Logged, LinksAudited, Recorded
<1>13. Logged' BY <1>1, <1>9, <1>10, <1>11, <1>12 DEF Logged, CountIn, Linked, Truncated, Seconds
<1> QED BY <1>7, <1>13

LEMMA Answered ==
  ASSUME TypeOK, Logged, NEW e \in Export, Reply(e)
  PROVE  TypeOK' /\ Logged'
<1> DEFINE h == [step |-> "done"]
<1>1. /\ run[e].step = "reply" /\ link' = With(link, e, signed_url(e))
      /\ UNCHANGED <<now, changes, chain, rotated, token, storage, backend>>
  BY DEF Reply, keys
<1>2. run' = [run EXCEPT ![e] = h] BY DEF Reply
<1>3. DOMAIN run' = Export /\ run'[e] = h /\ \A f \in Export \ {e} : run'[f] = run[f]
  BY <1>2 DEF TypeOK
<1>4. h \in Handler BY DEF Handler
<1>5. /\ DOMAIN link' = DOMAIN link \cup {e} /\ link'[e] = signed_url(e)
      /\ \A f \in DOMAIN link \ {e} : link'[f] = link[f]
  BY <1>1 DEF With
<1>6. run[e].at \in Nat BY <1>1, Holds
<1>7. /\ signed_url(e).at = run[e].at /\ signed_url(e).signed = now /\ now \in Nat
      /\ signed_url(e).expires =
           Truncated((IF backend = "s3" THEN now ELSE run[e].at) + Seconds(UrlTTL))
  BY DEF signed_url, Link, TypeOK
<1>8. TypeOK' BY <1>1, <1>3, <1>4, <1>5, <1>6, <1>7 DEF TypeOK
<1>9. \A f \in Export : HandlerAgrees(f) BY DEF Logged
<1>10. HandlerAgrees(e)' BY <1>3 DEF HandlerAgrees
<1>11. ASSUME NEW f \in Export, f # e PROVE HandlerAgrees(f)'
  BY <1>1, <1>3, <1>9, <1>11, LogKept DEF HandlerAgrees
<1>12. LinksAudited'
  <2>1. e \in DOMAIN storage /\ Recorded(chain, "DATA_EXPORTED", e) BY <1>1, <1>9 DEF HandlerAgrees
  <2> QED BY <1>1, <1>5, <2>1 DEF Logged, LinksAudited, Recorded
<1>13. ASSUME NEW f \in DOMAIN storage' PROVE TrueLog(storage[f].log, storage[f].changes, f)'
  BY <1>1 DEF Logged, TrueLog, CountIn, Recorded
<1>14. ASSUME NEW f \in DOMAIN link'
       PROVE  Linked(f)'
  <2>1. CASE f = e
    <3>1. run[e].at <= now BY <1>1, <1>9 DEF HandlerAgrees
    <3> QED BY <1>1, <1>5, <1>7, <2>1, <3>1 DEF Linked, Truncated, Seconds
  <2>2. CASE f # e
    <3>1. f \in DOMAIN link /\ Linked(f) BY <1>5, <2>2 DEF Logged
    <3> QED BY <1>1, <1>5, <2>2, <3>1 DEF Linked, Truncated, Seconds
  <2> QED BY <2>1, <2>2
<1>15. Logged'
  BY <1>1, <1>10, <1>11, <1>12, <1>13, <1>14 DEF Logged, CountIn, Linked, Truncated, Seconds
<1> QED BY <1>8, <1>15

LEMMA Entered ==
  ASSUME TypeOK, Logged, NEW e \in Export, Record(e)
  PROVE  TypeOK' /\ Logged'
<1> DEFINE h == [run[e] EXCEPT !.step = "reply"]
           ev == Event("DATA_EXPORTED", e)
<1>1. /\ run[e].step = "record" /\ chain' = Append(chain, ev)
      /\ UNCHANGED <<now, changes, rotated, token, storage, link, backend>>
  BY DEF Record, keys
<1>2. run' = [run EXCEPT ![e] = h] BY DEF Record
<1>3. DOMAIN run' = Export /\ run'[e] = h /\ \A f \in Export \ {e} : run'[f] = run[f]
  BY <1>2 DEF TypeOK
<1>4. h \in Handler /\ h.step = "reply" /\ h.at = run[e].at BY <1>1, Holds DEF Handler
<1>5. /\ ev \in LogEvent /\ ev.type = "DATA_EXPORTED" /\ ev.of = e
      /\ \A f : f # e => ev # Event("DATA_EXPORTED", f)
  BY DEF Event, LogEvent
<1>6. Recorded(chain', "DATA_EXPORTED", e) BY <1>1, <1>5, Appended
<1>7. \A i \in DOMAIN chain : chain[i] # ev
  BY <1>1 DEF Logged, HandlerAgrees, Recorded
<1> HIDE DEF h, ev
<1>8. chain \in Seq(LogEvent) BY DEF TypeOK
<1>9. chain' \in Seq(LogEvent) BY <1>1, <1>5, Appended
<1>10. TypeOK' BY <1>1, <1>3, <1>4, <1>9 DEF TypeOK
<1>11. changes' = CountIn(chain', "CHANGE")
  <2>1. changes \in Nat /\ changes = CountIn(chain, "CHANGE") BY DEF TypeOK, Logged
  <2> QED BY <1>1, <1>5, <1>8, <2>1, CountAppend
<1>12. HandlerAgrees(e)'
  <2>1. e \in DOMAIN storage /\ run[e].at <= now BY <1>1 DEF Logged, HandlerAgrees
  <2> QED BY <1>1, <1>3, <1>4, <1>6, <2>1 DEF HandlerAgrees
<1>13. ASSUME NEW f \in Export, f # e PROVE HandlerAgrees(f)'
  BY <1>1, <1>3, <1>5, <1>13, OthersAgree
<1>14. LinksAudited'
  <2>1. \A f \in DOMAIN link : f \in DOMAIN storage /\ Recorded(chain, "DATA_EXPORTED", f)
    BY DEF Logged, LinksAudited
  <2>2. \A f : Recorded(chain, "DATA_EXPORTED", f) => Recorded(chain', "DATA_EXPORTED", f)
    BY <1>1, <1>5, Appended
  <2>3. /\ DOMAIN chain = 1..Len(chain) /\ DOMAIN chain' = 1..Len(chain) + 1 /\ Len(chain) \in Nat
        /\ chain'[Len(chain) + 1] = ev /\ \A i \in 1..Len(chain) : chain'[i] = chain[i]
    BY <1>1, <1>8
  <2>4. \A i : i \in 1..Len(chain)+1 <=> i \in 1..Len(chain) \/ i = Len(chain) + 1 BY <2>3
  <2>5. \A i, j \in DOMAIN chain' : chain'[i].type = "DATA_EXPORTED" /\ chain'[i] = chain'[j] => i = j
    BY <1>7, <2>3, <2>4 DEF Logged, LinksAudited
  <2> QED BY <1>1, <2>1, <2>2, <2>5 DEF LinksAudited
<1>15. ASSUME NEW f \in DOMAIN storage' PROVE TrueLog(storage[f].log, storage[f].changes, f)'
  <2>1. f \in DOMAIN storage /\ storage' = storage BY <1>1, <1>15
  <2>2. storage[f].log \in Seq(LogEvent) BY <2>1 DEF TypeOK, Archive
  <2>3. TrueLog(storage[f].log, storage[f].changes, f) BY <2>1 DEF Logged
  <2> DEFINE log == storage[f].log
  <2>4. Len(log) <= Len(chain') /\ \A i \in 1..Len(log) : log[i] = chain'[i]
    <3>1. Len(log) \in Nat /\ Len(log) <= Len(chain) BY <2>2, <2>3 DEF TrueLog
    <3>2. /\ Len(chain) \in Nat /\ Len(chain') = Len(chain) + 1
          /\ \A i \in 1..Len(chain) : chain'[i] = chain[i]
      BY <1>1, <1>8
    <3> HIDE DEF log
    <3>3. \A i \in 1..Len(log) : i \in 1..Len(chain) BY <3>1, <3>2
    <3> QED BY <2>3, <3>1, <3>2, <3>3 DEF TrueLog, log
  <2> QED BY <2>1, <2>3, <2>4 DEF TrueLog, CountIn, Recorded
<1>16. Logged'
  BY <1>1, <1>11, <1>12, <1>13, <1>14, <1>15 DEF Logged, Linked, Truncated, Seconds
<1> QED BY <1>10, <1>16

\* Time only moves away from when a handler began.
LEMMA Later ==
  ASSUME TypeOK, NEW e \in Export, run' = run, now' \in Nat, now <= now',
         run[e].step \in {"collect", "events", "put", "record", "reply"} => run[e].at <= now
  PROVE  run'[e].step \in {"collect", "events", "put", "record", "reply"} => run'[e].at <= now'
  BY Holds DEF TypeOK

LEMMA Step == Consistent /\ [Next]_vars => Consistent'
<1> SUFFICES ASSUME Consistent, [Next]_vars PROVE Consistent' OBVIOUS
<1>1. TypeOK /\ Logged /\ KeysOutliveTokens /\ signing \in {1, 2}
  BY DEF Consistent, KeysOutliveTokens
<1>2. KeysOutliveTokens' BY <1>1, KeysStep
<1>3. ASSUME NEW e \in Export,
             \/ Authorize(e) \/ Validate(e) \/ Refuse(e) \/ Collect(e) \/ Build(e)
             \/ Put(e) \/ Record(e) \/ Reply(e) \/ Dies(e)
      PROVE  TypeOK' /\ Logged'
  BY <1>1, <1>3, Announced, Moved, Stored, Entered, Answered
<1>4. ASSUME Change \/ Revoke PROVE TypeOK' /\ Logged' BY <1>1, <1>4, Changed
<1>5. ASSUME UNCHANGED <<changes, chain, run, token, storage, link, backend>>, now' \in Nat, now <= now',
             rotated' \in Nat
      PROVE  TypeOK' /\ Logged'
  <2>1. TypeOK' BY <1>1, <1>5 DEF TypeOK
  <2>2. \A e \in Export : HandlerAgrees(e)' BY <1>1, <1>5, LogKept, Later DEF Logged, HandlerAgrees
  <2>3. Logged'
    BY <1>1, <1>5, <2>2 DEF Logged, LinksAudited, TrueLog, CountIn, Recorded, Linked, Truncated, Seconds
  <2> QED BY <2>1, <2>3
<1>6. now \in Nat /\ rotated \in Nat BY <1>1 DEF TypeOK
<1>7. ASSUME SweepTokens \/ CompleteCascade \/ Rotate \/ Retire \/ Tick \/ UNCHANGED vars
      PROVE  TypeOK' /\ Logged'
  BY <1>5, <1>6, <1>7 DEF SweepTokens, CompleteCascade, Rotate, Retire, Tick, vars, keys
<1>8. TypeOK' /\ Logged' BY <1>3, <1>4, <1>7 DEF Next
<1> QED BY <1>2, <1>8 DEF Consistent

\* The invariant of the export holds always, however many exports run, die and
\* race with changes, revocation and rotation.
THEOREM ConsistentHolds == Spec => []Consistent
<1>1. Init => Consistent BY Start
<1>2. Consistent /\ [Next]_vars => Consistent' BY Step
<1> QED BY <1>1, <1>2, PTL DEF Spec

-----------------------------------------------------------------------------
(* What follows from it                                                    *)

\* An archive holds the profile at one moment and its history to that moment.
THEOREM ArchiveTrueHolds == Spec => []ArchiveTrue
<1>1. Consistent => ArchiveTrue
  <2> SUFFICES ASSUME Consistent, NEW e \in DOMAIN storage
               PROVE  LET log == storage[e].log
                      IN /\ storage[e].changes = CountIn(log, "CHANGE")
                         /\ log = SubSeq(chain, 1, Len(log))
                         /\ Recorded(log, "AUTHORIZATION_GRANTED", e)
    BY DEF ArchiveTrue
  <2> DEFINE log == storage[e].log
  <2>1. TrueLog(log, storage[e].changes, e) BY DEF Consistent, Logged
  <2>2. log \in Seq(LogEvent) /\ chain \in Seq(LogEvent) BY DEF Consistent, TypeOK, Archive
  <2> HIDE DEF log
  <2>3. log = SubSeq(chain, 1, Len(log))
    <3>1. Len(log) \in Nat /\ Len(log) <= Len(chain) /\ Len(chain) \in Nat
      BY <2>1, <2>2 DEF TrueLog
    <3>2. \A i \in 1..Len(log) : log[i] = chain[i] BY <2>1 DEF TrueLog
    <3>3. SubSeq(chain, 1, Len(log)) = [i \in 1..Len(log) |-> chain[i]] BY <2>2, <3>1
    <3>4. log = [i \in 1..Len(log) |-> log[i]] BY <2>2
    <3> QED BY <3>2, <3>3, <3>4
  <2> QED BY <2>1, <2>3 DEF TrueLog, log
<1> QED BY <1>1, ConsistentHolds, PTL

\* No link without its archive and its event, and no event twice.
THEOREM LinksAuditedHolds == Spec => []LinksAudited
<1>1. Consistent => LinksAudited BY DEF Consistent, Logged
<1> QED BY <1>1, ConsistentHolds, PTL

\* A link opens until the second before expires_at; a local one never after it,
\* and one of S3's at most as much later as the export took.
THEOREM LinksOpenHolds == Spec => []LinksOpen
<1>1. Consistent => LinksOpen
  <2> SUFFICES ASSUME Consistent, NEW e \in DOMAIN link
               PROVE  LET expires_at == link[e].at + Seconds(UrlTTL)
                          took == link[e].signed - link[e].at
                          closes == IF backend = "s3" THEN expires_at + took ELSE expires_at
                      IN /\ now <= expires_at - Second => Opens(e)
                         /\ now > closes => ~Opens(e)
    BY DEF LinksOpen
  <2> DEFINE expires_at == link[e].at + Seconds(UrlTTL)
             took == link[e].signed - link[e].at
             closes == IF backend = "s3" THEN expires_at + took ELSE expires_at
  <2>1. now \in Nat /\ link[e].at \in Nat /\ link[e].signed \in Nat BY DEF Consistent, TypeOK
  <2>2. Seconds(UrlTTL) \in Nat /\ Second \in Nat BY Spans
  <2>3. Linked(e) /\ e \in DOMAIN storage BY DEF Consistent, Logged, LinksAudited
  <2>4. closes \in Nat /\ expires_at \in Nat /\ expires_at <= closes
    BY <2>1, <2>2, <2>3 DEF Linked
  <2>5. link[e].expires = Truncated(closes)
    <3>1. CASE backend = "s3"
      <4>1. closes = link[e].signed + Seconds(UrlTTL) BY <2>1, <2>2, <3>1
      <4> QED BY <2>3, <3>1, <4>1 DEF Linked
    <3>2. CASE backend # "s3" BY <2>3, <3>2 DEF Linked
    <3> QED BY <3>1, <3>2
  <2> HIDE DEF expires_at, closes
  <2>6. /\ Truncated(closes) \in Int /\ Truncated(closes) <= closes
        /\ closes < Truncated(closes) + Second
    BY <2>4, Cut
  <2>7. /\ now <= expires_at - Second => now <= Truncated(closes)
        /\ now > closes => ~(now <= Truncated(closes))
    BY <2>1, <2>2, <2>4, <2>6
  <2> QED BY <2>3, <2>5, <2>7 DEF Opens, expires_at, closes
<1> QED BY <1>1, ConsistentHolds, PTL

\* Validators honour a token until it expires, through a rotation and whatever
\* their clocks do within the allowed skew, and none beyond the longest
\* lifetime.
THEOREM TokensHonouredHolds == Spec => []TokensHonoured
<1>1. Consistent => TokensHonoured
  <2> SUFFICES ASSUME Consistent, NEW e \in DOMAIN token
               PROVE  LET t == token[e]
                          skew == Seconds(CLOCK_SKEW_SECONDS)
                      IN /\ now < t.exp => \A clock \in now - skew .. now + skew : TokenHolds(t, clock)
                         /\ now > t.at + Seconds(MAX_TOKEN_TTL_SECONDS) + skew => ~TokenHolds(t, now)
    BY DEF TokensHonoured
  <2> DEFINE t == token[e]
             skew == Seconds(CLOCK_SKEW_SECONDS)
             ttl == Seconds(TTL)
             max == Seconds(MAX_TOKEN_TTL_SECONDS)
  <2>1. now \in Nat /\ rotated \in Nat BY DEF Consistent, TypeOK
  <2>2. skew \in Nat /\ ttl \in Nat /\ max \in Nat /\ ttl > 0 /\ ttl <= max BY Spans
  <2>3. /\ t.at \in Nat /\ t.at <= now /\ t.kid \in {1, 2} /\ t.kid <= signing
        /\ t.iat = Truncated(t.at) /\ t.exp = Truncated(t.at) + ttl
        /\ t.kid < signing => t.at <= rotated
    BY DEF Consistent, KeysOutliveTokens
  <2>4. /\ signing \in {1, 2} /\ signing \in known
        /\ 1 \notin known => now >= rotated + max
    BY DEF Consistent, KeysOutliveTokens
  <2>5. t.iat \in Int /\ t.iat <= t.at BY <2>3, Cut
  <2> HIDE DEF t, skew, ttl, max
  <2>6. t.exp = t.iat + ttl BY <2>3
  <2>7. now < t.exp => t.kid \in known BY <2>1, <2>2, <2>3, <2>4, <2>5, <2>6
  <2>8. ASSUME NEW clock \in now - skew .. now + skew, now < t.exp PROVE TokenHolds(t, clock)
    <3>1. clock \in Int /\ now - skew <= clock /\ clock <= now + skew BY <2>1, <2>2
    <3>2. t.exp - t.iat <= max /\ t.exp > t.iat BY <2>2, <2>5, <2>6
    <3>3. clock <= t.exp + skew /\ clock + skew >= t.iat
      BY <2>1, <2>2, <2>3, <2>5, <2>6, <2>8, <3>1
    <3> QED BY <2>7, <2>8, <3>2, <3>3 DEF TokenHolds, skew, max
  <2>9. ASSUME now > t.at + max + skew PROVE ~TokenHolds(t, now)
    <3>1. ~(now <= t.exp + skew) BY <2>1, <2>2, <2>3, <2>5, <2>6, <2>9
    <3> QED BY <3>1 DEF TokenHolds, skew
  <2> QED BY <2>8, <2>9 DEF t, skew, max
<1> QED BY <1>1, ConsistentHolds, PTL
=============================================================================
