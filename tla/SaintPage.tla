------------------------------ MODULE SaintPage ------------------------------
(***************************************************************************)
(* The page of The Saint (src/web/app.js) on top of its server.  The page  *)
(* asks for a semantic map by itself, whenever it shows a session that has *)
(* enough passages and neither a map nor an analysis.                      *)
(*                                                                         *)
(* Three chains of requests go on at once: the one the user started with a *)
(* button (the busy flag keeps it the only one), the automatic request for *)
(* an analysis (autoAnalyzing), and refreshes in the background.  A GET is *)
(* two steps, the server's answer and its display, so an answer may be     *)
(* shown late.  The semantic libraries are installed and every request     *)
(* reaches the server; an import may be refused there.                     *)
(*                                                                         *)
(* Restriction: one refresh is in the background at a time.  A timer that  *)
(* fires, or a second look that falls due, during another one waits for it;*)
(* the page itself does not wait (see the README).                         *)
(***************************************************************************)
EXTENDS SaintSession

CONSTANT Selection  \* sequences of files: the parts of one selection

ASSUME SelectionAssumption == Selection \subseteq Seq(File)

VARIABLES
  view,        \* the last state shown
  user,        \* the user's action: [step, parts, ok, answer]
  auto,        \* the automatic request: [step, answer]
  timer,       \* poll is set
  back,        \* the refresh in the background: [step, answer]
  overlapped   \* history: an action was last shown during the refresh that
               \* ends an automatic request

page == <<view, user, auto, timer, back, overlapped>>

\* What the page makes of a state: too few passages, an analysis to wait for,
\* one to ask for, or nothing to do.
State ==
  CASE Len(snapshot.records) < MinRecords -> "few"
    [] job = "running" -> "running"
    [] job = "idle" /\ snapshot.map = NoMap -> "wants"
    [] OTHER -> "settled"

IdleUser == [step |-> "idle"]
NoRequest == [step |-> "off"]

PageInit ==
  /\ Init
  /\ view = State
  /\ user = IdleUser
  /\ auto = NoRequest
  /\ timer = FALSE
  /\ back = NoRequest
  /\ overlapped = FALSE

\* maybeAutoAnalyze, called from every render.
Rendered(v, busy) ==
  auto' = IF auto.step = "off" /\ ~busy /\ v = "wants" THEN [step |-> "post"] ELSE auto

\* The rest of refresh: show the state and set the timer anew.
Shown(v) ==
  /\ view' = v
  /\ timer' = (v = "running")

-----------------------------------------------------------------------------
(* The user's actions                                                      *)

Imports(parts) ==
  /\ user = IdleUser
  /\ user' = [step |-> "import", parts |-> parts, ok |-> FALSE]
  /\ UNCHANGED <<vars, view, auto, timer, back, overlapped>>

Clears ==
  /\ user = IdleUser
  /\ generation < MaxChanges
  /\ user' = [step |-> "clear"]
  /\ UNCHANGED <<vars, view, auto, timer, back, overlapped>>

Analyzes ==
  /\ user = IdleUser
  /\ view \in {"wants", "settled"}
  /\ user' = [step |-> "analyze"]
  /\ UNCHANGED <<vars, view, auto, timer, back, overlapped>>

\* finally: busy is over, and the page is rendered once more.
Finishes(v) ==
  /\ user' = IdleUser
  /\ Rendered(v, FALSE)
  /\ UNCHANGED back

PostsPart ==
  /\ user.step = "import" /\ user.parts # <<>>
  /\ UNCHANGED <<view, auto, timer, back, overlapped>>
  /\ \/ user' = [user EXCEPT !.parts = Tail(@), !.ok = TRUE] /\ Import(Head(user.parts))
     \/ user' = [user EXCEPT !.parts = Tail(@)] /\ UNCHANGED vars

\* All parts are through, some of them imported.
Imported ==
  /\ user.step = "import" /\ user.parts = <<>> /\ user.ok
  /\ user' = [step |-> "refresh"]
  /\ UNCHANGED <<vars, view, auto, timer, back, overlapped>>

ImportFailed ==
  /\ user.step = "import" /\ user.parts = <<>> /\ ~user.ok
  /\ Finishes(view)
  /\ UNCHANGED <<vars, view, timer, overlapped>>

PostsClear ==
  /\ user.step = "clear"
  /\ Clear
  /\ user' = [step |-> "refresh"]
  /\ UNCHANGED <<view, auto, timer, back, overlapped>>

PostsAnalyze ==
  /\ user.step = "analyze"
  /\ \/ /\ Analyze
        /\ user' = [step |-> "refresh"]
        /\ UNCHANGED <<view, auto, timer, back, overlapped>>
     \/ /\ ~CanAnalyze
        /\ Finishes(view)
        /\ UNCHANGED <<vars, view, timer, overlapped>>

UserAnswered ==
  /\ user.step = "refresh"
  /\ user' = [step |-> "answered", answer |-> State]
  /\ UNCHANGED <<vars, view, auto, timer, back, overlapped>>

UserShown ==
  /\ user.step = "answered"
  /\ Shown(user.answer)
  /\ Finishes(user.answer)
  /\ overlapped' = (auto.step \in {"refresh", "answered"})
  /\ UNCHANGED vars

UserGoesOn ==
  \/ PostsPart \/ Imported \/ ImportFailed \/ PostsClear \/ PostsAnalyze
  \/ UserAnswered \/ UserShown

-----------------------------------------------------------------------------
(* The automatic request                                                   *)

AutoPosts ==
  /\ auto.step = "post"
  /\ \/ Analyze /\ auto' = [step |-> "refresh"]
     \/ ~CanAnalyze /\ auto' = [step |-> "wait"] /\ UNCHANGED vars
  /\ UNCHANGED <<view, user, timer, back, overlapped>>

AutoAnswered ==
  /\ auto.step = "refresh"
  /\ auto' = [step |-> "answered", answer |-> State]
  /\ UNCHANGED <<vars, view, user, timer, back, overlapped>>

\* autoAnalyzing is still set while this is rendered.
AutoShown ==
  /\ auto.step = "answered"
  /\ Shown(auto.answer)
  /\ auto' = NoRequest
  /\ UNCHANGED <<vars, user, back, overlapped>>


\* Two seconds after the refusal, or later: back = NoRequest is the restriction.
AutoLooksAgain ==
  /\ auto.step = "wait" /\ back = NoRequest
  /\ auto' = NoRequest
  /\ back' = [step |-> "refresh"]
  /\ UNCHANGED <<vars, view, user, timer, overlapped>>

-----------------------------------------------------------------------------
(* Refreshes in the background                                             *)

TimerFires ==
  /\ timer /\ back = NoRequest
  /\ timer' = FALSE
  /\ back' = [step |-> "refresh"]
  /\ UNCHANGED <<vars, view, user, auto, overlapped>>

BackAnswered ==
  /\ back.step = "refresh"
  /\ back' = [step |-> "answered", answer |-> State]
  /\ UNCHANGED <<vars, view, user, auto, timer, overlapped>>

BackShown ==
  /\ back.step = "answered"
  /\ back' = NoRequest
  /\ Shown(back.answer)
  /\ Rendered(back.answer, user # IdleUser)
  /\ UNCHANGED <<vars, user, overlapped>>

ServerGoesOn ==
  /\ \E a \in analyses : AnalysisEnds(a)
  /\ UNCHANGED page

AutoGoesOn == AutoPosts \/ AutoAnswered \/ AutoShown \/ AutoLooksAgain
BackGoesOn == TimerFires \/ BackAnswered \/ BackShown

PageNext ==
  \/ \E parts \in Selection : Imports(parts)
  \/ Clears \/ Analyzes
  \/ UserGoesOn \/ AutoGoesOn \/ BackGoesOn
  \/ ServerGoesOn

\* Requests are answered, answers shown, timers fire and an analysis ends; the
\* user may do nothing, or go on for ever.
Fairness ==
  /\ WF_<<vars, page>>(UserGoesOn)
  /\ WF_<<vars, page>>(AutoGoesOn)
  /\ WF_<<vars, page>>(BackGoesOn)
  /\ WF_<<vars, page>>(ServerGoesOn)

PageSpec == PageInit /\ [][PageNext]_<<vars, page>> /\ Fairness
-----------------------------------------------------------------------------
(* Properties                                                              *)

Settled ==
  \/ Len(snapshot.records) < MinRecords
  \/ snapshot.map # NoMap
  \/ job = "error"

=============================================================================
