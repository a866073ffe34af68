------------------------------- MODULE AutoAI -------------------------------
(***************************************************************************)
(* The background reviewer (src/lib/autoai/engine.ts): it watches the text *)
(* on screen, waits until the writer pauses, asks a model for a review and *)
(* puts its notes into the editor.  Meanwhile the writer types, opens      *)
(* other drafts, stops all AI or changes the settings, and the loader      *)
(* moves the stores before, with or after the editor.                      *)
(*                                                                         *)
(* A text is its place on a line, so that two texts are as far apart as    *)
(* the characters changed between them; 0 is the blank text.               *)
(***************************************************************************)
EXTENDS Integers, FiniteSets

CONSTANTS
  Drafts,      \* the drafts of the document
  Tabs,        \* its tabs
  TabOf,       \* the tab of each draft
  Opening,     \* each draft's text when the editor opens
  First,       \* the draft on screen then
  None,        \* no draft
  MaxText,     \* bound: the farthest text
  MinDiff,     \* MIN_DIFF_CHARS: what makes a new review worth it
  MaxSteps     \* bound: steps of the writer and of the loads

ASSUME AutoAIAssumption ==
  /\ TabOf \in [Drafts -> Tabs] /\ First \in Drafts /\ None \notin Drafts
  /\ Opening \in [Drafts -> 0..MaxText] /\ MinDiff \in Nat \ {0}
  /\ MaxText \in Nat /\ MaxSteps \in Nat

VARIABLES
  shown,       \* the draft in the editor
  texts,       \* the text of each draft
  where,       \* currentTabId and currentDraftId
  opening,     \* the draft of another tab that is being opened, or None
  locked,      \* the drafts that are read-only
  settings,    \* autoAISettings.enabled and .mode, and whether the College setup is ready
  timer,       \* debounceTimer: its stage and what it will review
  reviews,     \* runReview calls that have not returned
  controller,  \* reviewAbortController: the review it would abort, or 0
  phase,       \* autoAIPhase
  generation,  \* contentGeneration
  observed,    \* observedTargetKey
  reviewed,    \* lastReviewedContent and lastReviewedTargetKey
  outcome,     \* autoAILastOutcome
  tasks,       \* aiTasks: the reviews that keep the processing indicator on
  notes,       \* history: from which text and draft notes came, and where they went
  excused,     \* history: something but typing has interrupted the review due
  asked, steps \* the reviews and the steps so far

world == <<shown, texts, where, opening, locked>>
engine == <<timer, reviews, controller, phase, generation, observed, reviewed, outcome, tasks>>
history == <<notes, excused, asked, steps>>
vars == <<world, settings, engine, history>>

-----------------------------------------------------------------------------
(* The state as the engine reads it. *)

Content == texts[shown]                \* documentContent
ReadOnly == shown \in locked           \* editorView.state.readOnly
NoTimer == [stage |-> "none", content |-> 0, generation |-> 0]

Distance(a, b) == IF a < b THEN b - a ELSE a - b

\* Mutant: a change of just MIN_DIFF_CHARS is not enough.
FamiliarWithin(key, content) ==
  /\ key = reviewed.key /\ reviewed.content # 0
  /\ Distance(reviewed.content, content) <= MinDiff

\* Only a new target or a text that changed enough is worth a review.
Familiar(key, content) ==
  /\ key = reviewed.key /\ reviewed.content # 0
  /\ Distance(reviewed.content, content) < MinDiff

Aborted(id) == {IF r.id = id THEN [r EXCEPT !.aborted = TRUE] ELSE r : r \in reviews}

\* Clears the timer and aborts the review, if any.
CancelPendingReview ==
  /\ timer' = NoTimer /\ phase' = "idle"
  /\ reviews' = Aborted(controller) /\ controller' = 0

\* The subscriber of documentContent: called when the string changes, and with
\* the present one when it subscribes. A target's key is its draft (one document is
\* open), "from" the key seen before.
ContentEmitted(content, readOnly, from, key, set) ==
  LET wanted == /\ set.enabled /\ set.mode = "continuous" /\ ~readOnly
                /\ ~Familiar(key, content)
  IN  /\ generation' = generation + 1
      /\ observed' = key
      /\ outcome' = IF key = from THEN outcome ELSE None
      /\ reviews' = Aborted(controller) /\ controller' = 0 /\ phase' = "idle"
      /\ timer' = IF wanted THEN [stage |-> "waiting", content |-> content,
                                  generation |-> generation + 1]
                  ELSE NoTimer
      /\ excused' = FALSE

\* The stores have moved, the string may be the same: then nobody is told.
Emission(changed, content, readOnly, key) ==
  IF changed /\ settings.enabled
  THEN ContentEmitted(content, readOnly, observed, key, settings)
  ELSE /\ UNCHANGED <<timer, reviews, controller, phase, generation, observed, outcome>>
       /\ excused' = TRUE

-----------------------------------------------------------------------------
(* runReview. *)

\* Everything up to the first await, the review before it aborted. A review that
\* cannot start leaves no trace.
RunReview(content, forGeneration, face) ==
  LET review == [id |-> asked + 1, stage |-> "key", content |-> content,
                 generation |-> forGeneration, target |-> where, aborted |-> FALSE]
  IN  IF content = 0 \/ ~settings.ready
      THEN /\ phase' = "idle" /\ excused' = TRUE
           /\ reviews' = Aborted(controller) /\ controller' = 0
           /\ UNCHANGED asked
      ELSE /\ asked' = review.id /\ controller' = review.id /\ phase' = face
           /\ reviews' = Aborted(controller) \cup {review}
           /\ UNCHANGED excused

\* Mutant: the end of any review sets the phase.
FinallyAlways(r) ==
  /\ reviews' = reviews \ {r} /\ tasks' = tasks \ {r.id}
  /\ controller' = IF controller = r.id THEN 0 ELSE controller
  /\ phase' = "idle"

\* The review returns; the phase is its own only while it holds the controller.
Finally(r) ==
  /\ reviews' = reviews \ {r} /\ tasks' = tasks \ {r.id}
  /\ controller' = IF controller = r.id THEN 0 ELSE controller
  /\ phase' = IF controller = r.id THEN "idle" ELSE phase

\* ensureApiKeyLoaded has settled: bail out, or ask the model.
KeyLoaded(r) ==
  /\ r.stage = "key"
  /\ IF r.aborted \/ ~settings.ready
     THEN /\ Finally(r)
          /\ excused' = (excused \/ ~r.aborted)
     ELSE /\ reviews' = (reviews \ {r}) \cup {[r EXCEPT !.stage = "asking"]}
          /\ tasks' = tasks \cup {r.id}
          /\ phase' = "reviewing"
          /\ UNCHANGED <<controller, excused>>
  /\ UNCHANGED <<world, settings, timer, generation, observed, reviewed, outcome,
                 notes, asked, steps>>

\* Mutant: only the generation is compared.
SameGeneration(r) == r.generation = generation

\* The text and the ids are those the review started from.
StillCurrent(r) == r.generation = generation /\ r.target = where

\* applyEditorialAction refuses a read-only editor. Its own check of the ids only
\* repeats the one just made; what it makes of the text otherwise is open.
MayAccept == ~ReadOnly

\* applyAnnotations: whether some note of the answer was accepted.
Acceptance == IF MayAccept THEN BOOLEAN ELSE {FALSE}

Outcome(r, status) ==
  [draft |-> r.target.draft, status |-> status]

\* The answer is here. Notes that the gateway accepts go into the editor; a review
\* without any counts too. A request that was aborted does not answer.
Answered(r) ==
  /\ r.stage = "asking" /\ ~r.aborted
  /\ IF StillCurrent(r)
     THEN /\ reviewed' = [content |-> r.content, key |-> where.draft]
          /\ \E accepted \in Acceptance :
               /\ outcome' = Outcome(r, IF accepted THEN "applied" ELSE "clear")
               /\ notes' = IF accepted
                           THEN notes \cup {[text |-> r.content, draft |-> r.target.draft,
                                             onText |-> Content, onDraft |-> shown]}
                           ELSE notes
          /\ UNCHANGED excused
     ELSE /\ outcome' = Outcome(r, "discarded")
          /\ excused' = TRUE
          /\ UNCHANGED <<reviewed, notes>>
  /\ Finally(r)
  /\ UNCHANGED <<world, settings, timer, generation, observed, asked, steps>>

\* The request fails, or its abort has reached it.
Failed(r) ==
  /\ r.stage = "asking"
  /\ outcome' = IF r.aborted THEN outcome ELSE Outcome(r, "failed")
  /\ excused' = (excused \/ ~r.aborted)
  /\ Finally(r)
  /\ UNCHANGED <<world, settings, timer, generation, observed, reviewed,
                 notes, asked, steps>>

-----------------------------------------------------------------------------
(* The two timers of scheduleReview, one inside the other. *)

\* 70% of the pause: the face warns.
WaitingEnds ==
  /\ timer.stage = "waiting"
  /\ timer' = [timer EXCEPT !.stage = "warning"]
  /\ phase' = "thinking"
  /\ UNCHANGED <<world, settings, reviews, controller, generation, observed, reviewed,
                 outcome, tasks, history>>

WarningEnds ==
  /\ timer.stage = "warning"
  /\ timer' = NoTimer
  /\ RunReview(timer.content, timer.generation, phase)
  /\ UNCHANGED <<world, settings, generation, observed, reviewed, outcome, tasks, notes, steps>>

-----------------------------------------------------------------------------
(* The writer and the loads. *)

Step == steps < MaxSteps /\ steps' = steps + 1

\* Typing in the draft on screen.
Type(text) ==
  /\ Step /\ ~ReadOnly /\ text # Content
  /\ texts' = [texts EXCEPT ![shown] = text]
  /\ Emission(TRUE, text, ReadOnly, where.draft)
  /\ UNCHANGED <<shown, where, opening, locked, settings, reviewed, tasks, notes, asked>>

At(draft) == [tab |-> TabOf[draft], draft |-> draft]

\* A load commits: the stores, the editor and the text on screen change together.
Commit(draft) ==
  /\ shown' = draft /\ where' = At(draft) /\ opening' = None
  /\ Emission(texts[draft] # Content, texts[draft], draft \in locked, draft)
  /\ UNCHANGED <<texts, locked, settings, reviewed, tasks, notes, asked>>

\* Another draft of the tab: nothing moves before the commit.
OpenDraft(draft) ==
  /\ Step /\ draft # shown /\ TabOf[draft] = where.tab
  /\ Commit(draft)

\* Another tab is chosen: its id is in the store while its draft loads.
OpenTab(draft) ==
  /\ Step /\ TabOf[draft] # where.tab
  /\ opening' = draft
  /\ where' = [where EXCEPT !.tab = TabOf[draft]]
  /\ UNCHANGED <<shown, texts, locked, settings, engine, notes, excused, asked>>

TabOpens == opening # None /\ Commit(opening) /\ UNCHANGED steps

\* The flush before the load fails: the stores go back.
OpeningFails ==
  /\ opening # None /\ opening' = None
  /\ where' = At(shown)
  /\ UNCHANGED <<shown, texts, locked, settings, engine, history>>

\* Locks come and go without a change of text.
ToggleLock ==
  /\ Step
  /\ locked' = IF ReadOnly THEN locked \ {shown} ELSE locked \cup {shown}
  /\ excused' = TRUE
  /\ UNCHANGED <<shown, texts, where, opening, settings, engine, notes, asked>>

\* startAutoAI subscribes anew; stopAutoAI forgets what was reviewed.
ToggleEnabled ==
  LET set == [settings EXCEPT !.enabled = ~@]
  IN  /\ Step /\ settings' = set
      /\ IF set.enabled
         THEN /\ ContentEmitted(Content, ReadOnly, where.draft, where.draft, set)
              /\ UNCHANGED reviewed
         ELSE /\ CancelPendingReview
              /\ reviewed' = [content |-> 0, key |-> None]
              /\ UNCHANGED <<generation, observed, outcome, excused>>
      /\ UNCHANGED <<world, tasks, notes, asked>>

\* The mode is only read when the text changes.
SetMode ==
  /\ Step
  /\ settings' = [settings EXCEPT !.mode = IF @ = "manual" THEN "continuous" ELSE "manual"]
  /\ excused' = TRUE
  /\ UNCHANGED <<world, engine, notes, asked>>

\* The College setup of the tab is loaded, saved or fails.
SetupChanges ==
  /\ Step
  /\ settings' = [settings EXCEPT !.ready = ~@]
  /\ UNCHANGED <<world, engine, notes, excused, asked>>

TriggerManualReview ==
  /\ Step /\ settings.enabled /\ Content # 0
  /\ timer' = NoTimer
  /\ RunReview(Content, generation, "idle")
  /\ UNCHANGED <<world, settings, generation, observed, reviewed, outcome, tasks, notes>>

\* stopAllAi: the shared signal, the stop-ai event, the indicator.
StopAllAi ==
  /\ Step /\ (timer # NoTimer \/ reviews # {})
  /\ IF settings.enabled THEN CancelPendingReview
     ELSE reviews' = Aborted(controller) /\ UNCHANGED <<timer, controller, phase>>
  /\ tasks' = {}
  /\ excused' = TRUE
  /\ UNCHANGED <<world, settings, generation, observed, reviewed, outcome, notes, asked>>

-----------------------------------------------------------------------------
\* The widget is mounted with AutoAI enabled: startAutoAI has subscribed.
Init ==
  /\ shown = First /\ texts = Opening /\ where = At(First) /\ opening = None
  /\ locked = {}
  /\ settings = [enabled |-> TRUE, mode |-> "continuous", ready |-> TRUE]
  /\ timer = [stage |-> "waiting", content |-> Opening[First], generation |-> 1]
  /\ reviews = {} /\ controller = 0 /\ phase = "idle"
  /\ generation = 1 /\ observed = First /\ reviewed = [content |-> 0, key |-> None]
  /\ outcome = None /\ tasks = {} /\ notes = {} /\ excused = FALSE
  /\ asked = 0 /\ steps = 0

Writer ==
  \/ \E text \in 0..MaxText : Type(text)
  \/ \E draft \in Drafts : OpenDraft(draft) \/ OpenTab(draft)
  \/ ToggleLock \/ ToggleEnabled \/ SetMode \/ SetupChanges
  \/ TriggerManualReview \/ StopAllAi

Load == TabOpens \/ OpeningFails
Timers == WaitingEnds \/ WarningEnds
Answers == \E r \in reviews : KeyLoaded(r) \/ Answered(r) \/ Failed(r)

Next == Writer \/ Load \/ Timers \/ Answers

Spec == Init /\ [][Next]_vars

\* Loads end, timers fire and calls settle; the writer need not do anything.
FairSpec == Spec /\ WF_vars(Load) /\ WF_vars(Timers) /\ WF_vars(Answers)

-----------------------------------------------------------------------------
(* Properties. *)

\* Notes only go where they came from: the text and the draft on screen are the
\* very ones the model was shown, whatever was typed, opened or stopped between
\* the request and its answer (the check after generateObject in runReview).
NotesFit == \A n \in notes : n.text = n.onText /\ n.draft = n.onDraft

Live(r) == ~r.aborted
Holder == {r \in reviews : r.id = controller}

\* The face and the indicator tell what goes on: at most one review is not
\* aborted, "reviewing" is shown exactly while it asks, "thinking" only before
\* it does, and what keeps the processing indicator on is a request.
PhaseTells ==
  /\ {r \in reviews : Live(r)} = Holder
  /\ phase = "reviewing" <=> \E r \in Holder : r.stage = "asking"
  /\ phase = "thinking" => timer.stage = "warning" \/ \E r \in Holder : r.stage = "key"
  /\ timer.stage = "warning" => phase = "thinking"
  /\ timer.stage # "none" => controller = 0 /\ timer.content = Content
  /\ tasks \subseteq {r.id : r \in {r \in reviews : r.stage = "asking"}}

\* A review is due: the text on screen may be reviewed and has not been, or has
\* changed enough since.
Due ==
  /\ settings.enabled /\ settings.mode = "continuous" /\ ~ReadOnly
  /\ Content # 0
  /\ reviewed.content = 0 \/ Distance(reviewed.content, Content) >= MinDiff

\* A review that is due comes once the writer pauses, unless it fails or something
\* other than typing intervenes: no keystroke, however timed, loses it for good.
\* ("excused" names what may intervene: stopping AI, a setting, a lock, a College
\* setup that is not ready, a failure, a discarded answer, a switch unseen.)
ReviewComes == Due ~> (~Due \/ excused)

\* docs/autoai.md: "Switching documents or drafts always schedules a fresh review
\* regardless of text similarity."
FreshAfterSwitch ==
  [][shown' # shown /\ settings.enabled /\ settings.mode = "continuous"
       /\ shown' \notin locked /\ texts[shown'] # 0
     => timer'.stage = "waiting"]_vars
=============================================================================
