----------------------------- MODULE AutoAIProofs -----------------------------
(***************************************************************************)
(* Theorems about AutoAI, for every set of drafts and all bounds.          *)
(***************************************************************************)
EXTENDS AutoAI, TLAPS

-------------------------------------------------------------------------------
(* The inductive invariant. *)

Review == [id : Nat \ {0}, stage : {"key", "asking"}, content : 0 .. MaxText,
           generation : Nat, target : [tab : Tabs, draft : Drafts], aborted : BOOLEAN]

Timer == [stage : {"none", "waiting", "warning"}, content : 0 .. MaxText, generation : Nat]

TypeOK ==
  /\ shown \in Drafts /\ texts \in [Drafts -> 0 .. MaxText]
  /\ where \in [tab : Tabs, draft : Drafts]
  /\ opening \in Drafts \cup {None}
  /\ locked \subseteq Drafts
  /\ settings \in [enabled : BOOLEAN, mode : {"manual", "continuous"}, ready : BOOLEAN]
  /\ timer \in Timer /\ reviews \subseteq Review
  /\ controller \in Nat /\ asked \in Nat /\ generation \in Nat
  /\ phase \in {"idle", "thinking", "reviewing"}
  /\ tasks \subseteq Nat

\* Ids tell reviews apart, and none is given out twice.
IdsOK ==
  /\ controller <= asked
  /\ \A r \in reviews : r.id <= asked
  /\ \A r, s \in reviews : r.id = s.id => r = s

\* What makes a late answer fit: a review that is not aborted was given the text
\* on screen, because every change of the text that could reach it aborts it, and
\* while AutoAI is off there is none.
WatchOK ==
  /\ where.draft = shown
  /\ \A r \in reviews : ~r.aborted => r.content = Content /\ settings.enabled
  /\ timer.stage # "none" => settings.enabled

EngineInv == TypeOK /\ IdsOK /\ WatchOK /\ PhaseTells

-------------------------------------------------------------------------------
(* The reviews after an abort, after a start and after a return. *)

\* Reviews none of which is live; the requests that are out are still out.
NoneLive(R) ==
  /\ R \subseteq Review
  /\ \A s \in R : s.aborted /\ s.id <= asked
  /\ \A s, t \in R : s.id = t.id => s = t
  /\ \A r \in reviews : r.stage = "asking" => \E s \in R : s.id = r.id /\ s.stage = "asking"

\* Aborting through the controller leaves no live review, because the controller
\* is that of the only one.
LEMMA AbortLeavesNoneLive ==
  ASSUME EngineInv PROVE NoneLive(Aborted(controller))
  <1> DEFINE A(r) == IF r.id = controller THEN [r EXCEPT !.aborted = TRUE] ELSE r
  <1>1. \A r \in reviews : /\ A(r) \in Review /\ A(r).id = r.id /\ A(r).stage = r.stage
                           /\ A(r).aborted
    <2> SUFFICES ASSUME NEW r \in reviews
                 PROVE  /\ A(r) \in Review /\ A(r).id = r.id /\ A(r).stage = r.stage
                        /\ A(r).aborted
      OBVIOUS
    <2>1. r \in Review
      BY DEF EngineInv, TypeOK
    <2>2. r.id # controller => r.aborted
      BY DEF EngineInv, PhaseTells, Live, Holder
    <2> QED
      BY <2>1, <2>2 DEF Review
  <1>2. \A s \in Aborted(controller) : \E r \in reviews : s = A(r)
    BY DEF Aborted
  <1>3. \A r \in reviews : A(r) \in Aborted(controller)
    BY DEF Aborted
  <1> HIDE DEF A
  <1>4. Aborted(controller) \subseteq Review
    BY <1>1, <1>2
  <1>5. \A s \in Aborted(controller) : s.aborted /\ s.id <= asked
    BY <1>1, <1>2 DEF EngineInv, IdsOK
  <1>6. \A s, t \in Aborted(controller) : s.id = t.id => s = t
    BY <1>1, <1>2 DEF EngineInv, IdsOK
  <1>7. \A r \in reviews : r.stage = "asking"
           => \E s \in Aborted(controller) : s.id = r.id /\ s.stage = "asking"
    BY <1>1, <1>3
  <1> QED
    BY <1>4, <1>5, <1>6, <1>7 DEF NoneLive

\* The part of the state that the engine reads and does not write.
WorldOK ==
  /\ shown \in Drafts /\ texts \in [Drafts -> 0 .. MaxText]
  /\ where \in [tab : Tabs, draft : Drafts] /\ where.draft = shown
  /\ opening \in Drafts \cup {None} /\ locked \subseteq Drafts
  /\ settings \in [enabled : BOOLEAN, mode : {"manual", "continuous"}, ready : BOOLEAN]

\* The invariant describes a world the engine can be in.
LEMMA WorldFromInv == EngineInv => WorldOK
  BY DEF EngineInv, TypeOK, WatchOK, WorldOK

\* The review is aborted and nothing, or a timer for the text on screen, is left.
LEMMA AbortKeepsInv ==
  ASSUME EngineInv, WorldOK', reviews' = Aborted(controller), controller' = 0,
         phase' = "idle", asked' = asked, tasks' \subseteq tasks,
         timer' \in Timer, timer'.stage \in {"none", "waiting"},
         timer'.stage # "none" => timer'.content = Content' /\ settings'.enabled,
         generation' \in Nat
  PROVE  EngineInv'
  <1>1. NoneLive(reviews')
    BY AbortLeavesNoneLive
  <1>2. TypeOK' /\ IdsOK' /\ WatchOK'
    BY <1>1 DEF EngineInv, TypeOK, IdsOK, WatchOK, WorldOK, NoneLive
  <1>3. PhaseTells'
    <2>1. {r \in reviews' : ~r.aborted} = {} /\ {r \in reviews' : r.id = 0} = {}
      BY <1>1 DEF NoneLive, Review
    <2>2. tasks' \subseteq {r.id : r \in {r \in reviews' : r.stage = "asking"}}
      BY <1>1 DEF EngineInv, PhaseTells, NoneLive
    <2> QED
      BY <2>1, <2>2 DEF PhaseTells, Holder, Live
  <1> QED
    BY <1>2, <1>3 DEF EngineInv

\* A review starts with the text on screen, after the one before it was aborted,
\* and no timer is left.
LEMMA RunKeepsInv ==
  ASSUME EngineInv, WorldOK', timer' = NoTimer, tasks' = tasks, generation' = generation,
         NEW forGeneration \in Nat, NEW face \in {"idle", "thinking"},
         RunReview(Content, forGeneration, face),
         settings.enabled, settings' = settings, texts' = texts, shown' = shown
  PROVE  EngineInv'
  <1>1. NoTimer \in Timer
    BY AutoAIAssumption DEF NoTimer, Timer
  <1>2. CASE Content = 0 \/ ~settings.ready
    <2>1. phase' = "idle" /\ reviews' = Aborted(controller) /\ controller' = 0 /\ asked' = asked
      BY <1>2 DEF RunReview
    <2> QED
      BY <1>1, <2>1, AbortKeepsInv DEF NoTimer, EngineInv, TypeOK
  <1>3. CASE ~(Content = 0 \/ ~settings.ready)
    <2> DEFINE review == [id |-> asked + 1, stage |-> "key", content |-> Content,
                          generation |-> forGeneration, target |-> where,
                          aborted |-> FALSE]
    <2>1. /\ asked' = asked + 1 /\ controller' = asked + 1 /\ phase' = face
          /\ reviews' = Aborted(controller) \cup {review}
      BY <1>3 DEF RunReview
    <2>2. NoneLive(Aborted(controller))
      BY AbortLeavesNoneLive
    <2>3. Content \in 0 .. MaxText /\ asked \in Nat /\ Content' = Content
      BY DEF EngineInv, TypeOK, Content
    <2>4. review \in Review
      BY <2>3 DEF Review, EngineInv, TypeOK
    <2>5. \A r \in reviews' : r = review \/ (r \in Review /\ r.aborted /\ r.id <= asked)
      BY <2>1, <2>2 DEF NoneLive
    <2>6. TypeOK' /\ IdsOK' /\ WatchOK'
      <3>1. \A r, s \in reviews' : r.id = s.id => r = s
        <4>1. \A r \in Aborted(controller) : r.id # review.id
          BY <2>2, <2>3 DEF NoneLive, Review
        <4>2. \A r, s \in Aborted(controller) : r.id = s.id => r = s
          BY <2>2 DEF NoneLive
        <4> HIDE DEF review
        <4> QED
          BY <2>1, <4>1, <4>2
      <3>2. TypeOK'
        <4>1. reviews' \subseteq Review
          BY <2>1, <2>2, <2>4 DEF NoneLive
        <4>2. asked' \in Nat /\ controller' \in Nat /\ tasks' \subseteq Nat /\ generation' \in Nat
          BY <2>1, <2>3 DEF TypeOK, EngineInv
        <4> QED
          BY <1>1, <2>1, <4>1, <4>2 DEF WorldOK, TypeOK
      <3>3. IdsOK'
        BY <3>1, <2>1, <2>3, <2>5 DEF IdsOK, Review
      <3>4. WatchOK'
        BY <2>3, <2>5 DEF WatchOK, WorldOK, NoTimer
      <3> QED
        BY <3>2, <3>3, <3>4
    <2>7. PhaseTells'
      <3>1. \A r \in reviews' : (~r.aborted <=> r = review) /\ (r.id = controller' <=> r = review)
        BY <2>1, <2>3, <2>5 DEF Review
      <3>2. review \in reviews' /\ review.stage = "key"
        BY <2>1
      <3>3. tasks' \subseteq {r.id : r \in {r \in reviews' : r.stage = "asking"}}
        BY <2>1, <2>2 DEF EngineInv, PhaseTells, NoneLive
      <3> HIDE DEF review
      <3>4. {r \in reviews' : ~r.aborted} = {review}
             /\ {r \in reviews' : r.id = controller'} = {review}
        BY <3>1, <3>2
      <3> QED
        BY <2>1, <3>2, <3>3, <3>4 DEF PhaseTells, Holder, Live, NoTimer
    <2> QED
      BY <2>6, <2>7 DEF EngineInv
  <1> QED
    BY <1>2, <1>3

\* A review returns: it takes its id out of the controller and the indicator.
LEMMA FinallyKeepsInv ==
  ASSUME EngineInv, NEW r \in reviews, Finally(r),
         UNCHANGED <<world, settings, timer, generation, asked>>
  PROVE  EngineInv'
  <1>1. /\ reviews' = reviews \ {r} /\ tasks' = tasks \ {r.id}
        /\ controller' = IF controller = r.id THEN 0 ELSE controller
        /\ phase' = IF controller = r.id THEN "idle" ELSE phase
    BY DEF Finally
  <1>2. Content' = Content
    BY DEF Content, world
  <1>3. r \in Review /\ r.id # 0
    BY DEF EngineInv, TypeOK, Review
  <1>4. TypeOK' /\ WatchOK'
    BY <1>1, <1>2 DEF EngineInv, TypeOK, WatchOK, world
  <1>5. IdsOK'
    BY <1>1 DEF EngineInv, TypeOK, IdsOK
  <1>6. \A s \in reviews' : s.id # r.id /\ s.id # 0
    BY <1>1 DEF EngineInv, IdsOK, TypeOK, Review
  <1>7. tasks' \subseteq {s.id : s \in {s \in reviews' : s.stage = "asking"}}
    BY <1>1 DEF EngineInv, PhaseTells
  <1>8. \A s \in reviews : ~s.aborted <=> s.id = controller
    BY DEF EngineInv, PhaseTells, Holder, Live
  <1>9. \A s \in reviews' : ~s.aborted <=> s.id = controller'
    BY <1>1, <1>6, <1>8
  <1>10. CASE controller = r.id
    <2>1. controller' = 0 /\ phase' = "idle"
      BY <1>1, <1>10
    <2>2. \A s \in reviews' : s.aborted
      BY <1>6, <1>9, <2>1 DEF EngineInv, TypeOK, Review
    <2>3. timer.stage = "none" /\ timer' = timer
      BY <1>3, <1>10 DEF EngineInv, PhaseTells
    <2> QED
      BY <1>4, <1>5, <1>7, <1>9, <2>1, <2>2, <2>3 DEF EngineInv, PhaseTells, Holder, Live
  <1>11. CASE controller # r.id
    <2>1. controller' = controller /\ phase' = phase /\ timer' = timer
      BY <1>1, <1>11
    <2>2. Holder' = Holder
      BY <1>1, <1>11, <2>1 DEF Holder
    <2>3. {s \in reviews' : Live(s)} = Holder'
      BY <1>9 DEF Holder, Live
    <2> QED
      BY <1>2, <1>4, <1>5, <1>7, <2>1, <2>2, <2>3 DEF EngineInv, PhaseTells
  <1> QED
    BY <1>10, <1>11

-------------------------------------------------------------------------------
(* Steps. *)

\* The content store emits: a change aborts the review under way, if any.
LEMMA EmissionKeepsInv ==
  ASSUME EngineInv, WorldOK', settings' = settings, asked' = asked, tasks' = tasks,
         NEW changed, NEW readOnly, NEW key,
         Emission(changed, Content', readOnly, key),
         ~changed => Content' = Content
  PROVE  EngineInv'
  <1>0. Content' \in 0 .. MaxText
    BY DEF WorldOK, Content
  <1>1. CASE changed /\ settings.enabled
    <2>1. ContentEmitted(Content', readOnly, observed, key, settings)
      BY <1>1 DEF Emission
    <2>2. /\ generation' = generation + 1 /\ reviews' = Aborted(controller)
          /\ controller' = 0 /\ phase' = "idle"
          /\ \/ timer' = NoTimer
             \/ timer' = [stage |-> "waiting", content |-> Content', generation |-> generation + 1]
      BY <2>1 DEF ContentEmitted
    <2>3. generation' \in Nat
      BY <2>2 DEF EngineInv, TypeOK
    <2>4. /\ timer' \in Timer /\ timer'.stage \in {"none", "waiting"}
          /\ timer'.stage # "none" => timer'.content = Content'
      BY <1>0, <2>2, <2>3, AutoAIAssumption DEF NoTimer, Timer
    <2> QED
      BY <1>1, <2>2, <2>3, <2>4, AbortKeepsInv
  <1>2. CASE ~(changed /\ settings.enabled)
    <2>1. UNCHANGED <<timer, reviews, controller, phase, generation>>
      BY <1>2 DEF Emission
    <2>2. TypeOK' /\ IdsOK'
      BY <2>1 DEF EngineInv, TypeOK, IdsOK, WorldOK
    <2>3. settings.enabled => Content' = Content
      BY <1>2
    <2>4. \A r \in reviews : ~r.aborted => r.content = Content /\ settings.enabled
      BY DEF EngineInv, WatchOK
    <2>5. WatchOK'
      BY <2>1, <2>3, <2>4 DEF EngineInv, WatchOK, WorldOK
    <2>6. Holder' = Holder /\ {r \in reviews' : Live(r)} = {r \in reviews : Live(r)}
      BY <2>1 DEF Holder
    <2>7. PhaseTells'
      BY <2>1, <2>3, <2>6 DEF EngineInv, WatchOK, PhaseTells
    <2> QED
      BY <2>2, <2>5, <2>7 DEF EngineInv
  <1> QED
    BY <1>1, <1>2

\* The engine is left alone: the text on screen and, if it is on, AutoAI too.
LEMMA IdleKeepsInv ==
  ASSUME EngineInv, WorldOK',
         UNCHANGED <<timer, reviews, controller, phase, generation, tasks, asked>>,
         Content' = Content, settings.enabled => settings'.enabled
  PROVE  EngineInv'
  <1>1. TypeOK' /\ IdsOK'
    BY DEF EngineInv, TypeOK, IdsOK, WorldOK
  <1>2. WatchOK'
    BY DEF EngineInv, WatchOK, WorldOK
  <1>3. Holder' = Holder /\ {r \in reviews' : Live(r)} = {r \in reviews : Live(r)}
    BY DEF Holder
  <1>4. PhaseTells'
    BY <1>3 DEF EngineInv, PhaseTells
  <1> QED
    BY <1>1, <1>2, <1>4 DEF EngineInv

\* Every step preserves the invariant.
LEMMA StepEngineInv == EngineInv /\ [Next]_vars => EngineInv'
  <1> SUFFICES ASSUME EngineInv, [Next]_vars PROVE EngineInv'
    OBVIOUS
  <1>0. TypeOK /\ WorldOK
    BY WorldFromInv DEF EngineInv
  <1>1. ASSUME NEW text \in 0 .. MaxText, Type(text) PROVE EngineInv'
    <2>1. texts' = [texts EXCEPT ![shown] = text]
          /\ UNCHANGED <<shown, where, opening, locked, settings>>
      BY <1>1 DEF Type
    <2>2. WorldOK' /\ Content' = text
      BY <1>0, <2>1 DEF WorldOK, Content
    <2>3. Emission(TRUE, Content', ReadOnly, where.draft) /\ asked' = asked /\ tasks' = tasks
      BY <1>1, <2>2 DEF Type
    <2> QED
      BY <2>1, <2>2, <2>3, EmissionKeepsInv, Zenon
  <1>2. ASSUME NEW draft \in Drafts, Commit(draft), steps' \in {steps, steps + 1}
        PROVE  EngineInv'
    <2>1. /\ shown' = draft /\ where' = At(draft) /\ opening' = None
          /\ UNCHANGED <<texts, locked, settings, tasks, asked>>
      BY <1>2 DEF Commit
    <2>2. WorldOK' /\ Content' = texts[draft]
      BY <1>0, <2>1, AutoAIAssumption DEF WorldOK, Content, At
    <2>3. Emission(texts[draft] # Content, Content', draft \in locked, draft)
      BY <1>2, <2>2 DEF Commit
    <2> QED
      BY <2>1, <2>2, <2>3, EmissionKeepsInv, Zenon
  <1>3. ASSUME NEW draft \in Drafts, OpenDraft(draft) PROVE EngineInv'
    BY <1>2, <1>3 DEF OpenDraft, Step
  <1>4. ASSUME NEW draft \in Drafts, OpenTab(draft) PROVE EngineInv'
    <2>1. WorldOK' /\ Content' = Content
      BY <1>0, <1>4, AutoAIAssumption DEF OpenTab, WorldOK, Content
    <2> QED
      BY <1>4, <2>1, IdleKeepsInv DEF OpenTab, engine
  <1>5. CASE TabOpens
    <2>1. opening \in Drafts /\ Commit(opening) /\ steps' = steps
      BY <1>0, <1>5 DEF TabOpens, WorldOK
    <2> QED
      BY <1>2, <2>1
  <1>6. CASE OpeningFails
    <2>1. WorldOK' /\ Content' = Content
      BY <1>0, <1>6, AutoAIAssumption DEF OpeningFails, WorldOK, Content, At
    <2> QED
      BY <1>6, <2>1, IdleKeepsInv DEF OpeningFails, engine, history
  <1>7. CASE ToggleLock
    <2>1. WorldOK' /\ Content' = Content
      BY <1>0, <1>7 DEF ToggleLock, WorldOK, Content
    <2> QED
      BY <1>7, <2>1, IdleKeepsInv DEF ToggleLock, engine
  <1>8. CASE ToggleEnabled
    <2> DEFINE set == [settings EXCEPT !.enabled = ~@]
    <2>1. settings' = set /\ UNCHANGED <<world, tasks, asked>> /\ set.enabled = ~settings.enabled
      BY <1>0, <1>8 DEF ToggleEnabled, WorldOK
    <2>2. WorldOK' /\ Content' = Content /\ Content \in 0 .. MaxText
      BY <1>0, <2>1 DEF WorldOK, Content, world
    <2>3. CASE set.enabled
      <3>1. ContentEmitted(Content, ReadOnly, where.draft, where.draft, set)
        BY <1>8, <2>3 DEF ToggleEnabled
      <3>2. /\ generation' = generation + 1 /\ reviews' = Aborted(controller)
            /\ controller' = 0 /\ phase' = "idle"
            /\ \/ timer' = NoTimer
               \/ timer' = [stage |-> "waiting", content |-> Content,
                            generation |-> generation + 1]
        BY <3>1 DEF ContentEmitted
      <3>3. generation' \in Nat
        BY <1>0, <3>2 DEF TypeOK
      <3>4. /\ timer' \in Timer /\ timer'.stage \in {"none", "waiting"}
            /\ timer'.stage # "none" => timer'.content = Content'
        BY <2>2, <3>2, <3>3, AutoAIAssumption DEF NoTimer, Timer
      <3> QED
        BY <2>1, <2>2, <2>3, <3>2, <3>3, <3>4, AbortKeepsInv
    <2>4. CASE ~set.enabled
      <3>1. CancelPendingReview /\ generation' = generation
        BY <1>8, <2>4 DEF ToggleEnabled
      <3>2. timer' \in Timer /\ timer'.stage = "none"
        BY <3>1, AutoAIAssumption DEF CancelPendingReview, NoTimer, Timer
      <3> QED
        BY <1>0, <2>1, <2>2, <3>1, <3>2, AbortKeepsInv DEF CancelPendingReview, TypeOK
    <2> QED
      BY <2>3, <2>4
  <1>9. CASE SetMode \/ SetupChanges
    <2>1. /\ UNCHANGED <<world, engine, asked>> /\ settings'.enabled = settings.enabled
          /\ settings' \in [enabled : BOOLEAN, mode : {"manual", "continuous"}, ready : BOOLEAN]
      BY <1>0, <1>9 DEF SetMode, SetupChanges, WorldOK
    <2>2. WorldOK' /\ Content' = Content
      BY <1>0, <2>1 DEF WorldOK, Content, world
    <2> QED
      BY <2>1, <2>2, IdleKeepsInv DEF engine
  <1>10. CASE TriggerManualReview
    <2>1. UNCHANGED <<world, settings, generation, tasks>> /\ settings.enabled /\ timer' = NoTimer
      BY <1>10 DEF TriggerManualReview
    <2>2. WorldOK' /\ UNCHANGED <<texts, shown>>
      BY <1>0, <2>1 DEF WorldOK, world
    <2>3. RunReview(Content, generation, "idle") /\ generation \in Nat
      BY <1>0, <1>10 DEF TriggerManualReview, TypeOK
    <2> QED
      BY <2>1, <2>2, <2>3, RunKeepsInv
  <1>11. CASE StopAllAi
    <2>1. UNCHANGED <<world, settings, generation, asked>> /\ tasks' = {}
      BY <1>11 DEF StopAllAi
    <2>2. WorldOK' /\ Content' = Content /\ generation \in Nat
      BY <1>0, <2>1 DEF WorldOK, world, Content, TypeOK
    <2>3. CASE settings.enabled
      <3>1. CancelPendingReview
        BY <1>11, <2>3 DEF StopAllAi
      <3>2. timer' \in Timer /\ timer'.stage = "none"
        BY <3>1, AutoAIAssumption DEF CancelPendingReview, NoTimer, Timer
      <3> QED
        BY <2>1, <2>2, <3>1, <3>2, AbortKeepsInv DEF CancelPendingReview
    <2>4. CASE ~settings.enabled
      <3>1. reviews' = Aborted(controller) /\ UNCHANGED <<timer, controller, phase>>
        BY <1>11, <2>4 DEF StopAllAi
      <3>2. timer.stage = "none" /\ \A r \in reviews : r.aborted
        BY <2>4 DEF EngineInv, WatchOK
      <3>3. \A r \in reviews : r.id # controller
        BY <3>2 DEF EngineInv, PhaseTells, Holder, Live
      <3>4. \A r \in Aborted(controller) : r \in reviews
        BY <3>3 DEF Aborted
      <3>5. \A r \in reviews : r \in Aborted(controller)
        BY <3>3 DEF Aborted
      <3>6. reviews' = reviews
        BY <3>1, <3>4, <3>5
      <3>7. TypeOK' /\ IdsOK' /\ WatchOK'
        BY <1>0, <2>1, <2>2, <3>1, <3>6 DEF EngineInv, TypeOK, IdsOK, WatchOK, world
      <3>8. Holder' = Holder /\ {r \in reviews' : Live(r)} = {r \in reviews : Live(r)}
        BY <3>1, <3>6 DEF Holder
      <3>9. PhaseTells'
        BY <2>1, <2>2, <3>1, <3>6, <3>8 DEF EngineInv, PhaseTells
      <3> QED
        BY <3>7, <3>9 DEF EngineInv
    <2> QED
      BY <2>3, <2>4
  <1>12. CASE WaitingEnds
    <2>1. /\ timer.stage = "waiting" /\ timer' = [timer EXCEPT !.stage = "warning"]
          /\ phase' = "thinking"
          /\ UNCHANGED <<world, settings, reviews, controller, generation, tasks, asked>>
      BY <1>12 DEF WaitingEnds, history
    <2>2. timer' \in Timer /\ timer'.stage = "warning" /\ timer'.content = timer.content
      BY <1>0, <2>1 DEF TypeOK, Timer
    <2>3. TypeOK' /\ IdsOK' /\ WatchOK'
      BY <1>0, <2>1, <2>2 DEF EngineInv, TypeOK, IdsOK, WatchOK, world, Content
    <2>4. controller = 0 /\ phase # "reviewing" /\ Content' = Content
      <3>1. controller = 0 /\ \A r \in reviews : r.id # 0
        BY <1>0, <2>1 DEF EngineInv, PhaseTells, TypeOK, Review
      <3> QED
        BY <2>1, <3>1 DEF EngineInv, PhaseTells, Holder, Content, world
    <2>5. Holder' = Holder /\ {r \in reviews' : Live(r)} = {r \in reviews : Live(r)}
      BY <2>1 DEF Holder
    <2>6. PhaseTells'
      BY <2>1, <2>2, <2>4, <2>5 DEF EngineInv, PhaseTells
    <2> QED
      BY <2>3, <2>6 DEF EngineInv
  <1>13. CASE WarningEnds
    <2>1. /\ UNCHANGED <<world, settings, generation, tasks>> /\ timer' = NoTimer
          /\ timer.stage = "warning" /\ RunReview(timer.content, timer.generation, phase)
      BY <1>13 DEF WarningEnds
    <2>2. WorldOK' /\ UNCHANGED <<texts, shown>>
      BY <1>0, <2>1 DEF WorldOK, world
    <2>3. timer.content = Content /\ timer.generation \in Nat
          /\ phase = "thinking" /\ settings.enabled
      BY <1>0, <2>1 DEF EngineInv, TypeOK, Timer, PhaseTells, WatchOK
    <2> QED
      BY <2>1, <2>2, <2>3, RunKeepsInv
  <1>14. ASSUME NEW r \in reviews, KeyLoaded(r) PROVE EngineInv'
    <2>1. r.stage = "key" /\ UNCHANGED <<world, settings, timer, generation, asked>>
      BY <1>14 DEF KeyLoaded
    <2>2. CASE r.aborted \/ ~settings.ready
      BY <1>14, <2>1, <2>2, FinallyKeepsInv DEF KeyLoaded
    <2>3. CASE ~(r.aborted \/ ~settings.ready)
      <3> DEFINE a == [r EXCEPT !.stage = "asking"]
      <3>1. /\ reviews' = (reviews \ {r}) \cup {a} /\ tasks' = tasks \cup {r.id}
            /\ phase' = "reviewing" /\ controller' = controller
        BY <1>14, <2>3 DEF KeyLoaded
      <3>2. r \in Review
        BY <1>0 DEF TypeOK
      <3>3. a \in Review /\ a.id = r.id /\ a.stage = "asking" /\ a.content = r.content /\ ~a.aborted
        BY <2>3, <3>2 DEF Review
      <3>4. \A s \in reviews \ {r} : s.id # r.id
        BY DEF EngineInv, IdsOK
      <3>5. ~r.aborted /\ r.id = controller
        BY <2>3 DEF EngineInv, PhaseTells, Holder, Live
      <3>6. \A s \in reviews \ {r} : s.aborted /\ s.id # controller
        BY <3>4, <3>5 DEF EngineInv, PhaseTells, Holder, Live
      <3> HIDE DEF a
      <3>7. TypeOK'
        <4>1. r.id \in Nat
          BY <3>2 DEF Review
        <4> QED
          BY <1>0, <2>1, <3>1, <3>3, <4>1 DEF TypeOK, world
      <3>8. IdsOK'
        BY <2>1, <3>1, <3>3, <3>4 DEF EngineInv, IdsOK
      <3>9. WatchOK'
        BY <2>1, <2>3, <3>1, <3>3, <3>6 DEF EngineInv, WatchOK, world, Content
      <3>10. Holder' = {a} /\ {s \in reviews' : Live(s)} = {a}
        BY <3>1, <3>3, <3>5, <3>6 DEF Holder, Live
      <3>11. tasks' \subseteq {s.id : s \in {s \in reviews' : s.stage = "asking"}}
        <4>1. \A s \in reviews : s.stage = "asking" => s \in reviews'
          BY <2>1, <3>1
        <4>2. a \in reviews'
          BY <3>1
        <4> QED
          BY <3>1, <3>3, <4>1, <4>2 DEF EngineInv, PhaseTells
      <3>12. timer.stage = "none"
        BY <3>2, <3>5 DEF EngineInv, PhaseTells, Review
      <3>13. PhaseTells'
        BY <2>1, <3>1, <3>3, <3>10, <3>11, <3>12 DEF PhaseTells
      <3> QED
        BY <3>7, <3>8, <3>9, <3>13 DEF EngineInv
    <2> QED
      BY <2>2, <2>3
  <1>15. ASSUME NEW r \in reviews, Answered(r) PROVE EngineInv'
    BY <1>15, FinallyKeepsInv DEF Answered
  <1>16. ASSUME NEW r \in reviews, Failed(r) PROVE EngineInv'
    BY <1>16, FinallyKeepsInv DEF Failed
  <1>17. CASE UNCHANGED vars
    <2>1. WorldOK' /\ Content' = Content
      BY <1>0, <1>17 DEF vars, world, WorldOK, Content
    <2> QED
      BY <1>17, <2>1, IdleKeepsInv DEF vars, engine, history
  <1> QED
    BY <1>1, <1>3, <1>4, <1>5, <1>6, <1>7, <1>8, <1>9, <1>10, <1>11, <1>12, <1>13,
       <1>14, <1>15, <1>16, <1>17 DEF Next, Writer, Load, Timers, Answers

\* It holds initially,
LEMMA InitEngineInv == Init => EngineInv
  <1> SUFFICES ASSUME Init PROVE EngineInv
    OBVIOUS
  <1>1. TypeOK
    BY AutoAIAssumption DEF Init, TypeOK, Timer, At
  <1>2. IdsOK /\ WatchOK
    BY DEF Init, IdsOK, WatchOK, At
  <1>3. PhaseTells
    BY DEF Init, PhaseTells, Holder, Live, Content
  <1> QED
    BY <1>1, <1>2, <1>3 DEF EngineInv

\* and so in every reachable state.
LEMMA EngineInvariant == Spec => []EngineInv
  BY InitEngineInv, StepEngineInv, PTL DEF Spec

\* The face and the indicator tell what goes on: one review at most is not aborted,
\* and the phase, the timer and the processing indicator name its stage.
THEOREM PhaseTellsTruth == Spec => []PhaseTells
  <1>1. EngineInv => PhaseTells
    BY DEF EngineInv
  <1> QED
    BY <1>1, EngineInvariant, PTL

\* Notes only go into the text and the draft that the model was shown.
THEOREM NotesFitTheirText == Spec => []NotesFit
  <1>1. Init => NotesFit
    BY DEF Init, NotesFit
  <1>2. EngineInv /\ NotesFit /\ [Next]_vars => NotesFit'
    <2> SUFFICES ASSUME EngineInv, NotesFit, [Next]_vars PROVE NotesFit'
      OBVIOUS
    <2>1. ASSUME NEW r \in reviews, Answered(r) PROVE NotesFit'
      <3>1. CASE StillCurrent(r)
        <4>1. r.content = Content /\ r.target.draft = shown
          BY <2>1, <3>1 DEF EngineInv, WatchOK, Answered, StillCurrent
        <4>2. \/ notes' = notes
              \/ notes' = notes \cup {[text |-> r.content, draft |-> r.target.draft,
                                       onText |-> Content, onDraft |-> shown]}
          BY <2>1, <3>1 DEF Answered
        <4> QED
          BY <4>1, <4>2 DEF NotesFit
      <3>2. CASE ~StillCurrent(r)
        BY <2>1, <3>2 DEF Answered, NotesFit
      <3> QED
        BY <3>1, <3>2
    <2>2. CASE notes' = notes
      BY <2>2 DEF NotesFit
    <2>3. notes' = notes \/ \E r \in reviews : Answered(r)
      BY DEF Next, Writer, Load, Timers, Answers, vars, history, Type, OpenDraft, OpenTab,
             Commit, TabOpens, OpeningFails, ToggleLock, ToggleEnabled, SetMode,
             SetupChanges, TriggerManualReview, StopAllAi, WaitingEnds, WarningEnds,
             KeyLoaded, Failed
    <2> QED
      BY <2>1, <2>2, <2>3
  <1> QED
    BY <1>1, <1>2, EngineInvariant, PTL DEF Spec
===============================================================================
