--------------------------- MODULE RenderService ---------------------------
(***************************************************************************)
(* POST /v1/render as a whole: the permits of RenderSlots around the        *)
(* renders of RenderProject (app/api/routes.py, app/render/renderer.py).    *)
(* The route calls render in the step in which it gets its permit, and     *)
(* gives the permit back in the step in which render returns or raises.    *)
(* RenderProject is extended, so a name of its own is the render's here.    *)
(***************************************************************************)
EXTENDS RenderProject, Sequences

CONSTANT MaxConcurrent   \* settings.max_concurrent_renders

VARIABLES pc, value, waiters, fut, cancelling, answer, queue_waiting, concurrent

Slots == INSTANCE RenderSlots

\* Those of the permits.
ASSUME RequestAssumption == IsFiniteSet(Request)
ASSUME MaxConcurrentAssumption == MaxConcurrent \in Nat \ {0}

slots       == <<pc, value, waiters, fut, cancelling, answer, queue_waiting, concurrent>>
serviceVars == <<slots, vars>>

ServiceInit == Slots!Init /\ Init

-----------------------------------------------------------------------------
\* What happens before a request has a permit leaves its render uncalled.
Wait(r) == /\ \/ Slots!Refuse(r)       \/ Slots!Enqueue(r)
              \/ Slots!QueueTimeout(r) \/ Slots!GiveUp(r)
           /\ UNCHANGED vars

StartRender(r) == /\ Slots!AcquireAtOnce(r) \/ Slots!Admit(r)
                  /\ Call(r)

\* A disconnect cancels the one task there is, wherever it awaits.
DisconnectQueued(r) == /\ pc[r] = "queued"
                       /\ Slots!Disconnect(r)
                       /\ UNCHANGED vars

DisconnectRendering(r) == pc[r] = "rendering" /\ Slots!Disconnect(r) /\ Disconnect(r)

\* How the arms of the route answer what render returned or raised.
AnswerTo(res) == CASE res = "document"  -> "rendered"
                   [] res = "cancelled" -> "cancelled"
                   [] OTHER             -> "failed"

\* Seeded fault: the permit is given back while the tree is being removed.
ReturnsEarly(r) == at[r] \notin {"cleanup", "ended"} /\ at'[r] \in {"cleanup", "ended"}

Returns(r) == at[r] # "ended" /\ at'[r] = "ended"

\* A step of the render; the finally block of the route runs with the last one.
RenderStep(r) == /\ Step(r)
                 /\ IF Returns(r) THEN Slots!RenderEnds(r, AnswerTo(result'[r]))
                                  ELSE UNCHANGED slots

ServiceFinished == /\ \A r \in Request : pc[r] = "answered" /\ jobs[r] = {}
                   /\ UNCHANGED serviceVars

ServiceNext == \/ \E r \in Request : \/ Wait(r) \/ StartRender(r) \/ RenderStep(r)
                                     \/ DisconnectQueued(r) \/ DisconnectRendering(r)
               \/ ServiceFinished

-----------------------------------------------------------------------------
(* Fairness: that of the event loop, the threads and the timers of both parts. *)

Resume(r) == \/ Slots!GiveUp(r) /\ UNCHANGED vars
             \/ Slots!Admit(r) /\ Call(r)

QueueTimeout(r) == Slots!QueueTimeout(r) /\ UNCHANGED vars

\* A step of the coroutine, and the end of the route's part if it is the last.
Coroutine(r) == CoroutineStep(r) /\ RenderStep(r)

Background(r) == /\ ThreadStep(r) \/ TypstDies(r) \/ ExitReported(r)
                 /\ UNCHANGED slots

Timer(r) == RenderTimeout(r) /\ UNCHANGED slots

ServiceFairness(r) ==
  /\ WF_serviceVars(Resume(r))    /\ WF_serviceVars(QueueTimeout(r))
  /\ WF_serviceVars(Coroutine(r)) /\ WF_serviceVars(Background(r))
  /\ WF_serviceVars(Timer(r))

ServiceSpec ==
  ServiceInit /\ [][ServiceNext]_serviceVars /\ \A r \in Request : ServiceFairness(r)

-----------------------------------------------------------------------------
(* Properties *)

\* docs/operations/configuration.md, PRELUM_MAX_CONCURRENT_RENDERS: "Typst
\* processes running at the same time".  Timeouts and hang-ups release permits
\* early in the code; none of them may leave a process running behind.  Disk use is
\* bounded with them: the trees of renders whose client stayed never outnumber the
\* permits, because each is held until its tree is gone.
ResourcesBounded ==
  /\ Cardinality({r \in Request : proc[r] = "running"}) <= MaxConcurrent
  /\ Cardinality({r \in Request : tree[r] # {} /\ ~hungUp[r]}) <= MaxConcurrent

\* Every request that came is answered, even if Typst never ends by itself.
EveryRequestAnswered == \A r \in Request : (pc[r] # "new") ~> (pc[r] = "answered")

\* The permits behave as RenderSlots says, and its hypothesis that every render
\* ends is met.
ImplementsSlots == Slots!FairSpec /\ Slots!RendersEnd

=============================================================================
