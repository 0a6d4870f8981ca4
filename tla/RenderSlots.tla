---------------------------- MODULE RenderSlots ----------------------------
(***************************************************************************)
(* The permits of POST /v1/render (app/api/routes.py, app/deps.py).  Each   *)
(* request is a task on one event loop.  It waits for the process-wide      *)
(* asyncio.Semaphore for at most max_queue_wait_secs, renders, and gives    *)
(* the permit back.  A step is what a task does between two awaits, so     *)
(* steps are atomic; which ready task runs next is left open.              *)
(*                                                                         *)
(* asyncio itself is external: Semaphore and wait_for are modelled as the   *)
(* Python the project requires (3.14) implements them, down to the state   *)
(* of the future each waiter awaits, because the route relies on what they *)
(* do when a grant, a timeout and a cancellation meet.                     *)
(*                                                                         *)
(* renderer.render is one step here, RenderEnds, of unknown duration; the   *)
(* module RenderProject opens it.                                          *)
(***************************************************************************)
EXTENDS Integers, FiniteSets, Sequences

CONSTANTS Request,        \* the render requests
          MaxConcurrent   \* settings.max_concurrent_renders

ASSUME RequestAssumption == IsFiniteSet(Request)
ASSUME MaxConcurrentAssumption == MaxConcurrent \in Nat \ {0}

VARIABLES
  pc,             \* where each request's task is
  value,          \* Semaphore._value: permits nobody owns
  waiters,        \* Semaphore._waiters: the deque, as the requests waiting
  fut,            \* the state of the future each of them awaits
  cancelling,     \* who asked for the task to be cancelled and was not yet heard
  answer,         \* how the route ended
  queue_waiting,  \* gauge prelum_render_queue_waiting
  concurrent      \* gauge prelum_concurrent_renders

vars == <<pc, value, waiters, fut, cancelling, answer, queue_waiting, concurrent>>

Place   == {"new", "queued", "rendering", "answered"}
Future  == {"none", "pending", "result", "cancelled"}
Source  == {"timeout", "client"}
Answer  == {"none", "refused", "overloaded", "cancelled", "rendered", "failed"}

Queued    == {r \in Request : pc[r] = "queued"}
Rendering == {r \in Request : pc[r] = "rendering"}
Pending(f) == {r \in Request : f[r] = "pending"}

\* A permit is owned from the moment the future it was granted through has a
\* result, which is before its task runs again.
Held == {r \in Request : pc[r] = "rendering" \/ fut[r] = "result"}

\* Types, and that the deque lists the queued requests, each of them once.
TypeOK == /\ pc \in [Request -> Place]
          /\ value \in 0..MaxConcurrent
          /\ waiters \in Seq(Request)
          /\ fut \in [Request -> Future]
          /\ cancelling \in [Request -> SUBSET Source]
          /\ answer \in [Request -> Answer]
          /\ queue_waiting \in Nat
          /\ concurrent \in Nat
          /\ \A r \in Request : fut[r] # "none" <=> pc[r] = "queued"
          /\ \A r \in Request : pc[r] = "queued" <=>
                                \E i \in DOMAIN waiters : waiters[i] = r
          /\ \A i, j \in DOMAIN waiters : waiters[i] = waiters[j] => i = j

Init == /\ pc = [r \in Request |-> "new"]
        /\ value = MaxConcurrent
        /\ waiters = <<>>
        /\ fut = [r \in Request |-> "none"]
        /\ cancelling = [r \in Request |-> {}]
        /\ answer = [r \in Request |-> "none"]
        /\ queue_waiting = 0
        /\ concurrent = 0

-----------------------------------------------------------------------------
(* asyncio.Semaphore *)

\* Semaphore.locked(): also true while a waiter has not been cancelled, so that
\* a newcomer does not overtake one that was granted and has not run yet.
Locked == value = 0 \/ \E i \in DOMAIN waiters : fut[waiters[i]] # "cancelled"

Ahead(r, s) == \E i, j \in DOMAIN waiters :
                 i < j /\ waiters[i] = r /\ waiters[j] = s

\* Seeded fault: the line is served from its other end.
LastWaiters(f, k) ==
  {G \in SUBSET Pending(f) :
     /\ Cardinality(G) <= k
     /\ Cardinality(G) < k => G = Pending(f)
     /\ \A r \in G, s \in Pending(f) \ G : Ahead(s, r)}

\* The first k waiters whose future is pending, or all of them.
FirstWaiters(f, k) ==
  {G \in SUBSET Pending(f) :
     /\ Cardinality(G) <= k
     /\ Cardinality(G) < k => G = Pending(f)
     /\ \A r \in G, s \in Pending(f) \ G : Ahead(r, s)}

\* _wake_up_next called k times, k <= v: it grants a permit by setting the
\* result of a future.  v is _value and f the futures as they stand before.
WakeUp(v, f, k) ==
  \E G \in FirstWaiters(f, k) :
    /\ value' = v - Cardinality(G)
    /\ fut' = [r \in Request |-> IF r \in G THEN "result" ELSE f[r]]

\* Seeded fault: the waiter that leaves hands nothing on.
WakeNobody(v, f) == value' = v /\ fut' = f

\* The loop at the end of Semaphore.acquire(): as many as there are permits.
WakeAll(v, f) == WakeUp(v, f, v)

\* Semaphore.release().
Release(f) == WakeUp(value + 1, f, 1)

Without(q, r) == LET i == CHOOSE i \in DOMAIN q : q[i] = r
                 IN  SubSeq(q, 1, i - 1) \o SubSeq(q, i + 1, Len(q))

-----------------------------------------------------------------------------
(* The route *)

Finish(r, a) == /\ pc' = [pc EXCEPT ![r] = "answered"]
                /\ answer' = [answer EXCEPT ![r] = a]

\* More files than the instance allows: refused before the permit and before
\* any bookkeeping.
Refuse(r) == /\ pc[r] = "new"
             /\ Finish(r, "refused")
             /\ UNCHANGED <<value, waiters, fut, cancelling, queue_waiting, concurrent>>

\* acquire() does not suspend when the semaphore is not locked: the gauge of
\* waiting requests goes up and down in one step.
AcquireAtOnce(r) ==
  /\ pc[r] = "new"
  /\ ~Locked
  /\ value' = value - 1
  /\ pc' = [pc EXCEPT ![r] = "rendering"]
  /\ concurrent' = concurrent + 1
  /\ UNCHANGED <<waiters, fut, cancelling, answer, queue_waiting>>

Enqueue(r) ==
  /\ pc[r] = "new"
  /\ Locked
  /\ pc' = [pc EXCEPT ![r] = "queued"]
  /\ fut' = [fut EXCEPT ![r] = "pending"]
  /\ waiters' = Append(waiters, r)
  /\ queue_waiting' = queue_waiting + 1
  /\ UNCHANGED <<value, cancelling, answer, concurrent>>

\* Task.cancel(): cancels the future the task awaits when that is pending, and
\* otherwise is heard when the task next runs.
CancelTask(r, who) ==
  /\ who \notin cancelling[r]
  /\ cancelling' = [cancelling EXCEPT ![r] = @ \cup {who}]
  /\ fut' = [fut EXCEPT ![r] = IF @ = "pending" THEN "cancelled" ELSE @]
  /\ UNCHANGED <<pc, value, waiters, answer, queue_waiting, concurrent>>

\* Seeded fault: the wait is not bounded, as with `async with semaphore`.
NoQueueTimeout(r) == FALSE /\ CancelTask(r, "timeout")

\* max_queue_wait_secs is over: the timer of wait_for cancels the task.
QueueTimeout(r) == pc[r] = "queued" /\ CancelTask(r, "timeout")

\* The client hangs up, or the server is stopping.
Disconnect(r) == pc[r] \in {"queued", "rendering"} /\ CancelTask(r, "client")

\* The task runs again with the permit it waited for.
Admit(r) ==
  /\ fut[r] = "result"
  /\ cancelling[r] = {}
  /\ waiters' = Without(waiters, r)
  /\ WakeAll(value, [fut EXCEPT ![r] = "none"])
  /\ pc' = [pc EXCEPT ![r] = "rendering"]
  /\ queue_waiting' = queue_waiting - 1
  /\ concurrent' = concurrent + 1
  /\ UNCHANGED <<cancelling, answer>>

\* What acquire() puts back when it was cancelled with a result in hand.
GivenBack(r) == IF fut[r] = "result" THEN 1 ELSE 0

\* Seeded fault: only the 429 arm counts the waiting gauge down.
GaugeAfterShedOnly(r) ==
  IF cancelling[r] = {"timeout"} THEN queue_waiting - 1 ELSE queue_waiting

\* Both arms count it down: the one for TimeoutError, and the one for
\* CancelledError because `waiting` is still set.
GaugeAfterGivingUp(r) == queue_waiting - 1

\* The task runs again to be told it is cancelled.  wait_for turns that into a
\* TimeoutError, and the route into a 429, unless somebody else asked too.
GiveUp(r) ==
  /\ fut[r] \in {"result", "cancelled"}
  /\ cancelling[r] # {}
  /\ waiters' = Without(waiters, r)
  /\ WakeAll(value + GivenBack(r), [fut EXCEPT ![r] = "none"])
  /\ Finish(r, IF "client" \in cancelling[r] THEN "cancelled" ELSE "overloaded")
  /\ queue_waiting' = GaugeAfterGivingUp(r)
  /\ UNCHANGED <<cancelling, concurrent>>

\* What renderer.render can come to.  A cancelled one never returns a result; it
\* may still fail instead (RenderProject says when).
RenderResult(r) == IF "client" \in cancelling[r] THEN {"cancelled", "failed"}
                                                 ELSE {"rendered", "failed"}

\* Seeded fault: the release follows the render, and no finally is around it.
ReleaseOnSuccess(a) == IF a = "rendered" THEN Release(fut) ELSE WakeNobody(value, fut)

\* The finally around the render: the permit goes back however it ended.
ReleaseFinally(a) == Release(fut)

\* render() returns or raises, and the finally block releases the permit.
RenderEnds(r, a) ==
  /\ pc[r] = "rendering"
  /\ a \in RenderResult(r)
  /\ concurrent' = concurrent - 1
  /\ ReleaseFinally(a)
  /\ Finish(r, a)
  /\ UNCHANGED <<waiters, cancelling, queue_waiting>>

Finished == /\ \A r \in Request : pc[r] = "answered"
            /\ UNCHANGED vars

Resume(r) == Admit(r) \/ GiveUp(r)
AnyEnd(r) == \E a \in Answer : RenderEnds(r, a)

Next == \/ \E r \in Request : \/ Refuse(r) \/ AcquireAtOnce(r) \/ Enqueue(r)
                              \/ QueueTimeout(r) \/ Disconnect(r)
                              \/ Admit(r) \/ GiveUp(r) \/ AnyEnd(r)
        \/ Finished

\* The loop runs every task that is ready.
LoopFairness == \A r \in Request : WF_vars(Resume(r))

\* The timer of every wait_for expires.
TimersFire == \A r \in Request : WF_vars(QueueTimeout(r))

\* Every render comes to an end.
RendersEnd == \A r \in Request : WF_vars(AnyEnd(r))

Spec == Init /\ [][Next]_vars

FairSpec == Spec /\ LoopFairness

-----------------------------------------------------------------------------
(* Safety *)

\* No permit is lost or made up, whatever a grant, a timeout and a disconnect
\* do to each other: those in the semaphore and those owned always add up.
\* (tests/test_load_shedding.py: a leak would shrink capacity on every shed.)
PermitsConserved == value + Cardinality(Held) = MaxConcurrent

\* No wake-up is lost: a permit lies idle while a request waits only if another
\* waiter was granted one and has still to run, and will hand it on.
NoIdlePermit == value > 0 /\ Pending(fut) # {} =>
                  \E r \in Request : fut[r] = "result"

\* The two gauges tell the truth in every state a scrape can see, through every
\* arm of the route's exception handling.
GaugesTrue == /\ queue_waiting = Cardinality(Queued)
              /\ concurrent = Cardinality(Rendering)

\* No more renders run than there are permits.
AtMostMaxConcurrent == Cardinality(Rendering) <= MaxConcurrent

\* A permit is never given past a request that came earlier and still waits.
NoOvertaking ==
  \A r, s \in Request :
    (/\ r \notin Held /\ r \in Held'
     /\ fut[s] = "pending" /\ fut'[s] = "pending") => Ahead(r, s)

InArrivalOrder == [][NoOvertaking]_vars

\* What one step can rely on, and must leave behind.
IInv == TypeOK /\ PermitsConserved /\ GaugesTrue /\ NoIdlePermit

-----------------------------------------------------------------------------
(* Liveness *)

\* A request does not stand in the queue forever, even if the renders ahead of
\* it never end: max_queue_wait_secs bounds the wait (routes.py, render).
QueueWaitEnds ==
  TimersFire => \A r \in Request : (pc[r] = "queued") ~> (pc[r] # "queued")

\* Nobody starves: if renders end, a waiting request is handed a permit, or was
\* cancelled, without any timer having to save it.
NobodyStarves ==
  RendersEnd => \A r \in Request : (fut[r] = "pending") ~> (fut[r] # "pending")

-----------------------------------------------------------------------------
(* The abstract pool this implements.  A waiter whose future was cancelled is  *)
(* out of the line although its task has not run yet, and one whose future    *)
(* has a result already holds its permit.                                     *)
Pool == INSTANCE PermitPool WITH
          waiting <- Pending(fut),
          before  <- {p \in Pending(fut) \X Pending(fut) : Ahead(p[1], p[2])},
          holding <- Held,
          gone    <- {r \in Request : pc[r] = "answered" \/ fut[r] = "cancelled"}

\* The route and asyncio together keep the pool's promise, its fairness included.
ImplementsPool == Pool!Spec

=============================================================================
