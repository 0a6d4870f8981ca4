# Prelum in TLA+

Prelum renders Typst templates over HTTP. A request carries the template's
source, data and files; the service writes them to a temporary directory, runs
the `typst` binary on it and returns a PDF, one image or a zip of page images.
It is a FastAPI application on one asyncio event loop, with worker threads
(`asyncio.to_thread`) for disk work and one child process per render.

This directory models the parts of Prelum in which the order of events, a
boundary or the combination of inputs decides what comes out. TLC checks the
models on small instances, and TLAPS proves every safety property that a passing run
checks for any number of requests, permits, files, pages, bytes and runs, and for
any data.

    tlc -workers 2 -config MCRenderSlots.cfg MCRenderSlots
    tlapm RenderSlotsProofs.tla

`PROJECT.json` names, for each definition, the lines of the source it stands for.

## 1. Inventory

| component | source | state it keeps | what happens to it |
| --- | --- | --- | --- |
| permits and load shedding | `api/routes.py` (`render`), `deps.py`, `core/metrics.py` | an `asyncio.Semaphore` with its deque of futures; two gauges; each request's task | refuse, acquire at once, queue, queue timeout, client disconnect, admit, give up, release |
| render lifecycle | `render/renderer.py` | the coroutine, its worker threads, the temporary tree, the Typst process | make directories, write files and template, spawn, compile, time out, cancel, kill, reap, collect, deliver, remove |
| page selection | `models.py`, `renderer.py` | none between requests; ranges, page lists, the archive | parse, bound, merge, ask Typst, collect, zip |
| files keys | `render/templates.py`, `renderer.py` | none between requests; a claimed-key table, the disk | validate each key, validate the set, decode and measure, write in order |
| request body limit | `main.py` (`BodyLimitMiddleware`) | a counter and a flag per request | count, refuse, drop the application's answer, send another |
| request id | `main.py` (`RequestIdMiddleware`) | a logging field per request | set a header |
| request validation | `models.py`, `core/output_rules.py`, `main.py` (`handle_validation_error`) | a list of errors per request | validate field by field, then the whole; report one of many errors; publish the rules |
| problem responses | `main.py`, `core/errors.py`, `api/routes.py` | two counters, the log | turn every exception into a problem document, count it, log it at a level |
| startup and settings | `core/config.py`, `main.py`, `__main__.py` | settings, fixed at start | validate settings, require a token, probe the memory limit |
| data prelude | `renderer.py` (`_json_to_typst`, `_write_bound_template`) | none | JSON to Typst source text in front of the template; an error that collects its path |
| constraints document | `core/constraints.py` | none | publish limits and rules |
| authentication and health | `api/routes.py` | none | compare a token, answer a constant |
| logging and Sentry | `core/logging.py`, `core/sentry.py` | library configuration | configure, redact |
| documentation scripts | `scripts/` | files in the repository | generate and compare artefacts |
| release workflow | `.github/workflows/` | git tags, registry, signatures, releases, one concurrency group | look up, tag, build, merge, sign, verify, release, fail, re-run |

How they interact. A request passes the request-id and body-limit middlewares,
is validated (fields, output options, page selection, files keys), waits for a permit,
and is rendered while it holds it. The route owns the permit and the gauges, and
calls the renderer in the step in which it gets the permit; the renderer's
coroutine awaits threads, the process and a timer; the thread's tree is shared
with the process. Cancelling the request's one task is how a stopping server, or
a hang-up the server notices, reaches all of them.

What is hard, and which properties answer it:

* **Grants meeting timeouts and cancellations.** A permit may be granted to a
  task that is cancelled before it runs. `PermitsConserved`, `NoIdlePermit`,
  `GaugesTrue`, `InArrivalOrder`, `NobodyStarves`.
* **Threads that cannot be cancelled.** An abandoned `to_thread` goes on writing
  to a tree that is being removed. `TreeRemoved`, `CallerFilesRemoved`.
* **A process that ends as its timer fires.** `InterruptionIsReported`,
  `TypstEndsFirst`, `DocumentIsWhole`.
* **What timeouts and hang-ups leave running.** `ResourcesBounded`.
* **Blame.** A crash of Typst, a kill and an out-of-memory look alike and must
  not all become a 4xx. `NoCrashBlamedOnCaller`.
* **Boundaries.** One page too many, overlapping ranges, the message that goes
  over the limit, a size worked out instead of measured. `NothingCutOff`,
  `WorkBounded`, `BufferBounded`, `LimitIsOnContent`.
* **Pairs of valid inputs.** Two keys that are valid alone. `EachFileKept`,
  `RefusedForCause`.
* **Data as source text.** What is quoted, nested, empty or stripped has to come out
  as it went in, and an error has to find its place. `DataReadsBack`, `PathLeadsToString`.
* **Two statements of one rule, many errors and one answer.** The output rules
  are applied in one place and published in another; an answer describes one
  error of many. `MirrorAgrees`, `OneErrorReported`, `UnnamedFailureGoesFirst`.
* **A host that is not what the settings say.** A wrapper that exits as a failed
  compile does, a root one byte too long, a probe that hangs, a variable that
  came out empty. `HostFaultNotBlamed`, `StartEnds`, `NothingSilentlyRelaxed`.
* **A root that changes under a render.** What was checked at the beginning is used a dozen
  awaits later. `HostFaultNotBlamed`.
* **Two answers, or none.** `AnsweredOnce`, `EveryRequestAnswered`.
* **One story told in five places.** Status, code, origin, log level and two counters
  of one outcome. `CountersAgree`, `BlameAgrees`.
* **A release that dies half-way, or twice at once.** `ReleaseIsWhole`,
  `CompletedIsNoOp`, `RetryCompletes`.

The full list, each at its line, is under `hazards` in `PROJECT.json`, including
those no property covers yet.

## 2. Modules

| module | what it is |
| --- | --- |
| `PermitPool` | abstract: a first-come-first-served pool of permits, its line an order of who stands before whom |
| `RenderSlots` | the render route around its semaphore; implements `PermitPool` |
| `RenderSlotsProofs` | its inductive invariant and the theorems; that it implements the steps of `PermitPool` |
| `RenderProject` | one or more renders: coroutine, threads, process, tree, timer |
| `RenderService` | `RenderSlots` around `RenderProject`, which it extends; implements `RenderSlots` and its hypothesis |
| `RenderProofs` | the inductive invariant of the renders and its theorems; that the invariants of both parts hold of the service, and what follows |
| `PageSelection` | from the text of `pages` to the entries of the archive |
| `PageSelectionProofs` | its inductive invariant and the theorems |
| `FileKeys` | validation of keys, then writing to either kind of file system |
| `FileContent` | decoding and measuring what a file holds |
| `Prelude` | JSON data to Typst source text, and how Typst reads it back, as recursive functions |
| `InlineProject` | one request on its way to disk and into the template: `FileKeys`, `FileContent` and `Prelude` composed |
| `InlineProjectProofs` | its inductive invariants and the theorems, those about `FileKeys`, `FileContent` and `Prelude` included |
| `Recursion` | what the proofs need to know of a recursive function, proved once for all of them |
| `BodyLimit` | the body-limit middleware between a server and an application |
| `RequestValidation` | from a request's fields to a job or a problem, beside the rules published for callers |
| `Answers` | one request from routing to its answer, `RequestValidation` included: exceptions, arms, handlers, counters |
| `AnswersProofs` | its inductive invariant and the theorems, those about `RequestValidation` included |
| `Startup` | from environment variables to a process that serves or refuses, on a host that changes |
| `Deployment` | `Startup` and the renders of the service that started, step by step on a host that changes under them |
| `MainProofs` | the inductive invariants and the theorems of `Startup`, `Deployment` and `BodyLimit`, what `main.py` brings together |
| `ReleaseWorkflow` | runs of `release.yml` and `build.yml`, their failures and re-runs, on one repository and registry |
| `ReleaseWorkflowProofs` | its inductive invariant and the theorems |
| `MC…` | the instances TLC checks |

### RenderSlots

`pc` is where a request's task is, `value`, `waiters` and `fut` are the
semaphore's count, its deque and the state of the future each waiter awaits,
`cancelling` who asked for the task to be cancelled, `answer` how the route
ended, and the two gauges are `metrics.py`'s. A step is what a task does between
two awaits, so it is atomic, and the order in which ready tasks run is left open
(asyncio's is one of them). asyncio is modelled from the implementation of the
Python version that `pyproject.toml` requires, because the route relies on what
`Semaphore.acquire`, `release`, `locked` and `wait_for` do when a grant, a timeout and a
cancellation meet: `Locked` looks at waiters that were granted, `GiveUp` puts a
granted permit back, and `WakeAll` hands on what is free.

| action | code |
| --- | --- |
| `Refuse` | `ensure_key_count_fits` raises before any bookkeeping |
| `AcquireAtOnce`, `Enqueue` | `wait_for(semaphore.acquire(), …)`, not suspended or suspended |
| `QueueTimeout`, `Disconnect` | the timer of `wait_for`, the cancellation of the task |
| `Admit` | the task runs with its permit: gauges, then `render` |
| `GiveUp` | the `TimeoutError` and `CancelledError` arms while `waiting` |
| `RenderEnds` | the other arms, and `finally: semaphore.release()` |

### RenderProject

`at` is the await the coroutine stands at, `jobs` the threads at work, `tree`
what is on disk, `proc` the process and what asyncio knows of it, `asked` the
cancellations not heard yet. A thread's writing of files is cut into the system
calls that matter (`MakeParents`, `WriteFile`), and so is `rmtree`
(`RemoveEntries`, `RemoveTempDir`), because the two run at the same time
after a cancellation. An exited process is first `dead` and then `forgotten`:
asyncio lets go of it one callback before the coroutine learns of it, and in
between `kill()` raises `ProcessLookupError`. Sizes, names and contents are left
out: each refusal is a choice the thread makes.

### RenderService

The composition shares one task per request. It extends `RenderProject`, whose names are the
render's here (what is its own begins with `Service` where the two would clash), and
instantiates `RenderSlots`. `StartRender` is the step in which the
permit is got and `render` called, `RenderStep` gives the permit back in the step
in which `render` returns. It shows `Slots!FairSpec` and, which `RenderSlots`
can only assume, that renders end (`Slots!RendersEnd`).

`ResourcesBounded` counts the trees of clients that stayed. A hang-up while a thread
works can leave a tree without a permit: the abandoned thread and the shielded
removal go on after `render` has raised.

### PageSelection, FileKeys, BodyLimit, RequestValidation

`PageSelection` starts from any list of selections, malformed ones included,
follows parsing, bounding and merging as the code does them, and ends in Typst's
and the archive's hands. `Merge` is one turn of the loop over the sorted ranges, `ListRange`
one of the loop that counts and lists the pages of those that were merged; its properties compare the archive with what the
caller's own words mean (`Chosen`). `FileKeys` validates a list of keys and then
writes the accepted ones, in order, to a file system that folds case and to one
that does not; the file system is external. `FileKeys` and the safety of `RequestValidation`
have no runs of their own: `InlineProject` and `Answers` run them with what comes before
and after. `BodyLimit` runs the two wrapped
callables against an application that reads or not, and that turns an error into
an answer, lets it out or raises one of its own. `RequestValidation` collects
errors in the order Pydantic meets the fields and hands them to
`handle_validation_error`; texts and files are abstracted to what is wrong with
them, which the other two modules look into. Its `ValidatePdfOptions` follows
`models.py`, its `Rules` and `Breaks` the document of `output_rules.py`, and
`MirrorAgrees` compares the two.

### FileContent, Prelude, InlineProject

`FileContent` gives a payload by what decoding depends on: for base64 the number of
data characters, of pads, and whether one is foreign. The code computes the size
from the length (`DecodedBase64Size`) before it decodes; the decoder is external
(`WellFormed`, `DecodedSize`).

`Prelude` writes a JSON value as text, a sequence of characters of which each stands for
all that the escapes treat alike, and an error collects its path frame by frame as
`_json_to_typst` does (`Under`, `Part`). `Reading` is how Typst reads such text. It is
external, and written from Typst's grammar as far as the prelude uses it: a
string literal, an array, a dictionary, parentheses around one value, the empty forms.
The recursion of the code is that of functions (`JsonToTypst[value \in Value]`) and not of
`RECURSIVE` operators, so that it can be proved about. What characters and values there
are is given by constants, `Character`, `Value` and `Depth`, of which it is assumed
that values are finite trees over these characters (`ValueAssumption`): a run
gives `Value` some values with their parts, and a theorem is about the set of all of them too.

`InlineProject` composes contents and keys in the order of `_write_inline_files` and
`_write_bound_template`. Where a key leads is looked at before what it holds, and each file
before the next. The entry point is written last, over whatever is there; a string over
its limit leaves it unwritten, with the path to the string in the answer's `context`.

### Answers

`at` follows one request through routing, body, token, validation (`RequestValidation`'s
own steps), the count of files, the wait and the render; `cause` is what was raised
at last. Each step hands its exception to the handler that the code registers for
it: `HandleAppError`, `HandleHttpException`, `AnswerInvalid`. `Problems` is the table of the
classes in `errors.py`, `Arms` the arms of the route's `try` with the labels of both counters. The
inside of the wait and of the render is `RenderService`'s; here each is one step.

### ReleaseWorkflow

A step is a step of a job that reads or writes something public. `at` is where a run
is, `restart` where a re-run of its failed jobs begins: outputs of jobs that passed are
kept, which is why `image` survives. `tag`, `images`, `registry`, `signed` and `release`
are public. GitHub is external: that a re-run keeps its commit, that a tag that exists is
not overwritten by a push, that one run at a time is in a concurrency group.

### Startup

`given` is what the deployment set, `host` what it runs on; `limit` and `token` are
the settings, read once and kept (`get_settings` is cached), `said` what was
logged, `stage` how far the process is. `ReadSettings` is the validators, all of which
have to pass; `CreateApp` sets up Sentry, logs the warnings and forks the probe if
there is a limit; `ProbeEnds` and `ProbeTimesOut` are its two ways out. `HostChanges` may
happen in any state, between the check of the wrapper and the probe too.

### Deployment

`Deployment` extends `Startup` with what comes after it: one render after another
(`doing` is the next step of it), none with anything wrong with it, so that an answer shows
only what the host did. A step is one thread or one stretch of `render` between two awaits
that touches the host, and `RootChangesUnder` and `ToolsChangeUnder` may come before any of them:

| step | code | goes by |
| --- | --- | --- |
| `MakeTempDir` | `_make_temp_dir`, a thread | directories can be made |
| `CheckRoot` | `ensure_project_root_fits`, on the loop | both spellings leave the reserve |
| `MakeProject` | `project_root.mkdir`, a thread | the temporary directory is where it was made |
| `ResolveRoot`, `WriteFile` | `_write_inline_files`, the beginning and the rest of one thread | the root leads where it did, the path is short enough, the file can be written |
| `WriteTemplate` | `_write_bound_template`, a thread | the tree is there and can be written to |
| `Fork` | `create_subprocess_exec` | the package directory can be made; the wrapper, or without a limit Typst, is there |
| `RunWrapper`, `RenderTimesOut` | the wrapper before it becomes Typst | the wrapper works, and Typst is there |
| `Compile` | Typst to its exit status | the tree is there and can be written to |
| `CollectOutput` | the output is looked for, a thread | the tree is there |
| `Deliver` | the output is read, or zipped and read | the tree is there; for an archive it can be written to |

`host.root` has a state and two lengths. A root is `full` when directories can be made in it and
nothing written, as on a tmpfs; `readonly`; `missing`; or a `file`. A root whose resolved
length changes leads elsewhere: it leaves the tree behind, and `target`, where `ResolveRoot`
found it, is no longer where it is. Any other change may leave the tree behind too (a fresh
mount). Without a limit Typst itself is forked and its absence is an `OSError`, a 503; with
one the wrapper is forked, and the same absence is an exit status, a 422: that
is why the probe runs the whole command line.

Two variables are history, for the property to speak of. `broke`: the wrapper or Typst changed
while the service served, which nothing checks. `moved`: the root changed in one of two
stretches of this render (`Window`), while its file is written and from before Typst is forked
until its output is found. Inside them the code cannot tell a fault of the host from one of
the request, and does not: the errors of the kernel are the same. `HostFaultNotBlamed` says
that these are the only stretches. In particular a root that was wrong at start, changed
between two requests, or changes at any other step of a render makes no request look at fault.

The names of both modules are their own (`StartupSpec`, `deploymentVars`), because `MainProofs`
extends them beside `BodyLimit`.

## 3. What the runs show

| run | instance | shows |
| --- | --- | --- |
| `slots` | 4 requests, 2 permits | permits, gauges and wake-ups are never lost; order of arrival; the queue wait ends; nobody starves; `PermitPool` is implemented |
| `project` | 1 render, 0 to 2 files, all 8 plans | the process and the tree do not outlive the render; a document is whole; nobody is blamed for a crash; the render ends |
| `service` | 2 requests, 1 permit, 1 plan, no files | processes and trees stay within the permits; every request is answered; `RenderSlots` is implemented |
| `page_selection` | up to 3 selections over pages 1–4 and one too many, limit 2, documents of 1–8 pages | no archive is partial, none is refused without cause, Typst's work is bounded |
| `inline_project` | up to 3 keys and one too many out of 23, two file systems; base64 of 0–8 characters and 0–2 pads and text of 3–5 bytes at a limit of 4; 1392 values of data, nested three deep | accepted keys can be written and none is lost; the rules for sets refuse only what some file system cannot hold; the limit is on what is decoded; data reads back; an error leads to its string |
| `body_limit` | bodies of 0–7 bytes in 1–4 messages, limit 3 | one answer, the refusal exactly for refused bodies, nothing over the limit is held, every request is answered |
| `answers` | 22 lists of 4 standards that differ in kind, 6 versions, every set of flaws in `pages`, one failure of every other kind; 0–3 files at a configured limit of 2; every way to end | a mirror of the published rules agrees with the service; an answer is about one error; counters, status, origin and log level agree |
| `deployment` | the memory limit, the report of errors, or the token with both names of the environment, in all their values; 8 temporary roots, 4 states of the wrapper, 2 of Typst; renders with no file or one, of a short key or the longest, for a document, a page or an archive; the code's own lengths | the process serves or refuses, and says what it serves without; no request is blamed for its host, but where the root moves under its file or under Typst, or a tool changes after the probe |
| `release` | 2 runs, 2 commits of one version, 2 versions asked for, 2 failures of runners | a release is whole; a completed one is left alone; retries complete |
| `rule_beside_failure` | the lists and flaws of `answers`, validation alone | **violation**, see below |
| `interruption_vs_exit` | as `project` | **violation**, see below |
| `hangup_while_writing` | as `project` | **violation**, see below |

Why the bounds are enough. In `slots` two requests render while two wait, so that a wait
meets a release, a timeout, a disconnect and another waiter's giving up, in
every order; a fifth request only adds a waiter that behaves like the fourth.
Renders share nothing on disk, so one is enough in `project`, with two files so
that a directory is made again after the first. `service` checks the composition
itself: one render and one waiter that changes places with it; plans and files are
`project`'s business. In `page_selection` the limit lies within
the numbers a selection can name, and documents are longer than what is ever
asked for (limit + 1 pages past the largest start is page 7). In `inline_project`
two of three names differ only in case and keys are up to three names deep, so
that a key collides with a parent and with a grandparent of another. In
`body_limit` a body ends at the limit, below it, passes it with its first or its
last message, and holds empty messages. Contents and data vary with a few lists of keys only,
because neither looks at the others: base64 of eight characters has every remainder by
four twice, the limit lies inside a group, and data has every pair of kinds inside
one another, with strings at, over and, once stripped, under the limit. In `release` the
two runs may be of one commit or of two, and a third could only meet what the
second leaves behind. In `answers` the standards are
one tagged PDF/A, one untagged, one PDF/A-4 and ua-1, all that the rules tell
apart, and the one list of three is there to break the count. In `deployment` roots are
short, as long as fits, or one byte longer in either spelling, and a key is as long as is
accepted, or short. The variables of the environment are varied by concern (limit, reports,
token), because no line looks at two of these, and renders look at the limit alone; one file is
enough, since a second meets the host as the first did.
Every bound is a constant marked "bound" in its module. No symmetry is used, because most runs check liveness.

Symbols in the models that begin "Seeded fault" are not part of them. Each is a
plausible bug, put in the place of the definition after it to see that a
property notices; `PROJECT.json` lists which fault breaks which property. The type invariants are
proved where there are proofs, and stated and not among the runs' properties elsewhere; so is
`RenderSlots!AtMostMaxConcurrent`, which is proved (`Capacity`).

### Where code and words differ

* **A timeout or a hang-up that is taken for an unhandled failure.** When the timer of
  `wait_for` fires, or the client hangs up, in the iteration of the loop in which asyncio has
  let go of the exited process, `proc.kill()` raises `ProcessLookupError` in both arms.
  `_run_typst` documents `RenderTimeoutError`, and the caller gets a 503; the
  hang-up is counted as a failure (`InterruptionIsReported`).
* **Caller files that stay.** A render cancelled while its files are written
  removes the tree under the thread, whose next `mkdir(parents=True)` makes it
  again (`CallerFilesRemoved`; the test it quotes is of a compile that fails, and the
  code removes the tree on every way out). `TreeRemoved` says what does hold: nothing stays
  unless the cancellation came while a worker thread was at work.
* **A rule that is reported beside another failure.** The documentation promises
  that a request which breaks a rule and something the rules do not name reports
  the latter. `handle_validation_error` reports the first error, and Pydantic meets
  `pages` before `ppi` and before unknown options (`UnnamedFailureGoesFirst`).

The first two are narrow: one needs two callbacks in one iteration of the
event loop; the other a cancellation, which for this route means a server
that is stopping, or a host that cancels tasks of hung-up clients.

Two more places are exceptions in what a passing run checks, and hold of the code as it is:

* **An exit of Typst that is not the template's.** `renderer.py:584` says "An ordinary non-zero exit is
  Typst rejecting the caller's source", and `docs/api/errors.md` that origin `template` is never
  Prelum's failure. A temporary root that fills up, turns read-only or goes away after the template
  was written makes Typst exit in the same way: the caller is answered 422
  `template_compile_failed` and nobody is paged. If it leads elsewhere, becomes a file or gets too
  long while files are written, the answer is 422 `invalid_file_data` (`_LAYOUT_ERRNOS`, or a key
  that "escapes"), where the comment speaks of keys that conflict, which are refused before.
  `HostFaultNotBlamed` excepts exactly these two stretches of a render (`moved`), and what a change of
  the tools after the probe does (`broke`).
* **A published token that is accepted.** `config.py:25` says of `DEV_DEFAULT_TOKEN` that "Settings
  refuses it outside `_DEV_ENVIRONMENTS`", and `docs/getting-started.md` never to deploy it. Settings
  refuses to supply it there; `enforce_api_token` takes any token that is not blank, so a
  deployment that sets it itself serves with it, and the warning of `create_app` looks at the
  environment only. `NothingSilentlyRelaxed` is about what the service supplies, and of a token that
  was set says only that it is the one in use.

Observed while modelling, and in no run, because each is about words or about
one input rather than about an order of events:

* `docs/api/render.md` accepts "any JSON value … without changing its structure". Two keys of
  one object that differ only in characters that are stripped become one, which
  Typst refuses as a duplicate; a number such as `1e999` becomes `Infinity`, which Typst
  takes for a variable. Both are 422s that name the caller's template. `DataReadsBack` says what holds: such data is
  an error and never another value (`Representable`).
* A request with more files than the structural cap (1024) is refused by the model layer
  and told that cap, where `docs/api/errors.md` promises the configured one. `CountersAgree`
  says that neither takes a permit.
* Two runs of one version that overlap, or a re-run of the failed jobs of a run that is older than
  the release, may move the registry's tag of the version to an image that no release names. The
  release keeps its digest (`ReleaseIsWhole`); `CompletedIsNoOp` is about runs that begin when there
  is a release.
* An unhandled exception in the route is logged as an error twice, once by the route and once by
  the handler of the problem it is turned into.

## 4. Fairness

* `RenderSlots!LoopFairness`: the event loop runs every ready task
  (`WF(Resume)`). `TimersFire` and `RendersEnd` are hypotheses of the two liveness
  properties, one each, never part of `FairSpec`: that a queue wait ends does not
  depend on renders ending, and that nobody starves does not depend on timers.
  `QueueTimeout` is a timer of the loop; `RendersEnd` is what `RenderService`
  shows.
* `RenderProject`: coroutine and threads run, SIGKILL takes effect, its exit is
  reported, the timer of the compile fires. That Typst ends by itself is **not**
  assumed (`TypstExits` has no fairness), nor that clients hang up. That a thread's
  disk work ends is assumed: the code puts no timeout on it.
* `BodyLimit`: weak fairness of the next step. The server answers an await on `receive` with a
  message or with a disconnect.
* `Startup`, and so `Deployment`: weak fairness of `StartupStep`: the process runs, and so does the clock of the
  probe. That the probe itself ends is not assumed, nor anything of the host or
  of renders: that one ends is `RenderProject`'s.
* `ReleaseWorkflow`: a job that can go on does, and a run that failed is re-run (`Retry`): the
  documentation's "a retry continues". Nobody has to start a run, and runners fail at most
  `MaxFailures` times.
* `PageSelection`, `InlineProject`, `Answers`: no liveness is checked; they are sequential.

## 5. What is proved

`RenderSlotsProofs`, for every finite set of requests and every positive number
of permits (`RequestAssumption`, `MaxConcurrentAssumption`):

| theorem | says |
| --- | --- |
| `Invariance` | `Spec => []IInv` |
| `TypeCorrect` | `Spec => []TypeOK` |
| `NoPermitLeaks` | `Spec => []PermitsConserved` |
| `NoLostWakeUp` | `Spec => []NoIdlePermit` |
| `GaugesCorrect` | `Spec => []GaugesTrue` |
| `Capacity` | `Spec => []AtMostMaxConcurrent` |
| `FirstComeFirstServed` | `Spec => InArrivalOrder` |
| `PermitPoolImplemented` | `Spec => Pool!Safely`, the safety part of `ImplementsPool` |

The argument. `IInv` is `TypeOK /\ PermitsConserved /\ GaugesTrue /\
NoIdlePermit`; no smaller part is inductive. The gauges stay natural numbers
only because they count the requests they are said to count. `value` stays
within `0..MaxConcurrent` only because permits are conserved, and permits are
conserved only because the deque lists exactly the queued requests, once each
(in `TypeOK`), so that leaving it takes out one entry and a grant goes to a task
that waits. `NoIdlePermit` needs all of it: a step that frees a permit wakes a
waiter, a step that cancels or admits one hands on what it may have been given.

The lemmas: `WithoutProperties` (taking a request out of a deque keeps the
others, once each), `WakeUpProperties`, `WakeUpConserves` and
`WakeUpLeavesNoneIdle` (what `_wake_up_next`, called k times, does to the count,
to the permits owned and to those idle), then one lemma per action, and
`StepInvariant`. `AtMostMaxConcurrent` follows from conservation, since a
request that renders holds a permit. `InArrivalOrder` is shown of each step from
`IInv`: a permit is got either past an empty line (`Locked`) or through
`FirstWaiters`, which takes a prefix of the line.

`PermitPoolImplemented` maps each step to one of the pool or to none. The pool's line is the
relation `before` and not a sequence: what the deque gives to it is who stands ahead of whom
(`Ahead`), which neither taking a request out nor granting changes of the others. A
release may be a `Leave` that serves nobody or several, because a grant that was
put back and one that is made meet in one `WakeAll`; `Serve` allows what arrival
order allows, and the pool's capacity is `Capacity` again.

`MainProofs`, about `Startup` and `Deployment`, for any environments, temporary roots and keys and
lengths of every size (`DeploymentsAssumption`, `RootsAssumption`, `LengthsAssumption`,
`PathAssumption`, `KeysAssumption`: no key is longer than what the reserve leaves of a path):

| theorem | says |
| --- | --- |
| `StartupTypeCorrect` | `StartupSpec => []StartupTypeOK` |
| `DeploymentInvariance` | `DeploymentSpec => []DeploymentInv` |
| `NoHostFaultBlamed` | `DeploymentSpec => []HostFaultNotBlamed` |
| `RelaxationsAreSaid` | `DeploymentSpec => []NothingSilentlyRelaxed` |

The start has an invariant of its own, `StartupInv`: `FloorHolds` and `TokenHeld` are what passed the
validators. `RelaxationsAreSaid` needs `Told` besides: what is said is said in `CreateApp`, before
the probe, and the invariant carries it to the state in which the process serves.
`StartupUnderneath` lifts both to `Deployment`, whose steps are steps of the start or leave its
variables alone.

`HostFaultNotBlamed` speaks of answers; what keeps it is what a render has learnt and goes by later.
`Checked`: while the temporary directory is there, the root is the one that was measured, because a
root that leads elsewhere leaves the directory behind. `Placed`: in the file's stretch, if nothing
moved, the tree is there, has room and is where it was resolved. `Laid`: in Typst's stretch, if
nothing moved, the tree is there and can be written to. `Proved`: with a limit, wrapper and Typst
work, or broke since. `KeyFits` is the arithmetic: a root that fits the reserve in its resolved
spelling, with a separator and a NUL, leaves room for the longest key, a separator and a NUL.
`Ends` and `GoesOn` are the two things any step of a render does; then one lemma for each
stretch of the render, for the host and for the start.

and, about `BodyLimit`, for every limit and every body in any number of messages (`BodyAssumption`,
`ChunkAssumption`):

| theorem | says |
| --- | --- |
| `BodyInvariance` | `Spec => []IInv` |
| `OneAnswer` | `Spec => []AnsweredOnce` |
| `RefusalsAreForRefused` | `Spec => []RefusalForRefused` |
| `BufferIsBounded` | `Spec => []BufferBounded` |

`Counted` is the arithmetic, `Handed` what the server has been handed at each point: nothing,
once the body was refused, until the middleware itself answers. `Blamed` excludes the one path
on which a refusal could be lost, an exception of another kind out of a refused body.

`RenderProofs`, for every set of renders, finite or not, any number of files and any plans
(`PlansAssumption`, `MaxFilesAssumption`):

| theorem | says |
| --- | --- |
| `RenderInvariance` | `Spec => []IInv` |
| `TypstAlwaysEndsFirst` | `Spec => []TypstEndsFirst` |
| `DocumentsAreWhole` | `Spec => []DocumentIsWhole` |
| `CrashesAreNotTheCallers` | `Spec => []NoCrashBlamedOnCaller` |
| `TreesAreRemoved` | `Spec => []TreeRemoved` |

Renders share nothing, so `IInv` is a conjunction over renders (`Apart`: a step of one changes
nothing of another). `TypstInv` ties the process to the await; `ResultInv` says that
nothing is decided before the body of the `try` is left; `FilesInv` that the template is
bound when no file is left; `AskedInv` that a thread is abandoned once, by the
client. `TreeInv` is the heart: before the teardown only the thread that is awaited is
at work, after it only the one that was abandoned (`heardAt`), and what is on disk once
`rmtree` has been there is what that thread may write, plus the directory until `rmdir`. `TreeRemoved`
speaks of the last state only and could not be carried to it without that.

and about `RenderService`, for all of the above and every finite set of requests:

| theorem | says |
| --- | --- |
| `ServiceInvariance` | `ServiceSpec => []ServiceInv`, which is the invariants of both parts and `Together` |
| `ResourcesAreBounded` | `ServiceSpec => []ResourcesBounded` |
| `PermitsAsSpecified` | `ServiceSpec => Slots!Spec`, the safety part of `ImplementsSlots` |

Every step of the service is a step of either part or leaves it alone (`SlotsStep`,
`RenderStepOrNone`), so the lemmas about the parts are cited and not proved again.
`Together` is what the composition adds: a request holds a permit exactly from the call of `render`
to its return. `TypstInv` and `TreeInv` say that a process or a tree lies within that time,
unless the client hung up; `PermitsConserved` counts the permits.

`ReleaseWorkflowProofs`, for any number of runs, commits, versions and failures
(`VersionOfAssumption`, `NoneAssumption`, `FailuresAssumption`):

| theorem | says |
| --- | --- |
| `ReleaseInvariance` | `Spec => []IInv` |
| `ReleasesAreWhole` | `Spec => []ReleaseIsWhole` |
| `ReleasedIsDone` | `Spec => CompletedIsNoOp` |

The invariant says what a run has shown by the place it is at, *or would be re-run
from* (`Past`): a re-run trusts the outputs of jobs that passed. What it trusts stays true
because a tag is never moved, an image never rebuilt under its number and a signature
never withdrawn.

`PageSelectionProofs`, for every list of selections, every limit and documents of every length
(`SelectionsAssumption`, `LimitAssumption`, `BoundsAssumption`):

| theorem | says |
| --- | --- |
| `PageInvariance` | `Spec => []IInv` |
| `ArchivesAreWhole` | `Spec => []NothingCutOff` |
| `NoArchiveWasPossible` | `Spec => []RefusedForCause` |
| `WorkIsBounded` | `Spec => []WorkBounded` |

`MergeInv` is the loops' invariant: the pages listed, the ranges merged and the ranges still to
be merged are together the pages of the closed selections; what is merged is in order and apart; what
is still to come begins no earlier than the last merged range. So the listed pages only grow
(`ListedOn`), and a list that grows is as long as the set of its pages is large
(`IncreasingCount`), which turns the code's count into a statement about what the caller chose. `AskInv` adds
the open range: as many pages from `OpenStart` as are left of the limit, and the sentinel. If the sentinel
is among the outputs there are more than fit, and if it is not the
document ends before it and everything chosen is there.

`InlineProjectProofs`, for every list of keys, every `casefold`, any contents, all data and any
limits (`FilesAssumption`, `EntryNameAssumption`, `RequestsAssumption`, `MaxFileBytesAssumption`,
`LimitsAssumption`, `CharacterAssumption`, `ValueAssumption`, `PreludeAssumption`):

| theorem | says |
| --- | --- |
| `DecodedSizeIsExact` | for whatever the decoder accepts, the size worked out from the length is its size |
| `LimitIsOnWhatIsDecoded` | what is decoded is within the limit, what is refused is over it or not decodable |
| `StringsReadBack` | a quoted string is read as the string less what is stripped, and no further, whatever follows |
| `ValuesReadBack` | so is every JSON value that was written, or it is read as an error where Typst has no spelling for it |
| `InlineInvariance` | `Spec => []IInv` |
| `FilesAreKept` | `Spec => []EachFileKept` |
| `LimitIsKept` | `Spec => []LimitIsOnContent` |
| `RulesHaveACause` | `Spec => []RefusedForCause` |
| `DataIsReadBack` | `Spec => []DataReadsBack` |
| `PathIsOfString` | `Spec => []PathLeadsToString` |

Of `casefold` it is assumed that it folds safe names to safe names, that folding twice changes
nothing more, and that it does not make a safe name of the entry point, whose `~` it keeps. `DiskIs` says that
the disk holds the first keys, the directories they need and nothing else. `NothingInTheWay` is the
reason for the two whole-set rules: paths that a file system takes for one and the
same fold to one (`SameFolds`), so what is found at a key is a file whose key
collides with it or a directory, a beginning of another key. `RulesHaveACause` is the
converse. Of `FileKeys!Outcome`, a recursive function, it needs that there is such a function (`RunExists`) and that
a directory, once made, is never written over (`DirectoryStays`).

The data is proved about by recursion, and what a recursive function is takes a proof of its own:
a definition `f[x \in S] == ... f[y] ...` is a `CHOOSE`, equal to its body only if there is
such a function. `Recursion` proves that there is. Its constants are operators: a `Domain`, a
`Measure` of its elements, the `Body` of a definition, and what `Fits` every result. If the body looks at
smaller arguments only (`LooksDown`), the function is the fixed point of its body, and what fits
goes with it (`Defined`); and what holds of an argument whenever it holds of the smaller ones holds of all
(`Induction`). Both come from the least number without the property, so that they need no theorem
with an operator for a parameter: instantiating the *module* is what the prover
does understand. `InlineProjectProofs` instantiates it once for each function of `Prelude`, with the length
of a text, the depth of a value, or, for `Reading`, the length of what is left and
whether an item or a value is to be read there.

What fits is chosen so that the next proof can use it: a reader never reads to the left
of where it began (`Shorter`, `WithinText`), without which `Reading` would not look at smaller arguments; a walk
without an error met no string over the limit, and an error is of one of those and
has the path that leads to it (`Outcome`), which is all of `PathIsOfString` but the step that answers. `ValuesReadBack` is
induction over depth, and inside it, for the items of a list or an object, over how many are left;
that no comma and no closing parenthesis is taken for another rests on what a text can
begin with. `DataInv` carries the walk's result from the step that writes the template to the end.

`AnswersProofs`, for any standards, limits and instance (`KeysAssumption`, `RequestsAssumption`):

| theorem | says |
| --- | --- |
| `AnswersInvariance` | `Spec => []IInv` |
| `CountersAlwaysAgree` | `Spec => []CountersAgree` |
| `BlameIsOurs` | `Spec => []BlameAgrees` |
| `OneErrorIsReported` | `Spec => []OneErrorReported` |
| `MirrorIsTrue` | `Spec => []MirrorAgrees` |

`RouteInv` is about the way through the route: nothing is counted before an answer, and only a request
that is past the count of files waits or holds a permit. `FirstArm` shows which of the route's arms
catches what was raised, in the order of the source; `ProblemsTable` is the table of
the classes. `BodyInv` is about the errors: as long as only the options of the output can be
wrong the errors are those of the output, which is what a mirror of the published rules can know.

Where a proof needs induction over naturals it takes the least number without the property
(`Recursion!LeastExists`, from the well-foundedness of `<`), since the library's induction theorems
take an operator as a parameter, which the installed provers cannot instantiate.

Only model-checked: liveness (`QueueWaitEnds`, `NobodyStarves`, `RenderEnds`, `StartEnds`,
`EveryRequestAnswered`, `RetryCompletes`) and the fairness parts of the two refinements
(`ImplementsPool`, `ImplementsSlots`), which need `ENABLED`, out of the prover's reach.

## 6. What is left out, and why

* In `RenderSlots` and `RenderProject`: a second cancellation of one task by the
  client's side (servers cancel once), the optional debug copy (its failures are
  swallowed), the catch-all arm for `BaseException` other than cancellation, the
  limit on the number of worker threads (a full pool delays a thread, which is
  already any delay), and `package_dir.mkdir`, a call on the loop without an await.
* `begin`, the code of `render` before its first await, cannot be cancelled.
* In `PageSelection`: the length limit of the text and the names of the entries.
* In `FileKeys`: lengths of names and keys, counted in names here; the configured cap
  below the structural one, which the route applies (`RenderSlots!Refuse`).
* In `Prelude`: numbers are words; the spelling of one is Python's and not looked into. How deep
  data may be nested is bounded by the JSON parser, before the model begins.
* In `RequestValidation`: the text and the location of an error and how both are
  shortened, `errors_total`, values of a wrong type inside an option.
* In `Answers`: a client that hangs up before the wait, which no line of the code handles;
  the request id; the text of a problem.
* In `ReleaseWorkflow`: images of pushes to `main`, and the tag `major.minor`, which goes with the
  version's; that somebody deletes a tag or a release by hand.
* Not modelled at all: `RequestIdMiddleware`, which sets one header and one logging field and
  shares nothing between requests; logging and Sentry, which configure libraries; constants; and
  the documentation scripts, which compare generated text with files. Nothing in them depends on an order of
  events or on two inputs together.
* In `BodyLimit`: websockets and lifespan messages, which pass through.
* In `Startup`: ports, sizes and the font and package paths, each checked by a condition of
  its own; the server's failure to bind; leftovers of the write test. Variables are
  spelt as documented: pydantic takes other spellings too, for which the
  warning about an empty limit, which looks the name up as it is documented, is not logged.
* In `Deployment`: interruptions and the removal of the tree, which are `RenderProject`'s; the debug
  copy, whose failure is logged and nothing else; disks that hang instead of failing; partial
  outputs; and changes within a step, each of which would come to the answer of a change before
  or after it.
* Whole components: see `components` in `PROJECT.json`, each with its reason.

## 7. Plan

The components that keep state or decide something are modelled, and of every safety property,
action property and step of a refinement that a passing run checks the theorem is proved. What
could be added: the type invariants that are only stated (`RequestValidation`, `FileKeys`)
as theorems of their own; the constraints document beyond the rules of the output; and liveness, once
a prover for `ENABLED` is at hand.
