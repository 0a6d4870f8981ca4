--------------------------- MODULE RenderProject ---------------------------
(***************************************************************************)
(* The life of a render, from the call of TypstRenderer.render to its       *)
(* return (app/render/renderer.py).  Four things move on their own:         *)
(*   - the coroutine, which stops at every await and, when the task was     *)
(*     cancelled meanwhile, gets a CancelledError there;                    *)
(*   - the worker threads it starts with asyncio.to_thread, which nobody    *)
(*     can cancel: when the await is abandoned, the thread goes on;         *)
(*   - the Typst process, and asyncio's bookkeeping of its exit, which      *)
(*     follows the exit and precedes the coroutine's next step;             *)
(*   - the timer of asyncio.wait_for, armed only while Typst compiles.      *)
(*                                                                         *)
(* The temporary directory is the set of things in it.  What is written     *)
(* there, how it is named and how large it may be are left out, as are the  *)
(* log lines and the debug copy, whose failures the code swallows: each     *)
(* refusal is a choice the worker thread makes.                             *)
(***************************************************************************)
EXTENDS Integers, FiniteSets

CONSTANTS Request,   \* the renders
          Plans,     \* what they may ask for
          MaxFiles   \* bound: files of a request

\* An archive of page images or one file; pages selected or not; and whether
\* this instance sets PRELUM_MAX_RENDER_MEMORY_BYTES.
Plan == [archive : BOOLEAN, selected : BOOLEAN, bounded : BOOLEAN]

ASSUME PlansAssumption == Plans \subseteq Plan
ASSUME MaxFilesAssumption == MaxFiles \in Nat

VARIABLES
  at,       \* where the coroutine is
  asked,    \* cancellations asked for and not yet heard: by whom
  hungUp,   \* the client has cancelled this render (at most once)
  heardAt,  \* where the coroutine last heard of a cancellation
  raised,   \* what asyncio.wait_for raised, if anything
  plan,     \* what kind of output was asked for
  jobs,     \* worker threads at work
  left,     \* files the thread has still to write
  fault,    \* how the awaited thread ended
  tree,     \* what is on disk
  proc,     \* the Typst process
  code,     \* how it ended
  result    \* what render returns or raises

cvars == <<at, asked, hungUp, heardAt, raised, plan, result>>
tvars == <<jobs, left, fault, tree>>
pvars == <<proc, code>>
vars  == <<cvars, tvars, pvars>>

\* The awaits on a worker thread, in order; the thread runs the job of the
\* same name.  "spawn" awaits asyncio, "compile" and "reap" the process, and
\* "cleanup" the shielded thread that removes the tree.
ThreadAwait == {"mktemp", "mkdir", "files", "bind", "collect", "deliver"}
Place  == ThreadAwait \cup
          {"idle", "begin", "spawn", "compile", "reap", "cleanup", "ended"}
Job    == ThreadAwait \cup {"write", "rmtree", "rmdir"}
Entry  == {"tmp", "project", "file", "main", "output", "zip"}
Code   == {"none", "zero", "positive", "SIGABRT", "SIGKILL", "SIGSEGV"}

\* "refused" is an error of the caller's (4xx), "failed" Prelum's own
\* RenderError (500), "unhandled" what the route turns into a 503.
Result == {"none", "document", "timeout", "cancelled", "refused", "failed", "unhandled"}

TypeOK == /\ at \in [Request -> Place]
          /\ asked \in [Request -> SUBSET {"timer", "client"}]
          /\ hungUp \in [Request -> BOOLEAN]
          /\ heardAt \in [Request -> Place \cup {"nowhere"}]
          /\ raised \in [Request -> {"nothing", "TimeoutError", "CancelledError"}]
          /\ plan \in [Request -> Plans]
          /\ jobs \in [Request -> SUBSET Job]
          /\ left \in [Request -> 0..MaxFiles]
          /\ fault \in [Request -> Result]
          /\ tree \in [Request -> SUBSET Entry]
          /\ proc \in [Request -> {"none", "running", "dying", "dead", "forgotten"}]
          /\ code \in [Request -> Code]
          /\ result \in [Request -> Result]

Init == /\ at = [r \in Request |-> "idle"]
        /\ asked = [r \in Request |-> {}]
        /\ hungUp = [r \in Request |-> FALSE]
        /\ heardAt = [r \in Request |-> "nowhere"]
        /\ raised = [r \in Request |-> "nothing"]
        /\ plan \in [Request -> Plans]
        /\ jobs = [r \in Request |-> {}]
        /\ left \in [Request -> 0..MaxFiles]
        /\ fault = [r \in Request |-> "none"]
        /\ tree = [r \in Request |-> {}]
        /\ proc = [r \in Request |-> "none"]
        /\ code = [r \in Request |-> "none"]
        /\ result = [r \in Request |-> "none"]

-----------------------------------------------------------------------------
(* The worker threads *)

\* The thread of job j ends.  Only a coroutine that still awaits it learns how.
JobEnds(r, j, f) ==
  /\ jobs' = [jobs EXCEPT ![r] = @ \ {j}]
  /\ fault' = [fault EXCEPT ![r] = IF \/ at[r] = j
                                      \/ at[r] = "files" /\ j = "write"
                                   THEN f ELSE @]

Adds(r, entries) == tree' = [tree EXCEPT ![r] = @ \cup entries]

\* mkdtemp, or the OSError of a full or read-only disk.
MakeTempDir(r) ==
  /\ "mktemp" \in jobs[r]
  /\ \/ Adds(r, {"tmp"}) /\ JobEnds(r, "mktemp", "none")
     \/ UNCHANGED tree /\ JobEnds(r, "mktemp", "unhandled")
  /\ UNCHANGED <<cvars, left, pvars>>

\* project_root.mkdir(), which makes no parents.
MakeProject(r) ==
  /\ "mkdir" \in jobs[r]
  /\ \/ "tmp" \in tree[r] /\ Adds(r, {"project"}) /\ JobEnds(r, "mkdir", "none")
     \/ UNCHANGED tree /\ JobEnds(r, "mkdir", "unhandled")
  /\ UNCHANGED <<cvars, left, pvars>>

\* _write_inline_files has written every file.
FilesWritten(r) ==
  /\ "files" \in jobs[r] /\ left[r] = 0
  /\ JobEnds(r, "files", "none")
  /\ UNCHANGED <<cvars, left, tree, pvars>>

\* The next file is malformed or too large, or its directories cannot be made.
FileRefused(r) ==
  /\ "files" \in jobs[r] /\ left[r] > 0
  /\ \E f \in {"refused", "unhandled"} : JobEnds(r, "files", f)
  /\ UNCHANGED <<cvars, left, tree, pvars>>

\* dest.parent.mkdir(parents=True, exist_ok=True): it makes the directories
\* that are missing, the temporary one included.
MakeParents(r) ==
  /\ "files" \in jobs[r] /\ left[r] > 0
  /\ Adds(r, {"tmp", "project"})
  /\ jobs' = [jobs EXCEPT ![r] = (@ \ {"files"}) \cup {"write"}]
  /\ UNCHANGED <<cvars, left, fault, pvars>>

\* dest.write_bytes.
WriteFile(r) ==
  /\ "write" \in jobs[r]
  /\ \/ /\ "project" \in tree[r]
        /\ Adds(r, {"file"})
        /\ jobs' = [jobs EXCEPT ![r] = (@ \ {"write"}) \cup {"files"}]
        /\ left' = [left EXCEPT ![r] = @ - 1]
        /\ UNCHANGED fault
     \/ /\ \E f \in {"refused", "unhandled"} : JobEnds(r, "write", f)
        /\ UNCHANGED <<left, tree>>
  /\ UNCHANGED <<cvars, pvars>>

\* _write_bound_template: a string in the data may be too large, or the write fail.
WriteTemplate(r) ==
  /\ "bind" \in jobs[r]
  /\ \/ "project" \in tree[r] /\ Adds(r, {"main"}) /\ JobEnds(r, "bind", "none")
     \/ UNCHANGED tree /\ \E f \in {"refused", "unhandled"} : JobEnds(r, "bind", f)
  /\ UNCHANGED <<cvars, left, pvars>>

\* The check that the compile produced what the plan asked for.  A missing
\* output is the caller's fault when pages were selected, and a page that is not
\* a regular file is Typst's.
CollectOutput(r) ==
  /\ "collect" \in jobs[r]
  /\ \/ "output" \in tree[r] /\ JobEnds(r, "collect", "none")
     \/ "output" \notin tree[r] /\ JobEnds(r, "collect",
                                           IF plan[r].selected THEN "refused" ELSE "failed")
     \/ "output" \in tree[r] /\ plan[r].archive /\ JobEnds(r, "collect", "failed")
     \/ JobEnds(r, "collect", "unhandled")
  /\ UNCHANGED <<cvars, left, tree, pvars>>

\* _finalise_output or _create_archive: measured, refused when too large, read.
ReadOutput(r) ==
  /\ "deliver" \in jobs[r]
  /\ \/ /\ "output" \in tree[r]
        /\ IF plan[r].archive THEN Adds(r, {"zip"}) ELSE UNCHANGED tree
        /\ JobEnds(r, "deliver", "none")
     \/ \E f \in {"refused", "unhandled"} : UNCHANGED tree /\ JobEnds(r, "deliver", f)
  /\ UNCHANGED <<cvars, left, pvars>>

\* rmtree deletes what it finds, then the directory itself; errors are ignored,
\* the one for a directory that is no longer empty included.
RemoveEntries(r) ==
  /\ "rmtree" \in jobs[r]
  /\ tree' = [tree EXCEPT ![r] = @ \cap {"tmp"}]
  /\ jobs' = [jobs EXCEPT ![r] = (@ \ {"rmtree"}) \cup {"rmdir"}]
  /\ UNCHANGED <<cvars, left, fault, pvars>>

RemoveTempDir(r) ==
  /\ "rmdir" \in jobs[r]
  /\ tree' = [tree EXCEPT ![r] = IF @ = {"tmp"} THEN {} ELSE @]
  /\ jobs' = [jobs EXCEPT ![r] = @ \ {"rmdir"}]
  /\ UNCHANGED <<cvars, left, fault, pvars>>

ThreadStep(r) ==
  \/ MakeTempDir(r)   \/ MakeProject(r) \/ FilesWritten(r)  \/ FileRefused(r)
  \/ MakeParents(r)   \/ WriteFile(r)   \/ WriteTemplate(r) \/ CollectOutput(r)
  \/ ReadOutput(r)    \/ RemoveEntries(r) \/ RemoveTempDir(r)

-----------------------------------------------------------------------------
(* The Typst process *)

\* Typst ends by itself or is killed from outside.  It may have written output
\* whichever way it ends, and may end well without having written any.
TypstExits(r) ==
  /\ proc[r] = "running"
  /\ proc' = [proc EXCEPT ![r] = "dead"]
  /\ \E c \in Code \ {"none"} : code' = [code EXCEPT ![r] = c]
  /\ Adds(r, {}) \/ Adds(r, {"output"})
  /\ UNCHANGED <<cvars, jobs, left, fault>>

\* The SIGKILL of proc.kill() takes effect.
TypstDies(r) ==
  /\ proc[r] = "dying"
  /\ proc' = [proc EXCEPT ![r] = "dead"]
  /\ code' = [code EXCEPT ![r] = "SIGKILL"]
  /\ UNCHANGED <<cvars, tvars>>

\* asyncio learns of the exit: the transport lets go of the process and the
\* future that proc.wait() awaits gets its result.
ExitReported(r) ==
  /\ proc[r] = "dead"
  /\ proc' = [proc EXCEPT ![r] = "forgotten"]
  /\ UNCHANGED <<cvars, tvars, code>>

-----------------------------------------------------------------------------
(* Cancellation *)

CancelTask(r, who) ==
  /\ asked' = [asked EXCEPT ![r] = @ \cup {who}]
  /\ UNCHANGED <<at, heardAt, raised, plan, result, tvars, pvars>>

\* Seeded fault: no timeout around the compile.
NoRenderTimeout(r) == FALSE /\ CancelTask(r, "timer") /\ UNCHANGED hungUp

\* render_timeout_secs are over.
RenderTimeout(r) ==
  /\ at[r] = "compile" /\ "timer" \notin asked[r]
  /\ CancelTask(r, "timer")
  /\ UNCHANGED hungUp

\* The client hangs up or the server is stopping.  "begin" is no await.
Disconnect(r) ==
  /\ at[r] \notin {"idle", "begin", "ended"} /\ ~hungUp[r]
  /\ hungUp' = [hungUp EXCEPT ![r] = TRUE]
  /\ CancelTask(r, "client")

-----------------------------------------------------------------------------
(* The coroutine *)

Starts(r, js) == jobs' = [jobs EXCEPT ![r] = @ \cup js]

\* It leaves for place p with what it has to return or raise, if anything yet.
Goes(r, p, res) == /\ at' = [at EXCEPT ![r] = p]
                   /\ result' = [result EXCEPT ![r] = res]
                   /\ fault' = [fault EXCEPT ![r] = "none"]

\* Seeded fault: the tree is removed after a success, and only then.
UnwindWithoutFinally(r, res) ==
  IF res = "document" THEN Goes(r, "cleanup", res) /\ Starts(r, {"rmtree"})
                      ELSE Goes(r, "ended", res) /\ UNCHANGED jobs

\* The body of the try is left, with a result or an exception.  The temporary
\* directory is made outside the try, so nothing is removed if that fails.
Unwind(r, res) ==
  IF at[r] = "mktemp" THEN Goes(r, "ended", res) /\ UNCHANGED jobs
                      ELSE Goes(r, "cleanup", res) /\ Starts(r, {"rmtree"})

Quiet == UNCHANGED <<asked, hungUp, heardAt, raised, plan, left, tree, pvars>>

\* render is called.
Call(r) == /\ at[r] = "idle"
           /\ Goes(r, "begin", "none")
           /\ UNCHANGED jobs /\ Quiet

\* The source is not UTF-8 or too large: refused before anything is made.
RefuseSource(r) == /\ at[r] = "begin"
                   /\ Goes(r, "ended", "refused")
                   /\ UNCHANGED jobs /\ Quiet

Begin(r) == /\ at[r] = "begin"
            /\ Goes(r, "mktemp", "none") /\ Starts(r, {"mktemp"}) /\ Quiet

\* The awaited thread is done and nobody cancelled the task.
JobDone(r) == /\ at[r] \in ThreadAwait /\ asked[r] = {}
              /\ at[r] \notin jobs[r] /\ "write" \notin jobs[r]

Then == [mktemp |-> "mkdir", mkdir |-> "files", files |-> "bind", collect |-> "deliver"]

Proceed(r) == /\ JobDone(r) /\ fault[r] = "none"
              /\ at[r] \in DOMAIN Then
              /\ Goes(r, Then[at[r]], "none") /\ Starts(r, {Then[at[r]]}) /\ Quiet

\* The template is bound: Typst is to be started, unless the page selection is
\* larger than an archive may be.
PrepareCompile(r) == /\ JobDone(r) /\ fault[r] = "none" /\ at[r] = "bind"
                     /\ \/ Goes(r, "spawn", "none") /\ UNCHANGED jobs
                        \/ plan[r].archive /\ Unwind(r, "refused")
                     /\ Quiet

Deliver(r) == /\ JobDone(r) /\ fault[r] = "none" /\ at[r] = "deliver"
              /\ Unwind(r, "document") /\ Quiet

JobFailed(r) == /\ JobDone(r) /\ fault[r] # "none"
                /\ Unwind(r, fault[r]) /\ Quiet

\* create_subprocess_exec, which cleans up after itself when it is cancelled.
Spawn(r) == /\ at[r] = "spawn" /\ asked[r] = {}
            /\ \/ /\ Goes(r, "compile", "none")
                  /\ proc' = [proc EXCEPT ![r] = "running"]
                  /\ UNCHANGED jobs
               \/ Unwind(r, "unhandled") /\ UNCHANGED proc
            /\ UNCHANGED <<asked, hungUp, heardAt, raised, plan, left, tree, code>>

\* Seeded fault: SIGKILL means out of memory whether or not a bound is set.
SigkillMeansMemory(r) == "SIGKILL"

\* The signal that says the template wanted more memory than it may have.
OutOfMemory(r) == IF plan[r].bounded THEN "SIGABRT" ELSE "SIGKILL"

Verdict(r) == CASE code[r] = "positive"     -> "refused"
                [] code[r] = OutOfMemory(r) -> "refused"
                [] OTHER                    -> "failed"

\* Seeded fault: what Typst left behind decides, not how it ended.
CompileEndsByOutput(r) ==
  /\ at[r] = "compile" /\ asked[r] = {} /\ proc[r] = "forgotten"
  /\ IF "output" \in tree[r]
     THEN Goes(r, "collect", "none") /\ Starts(r, {"collect"})
     ELSE Unwind(r, Verdict(r))
  /\ Quiet

\* proc.wait() returned before the timeout.
CompileEnds(r) == /\ at[r] = "compile" /\ asked[r] = {} /\ proc[r] = "forgotten"
                  /\ IF code[r] = "zero"
                     THEN Goes(r, "collect", "none") /\ Starts(r, {"collect"})
                     ELSE Unwind(r, Verdict(r))
                  /\ Quiet

\* wait_for raises: TimeoutError if the timer alone asked, CancelledError if the
\* client did.  It does so even if the process had exited by then.
WaitForRaises(r) == IF "client" \in asked[r] THEN "CancelledError" ELSE "TimeoutError"

Hears(r) == /\ heardAt' = [heardAt EXCEPT ![r] = at[r]]
            /\ asked' = [asked EXCEPT ![r] = {}]
            /\ UNCHANGED <<hungUp, plan, left, tree>>

\* Seeded fault: a cancelled compile is left to run.
AbandonCompile(r) ==
  /\ at[r] = "compile" /\ asked[r] # {}
  /\ raised' = [raised EXCEPT ![r] = WaitForRaises(r)]
  /\ Hears(r)
  /\ IF WaitForRaises(r) = "TimeoutError"
     THEN /\ proc' = [proc EXCEPT ![r] = IF @ = "running" THEN "dying" ELSE @]
          /\ Goes(r, "reap", "timeout") /\ UNCHANGED jobs
     ELSE UNCHANGED proc /\ Unwind(r, "cancelled")
  /\ UNCHANGED code

\* Both arms kill the process and wait for it.  kill() raises
\* ProcessLookupError once the transport has let go of the process.
KillCompile(r) ==
  /\ at[r] = "compile" /\ asked[r] # {}
  /\ raised' = [raised EXCEPT ![r] = WaitForRaises(r)]
  /\ Hears(r)
  /\ IF proc[r] = "forgotten"
     THEN Unwind(r, "unhandled") /\ UNCHANGED proc
     ELSE /\ proc' = [proc EXCEPT ![r] = IF @ = "running" THEN "dying" ELSE @]
          /\ Goes(r, "reap",
                  IF WaitForRaises(r) = "TimeoutError" THEN "timeout" ELSE "cancelled")
          /\ UNCHANGED jobs
  /\ UNCHANGED code

Reap(r) == /\ at[r] = "reap" /\ asked[r] = {} /\ proc[r] = "forgotten"
           /\ Unwind(r, result[r]) /\ Quiet

\* A CancelledError at any other await inside the try, or at the first one.
Interrupted(r) == /\ at[r] \in ThreadAwait \cup {"spawn", "reap"} /\ asked[r] # {}
                  /\ Hears(r)
                  /\ Unwind(r, "cancelled")
                  /\ UNCHANGED <<raised, pvars>>

\* The await of the removal is over: because it is done, or because the task was
\* cancelled, in which case the shielded thread goes on.
CleanedUp(r) == /\ at[r] = "cleanup" /\ asked[r] = {}
                /\ jobs[r] \cap {"rmtree", "rmdir"} = {}
                /\ Goes(r, "ended", result[r]) /\ UNCHANGED jobs /\ Quiet

CleanupAbandoned(r) == /\ at[r] = "cleanup" /\ asked[r] # {}
                       /\ Hears(r)
                       /\ Goes(r, "ended", "cancelled")
                       /\ UNCHANGED <<raised, jobs, pvars>>

CoroutineStep(r) ==
  \/ RefuseSource(r) \/ Begin(r)       \/ Proceed(r)     \/ PrepareCompile(r)
  \/ Deliver(r)      \/ JobFailed(r)   \/ Spawn(r)       \/ CompileEnds(r)
  \/ KillCompile(r)  \/ Reap(r)        \/ Interrupted(r) \/ CleanedUp(r)
  \/ CleanupAbandoned(r)

\* What can happen to a render once it was called.
Step(r) == \/ ThreadStep(r) \/ CoroutineStep(r)
           \/ TypstExits(r) \/ TypstDies(r) \/ ExitReported(r)
           \/ RenderTimeout(r)

Finished == /\ \A r \in Request : at[r] = "ended" /\ jobs[r] = {}
            /\ UNCHANGED vars

Next == \/ \E r \in Request : Call(r) \/ Step(r) \/ Disconnect(r)
        \/ Finished

\* The loop and the threads run, a killed process dies and its exit is noticed,
\* and the timer expires.  That Typst ends by itself is not assumed.
Fairness(r) == /\ WF_vars(ThreadStep(r)) /\ WF_vars(CoroutineStep(r))
               /\ WF_vars(TypstDies(r))  /\ WF_vars(ExitReported(r))
               /\ WF_vars(RenderTimeout(r))

Spec == Init /\ [][Next]_vars /\ \A r \in Request : Fairness(r)

-----------------------------------------------------------------------------
(* Properties *)

\* Typst never outlives the body of the render: when the tree is being removed,
\* and when render has returned, the process has ended or has been sent SIGKILL,
\* whatever timeouts and disconnects came together.
TypstEndsFirst ==
  \A r \in Request : at[r] \in {"cleanup", "ended"} => proc[r] # "running"

\* What a thread that is at work when the client hangs up may make again, behind
\* the removal of the tree.
LeftBehind(await) == CASE await = "mktemp"  -> {"tmp"}
                       [] await = "mkdir"   -> {"tmp", "project"}
                       [] await = "files"   -> {"tmp", "project", "file"}
                       [] await = "bind"    -> {"tmp", "project", "main"}
                       [] await = "deliver" -> {"tmp", "zip"}
                       [] OTHER             -> {}

\* Nothing of a render stays on disk, however it ended: no error, no timeout and
\* no hang-up but one during a thread's work leaves anything, and that one leaves
\* no more than the one thread writes (before the try, the empty directory).
TreeRemoved ==
  \A r \in Request :
    at[r] = "ended" /\ jobs[r] = {} => tree[r] \subseteq LeftBehind(heardAt[r])

\* A document is returned only if Typst ended well by itself, before its time
\* was over and the client gone, with all the files in place.
DocumentIsWhole ==
  \A r \in Request : result[r] = "document" =>
    code[r] = "zero" /\ left[r] = 0 /\ raised[r] = "nothing"

\* The caller is blamed for a signal only if it is the one that means memory
\* under this instance's settings: neither a crash of Typst, nor a kill from
\* outside, nor Prelum's own kill may become a 4xx that pages nobody.
NoCrashBlamedOnCaller ==
  \A r \in Request : result[r] = "refused" =>
    code[r] \in {"none", "zero", "positive"} \cup
                {IF plan[r].bounded THEN "SIGABRT" ELSE "SIGKILL"}

\* Every render ends, although Typst may run forever.
RenderEnds == \A r \in Request : (at[r] # "idle") ~> (at[r] = "ended")

-----------------------------------------------------------------------------
(* What the code or its documentation says and does not hold *)

\* renderer.py, _run_typst: ":raises RenderTimeoutError: If the compile outlives
\* render_timeout_secs", which docs/api/errors.md answers with 408; routes.py,
\* render: "No error_type: a client that hung up is not a render that failed."
InterruptionIsReported ==
  \A r \in Request : at[r] = "ended" =>
    /\ raised[r] = "TimeoutError" /\ ~hungUp[r] => result[r] = "timeout"
    /\ hungUp[r] => result[r] = "cancelled"

\* renderer.py, render: the teardown "matches TemporaryDirectory's own cleanup
\* contract", and tests/test_renderer.py: the tree "is where caller source lives".
CallerFilesRemoved ==
  \A r \in Request :
    at[r] = "ended" /\ jobs[r] = {} => tree[r] \cap {"file", "main"} = {}

=============================================================================
