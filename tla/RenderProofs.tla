---------------------------- MODULE RenderProofs ----------------------------
(***************************************************************************)
(* A render by itself (RenderProject), for any number of renders and files   *)
(* and whatever is asked for: Typst ends before the body of the render is     *)
(* left, a document is whole, no crash is blamed on the caller, and the tree   *)
(* is removed but for what a thread that cannot be cancelled writes behind     *)
(* the removal.  Renders share nothing, so the invariant speaks of each by      *)
(* itself.                                                                 *)
(*                                                                         *)
(* Then the renders and the permits together (RenderService): every step of    *)
(* the service is a step of RenderSlots or none, and a step of RenderProject   *)
(* or none.  So the invariants proved of the parts hold of the whole, and      *)
(* what neither part can say follows: processes and trees never outnumber the  *)
(* permits, because a render lies within the time its permit is held.          *)
(***************************************************************************)
EXTENDS RenderService, FiniteSetTheorems, TLAPS

\* The proofs about the permits, which are about an instance of their own.
S == INSTANCE RenderSlotsProofs

Early == {"idle", "begin", "mktemp", "mkdir", "files", "bind", "spawn"}
Late  == {"cleanup", "ended"}

\* Typst runs only while it is awaited, and what was sent SIGKILL is not awaited
\* for a result.
TypstInv(r) ==
  /\ at[r] \in Early => proc[r] = "none" /\ code[r] = "none"
  /\ at[r] \in {"collect", "deliver"} => proc[r] = "forgotten" /\ code[r] = "zero"
  /\ proc[r] = "running" => at[r] = "compile"
  /\ proc[r] = "dying" => result[r] \in {"timeout", "cancelled"}

\* Nothing is returned or raised before the body of the render is left.
ResultInv(r) ==
  /\ at[r] \notin {"reap"} \cup Late => result[r] = "none" /\ raised[r] = "nothing"
  /\ fault[r] \in {"none", "refused", "failed", "unhandled"}
  /\ at[r] = "reap" => result[r] \in {"timeout", "cancelled"}
  /\ result[r] = "document" => code[r] = "zero" /\ left[r] = 0 /\ raised[r] = "nothing"
  /\ result[r] = "refused" => code[r] \in {"none", "zero", "positive", OutOfMemory(r)}

\* The files are written, all of them, before the template is.
FilesInv(r) ==
  /\ "write" \in jobs[r] => left[r] > 0
  /\ at[r] = "files" /\ fault[r] = "none" /\ jobs[r] \cap {"files", "write"} = {}
       => left[r] = 0
  /\ at[r] \in {"bind", "spawn", "compile", "collect", "deliver"} => left[r] = 0

\* A thread is abandoned at most once, by the client's one cancellation, and the
\* render is in its teardown from then on.
AskedInv(r) ==
  /\ "timer" \in asked[r] => at[r] = "compile"
  /\ "client" \in asked[r] => hungUp[r]
  /\ heardAt[r] \in ThreadAwait => at[r] \in Late /\ hungUp[r] /\ asked[r] = {}

\* The jobs of the thread that was started at an await.
Working(await) == IF await = "files" THEN {"files", "write"}
                  ELSE IF await \in ThreadAwait THEN {await} ELSE {}

\* Only the thread that is awaited or was abandoned is at work, beside the
\* removal, and what is there after the removal is what that thread may write.
TreeInv(r) ==
  /\ at[r] \notin Late => jobs[r] \subseteq Working(at[r])
  /\ at[r] \in Late => jobs[r] \subseteq Working(heardAt[r]) \cup {"rmtree", "rmdir"}
  /\ at[r] = "ended" /\ ~hungUp[r] => jobs[r] = {}
  /\ at[r] \in {"idle", "begin"} => tree[r] = {}
  /\ at[r] = "mktemp" => /\ tree[r] \subseteq {"tmp"}
                         /\ "mktemp" \in jobs[r] \/ fault[r] # "none" => tree[r] = {}
  /\ at[r] \in Late /\ "rmtree" \notin jobs[r] =>
       /\ tree[r] \subseteq LeftBehind(heardAt[r]) \cup {"tmp"}
       /\ "rmdir" \notin jobs[r] => tree[r] \subseteq LeftBehind(heardAt[r])

RenderInv(r) == TypstInv(r) /\ ResultInv(r) /\ FilesInv(r) /\ AskedInv(r) /\ TreeInv(r)

IInv == TypeOK /\ \A r \in Request : RenderInv(r)

-----------------------------------------------------------------------------
USE PlansAssumption, MaxFilesAssumption
USE DEF ThreadAwait, Place, Job, Entry, Code, Result

LEMMA InitInv == Init => IInv
BY DEF Init, IInv, TypeOK, RenderInv, TypstInv, ResultInv, FilesInv, AskedInv, TreeInv,
       Working, Early, Late, OutOfMemory, LeftBehind

-----------------------------------------------------------------------------
(* Types, and that a step of a render is no other render's *)

Apart(r) == \A q \in Request \ {r} :
  /\ at'[q] = at[q] /\ asked'[q] = asked[q] /\ hungUp'[q] = hungUp[q]
  /\ heardAt'[q] = heardAt[q] /\ raised'[q] = raised[q] /\ plan'[q] = plan[q]
  /\ result'[q] = result[q] /\ jobs'[q] = jobs[q] /\ left'[q] = left[q]
  /\ fault'[q] = fault[q] /\ tree'[q] = tree[q] /\ proc'[q] = proc[q]
  /\ code'[q] = code[q]

LEMMA ThreadApart ==
  ASSUME NEW r \in Request, IInv,
         \/ MakeTempDir(r) \/ MakeProject(r) \/ FilesWritten(r) \/ FileRefused(r)
         \/ MakeParents(r) \/ WriteFile(r) \/ WriteTemplate(r) \/ CollectOutput(r)
         \/ ReadOutput(r) \/ RemoveEntries(r) \/ RemoveTempDir(r)
  PROVE  TypeOK' /\ Apart(r)
<1>1. CASE MakeTempDir(r)
  BY <1>1 DEF MakeTempDir, IInv, TypeOK, Apart, JobEnds, Adds, cvars, pvars
<1>2. CASE MakeProject(r)
  BY <1>2 DEF MakeProject, IInv, TypeOK, Apart, JobEnds, Adds, cvars, pvars
<1>3. CASE FilesWritten(r)
  BY <1>3 DEF FilesWritten, IInv, TypeOK, Apart, JobEnds, Adds, cvars, pvars
<1>4. CASE FileRefused(r)
  BY <1>4 DEF FileRefused, IInv, TypeOK, Apart, JobEnds, Adds, cvars, pvars
<1>5. CASE MakeParents(r)
  BY <1>5 DEF MakeParents, IInv, TypeOK, Apart, JobEnds, Adds, cvars, pvars
<1>6. CASE WriteFile(r)
  BY <1>6 DEF WriteFile, IInv, TypeOK, Apart, JobEnds, Adds, cvars, pvars, RenderInv,
         FilesInv
<1>7. CASE WriteTemplate(r)
  BY <1>7 DEF WriteTemplate, IInv, TypeOK, Apart, JobEnds, Adds, cvars, pvars
<1>8. CASE CollectOutput(r)
  BY <1>8 DEF CollectOutput, IInv, TypeOK, Apart, JobEnds, Adds, cvars, pvars
<1>9. CASE ReadOutput(r)
  BY <1>9 DEF ReadOutput, IInv, TypeOK, Apart, JobEnds, Adds, cvars, pvars
<1>10. CASE RemoveEntries(r)
  BY <1>10 DEF RemoveEntries, IInv, TypeOK, Apart, JobEnds, Adds, cvars, pvars
<1>11. CASE RemoveTempDir(r)
  BY <1>11 DEF RemoveTempDir, IInv, TypeOK, Apart, JobEnds, Adds, cvars, pvars
<1>12. QED
  BY <1>1, <1>2, <1>3, <1>4, <1>5, <1>6, <1>7, <1>8, <1>9, <1>10, <1>11

LEMMA CoroutineApart ==
  ASSUME NEW r \in Request, IInv,
         \/ RefuseSource(r) \/ Begin(r) \/ Proceed(r) \/ PrepareCompile(r)
         \/ Deliver(r) \/ JobFailed(r) \/ Spawn(r) \/ CompileEnds(r)
         \/ KillCompile(r) \/ Reap(r) \/ Interrupted(r) \/ CleanedUp(r)
         \/ CleanupAbandoned(r)
  PROVE  TypeOK' /\ Apart(r)
<1>1. CASE RefuseSource(r)
  BY <1>1 DEF RefuseSource, IInv, TypeOK, Apart, Goes, Starts, Unwind, Quiet, Hears,
         pvars
<1>2. CASE Begin(r)
  BY <1>2 DEF Begin, IInv, TypeOK, Apart, Goes, Starts, Unwind, Quiet, Hears, pvars
<1>3. CASE Proceed(r)
  BY <1>3 DEF Proceed, IInv, TypeOK, Apart, Goes, Starts, Unwind, Quiet, Hears, pvars,
         Then
<1>4. CASE PrepareCompile(r)
  BY <1>4 DEF PrepareCompile, IInv, TypeOK, Apart, Goes, Starts, Unwind, Quiet, Hears,
         pvars
<1>5. CASE Deliver(r)
  BY <1>5 DEF Deliver, IInv, TypeOK, Apart, Goes, Starts, Unwind, Quiet, Hears, pvars
<1>6. CASE JobFailed(r)
  BY <1>6 DEF JobFailed, IInv, TypeOK, Apart, Goes, Starts, Unwind, Quiet, Hears, pvars,
         JobDone
<1>7. CASE Spawn(r)
  BY <1>7 DEF Spawn, IInv, TypeOK, Apart, Goes, Starts, Unwind, Quiet, Hears, pvars
<1>8. CASE CompileEnds(r)
  BY <1>8 DEF CompileEnds, IInv, TypeOK, Apart, Goes, Starts, Unwind, Quiet, Hears,
         pvars, Verdict
<1>9. CASE KillCompile(r)
  BY <1>9 DEF KillCompile, IInv, TypeOK, Apart, Goes, Starts, Unwind, Quiet, Hears,
         pvars, WaitForRaises
<1>10. CASE Reap(r)
  BY <1>10 DEF Reap, IInv, TypeOK, Apart, Goes, Starts, Unwind, Quiet, Hears, pvars
<1>11. CASE Interrupted(r)
  BY <1>11 DEF Interrupted, IInv, TypeOK, Apart, Goes, Starts, Unwind, Quiet, Hears,
         pvars
<1>12. CASE CleanedUp(r)
  BY <1>12 DEF CleanedUp, IInv, TypeOK, Apart, Goes, Starts, Unwind, Quiet, Hears, pvars
<1>13. CASE CleanupAbandoned(r)
  BY <1>13 DEF CleanupAbandoned, IInv, TypeOK, Apart, Goes, Starts, Unwind, Quiet,
         Hears, pvars
<1>14. QED
  BY <1>1, <1>2, <1>3, <1>4, <1>5, <1>6, <1>7, <1>8, <1>9, <1>10, <1>11, <1>12, <1>13

LEMMA OtherApart ==
  ASSUME NEW r \in Request, IInv,
         \/ Call(r) \/ TypstExits(r) \/ TypstDies(r) \/ ExitReported(r)
         \/ RenderTimeout(r) \/ Disconnect(r)
  PROVE  TypeOK' /\ Apart(r)
<1>1. CASE Call(r)
  BY <1>1 DEF Call, IInv, TypeOK, Apart, CancelTask, Goes, Quiet, Adds, cvars, tvars,
         pvars
<1>2. CASE TypstExits(r)
  BY <1>2 DEF TypstExits, IInv, TypeOK, Apart, CancelTask, Goes, Quiet, Adds, cvars,
         tvars, pvars
<1>3. CASE TypstDies(r)
  BY <1>3 DEF TypstDies, IInv, TypeOK, Apart, CancelTask, Goes, Quiet, Adds, cvars,
         tvars, pvars
<1>4. CASE ExitReported(r)
  BY <1>4 DEF ExitReported, IInv, TypeOK, Apart, CancelTask, Goes, Quiet, Adds, cvars,
         tvars, pvars
<1>5. CASE RenderTimeout(r)
  BY <1>5 DEF RenderTimeout, IInv, TypeOK, Apart, CancelTask, Goes, Quiet, Adds, cvars,
         tvars, pvars
<1>6. CASE Disconnect(r)
  BY <1>6 DEF Disconnect, IInv, TypeOK, Apart, CancelTask, Goes, Quiet, Adds, cvars,
         tvars, pvars
<1>7. QED
  BY <1>1, <1>2, <1>3, <1>4, <1>5, <1>6

-----------------------------------------------------------------------------
(* The render that takes the step *)

\* The thread that writes the files is awaited, or was abandoned there.
LEMMA FilesThread ==
  ASSUME NEW r \in Request, IInv, "files" \in jobs[r] \/ "write" \in jobs[r]
  PROVE  at[r] = "files" \/ (at[r] \in Late /\ heardAt[r] = "files")
<1>1. /\ at[r] \notin Late => jobs[r] \subseteq Working(at[r])
      /\ at[r] \in Late => jobs[r] \subseteq Working(heardAt[r]) \cup {"rmtree", "rmdir"}
  BY DEF IInv, RenderInv, TreeInv
<1>2. "files" \in Working(at[r]) \/ "write" \in Working(at[r]) => at[r] = "files"
  BY DEF Working
<1>3. "files" \in Working(heardAt[r]) \/ "write" \in Working(heardAt[r])
        => heardAt[r] = "files"
  BY DEF Working
<1>4. QED
  BY <1>1, <1>2, <1>3

\* It makes the directories of the next file, the temporary one too.
LEMMA MakeParentsInv ==
  ASSUME NEW r \in Request, IInv, MakeParents(r)
  PROVE  RenderInv(r)'
<1>1. /\ "files" \in jobs[r] /\ left[r] > 0
      /\ tree'[r] = tree[r] \cup {"tmp", "project"}
      /\ jobs'[r] = (jobs[r] \ {"files"}) \cup {"write"}
      /\ UNCHANGED <<at, asked, hungUp, heardAt, raised, plan, result, left, fault, pvars>>
  BY DEF IInv, TypeOK, MakeParents, Adds, cvars
<1>2. TypstInv(r)' /\ ResultInv(r)' /\ AskedInv(r)'
  BY <1>1 DEF IInv, RenderInv, TypstInv, ResultInv, AskedInv, OutOfMemory, pvars
<1>3. FilesInv(r)'
  BY <1>1 DEF IInv, RenderInv, FilesInv
<1>4. at[r] = "files" \/ (at[r] \in Late /\ heardAt[r] = "files")
  BY <1>1, FilesThread
<1>5. Working("files") = {"files", "write"} /\ LeftBehind("files") = {"tmp", "project", "file"}
  BY DEF Working, LeftBehind
<1>6. TreeInv(r)'
  BY <1>1, <1>4, <1>5 DEF IInv, RenderInv, TreeInv, Late
<1>7. QED
  BY <1>2, <1>3, <1>6 DEF RenderInv

\* It writes the file, and takes up the next one or ends.
LEMMA WriteFileInv ==
  ASSUME NEW r \in Request, IInv, WriteFile(r)
  PROVE  RenderInv(r)'
<1>1. /\ "write" \in jobs[r] /\ left[r] > 0 /\ left[r] \in Nat
      /\ UNCHANGED <<at, asked, hungUp, heardAt, raised, plan, result, pvars>>
  BY DEF IInv, TypeOK, RenderInv, FilesInv, WriteFile, cvars
<1>2. \/ /\ jobs'[r] = (jobs[r] \ {"write"}) \cup {"files"} /\ left'[r] = left[r] - 1
         /\ tree'[r] = tree[r] \cup {"file"} /\ fault'[r] = fault[r]
      \/ /\ jobs'[r] = jobs[r] \ {"write"} /\ left' = left /\ tree' = tree
         /\ fault'[r] \in {"refused", "unhandled"} \/ (at[r] # "files" /\ fault'[r] = fault[r])
  <2>1. /\ jobs \in [Request -> SUBSET Job] /\ left \in [Request -> 0..MaxFiles]
        /\ tree \in [Request -> SUBSET Entry] /\ fault \in [Request -> Result]
        /\ at[r] # "write"
    BY DEF IInv, TypeOK
  <2>2. QED
    BY <2>1 DEF WriteFile, JobEnds, Adds
<1>3. at[r] = "files" \/ (at[r] \in Late /\ heardAt[r] = "files")
  BY <1>1, FilesThread
<1>4. TypstInv(r)' /\ AskedInv(r)'
  BY <1>1 DEF IInv, RenderInv, TypstInv, AskedInv, pvars
<1>5. ResultInv(r)'
  BY <1>1, <1>2 DEF IInv, RenderInv, ResultInv, OutOfMemory, pvars
<1>6. FilesInv(r)'
  BY <1>1, <1>2, <1>3 DEF IInv, RenderInv, FilesInv, Late
<1>7. Working("files") = {"files", "write"} /\ LeftBehind("files") = {"tmp", "project", "file"}
  BY DEF Working, LeftBehind
<1>8. TreeInv(r)'
  BY <1>1, <1>2, <1>3, <1>7 DEF IInv, RenderInv, TreeInv, Late
<1>9. QED
  BY <1>4, <1>5, <1>6, <1>8 DEF RenderInv

LEMMA ThreadInv ==
  ASSUME NEW r \in Request, IInv,
         \/ MakeTempDir(r) \/ MakeProject(r) \/ FilesWritten(r) \/ FileRefused(r)
         \/ MakeParents(r) \/ WriteFile(r) \/ WriteTemplate(r) \/ CollectOutput(r)
         \/ ReadOutput(r) \/ RemoveEntries(r) \/ RemoveTempDir(r)
  PROVE  RenderInv(r)'
<1> USE DEF IInv, TypeOK, RenderInv, TypstInv, ResultInv, FilesInv, AskedInv, TreeInv,
            Early, Late, Working, OutOfMemory, LeftBehind
<1>1. CASE MakeTempDir(r)
  BY <1>1 DEF MakeTempDir, JobEnds, Adds, cvars, pvars
<1>2. CASE MakeProject(r)
  BY <1>2 DEF MakeProject, JobEnds, Adds, cvars, pvars
<1>3. CASE FilesWritten(r)
  BY <1>3 DEF FilesWritten, JobEnds, Adds, cvars, pvars
<1>4. CASE FileRefused(r)
  BY <1>4 DEF FileRefused, JobEnds, Adds, cvars, pvars
<1>5. CASE MakeParents(r)
  BY <1>5, MakeParentsInv
<1>6. CASE WriteFile(r)
  BY <1>6, WriteFileInv
<1>7. CASE WriteTemplate(r)
  BY <1>7 DEF WriteTemplate, JobEnds, Adds, cvars, pvars
<1>8. CASE CollectOutput(r)
  BY <1>8 DEF CollectOutput, JobEnds, Adds, cvars, pvars
<1>9. CASE ReadOutput(r)
  BY <1>9 DEF ReadOutput, JobEnds, Adds, cvars, pvars
<1>10. CASE RemoveEntries(r)
  BY <1>10 DEF RemoveEntries, JobEnds, Adds, cvars, pvars
<1>11. CASE RemoveTempDir(r)
  BY <1>11 DEF RemoveTempDir, JobEnds, Adds, cvars, pvars
<1>12. QED
  BY <1>1, <1>2, <1>3, <1>4, <1>5, <1>6, <1>7, <1>8, <1>9, <1>10, <1>11

\* The thread that was awaited has ended, and no other is at work.
LEMMA Alone ==
  ASSUME NEW r \in Request, IInv, JobDone(r)
  PROVE  jobs[r] = {}
<1>1. jobs[r] \subseteq Working(at[r])
  BY DEF IInv, RenderInv, TreeInv, JobDone, Late
<1>2. QED
  BY <1>1 DEF JobDone, Working

\* One thread is followed by the next.
LEMMA ProceedInv ==
  ASSUME NEW r \in Request, IInv, Proceed(r)
  PROVE  RenderInv(r)'
<1> DEFINE p == Then[at[r]]
<1>1. \/ at[r] = "mktemp" /\ p = "mkdir"
      \/ at[r] = "mkdir" /\ p = "files"
      \/ at[r] = "files" /\ p = "bind"
      \/ at[r] = "collect" /\ p = "deliver"
  BY DEF Proceed, Then
<1>2. jobs[r] = {}
  BY Alone DEF Proceed
<1> HIDE DEF p
<1>3. /\ at'[r] = p /\ result'[r] = "none" /\ fault[r] = "none" /\ fault'[r] = "none"
      /\ jobs'[r] = {p} /\ asked[r] = {}
      /\ UNCHANGED <<asked, hungUp, heardAt, raised, plan, left, tree, pvars>>
  BY <1>2 DEF p, Proceed, JobDone, Goes, Starts, Quiet, IInv, TypeOK
<1>4. TypstInv(r)' /\ AskedInv(r)'
  BY <1>1, <1>3 DEF IInv, RenderInv, TypstInv, AskedInv, Early, Late, pvars
<1>5. ResultInv(r)'
  BY <1>1, <1>3 DEF IInv, RenderInv, ResultInv, Late, OutOfMemory, pvars
<1>6. FilesInv(r)'
  BY <1>1, <1>2, <1>3 DEF IInv, RenderInv, FilesInv
<1>7. p \in Working(p)
  BY <1>1 DEF Working
<1>8. TreeInv(r)'
  BY <1>1, <1>3, <1>7 DEF IInv, RenderInv, TreeInv, Late
<1>9. QED
  BY <1>4, <1>5, <1>6, <1>8 DEF RenderInv

LEMMA CoroutineInv ==
  ASSUME NEW r \in Request, IInv,
         \/ RefuseSource(r) \/ Begin(r) \/ Proceed(r) \/ PrepareCompile(r)
         \/ Deliver(r) \/ JobFailed(r) \/ Spawn(r) \/ CompileEnds(r)
         \/ KillCompile(r) \/ Reap(r) \/ Interrupted(r) \/ CleanedUp(r)
         \/ CleanupAbandoned(r)
  PROVE  RenderInv(r)'
<1> USE DEF IInv, TypeOK, RenderInv, TypstInv, ResultInv, FilesInv, AskedInv, TreeInv,
            Early, Late, Working, OutOfMemory, LeftBehind
<1>1. CASE RefuseSource(r)
  BY <1>1 DEF RefuseSource, Goes, Starts, Unwind, Quiet, Hears, pvars
<1>2. CASE Begin(r)
  BY <1>2 DEF Begin, Goes, Starts, Unwind, Quiet, Hears, pvars
<1>3. CASE Proceed(r)
  BY <1>3, ProceedInv
<1>4. CASE PrepareCompile(r)
  BY <1>4 DEF PrepareCompile, Goes, Starts, Unwind, Quiet, Hears, pvars, JobDone
<1>5. CASE Deliver(r)
  <2>1. TypstInv(r)'
    BY <1>5 DEF Deliver, Goes, Starts, Unwind, Quiet, Hears, pvars, JobDone
  <2>2. ResultInv(r)'
    BY <1>5 DEF Deliver, Goes, Starts, Unwind, Quiet, Hears, pvars, JobDone
  <2>3. FilesInv(r)'
    BY <1>5 DEF Deliver, Goes, Starts, Unwind, Quiet, Hears, pvars, JobDone
  <2>4. AskedInv(r)'
    BY <1>5 DEF Deliver, Goes, Starts, Unwind, Quiet, Hears, pvars, JobDone
  <2>5. TreeInv(r)'
    BY <1>5 DEF Deliver, Goes, Starts, Unwind, Quiet, Hears, pvars, JobDone
  <2>6. QED
    BY <2>1, <2>2, <2>3, <2>4, <2>5
<1>6. CASE JobFailed(r)
  BY <1>6 DEF JobFailed, Goes, Starts, Unwind, Quiet, Hears, pvars, JobDone
<1>7. CASE Spawn(r)
  BY <1>7 DEF Spawn, Goes, Starts, Unwind, Quiet, Hears, pvars
<1>8. CASE CompileEnds(r)
  BY <1>8 DEF CompileEnds, Goes, Starts, Unwind, Quiet, Hears, pvars, Verdict
<1>9. CASE KillCompile(r)
  BY <1>9 DEF KillCompile, Goes, Starts, Unwind, Quiet, Hears, pvars, WaitForRaises
<1>10. CASE Reap(r)
  BY <1>10 DEF Reap, Goes, Starts, Unwind, Quiet, Hears, pvars
<1>11. CASE Interrupted(r)
  BY <1>11 DEF Interrupted, Goes, Starts, Unwind, Quiet, Hears, pvars
<1>12. CASE CleanedUp(r)
  BY <1>12 DEF CleanedUp, Goes, Starts, Unwind, Quiet, Hears, pvars
<1>13. CASE CleanupAbandoned(r)
  BY <1>13 DEF CleanupAbandoned, Goes, Starts, Unwind, Quiet, Hears, pvars
<1>14. QED
  BY <1>1, <1>2, <1>3, <1>4, <1>5, <1>6, <1>7, <1>8, <1>9, <1>10, <1>11, <1>12, <1>13

LEMMA OtherInv ==
  ASSUME NEW r \in Request, IInv,
         \/ Call(r) \/ TypstExits(r) \/ TypstDies(r) \/ ExitReported(r)
         \/ RenderTimeout(r) \/ Disconnect(r)
  PROVE  RenderInv(r)'
<1> USE DEF IInv, TypeOK, RenderInv, TypstInv, ResultInv, FilesInv, AskedInv, TreeInv,
            Early, Late, Working, OutOfMemory, LeftBehind
<1>1. CASE Call(r)
  BY <1>1 DEF Call, CancelTask, Goes, Quiet, Adds, cvars, tvars, pvars
<1>2. CASE TypstExits(r)
  BY <1>2 DEF TypstExits, CancelTask, Goes, Quiet, Adds, cvars, tvars, pvars
<1>3. CASE TypstDies(r)
  BY <1>3 DEF TypstDies, CancelTask, Goes, Quiet, Adds, cvars, tvars, pvars
<1>4. CASE ExitReported(r)
  BY <1>4 DEF ExitReported, CancelTask, Goes, Quiet, Adds, cvars, tvars, pvars
<1>5. CASE RenderTimeout(r)
  BY <1>5 DEF RenderTimeout, CancelTask, Goes, Quiet, Adds, cvars, tvars, pvars
<1>6. CASE Disconnect(r)
  BY <1>6 DEF Disconnect, CancelTask, Goes, Quiet, Adds, cvars, tvars, pvars
<1>7. QED
  BY <1>1, <1>2, <1>3, <1>4, <1>5, <1>6

-----------------------------------------------------------------------------

LEMMA StepInv == IInv /\ [Next]_vars => IInv'
<1> SUFFICES ASSUME IInv, [Next]_vars PROVE IInv'
  OBVIOUS
<1>1. CASE UNCHANGED vars
  BY <1>1 DEF vars, cvars, tvars, pvars, IInv, TypeOK, RenderInv, TypstInv, ResultInv,
              FilesInv, AskedInv, TreeInv, OutOfMemory
<1>2. ASSUME NEW r \in Request, \/ Call(r) \/ Step(r) \/ Disconnect(r)
      PROVE  IInv'
  <2>1. TypeOK' /\ Apart(r)
    BY <1>2, ThreadApart, CoroutineApart, OtherApart DEF Step, ThreadStep, CoroutineStep
  <2>2. RenderInv(r)'
    BY <1>2, ThreadInv, CoroutineInv, OtherInv DEF Step, ThreadStep, CoroutineStep
  <2>3. ASSUME NEW q \in Request, q # r PROVE RenderInv(q)'
    <3>1. RenderInv(q)
      BY DEF IInv
    <3>2. QED
      BY <2>1, <2>3, <3>1 DEF Apart, RenderInv, TypstInv, ResultInv, FilesInv, AskedInv,
                              TreeInv, OutOfMemory
  <2>4. QED
    BY <2>1, <2>2, <2>3 DEF IInv
<1>3. QED
  BY <1>1, <1>2 DEF Next, Finished

\* What Typst, the result, the files, the cancellations and the tree are to each
\* other at every await holds in every state.
THEOREM RenderInvariance == Spec => []IInv
<1>1. QED
  BY InitInv, StepInv, PTL DEF Spec

\* Neither a timeout nor a hang-up, nor both at once, leaves Typst at work behind
\* the body of the render.
THEOREM TypstAlwaysEndsFirst == Spec => []TypstEndsFirst
<1>1. IInv => TypstEndsFirst
  BY DEF IInv, RenderInv, TypstInv, TypstEndsFirst
<1>2. QED
  BY <1>1, RenderInvariance, PTL

\* A document is what Typst finished, in time, with every file in place.
THEOREM DocumentsAreWhole == Spec => []DocumentIsWhole
<1>1. IInv => DocumentIsWhole
  BY DEF IInv, RenderInv, ResultInv, DocumentIsWhole
<1>2. QED
  BY <1>1, RenderInvariance, PTL

\* A 4xx is answered for no signal but the one that means memory.
THEOREM CrashesAreNotTheCallers == Spec => []NoCrashBlamedOnCaller
<1>1. IInv => NoCrashBlamedOnCaller
  BY DEF IInv, RenderInv, ResultInv, NoCrashBlamedOnCaller, OutOfMemory
<1>2. QED
  BY <1>1, RenderInvariance, PTL

\* Whatever failed, and whenever the client hung up, nothing stays on disk but what
\* the one thread at work at that moment may write.
THEOREM TreesAreRemoved == Spec => []TreeRemoved
<1>1. IInv => TreeRemoved
  BY DEF IInv, RenderInv, TreeInv, Late, TreeRemoved
<1>2. QED
  BY <1>1, RenderInvariance, PTL

-----------------------------------------------------------------------------
(* The render and its permit: the parts *)

LEMMA InitParts == ServiceInit => Slots!Init /\ Init
BY DEF ServiceInit

LEMMA SlotsStep == [ServiceNext]_serviceVars => [Slots!Next]_slots
<1> SUFFICES ASSUME ServiceNext PROVE Slots!Next \/ UNCHANGED slots
  BY DEF serviceVars
<1>1. CASE ServiceFinished
  BY <1>1 DEF ServiceFinished, serviceVars
<1>2. ASSUME NEW r \in Request, \/ Wait(r) \/ StartRender(r) \/ RenderStep(r)
                                \/ DisconnectQueued(r) \/ DisconnectRendering(r)
      PROVE  Slots!Next \/ UNCHANGED slots
  <2>1. AnswerTo(result'[r]) \in Slots!Answer
    BY DEF AnswerTo, Slots!Answer
  <2>2. QED
    BY <1>2, <2>1 DEF Wait, StartRender, RenderStep, DisconnectQueued, DisconnectRendering,
                      Slots!Next, Slots!AnyEnd
<1>3. QED
  BY <1>1, <1>2 DEF ServiceNext

LEMMA RenderStepOrNone == [ServiceNext]_serviceVars => [Next]_vars
<1> SUFFICES ASSUME ServiceNext PROVE Next \/ UNCHANGED vars
  BY DEF serviceVars
<1>1. CASE ServiceFinished
  BY <1>1 DEF ServiceFinished, serviceVars
<1>2. ASSUME NEW r \in Request, \/ Wait(r) \/ StartRender(r) \/ RenderStep(r)
                                \/ DisconnectQueued(r) \/ DisconnectRendering(r)
      PROVE  Next \/ UNCHANGED vars
  BY <1>2 DEF Wait, StartRender, RenderStep, DisconnectQueued, DisconnectRendering, Next
<1>3. QED
  BY <1>1, <1>2 DEF ServiceNext

\* The proofs about the permits speak of the same permits.
LEMMA SameSlots == /\ Slots!Init => S!Init
                   /\ [Slots!Next]_slots => [S!Next]_slots
<1>1. Slots!Init => S!Init
  BY DEF Slots!Init, S!Init
<1>2. [Slots!Next]_slots => [S!Next]_slots
  BY DEF Slots!Next, S!Next, Slots!Refuse, S!Refuse, Slots!AcquireAtOnce, S!AcquireAtOnce,
         Slots!Enqueue, S!Enqueue, Slots!QueueTimeout, S!QueueTimeout,
         Slots!Disconnect, S!Disconnect, Slots!Admit, S!Admit, Slots!GiveUp, S!GiveUp,
         Slots!AnyEnd, S!AnyEnd, Slots!RenderEnds, S!RenderEnds, Slots!Finish, S!Finish,
         Slots!Locked, S!Locked, Slots!CancelTask, S!CancelTask,
         Slots!Without, S!Without, Slots!WakeAll, S!WakeAll, Slots!WakeUp, S!WakeUp,
         Slots!FirstWaiters, S!FirstWaiters, Slots!Ahead, S!Ahead,
         Slots!Pending, S!Pending, Slots!GivenBack, S!GivenBack,
         Slots!GaugeAfterGivingUp, S!GaugeAfterGivingUp, Slots!Release, S!Release,
         Slots!ReleaseFinally, S!ReleaseFinally, Slots!RenderResult, S!RenderResult,
         Slots!Finished, S!Finished, Slots!vars, S!vars, Slots!Answer, S!Answer,
         Cardinality, Slots!Cardinality, S!Cardinality
<1>3. QED
  BY <1>1, <1>2

LEMMA PartsInit == ServiceInit => S!IInv /\ IInv
<1>1. Slots!Init => S!IInv
  BY SameSlots, S!InitInvariant, RequestAssumption, MaxConcurrentAssumption
     DEF IsFiniteSet, S!IsFiniteSet
<1>2. QED
  BY <1>1, InitInv DEF ServiceInit

\* What was proved inductive of each part is kept by the whole.
LEMMA PartsStep == /\ S!IInv /\ [ServiceNext]_serviceVars => S!IInv'
                   /\ IInv /\ [ServiceNext]_serviceVars => IInv'
<1>1. S!IInv /\ [S!Next]_slots => S!IInv'
  BY S!StepInvariant, RequestAssumption, MaxConcurrentAssumption
     DEF S!vars, slots, IsFiniteSet, S!IsFiniteSet
<1>2. QED
  BY <1>1, SlotsStep, SameSlots, RenderStepOrNone, StepInv

-----------------------------------------------------------------------------
(* The parts together *)

\* A permit is held exactly while the render lasts.
Together == \A r \in Request : pc[r] = "rendering" <=> at[r] \notin {"idle", "ended"}

ServiceInv == S!IInv /\ IInv /\ Together

\* Where a step of a render leaves its coroutine: nothing but Call leaves idle, and
\* nothing leaves the end.
LEMMA StepMoves ==
  ASSUME NEW r \in Request, Step(r)
  PROVE  \/ at' = at
         \/ at[r] \notin {"idle", "ended"} /\ \E p : p # "idle" /\ at' = [at EXCEPT ![r] = p]
<1>1. CASE ThreadStep(r)
  BY <1>1 DEF ThreadStep, MakeTempDir, MakeProject, FilesWritten,
              FileRefused, MakeParents, WriteFile,
              WriteTemplate, CollectOutput, ReadOutput,
              RemoveEntries, RemoveTempDir, cvars
<1>2. CASE CoroutineStep(r)
  BY <1>2 DEF CoroutineStep, RefuseSource, Begin, Proceed,
              PrepareCompile, Deliver, JobFailed, Spawn,
              CompileEnds, KillCompile, Reap, Interrupted,
              CleanedUp, CleanupAbandoned, JobDone, Goes,
              Unwind, Then, ThreadAwait
<1>3. CASE \/ TypstExits(r) \/ TypstDies(r) \/ ExitReported(r)
           \/ RenderTimeout(r)
  BY <1>3 DEF TypstExits, TypstDies, ExitReported,
              RenderTimeout, CancelTask, cvars
<1>4. QED
  BY <1>1, <1>2, <1>3 DEF Step

LEMMA InitTogether == ServiceInit => ServiceInv
BY PartsInit DEF ServiceInit, Slots!Init, Init, ServiceInv, Together

LEMMA StepTogether == ServiceInv /\ [ServiceNext]_serviceVars => ServiceInv'
<1> SUFFICES ASSUME ServiceInv, [ServiceNext]_serviceVars PROVE Together'
  BY PartsStep DEF ServiceInv
<1>1. /\ pc \in [Request -> {"new", "queued", "rendering", "answered"}]
      /\ \A r \in Request : fut[r] # "none" => pc[r] = "queued"
  BY DEF ServiceInv, S!IInv, S!TypeOK, S!Place
<1>2. DOMAIN at = Request
  BY DEF ServiceInv, IInv, TypeOK
<1>3. \A r \in Request : pc[r] = "rendering" <=> at[r] \notin {"idle", "ended"}
  BY DEF ServiceInv, Together
<1>4. CASE UNCHANGED serviceVars \/ ServiceFinished
  <2>1. UNCHANGED slots /\ UNCHANGED vars
    BY <1>4 DEF ServiceFinished, serviceVars
  <2>2. pc' = pc /\ at' = at
    BY <2>1 DEF slots, vars, cvars
  <2>3. QED
    BY <1>3, <2>2 DEF Together
<1>6. ASSUME NEW r \in Request, Wait(r) PROVE Together'
  <2>1. at' = at /\ pc[r] # "rendering"
    BY <1>1, <1>6 DEF Wait, vars, cvars, Slots!Refuse, Slots!Enqueue, Slots!QueueTimeout,
                      Slots!GiveUp
  <2>2. \E p : p # "rendering" /\ pc' = [pc EXCEPT ![r] = p]
    <3>1. CASE Slots!Refuse(r) \/ Slots!GiveUp(r)
      <4>1. pc' = [pc EXCEPT ![r] = "answered"]
        BY <3>1 DEF Slots!Refuse, Slots!GiveUp, Slots!Finish
      <4>2. QED
        BY <4>1
    <3>2. CASE Slots!Enqueue(r)
      <4>1. pc' = [pc EXCEPT ![r] = "queued"]
        BY <3>2 DEF Slots!Enqueue
      <4>2. QED
        BY <4>1
    <3>3. CASE Slots!QueueTimeout(r)
      <4>1. pc' = [pc EXCEPT ![r] = pc[r]]
        BY <1>1, <3>3 DEF Slots!QueueTimeout, Slots!CancelTask
      <4>2. QED
        BY <2>1, <4>1
    <3>4. QED
      BY <1>6, <3>1, <3>2, <3>3 DEF Wait
  <2>3. QED
    BY <1>1, <1>3, <2>1, <2>2 DEF Together
<1>7. ASSUME NEW r \in Request, StartRender(r) PROVE Together'
  <2>1. pc' = [pc EXCEPT ![r] = "rendering"] /\ at' = [at EXCEPT ![r] = "begin"]
    BY <1>7 DEF StartRender, Slots!AcquireAtOnce, Slots!Admit, Call, Goes
  <2>2. QED
    BY <1>1, <1>2, <1>3, <2>1 DEF Together
<1>8. ASSUME NEW r \in Request, RenderStep(r) PROVE Together'
  <2>1. \/ at' = at
        \/ at[r] \notin {"idle", "ended"} /\ \E p : p # "idle" /\ at' = [at EXCEPT ![r] = p]
    BY <1>8, StepMoves DEF RenderStep
  <2>2. CASE Returns(r)
    <3>1. pc' = [pc EXCEPT ![r] = "answered"]
      BY <1>8, <2>2 DEF RenderStep, Slots!RenderEnds, Slots!Finish
    <3>2. at' = [at EXCEPT ![r] = "ended"]
      BY <1>2, <2>1, <2>2 DEF Returns
    <3>3. QED
      BY <1>1, <1>2, <1>3, <3>1, <3>2 DEF Together
  <2>3. CASE ~Returns(r)
    <3>1. pc' = pc
      BY <1>8, <2>3 DEF RenderStep, slots
    <3>2. QED
      BY <1>2, <1>3, <2>1, <2>3, <3>1 DEF Together, Returns
  <2>4. QED
    BY <2>2, <2>3
<1>9. ASSUME NEW r \in Request, DisconnectQueued(r) \/ DisconnectRendering(r) PROVE Together'
  <2>1. pc' = pc /\ at' = at
    BY <1>9 DEF DisconnectQueued, DisconnectRendering, Slots!Disconnect, Slots!CancelTask,
                Disconnect, CancelTask, vars, cvars
  <2>2. QED
    BY <1>3, <2>1 DEF Together
<1>10. QED
  BY <1>4, <1>6, <1>7, <1>8, <1>9 DEF ServiceNext

\* Both parts keep their invariants beside each other, and a permit is held from
\* the call of render to its return.
THEOREM ServiceInvariance == ServiceSpec => []ServiceInv
<1>1. QED
  BY InitTogether, StepTogether, PTL DEF ServiceSpec

\* With any number of permits and requests, and whatever times out or hangs up,
\* neither Typst processes nor trees of clients that stayed outnumber the permits.
THEOREM ResourcesAreBounded == ServiceSpec => []ResourcesBounded
<1>1. ServiceInv => ResourcesBounded
  <2> SUFFICES ASSUME ServiceInv PROVE ResourcesBounded
    OBVIOUS
  <2> DEFINE Compiling == {r \in Request : proc[r] = "running"}
             Occupied  == {r \in Request : tree[r] # {} /\ ~hungUp[r]}
             Held      == {r \in Request : pc[r] = "rendering"}
  <2>1. IsFiniteSet(Held) /\ Cardinality(Held) <= MaxConcurrent
    <3>1. S!Rendering \subseteq S!Held /\ S!Held \in SUBSET Request
      BY DEF S!Rendering, S!Held
    <3>2. value \in 0..MaxConcurrent /\ value + Cardinality(S!Held) = MaxConcurrent
      BY DEF ServiceInv, S!IInv, S!TypeOK, S!PermitsConserved, Cardinality, S!Cardinality
    <3>3. /\ IsFiniteSet(S!Held) /\ Cardinality(S!Held) \in Nat
          /\ IsFiniteSet(S!Rendering) /\ Cardinality(S!Rendering) \in Nat
          /\ Cardinality(S!Rendering) <= Cardinality(S!Held)
      BY <3>1, RequestAssumption, FS_Subset, FS_CardinalityType
    <3>4. Cardinality(S!Rendering) <= MaxConcurrent
      BY <3>2, <3>3, MaxConcurrentAssumption
    <3>5. Held = S!Rendering
      BY DEF S!Rendering
    <3> HIDE DEF Held
    <3>6. QED
      BY <3>3, <3>4, <3>5
  <2>2. ASSUME NEW C \in SUBSET Held PROVE Cardinality(C) <= MaxConcurrent
    <3>1. /\ Cardinality(C) \in Nat /\ Cardinality(Held) \in Nat
          /\ Cardinality(C) <= Cardinality(Held)
      BY <2>1, FS_Subset, FS_CardinalityType
    <3>2. QED
      BY <2>1, <3>1, MaxConcurrentAssumption
  <2>3. Compiling \subseteq Held
    BY DEF ServiceInv, IInv, RenderInv, TypstInv, Together
  <2>4. Occupied \subseteq Held
    <3>1. SUFFICES ASSUME NEW r \in Request, tree[r] # {}, ~hungUp[r],
                          at[r] \in {"idle", "ended"}
                   PROVE  FALSE
      BY DEF ServiceInv, Together
    <3>2. AskedInv(r) /\ TreeInv(r)
      BY DEF ServiceInv, IInv, RenderInv
    <3>3. at[r] = "ended" /\ jobs[r] = {} /\ LeftBehind(heardAt[r]) = {}
      BY <3>1, <3>2 DEF AskedInv, TreeInv, LeftBehind, ThreadAwait
    <3>4. QED
      BY <3>1, <3>2, <3>3 DEF TreeInv, Late
  <2>5. QED
    BY <2>2, <2>3, <2>4 DEF ResourcesBounded
<1>2. QED
  BY <1>1, ServiceInvariance, PTL

\* The permits of the service behave as RenderSlots says: what is proved of their
\* safety holds of the service.
THEOREM PermitsAsSpecified == ServiceSpec => Slots!Spec
<1>1. QED
  BY InitParts, SlotsStep, PTL DEF ServiceSpec, Slots!Spec, Slots!vars, slots

=============================================================================
