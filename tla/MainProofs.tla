----------------------------- MODULE MainProofs -----------------------------
(***************************************************************************)
(* Proofs about what app/main.py brings together: how a process comes to     *)
(* serve (Startup), what its host then does to its answers (Deployment), and *)
(* the middleware that every request of it passes (BodyLimit).              *)
(***************************************************************************)
EXTENDS Deployment, BodyLimit, SequenceTheorems, TLAPS

-----------------------------------------------------------------------------
(* Startup: type correctness, and that nothing the deployment set up is dropped *)
(* without a word, whatever the environments, the roots and the lengths.      *)

\* Only a limit above the floor brings a process past its settings.
FloorHolds == limit # "low"

TokenHeld == stage \in {"create", "probing"} => token # "none"

\* What the process serves with is what it was given, or what it has said.
Told ==
  /\ stage \in {"create", "probing", "serving"} =>
       limit = LimitRead /\ (token = given.token \/ IsDevelopment)
  /\ stage \in {"probing", "serving"} => reports = SetupSentry /\ said = Warnings

StartupInv == StartupTypeOK /\ FloorHolds /\ TokenHeld

-----------------------------------------------------------------------------

\* What a process starts with: its environment, and nothing settled.
LEMMA StartupInitInvariant == StartupInit => StartupInv
  BY DeploymentsAssumption DEF StartupInit, StartupInv, StartupTypeOK, FloorHolds, TokenHeld

\* Each step of the start, and each change of the host, keeps types, floor and token.
LEMMA StartupStepInvariant == StartupInv /\ [StartupNext]_startupVars => StartupInv'
<1> SUFFICES ASSUME StartupInv, [StartupNext]_startupVars
             PROVE  StartupInv'
  OBVIOUS
<1> USE DEF StartupInv, StartupTypeOK, FloorHolds, TokenHeld
<1>1. CASE ReadSettings
  <2>1. HasToken => given.token \in {"published", "own"}
    BY DEF HasToken
  <2>2. CASE stage' = "refused" /\ UNCHANGED <<limit, token>>
    BY <1>1, <2>2 DEF ReadSettings
  <2>3. CASE /\ LimitValid /\ stage' = "create" /\ limit' = LimitRead
             /\ token' = IF HasToken THEN given.token ELSE "published"
    <3>1. limit' \in {"none", "enough"}
      BY <2>3 DEF LimitValid
    <3>2. token' \in {"published", "own"}
      BY <2>1, <2>3
    <3> QED
      BY <1>1, <2>3, <3>1, <3>2 DEF ReadSettings
  <2> QED
    BY <1>1, <2>2, <2>3 DEF ReadSettings
<1>2. CASE CreateApp
  <2>1. Warnings \subseteq {"dev_token", "memory_unbounded", "sdk_missing"}
    BY DEF Warnings
  <2>2. SetupSentry \in BOOLEAN
    BY DEF SetupSentry
  <2> QED
    BY <1>2, <2>1, <2>2 DEF CreateApp
<1>3. CASE ProbeEnds
  BY <1>3 DEF ProbeEnds
<1>4. CASE ProbeTimesOut
  BY <1>4 DEF ProbeTimesOut
<1>5. CASE HostChanges
  <2>1. host' \in Host
    BY <1>5 DEF HostChanges, RootChanges, ToolsChange, Host
  <2> QED
    BY <1>5, <2>1 DEF HostChanges
<1>6. CASE Stopped
  BY <1>6 DEF Stopped, startupVars
<1>7. CASE UNCHANGED startupVars
  BY <1>7 DEF startupVars
<1> QED
  BY <1>1, <1>2, <1>3, <1>4, <1>5, <1>6, <1>7 DEF StartupNext, StartupStep

\* The settings are kept as they were read, and so is what was said of them.
LEMMA ToldInvariant == Told /\ [StartupNext]_startupVars => Told'
<1> SUFFICES ASSUME Told, [StartupNext]_startupVars PROVE Told'
  OBVIOUS
<1>1. CASE ReadSettings
  BY <1>1 DEF ReadSettings, Told, HasToken, LimitRead, IsDevelopment, EffectiveEnvironment
<1>2. CASE CreateApp
  <2>1. /\ UNCHANGED <<given, limit, token>> /\ stage = "create"
        /\ reports' = SetupSentry /\ said' = Warnings
    BY <1>2 DEF CreateApp
  <2>2. LimitRead' = LimitRead /\ IsDevelopment' = IsDevelopment /\ SetupSentry' = SetupSentry
        /\ Warnings' = Warnings
    BY <2>1 DEF LimitRead, IsDevelopment, EffectiveEnvironment, SetupSentry, Warnings, WarnOfToken
  <2>3. QED
    BY <2>1, <2>2 DEF Told
<1>3. CASE \/ ProbeEnds \/ ProbeTimesOut \/ HostChanges \/ Stopped \/ UNCHANGED startupVars
  <2>1. /\ UNCHANGED <<given, limit, token, reports, said>>
        /\ stage' = stage \/ (stage = "probing" /\ stage' \in {"serving", "refused"})
    BY <1>3 DEF ProbeEnds, ProbeTimesOut, HostChanges, Stopped, startupVars
  <2>2. LimitRead' = LimitRead /\ IsDevelopment' = IsDevelopment /\ SetupSentry' = SetupSentry
        /\ Warnings' = Warnings
    BY <2>1 DEF LimitRead, IsDevelopment, EffectiveEnvironment, SetupSentry, Warnings, WarnOfToken
  <2>3. QED
    BY <2>1, <2>2 DEF Told
<1> QED
  BY <1>1, <1>2, <1>3 DEF StartupNext, StartupStep

\* Type correctness: in particular, what serves has a token and no limit below the
\* floor.
THEOREM StartupTypeCorrect == StartupSpec => []StartupTypeOK
<1>1. StartupInv => StartupTypeOK
  BY DEF StartupInv
<1> QED
  BY <1>1, StartupInitInvariant, StartupStepInvariant, PTL DEF StartupSpec

\* What is said is enough for what is relaxed.
LEMMA ToldIsEnough == StartupTypeOK /\ Told => NothingSilentlyRelaxed
<1> SUFFICES ASSUME StartupTypeOK, Told, stage = "serving" PROVE NothingSilentlyRelaxed
  BY DEF NothingSilentlyRelaxed
<1>1. /\ limit = LimitRead /\ reports = SetupSentry /\ said = Warnings
      /\ token = given.token \/ IsDevelopment
  BY DEF Told
<1>2. token # given.token => "dev_token" \in said /\ given.environment # "other"
  BY <1>1 DEF Warnings, WarnOfToken, IsDevelopment, EffectiveEnvironment
<1>3. given.limit \in {limit, "unset"} \/ "memory_unbounded" \in said
  BY <1>1 DEF Warnings, LimitRead
<1>4. given.sentry # "unset" => reports \/ "sdk_missing" \in said
  <2>1. given.sentry \in {"unset", "sdk", "no_sdk"}
    BY DEF StartupTypeOK, Given
  <2>2. QED
    BY <1>1, <2>1 DEF Warnings, SetupSentry
<1>5. QED
  BY <1>2, <1>3, <1>4 DEF NothingSilentlyRelaxed

-----------------------------------------------------------------------------
(* Deployment: what a request can be blamed for on a host that changes before any *)
(* step of its render, whatever the roots, the keys and the lengths.          *)
(*                                                                         *)
(* The argument is about what a render has learnt of its root and may go by as  *)
(* long as nothing moved.  Before its file is written that is three facts, from *)
(* three steps: the resolved root leaves room for every key (CheckRoot), the    *)
(* tree is there (MakeProject), and it is where ResolveRoot found it.  A root    *)
(* that leads elsewhere takes the tree away, so that the first fact survives any *)
(* change with a tree at all.  Once the template is written the tree is there    *)
(* and can be written to.  Of the tools it is the probe that knows.            *)

\* What the probe has shown of the host holds while the service serves.
Proved == stage = "serving" => \/ limit = "none"
                               \/ broke
                               \/ host.wrapper = "works" /\ host.typst = "works"

\* The resolved root has room for the longest key, which is all that a path needs.
Room == host.root.resolved + Suffix + 2 <= Reserve

\* Renders are a serving process's, write a file if there is one and run the wrapper
\* under a limit only.
Rendering == /\ doing # "none" => stage = "serving"
             /\ doing \in Window.file => request.key # 0
             /\ doing = "wrapper" => limit # "none"

\* A tree that was made after the check is in a root with room.
Checked == doing = "mkdir" /\ tree = "temp" => Room

\* Where the file goes, unless the root moved.
Placed == /\ doing \in Window.file /\ "file" \notin moved =>
               tree = "project" /\ CanMake /\ Room
          /\ doing = "file" /\ "file" \notin moved => target = host.root.resolved

\* What Typst finds, unless the root moved.
Laid == doing \in Window.typst /\ "typst" \notin moved => CanWrite /\ Finds("project")

DeploymentInv == /\ StartupInv /\ DeploymentTypeOK
                 /\ Proved /\ Rendering /\ Checked /\ Placed /\ Laid
                 /\ HostFaultNotBlamed

-----------------------------------------------------------------------------

\* The reserve is what the longest key leaves of a path: a root with room has it for
\* every key that is accepted (ensure_project_root_fits, MAX_KEY_LENGTH).
LEMMA KeyFits ==
  ASSUME DeploymentTypeOK, Room, request.key # 0
  PROVE  ~(PathLength(request.key) > MaxPath)
<1>1. host.root.resolved \in Nat
  BY RootsAssumption DEF DeploymentTypeOK, StartupTypeOK, Host, Root
<1>2. request.key \in Nat /\ request.key <= MaxPath - Reserve
  BY KeysAssumption DEF DeploymentTypeOK, Request, MaxKey
<1>3. host.root.resolved + Suffix + 2 <= Reserve
  BY DEF Room
<1> QED
  BY <1>1, <1>2, <1>3, LengthsAssumption, PathAssumption DEF PathLength

\* A deployment's steps are those of a start, or leave what it settled alone.
LEMMA StartupUnderneath == [DeploymentNext]_deploymentVars => [StartupNext]_startupVars
<1> SUFFICES ASSUME [DeploymentNext]_deploymentVars PROVE [StartupNext]_startupVars
  OBVIOUS
<1>1. CASE Start \/ StaysRefused
  BY <1>1 DEF Start, StaysRefused, StartupNext
<1>2. CASE RootChangesUnder \/ ToolsChangeUnder
  BY <1>2 DEF RootChangesUnder, ToolsChangeUnder, StartupNext
<1>3. CASE RenderStep
  BY <1>3 DEF RenderStep, MakeTempDir, CheckRoot, MakeProject, ResolveRoot, WriteFile,
              WriteTemplate, Fork, RunWrapper, RenderTimesOut, Compile, CollectOutput, Deliver,
              RenderUnchanged, startupVars
<1>4. CASE UNCHANGED deploymentVars
  BY <1>4 DEF deploymentVars, startupVars
<1> QED
  BY <1>1, <1>2, <1>3, <1>4 DEF DeploymentNext

\* Before a process serves there is no render.
LEMMA DeploymentInitInvariant == DeploymentInit => DeploymentInv
<1> SUFFICES ASSUME DeploymentInit PROVE DeploymentInv
  OBVIOUS
<1>1. StartupInv /\ StartupTypeOK
  BY StartupInitInvariant DEF DeploymentInit, StartupInv
<1>2. DeploymentTypeOK
  BY <1>1 DEF DeploymentInit, DeploymentTypeOK, Request, RequestAnswer, Window
<1>3. Proved /\ Rendering /\ Checked /\ Placed /\ Laid /\ HostFaultNotBlamed
  BY DEF DeploymentInit, StartupInit, Proved, Rendering, Checked, Placed, Laid, Window,
         HostFaultNotBlamed
<1> QED
  BY <1>1, <1>2, <1>3 DEF DeploymentInv

\* What holds of a render, at whatever point it is, after a step that leaves the
\* process and its host as they are.
LEMMA StartupKept ==
  ASSUME DeploymentInv, UNCHANGED <<stage, given, host, limit, token, reports, said, broke>>
  PROVE  StartupInv' /\ Proved'
<1>1. UNCHANGED startupVars
  BY DEF startupVars
<1> QED
  BY <1>1, StartupStepInvariant DEF DeploymentInv, Proved

\* A render that ends has only its answer to account for.
LEMMA Ends ==
  ASSUME DeploymentInv, NEW code \in RequestAnswer, End(code),
         request' \in Request, moved' \subseteq DOMAIN Window,
         UNCHANGED <<stage, given, host, limit, token, reports, said, broke>>,
         code = "invalid_file_data" => "file" \in moved',
         code = "template_compile_failed" => "typst" \in moved' \/ broke,
         code = "render_timeout" => broke
  PROVE  DeploymentInv'
<1>1. StartupInv' /\ StartupTypeOK' /\ Proved'
  BY StartupKept DEF StartupInv
<1>2. doing' = "none" /\ tree' = "none" /\ target' = 0 /\ answer' = code
  BY DEF End
<1>3. DeploymentTypeOK'
  BY <1>1, <1>2 DEF DeploymentInv, DeploymentTypeOK
<1>4. Rendering' /\ Checked' /\ Placed' /\ Laid'
  BY <1>2 DEF Rendering, Checked, Placed, Laid, Window
<1>5. HostFaultNotBlamed'
  BY <1>2 DEF HostFaultNotBlamed
<1> QED
  BY <1>1, <1>3, <1>4, <1>5 DEF DeploymentInv

\* One that goes on has what the next step goes by.
LEMMA GoesOn ==
  ASSUME DeploymentInv, doing # "none", UNCHANGED request, RenderUnchanged,
         NEW to, GoOn(to), to \in {"mkdir", "template", "deliver"} \cup Window.file \cup Window.typst,
         tree' \in {"none", "temp", "project"}, target' \in Nat,
         to \in Window.file => request.key # 0, to = "wrapper" => limit # "none",
         Checked', Placed', Laid'
  PROVE  DeploymentInv'
<1>1. StartupInv' /\ StartupTypeOK' /\ Proved'
  BY StartupKept DEF StartupInv, RenderUnchanged
<1>2. doing' = to /\ answer' = answer /\ UNCHANGED <<moved, broke, limit, stage, request>>
  BY DEF GoOn, RenderUnchanged
<1>3. DeploymentTypeOK'
  BY <1>1, <1>2 DEF DeploymentInv, DeploymentTypeOK
<1>4. Rendering'
  BY <1>2 DEF DeploymentInv, Rendering
<1>5. HostFaultNotBlamed'
  BY <1>2 DEF DeploymentInv, HostFaultNotBlamed
<1> QED
  BY <1>1, <1>3, <1>4, <1>5 DEF DeploymentInv

-----------------------------------------------------------------------------
\* Up to the project directory nothing is the request's.
LEMMA DirectoriesInvariant ==
  ASSUME DeploymentInv, MakeTempDir \/ CheckRoot \/ MakeProject
  PROVE  DeploymentInv'
<1> USE DEF RequestAnswer, Blame
<1>1. CASE MakeTempDir /\ doing' = "none"
  <2>1. /\ End("service_unavailable") /\ request' \in Request /\ moved' = {}
        /\ UNCHANGED <<stage, given, host, limit, token, reports, said, broke>>
    BY <1>1 DEF MakeTempDir
  <2> QED
    BY <2>1, Ends
<1>2. CASE MakeTempDir /\ doing' # "none"
  <2>1. /\ stage = "serving" /\ request' \in Request /\ moved' = {}
        /\ doing' = "check" /\ tree' = "temp" /\ answer' = "none" /\ target' = target
        /\ UNCHANGED <<stage, given, host, limit, token, reports, said, broke>>
    BY <1>2 DEF MakeTempDir, End
  <2>2. StartupInv' /\ StartupTypeOK' /\ Proved'
    BY <2>1, StartupKept DEF StartupInv
  <2>3. DeploymentTypeOK'
    BY <2>1, <2>2 DEF DeploymentInv, DeploymentTypeOK
  <2>4. Rendering' /\ Checked' /\ Placed' /\ Laid' /\ HostFaultNotBlamed'
    BY <2>1 DEF Rendering, Checked, Placed, Laid, Window, HostFaultNotBlamed
  <2> QED
    BY <2>2, <2>3, <2>4 DEF DeploymentInv
<1>3. CASE CheckRoot /\ ~Fits(host.root)
  BY <1>3, Ends DEF CheckRoot, RenderUnchanged, DeploymentInv, DeploymentTypeOK
<1>4. CASE CheckRoot /\ Fits(host.root)
  <2>1. doing = "check" /\ GoOn("mkdir") /\ UNCHANGED <<request, tree, target>> /\ RenderUnchanged
    BY <1>4 DEF CheckRoot
  <2>2. Room'
    BY <1>4, <2>1 DEF Fits, Room, RenderUnchanged
  <2>3. Checked' /\ Placed' /\ Laid'
    BY <2>1, <2>2 DEF GoOn, Checked, Placed, Laid, Window
  <2>4. tree' \in {"none", "temp", "project"} /\ target' \in Nat
    BY <2>1 DEF DeploymentInv, DeploymentTypeOK
  <2> QED
    BY <2>1, <2>3, <2>4, GoesOn DEF Window
<1>5. CASE MakeProject /\ ~(CanMake /\ Finds("temp"))
  BY <1>5, Ends DEF MakeProject, RenderUnchanged, DeploymentInv, DeploymentTypeOK
<1>6. CASE MakeProject /\ CanMake /\ Finds("temp")
  <2> DEFINE to == IF request.key = 0 THEN "template" ELSE "resolve"
  <2>1. /\ doing = "mkdir" /\ GoOn(to) /\ tree' = "project" /\ UNCHANGED <<request, target>>
        /\ RenderUnchanged
    BY <1>6 DEF MakeProject
  <2>2. Room' /\ CanMake'
    BY <1>6, <2>1 DEF DeploymentInv, Checked, Finds, Room, CanMake, RenderUnchanged
  <2>3. Checked' /\ Placed' /\ Laid'
    BY <2>1, <2>2 DEF GoOn, Checked, Placed, Laid, Window
  <2> QED
    BY <2>1, <2>3, GoesOn DEF DeploymentInv, DeploymentTypeOK, Window
<1> QED
  BY <1>1, <1>2, <1>3, <1>4, <1>5, <1>6

\* A file is the request's fault only where the root moved under it.
LEMMA FileInvariant ==
  ASSUME DeploymentInv, ResolveRoot \/ WriteFile
  PROVE  DeploymentInv'
<1> USE DEF RequestAnswer, Blame, Window
<1>0. host.root.resolved \in Nat
  BY RootsAssumption DEF DeploymentInv, StartupInv, StartupTypeOK, Host, Root
<1>1. CASE ResolveRoot
  <2>1. /\ doing = "resolve" /\ GoOn("file") /\ target' = host.root.resolved
        /\ UNCHANGED <<request, tree>> /\ RenderUnchanged
    BY <1>1 DEF ResolveRoot
  <2>2. Checked' /\ Placed' /\ Laid'
    BY <2>1 DEF DeploymentInv, GoOn, RenderUnchanged, Checked, Placed, Laid, CanMake, Room
  <2>3. tree' \in {"none", "temp", "project"} /\ request.key # 0
    BY <2>1 DEF DeploymentInv, DeploymentTypeOK, Rendering
  <2> QED
    BY <1>0, <2>1, <2>2, <2>3, GoesOn
<1>2. CASE WriteFile /\ LayoutRefused
  <2>1. /\ doing = "file" /\ End("invalid_file_data") /\ UNCHANGED request /\ RenderUnchanged
    BY <1>2 DEF WriteFile
  <2>2. request.key # 0
    BY <2>1 DEF DeploymentInv, Rendering
  <2>3. "file" \in moved
    <3> SUFFICES ASSUME "file" \notin moved PROVE FALSE
      OBVIOUS
    <3>1. target = host.root.resolved /\ CanMake /\ Room
      BY <2>1 DEF DeploymentInv, Placed
    <3>2. ~(PathLength(request.key) > MaxPath)
      BY <2>2, <3>1, KeyFits DEF DeploymentInv
    <3> QED
      BY <1>2, <3>1, <3>2 DEF LayoutRefused, CanMake
  <2> QED
    BY <2>1, <2>3, Ends DEF RenderUnchanged, DeploymentInv, DeploymentTypeOK
<1>3. CASE WriteFile /\ ~LayoutRefused /\ ~CanWrite
  BY <1>3, Ends DEF WriteFile, RenderUnchanged, DeploymentInv, DeploymentTypeOK
<1>4. CASE WriteFile /\ ~LayoutRefused /\ CanWrite
  <2>1. /\ doing = "file" /\ GoOn("template") /\ tree' = "project" /\ UNCHANGED <<request, target>>
        /\ RenderUnchanged
    BY <1>4 DEF WriteFile
  <2>2. Checked' /\ Placed' /\ Laid'
    BY <2>1 DEF GoOn, Checked, Placed, Laid
  <2> QED
    BY <2>1, <2>2, GoesOn DEF DeploymentInv, DeploymentTypeOK
<1> QED
  BY <1>1, <1>2, <1>3, <1>4

\* Whatever Typst is run in can be written to, unless the root moved.
LEMMA TemplateInvariant ==
  ASSUME DeploymentInv, WriteTemplate \/ Fork
  PROVE  DeploymentInv'
<1> USE DEF RequestAnswer, Blame, Window
<1>1. CASE WriteTemplate /\ CanWrite /\ Finds("project")
  <2>1. /\ doing = "template" /\ GoOn("fork") /\ UNCHANGED <<request, tree, target>>
        /\ RenderUnchanged
    BY <1>1 DEF WriteTemplate
  <2>2. CanWrite' /\ Finds("project")'
    BY <1>1, <2>1 DEF CanWrite, Finds, RenderUnchanged
  <2>3. Checked' /\ Placed' /\ Laid'
    BY <2>1, <2>2 DEF GoOn, Checked, Placed, Laid
  <2> QED
    BY <2>1, <2>3, GoesOn DEF DeploymentInv, DeploymentTypeOK
<1>2. CASE WriteTemplate /\ ~(CanWrite /\ Finds("project"))
  BY <1>2, Ends DEF WriteTemplate, RenderUnchanged, DeploymentInv, DeploymentTypeOK
<1>3. CASE Fork /\ CanFork
  <2> DEFINE to == IF limit = "none" THEN "compile" ELSE "wrapper"
  <2>1. doing = "fork" /\ GoOn(to) /\ UNCHANGED <<request, tree, target>> /\ RenderUnchanged
    BY <1>3 DEF Fork
  <2>2. Checked' /\ Placed' /\ Laid'
    BY <2>1 DEF DeploymentInv, GoOn, RenderUnchanged, Checked, Placed, Laid, CanWrite, Finds
  <2> QED
    BY <2>1, <2>2, GoesOn DEF DeploymentInv, DeploymentTypeOK
<1>4. CASE Fork /\ ~CanFork
  BY <1>4, Ends DEF Fork, RenderUnchanged, DeploymentInv, DeploymentTypeOK
<1> QED
  BY <1>1, <1>2, <1>3, <1>4

\* What the wrapper does wrong it did not do in the probe.
LEMMA WrapperInvariant ==
  ASSUME DeploymentInv, RunWrapper \/ RenderTimesOut
  PROVE  DeploymentInv'
<1> USE DEF RequestAnswer, Blame, Window
<1>1. doing = "wrapper" /\ stage = "serving" /\ limit # "none"
  BY DEF RunWrapper, RenderTimesOut, DeploymentInv, Rendering
<1>2. broke \/ (host.wrapper = "works" /\ host.typst = "works")
  BY <1>1 DEF DeploymentInv, Proved
<1>3. CASE RunWrapper /\ WrapperWorks
  <2>1. GoOn("compile") /\ UNCHANGED <<request, tree, target>> /\ RenderUnchanged
    BY <1>3 DEF RunWrapper
  <2>2. Checked' /\ Placed' /\ Laid'
    BY <1>1, <2>1 DEF DeploymentInv, GoOn, RenderUnchanged, Checked, Placed, Laid, CanWrite, Finds
  <2> QED
    BY <1>1, <2>1, <2>2, GoesOn DEF DeploymentInv, DeploymentTypeOK
<1>4. CASE RunWrapper /\ ~WrapperWorks
  BY <1>2, <1>4, Ends DEF RunWrapper, WrapperWorks, RenderUnchanged, DeploymentInv, DeploymentTypeOK
<1>5. CASE RenderTimesOut
  BY <1>2, <1>5, Ends DEF RenderTimesOut, RenderUnchanged, DeploymentInv, DeploymentTypeOK
<1> QED
  BY <1>3, <1>4, <1>5

\* Typst fails over a request that has nothing wrong with it only if the root moved.
LEMMA CompileInvariant ==
  ASSUME DeploymentInv, Compile \/ CollectOutput \/ Deliver
  PROVE  DeploymentInv'
<1> USE DEF RequestAnswer, Blame, Window
<1>0. limit # "low" /\ request \in Request
  BY DEF DeploymentInv, DeploymentTypeOK, StartupInv, FloorHolds
<1>1. CASE Compile /\ TypstSucceeds
  <2>1. /\ doing = "compile" /\ GoOn("collect") /\ UNCHANGED <<request, tree, target>>
        /\ RenderUnchanged
    BY <1>1 DEF Compile
  <2>2. Checked' /\ Placed' /\ Laid'
    BY <2>1 DEF DeploymentInv, GoOn, RenderUnchanged, Checked, Placed, Laid, CanWrite, Finds
  <2> QED
    BY <2>1, <2>2, GoesOn DEF DeploymentInv, DeploymentTypeOK
<1>2. CASE Compile /\ ~TypstSucceeds
  <2>1. /\ doing = "compile" /\ End("template_compile_failed") /\ UNCHANGED request
        /\ RenderUnchanged
    BY <1>2 DEF Compile
  <2>2. "typst" \in moved
    BY <1>0, <1>2, <2>1 DEF DeploymentInv, Laid, TypstSucceeds
  <2> QED
    BY <1>0, <2>1, <2>2, Ends DEF RenderUnchanged, DeploymentInv, DeploymentTypeOK
<1>3. CASE CollectOutput /\ Finds("project")
  <2>1. /\ doing = "collect" /\ GoOn("deliver") /\ UNCHANGED <<request, tree, target>>
        /\ RenderUnchanged
    BY <1>3 DEF CollectOutput
  <2>2. Checked' /\ Placed' /\ Laid'
    BY <2>1 DEF GoOn, Checked, Placed, Laid
  <2> QED
    BY <2>1, <2>2, GoesOn DEF DeploymentInv, DeploymentTypeOK
<1>4. CASE CollectOutput /\ ~Finds("project")
  <2>1. doing = "collect" /\ End(WithoutOutput) /\ UNCHANGED request /\ RenderUnchanged
    BY <1>4 DEF CollectOutput
  <2>2. "typst" \in moved
    BY <1>4, <2>1 DEF DeploymentInv, Laid
  <2>3. WithoutOutput \in {"render_failed", "template_compile_failed", "service_unavailable"}
    BY <1>0 DEF WithoutOutput, Request
  <2> QED
    BY <1>0, <2>1, <2>2, <2>3, Ends DEF RenderUnchanged, DeploymentInv, DeploymentTypeOK
<1>5. CASE Deliver
  <2>1. /\ End("document") \/ End("service_unavailable")
        /\ UNCHANGED request /\ RenderUnchanged
    BY <1>5 DEF Deliver
  <2> QED
    BY <1>0, <2>1, Ends DEF RenderUnchanged, DeploymentInv, DeploymentTypeOK
<1> QED
  BY <1>1, <1>2, <1>3, <1>4, <1>5

-----------------------------------------------------------------------------
\* The host, under a render at any point: what a change of the root takes away, it
\* has recorded.
LEMMA HostInvariant ==
  ASSUME DeploymentInv, RootChangesUnder \/ ToolsChangeUnder
  PROVE  DeploymentInv'
<1>1. StartupInv' /\ StartupTypeOK'
  BY StartupUnderneath, StartupStepInvariant DEF DeploymentInv, DeploymentNext, StartupInv
<1>2. CASE RootChangesUnder
  <2>1. /\ RootChanges /\ UNCHANGED <<stage, limit, doing, request, target, broke, answer>>
        /\ moved' = moved \cup {w \in DOMAIN Window : doing \in Window[w]}
        /\ tree' \in {tree, "none"}
        /\ host'.root.resolved # host.root.resolved => tree' = "none"
    BY <1>2 DEF RootChangesUnder, HostChanges
  <2>2. host'.wrapper = host.wrapper /\ host'.typst = host.typst
    BY <2>1 DEF RootChanges, DeploymentInv, StartupInv, StartupTypeOK, Host
  <2>3. DeploymentTypeOK'
    BY <1>1, <2>1 DEF DeploymentInv, DeploymentTypeOK
  <2>4. Proved' /\ Rendering' /\ HostFaultNotBlamed'
    BY <2>1, <2>2 DEF DeploymentInv, Proved, Rendering, HostFaultNotBlamed
  <2>5. Checked'
    BY <2>1 DEF DeploymentInv, Checked, Room
  <2>6. doing \in Window.file => "file" \in moved'
    BY <2>1 DEF Window
  <2>7. doing \in Window.typst => "typst" \in moved'
    BY <2>1 DEF Window
  <2>8. Placed' /\ Laid'
    BY <2>1, <2>6, <2>7 DEF Placed, Laid, Window
  <2> QED
    BY <1>1, <2>3, <2>4, <2>5, <2>8 DEF DeploymentInv
<1>3. CASE ToolsChangeUnder
  <2>1. /\ ToolsChange /\ broke' = (broke \/ stage = "serving")
        /\ UNCHANGED <<stage, limit, doing, request, tree, target, moved, answer>>
    BY <1>3 DEF ToolsChangeUnder, HostChanges
  <2>2. host'.root = host.root
    BY <2>1 DEF ToolsChange, DeploymentInv, StartupInv, StartupTypeOK, Host
  <2>3. DeploymentTypeOK'
    BY <1>1, <2>1 DEF DeploymentInv, DeploymentTypeOK
  <2>4. Proved' /\ Rendering' /\ HostFaultNotBlamed'
    BY <2>1 DEF DeploymentInv, Proved, Rendering, HostFaultNotBlamed
  <2>5. Checked' /\ Placed' /\ Laid'
    BY <2>1, <2>2 DEF DeploymentInv, Checked, Placed, Laid, Room, CanMake, CanWrite, Finds
  <2> QED
    BY <1>1, <2>3, <2>4, <2>5 DEF DeploymentInv
<1> QED
  BY <1>2, <1>3

\* The start: what the probe has seen is what it serves on.
LEMMA StartInvariant ==
  ASSUME DeploymentInv, Start
  PROVE  DeploymentInv'
<1>1. StartupInv' /\ StartupTypeOK'
  BY StartupUnderneath, StartupStepInvariant DEF DeploymentInv, DeploymentNext, StartupInv
<1>2. StartupStep /\ stage # "serving" /\ host' = host
      /\ UNCHANGED <<doing, request, tree, target, moved, broke, answer>>
  BY DEF Start, requestVars, StartupStep, ReadSettings, CreateApp, ProbeEnds, ProbeTimesOut
<1>3. doing = "none"
  BY <1>2 DEF DeploymentInv, Rendering
<1>4. DeploymentTypeOK'
  BY <1>1, <1>2 DEF DeploymentInv, DeploymentTypeOK
<1>5. Proved'
  BY <1>2 DEF Proved, StartupStep, ReadSettings, CreateApp, ProbeEnds, ProbePasses, ProbeTimesOut
<1>6. Rendering' /\ Checked' /\ Placed' /\ Laid' /\ HostFaultNotBlamed'
  BY <1>2, <1>3 DEF DeploymentInv, Rendering, Checked, Placed, Laid, Window, HostFaultNotBlamed
<1> QED
  BY <1>1, <1>4, <1>5, <1>6 DEF DeploymentInv

\* A step of the start, of the host or of the one render.
LEMMA DeploymentStepInvariant == DeploymentInv /\ [DeploymentNext]_deploymentVars => DeploymentInv'
<1> SUFFICES ASSUME DeploymentInv, [DeploymentNext]_deploymentVars PROVE DeploymentInv'
  OBVIOUS
<1>1. CASE StaysRefused \/ UNCHANGED deploymentVars
  <2>1. UNCHANGED deploymentVars
    BY <1>1 DEF StaysRefused, Stopped, startupVars, requestVars, deploymentVars
  <2>2. StartupInv' /\ Proved' /\ DeploymentTypeOK'
    BY <2>1, StartupKept DEF deploymentVars, DeploymentInv, DeploymentTypeOK, StartupInv
  <2>3. Rendering' /\ Checked' /\ Placed' /\ Laid' /\ HostFaultNotBlamed'
    BY <2>1 DEF deploymentVars, DeploymentInv, Rendering, Checked, Placed, Laid, Room, CanMake,
                CanWrite, Finds, HostFaultNotBlamed
  <2> QED
    BY <2>2, <2>3 DEF DeploymentInv
<1> QED
  BY <1>1, StartInvariant, HostInvariant, DirectoriesInvariant, FileInvariant, TemplateInvariant,
     WrapperInvariant, CompileInvariant DEF DeploymentNext, RenderStep

\* What a render has learnt of its root holds at every point of it, whatever the host
\* does in between, and what the probe has learnt of the tools until they change.
THEOREM DeploymentInvariance == DeploymentSpec => []DeploymentInv
  BY DeploymentInitInvariant, DeploymentStepInvariant, PTL DEF DeploymentSpec

\* No request is blamed for a temporary root that was wrong when the service started or
\* became so between two requests, nor for tools that were wrong before the probe; what
\* is left is a root that changes while its file is written or while Typst is at work,
\* and a tool that changes while the service serves.
THEOREM NoHostFaultBlamed == DeploymentSpec => []HostFaultNotBlamed
<1>1. DeploymentInv => HostFaultNotBlamed
  BY DEF DeploymentInv
<1> QED
  BY <1>1, DeploymentInvariance, PTL

\* What serves without its deployment's token, limit or error reports has said so,
\* and supplies a token of its own in no environment but a development one.
THEOREM RelaxationsAreSaid == DeploymentSpec => []NothingSilentlyRelaxed
<1>1. DeploymentInit => Told
  BY DEF DeploymentInit, StartupInit, Told
<1>2. Told /\ [DeploymentNext]_deploymentVars => Told'
  BY ToldInvariant, StartupUnderneath
<1>3. DeploymentInv /\ Told => NothingSilentlyRelaxed
  BY ToldIsEnough DEF DeploymentInv, DeploymentTypeOK
<1> QED
  BY <1>1, <1>2, <1>3, DeploymentInvariance, PTL DEF DeploymentSpec

-----------------------------------------------------------------------------
(* BodyLimit: for any limit and any body, in any number of messages, one answer, *)
(* which is the refusal exactly for a body that went over the limit, and no more *)
(* of a body in the application than the limit.                               *)
(*                                                                         *)
(* The argument is about what the middleware cannot see: the application may   *)
(* be at any point of an answer of its own.  The invariant says, of every      *)
(* point, what the server has been handed, which is nothing once the body was   *)
(* refused and until the application is done.                                *)

\* What has come adds up, and what the application was handed is what has come,
\* but for the message that was refused.
Counted ==
  /\ size = received + rest
  /\ chunks = 0 => rest = 0
  /\ IF refused THEN received > MaxBody ELSE buffered = received
  /\ buffered <= MaxBody

\* Only the middleware's own error is on its way from a refused body.
Blamed == /\ refused => raised # "other"
          /\ refused => at # "app"
          /\ at = "refusing" => refused
          /\ at \in {"failed", "failing"} => ~refused

Begun(a) == << <<"start", a>> >>

\* What the server has been handed, at each point.
Handed ==
  /\ at \in {"app", "handling", "raised", "failed"} => sent = <<>>
  /\ at \in {"answering", "returned"} /\ refused => sent = <<>>
  /\ at = "answering" /\ ~refused => \E a \in {"served", "own_error"} : sent = Begun(a)
  /\ at = "returned" /\ ~refused  => \E a \in {"served", "own_error"} : sent = Whole(a)
  /\ at = "refusing" => sent = Begun("refusal")
  /\ at = "failing"  => sent = Begun("server_error")
  /\ at = "done" => IF refused THEN sent = Whole("refusal")
                    ELSE \E a \in Answers \ {"refusal"} : sent = Whole(a)

\* A route that reads the body has all of it when it answers.
ServedWhole == reads /\ sent \in {Begun("served"), Whole("served")} => chunks = 0

IInv == TypeOK /\ Counted /\ Blamed /\ Handed /\ ServedWhole

-----------------------------------------------------------------------------
USE BodyAssumption, ChunkAssumption

\* The messages of an answer, as sequences.
LEMMA Messages ==
  ASSUME NEW a \in Answers
  PROVE  /\ Begun(a) \in Seq(Message) /\ Whole(a) \in Seq(Message)
         /\ Append(<<>>, <<"start", a>>) = Begun(a)
         /\ Append(Begun(a), <<"body", a>>) = Whole(a)
         /\ Begun(a) # <<>> /\ Whole(a) # <<>> /\ Begun(a)[1][2] = a
<1> DEFINE s == <<"start", a>>
           b == <<"body", a>>
<1>1. s \in Message /\ b \in Message /\ s[2] = a
  BY DEF Message
<1> HIDE DEF s, b
<1>2. << s >> \in Seq(Message) /\ << s, b >> \in Seq(Message)
  BY <1>1
<1>3. Append(<<>>, s) = << s >> /\ Append(<< s >>, b) = << s, b >>
  <2>1. Append(<<>>, s) = << s >>
    OBVIOUS
  <2>2. Append(<< s >>, b) = << s, b >>
    <3>1. /\ Len(Append(<< s >>, b)) = 2 /\ Append(<< s >>, b) \in Seq(Message)
          /\ Append(<< s >>, b)[1] = s /\ Append(<< s >>, b)[2] = b
      BY <1>1, <1>2, AppendProperties
    <3>2. /\ Len(<< s, b >>) = 2 /\ << s, b >>[1] = s /\ << s, b >>[2] = b
      OBVIOUS
    <3>3. \A i \in 1..2 : Append(<< s >>, b)[i] = << s, b >>[i]
      BY <3>1, <3>2
    <3>4. QED
      BY ONLY <1>2, <3>1, <3>2, <3>3, SeqEqual
  <2>3. QED
    BY <2>1, <2>2
<1>4. << s >> # <<>> /\ << s, b >> # <<>> /\ << s >>[1] = s
  OBVIOUS
<1>5. QED
  BY <1>1, <1>2, <1>3, <1>4 DEF s, b, Begun, Whole

\* One answer's messages are not another's.
LEMMA Apart ==
  ASSUME NEW a \in Answers, NEW b \in Answers
  PROVE  /\ Begun(a) # Whole(b)
         /\ Begun(a) = Begun(b) => a = b
         /\ Whole(a) = Whole(b) => a = b
<1>1. Len(Begun(a)) = 1 /\ Len(Whole(b)) = 2
  BY DEF Begun, Whole
<1>2. Begun(a)[1] = <<"start", a>> /\ Begun(b)[1] = <<"start", b>>
  BY DEF Begun
<1>3. Whole(a)[1] = <<"start", a>> /\ Whole(b)[1] = <<"start", b>>
  BY DEF Whole
<1>4. <<"start", a>> = <<"start", b>> => a = b
  OBVIOUS
<1>5. QED
  BY <1>1, <1>2, <1>3, <1>4

\* Nothing has come and nothing has been sent.
LEMMA InitInv == Init => IInv
<1> SUFFICES ASSUME Init PROVE IInv
  OBVIOUS
<1>0. TypeOK
  <2>1. sent \in Seq(Message)
    BY EmptySeq DEF Init
  <2>2. reads \in BOOLEAN /\ refused \in BOOLEAN
    BY Zenon DEF Init
  <2>3. QED
    BY <2>1, <2>2 DEF Init, TypeOK, Place
<1>1. Counted /\ Blamed
  BY DEF Init, Counted, Blamed
<1>2. Handed
  BY DEF Init, Handed
<1>3. ServedWhole
  BY Messages DEF Init, ServedWhole, Answers
<1>4. QED
  BY <1>0, <1>1, <1>2, <1>3 DEF IInv

-----------------------------------------------------------------------------
\* A message comes, and is handed on unless it goes over the limit.
LEMMA ReadOnInv ==
  ASSUME IInv, ReadOn
  PROVE  IInv'
<1>1. PICK n \in 0..rest : Receive(n)
  BY DEF ReadOn
<1>2. /\ at = "app" /\ reads /\ ~refused /\ sent = <<>> /\ UNCHANGED <<reads, size, sent>>
      /\ size \in Nat /\ rest \in Nat /\ chunks \in Nat /\ received \in Nat /\ buffered \in Nat
      /\ size = received + rest /\ (chunks = 0 => rest = 0)
      /\ buffered = received /\ buffered <= MaxBody
  BY DEF IInv, TypeOK, Counted, Blamed, Handed, ReadOn
<1>3. /\ chunks > 0 /\ chunks' = chunks - 1 /\ (chunks = 1 => n = rest)
      /\ rest' = rest - n /\ received' = received + n
  BY <1>1 DEF Receive, Count
<1>4. CASE OverLimit(n)
  <2>1. /\ refused' = TRUE /\ raised' = "RequestTooLargeError" /\ at' = "handling"
        /\ buffered' = buffered /\ received + n > MaxBody
    BY <1>1, <1>4 DEF Receive, OverLimit
  <2>2. TypeOK'
    BY <1>2, <1>3, <2>1 DEF IInv, TypeOK, Place, Error
  <2>3. Counted'
    BY <1>2, <1>3, <2>1 DEF Counted
  <2>4. Blamed' /\ Handed'
    BY <1>2, <2>1 DEF Blamed, Handed
  <2>5. ServedWhole'
    BY <1>2, Messages DEF ServedWhole, Answers
  <2>6. QED
    BY <2>2, <2>3, <2>4, <2>5 DEF IInv
<1>5. CASE ~OverLimit(n)
  <2>1. /\ buffered' = buffered + n /\ UNCHANGED <<at, refused, raised>>
        /\ ~(received + n > MaxBody)
    BY <1>1, <1>5 DEF Receive, OverLimit
  <2>2. TypeOK'
    BY <1>2, <1>3, <2>1 DEF IInv, TypeOK
  <2>3. Counted'
    BY <1>2, <1>3, <2>1 DEF Counted
  <2>4. Blamed' /\ Handed'
    BY <1>2, <2>1 DEF Blamed, Handed
  <2>5. ServedWhole'
    BY <1>2, Messages DEF ServedWhole, Answers
  <2>6. QED
    BY <2>2, <2>3, <2>4, <2>5 DEF IInv
<1>6. QED
  BY <1>4, <1>5

\* The application reads no more and has not answered.
LEMMA RaisesInv ==
  ASSUME IInv, \/ ClientGone \/ Fail \/ RaiseOn \/ PassError
  PROVE  IInv'
<1>1. sent = <<>> /\ sent' = sent /\ UNCHANGED bodyVars
  BY DEF IInv, Handed, ClientGone, Fail, RaiseOn, PassError, Satisfied
<1>2. TypeOK'
  BY <1>1 DEF IInv, TypeOK, bodyVars, Place, Error, ClientGone, Fail, RaiseOn, PassError
<1>3. Counted'
  BY <1>1 DEF IInv, Counted, bodyVars
<1>4. Blamed'
  BY <1>1 DEF IInv, TypeOK, Blamed, bodyVars, MustRefuse, Satisfied, ClientGone, Fail, RaiseOn,
              PassError
<1>5. at' \in {"handling", "raised", "failed"}
  BY DEF ClientGone, Fail, RaiseOn, PassError
<1>6. Handed'
  BY <1>1, <1>5 DEF Handed
<1>7. ServedWhole'
  BY <1>1, Messages DEF ServedWhole, Answers
<1>8. QED
  BY <1>2, <1>3, <1>4, <1>6, <1>7 DEF IInv

\* It begins an answer: dropped, if the body was refused.
LEMMA AnswersInv ==
  ASSUME IInv, Serve \/ AnswerError
  PROVE  IInv'
<1>1. PICK a \in {"served", "own_error"} :
        Answer(a) /\ (a = "served" /\ reads => chunks = 0)
  BY DEF Serve, AnswerError, Satisfied
<1>2. a \in Answers /\ Begun(a) \in Seq(Message) /\ Append(<<>>, <<"start", a>>) = Begun(a)
  BY Messages DEF Answers
<1>3. sent = <<>>
  BY DEF IInv, Handed, Serve, AnswerError, Satisfied
<1>4. at' = "answering" /\ raised' = "nothing" /\ UNCHANGED bodyVars
  BY <1>1 DEF Answer
<1>5. sent' = IF refused THEN <<>> ELSE Begun(a)
  BY <1>1, <1>2, <1>3 DEF Answer, SendUnlessRefused, Send
<1>6. TypeOK'
  BY <1>2, <1>3, <1>4, <1>5 DEF IInv, TypeOK, bodyVars, Place
<1>7. Counted' /\ Blamed'
  BY <1>4 DEF IInv, Counted, Blamed, bodyVars
<1>8. Handed'
  BY <1>4, <1>5 DEF Handed, bodyVars
<1>9. ServedWhole'
  <2>1. "served" \in Answers /\ <<>> \notin {Begun("served"), Whole("served")}
    BY Messages DEF Answers
  <2>2. Begun(a) \in {Begun("served"), Whole("served")} => a = "served"
    BY <1>2, <2>1, Apart
  <2>3. QED
    BY <1>1, <1>4, <1>5, <2>1, <2>2 DEF ServedWhole, bodyVars
<1>10. QED
  BY <1>6, <1>7, <1>8, <1>9 DEF IInv

\* It ends its answer.
LEMMA EndAnswerInv ==
  ASSUME IInv, EndAnswer
  PROVE  IInv'
<1>1. /\ at = "answering" /\ at' = "returned" /\ UNCHANGED <<bodyVars, raised>>
  BY DEF EndAnswer
<1>2. TypeOK' /\ Handed' /\ ServedWhole'
  <2>1. CASE refused
    <3>1. sent = <<>> /\ sent' = sent
      BY <1>1, <2>1 DEF IInv, Handed, EndAnswer, SendUnlessRefused
    <3>2. QED
      BY <1>1, <2>1, <3>1 DEF IInv, TypeOK, Place, Handed, ServedWhole, bodyVars
  <2>2. CASE ~refused
    <3>1. PICK a \in {"served", "own_error"} : sent = Begun(a)
      BY <1>1, <2>2 DEF IInv, Handed
    <3>2. a \in Answers /\ sent # <<>> /\ sent[1][2] = a /\ Whole(a) \in Seq(Message)
          /\ Append(sent, <<"body", a>>) = Whole(a)
      BY <3>1, Messages DEF Answers
    <3>3. sent' = Whole(a)
      BY <2>2, <3>2 DEF EndAnswer, SendUnlessRefused, Send
    <3>4. sent' \in {Begun("served"), Whole("served")} => a = "served"
      BY <3>2, <3>3, Apart DEF Answers
    <3>5. ServedWhole'
      BY <1>1, <3>1, <3>4 DEF IInv, ServedWhole, bodyVars
    <3>6. Handed'
      BY <1>1, <2>2, <3>3 DEF Handed, bodyVars
    <3>7. TypeOK'
      BY <1>1, <3>2, <3>3 DEF IInv, TypeOK, Place, bodyVars
    <3>8. QED
      BY <3>5, <3>6, <3>7
  <2>3. QED
    BY <2>1, <2>2
<1>3. Counted' /\ Blamed'
  BY <1>1 DEF IInv, Counted, Blamed, bodyVars
<1>4. QED
  BY <1>2, <1>3 DEF IInv

\* The middleware lets an answer stand, only if it refused nothing.
LEMMA PassInv ==
  ASSUME IInv, Pass
  PROVE  IInv'
<1>1. /\ at = "returned" /\ at' = "done" /\ UNCHANGED <<bodyVars, raised, sent>> /\ ~refused
  BY DEF IInv, Blamed, Pass, MustRefuse
<1>2. Handed'
  BY <1>1 DEF IInv, Handed, bodyVars, Answers
<1>3. TypeOK' /\ Counted' /\ Blamed' /\ ServedWhole'
  BY <1>1 DEF IInv, TypeOK, Place, Counted, Blamed, ServedWhole, bodyVars
<1>4. QED
  BY <1>2, <1>3 DEF IInv

\* A response that is begun where the server has been handed nothing, and ended.
LEMMA RespondsInv ==
  ASSUME IInv, \/ Refuse \/ EndRefusal \/ ServerError \/ EndServerError
  PROVE  IInv'
<1>1. UNCHANGED bodyVars /\ raised' \in {raised, "nothing"}
  BY DEF Refuse, EndRefusal, ServerError, EndServerError
<1>2. \A c \in {"refusal", "server_error"} :
         /\ c \in Answers /\ Begun(c) \in Seq(Message) /\ Whole(c) \in Seq(Message)
         /\ Append(<<>>, <<"start", c>>) = Begun(c)
         /\ Append(Begun(c), <<"body", c>>) = Whole(c)
         /\ {Begun(c), Whole(c)} \cap {Begun("served"), Whole("served")} = {}
  BY Messages, Apart DEF Answers
<1>3. \/ /\ refused /\ at' = "refusing" /\ sent' = Begun("refusal")
      \/ /\ refused /\ at' = "done" /\ sent' = Whole("refusal")
      \/ /\ ~refused /\ at' = "failing" /\ sent' = Begun("server_error")
      \/ /\ ~refused /\ at' = "done" /\ sent' = Whole("server_error")
  <2>1. CASE Refuse
    BY <1>2, <2>1 DEF IInv, Handed, Refuse, MustRefuse, Send
  <2>2. CASE EndRefusal
    BY <1>2, <2>2 DEF IInv, Handed, Blamed, EndRefusal, Send
  <2>3. CASE ServerError
    BY <1>2, <2>3 DEF IInv, Handed, Blamed, ServerError, Send
  <2>4. CASE EndServerError
    BY <1>2, <2>4 DEF IInv, Handed, Blamed, EndServerError, Send
  <2>5. QED
    BY <2>1, <2>2, <2>3, <2>4
<1>4. TypeOK'
  BY <1>1, <1>2, <1>3 DEF IInv, TypeOK, Place, bodyVars
<1>5. Counted'
  BY <1>1 DEF IInv, Counted, bodyVars
<1>6. Blamed'
  BY <1>1, <1>3 DEF IInv, Blamed, bodyVars
<1>7. Handed'
  BY <1>1, <1>3 DEF Handed, bodyVars, Answers
<1>8. ServedWhole'
  BY <1>2, <1>3 DEF ServedWhole
<1>9. QED
  BY <1>4, <1>5, <1>6, <1>7, <1>8 DEF IInv

\* Any step of the server, the application or the middleware.
LEMMA StepInv == IInv /\ [Next]_vars => IInv'
<1> SUFFICES ASSUME IInv, [Next]_vars PROVE IInv'
  OBVIOUS
<1>1. CASE UNCHANGED vars
  BY <1>1 DEF vars, IInv, TypeOK, Counted, Blamed, Handed, ServedWhole
<1>2. QED
  BY <1>1, ReadOnInv, RaisesInv, AnswersInv, EndAnswerInv, PassInv, RespondsInv DEF Next, Done

-----------------------------------------------------------------------------
\* At every point of any application's reading and answering, the middleware's
\* count, its flag and what the server has been handed agree.
THEOREM BodyInvariance == Spec => []IInv
<1>1. QED
  BY InitInv, StepInv, PTL DEF Spec

\* What the server is handed is at every moment the beginning of one response.
THEOREM OneAnswer == Spec => []AnsweredOnce
<1>1. IInv => AnsweredOnce
  <2> SUFFICES ASSUME IInv PROVE AnsweredOnce
    OBVIOUS
  <2>1. \A a \in Answers : /\ IsPrefix(<<>>, Whole(a)) /\ IsPrefix(Begun(a), Whole(a))
                           /\ IsPrefix(Whole(a), Whole(a))
    BY DEF IsPrefix, Begun, Whole
  <2>2. \/ at # "done" /\ sent = <<>>
        \/ \E a \in Answers : at # "done" /\ sent \in {Begun(a), Whole(a)}
        \/ \E a \in Answers : at = "done" /\ sent = Whole(a)
    BY DEF IInv, TypeOK, Place, Handed, Answers
  <2>3. "served" \in Answers
    BY DEF Answers
  <2>4. QED
    BY <2>1, <2>2, <2>3 DEF AnsweredOnce
<1>2. QED
  BY <1>1, BodyInvariance, PTL

\* The refusal answers the bodies that went over the limit, and nothing else.
THEOREM RefusalsAreForRefused == Spec => []RefusalForRefused
<1>1. IInv => RefusalForRefused
  <2> SUFFICES ASSUME IInv, at = "done" PROVE RefusalForRefused
    BY DEF RefusalForRefused
  <2>1. refused => size > MaxBody
    BY DEF IInv, TypeOK, Counted
  <2>2. refused <=> sent = Whole("refusal")
    BY Apart DEF IInv, Handed, Answers
  <2>3. QED
    BY <2>1, <2>2 DEF RefusalForRefused
<1>2. QED
  BY <1>1, BodyInvariance, PTL

\* No more than the limit is held, and what is served is served whole.
THEOREM BufferIsBounded == Spec => []BufferBounded
<1>1. IInv => BufferBounded
  BY Apart DEF IInv, TypeOK, Counted, Handed, ServedWhole, BufferBounded, Answers
<1>2. QED
  BY <1>1, BodyInvariance, PTL

=============================================================================
