----------------------------- MODULE Deployment -----------------------------
(***************************************************************************)
(* One request after another, none with anything wrong with it, on the host *)
(* of a service that started (Startup): what the host does to their answers. *)
(* TypstRenderer.render of app/render/renderer.py, from the temporary        *)
(* directory to the document, one step for each of its threads and for each  *)
(* stretch of the coroutine between two awaits that touches the host; the    *)
(* host may change before any of them.  RenderProject has the same code with *)
(* its interruptions, on a host that stays as it is.                         *)
(***************************************************************************)
EXTENDS Startup

CONSTANTS KeyLengths,  \* lengths of the keys that requests carry
          MaxPath      \* MAX_PATH_LENGTH, the terminating NUL included

MaxKey == MaxPath - Reserve

ASSUME PathAssumption == MaxPath \in Nat
ASSUME KeysAssumption == KeyLengths \subseteq {k \in Nat : k <= MaxKey}

\* A request has one file, of a key of some length, or none (key 0).  It asks for a
\* document, for one page of it as an image, or for an archive of pages.
Request == [key : KeyLengths \cup {0}, output : {"document", "page", "archive"}]

VARIABLES
  doing,     \* the next step of the render, "none" between renders
  request,
  tree,      \* what there is of the temporary tree, below the root
  target,    \* resolved_root, of which a root's resolved length stands for the rest
  moved,     \* during what of this render the root, or the tree in it, changed
  broke,     \* the wrapper or Typst changed while the service served
  answer     \* to the last request

requestVars    == <<doing, request, tree, target, moved, broke, answer>>
deploymentVars == <<stage, given, host, limit, token, reports, said,
                    doing, request, tree, target, moved, broke, answer>>

\* The codes whose origin is not the service.
Blame == {"invalid_file_data", "template_compile_failed", "render_timeout"}

RequestAnswer == {"none", "document", "service_unavailable", "render_failed"} \cup Blame

\* When a change of the root can reach the request's answer as a fault of its own:
\* while its file is written, and from before Typst is forked until its output is
\* found.
Window == [file |-> {"resolve", "file"}, typst |-> {"fork", "wrapper", "compile", "collect"}]

DeploymentTypeOK ==
  /\ StartupTypeOK
  /\ doing \in {"none", "check", "mkdir", "template", "deliver"} \cup Window.file \cup Window.typst
  /\ request \in Request /\ tree \in {"none", "temp", "project"} /\ target \in Nat
  /\ moved \subseteq DOMAIN Window /\ broke \in BOOLEAN /\ answer \in RequestAnswer

DeploymentInit ==
  /\ StartupInit
  /\ doing = "none" /\ request = [key |-> 0, output |-> "document"]
  /\ tree = "none" /\ target = 0 /\ moved = {} /\ broke = FALSE /\ answer = "none"

Start == StartupStep /\ UNCHANGED requestVars

-----------------------------------------------------------------------------
(* The host *)

\* A root that leads elsewhere leaves the tree behind, and any other change may.
RootChangesUnder ==
  /\ HostChanges /\ RootChanges
  /\ tree' \in {tree, "none"}
  /\ host'.root.resolved # host.root.resolved => tree' = "none"
  /\ moved' = moved \cup {w \in DOMAIN Window : doing \in Window[w]}
  /\ UNCHANGED <<doing, request, target, broke, answer>>

ToolsChangeUnder ==
  /\ HostChanges /\ ToolsChange
  /\ broke' = (broke \/ stage = "serving")
  /\ UNCHANGED <<doing, request, tree, target, moved, answer>>

\* What is there of the temporary tree is found where it was made.
Finds(what) == tree = what /\ host.root.state \notin {"missing", "file"}

CanWrite == host.root.state = "writable"

-----------------------------------------------------------------------------
(* A render *)

GoOn(to) == doing' = to /\ UNCHANGED answer

\* The exception or the result leaves `render`, and the tree is removed.
End(code) == doing' = "none" /\ answer' = code /\ tree' = "none" /\ target' = 0

RenderUnchanged == UNCHANGED <<stage, given, host, limit, token, reports, said, moved, broke>>

\* mkdtemp, in a thread.
MakeTempDir ==
  /\ stage = "serving" /\ doing = "none"
  /\ request' \in Request /\ moved' = {}
  /\ \/ CanMake /\ doing' = "check" /\ tree' = "temp" /\ answer' = "none" /\ UNCHANGED target
     \/ ~CanMake /\ End("service_unavailable")
  /\ UNCHANGED <<stage, given, host, limit, token, reports, said, broke>>

\* Seeded fault: the root was measured at start, and is not again.
CheckRootAtStart == /\ doing = "check" /\ GoOn("mkdir")
                    /\ UNCHANGED <<request, tree, target>> /\ RenderUnchanged

\* ensure_project_root_fits, back on the event loop; the error is a RuntimeError.
CheckRoot ==
  /\ doing = "check"
  /\ \/ Fits(host.root) /\ GoOn("mkdir") /\ UNCHANGED <<tree, target>>
     \/ ~Fits(host.root) /\ End("service_unavailable")
  /\ UNCHANGED request /\ RenderUnchanged

MakeProject ==
  /\ doing = "mkdir"
  /\ \/ /\ CanMake /\ Finds("temp")
        /\ GoOn(IF request.key = 0 THEN "template" ELSE "resolve")
        /\ tree' = "project" /\ UNCHANGED target
     \/ ~(CanMake /\ Finds("temp")) /\ End("service_unavailable")
  /\ UNCHANGED request /\ RenderUnchanged

\* project_root.resolve(), which asks for no file to be there.
ResolveRoot ==
  /\ doing = "resolve"
  /\ GoOn("file") /\ target' = host.root.resolved
  /\ UNCHANGED <<request, tree>> /\ RenderUnchanged

\* The absolute path of a key, its separator and its NUL included.
PathLength(k) == host.root.resolved + Suffix + 1 + k + 1

\* dest.parent.mkdir(parents=True) makes the whole tree again where it is gone.
ParentsMade == Finds("project") \/ CanMake

\* What is taken for a fault of the request's layout: a root that leads elsewhere
\* than it did (the key "escapes"), ENOTDIR and ENAMETOOLONG.
LayoutRefused == \/ host.root.resolved # target
                 \/ host.root.state = "file"
                 \/ ParentsMade /\ PathLength(request.key) > MaxPath

WriteFile ==
  /\ doing = "file"
  /\ \/ LayoutRefused /\ End("invalid_file_data")
     \/ ~LayoutRefused /\ CanWrite /\ GoOn("template") /\ tree' = "project" /\ UNCHANGED target
     \/ ~LayoutRefused /\ ~CanWrite /\ End("service_unavailable")
  /\ UNCHANGED request /\ RenderUnchanged

WriteTemplate ==
  /\ doing = "template"
  /\ \/ CanWrite /\ Finds("project") /\ GoOn("fork") /\ UNCHANGED <<tree, target>>
     \/ ~(CanWrite /\ Finds("project")) /\ End("service_unavailable")
  /\ UNCHANGED request /\ RenderUnchanged

\* package_dir.mkdir, and what is forked, Typst or with a limit the wrapper, in the
\* project directory.
CanFork == /\ CanMake /\ Finds("project")
           /\ IF limit = "none" THEN host.typst # "missing" ELSE host.wrapper # "missing"

Fork ==
  /\ doing = "fork"
  /\ \/ CanFork /\ GoOn(IF limit = "none" THEN "compile" ELSE "wrapper") /\ UNCHANGED <<tree, target>>
     \/ ~CanFork /\ End("service_unavailable")
  /\ UNCHANGED request /\ RenderUnchanged

\* The wrapper becomes Typst, or it exits with a status of its own.
WrapperWorks == host.wrapper \in {"works", "missing"} /\ host.typst = "works"

RunWrapper ==
  /\ doing = "wrapper" /\ host.wrapper # "hangs"
  /\ \/ WrapperWorks /\ GoOn("compile") /\ UNCHANGED <<tree, target>>
     \/ ~WrapperWorks /\ End("template_compile_failed")
  /\ UNCHANGED request /\ RenderUnchanged

RenderTimesOut ==
  /\ doing = "wrapper" /\ host.wrapper = "hangs"
  /\ End("render_timeout")
  /\ UNCHANGED request /\ RenderUnchanged

\* Typst reads the template and writes its output, or exits with a positive status;
\* under a limit that is too low it aborts, which is the template's fault as well.
TypstSucceeds == CanWrite /\ Finds("project") /\ limit # "low"

Compile ==
  /\ doing = "compile"
  /\ \/ TypstSucceeds /\ GoOn("collect") /\ UNCHANGED <<tree, target>>
     \/ ~TypstSucceeds /\ End("template_compile_failed")
  /\ UNCHANGED request /\ RenderUnchanged

\* What is said of an output that is not there depends on what was asked for.
WithoutOutput == CASE request.output = "document" -> "render_failed"
                   [] request.output = "page"     -> "template_compile_failed"
                   [] request.output = "archive"  -> "service_unavailable"

CollectOutput ==
  /\ doing = "collect"
  /\ \/ Finds("project") /\ GoOn("deliver") /\ UNCHANGED <<tree, target>>
     \/ ~Finds("project") /\ End(WithoutOutput)
  /\ UNCHANGED request /\ RenderUnchanged

\* The output is read, or the archive is written beside it and read.
CanDeliver == Finds("project") /\ (request.output = "archive" => CanWrite)

Deliver ==
  /\ doing = "deliver"
  /\ \/ CanDeliver /\ End("document")
     \/ ~CanDeliver /\ End("service_unavailable")
  /\ UNCHANGED request /\ RenderUnchanged

RenderStep == \/ MakeTempDir \/ CheckRoot \/ MakeProject \/ ResolveRoot \/ WriteFile
              \/ WriteTemplate \/ Fork \/ RunWrapper \/ RenderTimesOut \/ Compile
              \/ CollectOutput \/ Deliver

StaysRefused == Stopped /\ UNCHANGED requestVars

DeploymentNext == Start \/ RootChangesUnder \/ ToolsChangeUnder \/ StaysRefused \/ RenderStep

\* The process starts as Startup has it; of renders nothing is promised.
DeploymentSpec == DeploymentInit /\ [][DeploymentNext]_deploymentVars /\ WF_deploymentVars(Start)

-----------------------------------------------------------------------------
(* Properties *)

\* No request is answered with a fault of its own for what its deployment did wrong
\* (main.py: "answers 422 to everyone and pages nobody"), whatever the root was when
\* the service started or between two requests: a file is refused only if the root
\* changed while it was written, Typst's exit is blamed on the template only if the
\* root changed while Typst was at work or a tool changed since the probe, and a
\* render times out only in the latter case.  The exceptions are real: a root that
\* fills up under Typst makes it exit as a bad template does, where renderer.py has it
\* that "an ordinary non-zero exit is Typst rejecting the caller's source".
HostFaultNotBlamed ==
  /\ answer = "invalid_file_data" => "file" \in moved
  /\ answer = "template_compile_failed" => "typst" \in moved \/ broke
  /\ answer = "render_timeout" => broke

=============================================================================
