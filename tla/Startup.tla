------------------------------ MODULE Startup ------------------------------
(***************************************************************************)
(* From the environment variables of a deployment to a service that serves, *)
(* or a process that refuses to (app/core/config.py, create_app and the      *)
(* memory-limit probe of app/main.py, app/core/sentry.py).                   *)
(*                                                                         *)
(* The host is external.  It may change at any time: a mount, a container   *)
(* policy or a binary is there in one step and gone in the next.  Variables  *)
(* are spelt as documented; those no property tells apart (ports, sizes, the *)
(* font and package paths) are left out.                                    *)
(***************************************************************************)
EXTENDS Integers

CONSTANTS Deployments, \* bound: the environments that processes are started in
          Roots,       \* the temporary roots a deployment may have
          Suffix,      \* length of "/prelum-XXXXXXXX/project"
          Reserve      \* PROJECT_ROOT_RESERVE

\* "" stands for unset and for empty, which the code does not tell apart but for
\* the memory limit.  "low" is below _MIN_RENDER_MEMORY_BYTES.
Given == [limit : {"unset", "blank", "low", "enough"},
          token : {"", "blank", "published", "own"},
          environment : {"", "development", "other"},
          sentry_environment : {"", "development", "other"},
          sentry : {"unset", "sdk", "no_sdk"}]

\* Directories can be made in a root that is "full", as on a tmpfs, and nothing
\* written; one that is "missing" cannot be made either, and a "file" is none.  A
\* root has the length of its name as configured and as resolved.
Root == [state : {"writable", "full", "readonly", "missing", "file"}, spelt : Nat, resolved : Nat]

\* The wrapper is prlimit, "denied" when it exits with a status of its own.
Wrapper == {"works", "missing", "denied", "hangs"}
Typst   == {"works", "missing"}
Host    == [root : Roots, wrapper : Wrapper, typst : Typst]

ASSUME DeploymentsAssumption == Deployments \subseteq Given
ASSUME RootsAssumption == Roots \subseteq Root
ASSUME LengthsAssumption == Suffix \in Nat /\ Reserve \in Nat

VARIABLES
  stage,    \* where the process is
  given,    \* its environment variables, and whether sentry-sdk is installed
  host,     \* what it runs on
  limit,    \* settings.max_render_memory_bytes
  token,    \* settings.api_token
  reports,  \* errors are reported to Sentry
  said      \* what was logged at start

startupVars == <<stage, given, host, limit, token, reports, said>>

StartupTypeOK == /\ stage \in {"main", "create", "probing", "serving", "refused"}
                 /\ given \in Given /\ host \in Host
                 /\ limit \in {"none", "low", "enough"}
                 /\ token \in {"none", "published", "own"}
                 /\ reports \in BOOLEAN
                 /\ said \subseteq {"dev_token", "memory_unbounded", "sdk_missing"}
                 /\ stage = "serving" => limit # "low" /\ token # "none"

StartupInit == /\ stage = "main"
               /\ given \in Deployments /\ host \in Host
               /\ limit = "none" /\ token = "none"
               /\ reports = FALSE /\ said = {}

-----------------------------------------------------------------------------
(* Settings *)

\* Seeded fault: only the configured spelling is measured.
FitsAsSpelt(r) == r.spelt + Suffix + 2 <= Reserve

\* ensure_project_root_fits: both spellings, with a separator and a NUL.
Fits(r) == \A n \in {r.spelt, r.resolved} : n + Suffix + 2 <= Reserve

\* Directories can be made in the temporary root.
CanMake == host.root.state \in {"writable", "full"}

\* validate_temp_root: it is there, it fits, and a directory can be made in it.
RootValid == CanMake /\ Fits(host.root)

\* An empty limit is read as none.
LimitRead == IF given.limit \in {"unset", "blank"} THEN "none" ELSE given.limit

\* The floor, and the wrapper is a file that may be executed.
LimitValid == LimitRead # "none" => LimitRead = "enough" /\ host.wrapper # "missing"

EffectiveEnvironment == IF given.environment # "" THEN given.environment
                                                  ELSE given.sentry_environment

IsDevelopment == EffectiveEnvironment = "development"

HasToken == given.token \in {"published", "own"}

\* Settings(), once: get_settings keeps what it returned.
ReadSettings ==
  /\ stage = "main"
  /\ IF RootValid /\ LimitValid /\ (HasToken \/ IsDevelopment)
     THEN /\ stage' = "create"
          /\ limit' = LimitRead
          /\ token' = IF HasToken THEN given.token ELSE "published"
     ELSE stage' = "refused" /\ UNCHANGED <<limit, token>>
  /\ UNCHANGED <<given, host, reports, said>>

-----------------------------------------------------------------------------
(* create_app *)

\* Seeded fault: the warning looks at one of the two variables.
WarnByEnvironment == given.environment = "development"

WarnOfToken == IsDevelopment

Warnings == {w \in {"dev_token", "memory_unbounded", "sdk_missing"} :
               CASE w = "dev_token"        -> WarnOfToken
                 [] w = "memory_unbounded" -> limit = "none" /\ given.limit # "unset"
                 [] w = "sdk_missing"      -> given.sentry = "no_sdk"}

\* setup_sentry, which goes on without the package.
SetupSentry == given.sentry = "sdk"

\* Sentry is set up, the warnings are logged, and the probe is forked if there is
\* a limit to prove.
CreateApp ==
  /\ stage = "create"
  /\ reports' = SetupSentry
  /\ said' = Warnings
  /\ stage' = IF limit = "none" THEN "serving" ELSE "probing"
  /\ UNCHANGED <<given, host, limit, token>>

\* Seeded fault: the probe's exit status is not looked at.
ProbeRan == host.wrapper # "missing"

\* The probe execs the wrapper, which execs `typst --version`.
ProbePasses == host.wrapper = "works" /\ host.typst = "works"

ProbeEnds ==
  /\ stage = "probing" /\ host.wrapper # "hangs"
  /\ stage' = IF ProbePasses THEN "serving" ELSE "refused"
  /\ UNCHANGED <<given, host, limit, token, reports, said>>

\* Seeded fault: the probe is waited for without a bound.
NoProbeTimeout == FALSE /\ UNCHANGED startupVars

\* TimeoutExpired, after _PROBE_TIMEOUT_SECS.
ProbeTimesOut ==
  /\ stage = "probing"
  /\ stage' = "refused"
  /\ UNCHANGED <<given, host, limit, token, reports, said>>

-----------------------------------------------------------------------------
(* The host *)

RootChanges == \E r \in Roots : host' = [host EXCEPT !.root = r]

ToolsChange == \/ \E w \in Wrapper : host' = [host EXCEPT !.wrapper = w]
               \/ \E t \in Typst : host' = [host EXCEPT !.typst = t]

HostChanges == /\ RootChanges \/ ToolsChange
               /\ UNCHANGED <<stage, given, limit, token, reports, said>>

StartupStep == ReadSettings \/ CreateApp \/ ProbeEnds \/ ProbeTimesOut

Stopped == stage = "refused" /\ UNCHANGED startupVars

StartupNext == StartupStep \/ HostChanges \/ Stopped

\* The process runs, and so does the clock of subprocess.run.
StartupSpec == StartupInit /\ [][StartupNext]_startupVars /\ WF_startupVars(StartupStep)

-----------------------------------------------------------------------------
(* Properties *)

\* A service that serves without something its deployment set up has said so: it
\* supplies a token of its own only where a development environment was named, and
\* warns about it; a limit that was given as empty is warned about; and errors that
\* were to be reported are, or their absence is logged.  Of a token that was set it
\* says only that it is used: the published one too is accepted, without a word and
\* outside development, where config.py has it that "Settings refuses it".
NothingSilentlyRelaxed ==
  stage = "serving" =>
    /\ token # given.token => "dev_token" \in said /\ given.environment # "other"
    /\ given.limit \in {limit, "unset"} \/ "memory_unbounded" \in said
    /\ given.sentry # "unset" => reports \/ "sdk_missing" \in said

\* The process serves or refuses, even if the probe hangs.
StartEnds == <>(stage \in {"serving", "refused"})

=============================================================================
