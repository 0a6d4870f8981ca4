--------------------------- MODULE ReleaseWorkflow ---------------------------
(***************************************************************************)
(* .github/workflows/release.yml and the build.yml it calls: a run checks    *)
(* and pushes the tag, publishes a signed image, and makes a GitHub release  *)
(* that names the image by its digest.  Runs are started by hand; several     *)
(* may be under way for one version, each may fail at any point and be re-run *)
(* from its failed jobs, which keeps the outputs of the others, or as a whole. *)
(* A re-run keeps the commit of its run.                                    *)
(*                                                                         *)
(* Left out: images of pushes to main, and the tag major.minor, which goes   *)
(* with the tag of the version.                                             *)
(***************************************************************************)
EXTENDS Integers, Sequences

CONSTANTS Run,          \* runs of the workflow
          Commit,       \* commits of main they are dispatched at
          Version,      \* versions asked for
          VersionOf,    \* the version in each commit's pyproject.toml
          MaxFailures,  \* bound: failures of jobs for no reason of their own
          NoCommit, NoRun

ASSUME VersionOfAssumption == VersionOf \in [Commit -> Version]
ASSUME NoneAssumption == NoCommit \notin Commit /\ NoRun \notin Run
ASSUME FailuresAssumption == MaxFailures \in Nat

VARIABLES
  \* the runs
  at, commit, version,
  image,     \* the image a run has built, 0 for none: the output of its build job
  restart,   \* where a re-run of the failed jobs begins
  failures,
  group,     \* the run in the concurrency group of build.yml
  \* the repository and the registry
  tag,       \* the commit of each version's git tag
  images,    \* the images pushed, each the commit it was built from
  registry,  \* the image the version's tag names, 0 for none
  signed,    \* images with a signature
  release    \* the image the version's GitHub release names, 0 for none

repository == <<tag, images, registry, signed, release>>
vars == <<at, commit, version, image, restart, failures, group, repository>>

Prepare == {"lookup_tag", "push_tag", "lookup_release"}
InGroup == {"build", "merge", "sign", "verify"}
Publish == {"queued"} \cup InGroup
Job     == Prepare \cup Publish \cup {"view_release", "create_release", "end"}
Place   == Job \cup {"idle", "failed", "done"}

Image == 1..Len(images)

TypeOK == /\ at \in [Run -> Place]
          /\ commit \in [Run -> Commit \cup {NoCommit}]
          /\ version \in [Run -> Version]
          /\ images \in Seq(Commit)
          /\ image \in [Run -> Image \cup {0}]
          /\ restart \in [Run -> {"lookup_tag", "queued", "view_release"}]
          /\ failures \in Nat
          /\ group \in Run \cup {NoRun}
          /\ tag \in [Version -> Commit \cup {NoCommit}]
          /\ registry \in [Version -> Image \cup {0}]
          /\ signed \subseteq Image
          /\ release \in [Version -> Image \cup {0}]

Init == /\ at = [r \in Run |-> "idle"]
        /\ commit = [r \in Run |-> NoCommit]
        /\ version \in [Run -> Version]
        /\ image = [r \in Run |-> 0]
        /\ restart = [r \in Run |-> "lookup_tag"]
        /\ failures = 0 /\ group = NoRun
        /\ tag = [v \in Version |-> NoCommit]
        /\ images = <<>> /\ signed = {}
        /\ registry = [v \in Version |-> 0] /\ release = [v \in Version |-> 0]

Goes(r, there)  == at' = [at EXCEPT ![r] = there]
Same            == UNCHANGED <<commit, version>>
Leaves(r)       == group' = IF group = r THEN NoRun ELSE group

\* Where the job is entered again that a run is in.
Entry(place) == CASE place \in Prepare -> "lookup_tag"
                  [] place \in Publish -> "queued"
                  [] OTHER             -> "view_release"

\* The job fails; the jobs behind it are skipped.
Fails(r) == /\ Goes(r, "failed")
            /\ restart' = [restart EXCEPT ![r] = Entry(at[r])]
            /\ Leaves(r)
            /\ UNCHANGED <<image, repository>> /\ Same

-----------------------------------------------------------------------------
(* Maintainers, and the runners *)

Dispatch(r) == /\ at[r] = "idle"
               /\ \E c \in Commit : commit' = [commit EXCEPT ![r] = c]
               /\ Goes(r, "lookup_tag")
               /\ UNCHANGED <<version, image, restart, failures, group, repository>>

\* "Re-run failed jobs": with the outputs of those that succeeded.
RerunFailed(r) == /\ at[r] = "failed"
                  /\ Goes(r, restart[r])
                  /\ UNCHANGED <<image, restart, failures, group, repository>> /\ Same

\* "Re-run all jobs"
RerunAll(r) == /\ at[r] \in {"failed", "done"}
               /\ Goes(r, "lookup_tag")
               /\ image' = [image EXCEPT ![r] = 0]
               /\ UNCHANGED <<restart, failures, group, repository>> /\ Same

\* A test, a network, a runner or a signature service: a job can fail at any point,
\* and while it waits, when another build is queued behind it.
RunnerFails(r) == /\ at[r] \in Job
                  /\ failures < MaxFailures /\ failures' = failures + 1
                  /\ Fails(r)

-----------------------------------------------------------------------------
(* prepare: "Validate version and create tag" *)

\* Seeded fault: a tag that exists is a reason to continue.
MayContinueAnyway(r) == TRUE

\* Seeded fault: a tag that exists is a reason to give up.
MayContinueNever(r) == FALSE

MayContinue(r) == tag[version[r]] = commit[r]

LookUpTag(r) ==
  /\ at[r] = "lookup_tag"
  /\ LET v == version[r]
         refused == \/ v # VersionOf[commit[r]]
                    \/ tag[v] # NoCommit /\ ~MayContinue(r)
     IN IF refused THEN Fails(r)
        ELSE /\ Goes(r, IF tag[v] = NoCommit THEN "push_tag" ELSE "lookup_release")
             /\ UNCHANGED <<image, restart, group, repository>> /\ Same
  /\ UNCHANGED failures

\* Seeded fault: git push --force.
PushAcceptedAlways(v) == TRUE

\* git push refuses a tag that has come to exist.
PushAccepted(v) == tag[v] = NoCommit

PushTag(r) ==
  /\ at[r] = "push_tag"
  /\ LET v == version[r] IN
     IF PushAccepted(v)
     THEN /\ tag' = [tag EXCEPT ![v] = commit[r]]
          /\ Goes(r, "lookup_release")
          /\ UNCHANGED <<image, restart, group, images, registry, signed, release>> /\ Same
     ELSE Fails(r)
  /\ UNCHANGED failures

\* Seeded fault: publication does not ask whether there is a release.
PublishesAlways(r) == TRUE

\* if: needs.prepare.outputs.already_released != 'true'
Publishes(r) == release[version[r]] = 0

\* A publish that is skipped has github-release skipped with it.
LookUpRelease(r) == /\ at[r] = "lookup_release"
                    /\ Goes(r, IF Publishes(r) THEN "queued" ELSE "done")
                    /\ UNCHANGED <<image, restart, failures, group, repository>> /\ Same

-----------------------------------------------------------------------------
(* publish: build.yml *)

\* concurrency: one build of main at a time.  Merging again needs no second build.
EnterGroup(r) == /\ at[r] = "queued" /\ group = NoRun
                 /\ group' = r
                 /\ Goes(r, IF image[r] = 0 THEN "build" ELSE "merge")
                 /\ UNCHANGED <<image, restart, failures, repository>> /\ Same

\* The tests passed, and the platforms were pushed by digest.
BuildImages(r) == /\ at[r] = "build"
                  /\ images' = Append(images, commit[r])
                  /\ image' = [image EXCEPT ![r] = Len(images) + 1]
                  /\ Goes(r, "merge")
                  /\ UNCHANGED <<restart, failures, group, tag, registry, signed, release>> /\ Same

\* "Create manifest list and push": the version's tag names it from here on.
CreateManifest(r) == /\ at[r] = "merge"
                     /\ registry' = [registry EXCEPT ![version[r]] = image[r]]
                     /\ Goes(r, "sign")
                     /\ UNCHANGED <<image, restart, failures, group, tag, images, signed, release>>
                     /\ Same

Sign(r) == /\ at[r] = "sign"
           /\ signed' = signed \cup {image[r]}
           /\ Goes(r, "verify")
           /\ UNCHANGED <<image, restart, failures, group, tag, images, registry, release>> /\ Same

Verify(r) == /\ at[r] = "verify" /\ image[r] \in signed
             /\ Goes(r, "view_release") /\ Leaves(r)
             /\ UNCHANGED <<image, restart, failures, repository>> /\ Same

-----------------------------------------------------------------------------
(* github-release *)

ViewRelease(r) == /\ at[r] = "view_release"
                  /\ Goes(r, IF release[version[r]] = 0 THEN "create_release" ELSE "end")
                  /\ UNCHANGED <<image, restart, failures, group, repository>> /\ Same

\* gh release create --verify-tag: refused if there is one by now.
CreateRelease(r) ==
  /\ at[r] = "create_release"
  /\ LET v == version[r] IN
     IF release[v] = 0 /\ tag[v] # NoCommit
     THEN /\ release' = [release EXCEPT ![v] = image[r]]
          /\ Goes(r, "end")
          /\ UNCHANGED <<image, restart, group, tag, images, registry, signed>> /\ Same
     ELSE Fails(r)
  /\ UNCHANGED failures

End(r) == /\ at[r] = "end"
          /\ Goes(r, "done")
          /\ UNCHANGED <<image, restart, failures, group, repository>> /\ Same

-----------------------------------------------------------------------------

Works(r) == \/ LookUpTag(r) \/ PushTag(r) \/ LookUpRelease(r)
            \/ EnterGroup(r) \/ BuildImages(r) \/ CreateManifest(r) \/ Sign(r) \/ Verify(r)
            \/ ViewRelease(r) \/ CreateRelease(r) \/ End(r)

Next == \E r \in Run : \/ Dispatch(r) \/ RerunFailed(r) \/ RerunAll(r)
                       \/ RunnerFails(r) \/ Works(r)

\* A job that can go on does, and what failed is re-run: the documentation's
\* retry.  Nobody has to start a run.
Retry(r) == at[r] = "failed" /\ (RerunFailed(r) \/ RerunAll(r))

Fairness == \A r \in Run : WF_vars(Works(r)) /\ WF_vars(Retry(r))

Spec == Init /\ [][Next]_vars /\ Fairness

-----------------------------------------------------------------------------
(* Properties *)

\* A release names an image that was built, after its tests, from the commit of the
\* release's tag, which has that version, and that is signed (docker.md: "and only
\* then creates a GitHub release containing the immutable image digest").
ReleaseIsWhole ==
  \A v \in Version : release[v] # 0 =>
    /\ release[v] \in signed
    /\ images[release[v]] = tag[v]
    /\ VersionOf[tag[v]] = v

\* A run that begins when there is a release publishes nothing: it never leaves the
\* first job, and however often it fails and is re-run (docker.md: "An existing
\* GitHub release is a successful no-op").
CompletedIsNoOp ==
  \A r \in Run :
    [](at[r] = "lookup_tag" /\ release[version[r]] # 0
         => [](at[r] \in Prepare \cup {"failed", "done"}))

\* A release that was begun is completed by retries, wherever its runs failed
\* (docker.md: "A retry continues a partial release").
RetryCompletes == \A v \in Version : tag[v] # NoCommit ~> release[v] # 0

=============================================================================
