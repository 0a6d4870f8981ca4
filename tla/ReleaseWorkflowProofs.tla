------------------------ MODULE ReleaseWorkflowProofs ------------------------
(***************************************************************************)
(* For any number of runs, commits, versions and failures, what is released  *)
(* is whole, and a release that exists is never published again.             *)
(*                                                                         *)
(* ReleaseIsWhole looks at the release alone; the invariant says what every  *)
(* run has shown by the place it is at, or would be re-run from: that its     *)
(* commit has the version it was asked for, that the version's tag is at its  *)
(* commit, and that its image was built from there, and signed.              *)
(***************************************************************************)
EXTENDS ReleaseWorkflow, TLAPS

\* The run is at one of the places, or would be re-run from there.
Past(r, places) == \/ at[r] \in places
                   \/ at[r] = "failed" /\ restart[r] \in places

AfterTag  == {"lookup_release", "view_release", "create_release", "end"} \cup Publish
AfterSign == {"view_release", "create_release", "end"}

Checked == \A r \in Run :
  /\ at[r] # "idle" => commit[r] \in Commit
  /\ at[r] = "push_tag" => VersionOf[commit[r]] = version[r]
  /\ Past(r, AfterTag) => tag[version[r]] = commit[r] /\ VersionOf[commit[r]] = version[r]

Built == \A r \in Run :
  /\ at[r] = "idle" => image[r] = 0
  /\ image[r] # 0 => images[image[r]] = commit[r]
  /\ at[r] \in {"merge", "sign"} => image[r] # 0

Signed == \A r \in Run : Past(r, AfterSign) => image[r] \in signed

IInv == TypeOK /\ Checked /\ Built /\ Signed /\ ReleaseIsWhole

-----------------------------------------------------------------------------
USE VersionOfAssumption, NoneAssumption, FailuresAssumption
USE DEF Place, Job, Prepare, InGroup, Publish

LEMMA InitInv == Init => IInv
BY DEF Init, IInv, TypeOK, Checked, Built, Signed, ReleaseIsWhole, Past, AfterTag,
       AfterSign, Image

\* A job that fails, for any reason, is entered again behind what it had shown.
LEMMA FailsInv ==
  ASSUME NEW r \in Run, IInv, at[r] \in Job, Fails(r), failures' \in Nat
  PROVE  IInv'
<1>1. Entry(at[r]) \in {"lookup_tag", "queued", "view_release"}
  BY DEF Entry
<1>2. TypeOK'
  BY <1>1 DEF IInv, TypeOK, Fails, Goes, Leaves, Same, repository, Image
<1>3. \A q \in Run : q # r => at'[q] = at[q] /\ restart'[q] = restart[q]
  BY DEF IInv, TypeOK, Fails, Goes
<1>4. at'[r] = "failed" /\ restart'[r] = Entry(at[r])
  BY DEF IInv, TypeOK, Fails, Goes
<1>5. /\ Entry(at[r]) # "lookup_tag" => at[r] \in AfterTag
      /\ Entry(at[r]) = "view_release" => at[r] \in AfterSign
  BY DEF Entry, AfterTag, AfterSign
<1>6. UNCHANGED <<image, tag, images, registry, signed, release, commit, version>>
  BY DEF Fails, Same, repository
<1>7. Checked'
  BY <1>3, <1>4, <1>5, <1>6 DEF IInv, Checked, Past, AfterTag
<1>8. Built'
  BY <1>3, <1>4, <1>6 DEF IInv, Built
<1>9. Signed'
  BY <1>1, <1>3, <1>4, <1>5, <1>6 DEF IInv, Signed, Past, AfterSign
<1>10. ReleaseIsWhole'
  BY <1>6 DEF IInv, ReleaseIsWhole
<1>11. QED
  BY <1>2, <1>7, <1>8, <1>9, <1>10 DEF IInv

\* A step of one run to another place, which writes neither the repository nor the
\* registry: the place must be one that the run has earned.
LEMMA MovesInv ==
  ASSUME NEW r \in Run, IInv, NEW there \in Place \ {"idle", "failed"},
         Goes(r, there), UNCHANGED <<version, restart, repository>>,
         failures' \in Nat, group' \in Run \cup {NoRun},
         commit' \in [Run -> Commit \cup {NoCommit}], commit'[r] \in Commit,
         image' \in [Run -> Image \cup {0}],
         \A q \in Run \ {r} : commit'[q] = commit[q] /\ image'[q] = image[q],
         image'[r] # 0 => images[image'[r]] = commit'[r],
         there = "push_tag" => VersionOf[commit'[r]] = version[r],
         there \in AfterTag =>
           tag[version[r]] = commit'[r] /\ VersionOf[commit'[r]] = version[r],
         there \in {"merge", "sign"} => image'[r] # 0,
         there \in AfterSign => image'[r] \in signed
  PROVE  IInv'
<1>1. TypeOK'
  BY DEF IInv, TypeOK, Goes, repository, Image
<1>2. at'[r] = there /\ \A q \in Run : q # r => at'[q] = at[q]
  BY DEF IInv, TypeOK, Goes
<1>3. Checked'
  BY <1>2 DEF IInv, Checked, Past, repository
<1>4. Built'
  BY <1>2 DEF IInv, Built, repository
<1>5. Signed'
  BY <1>2 DEF IInv, Signed, Past, repository
<1>6. ReleaseIsWhole'
  BY DEF IInv, ReleaseIsWhole, repository
<1>7. QED
  BY <1>1, <1>3, <1>4, <1>5, <1>6 DEF IInv

-----------------------------------------------------------------------------
\* A run is started by hand, at some commit.
LEMMA DispatchStep ==
  ASSUME NEW r \in Run, IInv, Dispatch(r)
  PROVE  IInv'
<1>1. PICK c \in Commit : commit' = [commit EXCEPT ![r] = c]
  BY DEF Dispatch
<1>2. /\ commit' \in [Run -> Commit \cup {NoCommit}] /\ commit'[r] \in Commit
      /\ \A q \in Run \ {r} : commit'[q] = commit[q]
  BY <1>1 DEF IInv, TypeOK
<1>3. /\ Goes(r, "lookup_tag") /\ image' = image /\ image[r] = 0
      /\ UNCHANGED <<version, restart, repository>>
  BY DEF Dispatch, IInv, Built
<1>4. failures' \in Nat /\ group' \in Run \cup {NoRun} /\ image' \in [Run -> Image \cup {0}]
  BY DEF Dispatch, IInv, TypeOK
<1>5. "lookup_tag" \notin AfterTag /\ "lookup_tag" \notin AfterSign
  BY DEF AfterTag, AfterSign
<1>6. image'[r] = 0 /\ "lookup_tag" \in Place \ {"idle", "failed"}
  BY <1>3
<1>7. IInv
  OBVIOUS
<1> HIDE DEF Place, Job, Prepare, InGroup, Publish
<1>8. QED
  BY ONLY <1>2, <1>3, <1>4, <1>5, <1>6, <1>7, MovesInv DEF AfterTag, AfterSign, Publish, InGroup

\* A run begins anew, with the commit it had and without its image.
LEMMA RerunAllStep ==
  ASSUME NEW r \in Run, IInv, RerunAll(r)
  PROVE  IInv'
<1>1. /\ commit' = commit /\ commit[r] \in Commit
      /\ Goes(r, "lookup_tag") /\ UNCHANGED <<version, restart, repository>>
      /\ failures' \in Nat /\ group' \in Run \cup {NoRun}
  BY DEF RerunAll, Same, IInv, TypeOK, Checked
<1>2. /\ commit' \in [Run -> Commit \cup {NoCommit}] /\ image' \in [Run -> Image \cup {0}]
      /\ \A q \in Run \ {r} : commit'[q] = commit[q] /\ image'[q] = image[q]
      /\ commit'[r] \in Commit /\ image'[r] = 0
  BY <1>1 DEF RerunAll, IInv, TypeOK
<1>3. "lookup_tag" \notin AfterTag /\ "lookup_tag" \notin AfterSign
  BY DEF AfterTag, AfterSign
<1>4. IInv /\ "lookup_tag" \in Place \ {"idle", "failed"}
  OBVIOUS
<1> HIDE DEF Place, Job, Prepare, InGroup, Publish
<1>5. QED
  BY ONLY <1>1, <1>2, <1>3, <1>4, MovesInv

\* The places whose steps are moves: each shows what MovesInv asks for.
LEMMA MoveStep ==
  ASSUME NEW r \in Run, IInv,
         \/ RerunFailed(r) \/ LookUpRelease(r)
         \/ EnterGroup(r) \/ Verify(r) \/ ViewRelease(r) \/ End(r)
  PROVE  IInv'
<1> USE DEF IInv, TypeOK, Checked, Built, Signed, Past, AfterTag, AfterSign, Goes, Same,
            Leaves, repository
<1>2. CASE RerunFailed(r)
  BY <1>2, MovesInv DEF RerunFailed
<1>4. CASE LookUpRelease(r)
  BY <1>4, MovesInv DEF LookUpRelease
<1>5. CASE EnterGroup(r)
  BY <1>5, MovesInv DEF EnterGroup
<1>6. CASE Verify(r)
  BY <1>6, MovesInv DEF Verify
<1>7. CASE ViewRelease(r)
  BY <1>7, MovesInv DEF ViewRelease
<1>8. CASE End(r)
  BY <1>8, MovesInv DEF End
<1>9. QED
  BY <1>2, <1>4, <1>5, <1>6, <1>7, <1>8

\* The tag is looked up and, if there is none, pushed.
LEMMA TagStep ==
  ASSUME NEW r \in Run, IInv, LookUpTag(r) \/ PushTag(r)
  PROVE  IInv'
<1> DEFINE v == version[r]
<1>0. failures' = failures /\ failures \in Nat /\ at[r] \in Job
  BY DEF LookUpTag, PushTag, IInv, TypeOK
<1>1. CASE Fails(r)
  BY <1>0, <1>1, FailsInv
<1>2. CASE LookUpTag(r) /\ ~Fails(r)
  <2>1. /\ v = VersionOf[commit[r]] /\ (tag[v] # NoCommit => tag[v] = commit[r])
        /\ Goes(r, IF tag[v] = NoCommit THEN "push_tag" ELSE "lookup_release")
        /\ UNCHANGED <<image, restart, group, repository>> /\ Same
    BY <1>2 DEF LookUpTag, MayContinue
  <2> HIDE DEF v
  <2>2. CASE tag[v] = NoCommit
    BY <1>0, <1>2, <2>1, <2>2, MovesInv
       DEF v, LookUpTag, IInv, TypeOK, Checked, Built, Same, AfterTag, AfterSign
  <2>3. CASE tag[v] # NoCommit
    BY <1>0, <1>2, <2>1, <2>3, MovesInv
       DEF v, LookUpTag, IInv, TypeOK, Checked, Built, Same, AfterTag, AfterSign
  <2>4. QED
    BY <2>2, <2>3
<1>3. CASE PushTag(r) /\ ~Fails(r)
  <2>1. /\ tag[v] = NoCommit /\ tag' = [tag EXCEPT ![v] = commit[r]]
        /\ Goes(r, "lookup_release")
        /\ UNCHANGED <<image, restart, group, images, registry, signed, release>> /\ Same
    BY <1>3 DEF PushTag, PushAccepted
  <2>2. at[r] = "push_tag" /\ commit[r] \in Commit /\ v \in Version /\ VersionOf[commit[r]] = v
    BY <1>3 DEF PushTag, IInv, Checked, TypeOK
  <2>3. TypeOK'
    BY <1>0, <2>1, <2>2 DEF IInv, TypeOK, Goes, Same, Image
  <2>4. /\ at'[r] = "lookup_release"
        /\ \A q \in Run : q # r => at'[q] = at[q]
        /\ tag'[v] = commit[r] /\ \A w \in Version : w # v => tag'[w] = tag[w]
    BY <2>1, <2>2 DEF IInv, TypeOK, Goes
  <2>5. \A q \in Run : Past(q, AfterTag) => version[q] # v
    BY <2>1, <2>2 DEF IInv, Checked, TypeOK, Past, AfterTag
  <2>6. Checked'
    BY <2>1, <2>2, <2>4, <2>5 DEF IInv, Checked, TypeOK, Past, Same, AfterTag
  <2>7. Built'
    BY <2>1, <2>4 DEF IInv, Built, Same
  <2>8. Signed'
    BY <2>1, <2>4 DEF IInv, Signed, Past, AfterSign
  <2>9. ReleaseIsWhole'
    <3>1. release[v] = 0
      BY <2>1, <2>2 DEF IInv, ReleaseIsWhole, TypeOK, Image
    <3>2. QED
      BY <2>1, <2>2, <2>4, <3>1 DEF IInv, ReleaseIsWhole, TypeOK
  <2>10. QED
    BY <2>3, <2>6, <2>7, <2>8, <2>9 DEF IInv
<1>4. QED
  BY <1>1, <1>2, <1>3

\* What a run leaves in the registry and the repository.
LEMMA PublishStep ==
  ASSUME NEW r \in Run, IInv,
         BuildImages(r) \/ CreateManifest(r) \/ Sign(r) \/ CreateRelease(r)
  PROVE  IInv'
<1> DEFINE v == version[r]
<1>0. failures' = failures /\ failures \in Nat /\ at[r] \in Job /\ v \in Version
  BY DEF BuildImages, CreateManifest, Sign, CreateRelease, IInv, TypeOK
<1>1. CASE BuildImages(r)
  <2> DEFINE n == Len(images) + 1
  <2>1. /\ commit[r] \in Commit /\ tag[v] = commit[r] /\ VersionOf[commit[r]] = v
        /\ at[r] = "build"
    BY <1>1 DEF BuildImages, IInv, Checked, Past, AfterTag
  <2>2. /\ images' \in Seq(Commit) /\ Len(images') = n /\ n \in Nat
        /\ images'[n] = commit[r] /\ \A i \in Image : images'[i] = images[i] /\ i \in Image'
        /\ n \in Image'
    BY <1>1, <2>1 DEF BuildImages, IInv, TypeOK, Image
  <2>3. /\ at'[r] = "merge" /\ \A q \in Run : q # r => at'[q] = at[q]
        /\ image'[r] = n /\ \A q \in Run : q # r => image'[q] = image[q]
        /\ UNCHANGED <<commit, version, restart, failures, group, tag, registry, signed, release>>
        /\ image' = [image EXCEPT ![r] = n] /\ at' = [at EXCEPT ![r] = "merge"]
    BY <1>1 DEF BuildImages, IInv, TypeOK, Goes, Same
  <2> HIDE DEF n
  <2>4. TypeOK'
    BY <2>2, <2>3 DEF IInv, TypeOK
  <2>5. Checked'
    BY <2>1, <2>3 DEF IInv, Checked, Past
  <2>6. Built'
    BY <2>2, <2>3 DEF IInv, Built, TypeOK, Image
  <2>7. Signed'
    BY <2>3 DEF IInv, Signed, Past, AfterSign
  <2>8. ReleaseIsWhole'
    BY <2>2, <2>3 DEF IInv, ReleaseIsWhole, TypeOK
  <2>9. QED
    BY <2>4, <2>5, <2>6, <2>7, <2>8 DEF IInv
<1>2. CASE CreateManifest(r)
  <2>1. /\ at[r] = "merge"
        /\ at' = [at EXCEPT ![r] = "sign"] /\ registry' = [registry EXCEPT ![v] = image[r]]
        /\ UNCHANGED <<commit, version, image, restart, failures, group, tag, images, signed,
                       release>>
    BY <1>2 DEF CreateManifest, Goes, Same
  <2>2. TypeOK'
    BY <2>1 DEF IInv, TypeOK, Image
  <2>3. Checked' /\ Built' /\ Signed'
    BY <2>1 DEF IInv, TypeOK, Checked, Built, Signed, Past, AfterTag, AfterSign
  <2>4. ReleaseIsWhole'
    BY <2>1 DEF IInv, ReleaseIsWhole
  <2>5. QED
    BY <2>2, <2>3, <2>4 DEF IInv
<1>3. CASE Sign(r)
  <2>1. /\ at[r] = "sign"
        /\ at' = [at EXCEPT ![r] = "verify"] /\ signed' = signed \cup {image[r]}
        /\ UNCHANGED <<commit, version, image, restart, failures, group, tag, images, registry,
                       release>>
    BY <1>3 DEF Sign, Goes, Same
  <2>2. TypeOK'
    BY <2>1 DEF IInv, TypeOK, Built, Image
  <2>3. Checked' /\ Built' /\ Signed'
    BY <2>1 DEF IInv, TypeOK, Checked, Built, Signed, Past, AfterTag, AfterSign
  <2>4. ReleaseIsWhole'
    BY <2>1 DEF IInv, ReleaseIsWhole
  <2>5. QED
    BY <2>2, <2>3, <2>4 DEF IInv
<1>4. CASE CreateRelease(r) /\ ~Fails(r)
  <2>1. /\ at[r] = "create_release" /\ release[v] = 0
        /\ at' = [at EXCEPT ![r] = "end"] /\ release' = [release EXCEPT ![v] = image[r]]
        /\ UNCHANGED <<commit, version, image, restart, failures, group, tag, images, registry,
                       signed>>
    BY <1>4 DEF CreateRelease, Goes, Same
  <2>2. /\ image[r] \in signed /\ image[r] \in Image /\ image[r] # 0
        /\ images[image[r]] = tag[v] /\ VersionOf[tag[v]] = v
    BY <2>1 DEF IInv, TypeOK, Checked, Built, Signed, Past, AfterTag, AfterSign, Image
  <2>3. TypeOK'
    BY <2>1, <2>2 DEF IInv, TypeOK, Image
  <2>4. Checked' /\ Built' /\ Signed'
    BY <2>1 DEF IInv, TypeOK, Checked, Built, Signed, Past, AfterTag, AfterSign
  <2>5. ReleaseIsWhole'
    BY <1>0, <2>1, <2>2 DEF IInv, TypeOK, ReleaseIsWhole
  <2>6. QED
    BY <2>3, <2>4, <2>5 DEF IInv
<1>5. CASE Fails(r)
  BY <1>0, <1>5, FailsInv
<1>6. QED
  BY <1>1, <1>2, <1>3, <1>4, <1>5

LEMMA StepInv == IInv /\ [Next]_vars => IInv'
<1> SUFFICES ASSUME IInv, [Next]_vars PROVE IInv'
  OBVIOUS
<1>1. CASE UNCHANGED vars
  BY <1>1 DEF vars, repository, IInv, TypeOK, Checked, Built, Signed, ReleaseIsWhole, Past, Image
<1>2. ASSUME NEW r \in Run, RunnerFails(r) PROVE IInv'
  BY <1>2, FailsInv DEF RunnerFails, IInv, TypeOK
<1>3. QED
  BY <1>1, <1>2, DispatchStep, RerunAllStep, MoveStep, TagStep, PublishStep DEF Next, Works

-----------------------------------------------------------------------------
\* Everything a run has shown by the place it is at holds in every state: the
\* version, the tag, the image and its signature, and what is released.
THEOREM ReleaseInvariance == Spec => []IInv
<1>1. QED
  BY InitInv, StepInv, PTL DEF Spec

\* A release names a signed image built from the commit of its tag, for any number
\* of runs, failures and re-runs (docker.md: "and only then creates a GitHub
\* release containing the immutable image digest").
THEOREM ReleasesAreWhole == Spec => []ReleaseIsWhole
<1>1. IInv => ReleaseIsWhole
  BY DEF IInv
<1>2. QED
  BY <1>1, ReleaseInvariance, PTL

\* A run that begins when its version is released stays in its first job, re-run as
\* it may be (docker.md: "An existing GitHub release is a successful no-op").
THEOREM ReleasedIsDone == Spec => CompletedIsNoOp
<1> SUFFICES ASSUME NEW r \in Run
             PROVE  Spec => [](at[r] = "lookup_tag" /\ release[version[r]] # 0
                                 => [](at[r] \in Prepare \cup {"failed", "done"}))
  BY DEF CompletedIsNoOp
<1> DEFINE Begins == at[r] = "lookup_tag" /\ release[version[r]] # 0
           Stays  == at[r] \in Prepare \cup {"failed", "done"}
           Idle   == /\ Stays /\ release[version[r]] # 0
                     /\ at[r] = "failed" => restart[r] = "lookup_tag"
<1>1. Begins => Idle
  OBVIOUS
<1>2. Idle /\ IInv /\ [Next]_vars => Idle'
  <2> SUFFICES ASSUME Idle, IInv, [Next]_vars PROVE Idle'
    OBVIOUS
  <2>1. CASE UNCHANGED vars
    BY <2>1 DEF vars, repository
  <2>2. ASSUME NEW q \in Run, \/ Dispatch(q) \/ RerunFailed(q) \/ RerunAll(q) \/ RunnerFails(q)
                               \/ LookUpTag(q) \/ PushTag(q) \/ LookUpRelease(q)
        PROVE  Idle'
    BY <2>2 DEF IInv, TypeOK, Dispatch, RerunFailed, RerunAll, RunnerFails, LookUpTag, PushTag,
                LookUpRelease, Publishes, Fails, Goes, Same, repository, Entry
  <2>3. ASSUME NEW q \in Run, \/ EnterGroup(q) \/ BuildImages(q) \/ CreateManifest(q) \/ Sign(q)
                               \/ Verify(q) \/ ViewRelease(q) \/ CreateRelease(q) \/ End(q)
        PROVE  Idle'
    <3>1. q # r
      BY <2>3 DEF EnterGroup, BuildImages, CreateManifest, Sign, Verify, ViewRelease,
                  CreateRelease, End
    <3>2. at'[r] = at[r] /\ restart'[r] = restart[r] /\ version' = version
      BY <2>3, <3>1 DEF IInv, TypeOK, EnterGroup, BuildImages, CreateManifest, Sign, Verify,
                        ViewRelease, CreateRelease, End, Fails, Goes, Same, repository
    <3>3. release'[version[r]] = release[version[r]]
      BY <2>3 DEF IInv, TypeOK, EnterGroup, BuildImages, CreateManifest, Sign, Verify,
                  ViewRelease, CreateRelease, End, Fails, Goes, Same, repository
    <3>4. QED
      BY <3>2, <3>3
  <2>4. QED
    BY <2>1, <2>2, <2>3 DEF Next, Works
<1>3. Idle => Stays
  OBVIOUS
<1> HIDE DEF Begins, Stays, Idle
<1>4. Spec => [](Begins => []Stays)
  BY <1>1, <1>2, <1>3, ReleaseInvariance, PTL DEF Spec
<1>5. QED
  BY <1>4 DEF Begins, Stays
=============================================================================
