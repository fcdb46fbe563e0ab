---------------------------- MODULE DesktopAppend ----------------------------
(***************************************************************************)
(* scripts/append-stable-desktop-assets.ts: the jobs of the concurrency    *)
(* group opl-release-bundle-global that add a Desktop platform to a public *)
(* Stable release, or replace its frozen opl-install.sh.                   *)
(*                                                                         *)
(* A job alternates reads and `gh` mutations.  A read with every check     *)
(* made on it is one step and leaves the next mutation in "call"; the      *)
(* mutation is the next step.  Two reads with no mutation between them are *)
(* one step: where they would differ the job fails, as if it had died.     *)
(* The manifest of a tag names one Bundle, so it is the set of the         *)
(* platforms it lists, each with the build whose files it names.           *)
(***************************************************************************)
EXTENDS ReleaseAssets

CONSTANTS
    AppendJobs,    \* runs of append-platform
    RepairJobs,    \* runs of the additive repair of opl-install.sh
    Platform,      \* append job -> its platform
    Build,         \* append job -> the build it carries
    FilesOf,       \* platform -> base names of its files
    Frozen,        \* base names of the frozen primary files
    Repaired,      \* repair job -> the installer bytes it publishes
    FaultyJobs     \* jobs that may be cancelled, killed or miss a call

ASSUME DisjointJobs == AppendJobs \cap RepairJobs = {}
ASSUME PlatformFiles == \A j \in AppendJobs : FilesOf[Platform[j]] # {}

VARIABLE job       \* job -> its progress

appendVars == <<assets, issued, late, job>>

GroupJobs == AppendJobs \cup RepairJobs
Manifest == PublicName("manifest")
Installer == PublicName("installer")
Receipt(j) == PublicName(j)          \* named after the repair

Idle == [pc |-> "idle", call |-> NoAsset, expected |-> {}, plan |-> {},
         canonical |-> NoAsset, stage |-> NoAsset]

Ended == {"complete", "failed", "dead"}
Queued == {"idle", "admitted"}
GroupFree == \A j \in GroupJobs : job[j].pc \in Queued \cup Ended

Become(j, pc) == job' = [job EXCEPT ![j].pc = pc]
FailJob(j) == Become(j, "failed")
Reading == UNCHANGED <<assets, issued, late>>

(* The job will now send request q and continue at pc with the readback. *)
Send(j, q, pc) == job' = [job EXCEPT ![j].call = q, ![j].pc = pc]
Reads(j, pc) == job[j].pc = pc /\ job[j].call = NoAsset

AppendInit == AssetsInit /\ job = [j \in GroupJobs |-> Idle]
-----------------------------------------------------------------------------
(* What a job publishes and what it finds.                                 *)
Entry(j) == <<Platform[j], Build[j]>>
Payload(j) == {<<PublicName(f), {<<f, Build[j]>>}>> : f \in FilesOf[Platform[j]]}
Named(inventory) == {e[1] : e \in inventory}
PlatformsIn(manifest) == {e[1] : e \in manifest}

Stages == {a \in assets : a.name[1] = "manifest" /\ a.name[2] # {}}
Canonical == At(Manifest)
Listed == IF Canonical = NoAsset THEN {} ELSE Canonical.digest

\* Bug for mutation: only a staged manifest equal to the public one recovers.
SameManifest(current, staged) == current = staged

(* assertManifestSuccessor: a staged manifest may only add platforms. *)
Successor(current, staged) == current \subseteq staged

(* mergeDesktopPlatformManifest: a listed platform must be this very build. *)
MergeConflict(listed, j) ==
    Platform[j] \in PlatformsIn(listed) /\ Entry(j) \notin listed
\* Bug for mutation: the new manifest lists the job's own platform only.
MergeAlone(listed, j) == {Entry(j)}
Merge(listed, j) == listed \cup {Entry(j)}

\* Bug for mutation: a file that is there is taken for the planned one.
TrustNames(j) == FALSE

(* buildAppendPlan: a name on the release with other bytes is a conflict. *)
PlanConflict(j) ==
    \E f \in Payload(j) : Present(f[1]) /\ At(f[1]).digest # f[2]
Missing(j) == {f \in Payload(j) : ~Present(f[1])}
-----------------------------------------------------------------------------
(* A queued job gets the group when no other job of the group is running.  *)
Start(j) ==
    /\ job[j].pc = (IF j \in RepairJobs THEN "admitted" ELSE "idle")
    /\ GroupFree
    /\ Become(j, IF j \in RepairJobs THEN "repair" ELSE "inspect")
    /\ Reading

PlanAppend(j) ==
    IF MergeConflict(Listed, j) \/ PlanConflict(j) THEN FailJob(j)
    ELSE job' = [job EXCEPT ![j].pc = "upload", ![j].expected = Inventory,
                            ![j].plan = Missing(j), ![j].stage = NoAsset]

(* A staged manifest left by a dead job is promoted before anything else.  *)
Recover(j, staged) ==
    IF ~Successor(Listed, staged.digest) THEN FailJob(j)
    ELSE IF Canonical = NoAsset
    THEN job' = [job EXCEPT ![j].call = Rename(staged, Manifest),
                            ![j].pc = "recovered", ![j].stage = staged]
    ELSE IF Listed = staged.digest THEN Send(j, Delete(staged), "recovered")
    ELSE job' = [job EXCEPT ![j].call = Delete(Canonical),
                            ![j].pc = "recover", ![j].stage = staged]

Inspect(j) ==
    /\ Reads(j, "inspect")
    /\ \/ Stages = {} /\ PlanAppend(j)
       \/ Cardinality(Stages) > 1 /\ FailJob(j)
       \/ Cardinality(Stages) = 1 /\ \E staged \in Stages : Recover(j, staged)
    /\ Reading

(* Readback of the deletion; renameAsset finds the staged asset unchanged. *)
PromoteStage(j, from, to) ==
    /\ Reads(j, from)
    /\ IF Canonical = NoAsset /\ job[j].stage \in assets
       THEN Send(j, Rename(job[j].stage, Manifest), to)
       ELSE FailJob(j)
    /\ Reading

(* Readback of the recovery; a renamed manifest must have kept its id.     *)
IsPromoted(j) ==
    Canonical # NoAsset /\ (job[j].stage # NoAsset => Canonical.id = job[j].stage.id)

Recovered(j) ==
    /\ Reads(j, "recovered")
    /\ IF IsPromoted(j) /\ Stages = {} THEN PlanAppend(j) ELSE FailJob(j)
    /\ Reading

\* Bug for mutation: the release is not compared after a mutation.
Unseen(j) == TRUE

(* assertExpectedState: only this job may have changed the release.        *)
Unchanged(j) == Inventory = job[j].expected

UploadFile(j) ==
    /\ Reads(j, "upload")
    /\ job[j].plan # {}
    /\ IF ~Unchanged(j) THEN FailJob(j)
       ELSE \E f \in job[j].plan :
               job' = [job EXCEPT ![j].call = Upload(f[1], f[2]),
                                  ![j].plan = @ \ {f},
                                  ![j].expected = @ \cup {f}]
    /\ Reading

(* All files are up: merge into the live manifest and stage the result.    *)
StageManifest(j) ==
    /\ Reads(j, "upload")
    /\ job[j].plan = {}
    /\ IF ~Unchanged(j) \/ Stages # {} \/ MergeConflict(Listed, j) THEN FailJob(j)
       ELSE IF Entry(j) \in Listed THEN Become(j, "final")
       ELSE LET merged == Merge(Listed, j) IN
            job' = [job EXCEPT
                      ![j].call = Upload(StagedName("manifest", merged), merged),
                      ![j].canonical = Canonical, ![j].pc = "staged"]
    /\ Reading

(* The staged manifest is up; the public one must still be the merged one. *)
StagedSet(j) == IF job[j].canonical = NoAsset THEN {} ELSE job[j].canonical.digest

CanReplace(j) ==
    /\ Cardinality(Stages) = 1
    /\ \E a \in Stages : a.digest = Merge(StagedSet(j), j)
    /\ Canonical = job[j].canonical

ReplaceManifest(j) ==
    /\ Reads(j, "staged")
    /\ \/ /\ ~CanReplace(j)
          /\ FailJob(j)
       \/ /\ CanReplace(j)
          /\ LET stage == CHOOSE a \in Stages : TRUE IN
             IF Canonical = NoAsset
             THEN job' = [job EXCEPT ![j].call = Rename(stage, Manifest),
                                     ![j].stage = stage, ![j].pc = "final"]
             ELSE job' = [job EXCEPT ![j].call = Delete(Canonical),
                                     ![j].stage = stage, ![j].pc = "promote"]
    /\ Reading

(* The final read: every file, one manifest, this platform listed in it.   *)
AppendComplete(j) ==
    /\ ~PlanConflict(j) /\ Missing(j) = {}
    /\ IsPromoted(j) /\ Stages = {}
    /\ Entry(j) \in Listed

FinishAppend(j) ==
    /\ Reads(j, "final")
    /\ IF AppendComplete(j) THEN Become(j, "complete") ELSE FailJob(j)
    /\ Reading
-----------------------------------------------------------------------------
(* The additive repair replaces opl-install.sh by DELETE and upload.       *)
FrozenIntact ==
    \A n \in Frozen : Present(PublicName(n)) /\ At(PublicName(n)).digest = Seed[PublicName(n)]

(* repair-admit binds the id and bytes the repair will replace.            *)
Admit(j) ==
    /\ Reads(j, "idle") /\ j \in RepairJobs
    /\ IF Present(Installer) /\ FrozenIntact /\ ~Present(Receipt(j))
       THEN job' = [job EXCEPT ![j].pc = "admitted", ![j].canonical = At(Installer)]
       ELSE FailJob(j)
    /\ Reading

(* buildAdditiveRepairPlan, then the deletion without a further read.      *)
RepairInspect(j) ==
    /\ Reads(j, "repair")
    /\ IF /\ FrozenIntact
          /\ At(Installer) = job[j].canonical
          /\ At(Installer).digest # Repaired[j]
       THEN job' = [job EXCEPT ![j].call = Delete(At(Installer)), ![j].pc = "deleted",
                       ![j].expected = Inventory \ {<<Installer, At(Installer).digest>>}]
       ELSE FailJob(j)
    /\ Reading

(* assertInventory after each mutation; then the next upload, or the end.  *)
RepairUpload(j, from, name, digest, to) ==
    /\ Reads(j, from)
    /\ IF Unchanged(j) /\ FrozenIntact
       THEN job' = [job EXCEPT ![j].call = Upload(name, digest), ![j].pc = to,
                               ![j].expected = @ \cup {<<name, digest>>}]
       ELSE FailJob(j)
    /\ Reading

FinishRepair(j) ==
    /\ Reads(j, "receipted")
    /\ IF Unchanged(j) /\ FrozenIntact THEN Become(j, "complete") ELSE FailJob(j)
    /\ Reading
-----------------------------------------------------------------------------
(* The pending mutation.  Its exit code is not used: an error with the     *)
(* expected readback counts as success, so a refused or lost call and an   *)
(* applied one whose answer is lost differ only in what is read next.      *)
Call(j) ==
    /\ job[j].call # NoAsset
    /\ job' = [job EXCEPT ![j].call = NoAsset]
    /\ late' = late
    /\ \/ Land(job[j].call)
       \/ Refuse(job[j].call)
       \/ j \in FaultyJobs /\ UNCHANGED <<assets, issued>>

(* A queued run is cancelled by a newer one, or a running one is killed (20 *)
(* or 30 minutes, before gh's own 30); its open request may yet arrive.     *)
Die(j) ==
    /\ j \in FaultyJobs
    /\ job[j].pc \notin Ended
    /\ job' = [job EXCEPT ![j].pc = "dead", ![j].call = NoAsset]
    /\ UNCHANGED <<assets, issued>>
    /\ \/ late' = late
       \/ job[j].call # NoAsset /\ late' = late \cup {job[j].call}

AppendStep(j) ==
    \/ Start(j) \/ Inspect(j) \/ Recovered(j)
    \/ PromoteStage(j, "recover", "recovered") \/ PromoteStage(j, "promote", "final")
    \/ UploadFile(j) \/ StageManifest(j) \/ ReplaceManifest(j) \/ FinishAppend(j)

RepairStep(j) ==
    \/ Start(j) \/ Admit(j) \/ RepairInspect(j) \/ FinishRepair(j)
    \/ RepairUpload(j, "deleted", Installer, Repaired[j], "uploaded")
    \/ RepairUpload(j, "uploaded", Receipt(j), {<<j, "receipt">>}, "receipted")

JobStep(j) ==
    \/ j \in AppendJobs /\ AppendStep(j)
    \/ j \in RepairJobs /\ RepairStep(j)
    \/ Call(j)

=============================================================================
