------------------------- MODULE ReleasePublication -------------------------
(***************************************************************************)
(* The protected publication jobs of one Release tag                       *)
(* (scripts/framework-release-adapter-publication*.ts) against GitHub.     *)
(*                                                                         *)
(* A job runs once (--run-attempt 1).  A Standard job creates the draft,   *)
(* uploads the files of its Bundle one by one and publishes; a Full job    *)
(* appends the Full files to the published release and then patches the    *)
(* notes.  Every `gh` call is one step, so a job can die, another actor    *)
(* can act and a request whose caller gave up can land between any two of  *)
(* them.  Reads are verified at once in the step that makes them, as in    *)
(* the code; the mutation that follows is a step of its own.               *)
(***************************************************************************)
EXTENDS Integers, FiniteSets

CONSTANTS
    StandardJobs,  \* runs of operation standard / resume_standard
    FullJobs,      \* runs of operation append_full
    Names,         \* names of the Standard files
    Plan,          \* job -> the files (records name, digest) it uploads
    Base,          \* Full job -> sealed_standard_assets it was built on
    Followers,     \* files of the platform followers
    Authorised,    \* Standard jobs holding a valid publication record
    Modes,         \* execute, rehearsal, reconcile_only
    TagRefs,       \* what refs/tags/<tag> may be before the first job
    Immutability,  \* values GitHub may give the immutable flag
    Serialized,    \* the concurrency group opl-release-bundle-global holds
    Faults,        \* kinds of fault that may happen
    FaultyJobs,    \* the jobs they may happen to
    None           \* no release, no file

Jobs == StandardJobs \cup FullJobs
Bundles == {Plan[j] : j \in StandardJobs}
FullPlans == {Plan[j] : j \in FullJobs}
Assets == (UNION {Plan[j] : j \in Jobs}) \cup Followers
NamesOf(files) == {a.name : a \in files}

ASSUME DisjointJobs == StandardJobs \cap FullJobs = {}

(* The Standard plans of a tag name the same files; bytes may differ. *)
ASSUME StandardPlans ==
    \A j \in StandardJobs :
        NamesOf(Plan[j]) = Names /\ \A a, b \in Plan[j] : a.name = b.name => a = b
ASSUME NamesNotEmpty == Names # {}

(* Full and follower files have names of their own. *)
ASSUME AppendedNames ==
    /\ \A j \in FullJobs : NamesOf(Plan[j]) \cap Names = {}
    /\ NamesOf(Followers) \cap Names = {}
ASSUME NoneIsNothing == None \notin Jobs /\ None \notin Assets
ASSUME ModesAssumption == Modes \subseteq {"execute", "rehearsal", "reconcile_only"}
ASSUME SerializedAssumption == Serialized \in BOOLEAN
ASSUME ImmutabilityAssumption == Immutability \subseteq BOOLEAN
ASSUME TagRefsAssumption == TagRefs \subseteq {"absent", "exact", "conflict"}

VARIABLES
    releases,  \* release id -> the release; the id is the job that made it
    tagRef,    \* refs/tags/<tag>: absent, exact (the admitted commit), conflict
    late,      \* mutations whose caller gave up and that GitHub may still do
    job,       \* job -> its progress
    sent       \* job -> subject -> mutations sent (history)

vars == <<releases, tagRef, late, job, sent>>
-----------------------------------------------------------------------------
Mutations == {"release_create", "asset_upload", "release_publish", "release_notes_patch"}

(* What an attempt id names: the mutation and, for an upload, the file. *)
Subjects == Mutations \X (Assets \cup {None})

Absent == [state |-> "absent", assets |-> {}, text |-> "prepared",
           full |-> FALSE, immutable |-> FALSE]

Idle == [pc |-> "idle", mode |-> "execute", id |-> None, todo |-> {},
         asset |-> None, text |-> "prepared", full |-> FALSE, verdict |-> "none"]

Request(j, mutation, i, a) ==
    [job |-> j, mutation |-> mutation, id |-> i, asset |-> a,
     text |-> job[j].text]

Init ==
    /\ releases = [i \in StandardJobs |-> Absent]
    /\ tagRef \in TagRefs
    /\ late = {}
    /\ job = [j \in Jobs |-> Idle]
    /\ sent = [j \in Jobs |-> [s \in Subjects |-> 0]]

Fault(j, f) == f \in Faults /\ j \in FaultyJobs
Running(j) == job[j].pc \notin {"idle", "done"}
Published == {i \in StandardJobs : releases[i].state = "published"}
Drafts == {i \in StandardJobs : releases[i].state = "draft"}

\* Bug for mutation: a draft hidden from the by-tag endpoint counts as absent.
ByTagEndpoint == Published

(* By tag GitHub answers the public release; gh falls back to a draft. *)
ByTag == IF Published # {} THEN Published ELSE Drafts

Goto(j, pc) == job' = [job EXCEPT ![j].pc = pc]
Finish(j, verdict) ==
    job' = [job EXCEPT ![j].pc = "done", ![j].verdict = verdict]
NoMutation == UNCHANGED <<releases, tagRef, late, sent>>
-----------------------------------------------------------------------------
(* GitHub: what an accepted mutation does.                                 *)

\* Bug for mutation: gh release upload runs with --clobber.
WithClobber == TRUE

(* The adapter uploads without --clobber: GitHub then refuses a taken name, *)
(* and would replace the file of that name otherwise.                       *)
Clobbers == FALSE

CanUpload(q) ==
    /\ q.id # None
    /\ releases[q.id].state # "absent" /\ ~releases[q.id].immutable
    /\ Clobbers \/ q.asset.name \notin NamesOf(releases[q.id].assets)

(* A tag is public once; publishing the public release again is a no-op. *)
CanPublish(q) ==
    \/ releases[q.id].state = "published"
    \/ releases[q.id].state = "draft" /\ Published = {}

Applicable(q) ==
    CASE q.mutation = "release_create" -> releases[q.job].state = "absent"
      [] q.mutation = "asset_upload" -> CanUpload(q)
      [] q.mutation = "release_publish" -> CanPublish(q)
      [] q.mutation = "release_notes_patch" -> releases[q.id].state # "absent"

Publish(q, immutable) ==
    IF releases[q.id].state = "published" THEN releases
    ELSE [releases EXCEPT ![q.id].state = "published", ![q.id].immutable = immutable]

\* Bug for mutation: the notes patch resends the payload of the creation.
ShowFullAsDraft(q) ==
    [releases EXCEPT ![q.id].text = q.text, ![q.id].full = TRUE, ![q.id].state = "draft"]

ShowFull(q) == [releases EXCEPT ![q.id].text = q.text, ![q.id].full = TRUE]

Effect(q, immutable) ==
    CASE q.mutation = "release_create" -> [releases EXCEPT ![q.job].state = "draft"]
      [] q.mutation = "asset_upload" ->
            [releases EXCEPT ![q.id].assets =
                {a \in @ : a.name # q.asset.name} \cup {q.asset}]
      [] q.mutation = "release_publish" -> Publish(q, immutable)
      [] q.mutation = "release_notes_patch" -> ShowFull(q)

(* Publishing creates the tag that the draft only named. *)
Apply(q) ==
    /\ Applicable(q)
    /\ \E immutable \in Immutability : releases' = Effect(q, immutable)
    /\ tagRef' = IF q.mutation = "release_publish" THEN "exact" ELSE tagRef

Land(q) ==
    /\ q \in late
    /\ Apply(q)
    /\ late' = late \ {q}
    /\ UNCHANGED <<job, sent>>

Drop(q) ==
    /\ q \in late
    /\ late' = late \ {q}
    /\ UNCHANGED <<releases, tagRef, job, sent>>

(* runGitHubMutation and its callers: past the deadline nothing is sent;   *)
(* anything but an accepted reply ends the job, whatever GitHub did.       *)
Subject(q) == <<q.mutation, q.asset>>

\* Bug for mutation: a timed-out mutation is simply tried again.
RetryAfterUnknown(j) == Goto(j, IF job[j].pc = "upload" THEN "check" ELSE job[j].pc)
\* Bug for mutation: the failure taxonomy is returned as the status.
UnlistedStatus(j) == Finish(j, "github_mutation_timeout")

AfterUnknown(j) == Finish(j, "outcome_unknown")

Elapsed(j) ==
    Fault(j, "deadline") /\ Finish(j, "deadline_elapsed") /\ NoMutation

Rejected(j, q) ==
    /\ q.mutation = "release_create"
    /\ Fault(j, "reject")
    /\ Finish(j, "rejected")
    /\ UNCHANGED <<releases, tagRef, late>>

NoReply(j, q) ==
    /\ AfterUnknown(j)
    /\ \/ Fault(j, "lost") /\ Apply(q) /\ UNCHANGED late
       \/ (Fault(j, "lost") \/ ~Applicable(q)) /\ UNCHANGED <<releases, tagRef, late>>
       \/ Fault(j, "late") /\ late' = late \cup {q}
          /\ UNCHANGED <<releases, tagRef>>

Accepted(j, q, next) == Apply(q) /\ Goto(j, next) /\ UNCHANGED late

Mutate(j, q, next) ==
    \/ Elapsed(j)
    \/ /\ sent' = [sent EXCEPT ![j][Subject(q)] = @ + 1]
       /\ Rejected(j, q) \/ NoReply(j, q) \/ Accepted(j, q, next)
-----------------------------------------------------------------------------
(* The checks on an inspection.                                            *)

(* assertReleaseIdentity: name, target and prepared notes, in this state.  *)
HasIdentity(i, state) ==
    /\ releases[i].state = state
    /\ releases[i].text = "prepared"
    /\ ~releases[i].full

(* assertReleaseAssetSet *)
WithinPlan(j, i) == releases[i].assets \subseteq Plan[j]
ExactPlan(j, i) ==
    WithinPlan(j, i) /\ NamesOf(releases[i].assets) = NamesOf(Plan[j])

(* mutableStandardIdentityState, against the captured body. *)
CapturedNotes(j, i) ==
    releases[i].text = job[j].text /\ releases[i].full = job[j].full
NotesVisible(j, i) == releases[i].text = job[j].text /\ releases[i].full
IsTarget(j, i) ==
    /\ i = job[j].id
    /\ releases[i].state = "published" /\ ~releases[i].immutable
    /\ NotesVisible(j, i) \/ CapturedNotes(j, i)

(* assertSameTagFullAssetPolicy *)
KeepsStandard(j, i) ==
    /\ Base[j] \subseteq releases[i].assets
    /\ \A a \in releases[i].assets, b \in Base[j] \cup Plan[j] :
          a.name = b.name => a = b
HasFull(j, i) == Plan[j] \subseteq releases[i].assets

(* A read that fails, and the verdict it leaves. *)
ReadFails(j, verdict) ==
    Fault(j, "read") /\ Finish(j, verdict) /\ NoMutation
Verified(j, holds, next, otherwise) ==
    /\ IF holds THEN Goto(j, next) ELSE Finish(j, otherwise)
    /\ NoMutation
-----------------------------------------------------------------------------
(* A job starts, with the mode of its plan.  A Full job targets the        *)
(* published release its Standard attestation names.                       *)
MayStart(j) ==
    /\ job[j].pc = "idle"
    /\ Serialized => \A k \in Jobs : ~Running(k)

Start(j) ==
    /\ MayStart(j)
    /\ \E m \in Modes :
         \E i \in IF j \in FullJobs THEN Published ELSE {None} :
           job' = [job EXCEPT ![j].pc = "inspect", ![j].mode = m, ![j].id = i]
    /\ NoMutation

Crash(j) ==
    Fault(j, "crash") /\ Running(j) /\ Finish(j, "crashed") /\ NoMutation

(* ensureRelease, from a found release to the loop over the files. *)
Track(j, i) ==
    job' = [job EXCEPT ![j].pc = "check", ![j].id = i, ![j].todo = Plan[j]]

\* Bug for mutation: any public release of this identity counts as done.
PublishedByIdentity(j, i) == HasIdentity(i, "published")

AlreadyPublished(j, i) == HasIdentity(i, "published") /\ ExactPlan(j, i)

Settle(j, i) ==
    IF HasIdentity(i, "draft") /\ WithinPlan(j, i) THEN Track(j, i)
    ELSE Finish(j, IF AlreadyPublished(j, i) THEN "complete" ELSE "failed")

Ensure(j) ==
    /\ IF ByTag = {} THEN Goto(j, "tagref") ELSE \E i \in ByTag : Settle(j, i)
    /\ NoMutation

\* Bug for mutation: the record is checked only for an inspected draft.
AuthorityOnlyForDraft(readOk) == readOk /\ Drafts # {}

(* applyStandardPublishPlan up to ensureRelease.  The publication record   *)
(* is checked unless the inspection shows a public release: the same       *)
(* observation then ends the job in ensureRelease.                         *)
NeedsAuthority(readOk) == ~readOk \/ Published = {}

InspectStandard(j, readOk) ==
    IF job[j].mode = "reconcile_only" THEN Finish(j, "readonly") /\ NoMutation
    ELSE IF NeedsAuthority(readOk) /\ j \notin Authorised
    THEN Finish(j, "failed") /\ NoMutation
    ELSE IF job[j].mode = "rehearsal" THEN Finish(j, "readonly") /\ NoMutation
    ELSE IF readOk THEN Ensure(j) ELSE Goto(j, "reinspect") /\ NoMutation

Inspect(j) ==
    /\ j \in StandardJobs /\ job[j].pc = "inspect"
    /\ \/ InspectStandard(j, TRUE)
       \/ Fault(j, "read") /\ InspectStandard(j, FALSE)

Reinspect(j) ==
    /\ job[j].pc = "reinspect"
    /\ Ensure(j) \/ ReadFails(j, "failed")

InspectTagRef(j) ==
    /\ job[j].pc = "tagref"
    /\ \/ Verified(j, tagRef # "conflict", "create", "failed")
       \/ ReadFails(j, "failed")

CreateRelease(j) ==
    /\ job[j].pc = "create"
    /\ Mutate(j, Request(j, "release_create", None, None), "created")

ReadCreated(j) ==
    /\ j \in StandardJobs /\ job[j].pc = "created"
    /\ \/ Settle(j, j) /\ NoMutation
       \/ ReadFails(j, "outcome_unknown")

(* One turn of the upload loop: a file already there is skipped, another   *)
(* byte string under its name ends the job.                                *)
HoldsTarget(j) ==
    LET i == job[j].id IN
    IF j \in FullJobs THEN IsTarget(j, i) /\ KeepsStandard(j, i)
    ELSE HasIdentity(i, "draft") /\ WithinPlan(j, i)

(* Notes that already advertise Full need every Full file. *)
MayUpload(j) ==
    /\ HoldsTarget(j)
    /\ j \in FullJobs /\ NotesVisible(j, job[j].id) => HasFull(j, job[j].id)

Skip(j, a) == job' = [job EXCEPT ![j].todo = @ \ {a}]

CheckAsset(j) ==
    /\ job[j].pc = "check" /\ job[j].todo # {}
    /\ \/ ReadFails(j, "failed")
       \/ /\ NoMutation
          /\ \E a \in job[j].todo :
               IF ~MayUpload(j) THEN Finish(j, "failed")
               ELSE IF a \in releases[job[j].id].assets THEN Skip(j, a)
               ELSE job' = [job EXCEPT ![j].pc = "upload", ![j].asset = a]

(* gh release upload addresses the release by tag, the checks by id. *)
UploadTargets(j) == IF ByTag = {} THEN {None} ELSE ByTag

UploadAsset(j) ==
    /\ job[j].pc = "upload"
    /\ \E i \in UploadTargets(j) :
         Mutate(j, Request(j, "asset_upload", i, job[j].asset), "uploaded")

ReadUploaded(j) ==
    /\ job[j].pc = "uploaded"
    /\ \/ ReadFails(j, "outcome_unknown")
       \/ /\ NoMutation
          /\ IF ~HoldsTarget(j)
             THEN Finish(j, IF j \in FullJobs THEN "outcome_unknown" ELSE "failed")
             ELSE IF job[j].asset \in releases[job[j].id].assets
             THEN job' = [job EXCEPT ![j].pc = "check",
                                     ![j].todo = @ \ {job[j].asset}]
             ELSE Finish(j, "outcome_unknown")

(* publishDraftRelease *)
ReadyToPublish(j) ==
    HasIdentity(job[j].id, "draft") /\ ExactPlan(j, job[j].id) /\ j \in Authorised

InspectDraft(j) ==
    /\ j \in StandardJobs /\ job[j].pc = "check" /\ job[j].todo = {}
    /\ \/ Verified(j, ReadyToPublish(j), "publish", "failed")
       \/ ReadFails(j, "failed")

PublishDraft(j) ==
    /\ job[j].pc = "publish"
    /\ Mutate(j, Request(j, "release_publish", job[j].id, None), "published")

ReadPublished(j) ==
    /\ job[j].pc = "published"
    /\ LET i == job[j].id IN
       \/ /\ Finish(j, IF /\ HasIdentity(i, "published")
                          /\ ExactPlan(j, i)
                          /\ ~releases[i].immutable
                       THEN "complete" ELSE "outcome_unknown")
          /\ NoMutation
       \/ ReadFails(j, "outcome_unknown")
-----------------------------------------------------------------------------
(* applyFullAddonPlan: the body is captured once, then the loop, then one  *)
(* last inspection and, if the notes do not show Full yet, the patch.      *)

Admits(j, i) ==
    /\ i = job[j].id
    /\ releases[i].state = "published" /\ ~releases[i].immutable
    /\ KeepsStandard(j, i)
    /\ releases[i].full => HasFull(j, i)

Capture(j, i) ==
    job' = [job EXCEPT ![j].pc = "check", ![j].todo = Plan[j],
                       ![j].text = releases[i].text, ![j].full = releases[i].full]

InspectFull(j) ==
    /\ j \in FullJobs /\ job[j].pc = "inspect"
    /\ LET refused == IF job[j].mode = "reconcile_only" THEN "readonly" ELSE "failed"
       IN \/ ReadFails(j, refused)
          \/ /\ NoMutation
             /\ \E i \in ByTag :
                  IF ~Admits(j, i) THEN Finish(j, refused)
                  ELSE IF job[j].mode # "execute" THEN Finish(j, "readonly")
                  ELSE Capture(j, i)

ReadyToAnnounce(j) ==
    LET i == job[j].id IN IsTarget(j, i) /\ KeepsStandard(j, i) /\ HasFull(j, i)

NeedsPatch(j) == ~NotesVisible(j, job[j].id)

InspectFinal(j) ==
    /\ j \in FullJobs /\ job[j].pc = "check" /\ job[j].todo = {}
    /\ \/ ReadFails(j, "failed")
       \/ /\ NoMutation
          /\ IF ~ReadyToAnnounce(j) THEN Finish(j, "failed")
             ELSE IF NeedsPatch(j) THEN Goto(j, "patch")
             ELSE Finish(j, "complete")

PatchNotes(j) ==
    /\ job[j].pc = "patch"
    /\ Mutate(j, Request(j, "release_notes_patch", job[j].id, None), "patched")

ReadNotes(j) ==
    /\ job[j].pc = "patched"
    /\ \/ ReadFails(j, "outcome_unknown")
       \/ Finish(j, IF ReadyToAnnounce(j) /\ NotesVisible(j, job[j].id)
                    THEN "complete" ELSE "outcome_unknown") /\ NoMutation
-----------------------------------------------------------------------------
(* Other actors: a person edits the notes on GitHub; a platform follower   *)
(* appends a file, in the same concurrency group.                          *)

EditNotes(i) ==
    /\ "edit" \in Faults
    /\ releases[i].state # "absent" /\ releases[i].text = "prepared"
    /\ releases' = [releases EXCEPT ![i].text = "edited"]
    /\ UNCHANGED <<tagRef, late, job, sent>>

AppendFollower(i, a) ==
    /\ i \in Published /\ ~releases[i].immutable
    /\ a.name \notin NamesOf(releases[i].assets)
    /\ Serialized => \A k \in Jobs : ~Running(k)
    /\ releases' = [releases EXCEPT ![i].assets = @ \cup {a}]
    /\ UNCHANGED <<tagRef, late, job, sent>>

StandardStep(j) ==
    \/ Inspect(j) \/ Reinspect(j) \/ InspectTagRef(j)
    \/ CreateRelease(j) \/ ReadCreated(j)
    \/ InspectDraft(j) \/ PublishDraft(j) \/ ReadPublished(j)
FullStep(j) ==
    InspectFull(j) \/ InspectFinal(j) \/ PatchNotes(j) \/ ReadNotes(j)
LoopStep(j) == CheckAsset(j) \/ UploadAsset(j) \/ ReadUploaded(j)
JobStep(j) == StandardStep(j) \/ FullStep(j) \/ LoopStep(j)

Next ==
    \/ \E j \in Jobs : Start(j) \/ JobStep(j) \/ Crash(j)
    \/ \E q \in late : Land(q) \/ Drop(q)
    \/ \E i \in StandardJobs : EditNotes(i) \/ \E a \in Followers : AppendFollower(i, a)

Spec == Init /\ [][Next]_vars

(* A running job's next call always answers or times out. *)
LiveSpec == Spec /\ \A j \in Jobs : WF_vars(JobStep(j))
-----------------------------------------------------------------------------
States == {"absent", "draft", "published"}
Texts == {"prepared", "edited"}
PCs == {"idle", "inspect", "reinspect", "tagref", "create", "created", "check",
        "upload", "uploaded", "publish", "published", "patch", "patched", "done"}
Verdicts == {"none", "complete", "readonly", "failed", "outcome_unknown",
             "deadline_elapsed", "rejected", "crashed"}
Releases == [state : States, assets : SUBSET Assets, text : Texts,
             full : BOOLEAN, immutable : BOOLEAN]
Requests ==
    {q \in [job : Jobs, mutation : Mutations, id : StandardJobs \cup {None},
            asset : Assets \cup {None}, text : Texts] :
        q.mutation = "asset_upload" => q.asset \in Assets}
Progress ==
    {p \in [pc : PCs, mode : Modes \cup {"execute"}, id : StandardJobs \cup {None},
            todo : SUBSET Assets, asset : Assets \cup {None}, text : Texts,
            full : BOOLEAN, verdict : Verdicts] :
        p.pc = "upload" => p.asset \in Assets}

TypeOK ==
    /\ releases \in [StandardJobs -> Releases]
    /\ tagRef \in {"absent", "exact", "conflict"}
    /\ late \subseteq Requests
    /\ job \in [Jobs -> Progress]
    /\ sent \in [Jobs -> [Subjects -> Nat]]

StandardPart(i) == {a \in releases[i].assets : a.name \in Names}

(* A public release always holds exactly the Standard files of one build,  *)
(* and only one release of the tag is public: publishDraftRelease checks   *)
(* the exact set, and PATCHes in a later call.                             *)
PublishedIsExact ==
    /\ \A i \in Published : StandardPart(i) \in Bundles
    /\ \A i, k \in Published : i = k

(* Whoever is about to publish, and every publication still under way at   *)
(* GitHub, concerns a release that holds exactly one build: what           *)
(* publishDraftRelease verified before its PATCH cannot go stale.          *)
HoldsOneBuild(i) ==
    /\ i \in StandardJobs
    /\ releases[i].state # "absent"
    /\ StandardPart(i) \in Bundles
PublishIsChecked ==
    /\ \A j \in Jobs : job[j].pc = "publish" => HoldsOneBuild(job[j].id)
    /\ \A q \in late : q.mutation = "release_publish" => HoldsOneBuild(q.id)

(* A job that reported complete told the truth, and it stays true: its own *)
(* files are public, and for a Full job the notes show them.               *)
CompleteIsTrue ==
    \A j \in Jobs :
        job[j].verdict = "complete" =>
            \E i \in Published :
                /\ Plan[j] \subseteq releases[i].assets
                /\ j \in FullJobs => releases[i].full

(* Only executing jobs mutate, and a Standard job only with a publication  *)
(* record: not one that found its release public, or could not read it.    *)
MutationIsAdmitted ==
    \A j \in Jobs, s \in Subjects :
        sent[j][s] > 0 =>
            /\ job[j].mode = "execute"
            /\ j \in StandardJobs => j \in Authorised

(* No mutation is sent twice by a job, whatever its replies: the attempt   *)
(* ids of mutationAttemptId are unique (read_only_reconcile_only).         *)
SentOnce == \A j \in Jobs, s \in Subjects : sent[j][s] <= 1

(* What is public stays public, with the same Standard files.              *)
PublishedIsSealed ==
    [][\A i \in Published :
          /\ releases'[i].state = "published"
          /\ {a \in releases'[i].assets : a.name \in Names} = StandardPart(i)]_vars

(* The release goes through its life cycle once.                           *)
Public == UNION {releases[i].assets : i \in Published}
Lifecycle == INSTANCE ReleaseLifecycle WITH
    contents <- {a \in Public : a.name \in Names},
    extras <- {a \in Public : a.name \notin Names},
    announced <- \E i \in Published : releases[i].full
ImplementsLifecycle == Lifecycle!Spec

(* After any fault of earlier jobs with the same Bundle, an undisturbed    *)
(* authorised job completes the publication (resume_standard).             *)
ResumeConverges ==
    \A j \in StandardJobs \ FaultyJobs :
        Running(j) ~> job[j].verdict = "complete"
=============================================================================
