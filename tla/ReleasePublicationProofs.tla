---------------------- MODULE ReleasePublicationProofs ----------------------
(* Proofs about the publication of a Release tag, for any number of jobs,   *)
(* any plans, and every combination of faults, serialised or not: types;    *)
(* exactly one build is public, for good; the jobs implement the life cycle *)
(* of the tag and say so truthfully; and what they send they were admitted  *)
(* to send, once.                                                           *)
EXTENDS ReleasePublication, TLAPS

ReleasesTyped == releases \in [StandardJobs -> Releases]
JobsTyped == job \in [Jobs -> Progress]
SentTyped == sent \in [Jobs -> [Subjects -> Nat]]
TagTyped == tagRef \in {"absent", "exact", "conflict"}

\* A release keeps the shape of a release, whichever field GitHub changes.
LEMMA ReleaseFields ==
    ASSUME ReleasesTyped, NEW i \in StandardJobs
    PROVE  /\ [releases[i] EXCEPT !.state = "draft"] \in Releases
           /\ \A x \in BOOLEAN :
                 [releases[i] EXCEPT !.state = "published", !.immutable = x] \in Releases
           /\ \A a \in Assets : [releases[i] EXCEPT !.assets = @ \cup {a}] \in Releases
           /\ \A a \in Assets : [releases[i] EXCEPT !.assets =
                                    {b \in @ : b.name # a.name} \cup {a}] \in Releases
           /\ [releases[i] EXCEPT !.text = "edited"] \in Releases
           /\ \A t \in Texts : [releases[i] EXCEPT !.text = t, !.full = TRUE] \in Releases
BY DEF ReleasesTyped, Releases, States, Texts

\* A mutation that GitHub applies, whenever it does, leaves well-formed releases.
LEMMA ApplyTyped ==
    ASSUME ReleasesTyped, TagTyped, NEW q \in Requests, Apply(q)
    PROVE  ReleasesTyped' /\ TagTyped'
<1>0. TagTyped'
  BY DEF TagTyped, Apply
<1>1. PICK x \in Immutability : releases' = Effect(q, x)
  BY DEF Apply
<1>2. x \in BOOLEAN
  BY ImmutabilityAssumption
<1>3. q.mutation \in Mutations /\ q.text \in Texts
  BY DEF Requests
<1>4. None \notin StandardJobs
  BY NoneIsNothing DEF Jobs
<1>5. CASE q.mutation = "release_create"
  <2>1. releases' = [releases EXCEPT ![q.job].state = "draft"]
    BY <1>1, <1>5 DEF Effect
  <2> QED
    BY <2>1, <1>0, ReleaseFields DEF ReleasesTyped
<1>6. CASE q.mutation = "asset_upload"
  <2>1. releases' = [releases EXCEPT ![q.id].assets =
                        {a \in @ : a.name # q.asset.name} \cup {q.asset}]
    BY <1>1, <1>6 DEF Effect
  <2>2. q.asset \in Assets
    BY <1>6 DEF Requests
  <2> QED
    BY <2>1, <2>2, <1>0, ReleaseFields DEF ReleasesTyped
<1>7. CASE q.mutation = "release_publish"
  <2>1. releases' = Publish(q, x)
    BY <1>1, <1>7 DEF Effect
  <2> QED
    BY <2>1, <1>0, <1>2, ReleaseFields DEF ReleasesTyped, Publish
<1>8. CASE q.mutation = "release_notes_patch"
  <2>1. releases' = ShowFull(q)
    BY <1>1, <1>8 DEF Effect
  <2> QED
    BY <2>1, <1>0, <1>3, ReleaseFields DEF ReleasesTyped, ShowFull
<1> QED
  BY <1>3, <1>5, <1>6, <1>7, <1>8 DEF Mutations

\* A job keeps a well-formed record at each kind of move it makes.
LEMMA GotoTyped ==
    ASSUME JobsTyped, NEW j \in Jobs, NEW p \in PCs \ {"upload"}, Goto(j, p)
    PROVE  JobsTyped'
<1>p. job[j] \in Progress
  BY DEF JobsTyped
<1>1. [job[j] EXCEPT !.pc = p] \in Progress
  BY <1>p DEF Progress
<1> QED
  BY <1>1 DEF JobsTyped, Goto

LEMMA FinishTyped ==
    ASSUME JobsTyped, NEW j \in Jobs, NEW v \in Verdicts, Finish(j, v)
    PROVE  JobsTyped'
<1>d. "done" \in PCs \ {"upload"}
  BY DEF PCs
<1>p. job[j] \in Progress
  BY DEF JobsTyped
<1>1. [job[j] EXCEPT !.pc = "done", !.verdict = v] \in Progress
  BY <1>d, <1>p DEF Progress
<1> QED
  BY <1>1 DEF JobsTyped, Finish

LEMMA StartTyped ==
    ASSUME JobsTyped, NEW j \in Jobs, NEW m \in Modes,
           NEW i \in StandardJobs \cup {None},
           job' = [job EXCEPT ![j].pc = "inspect", ![j].mode = m, ![j].id = i]
    PROVE  JobsTyped'
<1>d. "inspect" \in PCs \ {"upload"}
  BY DEF PCs
<1>p. job[j] \in Progress
  BY DEF JobsTyped
<1>1. [job[j] EXCEPT !.pc = "inspect", !.mode = m, !.id = i] \in Progress
  BY <1>d, <1>p DEF Progress
<1> QED
  BY <1>1 DEF JobsTyped

LEMMA TrackTyped ==
    ASSUME JobsTyped, NEW j \in Jobs, NEW i \in StandardJobs, Track(j, i)
    PROVE  JobsTyped'
<1>d. "check" \in PCs \ {"upload"}
  BY DEF PCs
<1>p. job[j] \in Progress
  BY DEF JobsTyped
<1>0. Plan[j] \in SUBSET Assets
  BY DEF Assets
<1>1. [job[j] EXCEPT !.pc = "check", !.id = i, !.todo = Plan[j]] \in Progress
  BY <1>d, <1>p, <1>0 DEF Progress
<1> QED
  BY <1>1 DEF JobsTyped, Track

LEMMA CaptureTyped ==
    ASSUME JobsTyped, ReleasesTyped, NEW j \in Jobs, NEW i \in StandardJobs, Capture(j, i)
    PROVE  JobsTyped'
<1>d. "check" \in PCs \ {"upload"}
  BY DEF PCs
<1>0. Plan[j] \in SUBSET Assets
  BY DEF Assets
<1>1. releases[i].text \in Texts /\ releases[i].full \in BOOLEAN
  BY DEF ReleasesTyped, Releases
<1>2. job[j] \in Progress
  BY DEF JobsTyped
<1>3. ASSUME NEW t \in Texts, NEW f \in BOOLEAN
      PROVE  [job[j] EXCEPT !.pc = "check", !.todo = Plan[j], !.text = t, !.full = f]
                 \in Progress
  BY <1>d, <1>0, <1>2 DEF Progress
<1> QED
  BY <1>1, <1>3 DEF JobsTyped, Capture

LEMMA LoopTyped ==
    ASSUME JobsTyped, NEW j \in Jobs
    PROVE  /\ \A a \in Assets :
                 /\ [job EXCEPT ![j].todo = @ \ {a}] \in [Jobs -> Progress]
                 /\ [job EXCEPT ![j].pc = "upload", ![j].asset = a] \in [Jobs -> Progress]
           /\ [job EXCEPT ![j].pc = "check", ![j].todo = @ \ {job[j].asset}]
                 \in [Jobs -> Progress]
<1>d. "check" \in PCs \ {"upload"} /\ "upload" \in PCs
  BY DEF PCs
<1>p. job[j] \in Progress
  BY DEF JobsTyped
<1>1. \A a \in Assets :
        /\ [job[j] EXCEPT !.todo = @ \ {a}] \in Progress
        /\ [job[j] EXCEPT !.pc = "upload", !.asset = a] \in Progress
  BY <1>d, <1>p DEF Progress
<1>2. [job[j] EXCEPT !.pc = "check", !.todo = @ \ {job[j].asset}] \in Progress
  BY <1>d, <1>p DEF Progress
<1> QED
  BY <1>1, <1>2 DEF JobsTyped

\* What a job sends is a request.
LEMMA RequestTyped ==
    ASSUME JobsTyped, NEW j \in Jobs, NEW m \in Mutations,
           NEW i \in StandardJobs \cup {None}, NEW a \in Assets \cup {None},
           m = "asset_upload" => a \in Assets
    PROVE  Request(j, m, i, a) \in Requests
<1>1. job[j].text \in Texts
  BY DEF JobsTyped, Progress
<1> QED
  BY <1>1 DEF Request, Requests

\* runGitHubMutation keeps the types, whatever GitHub answers.
LEMMA MutateTyped ==
    ASSUME TypeOK, NEW j \in Jobs, NEW q \in Requests, NEW p \in PCs \ {"upload"},
           Mutate(j, q, p)
    PROVE  TypeOK'
<1>0. ReleasesTyped /\ TagTyped /\ JobsTyped /\ SentTyped /\ late \subseteq Requests
  BY DEF TypeOK, ReleasesTyped, TagTyped, JobsTyped, SentTyped
<1>1. {"outcome_unknown", "deadline_elapsed", "rejected"} \subseteq Verdicts
  BY DEF Verdicts
<1>2. CASE Elapsed(j)
  <2>1. JobsTyped'
    BY <1>0, <1>1, <1>2, FinishTyped DEF Elapsed
  <2> QED
    BY <2>1, <1>2 DEF Elapsed, NoMutation, TypeOK, JobsTyped
<1>3. CASE /\ sent' = [sent EXCEPT ![j][Subject(q)] = @ + 1]
           /\ Rejected(j, q) \/ NoReply(j, q) \/ Accepted(j, q, p)
  <2>1. Subject(q) \in Subjects
    BY DEF Subject, Subjects, Requests
  <2>2. SentTyped'
    <3>1. sent[j] \in [Subjects -> Nat]
      BY <1>0 DEF SentTyped
    <3>2. [sent[j] EXCEPT ![Subject(q)] = @ + 1] \in [Subjects -> Nat]
      BY <3>1, <2>1
    <3>3. sent' = [sent EXCEPT ![j] = [sent[j] EXCEPT ![Subject(q)] = @ + 1]]
      BY <1>3
    <3> QED
      BY <3>2, <3>3, <1>0 DEF SentTyped
  <2>3. JobsTyped'
    BY <1>0, <1>1, <1>3, FinishTyped, GotoTyped
       DEF Rejected, NoReply, Accepted, AfterUnknown
  <2>4. ReleasesTyped' /\ TagTyped'
    <3>1. CASE Apply(q)
      BY <3>1, <1>0, ApplyTyped
    <3>2. CASE UNCHANGED <<releases, tagRef>>
      BY <3>2, <1>0 DEF ReleasesTyped, TagTyped
    <3> QED
      BY <1>3, <3>1, <3>2 DEF Rejected, NoReply, Accepted
  <2>5. late' \subseteq Requests
    BY <1>0, <1>3 DEF Rejected, NoReply, Accepted
  <2> QED
    BY <2>2, <2>3, <2>4, <2>5
       DEF TypeOK, ReleasesTyped, TagTyped, JobsTyped, SentTyped
<1> QED
  BY <1>2, <1>3 DEF Mutate

\* Steps that only read leave everything but the job's record as it was.
LEMMA QuietTyped ==
    ASSUME TypeOK, NoMutation, JobsTyped'
    PROVE  TypeOK'
BY DEF TypeOK, NoMutation, JobsTyped

\* A failed read, and a check with two verdicts, keep the job's record typed.
LEMMA ReadTyped ==
    ASSUME TypeOK, NEW j \in Jobs, NEW v \in Verdicts
    PROVE  /\ ReadFails(j, v) => TypeOK'
           /\ \A p \in PCs \ {"upload"}, holds \in BOOLEAN :
                 Verified(j, holds, p, v) => TypeOK'
<1>0. JobsTyped
  BY DEF TypeOK, JobsTyped
<1>1. ASSUME ReadFails(j, v) PROVE TypeOK'
  BY <1>0, <1>1, FinishTyped, QuietTyped DEF ReadFails
<1>2. ASSUME NEW p \in PCs \ {"upload"}, NEW holds \in BOOLEAN, Verified(j, holds, p, v)
      PROVE  TypeOK'
  BY <1>0, <1>2, FinishTyped, GotoTyped, QuietTyped DEF Verified
<1> QED
  BY <1>1, <1>2

LEMMA SettleTyped ==
    ASSUME JobsTyped, NEW j \in Jobs, NEW i \in StandardJobs, Settle(j, i)
    PROVE  JobsTyped'
<1>1. {"complete", "failed"} \subseteq Verdicts
  BY DEF Verdicts
<1> QED
  BY <1>1, TrackTyped, FinishTyped DEF Settle

LEMMA EnsureTyped ==
    ASSUME TypeOK, NEW j \in Jobs, Ensure(j)
    PROVE  TypeOK'
<1>0. JobsTyped /\ ByTag \subseteq StandardJobs
  BY DEF TypeOK, JobsTyped, ByTag, Published, Drafts
<1>1. JobsTyped'
  BY <1>0, SettleTyped, GotoTyped DEF Ensure, PCs
<1> QED
  BY <1>1, QuietTyped DEF Ensure

LEMMA TypeInit == Init => TypeOK
<1>1. Absent \in Releases
  BY DEF Absent, Releases, States, Texts
<1>2. Idle \in Progress
  BY DEF Idle, Progress, PCs, Texts, Verdicts
<1> SUFFICES ASSUME Init, TagRefs \subseteq {"absent", "exact", "conflict"} PROVE TypeOK
  BY TagRefsAssumption
<1> QED
  BY <1>1, <1>2 DEF Init, TypeOK

\* Every step keeps the types.
LEMMA TypeNext == TypeOK /\ [Next]_vars => TypeOK'
<1> SUFFICES ASSUME TypeOK, [Next]_vars PROVE TypeOK'
  OBVIOUS
<1>0. ReleasesTyped /\ TagTyped /\ JobsTyped /\ SentTyped
  BY DEF TypeOK, ReleasesTyped, TagTyped, JobsTyped, SentTyped
<1>v. {"complete", "readonly", "failed", "outcome_unknown", "crashed"} \subseteq Verdicts
  BY DEF Verdicts
<1>p. {"tagref", "create", "created", "reinspect", "uploaded", "publish", "published",
       "patch", "patched"} \subseteq PCs \ {"upload"}
  BY DEF PCs
<1>t. ByTag \subseteq StandardJobs /\ Published \subseteq StandardJobs
  BY DEF ByTag, Published, Drafts
<1>m. {"release_create", "release_publish", "release_notes_patch"} \subseteq Mutations
  BY DEF Mutations
<1>i. \A j \in Jobs : job[j].id \in StandardJobs \cup {None}
  BY <1>0 DEF JobsTyped, Progress
<1>1. ASSUME NEW j \in Jobs, Start(j) PROVE TypeOK'
  BY <1>0, <1>1, <1>t, StartTyped, QuietTyped DEF Start
<1>2. ASSUME NEW j \in Jobs, Crash(j) PROVE TypeOK'
  BY <1>0, <1>2, <1>v, FinishTyped, QuietTyped DEF Crash
<1>3. ASSUME NEW j \in Jobs, Inspect(j) PROVE TypeOK'
  <2>1. ASSUME NEW readOk \in BOOLEAN, InspectStandard(j, readOk) PROVE TypeOK'
    BY <1>0, <2>1, <1>v, <1>p, FinishTyped, GotoTyped, QuietTyped, EnsureTyped
       DEF InspectStandard
  <2> QED
    BY <1>3, <2>1 DEF Inspect
<1>4. ASSUME NEW j \in Jobs, Reinspect(j) PROVE TypeOK'
  BY <1>4, <1>v, EnsureTyped, ReadTyped DEF Reinspect
<1>5. ASSUME NEW j \in Jobs, InspectTagRef(j) PROVE TypeOK'
  BY <1>5, <1>v, <1>p, ReadTyped DEF InspectTagRef
<1>6. ASSUME NEW j \in Jobs, CreateRelease(j) PROVE TypeOK'
  <2>1. Request(j, "release_create", None, None) \in Requests
    BY <1>0, <1>m, RequestTyped
  <2> QED
    BY <1>6, <2>1, <1>p, MutateTyped DEF CreateRelease
<1>7. ASSUME NEW j \in Jobs, ReadCreated(j) PROVE TypeOK'
  BY <1>0, <1>7, <1>v, SettleTyped, QuietTyped, ReadTyped DEF ReadCreated
<1>8. ASSUME NEW j \in Jobs, CheckAsset(j) PROVE TypeOK'
  <2>1. CASE ReadFails(j, "failed")
    BY <2>1, <1>v, ReadTyped
  <2>2. ASSUME NoMutation, NEW a \in job[j].todo,
               IF ~MayUpload(j) THEN Finish(j, "failed")
               ELSE IF a \in releases[job[j].id].assets THEN Skip(j, a)
               ELSE job' = [job EXCEPT ![j].pc = "upload", ![j].asset = a]
        PROVE  TypeOK'
    <3>1. a \in Assets
      BY <1>0 DEF JobsTyped, Progress
    <3>2. ASSUME Finish(j, "failed") PROVE JobsTyped'
      BY <1>0, <3>2, <1>v, FinishTyped
    <3>3. ASSUME \/ Skip(j, a)
                 \/ job' = [job EXCEPT ![j].pc = "upload", ![j].asset = a]
          PROVE  JobsTyped'
      <4>1. /\ [job EXCEPT ![j].todo = @ \ {a}] \in [Jobs -> Progress]
            /\ [job EXCEPT ![j].pc = "upload", ![j].asset = a] \in [Jobs -> Progress]
        BY <1>0, <3>1, LoopTyped
      <4>2. job' \in [Jobs -> Progress]
        BY <3>3, <4>1, Zenon DEF Skip
      <4> QED
        BY <4>2 DEF JobsTyped
    <3>4. JobsTyped'
      BY <2>2, <3>2, <3>3
    <3> QED
      BY <2>2, <3>4, QuietTyped
  <2> QED
    BY <1>8, <2>1, <2>2 DEF CheckAsset
<1>9. ASSUME NEW j \in Jobs, UploadAsset(j) PROVE TypeOK'
  <2>1. PICK i \in UploadTargets(j) :
          Mutate(j, Request(j, "asset_upload", i, job[j].asset), "uploaded")
    BY <1>9 DEF UploadAsset
  <2>2. i \in StandardJobs \cup {None}
    BY <1>t DEF UploadTargets
  <2>3. job[j].asset \in Assets
    BY <1>0, <1>9 DEF UploadAsset, JobsTyped, Progress
  <2>4. Request(j, "asset_upload", i, job[j].asset) \in Requests
    BY <1>0, <2>2, <2>3, RequestTyped DEF Mutations
  <2> QED
    BY <2>1, <2>4, <1>p, MutateTyped
<1>10. ASSUME NEW j \in Jobs, ReadUploaded(j) PROVE TypeOK'
  <2>1. CASE ReadFails(j, "outcome_unknown")
    BY <2>1, <1>v, ReadTyped
  <2>2. CASE ~ReadFails(j, "outcome_unknown")
    <3>1. JobsTyped'
      <4>1. CASE \E v \in Verdicts : Finish(j, v)
        BY <1>0, <4>1, FinishTyped
      <4>2. CASE job' = [job EXCEPT ![j].pc = "check", ![j].todo = @ \ {job[j].asset}]
        BY <1>0, <4>2, LoopTyped DEF JobsTyped
      <4> QED
        BY <1>10, <2>2, <1>v, <4>1, <4>2 DEF ReadUploaded
    <3> QED
      BY <1>10, <2>2, <3>1, QuietTyped DEF ReadUploaded
  <2> QED
    BY <2>1, <2>2
<1>11. ASSUME NEW j \in Jobs, InspectDraft(j) PROVE TypeOK'
  BY <1>11, <1>v, <1>p, ReadTyped DEF InspectDraft, ReadyToPublish, HasIdentity
<1>12. ASSUME NEW j \in Jobs, PublishDraft(j) PROVE TypeOK'
  <2>1. Request(j, "release_publish", job[j].id, None) \in Requests
    BY <1>0, <1>i, <1>m, RequestTyped
  <2> QED
    BY <1>12, <2>1, <1>p, MutateTyped DEF PublishDraft
<1>13. ASSUME NEW j \in Jobs, ReadPublished(j) PROVE TypeOK'
  BY <1>0, <1>13, <1>v, FinishTyped, QuietTyped, ReadTyped DEF ReadPublished
<1>14. ASSUME NEW j \in Jobs, InspectFull(j) PROVE TypeOK'
  BY <1>0, <1>14, <1>v, <1>t, FinishTyped, CaptureTyped, QuietTyped, ReadTyped
     DEF InspectFull
<1>15. ASSUME NEW j \in Jobs, InspectFinal(j) PROVE TypeOK'
  BY <1>0, <1>15, <1>v, <1>p, FinishTyped, GotoTyped, QuietTyped, ReadTyped
     DEF InspectFinal
<1>16. ASSUME NEW j \in Jobs, PatchNotes(j) PROVE TypeOK'
  <2>1. Request(j, "release_notes_patch", job[j].id, None) \in Requests
    BY <1>0, <1>i, <1>m, RequestTyped
  <2> QED
    BY <1>16, <2>1, <1>p, MutateTyped DEF PatchNotes
<1>17. ASSUME NEW j \in Jobs, ReadNotes(j) PROVE TypeOK'
  BY <1>0, <1>17, <1>v, FinishTyped, QuietTyped, ReadTyped DEF ReadNotes
<1>18. ASSUME NEW q \in late, Land(q) PROVE TypeOK'
  <2>1. q \in Requests
    BY DEF TypeOK
  <2>2. ReleasesTyped' /\ TagTyped'
    BY <1>0, <1>18, <2>1, ApplyTyped DEF Land
  <2> QED
    BY <1>18, <2>2 DEF Land, TypeOK, ReleasesTyped, TagTyped
<1>19. ASSUME NEW q \in late, Drop(q) PROVE TypeOK'
  BY <1>19 DEF Drop, TypeOK
<1>20. ASSUME NEW i \in StandardJobs, EditNotes(i) PROVE TypeOK'
  <2>0. [releases[i] EXCEPT !.text = "edited"] \in Releases
    BY <1>0, ReleaseFields
  <2>1. ReleasesTyped'
    BY <1>0, <1>20, <2>0 DEF EditNotes, ReleasesTyped
  <2> QED
    BY <1>20, <2>1 DEF EditNotes, TypeOK, ReleasesTyped
<1>21. ASSUME NEW i \in StandardJobs, NEW a \in Followers, AppendFollower(i, a)
       PROVE  TypeOK'
  <2>0. a \in Assets
    BY DEF Assets
  <2>1. [releases[i] EXCEPT !.assets = @ \cup {a}] \in Releases
    BY <1>0, <2>0, ReleaseFields
  <2>2. ReleasesTyped'
    BY <1>0, <1>21, <2>1 DEF AppendFollower, ReleasesTyped
  <2> QED
    BY <1>21, <2>2 DEF AppendFollower, TypeOK, ReleasesTyped
<1>22. CASE UNCHANGED vars
  BY <1>22 DEF vars, TypeOK
<1> QED
  BY <1>1, <1>2, <1>3, <1>4, <1>5, <1>6, <1>7, <1>8, <1>9, <1>10, <1>11, <1>12, <1>13,
     <1>14, <1>15, <1>16, <1>17, <1>18, <1>19, <1>20, <1>21, <1>22
     DEF Next, JobStep, StandardStep, FullStep, LoopStep

\* The types, for every number of jobs.
THEOREM TypeCorrect == Spec => []TypeOK
<1>1. Init => TypeOK
  BY TypeInit
<1>2. TypeOK /\ [Next]_vars => TypeOK'
  BY TypeNext
<1> QED
  BY <1>1, <1>2, PTL DEF Spec
-----------------------------------------------------------------------------
(* The inductive invariant.  A job reads the exact set, and PATCHes in a    *)
(* later step: what it read must survive until GitHub acts on the PATCH,    *)
(* also when its caller gave up.  A Standard job past its first inspection  *)
(* tracks one release.                                                      *)
Tracking ==
    \A j \in StandardJobs :
        job[j].pc \in {"check", "upload", "uploaded"} => job[j].id \in StandardJobs

IInv == TypeOK /\ PublishedIsExact /\ PublishIsChecked /\ Tracking

\* A release whose Standard part is one build has no free Standard name, so
\* whatever GitHub still accepts leaves that part alone.
LEMMA NoFreeName ==
    ASSUME NEW i \in StandardJobs, HoldsOneBuild(i), NEW a,
           a.name \notin NamesOf(releases[i].assets)
    PROVE  a.name \notin Names
<1>1. PICK j \in StandardJobs : StandardPart(i) = Plan[j]
  BY DEF HoldsOneBuild, Bundles
<1>2. NamesOf(Plan[j]) = Names
  BY StandardPlans
<1> QED
  BY <1>1, <1>2 DEF StandardPart, NamesOf

\* One request at GitHub: what holds one build keeps it, what was public stays
\* public, and only a checked release can become public.
LEMMA ApplyKeeps ==
    ASSUME ReleasesTyped, PublishedIsExact, NEW q \in Requests, Apply(q),
           q.mutation = "release_publish" => HoldsOneBuild(q.id)
    PROVE  /\ \A i \in StandardJobs :
                 HoldsOneBuild(i) => HoldsOneBuild(i)' /\ StandardPart(i)' = StandardPart(i)
           /\ Published \subseteq Published'
           /\ PublishedIsExact'
<1>0. PICK x \in Immutability : releases' = Effect(q, x)
  BY DEF Apply
<1>a. Applicable(q)
  BY DEF Apply
<1>m. q.mutation \in Mutations
  BY DEF Requests
<1>s. \A i \in StandardJobs : releases[i].state \in States
  BY DEF ReleasesTyped, Releases
<1>p. \A i \in Published : HoldsOneBuild(i)
  BY DEF Published, PublishedIsExact, HoldsOneBuild
<1>1. CASE q.mutation = "release_create"
  <2>1. releases' = [releases EXCEPT ![q.job].state = "draft"]
    BY <1>0, <1>1 DEF Effect
  <2>2. releases[q.job].state = "absent"
    BY <1>a, <1>1 DEF Applicable
  <2>3. \A i \in StandardJobs :
          /\ releases'[i].assets = releases[i].assets
          /\ releases[i].state # "absent" => releases'[i].state = releases[i].state
          /\ releases'[i].state = "published" => releases[i].state = "published"
    BY <2>1, <2>2 DEF ReleasesTyped, Releases
  <2> QED
    BY <2>3 DEF HoldsOneBuild, StandardPart, Published, PublishedIsExact
<1>2. CASE q.mutation = "asset_upload"
  <2>1. releases' = [releases EXCEPT ![q.id].assets =
                        {a \in @ : a.name # q.asset.name} \cup {q.asset}]
    BY <1>0, <1>2 DEF Effect
  <2>2. q.asset.name \notin NamesOf(releases[q.id].assets)
    BY <1>a, <1>2 DEF Applicable, CanUpload, Clobbers
  <2>3. \A i \in StandardJobs : releases'[i].state = releases[i].state
    BY <2>1 DEF ReleasesTyped, Releases
  <2>4. \A i \in StandardJobs : HoldsOneBuild(i) => StandardPart(i)' = StandardPart(i)
    <3> SUFFICES ASSUME NEW i \in StandardJobs, HoldsOneBuild(i)
                 PROVE  StandardPart(i)' = StandardPart(i)
      OBVIOUS
    <3>1. CASE i = q.id
      <4>1. q.asset.name \notin Names
        BY <2>2, <3>1, NoFreeName
      <4>2. releases'[i].assets =
               {a \in releases[i].assets : a.name # q.asset.name} \cup {q.asset}
        BY <2>1, <3>1 DEF ReleasesTyped, Releases
      <4> QED
        BY <4>1, <4>2 DEF StandardPart
    <3>2. CASE i # q.id
      <4>1. releases'[i].assets = releases[i].assets
        BY <2>1, <3>2 DEF ReleasesTyped, Releases
      <4> QED
        BY <4>1 DEF StandardPart
    <3> QED
      BY <3>1, <3>2
  <2>5. Published' = Published
    BY <2>3 DEF Published
  <2>6. \A i \in StandardJobs : HoldsOneBuild(i) => HoldsOneBuild(i)'
    BY <2>3, <2>4 DEF HoldsOneBuild
  <2>7. PublishedIsExact'
    <3>1. \A i \in Published : StandardPart(i)' = StandardPart(i)
      BY <2>4, <1>p DEF Published
    <3>2. \A i \in Published : StandardPart(i)' \in Bundles
      BY <3>1 DEF PublishedIsExact
    <3> QED
      BY <2>5, <3>2 DEF PublishedIsExact
  <2>8. Published \subseteq Published'
    BY <2>5
  <2> QED
    BY <2>4, <2>6, <2>7, <2>8
<1>3. CASE q.mutation = "release_publish"
  <2>1. releases' = Publish(q, x)
    BY <1>0, <1>3 DEF Effect
  <2>2. HoldsOneBuild(q.id)
    BY <1>3
  <2>3. \A i \in StandardJobs :
          /\ releases'[i].assets = releases[i].assets
          /\ releases'[i].state = IF i = q.id THEN "published" ELSE releases[i].state
    BY <2>1, <2>2 DEF Publish, ReleasesTyped, Releases, HoldsOneBuild
  <2>4. Published' = Published \cup {q.id}
    BY <2>2, <2>3 DEF Published, HoldsOneBuild
  <2>5. Published \subseteq {q.id}
    <3>1. CanPublish(q)
      BY <1>a, <1>3 DEF Applicable
    <3>2. releases[q.id].state = "published" => q.id \in Published
      BY <2>2 DEF Published, HoldsOneBuild
    <3> QED
      BY <3>1, <3>2 DEF CanPublish, PublishedIsExact
  <2>6. \A i \in StandardJobs : StandardPart(i)' = StandardPart(i)
    BY <2>3 DEF StandardPart
  <2>7. \A i \in StandardJobs : HoldsOneBuild(i) => HoldsOneBuild(i)'
    BY <2>3, <2>6 DEF HoldsOneBuild
  <2>8. PublishedIsExact'
    BY <2>2, <2>4, <2>5, <2>6 DEF PublishedIsExact, HoldsOneBuild
  <2> QED
    BY <2>4, <2>6, <2>7, <2>8
<1>4. CASE q.mutation = "release_notes_patch"
  <2>1. releases' = ShowFull(q)
    BY <1>0, <1>4 DEF Effect
  <2>2. \A i \in StandardJobs :
          /\ releases'[i].assets = releases[i].assets
          /\ releases'[i].state = releases[i].state
    BY <2>1 DEF ShowFull, ReleasesTyped, Releases
  <2> QED
    BY <2>2 DEF HoldsOneBuild, StandardPart, Published, PublishedIsExact
<1> QED
  BY <1>m, <1>1, <1>2, <1>3, <1>4 DEF Mutations

\* Where one job moves to, and the release it tracks; the other jobs stay.
Moves(j, pc, i) ==
    /\ job'[j].pc = pc /\ job'[j].id = i
    /\ \A k \in Jobs \ {j} : job'[k] = job[k]

LEMMA MovesFacts ==
    ASSUME JobsTyped, NEW j \in Jobs
    PROVE  /\ \A p : Goto(j, p) => Moves(j, p, job[j].id)
           /\ \A v : Finish(j, v) => Moves(j, "done", job[j].id)
           /\ \A i : Track(j, i) => Moves(j, "check", i)
           /\ \A i : Capture(j, i) => Moves(j, "check", job[j].id)
<1> USE DEF JobsTyped, Progress, Moves
<1>1. \A p : Goto(j, p) => Moves(j, p, job[j].id)
  BY DEF Goto
<1>2. \A v : Finish(j, v) => Moves(j, "done", job[j].id)
  BY DEF Finish
<1>3. \A i : Track(j, i) => Moves(j, "check", i)
  BY DEF Track
<1>4. \A i : Capture(j, i) => Moves(j, "check", job[j].id)
  BY DEF Capture
<1> QED
  BY <1>1, <1>2, <1>3, <1>4

Strong == PublishedIsExact /\ PublishIsChecked /\ Tracking

\* The releases that hold one build, as a set.
OneBuilds == {i \in StandardJobs : HoldsOneBuild(i)}

Checked ==
    /\ \A j \in Jobs : job[j].pc = "publish" => job[j].id \in OneBuilds
    /\ \A q \in late : q.mutation = "release_publish" => q.id \in OneBuilds

LEMMA CheckedIsChecked == PublishIsChecked <=> Checked
BY DEF PublishIsChecked, Checked, OneBuilds, HoldsOneBuild

\* What holds one build keeps it, and what is public stays public, in a step
\* that touches the releases.
Preserves ==
    /\ OneBuilds \subseteq OneBuilds'
    /\ \A i \in OneBuilds : StandardPart(i)' = StandardPart(i)
    /\ Published \subseteq Published'
    /\ PublishedIsExact'

LEMMA SameReleases ==
    ASSUME PublishedIsExact, UNCHANGED releases
    PROVE  Preserves
BY DEF Preserves, PublishedIsExact, Published, OneBuilds, HoldsOneBuild, StandardPart

\* A step that preserves the releases, moves one job soundly and leaves pending
\* only requests that were pending or are checked.
LEMMA StepKeeps ==
    ASSUME Strong, Preserves, NEW j \in Jobs, NEW p, NEW i, Moves(j, p, i),
           p = "publish" => i \in OneBuilds,
           j \in StandardJobs /\ p \in {"check", "upload", "uploaded"} => i \in StandardJobs,
           \A r \in late' : r \in late \/ (r.mutation = "release_publish" => r.id \in OneBuilds)
    PROVE  Strong'
<1>0. Checked
  BY CheckedIsChecked DEF Strong
<1>1. Checked'
  BY <1>0 DEF Checked, Moves, Preserves
<1>2. PublishIsChecked'
  BY <1>1, CheckedIsChecked, PTL
<1>3. Tracking'
  BY DisjointJobs DEF Strong, Tracking, Moves, Jobs
<1> QED
  BY <1>2, <1>3 DEF Strong, Preserves

\* One call of `gh` that mutates, whatever its outcome.
LEMMA MutateKeeps ==
    ASSUME TypeOK, Strong, NEW j \in Jobs, NEW q \in Requests, NEW p, Mutate(j, q, p),
           q.mutation = "release_publish" => q.id \in OneBuilds,
           p # "publish",
           j \in StandardJobs /\ p \in {"check", "upload", "uploaded"} => job[j].id \in StandardJobs
    PROVE  Strong' /\ Preserves
<1>0. JobsTyped /\ ReleasesTyped /\ PublishedIsExact
  BY DEF TypeOK, JobsTyped, ReleasesTyped, Strong
<1>1. Apply(q) => Preserves
  <2>1. q.mutation = "release_publish" => HoldsOneBuild(q.id)
    BY DEF OneBuilds
  <2> QED
    BY <1>0, <2>1, ApplyKeeps DEF Preserves, OneBuilds
<1>2. UNCHANGED releases => Preserves
  BY <1>0, SameReleases
<1>3. Preserves /\ (\A r \in late' : r \in late \/ r = q)
  BY <1>1, <1>2 DEF Mutate, Elapsed, Rejected, NoReply, Accepted, NoMutation
<1>4. \A r \in late' : r \in late \/ (r.mutation = "release_publish" => r.id \in OneBuilds)
  BY <1>3
<1>5. Goto(j, p) \/ (\E v : Finish(j, v))
  BY DEF Mutate, Elapsed, Rejected, NoReply, Accepted, AfterUnknown
<1>6. CASE Goto(j, p)
  <2>1. Moves(j, p, job[j].id)
    BY <1>0, <1>6, MovesFacts
  <2> QED
    BY <2>1, <1>3, <1>4, StepKeeps
<1>7. CASE \E v : Finish(j, v)
  <2>1. Moves(j, "done", job[j].id)
    BY <1>0, <1>7, MovesFacts
  <2> QED
    BY <2>1, <1>3, <1>4, StepKeeps
<1> QED
  BY <1>5, <1>6, <1>7

\* A step of a job that reads, or fails, and goes to a place its checks allow.
QuietMove(j) ==
    /\ NoMutation
    /\ \E p, i :
          /\ Moves(j, p, i)
          /\ p = "publish" => i \in OneBuilds
          /\ j \in StandardJobs /\ p \in {"check", "upload", "uploaded"} => i \in StandardJobs

LEMMA QuietKeeps ==
    ASSUME Strong, NEW j \in Jobs, QuietMove(j)
    PROVE  Strong' /\ Preserves
<1>1. Preserves /\ (\A r \in late' : r \in late)
  BY SameReleases DEF QuietMove, NoMutation, Strong
<1>2. PICK p, i :
          /\ Moves(j, p, i)
          /\ p = "publish" => i \in OneBuilds
          /\ j \in StandardJobs /\ p \in {"check", "upload", "uploaded"} => i \in StandardJobs
  BY DEF QuietMove
<1> QED
  BY <1>1, <1>2, StepKeeps

LEMMA QuietMoves ==
    ASSUME JobsTyped, Strong, NEW j \in Jobs
    PROVE  /\ \A v : Finish(j, v) /\ NoMutation => QuietMove(j)
           /\ \A p : /\ Goto(j, p) /\ NoMutation
                    /\ p \notin {"publish", "check", "upload", "uploaded"}
                    => QuietMove(j)
           /\ \A i \in StandardJobs : Track(j, i) /\ NoMutation => QuietMove(j)
           /\ \A i \in StandardJobs : Settle(j, i) /\ NoMutation => QuietMove(j)
           /\ \A v : ReadFails(j, v) => QuietMove(j)
<1>1. ASSUME NEW v, Finish(j, v), NoMutation PROVE QuietMove(j)
  <2>1. Moves(j, "done", job[j].id)
    BY <1>1, MovesFacts
  <2> QED
    BY <2>1, <1>1 DEF QuietMove
<1>2. ASSUME NEW p, Goto(j, p), NoMutation, p \notin {"publish", "check", "upload", "uploaded"}
      PROVE  QuietMove(j)
  <2>1. Moves(j, p, job[j].id)
    BY <1>2, MovesFacts
  <2> QED
    BY <2>1, <1>2 DEF QuietMove
<1>3. ASSUME NEW i \in StandardJobs, Track(j, i), NoMutation PROVE QuietMove(j)
  <2>1. Moves(j, "check", i)
    BY <1>3, MovesFacts
  <2> QED
    BY <2>1, <1>3 DEF QuietMove
<1>4. ASSUME NEW i \in StandardJobs, Settle(j, i), NoMutation PROVE QuietMove(j)
  BY <1>1, <1>3, <1>4 DEF Settle
<1>5. ASSUME NEW v, ReadFails(j, v) PROVE QuietMove(j)
  BY <1>1, <1>5 DEF ReadFails
<1> QED
  BY <1>1, <1>2, <1>3, <1>4, <1>5

\* A draft that passed the exact check of publishDraftRelease holds one build.
LEMMA ExactIsOneBuild ==
    ASSUME NEW j \in StandardJobs, NEW i \in StandardJobs,
           HasIdentity(i, "draft"), ExactPlan(j, i)
    PROVE  i \in OneBuilds
<1>1. NamesOf(Plan[j]) = Names /\ \A a, b \in Plan[j] : a.name = b.name => a = b
  BY StandardPlans
<1>2. releases[i].assets \subseteq Plan[j]
  BY DEF ExactPlan, WithinPlan
<1>3. ASSUME NEW a \in Plan[j] PROVE a \in releases[i].assets
  <2>1. PICK b \in releases[i].assets : b.name = a.name
    BY DEF ExactPlan, NamesOf
  <2> QED
    BY <2>1, <1>1, <1>2
<1>4. \A a \in Plan[j] : a.name \in Names
  BY <1>1 DEF NamesOf
<1>5. StandardPart(i) = Plan[j]
  BY <1>2, <1>3, <1>4 DEF StandardPart
<1> QED
  BY <1>5 DEF OneBuilds, HoldsOneBuild, Bundles, HasIdentity

LEMMA EnsureQuiet ==
    ASSUME JobsTyped, Strong, NEW j \in Jobs, Ensure(j)
    PROVE  QuietMove(j)
<1>1. ByTag \subseteq StandardJobs
  BY DEF ByTag, Published, Drafts
<1> QED
  BY <1>1, QuietMoves DEF Ensure

\* The upload loop never leaves the release it tracks.
LEMMA LoopQuiet ==
    ASSUME JobsTyped, Strong, NEW j \in Jobs, CheckAsset(j) \/ ReadUploaded(j)
    PROVE  QuietMove(j)
<1>t. j \in StandardJobs => job[j].id \in StandardJobs
  BY DEF Strong, Tracking, CheckAsset, ReadUploaded
<1>1. ASSUME NoMutation, NEW p \in {"check", "upload"}, Moves(j, p, job[j].id)
      PROVE  QuietMove(j)
  BY <1>1, <1>t DEF QuietMove
<1>2. CASE CheckAsset(j)
  <2>1. ASSUME NEW a, Skip(j, a) PROVE Moves(j, "check", job[j].id)
    <3>1. job[j].pc = "check"
      BY <1>2 DEF CheckAsset
    <3> QED
      BY <2>1, <3>1 DEF Skip, Moves, JobsTyped, Progress
  <2>2. ASSUME NEW a, job' = [job EXCEPT ![j].pc = "upload", ![j].asset = a]
        PROVE  Moves(j, "upload", job[j].id)
    BY <2>2 DEF Moves, JobsTyped, Progress
  <2> QED
    BY <1>2, <1>1, <2>1, <2>2, QuietMoves DEF CheckAsset
<1>3. CASE ReadUploaded(j)
  <2>1. ASSUME job' = [job EXCEPT ![j].pc = "check", ![j].todo = @ \ {job[j].asset}]
        PROVE  Moves(j, "check", job[j].id)
    BY <2>1 DEF Moves, JobsTyped, Progress
  <2> QED
    BY <1>3, <1>1, <2>1, QuietMoves DEF ReadUploaded
<1> QED
  BY <1>2, <1>3

\* Every step: what is sealed stays sealed, and the invariant holds again.
LEMMA NextKeeps ==
    ASSUME TypeOK, Strong, [Next]_vars
    PROVE  Strong' /\ Preserves
<1>0. JobsTyped /\ ReleasesTyped /\ PublishedIsExact /\ Checked /\ Tracking
  BY CheckedIsChecked DEF TypeOK, JobsTyped, ReleasesTyped, Strong
<1>i. \A j \in Jobs : job[j].id \in StandardJobs \cup {None}
  BY <1>0 DEF JobsTyped, Progress
<1>m. Mutations = {"release_create", "asset_upload", "release_publish", "release_notes_patch"}
  BY DEF Mutations
<1>1. ASSUME NEW j \in Jobs, Start(j) PROVE QuietMove(j)
  <2>1. PICK m \in Modes, i \in IF j \in FullJobs THEN Published ELSE {None} :
            job' = [job EXCEPT ![j].pc = "inspect", ![j].mode = m, ![j].id = i]
    BY <1>1 DEF Start
  <2>2. Moves(j, "inspect", i)
    BY <1>0, <2>1 DEF JobsTyped, Progress, Moves
  <2> QED
    BY <1>1, <2>2 DEF Start, QuietMove
<1>2. ASSUME NEW j \in Jobs, Crash(j) PROVE QuietMove(j)
  BY <1>0, <1>2, QuietMoves DEF Crash
<1>3. ASSUME NEW j \in Jobs, Inspect(j) PROVE QuietMove(j)
  <2>1. ASSUME NEW b \in BOOLEAN, InspectStandard(j, b) PROVE QuietMove(j)
    BY <1>0, <2>1, QuietMoves, EnsureQuiet DEF InspectStandard
  <2> QED
    BY <1>3, <2>1 DEF Inspect
<1>4. ASSUME NEW j \in Jobs, Reinspect(j) PROVE QuietMove(j)
  BY <1>0, <1>4, QuietMoves, EnsureQuiet DEF Reinspect
<1>5. ASSUME NEW j \in Jobs, InspectTagRef(j) PROVE QuietMove(j)
  BY <1>0, <1>5, QuietMoves DEF InspectTagRef, Verified
<1>6. ASSUME NEW j \in Jobs, ReadCreated(j) PROVE QuietMove(j)
  BY <1>0, <1>6, QuietMoves DEF ReadCreated
<1>7. ASSUME NEW j \in Jobs, InspectDraft(j) PROVE QuietMove(j)
  <2>1. ASSUME ReadyToPublish(j), Goto(j, "publish"), NoMutation PROVE QuietMove(j)
    <3>1. job[j].id \in StandardJobs
      BY <1>0, <1>7 DEF InspectDraft, Tracking
    <3>2. job[j].id \in OneBuilds
      BY <1>7, <2>1, <3>1, ExactIsOneBuild DEF InspectDraft, ReadyToPublish
    <3>3. Moves(j, "publish", job[j].id)
      BY <1>0, <2>1, MovesFacts
    <3> QED
      BY <2>1, <3>2, <3>3 DEF QuietMove
  <2> QED
    BY <1>0, <1>7, <2>1, QuietMoves DEF InspectDraft, Verified
<1>8. ASSUME NEW j \in Jobs, ReadPublished(j) PROVE QuietMove(j)
  BY <1>0, <1>8, QuietMoves DEF ReadPublished
<1>9. ASSUME NEW j \in Jobs, InspectFull(j) PROVE QuietMove(j)
  <2>1. ASSUME NEW i, Capture(j, i), NoMutation PROVE QuietMove(j)
    <3>1. Moves(j, "check", job[j].id)
      BY <1>0, <2>1, MovesFacts
    <3>2. j \notin StandardJobs
      BY <1>9, DisjointJobs DEF InspectFull
    <3> QED
      BY <2>1, <3>1, <3>2 DEF QuietMove
  <2> QED
    BY <1>0, <1>9, <2>1, QuietMoves DEF InspectFull
<1>10. ASSUME NEW j \in Jobs, InspectFinal(j) PROVE QuietMove(j)
  BY <1>0, <1>10, QuietMoves DEF InspectFinal
<1>11. ASSUME NEW j \in Jobs, ReadNotes(j) PROVE QuietMove(j)
  BY <1>0, <1>11, QuietMoves DEF ReadNotes
<1>12. ASSUME NEW j \in Jobs, CheckAsset(j) \/ ReadUploaded(j) PROVE QuietMove(j)
  BY <1>0, <1>12, LoopQuiet
<1>13. ASSUME NEW j \in Jobs, CreateRelease(j) PROVE Strong' /\ Preserves
  <2>1. Request(j, "release_create", None, None) \in Requests
    BY <1>0, <1>m, RequestTyped
  <2> QED
    BY <1>13, <2>1, MutateKeeps DEF CreateRelease, Request
<1>14. ASSUME NEW j \in Jobs, UploadAsset(j) PROVE Strong' /\ Preserves
  <2>1. PICK i \in UploadTargets(j) :
            Mutate(j, Request(j, "asset_upload", i, job[j].asset), "uploaded")
    BY <1>14 DEF UploadAsset
  <2>2. i \in StandardJobs \cup {None}
    BY DEF UploadTargets, ByTag, Published, Drafts
  <2>3. job[j].asset \in Assets
    BY <1>0, <1>14 DEF UploadAsset, JobsTyped, Progress
  <2>4. Request(j, "asset_upload", i, job[j].asset) \in Requests
    BY <1>0, <1>m, <2>2, <2>3, RequestTyped
  <2>5. j \in StandardJobs => job[j].id \in StandardJobs
    BY <1>0, <1>14 DEF UploadAsset, Tracking
  <2>6. Request(j, "asset_upload", i, job[j].asset).mutation = "asset_upload"
    BY DEF Request
  <2> QED
    BY <2>1, <2>4, <2>5, <2>6, MutateKeeps
<1>15. ASSUME NEW j \in Jobs, PublishDraft(j) PROVE Strong' /\ Preserves
  <2>1. Request(j, "release_publish", job[j].id, None) \in Requests
    BY <1>0, <1>i, <1>m, RequestTyped
  <2>2. job[j].id \in OneBuilds
    BY <1>0, <1>15 DEF PublishDraft, Checked
  <2>3. Request(j, "release_publish", job[j].id, None).id \in OneBuilds
    BY <2>2 DEF Request
  <2> QED
    BY <1>15, <2>1, <2>3, MutateKeeps DEF PublishDraft
<1>16. ASSUME NEW j \in Jobs, PatchNotes(j) PROVE Strong' /\ Preserves
  <2>1. Request(j, "release_notes_patch", job[j].id, None) \in Requests
    BY <1>0, <1>i, <1>m, RequestTyped
  <2>2. Request(j, "release_notes_patch", job[j].id, None).mutation = "release_notes_patch"
    BY DEF Request
  <2> QED
    BY <1>16, <2>1, <2>2, MutateKeeps DEF PatchNotes
<1>r. ASSUME Preserves, UNCHANGED job, late' \subseteq late PROVE Strong'
  <2>1. Checked'
    BY <1>0, <1>r DEF Checked, Preserves
  <2>2. PublishIsChecked'
    BY <2>1, CheckedIsChecked, PTL
  <2> QED
    BY <1>0, <1>r, <2>2 DEF Strong, Tracking, Preserves
<1>17. ASSUME NEW q \in late, Land(q) PROVE Strong' /\ Preserves
  <2>1. q \in Requests
    BY DEF TypeOK
  <2>2. q.mutation = "release_publish" => HoldsOneBuild(q.id)
    BY <1>0 DEF Checked, OneBuilds
  <2>3. Preserves
    BY <1>0, <1>17, <2>1, <2>2, ApplyKeeps DEF Land, Preserves, OneBuilds
  <2> QED
    BY <1>17, <1>r, <2>3 DEF Land
<1>18. ASSUME NEW q \in late, Drop(q) PROVE Strong' /\ Preserves
  BY <1>0, <1>18, <1>r, SameReleases DEF Drop
<1>19. ASSUME NEW i \in StandardJobs, EditNotes(i) PROVE Strong' /\ Preserves
  <2>1. \A k \in StandardJobs :
          releases'[k].assets = releases[k].assets /\ releases'[k].state = releases[k].state
    BY <1>0, <1>19 DEF EditNotes, ReleasesTyped, Releases
  <2>2. Preserves
    BY <1>0, <2>1 DEF Preserves, PublishedIsExact, Published, OneBuilds, HoldsOneBuild, StandardPart
  <2> QED
    BY <1>19, <1>r, <2>2 DEF EditNotes
<1>20. ASSUME NEW i \in StandardJobs, NEW a \in Followers, AppendFollower(i, a)
       PROVE  Strong' /\ Preserves
  <2>1. a.name \notin Names
    BY AppendedNames DEF NamesOf
  <2>2. \A k \in StandardJobs :
          /\ releases'[k].state = releases[k].state
          /\ releases'[k].assets \in {releases[k].assets, releases[k].assets \cup {a}}
    BY <1>0, <1>20 DEF AppendFollower, ReleasesTyped, Releases
  <2>3. \A k \in StandardJobs : StandardPart(k)' = StandardPart(k)
    BY <2>1, <2>2 DEF StandardPart
  <2>4. Preserves
    BY <1>0, <2>2, <2>3 DEF Preserves, PublishedIsExact, Published, OneBuilds, HoldsOneBuild
  <2> QED
    BY <1>20, <1>r, <2>4 DEF AppendFollower
<1>21. CASE UNCHANGED vars
  BY <1>0, <1>21, <1>r, SameReleases DEF vars
<1>q. ASSUME NEW j \in Jobs, QuietMove(j) PROVE Strong' /\ Preserves
  BY <1>q, QuietKeeps
<1> QED
  <2>1. ASSUME NEW j \in Jobs, Start(j) \/ JobStep(j) \/ Crash(j) PROVE Strong' /\ Preserves
    BY <2>1, <1>1, <1>2, <1>3, <1>4, <1>5, <1>6, <1>7, <1>8, <1>9, <1>10, <1>11, <1>12,
       <1>13, <1>14, <1>15, <1>16, <1>q DEF JobStep, StandardStep, FullStep, LoopStep
  <2> QED
    BY <2>1, <1>17, <1>18, <1>19, <1>20, <1>21 DEF Next

LEMMA InductiveInit == Init => IInv
<1> SUFFICES ASSUME Init PROVE IInv
  OBVIOUS
<1>1. \A j \in Jobs : job[j].pc = "idle"
  BY DEF Init, Idle
<1>2. Published = {}
  BY DEF Init, Absent, Published
<1>3. PublishedIsExact
  BY <1>2 DEF PublishedIsExact
<1>4. PublishIsChecked
  BY <1>1 DEF Init, PublishIsChecked
<1>5. Tracking
  BY <1>1 DEF Tracking, Jobs
<1> QED
  BY <1>3, <1>4, <1>5, TypeInit DEF IInv

LEMMA InductiveNext == IInv /\ [Next]_vars => IInv'
<1> SUFFICES ASSUME IInv, [Next]_vars PROVE IInv'
  OBVIOUS
<1>1. TypeOK /\ Strong
  BY DEF IInv, Strong
<1>2. TypeOK'
  BY <1>1, TypeNext
<1>3. Strong'
  BY <1>1, NextKeeps
<1> QED
  BY <1>2, <1>3 DEF IInv, Strong

LEMMA Inductive == Spec => []IInv
BY InductiveInit, InductiveNext, PTL DEF Spec

\* Whatever is lost, late or concurrent, a public release holds exactly the
\* Standard files of one build, and at most one release of the tag is public.
THEOREM OnlyExactBuildsArePublic == Spec => []PublishedIsExact
<1>1. IInv => PublishedIsExact
  BY DEF IInv
<1> QED
  BY <1>1, Inductive, PTL

\* What a job verified before its publishing PATCH is still true when the PATCH
\* is sent, and when it lands after its caller gave up.
THEOREM ChecksStayTrue == Spec => []PublishIsChecked
<1>1. IInv => PublishIsChecked
  BY DEF IInv
<1> QED
  BY <1>1, Inductive, PTL

\* A public release stays public with the same Standard files.
THEOREM PublicIsForever == Spec => PublishedIsSealed
<1>1. IInv /\ [Next]_vars =>
        [\A i \in Published :
            /\ releases'[i].state = "published"
            /\ {a \in releases'[i].assets : a.name \in Names} = StandardPart(i)]_vars
  <2> SUFFICES ASSUME IInv, [Next]_vars, NEW i \in Published
               PROVE  /\ releases'[i].state = "published"
                      /\ {a \in releases'[i].assets : a.name \in Names} = StandardPart(i)
    OBVIOUS
  <2>1. TypeOK /\ Strong /\ PublishedIsExact
    BY DEF IInv, Strong
  <2>2. Preserves
    BY <2>1, NextKeeps
  <2>3. i \in OneBuilds
    BY <2>1 DEF PublishedIsExact, Published, OneBuilds, HoldsOneBuild
  <2>4. i \in Published' /\ StandardPart(i)' = StandardPart(i)
    BY <2>2, <2>3 DEF Preserves
  <2> QED
    BY <2>4 DEF Published, StandardPart
<1> QED
  BY <1>1, Inductive, PTL DEF Spec, PublishedIsSealed
-----------------------------------------------------------------------------
(* The refinement of ReleaseLifecycle and the truth of a verdict.  Only     *)
(* Standard files get into a draft: another file is uploaded by a Full job, *)
(* which has seen its release public, and the public release of a tag is    *)
(* where uploads by tag go.  A notes patch under way concerns a release     *)
(* whose Full files were seen, and nothing removes them.                    *)
StandardPcs == {"idle", "inspect", "reinspect", "tagref", "create", "created", "check",
                "upload", "uploaded", "publish", "published", "done"}
FullPcs == {"idle", "inspect", "check", "upload", "uploaded", "patch", "patched", "done"}

DraftsPlain ==
    \A i \in StandardJobs \ Published :
        NamesOf(releases[i].assets) \subseteq Names /\ ~releases[i].full

StandardSound(j) ==
    /\ job[j].pc \in StandardPcs
    /\ job[j].pc = "published" => job[j].id \in StandardJobs
    /\ job[j].todo \subseteq Plan[j]
    /\ job[j].pc = "upload" => job[j].asset \in Plan[j]
FullSound(j) ==
    /\ job[j].pc \in FullPcs
    /\ job[j].pc # "idle" => job[j].id \in Published
    /\ job[j].pc = "patch" => Plan[j] \subseteq releases[job[j].id].assets
Evidence(j) ==
    \E i \in Published : /\ Plan[j] \subseteq releases[i].assets
                         /\ j \in FullJobs => releases[i].full
JobSound(j) ==
    /\ j \in StandardJobs => StandardSound(j)
    /\ j \in FullJobs => FullSound(j)
    /\ job[j].verdict = "complete" => Evidence(j)

PatchSound(q) ==
    q.job \in FullJobs /\ q.id \in Published /\ Plan[q.job] \subseteq releases[q.id].assets
ReqSound(q) ==
    /\ q.mutation = "asset_upload" /\ q.asset.name \notin Names => q.id \in Published
    /\ q.mutation = "release_notes_patch" => PatchSound(q)

Sound == /\ DraftsPlain
         /\ \A j \in Jobs : JobSound(j)
         /\ \A q \in late : ReqSound(q)

\* What is public only grows.
Grows ==
    \A i \in Published : /\ i \in Published'
                         /\ releases[i].assets \subseteq releases'[i].assets
                         /\ releases[i].full => releases'[i].full

LifecycleStep ==
    [Lifecycle!Next]_<<{a \in Public : a.name \in Names}, {a \in Public : a.name \notin Names},
                       \E i \in Published : releases[i].full>>

\* The one public release, seen through the abstract variables.
LEMMA PublicIsOne ==
    ASSUME PublishedIsExact, NEW i \in Published
    PROVE  Public = releases[i].assets /\ Published = {i}
BY DEF PublishedIsExact, Public

LEMMA SamePublic ==
    ASSUME Published' = Published,
           \A i \in Published : /\ releases'[i].assets = releases[i].assets
                                /\ releases'[i].full = releases[i].full
    PROVE  LifecycleStep
<1>1. Public' = Public
  BY DEF Public
<1>2. (\E i \in Published : releases[i].full)' = (\E i \in Published : releases[i].full)
  OBVIOUS
<1> QED
  BY <1>1, <1>2 DEF LifecycleStep

\* A file under a free name of the public release is one more extra.
LEMMA OneMoreFile ==
    ASSUME PublishedIsExact, NEW i \in Published, NEW a,
           a.name \notin NamesOf(releases[i].assets),
           Published' = Published,
           releases'[i].assets = releases[i].assets \cup {a},
           releases'[i].full = releases[i].full
    PROVE  LifecycleStep
<1> DEFINE contents == {b \in Public : b.name \in Names}
           extras == {b \in Public : b.name \notin Names}
           announced == \E k \in Published : releases[k].full
<1>1. Public = releases[i].assets /\ Published = {i} /\ Public' = releases'[i].assets
  <2>1. Public = releases[i].assets /\ Published = {i}
    BY PublicIsOne
  <2> QED
    BY <2>1 DEF Public
<1>2. i \in StandardJobs /\ StandardPart(i) \in Bundles /\ HoldsOneBuild(i)
  BY DEF PublishedIsExact, Published, HoldsOneBuild
<1>3. a.name \notin Names
  BY <1>2, NoFreeName
<1>4. a \notin Public
  BY <1>1 DEF NamesOf
<1>5. contents' = contents /\ extras' = extras \cup {a} /\ a \notin extras
  BY <1>1, <1>3, <1>4
<1>6. contents # {}
  <2>1. PICK j \in StandardJobs : StandardPart(i) = Plan[j]
    BY <1>2 DEF Bundles
  <2>2. contents = Plan[j]
    BY <1>1, <2>1 DEF StandardPart
  <2>3. NamesOf(Plan[j]) # {}
    BY StandardPlans, NamesNotEmpty
  <2> QED
    BY <2>2, <2>3 DEF NamesOf
<1>7. \E x \in extras' : x \notin extras /\ extras' = extras \cup {x}
  BY <1>5, Zenon
<1>8. announced' = announced
  BY <1>1
<1>9. Lifecycle!Append
  <2>1. UNCHANGED <<contents, announced>>
    BY <1>5, <1>8
  <2> HIDE DEF contents, extras, announced
  <2> QED
    BY <1>6, <1>7, <2>1 DEF Lifecycle!Append, contents, extras, announced
<1> QED
  BY <1>9 DEF LifecycleStep, Lifecycle!Next

\* One request at GitHub: the public release grows, drafts stay plain, and the
\* tag takes one step of its life cycle or none.
LEMMA ApplyGrows ==
    ASSUME ReleasesTyped, PublishedIsExact, DraftsPlain, NEW q \in Requests, Apply(q),
           ReqSound(q), q.mutation = "release_publish" => HoldsOneBuild(q.id)
    PROVE  Grows /\ DraftsPlain' /\ LifecycleStep
<1>0. PICK x \in Immutability : releases' = Effect(q, x)
  BY DEF Apply
<1>a. Applicable(q)
  BY DEF Apply
<1>m. q.mutation \in Mutations
  BY DEF Requests
<1>n. None \notin StandardJobs
  BY NoneIsNothing DEF Jobs
<1>1. CASE q.mutation = "release_create"
  <2>1. releases' = [releases EXCEPT ![q.job].state = "draft"]
    BY <1>0, <1>1 DEF Effect
  <2>2. releases[q.job].state = "absent"
    BY <1>a, <1>1 DEF Applicable
  <2>3. \A i \in StandardJobs :
          /\ releases'[i].assets = releases[i].assets /\ releases'[i].full = releases[i].full
          /\ (releases'[i].state = "published") <=> (releases[i].state = "published")
    BY <2>1, <2>2 DEF ReleasesTyped, Releases
  <2>4. Published' = Published /\ \A i \in Published : i \in StandardJobs
    BY <2>3 DEF Published
  <2> QED
    BY <2>3, <2>4, SamePublic DEF Grows, DraftsPlain, NamesOf
<1>2. CASE q.mutation = "asset_upload"
  <2>0. CanUpload(q) /\ q.id \in StandardJobs
    BY <1>a, <1>2 DEF Applicable, CanUpload, Requests
  <2>1. releases' = [releases EXCEPT ![q.id].assets =
                        {a \in @ : a.name # q.asset.name} \cup {q.asset}]
    BY <1>0, <1>2 DEF Effect
  <2>2. q.asset.name \notin NamesOf(releases[q.id].assets)
    BY <2>0 DEF CanUpload, Clobbers
  <2>3. \A i \in StandardJobs :
          /\ releases'[i].state = releases[i].state /\ releases'[i].full = releases[i].full
          /\ i # q.id => releases'[i].assets = releases[i].assets
    BY <2>1 DEF ReleasesTyped, Releases
  <2>4. releases'[q.id].assets = releases[q.id].assets \cup {q.asset}
    <3>1. releases'[q.id].assets =
              {a \in releases[q.id].assets : a.name # q.asset.name} \cup {q.asset}
      BY <2>0, <2>1 DEF ReleasesTyped, Releases
    <3> QED
      BY <2>2, <3>1 DEF NamesOf
  <2>5. Published' = Published /\ \A i \in Published : i \in StandardJobs
    BY <2>3 DEF Published
  <2>6. Grows
    BY <2>3, <2>4, <2>5 DEF Grows
  <2>7. DraftsPlain'
    <3>1. q.id \notin Published => q.asset.name \in Names
      BY <1>2 DEF ReqSound
    <3> QED
      BY <2>3, <2>4, <2>5, <3>1 DEF DraftsPlain, NamesOf
  <2>8. LifecycleStep
    <3>1. CASE q.id \in Published
      BY <2>0, <2>2, <2>3, <2>4, <2>5, <3>1, OneMoreFile
    <3>2. CASE q.id \notin Published
      BY <2>3, <2>5, <3>2, SamePublic
    <3> QED
      BY <3>1, <3>2
  <2> QED
    BY <2>6, <2>7, <2>8
<1>3. CASE q.mutation = "release_publish"
  <2>1. releases' = Publish(q, x)
    BY <1>0, <1>3 DEF Effect
  <2>2. HoldsOneBuild(q.id) /\ q.id \in StandardJobs
    BY <1>3 DEF HoldsOneBuild
  <2>3. \A i \in StandardJobs :
          /\ releases'[i].assets = releases[i].assets /\ releases'[i].full = releases[i].full
          /\ releases'[i].state = IF i = q.id THEN "published" ELSE releases[i].state
    BY <2>1, <2>2 DEF Publish, ReleasesTyped, Releases
  <2>4. Published' = Published \cup {q.id} /\ \A i \in Published : i \in StandardJobs
    BY <2>2, <2>3 DEF Published
  <2>5. Grows
    BY <2>3, <2>4 DEF Grows
  <2>6. DraftsPlain'
    BY <2>3, <2>4 DEF DraftsPlain, NamesOf
  <2>7. CASE q.id \in Published
    BY <2>3, <2>4, <2>5, <2>6, <2>7, SamePublic
  <2>8. CASE q.id \notin Published
    <3>1. CanPublish(q)
      BY <1>a, <1>3 DEF Applicable
    <3>2. Published = {} /\ Published' = {q.id}
      BY <2>2, <2>4, <2>8, <3>1 DEF CanPublish, Published
    <3>3. Public = {} /\ Public' = releases[q.id].assets
      BY <2>2, <2>3, <3>2 DEF Public
    <3>4. \A a \in Public' : a.name \in Names
      BY <2>2, <2>8, <3>3 DEF DraftsPlain, NamesOf
    <3>5. Public' \in Bundles
      <4>1. Public' = StandardPart(q.id)
        BY <3>3, <3>4 DEF StandardPart
      <4> QED
        BY <2>2, <4>1 DEF HoldsOneBuild
    <3>6. (\E k \in Published : releases[k].full) = FALSE
          /\ (\E k \in Published : releases[k].full)' = FALSE
      BY <2>2, <2>3, <2>8, <3>2 DEF DraftsPlain
    <3>7. {a \in Public : a.name \in Names} = {} /\ {a \in Public' : a.name \in Names} = Public'
          /\ {a \in Public : a.name \notin Names} = {} /\ {a \in Public' : a.name \notin Names} = {}
      BY <3>3, <3>4
    <3>8. Lifecycle!Publish
      BY <3>5, <3>6, <3>7 DEF Lifecycle!Publish
    <3>9. LifecycleStep
      BY <3>8 DEF LifecycleStep, Lifecycle!Next
    <3> QED
      BY <2>5, <2>6, <3>9
  <2> QED
    BY <2>7, <2>8
<1>4. CASE q.mutation = "release_notes_patch"
  <2>1. releases' = ShowFull(q)
    BY <1>0, <1>4 DEF Effect
  <2>2. q.job \in FullJobs /\ q.id \in Published /\ Plan[q.job] \subseteq releases[q.id].assets
    BY <1>4 DEF ReqSound, PatchSound
  <2>s. \A i \in StandardJobs :
          releases'[i].assets = releases[i].assets /\ releases'[i].state = releases[i].state
    BY <2>1 DEF ShowFull, ReleasesTyped, Releases
  <2>3. \A i \in StandardJobs :
          releases'[i].full = IF i = q.id THEN TRUE ELSE releases[i].full
    BY <2>1 DEF ShowFull, ReleasesTyped, Releases
  <2>4. Published' = Published /\ \A i \in Published : i \in StandardJobs
    BY <2>s DEF Published
  <2>5. Grows
    BY <2>s, <2>3, <2>4 DEF Grows
  <2>6. DraftsPlain'
    BY <2>2, <2>s, <2>3, <2>4 DEF DraftsPlain, NamesOf
  <2>7. CASE releases[q.id].full
    <3>1. \A i \in Published : releases'[i].full = releases[i].full
      BY <2>3, <2>4, <2>7 DEF ReleasesTyped, Releases
    <3> QED
      BY <2>s, <2>4, <2>5, <2>6, <3>1, SamePublic
  <2>8. CASE ~releases[q.id].full
    <3>1. Published = {q.id} /\ Public = releases[q.id].assets /\ Public' = Public
      <4>1. Published = {q.id} /\ Public = releases[q.id].assets
        BY <2>2, PublicIsOne
      <4> QED
        BY <2>2, <2>s, <2>4, <4>1 DEF Public
    <3>2. ~(\E k \in Published : releases[k].full)
      BY <2>8, <3>1
    <3>3. (\E k \in Published : releases[k].full)' = TRUE
      BY <2>2, <2>3, <2>4
    <3>4. Plan[q.job] \in FullPlans
      BY <2>2 DEF FullPlans
    <3>5. Plan[q.job] \subseteq {a \in Public : a.name \notin Names}
      BY <2>2, <3>1, AppendedNames DEF NamesOf
    <3>6. Lifecycle!Announce
      BY <3>1, <3>2, <3>3, <3>4, <3>5 DEF Lifecycle!Announce
    <3>7. LifecycleStep
      BY <3>6 DEF LifecycleStep, Lifecycle!Next
    <3> QED
      BY <2>5, <2>6, <3>7
  <2> QED
    BY <2>7, <2>8
<1> QED
  BY <1>m, <1>1, <1>2, <1>3, <1>4 DEF Mutations

\* Edits of the notes and followers do no more.
LEMMA OthersGrow ==
    ASSUME ReleasesTyped, PublishedIsExact, DraftsPlain, NEW i \in StandardJobs,
           EditNotes(i) \/ \E a \in Followers : AppendFollower(i, a)
    PROVE  Grows /\ DraftsPlain' /\ LifecycleStep
<1>1. CASE EditNotes(i)
  <2>1. \A k \in StandardJobs :
          /\ releases'[k].assets = releases[k].assets /\ releases'[k].state = releases[k].state
          /\ releases'[k].full = releases[k].full
    BY <1>1 DEF EditNotes, ReleasesTyped, Releases
  <2>2. Published' = Published /\ \A k \in Published : k \in StandardJobs
    BY <2>1 DEF Published
  <2> QED
    BY <2>1, <2>2, SamePublic DEF Grows, DraftsPlain, NamesOf
<1>2. ASSUME NEW a \in Followers, AppendFollower(i, a)
      PROVE  Grows /\ DraftsPlain' /\ LifecycleStep
  <2>1. /\ releases' = [releases EXCEPT ![i].assets = @ \cup {a}]
        /\ i \in Published /\ a.name \notin NamesOf(releases[i].assets)
    BY <1>2 DEF AppendFollower
  <2>2. \A k \in StandardJobs :
          /\ releases'[k].state = releases[k].state /\ releases'[k].full = releases[k].full
          /\ releases'[k].assets =
                IF k = i THEN releases[i].assets \cup {a} ELSE releases[k].assets
    BY <2>1 DEF ReleasesTyped, Releases
  <2>3. Published' = Published /\ \A k \in Published : k \in StandardJobs
    BY <2>2 DEF Published
  <2>4. Grows /\ DraftsPlain'
    BY <2>1, <2>2, <2>3 DEF Grows, DraftsPlain, NamesOf
  <2>5. LifecycleStep
    BY <2>1, <2>2, <2>3, OneMoreFile
  <2> QED
    BY <2>4, <2>5
<1> QED
  BY <1>1, <1>2

LEMMA SameGrows ==
    ASSUME DraftsPlain, UNCHANGED releases
    PROVE  Grows /\ DraftsPlain' /\ LifecycleStep
<1>1. Published' = Published
  BY DEF Published
<1> QED
  BY <1>1, SamePublic DEF Grows, DraftsPlain

\* What is known of jobs and requests survives as long as the public grows.
LEMMA StaysSound ==
    ASSUME Grows
    PROVE  /\ \A k \in Jobs : JobSound(k) /\ job'[k] = job[k] => JobSound(k)'
           /\ \A r : ReqSound(r) => ReqSound(r)'
           /\ \A k \in Jobs : Evidence(k) => Evidence(k)'
<1>1. \A k \in Jobs : Evidence(k) => Evidence(k)'
  BY DEF Grows, Evidence
<1>2. \A r : ReqSound(r) => ReqSound(r)'
  BY DEF Grows, ReqSound, PatchSound
<1>3. ASSUME NEW k \in Jobs, JobSound(k), job'[k] = job[k] PROVE JobSound(k)'
  <2>1. StandardSound(k) => StandardSound(k)'
    BY <1>3 DEF StandardSound
  <2>2. FullSound(k) => FullSound(k)'
    BY <1>3 DEF FullSound, Grows
  <2> QED
    BY <1>1, <1>3, <2>1, <2>2 DEF JobSound
<1> QED
  BY <1>1, <1>2, <1>3

\* A job that has begun goes on, or ends with a verdict it can stand for.
LEMMA FinishSound ==
    ASSUME JobsTyped, Grows, NEW j \in Jobs, JobSound(j), job[j].pc # "idle",
           NEW v, Finish(j, v), v = "complete" => Evidence(j)'
    PROVE  JobSound(j)'
<1>1. job'[j] = [job[j] EXCEPT !.pc = "done", !.verdict = v]
  BY DEF Finish, JobsTyped
<1>2. /\ job'[j].pc = "done" /\ job'[j].verdict = v
      /\ job'[j].todo = job[j].todo /\ job'[j].id = job[j].id
  BY <1>1 DEF JobsTyped, Progress
<1>3. StandardSound(j) => StandardSound(j)'
  BY <1>2 DEF StandardSound, StandardPcs
<1>4. FullSound(j) => FullSound(j)'
  BY <1>2 DEF FullSound, FullPcs, Grows
<1> QED
  BY <1>2, <1>3, <1>4 DEF JobSound

LEMMA GotoSound ==
    ASSUME JobsTyped, Grows, NEW j \in Jobs, JobSound(j), job[j].pc # "idle",
           NEW p, Goto(j, p), p # "upload",
           j \in StandardJobs => p \in StandardPcs
                                 /\ (p = "published" => job[j].id \in StandardJobs),
           j \in FullJobs => p \in FullPcs
                             /\ (p = "patch" => Plan[j] \subseteq releases[job[j].id].assets)
    PROVE  JobSound(j)'
<1>1. job'[j] = [job[j] EXCEPT !.pc = p]
  BY DEF Goto, JobsTyped
<1>2. /\ job'[j].pc = p /\ job'[j].verdict = job[j].verdict
      /\ job'[j].todo = job[j].todo /\ job'[j].id = job[j].id
  BY <1>1 DEF JobsTyped, Progress
<1>3. j \in StandardJobs /\ StandardSound(j) => StandardSound(j)'
  BY <1>2 DEF StandardSound
<1>4. j \in FullJobs /\ FullSound(j) => FullSound(j)'
  BY <1>2 DEF FullSound, Grows
<1>5. Evidence(j) => Evidence(j)'
  BY StaysSound
<1> QED
  BY <1>2, <1>3, <1>4, <1>5 DEF JobSound

\* The loop goes on with what is left of its plan.
LEMMA LoopSound ==
    ASSUME JobsTyped, Grows, NEW j \in Jobs, JobSound(j), job[j].pc # "idle",
           job'[j].pc \in {"check", "upload"},
           job'[j].id = job[j].id, job'[j].verdict = job[j].verdict,
           j \in StandardJobs => /\ job'[j].todo \subseteq Plan[j]
                                 /\ job'[j].pc = "upload" => job'[j].asset \in Plan[j]
    PROVE  JobSound(j)'
<1>3. j \in StandardJobs /\ StandardSound(j) => StandardSound(j)'
  BY DEF StandardSound, StandardPcs
<1>4. FullSound(j) => FullSound(j)'
  BY DEF FullSound, FullPcs, Grows
<1>5. Evidence(j) => Evidence(j)'
  BY StaysSound
<1> QED
  BY <1>3, <1>4, <1>5 DEF JobSound

\* Settle ends a Standard job as complete only before the release of its plan.
LEMMA SettleSound ==
    ASSUME JobsTyped, Grows, NEW j \in StandardJobs, JobSound(j), job[j].pc # "idle",
           NEW i \in StandardJobs, Settle(j, i)
    PROVE  JobSound(j)'
<1>j. j \in Jobs /\ j \notin FullJobs
  BY DisjointJobs DEF Jobs
<1>1. CASE Track(j, i)
  <2>1. job'[j] = [job[j] EXCEPT !.pc = "check", !.id = i, !.todo = Plan[j]]
    BY <1>1, <1>j DEF Track, JobsTyped
  <2>2. job'[j].pc = "check" /\ job'[j].verdict = job[j].verdict /\ job'[j].todo = Plan[j]
    BY <2>1, <1>j DEF JobsTyped, Progress
  <2>3. StandardSound(j)'
    BY <2>2 DEF StandardSound, StandardPcs
  <2>4. Evidence(j) => Evidence(j)'
    BY <1>j, StaysSound
  <2> QED
    BY <1>j, <2>2, <2>3, <2>4 DEF JobSound
<1>2. CASE AlreadyPublished(j, i) /\ Finish(j, "complete")
  <2>1. NamesOf(releases[i].assets) = NamesOf(Plan[j]) /\ releases[i].assets \subseteq Plan[j]
        /\ i \in Published
    BY <1>2 DEF AlreadyPublished, ExactPlan, WithinPlan, HasIdentity, Published
  <2>2. Plan[j] \subseteq releases[i].assets
    BY <2>1, StandardPlans DEF NamesOf
  <2>3. Evidence(j)
    BY <1>j, <2>1, <2>2 DEF Evidence
  <2>4. Evidence(j)'
    BY <1>j, <2>3, StaysSound
  <2> QED
    BY <1>2, <1>j, <2>4, FinishSound
<1>3. CASE Finish(j, "failed")
  BY <1>3, <1>j, FinishSound
<1> QED
  BY <1>1, <1>2, <1>3 DEF Settle

\* What one step of a job must show.
StepSound(j) ==
    /\ Grows /\ DraftsPlain' /\ LifecycleStep
    /\ JobSound(j)' /\ \A k \in Jobs \ {j} : job'[k] = job[k]
    /\ \A r \in late' : r \in late \/ ReqSound(r)

LEMMA StepSoundKeeps ==
    ASSUME Sound, NEW j \in Jobs, StepSound(j)
    PROVE  Sound'
<1>1. \A r \in late' : ReqSound(r)'
  BY StaysSound DEF Sound, StepSound
<1>2. \A k \in Jobs : JobSound(k)'
  BY StaysSound DEF Sound, StepSound
<1> QED
  BY <1>1, <1>2 DEF Sound, StepSound

\* A step that only reads.
LEMMA ReadSound ==
    ASSUME DraftsPlain, NEW j \in Jobs, NoMutation, Grows => JobSound(j)',
           \A k \in Jobs \ {j} : job'[k] = job[k]
    PROVE  StepSound(j)
<1>1. Grows /\ DraftsPlain' /\ LifecycleStep
  BY SameGrows DEF NoMutation
<1> QED
  BY <1>1 DEF StepSound, NoMutation

LEMMA OneJobMoves ==
    ASSUME JobsTyped, NEW j \in Jobs
    PROVE  /\ \A v : Finish(j, v) => \A k \in Jobs \ {j} : job'[k] = job[k]
           /\ \A p : Goto(j, p) => \A k \in Jobs \ {j} : job'[k] = job[k]
           /\ \A i : Settle(j, i) => \A k \in Jobs \ {j} : job'[k] = job[k]
BY DEF JobsTyped, Finish, Goto, Settle, Track

LEMMA FailsSound ==
    ASSUME JobsTyped, Sound, NEW j \in Jobs, job[j].pc # "idle",
           NEW v, Finish(j, v), NoMutation, v # "complete"
    PROVE  StepSound(j)
<1>1. JobSound(j) /\ DraftsPlain
  BY DEF Sound
<1>2. \A k \in Jobs \ {j} : job'[k] = job[k]
  BY OneJobMoves
<1>3. Grows => JobSound(j)'
  BY <1>1, FinishSound
<1> QED
  BY <1>1, <1>2, <1>3, ReadSound

LEMMA GoesSound ==
    ASSUME JobsTyped, Sound, NEW j \in Jobs, job[j].pc # "idle",
           NEW p, Goto(j, p), NoMutation, p # "upload",
           j \in StandardJobs => p \in StandardPcs
                                 /\ (p = "published" => job[j].id \in StandardJobs),
           j \in FullJobs => p \in FullPcs
                             /\ (p = "patch" => Plan[j] \subseteq releases[job[j].id].assets)
    PROVE  StepSound(j)
<1>1. JobSound(j) /\ DraftsPlain
  BY DEF Sound
<1>2. \A k \in Jobs \ {j} : job'[k] = job[k]
  BY OneJobMoves
<1>3. Grows => JobSound(j)'
  BY <1>1, GotoSound
<1> QED
  BY <1>1, <1>2, <1>3, ReadSound

LEMMA SettlesSound ==
    ASSUME JobsTyped, Sound, NEW j \in StandardJobs, job[j].pc # "idle",
           NEW i \in StandardJobs, Settle(j, i), NoMutation
    PROVE  StepSound(j)
<1>0. j \in Jobs
  BY DEF Jobs
<1>1. JobSound(j) /\ DraftsPlain
  BY <1>0 DEF Sound
<1>2. \A k \in Jobs \ {j} : job'[k] = job[k]
  BY <1>0, OneJobMoves
<1>3. Grows => JobSound(j)'
  BY <1>1, SettleSound
<1> QED
  BY <1>0, <1>1, <1>2, <1>3, ReadSound

LEMMA EnsureSound ==
    ASSUME JobsTyped, Sound, NEW j \in StandardJobs, job[j].pc # "idle", Ensure(j)
    PROVE  StepSound(j)
<1>0. j \in Jobs /\ j \notin FullJobs /\ ByTag \subseteq StandardJobs
  BY DisjointJobs DEF Jobs, ByTag, Published, Drafts
<1>1. CASE \E i \in ByTag : Settle(j, i)
  BY <1>0, <1>1, SettlesSound DEF Ensure
<1>2. CASE Goto(j, "tagref")
  BY <1>0, <1>2, GoesSound DEF Ensure, StandardPcs
<1> QED
  BY <1>1, <1>2 DEF Ensure

\* One call of `gh` that mutates.
LEMMA MutateSound ==
    ASSUME TypeOK, Strong, Sound, NEW j \in Jobs, job[j].pc # "idle",
           NEW q \in Requests, ReqSound(q), q.mutation = "release_publish" => HoldsOneBuild(q.id),
           NEW p, Mutate(j, q, p), p \notin {"upload", "patch"},
           j \in StandardJobs => p \in StandardPcs
                                 /\ (p = "published" => job[j].id \in StandardJobs),
           j \in FullJobs => p \in FullPcs
    PROVE  StepSound(j)
<1>0. JobsTyped /\ ReleasesTyped /\ PublishedIsExact /\ DraftsPlain /\ JobSound(j)
  BY DEF TypeOK, JobsTyped, ReleasesTyped, Strong, Sound
<1>1. Grows /\ DraftsPlain' /\ LifecycleStep
  <2>1. CASE Apply(q)
    BY <1>0, <2>1, ApplyGrows
  <2>2. CASE UNCHANGED releases
    BY <1>0, <2>2, SameGrows
  <2> QED
    BY <2>1, <2>2 DEF Mutate, Elapsed, Rejected, NoReply, Accepted, NoMutation
<1>2. \A r \in late' : r \in late \/ r = q
  BY DEF Mutate, Elapsed, Rejected, NoReply, Accepted, NoMutation
<1>3. Goto(j, p) \/ \E v : v # "complete" /\ Finish(j, v)
  BY DEF Mutate, Elapsed, Rejected, NoReply, Accepted, AfterUnknown
<1>4. JobSound(j)' /\ \A k \in Jobs \ {j} : job'[k] = job[k]
  BY <1>0, <1>1, <1>3, GotoSound, FinishSound, OneJobMoves
<1> QED
  BY <1>1, <1>2, <1>4 DEF StepSound

\* Which kind of job can be where.
LEMMA Places ==
    ASSUME Sound, NEW j \in Jobs
    PROVE  /\ job[j].pc \in StandardPcs \ FullPcs => j \in StandardJobs /\ j \notin FullJobs
           /\ job[j].pc \in FullPcs \ StandardPcs => j \in FullJobs /\ j \notin StandardJobs
           /\ j \in StandardJobs <=> j \notin FullJobs
BY DisjointJobs DEF Sound, JobSound, StandardSound, FullSound, Jobs

LEMMA StandardStepSound ==
    ASSUME TypeOK, Strong, Sound, NEW j \in Jobs, StandardStep(j)
    PROVE  StepSound(j)
<1>0. JobsTyped /\ ReleasesTyped /\ Checked /\ Tracking
  BY CheckedIsChecked DEF TypeOK, JobsTyped, ReleasesTyped, Strong
<1>i. job[j].id \in StandardJobs \cup {None}
  BY <1>0 DEF JobsTyped, Progress
<1>m. {"release_create", "release_publish"} \subseteq Mutations
  BY DEF Mutations
<1>v. "failed" # "complete" /\ "readonly" # "complete" /\ "outcome_unknown" # "complete"
  OBVIOUS
<1>p. {"reinspect", "tagref", "create", "created", "publish", "published"}
          \subseteq StandardPcs \ FullPcs
  BY DEF StandardPcs, FullPcs
<1>1. CASE Inspect(j)
  <2>1. j \in StandardJobs /\ j \notin FullJobs /\ job[j].pc # "idle"
    BY <1>1, Places DEF Inspect
  <2>2. ASSUME NEW b \in BOOLEAN, InspectStandard(j, b) PROVE StepSound(j)
    BY <1>0, <1>v, <1>p, <2>1, <2>2, FailsSound, GoesSound, EnsureSound DEF InspectStandard
  <2> QED
    BY <1>1, <2>2 DEF Inspect
<1>2. CASE Reinspect(j)
  <2>1. j \in StandardJobs /\ job[j].pc # "idle"
    BY <1>2, <1>p, Places DEF Reinspect
  <2> QED
    BY <1>0, <1>2, <1>v, <2>1, FailsSound, EnsureSound DEF Reinspect, ReadFails
<1>3. CASE InspectTagRef(j)
  <2>1. j \in StandardJobs /\ j \notin FullJobs /\ job[j].pc # "idle"
    BY <1>3, <1>p, Places DEF InspectTagRef
  <2> QED
    BY <1>0, <1>3, <1>v, <1>p, <2>1, FailsSound, GoesSound DEF InspectTagRef, ReadFails, Verified
<1>4. CASE CreateRelease(j)
  <2>1. j \in StandardJobs /\ j \notin FullJobs /\ job[j].pc # "idle"
    BY <1>4, <1>p, Places DEF CreateRelease
  <2>2. Request(j, "release_create", None, None) \in Requests
    BY <1>0, <1>m, RequestTyped
  <2>3. Request(j, "release_create", None, None).mutation = "release_create"
    BY DEF Request
  <2> QED
    BY <1>4, <1>p, <2>1, <2>2, <2>3, MutateSound DEF CreateRelease, ReqSound
<1>5. CASE ReadCreated(j)
  BY <1>0, <1>5, <1>v, FailsSound, SettlesSound DEF ReadCreated, ReadFails
<1>6. CASE InspectDraft(j)
  <2>1. j \in StandardJobs /\ j \notin FullJobs /\ job[j].pc # "idle"
    BY <1>6, Places DEF InspectDraft
  <2> QED
    BY <1>0, <1>6, <1>v, <1>p, <2>1, FailsSound, GoesSound DEF InspectDraft, ReadFails, Verified
<1>7. CASE PublishDraft(j)
  <2>1. j \in StandardJobs /\ j \notin FullJobs /\ job[j].pc # "idle"
    BY <1>7, <1>p, Places DEF PublishDraft
  <2>2. Request(j, "release_publish", job[j].id, None) \in Requests
    BY <1>0, <1>i, <1>m, RequestTyped
  <2>3. /\ Request(j, "release_publish", job[j].id, None).mutation = "release_publish"
        /\ Request(j, "release_publish", job[j].id, None).id = job[j].id
    BY DEF Request
  <2>4. HoldsOneBuild(job[j].id) /\ job[j].id \in StandardJobs
    BY <1>0, <1>7 DEF PublishDraft, Checked, OneBuilds
  <2>5. ReqSound(Request(j, "release_publish", job[j].id, None))
    BY <2>3 DEF ReqSound
  <2>6. HoldsOneBuild(Request(j, "release_publish", job[j].id, None).id)
    BY <2>3, <2>4
  <2> QED
    BY <1>7, <1>p, <2>1, <2>2, <2>4, <2>5, <2>6, MutateSound DEF PublishDraft
<1>8. CASE ReadPublished(j)
  <2>1. j \in StandardJobs /\ j \notin FullJobs /\ job[j].pc # "idle"
    BY <1>8, <1>p, Places DEF ReadPublished
  <2>2. CASE \E v : v # "complete" /\ Finish(j, v) /\ NoMutation
    BY <1>0, <2>1, <2>2, FailsSound
  <2>3. CASE /\ HasIdentity(job[j].id, "published") /\ ExactPlan(j, job[j].id)
             /\ Finish(j, "complete") /\ NoMutation
    <3>1. JobSound(j) /\ DraftsPlain /\ job[j].id \in StandardJobs
      BY <1>8, <2>1 DEF Sound, JobSound, StandardSound, ReadPublished
    <3>2. NamesOf(releases[job[j].id].assets) = NamesOf(Plan[j]) /\ job[j].id \in Published
          /\ releases[job[j].id].assets \subseteq Plan[j]
      BY <2>3, <3>1 DEF ExactPlan, WithinPlan, HasIdentity, Published
    <3>3. Plan[j] \subseteq releases[job[j].id].assets
      BY <2>1, <3>2, StandardPlans DEF NamesOf
    <3>4. Evidence(j)
      BY <2>1, <3>2, <3>3 DEF Evidence
    <3>5. Grows => JobSound(j)'
      BY <1>0, <2>1, <2>3, <3>1, <3>4, FinishSound, StaysSound
    <3> QED
      BY <1>0, <2>3, <3>1, <3>5, ReadSound, OneJobMoves
  <2> QED
    BY <1>8, <1>v, <2>2, <2>3 DEF ReadPublished, ReadFails
<1> QED
  BY <1>1, <1>2, <1>3, <1>4, <1>5, <1>6, <1>7, <1>8 DEF StandardStep

LEMMA FullStepSound ==
    ASSUME TypeOK, Strong, Sound, NEW j \in Jobs, FullStep(j)
    PROVE  StepSound(j)
<1>0. JobsTyped /\ ReleasesTyped
  BY DEF TypeOK, JobsTyped, ReleasesTyped
<1>i. job[j].id \in StandardJobs \cup {None}
  BY <1>0 DEF JobsTyped, Progress
<1>p. {"patch", "patched"} \subseteq FullPcs \ StandardPcs
  BY DEF StandardPcs, FullPcs
<1>j. j \in FullJobs /\ j \notin StandardJobs /\ job[j].pc # "idle"
  BY <1>p, Places DEF FullStep, InspectFull, InspectFinal, PatchNotes, ReadNotes
<1>s. JobSound(j) /\ DraftsPlain /\ job[j].id \in Published /\ FullSound(j)
  BY <1>j DEF Sound, JobSound, FullSound
<1>f. ASSUME NEW v, v # "complete", Finish(j, v), NoMutation PROVE StepSound(j)
  BY <1>0, <1>j, <1>f, FailsSound
<1>c. ASSUME Plan[j] \subseteq releases[job[j].id].assets, releases[job[j].id].full,
             Finish(j, "complete"), NoMutation
      PROVE  StepSound(j)
  <2>1. Evidence(j)
    BY <1>c, <1>s DEF Evidence
  <2>2. Grows => JobSound(j)'
    BY <1>0, <1>c, <1>j, <1>s, <2>1, FinishSound, StaysSound
  <2> QED
    BY <1>0, <1>c, <1>s, <2>2, ReadSound, OneJobMoves
<1>1. CASE InspectFull(j)
  <2>1. ASSUME NEW i \in ByTag, Capture(j, i), NoMutation PROVE StepSound(j)
    <3>1. job' = [job EXCEPT ![j].pc = "check", ![j].todo = Plan[j],
                             ![j].text = releases[i].text, ![j].full = releases[i].full]
      BY <2>1 DEF Capture
    <3>2. job'[j].pc = "check" /\ job'[j].id = job[j].id /\ job'[j].verdict = job[j].verdict
          /\ \A k \in Jobs \ {j} : job'[k] = job[k]
      BY <3>1, <1>0 DEF JobsTyped, Progress
    <3>3. Grows => JobSound(j)'
      BY <1>0, <1>j, <1>s, <3>2, LoopSound
    <3> QED
      BY <1>s, <2>1, <3>2, <3>3, ReadSound
  <2>2. ASSUME NEW v \in {"readonly", "failed"}, Finish(j, v), NoMutation PROVE StepSound(j)
    BY <1>f, <2>2
  <2> QED
    BY <1>1, <2>1, <2>2 DEF InspectFull, ReadFails
<1>2. CASE InspectFinal(j)
  <2>1. ASSUME ReadyToAnnounce(j), Goto(j, "patch"), NoMutation PROVE StepSound(j)
    <3>1. Plan[j] \subseteq releases[job[j].id].assets
      BY <2>1 DEF ReadyToAnnounce, HasFull
    <3> QED
      BY <1>0, <1>j, <1>p, <2>1, <3>1, GoesSound
  <2>2. ASSUME ReadyToAnnounce(j), ~NeedsPatch(j), Finish(j, "complete"), NoMutation
        PROVE  StepSound(j)
    BY <1>c, <2>2 DEF ReadyToAnnounce, HasFull, NeedsPatch, NotesVisible
  <2>3. ASSUME Finish(j, "failed"), NoMutation PROVE StepSound(j)
    BY <1>f, <2>3
  <2> QED
    BY <1>2, <2>1, <2>2, <2>3 DEF InspectFinal, ReadFails
<1>3. CASE PatchNotes(j)
  <2> DEFINE q == Request(j, "release_notes_patch", job[j].id, None)
  <2>1. q \in Requests
    BY <1>0, <1>i, RequestTyped DEF Mutations
  <2>2. q.mutation = "release_notes_patch" /\ q.id = job[j].id /\ q.job = j
    BY DEF Request
  <2>3. ReqSound(q)
    BY <1>3, <1>j, <1>s, <2>2 DEF ReqSound, PatchSound, PatchNotes, FullSound
  <2>4. Mutate(j, q, "patched")
    BY <1>3 DEF PatchNotes
  <2> HIDE DEF q
  <2> QED
    BY <1>j, <1>p, <2>1, <2>2, <2>3, <2>4, MutateSound
<1>4. CASE ReadNotes(j)
  <2>1. ASSUME ReadyToAnnounce(j), NotesVisible(j, job[j].id), Finish(j, "complete"), NoMutation
        PROVE  StepSound(j)
    BY <1>c, <2>1 DEF ReadyToAnnounce, HasFull, NotesVisible
  <2>2. ASSUME Finish(j, "outcome_unknown"), NoMutation PROVE StepSound(j)
    BY <1>f, <2>2
  <2> QED
    BY <1>4, <2>1, <2>2 DEF ReadNotes, ReadFails
<1> QED
  BY <1>1, <1>2, <1>3, <1>4 DEF FullStep

LEMMA LoopStepSound ==
    ASSUME TypeOK, Strong, Sound, NEW j \in Jobs, LoopStep(j)
    PROVE  StepSound(j)
<1>0. JobsTyped /\ ReleasesTyped
  BY DEF TypeOK, JobsTyped, ReleasesTyped
<1>s. JobSound(j) /\ DraftsPlain /\ job[j].pc # "idle"
      /\ (j \in StandardJobs => StandardSound(j)) /\ (j \in FullJobs => FullSound(j))
  BY DEF Sound, JobSound, LoopStep, CheckAsset, UploadAsset, ReadUploaded
<1>f. ASSUME NEW v, v # "complete", Finish(j, v), NoMutation PROVE StepSound(j)
  BY <1>0, <1>s, <1>f, FailsSound
<1>l. ASSUME NoMutation, \A k \in Jobs \ {j} : job'[k] = job[k],
             job'[j].pc \in {"check", "upload"},
             job'[j].id = job[j].id, job'[j].verdict = job[j].verdict,
             j \in StandardJobs => /\ job'[j].todo \subseteq Plan[j]
                                   /\ job'[j].pc = "upload" => job'[j].asset \in Plan[j]
      PROVE  StepSound(j)
  <2>1. Grows => JobSound(j)'
    BY <1>0, <1>s, <1>l, LoopSound
  <2> QED
    BY <1>s, <1>l, <2>1, ReadSound
<1>1. CASE CheckAsset(j)
  <2>1. ASSUME NEW a \in job[j].todo, Skip(j, a), NoMutation PROVE StepSound(j)
    <3>0. job[j].pc = "check" /\ job' = [job EXCEPT ![j].todo = @ \ {a}]
      BY <1>1, <2>1 DEF Skip, CheckAsset
    <3>1. job'[j].pc = "check" /\ job'[j].id = job[j].id /\ job'[j].verdict = job[j].verdict
          /\ job'[j].todo = job[j].todo \ {a} /\ \A k \in Jobs \ {j} : job'[k] = job[k]
      BY <1>0, <3>0 DEF JobsTyped, Progress
    <3> QED
      BY <1>s, <1>l, <2>1, <3>1 DEF StandardSound
  <2>2. ASSUME NEW a \in job[j].todo, NoMutation,
               job' = [job EXCEPT ![j].pc = "upload", ![j].asset = a]
        PROVE  StepSound(j)
    <3>1. job'[j].pc = "upload" /\ job'[j].id = job[j].id /\ job'[j].verdict = job[j].verdict
          /\ job'[j].todo = job[j].todo /\ job'[j].asset = a
          /\ \A k \in Jobs \ {j} : job'[k] = job[k]
      BY <1>0, <2>2 DEF JobsTyped, Progress
    <3> QED
      BY <1>s, <1>l, <2>2, <3>1 DEF StandardSound
  <2>3. ASSUME Finish(j, "failed"), NoMutation PROVE StepSound(j)
    BY <1>f, <2>3
  <2> QED
    BY <1>1, <2>1, <2>2, <2>3 DEF CheckAsset, ReadFails
<1>2. CASE UploadAsset(j)
  <2>1. PICK i \in UploadTargets(j) :
          Mutate(j, Request(j, "asset_upload", i, job[j].asset), "uploaded")
    BY <1>2 DEF UploadAsset
  <2>2. i \in StandardJobs \cup {None} /\ job[j].asset \in Assets
    BY <1>0, <1>2 DEF UploadTargets, ByTag, Published, Drafts, UploadAsset, JobsTyped, Progress
  <2> DEFINE q == Request(j, "asset_upload", i, job[j].asset)
  <2>3. q \in Requests
    BY <1>0, <2>2, RequestTyped DEF Mutations
  <2>4. q.mutation = "asset_upload" /\ q.id = i /\ q.asset = job[j].asset
    BY DEF Request
  <2>5. job[j].asset.name \notin Names => i \in Published
    <3>1. CASE j \in StandardJobs
      <4>1. job[j].asset \in Plan[j]
        BY <1>2, <1>s, <3>1 DEF StandardSound, UploadAsset
      <4> QED
        BY <3>1, <4>1, StandardPlans DEF NamesOf
    <3>2. CASE j \in FullJobs
      <4>1. Published # {}
        BY <1>2, <1>s, <3>2 DEF FullSound, UploadAsset
      <4> QED
        BY <4>1 DEF UploadTargets, ByTag
    <3> QED
      BY <3>1, <3>2 DEF Jobs
  <2>6. ReqSound(q)
    BY <2>4, <2>5 DEF ReqSound
  <2>7. Mutate(j, q, "uploaded")
    BY <2>1
  <2> HIDE DEF q
  <2> QED
    BY <1>s, <2>3, <2>4, <2>6, <2>7, MutateSound DEF StandardPcs, FullPcs
<1>3. CASE ReadUploaded(j)
  <2>1. ASSUME job' = [job EXCEPT ![j].pc = "check", ![j].todo = @ \ {job[j].asset}], NoMutation
        PROVE  StepSound(j)
    <3>1. job'[j].pc = "check" /\ job'[j].id = job[j].id /\ job'[j].verdict = job[j].verdict
          /\ job'[j].todo = job[j].todo \ {job[j].asset}
          /\ \A k \in Jobs \ {j} : job'[k] = job[k]
      BY <1>0, <2>1 DEF JobsTyped, Progress
    <3> QED
      BY <1>s, <1>l, <2>1, <3>1 DEF StandardSound
  <2>2. ASSUME NEW v \in {"failed", "outcome_unknown"}, Finish(j, v), NoMutation
        PROVE  StepSound(j)
    BY <1>f, <2>2
  <2> QED
    BY <1>3, <2>1, <2>2 DEF ReadUploaded, ReadFails
<1> QED
  BY <1>1, <1>2, <1>3 DEF LoopStep

LEMMA SoundInit == Init => Sound /\ Lifecycle!Init
<1> SUFFICES ASSUME Init PROVE Sound /\ Lifecycle!Init
  OBVIOUS
<1>1. Published = {} /\ Public = {}
  BY DEF Init, Absent, Published, Public
<1>2. DraftsPlain
  BY DEF Init, Absent, DraftsPlain, NamesOf
<1>3. ASSUME NEW j \in Jobs PROVE JobSound(j)
  BY DEF Init, Idle, JobSound, StandardSound, FullSound, StandardPcs, FullPcs
<1>4. late = {}
  BY DEF Init
<1>5. Lifecycle!Init
  BY <1>1 DEF Lifecycle!Init
<1> QED
  BY <1>2, <1>3, <1>4, <1>5 DEF Sound

LEMMA SoundNext ==
    ASSUME TypeOK, Strong, Sound, [Next]_vars
    PROVE  Sound' /\ LifecycleStep
<1>0. JobsTyped /\ ReleasesTyped /\ PublishedIsExact /\ DraftsPlain /\ Checked
  BY CheckedIsChecked DEF TypeOK, JobsTyped, ReleasesTyped, Strong, Sound
<1>s. ASSUME NEW j \in Jobs, StepSound(j) PROVE Sound' /\ LifecycleStep
  BY <1>s, StepSoundKeeps DEF StepSound
<1>o. ASSUME Grows, DraftsPlain', LifecycleStep, UNCHANGED job, late' \subseteq late
      PROVE  Sound' /\ LifecycleStep
  BY <1>o, StaysSound DEF Sound
<1>1. ASSUME NEW j \in Jobs, Start(j) PROVE StepSound(j)
  <2>1. PICK m \in Modes, i \in IF j \in FullJobs THEN Published ELSE {None} :
            job' = [job EXCEPT ![j].pc = "inspect", ![j].mode = m, ![j].id = i]
    BY <1>1 DEF Start
  <2>2. job'[j].pc = "inspect" /\ job'[j].id = i /\ job'[j].verdict = job[j].verdict
        /\ job'[j].todo = job[j].todo /\ \A k \in Jobs \ {j} : job'[k] = job[k]
    BY <1>0, <2>1 DEF JobsTyped, Progress
  <2>3. JobSound(j)
    BY DEF Sound
  <2>4. StandardSound(j) => StandardSound(j)'
    BY <2>2 DEF StandardSound, StandardPcs
  <2>5. Grows /\ j \in FullJobs => FullSound(j)'
    BY <2>1, <2>2 DEF FullSound, FullPcs, Grows
  <2>6. Grows => JobSound(j)'
    BY <2>2, <2>3, <2>4, <2>5, StaysSound DEF JobSound
  <2> QED
    BY <1>0, <1>1, <2>2, <2>6, ReadSound DEF Start
<1>2. ASSUME NEW j \in Jobs, Crash(j) PROVE StepSound(j)
  BY <1>0, <1>2, FailsSound DEF Crash, Running
<1>3. ASSUME NEW j \in Jobs, JobStep(j) PROVE StepSound(j)
  BY <1>3, StandardStepSound, FullStepSound, LoopStepSound DEF JobStep
<1>4. ASSUME NEW q \in late, Land(q) PROVE Sound' /\ LifecycleStep
  <2>1. q \in Requests /\ ReqSound(q)
    BY DEF TypeOK, Sound
  <2>2. q.mutation = "release_publish" => HoldsOneBuild(q.id)
    BY <1>0 DEF Checked, OneBuilds
  <2>3. Grows /\ DraftsPlain' /\ LifecycleStep
    BY <1>0, <1>4, <2>1, <2>2, ApplyGrows DEF Land
  <2> QED
    BY <1>4, <1>o, <2>3 DEF Land
<1>5. ASSUME NEW q \in late, Drop(q) PROVE Sound' /\ LifecycleStep
  BY <1>0, <1>5, <1>o, SameGrows DEF Drop
<1>6. ASSUME NEW i \in StandardJobs, EditNotes(i) \/ \E a \in Followers : AppendFollower(i, a)
      PROVE  Sound' /\ LifecycleStep
  <2>1. Grows /\ DraftsPlain' /\ LifecycleStep
    BY <1>0, <1>6, OthersGrow
  <2> QED
    BY <1>6, <1>o, <2>1 DEF EditNotes, AppendFollower
<1>7. CASE UNCHANGED vars
  BY <1>0, <1>7, <1>o, SameGrows DEF vars
<1> QED
  BY <1>1, <1>2, <1>3, <1>4, <1>5, <1>6, <1>7, <1>s DEF Next

\* A verdict of complete was true and stays true: the files of the job are
\* public and, for a Full job, announced (ReadPublished, InspectFinal, ReadNotes).
THEOREM CompleteStaysTrue == Spec => []CompleteIsTrue
<1>1. Init => Sound
  BY SoundInit
<1>2. IInv /\ Sound /\ [Next]_vars => Sound'
  BY SoundNext DEF IInv, Strong
<1>3. Sound => CompleteIsTrue
  BY DEF Sound, JobSound, Evidence, CompleteIsTrue
<1> QED
  BY <1>1, <1>2, <1>3, Inductive, PTL DEF Spec

\* The jobs of one tag, with all their faults, implement its life cycle: public
\* once, with one build; files only appended; Full announced when it is there.
THEOREM JobsFollowLifecycle == Spec => ImplementsLifecycle
<1>1. Init => Sound /\ Lifecycle!Init
  BY SoundInit
<1>2. IInv /\ Sound /\ [Next]_vars => Sound' /\ LifecycleStep
  BY SoundNext DEF IInv, Strong
<1> QED
  BY <1>1, <1>2, Inductive, PTL
     DEF Spec, ImplementsLifecycle, Lifecycle!Spec, Lifecycle!vars, LifecycleStep
-----------------------------------------------------------------------------
(* What a job sends, it sends once, and only when it was admitted: a job    *)
(* passes its inspection only if it executes and holds its record, or finds *)
(* no draft to go on with; it creates before it uploads, removes a file     *)
(* from its list once it was uploaded, and ends with its last mutation.     *)
Admitted(j) == job[j].mode = "execute" /\ (j \in StandardJobs => j \in Authorised)
Unsent(j, s) == sent[j][s] = 0
Upload(a) == <<"asset_upload", a>>
LastOnes == {<<"release_publish", None>>, <<"release_notes_patch", None>>}
Early == {"idle", "inspect", "reinspect", "tagref", "create"}
Looping == {"check", "upload", "uploaded"}

Frugal(j) ==
    /\ \A s \in Subjects : sent[j][s] <= 1
    /\ (\E s \in Subjects : ~Unsent(j, s)) => Admitted(j)
    /\ job[j].pc \notin {"idle", "inspect", "done"} => Admitted(j)
    /\ job[j].pc \in Early => \A s \in Subjects : Unsent(j, s)
    /\ job[j].pc \in Looping \cup {"created", "publish", "patch"} =>
          \A s \in LastOnes : Unsent(j, s)
    /\ job[j].pc = "created" => \A a \in Assets : Unsent(j, Upload(a))
    /\ job[j].pc \in Looping =>
          \A a \in job[j].todo :
              Unsent(j, Upload(a)) \/ (job[j].pc = "uploaded" /\ a = job[j].asset)
    /\ job[j].pc = "upload" => job[j].asset \in job[j].todo

LEMMA SubjectsFacts ==
    /\ LastOnes \subseteq Subjects
    /\ \A a \in Assets : Upload(a) \in Subjects /\ Upload(a) \notin LastOnes
    /\ <<"release_create", None>> \in Subjects
    /\ <<"release_create", None>> \notin LastOnes
    /\ \A a \in Assets : Upload(a) # <<"release_create", None>>
    /\ \A a, b \in Assets : Upload(a) = Upload(b) => a = b
BY DEF LastOnes, Subjects, Upload, Mutations

\* Only what its own step does changes what is known of a job.
Steps(j) == Frugal(j)' /\ \A k \in Jobs \ {j} : job'[k] = job[k] /\ sent'[k] = sent[k]

LEMMA StepsKeep ==
    ASSUME \A k \in Jobs : Frugal(k), NEW j \in Jobs, Steps(j)
    PROVE  \A k \in Jobs : Frugal(k)'
<1>1. ASSUME NEW k \in Jobs \ {j} PROVE Frugal(k)'
  BY <1>1 DEF Steps, Frugal, Admitted, Unsent
<1> QED
  BY <1>1 DEF Steps

LEMMA FinishFrugal ==
    ASSUME JobsTyped, NEW j \in Jobs, Frugal(j), NEW v, Finish(j, v), sent' = sent
    PROVE  Steps(j)
<1>1. /\ job'[j].pc = "done" /\ job'[j].mode = job[j].mode
      /\ \A k \in Jobs \ {j} : job'[k] = job[k]
  BY DEF Finish, JobsTyped, Progress
<1>2. Frugal(j)'
  BY <1>1 DEF Frugal, Admitted, Unsent, Early, Looping
<1> QED
  BY <1>1, <1>2 DEF Steps

\* A job that has sent nothing yet goes on to a place before its uploads.
LEMMA EarlyFrugal ==
    ASSUME JobsTyped, NEW j \in Jobs, Frugal(j), job[j].pc \in Early, Admitted(j),
           NEW p \in Early, Goto(j, p), sent' = sent
    PROVE  Steps(j)
<1>1. /\ job'[j].pc = p /\ job'[j].mode = job[j].mode
      /\ \A k \in Jobs \ {j} : job'[k] = job[k]
  BY DEF Goto, JobsTyped, Progress
<1>2. Frugal(j)'
  BY <1>1 DEF Frugal, Admitted, Unsent, Early, Looping
<1> QED
  BY <1>1, <1>2 DEF Steps

\* A job that has sent no upload and nothing final enters its loop.
LEMMA EnterFrugal ==
    ASSUME JobsTyped, NEW j \in Jobs, Frugal(j), job[j].pc \in Early \cup {"created"}, Admitted(j),
           job'[j].pc = "check", job'[j].mode = job[j].mode, job'[j].todo \subseteq Assets,
           \A k \in Jobs \ {j} : job'[k] = job[k], sent' = sent
    PROVE  Steps(j)
<1>1. \A s \in LastOnes : Unsent(j, s)
  BY SubjectsFacts DEF Frugal
<1>2. \A a \in Assets : Unsent(j, Upload(a))
  BY SubjectsFacts DEF Frugal
<1>3. Frugal(j)'
  BY <1>1, <1>2 DEF Frugal, Admitted, Unsent, Early, Looping
<1> QED
  BY <1>3 DEF Steps

LEMMA SettleFrugal ==
    ASSUME JobsTyped, NEW j \in Jobs, Frugal(j), job[j].pc \in Early \cup {"created"},
           NEW i, HasIdentity(i, "draft") => Admitted(j), Settle(j, i), sent' = sent
    PROVE  Steps(j)
<1>1. CASE HasIdentity(i, "draft") /\ Track(j, i)
  <2>1. /\ job'[j].pc = "check" /\ job'[j].mode = job[j].mode /\ job'[j].todo = Plan[j]
        /\ \A k \in Jobs \ {j} : job'[k] = job[k]
    BY <1>1 DEF Track, JobsTyped, Progress
  <2>2. Plan[j] \subseteq Assets
    BY DEF Assets
  <2> QED
    BY <1>1, <2>1, <2>2, EnterFrugal
<1>2. CASE \E v : Finish(j, v)
  BY <1>2, FinishFrugal
<1> QED
  BY <1>1, <1>2 DEF Settle

\* A mutation not sent before is sent once.
LEMMA MutateFrugal ==
    ASSUME JobsTyped, SentTyped, NEW j \in Jobs, Frugal(j), Admitted(j),
           NEW q, Subject(q) \in Subjects, Unsent(j, Subject(q)),
           NEW p \in {"created", "uploaded", "published", "patched"}, Mutate(j, q, p),
           p = "created" => Subject(q) = <<"release_create", None>>
                            /\ \A s \in Subjects : Unsent(j, s),
           p = "uploaded" => /\ Subject(q) = Upload(job[j].asset) /\ job[j].asset \in Assets
                             /\ \A s \in LastOnes : Unsent(j, s)
                             /\ \A a \in job[j].todo : Unsent(j, Upload(a))
    PROVE  Steps(j)
<1>1. CASE Elapsed(j)
  BY <1>1, FinishFrugal DEF Elapsed, NoMutation
<1>2. CASE sent' = [sent EXCEPT ![j][Subject(q)] = @ + 1] /\ ~Elapsed(j)
  <2>1. /\ sent'[j][Subject(q)] = 1 /\ \A k \in Jobs \ {j} : sent'[k] = sent[k]
        /\ \A s \in Subjects : s # Subject(q) => sent'[j][s] = sent[j][s]
    BY <1>2 DEF SentTyped, Unsent
  <2>2. \A s \in Subjects : sent'[j][s] <= 1
    BY <2>1 DEF Frugal, SentTyped
  <2>3. CASE \E v : Finish(j, v)
    <3>1. /\ job'[j].pc = "done" /\ job'[j].mode = job[j].mode
          /\ \A k \in Jobs \ {j} : job'[k] = job[k]
      BY <2>3 DEF Finish, JobsTyped, Progress
    <3>2. Frugal(j)'
      BY <2>2, <3>1 DEF Frugal, Admitted, Early, Looping
    <3> QED
      BY <2>1, <3>1, <3>2 DEF Steps
  <2>4. CASE Goto(j, p)
    <3>1. /\ job'[j].pc = p /\ job'[j].mode = job[j].mode /\ job'[j].todo = job[j].todo
          /\ job'[j].asset = job[j].asset /\ \A k \in Jobs \ {j} : job'[k] = job[k]
      BY <2>4 DEF Goto, JobsTyped, Progress
    <3>2. p \in {"created", "uploaded"} => \A s \in LastOnes : Unsent(j, s)'
      BY <2>1, SubjectsFacts DEF Unsent
    <3>3. p = "created" => \A a \in Assets : Unsent(j, Upload(a))'
      BY <2>1, SubjectsFacts DEF Unsent
    <3>4. p = "uploaded" => \A a \in job[j].todo \ {job[j].asset} : Unsent(j, Upload(a))'
      <4>1. job[j].todo \subseteq Assets
        BY DEF JobsTyped, Progress
      <4> QED
        BY <2>1, <4>1, SubjectsFacts DEF Unsent
    <3>5. Frugal(j)'
      BY <2>2, <3>1, <3>2, <3>3, <3>4 DEF Frugal, Admitted, Early, Looping
    <3> QED
      BY <2>1, <3>1, <3>5 DEF Steps
  <2> QED
    BY <1>2, <2>3, <2>4 DEF Mutate, Rejected, NoReply, Accepted, AfterUnknown
<1> QED
  BY <1>1, <1>2 DEF Mutate

LEMMA StandardStepFrugal ==
    ASSUME TypeOK, NEW j \in Jobs, Frugal(j), StandardStep(j)
    PROVE  Steps(j)
<1>0. JobsTyped /\ SentTyped
  BY DEF TypeOK, JobsTyped, SentTyped
<1>f. ASSUME NEW v, Finish(j, v), NoMutation PROVE Steps(j)
  BY <1>0, <1>f, FinishFrugal DEF NoMutation
<1>e. ASSUME Ensure(j), job[j].pc \in Early, Admitted(j) PROVE Steps(j)
  BY <1>0, <1>e, SettleFrugal, EarlyFrugal DEF Ensure, NoMutation, Early
<1>1. CASE Inspect(j)
  <2>0. j \in StandardJobs /\ job[j].pc = "inspect" /\ job[j].pc \in Early
    BY <1>1 DEF Inspect, Early
  <2>m. job[j].mode \in {"execute", "rehearsal", "reconcile_only"}
    BY <1>0, ModesAssumption DEF JobsTyped, Progress
  <2>1. ASSUME NEW b \in BOOLEAN, InspectStandard(j, b) PROVE Steps(j)
    <3>1. CASE \E v : Finish(j, v) /\ NoMutation
      BY <1>f, <3>1
    <3>2. CASE /\ job[j].mode = "execute" /\ (NeedsAuthority(b) => j \in Authorised)
               /\ IF b THEN Ensure(j) ELSE Goto(j, "reinspect") /\ NoMutation
      <4>1. CASE j \in Authorised
        <5>1. Admitted(j)
          BY <3>2, <4>1 DEF Admitted
        <5> QED
          BY <1>0, <1>e, <2>0, <3>2, <5>1, EarlyFrugal DEF NoMutation, Early
      <4>2. CASE j \notin Authorised
        <5>1. b /\ Published # {} /\ Ensure(j)
          BY <3>2, <4>2 DEF NeedsAuthority
        <5>2. PICK i \in Published : Settle(j, i) /\ NoMutation
          BY <5>1 DEF Ensure, ByTag
        <5>3. ~HasIdentity(i, "draft")
          BY DEF HasIdentity, Published
        <5> QED
          BY <1>0, <2>0, <5>2, <5>3, SettleFrugal DEF NoMutation
      <4> QED
        BY <4>1, <4>2
    <3> QED
      BY <2>m, <2>1, <3>1, <3>2 DEF InspectStandard
  <2> QED
    BY <1>1, <2>1 DEF Inspect
<1>2. CASE Reinspect(j)
  <2>1. job[j].pc \in Early /\ Admitted(j)
    BY <1>2 DEF Reinspect, Early, Frugal
  <2> QED
    BY <1>2, <1>e, <1>f, <2>1 DEF Reinspect, ReadFails
<1>3. CASE InspectTagRef(j)
  <2>1. job[j].pc \in Early /\ Admitted(j) /\ "create" \in Early
    BY <1>3 DEF InspectTagRef, Early, Frugal
  <2> QED
    BY <1>0, <1>3, <1>f, <2>1, EarlyFrugal DEF InspectTagRef, ReadFails, Verified, NoMutation
<1>4. CASE CreateRelease(j)
  <2> DEFINE q == Request(j, "release_create", None, None)
  <2>1. Admitted(j) /\ \A s \in Subjects : Unsent(j, s)
    BY <1>4 DEF CreateRelease, Frugal, Early
  <2>2. Subject(q) = <<"release_create", None>> /\ Mutate(j, q, "created")
    BY <1>4 DEF Subject, Request, CreateRelease
  <2> HIDE DEF q
  <2> QED
    BY <1>0, <2>1, <2>2, SubjectsFacts, MutateFrugal
<1>5. CASE ReadCreated(j)
  <2>1. job[j].pc \in Early \cup {"created"} /\ Admitted(j)
    BY <1>5 DEF ReadCreated, Early, Frugal
  <2> QED
    BY <1>0, <1>5, <1>f, <2>1, SettleFrugal DEF ReadCreated, ReadFails, NoMutation
<1>6. CASE InspectDraft(j)
  <2>1. ASSUME Goto(j, "publish"), NoMutation PROVE Steps(j)
    <3>1. /\ job'[j].pc = "publish" /\ job'[j].mode = job[j].mode /\ sent' = sent
          /\ \A k \in Jobs \ {j} : job'[k] = job[k]
      BY <1>0, <2>1 DEF Goto, JobsTyped, Progress, NoMutation
    <3>2. Frugal(j)'
      BY <1>6, <3>1 DEF Frugal, Admitted, Unsent, Early, Looping, InspectDraft
    <3> QED
      BY <3>1, <3>2 DEF Steps
  <2> QED
    BY <1>6, <1>f, <2>1 DEF InspectDraft, ReadFails, Verified
<1>7. CASE PublishDraft(j)
  <2> DEFINE q == Request(j, "release_publish", job[j].id, None)
  <2>1. Admitted(j) /\ \A s \in LastOnes : Unsent(j, s)
    BY <1>7 DEF PublishDraft, Frugal, Looping
  <2>2. Subject(q) = <<"release_publish", None>> /\ Mutate(j, q, "published")
    BY <1>7 DEF Subject, Request, PublishDraft
  <2>3. Subject(q) \in LastOnes /\ Subject(q) \in Subjects
    BY <2>2, SubjectsFacts DEF LastOnes
  <2> HIDE DEF q
  <2> QED
    BY <1>0, <2>1, <2>2, <2>3, MutateFrugal
<1>8. CASE ReadPublished(j)
  BY <1>8, <1>f DEF ReadPublished, ReadFails
<1> QED
  BY <1>1, <1>2, <1>3, <1>4, <1>5, <1>6, <1>7, <1>8 DEF StandardStep

LEMMA FullStepFrugal ==
    ASSUME TypeOK, NEW j \in Jobs, Frugal(j), FullStep(j)
    PROVE  Steps(j)
<1>0. JobsTyped /\ SentTyped
  BY DEF TypeOK, JobsTyped, SentTyped
<1>f. ASSUME NEW v, Finish(j, v), NoMutation PROVE Steps(j)
  BY <1>0, <1>f, FinishFrugal DEF NoMutation
<1>1. CASE InspectFull(j)
  <2>1. ASSUME NEW i, Capture(j, i), NoMutation, job[j].mode = "execute" PROVE Steps(j)
    <3>1. /\ job'[j].pc = "check" /\ job'[j].mode = job[j].mode /\ job'[j].todo = Plan[j]
          /\ \A k \in Jobs \ {j} : job'[k] = job[k]
      BY <1>0, <2>1 DEF Capture, JobsTyped, Progress
    <3>2. Plan[j] \subseteq Assets /\ job[j].pc \in Early /\ Admitted(j)
      BY <1>1, <2>1, DisjointJobs DEF Assets, InspectFull, Early, Admitted
    <3> QED
      BY <1>0, <2>1, <3>1, <3>2, EnterFrugal DEF NoMutation
  <2> QED
    BY <1>1, <1>f, <2>1 DEF InspectFull, ReadFails
<1>2. CASE InspectFinal(j)
  <2>1. ASSUME Goto(j, "patch"), NoMutation PROVE Steps(j)
    <3>1. /\ job'[j].pc = "patch" /\ job'[j].mode = job[j].mode /\ sent' = sent
          /\ \A k \in Jobs \ {j} : job'[k] = job[k]
      BY <1>0, <2>1 DEF Goto, JobsTyped, Progress, NoMutation
    <3>2. Frugal(j)'
      BY <1>2, <3>1 DEF Frugal, Admitted, Unsent, Early, Looping, InspectFinal
    <3> QED
      BY <3>1, <3>2 DEF Steps
  <2> QED
    BY <1>2, <1>f, <2>1 DEF InspectFinal, ReadFails
<1>3. CASE PatchNotes(j)
  <2> DEFINE q == Request(j, "release_notes_patch", job[j].id, None)
  <2>1. Admitted(j) /\ \A s \in LastOnes : Unsent(j, s)
    BY <1>3 DEF PatchNotes, Frugal, Looping
  <2>2. Subject(q) = <<"release_notes_patch", None>> /\ Mutate(j, q, "patched")
    BY <1>3 DEF Subject, Request, PatchNotes
  <2>3. Subject(q) \in LastOnes /\ Subject(q) \in Subjects
    BY <2>2, SubjectsFacts DEF LastOnes
  <2> HIDE DEF q
  <2> QED
    BY <1>0, <2>1, <2>2, <2>3, MutateFrugal
<1>4. CASE ReadNotes(j)
  BY <1>4, <1>f DEF ReadNotes, ReadFails
<1> QED
  BY <1>1, <1>2, <1>3, <1>4 DEF FullStep

LEMMA LoopStepFrugal ==
    ASSUME TypeOK, NEW j \in Jobs, Frugal(j), LoopStep(j)
    PROVE  Steps(j)
<1>0. JobsTyped /\ SentTyped
  BY DEF TypeOK, JobsTyped, SentTyped
<1>f. ASSUME NEW v, Finish(j, v), NoMutation PROVE Steps(j)
  BY <1>0, <1>f, FinishFrugal DEF NoMutation
<1>1. CASE CheckAsset(j)
  <2>1. ASSUME NEW a \in job[j].todo, NoMutation,
               Skip(j, a) \/ job' = [job EXCEPT ![j].pc = "upload", ![j].asset = a]
        PROVE  Steps(j)
    <3>1. /\ job[j].pc = "check" /\ job'[j].mode = job[j].mode /\ sent' = sent
          /\ \A k \in Jobs \ {j} : job'[k] = job[k]
          /\ job'[j].todo \subseteq job[j].todo
          /\ \/ job'[j].pc = "check"
             \/ job'[j].pc = "upload" /\ job'[j].asset \in job'[j].todo
      BY <1>0, <1>1, <2>1 DEF Skip, JobsTyped, Progress, NoMutation, CheckAsset
    <3>2. Frugal(j)'
      BY <3>1 DEF Frugal, Admitted, Unsent, Early, Looping
    <3> QED
      BY <3>1, <3>2 DEF Steps
  <2> QED
    BY <1>1, <1>f, <2>1 DEF CheckAsset, ReadFails
<1>2. CASE UploadAsset(j)
  <2>1. PICK i \in UploadTargets(j) :
          Mutate(j, Request(j, "asset_upload", i, job[j].asset), "uploaded")
    BY <1>2 DEF UploadAsset
  <2> DEFINE q == Request(j, "asset_upload", i, job[j].asset)
  <2>2. Subject(q) = Upload(job[j].asset) /\ Mutate(j, q, "uploaded")
    BY <2>1 DEF Subject, Request, Upload
  <2>3. Admitted(j) /\ (\A s \in LastOnes : Unsent(j, s))
        /\ (\A a \in job[j].todo : Unsent(j, Upload(a))) /\ job[j].asset \in job[j].todo
    BY <1>2 DEF UploadAsset, Frugal, Looping
  <2>4. job[j].asset \in Assets
    BY <1>0, <2>3 DEF JobsTyped, Progress
  <2> HIDE DEF q
  <2> QED
    BY <1>0, <2>2, <2>3, <2>4, SubjectsFacts, MutateFrugal
<1>3. CASE ReadUploaded(j)
  <2>1. ASSUME job' = [job EXCEPT ![j].pc = "check", ![j].todo = @ \ {job[j].asset}], NoMutation
        PROVE  Steps(j)
    <3>1. /\ job[j].pc = "uploaded" /\ job'[j].pc = "check" /\ job'[j].mode = job[j].mode
          /\ \A k \in Jobs \ {j} : job'[k] = job[k]
          /\ job'[j].todo = job[j].todo \ {job[j].asset} /\ sent' = sent
      BY <1>0, <1>3, <2>1 DEF JobsTyped, Progress, NoMutation, ReadUploaded
    <3>2. Frugal(j)'
      BY <3>1 DEF Frugal, Admitted, Unsent, Early, Looping
    <3> QED
      BY <3>1, <3>2 DEF Steps
  <2> QED
    BY <1>3, <1>f, <2>1 DEF ReadUploaded, ReadFails
<1> QED
  BY <1>1, <1>2, <1>3 DEF LoopStep

LEMMA FrugalNext ==
    ASSUME TypeOK, \A k \in Jobs : Frugal(k), [Next]_vars
    PROVE  \A k \in Jobs : Frugal(k)'
<1>0. JobsTyped /\ SentTyped
  BY DEF TypeOK, JobsTyped, SentTyped
<1>u. ASSUME UNCHANGED <<job, sent>> PROVE \A k \in Jobs : Frugal(k)'
  BY <1>u DEF Frugal, Admitted, Unsent
<1>1. ASSUME NEW j \in Jobs, Start(j) PROVE Steps(j)
  <2>1. PICK m \in Modes, i \in IF j \in FullJobs THEN Published ELSE {None} :
            job' = [job EXCEPT ![j].pc = "inspect", ![j].mode = m, ![j].id = i]
    BY <1>1 DEF Start
  <2>2. /\ job[j].pc = "idle" /\ job'[j].pc = "inspect" /\ sent' = sent
        /\ \A k \in Jobs \ {j} : job'[k] = job[k]
    BY <1>0, <1>1, <2>1 DEF JobsTyped, Progress, Start, MayStart, NoMutation
  <2>3. Frugal(j)'
    BY <2>2 DEF Frugal, Unsent, Early, Looping
  <2> QED
    BY <2>2, <2>3 DEF Steps
<1>2. ASSUME NEW j \in Jobs, Crash(j) PROVE Steps(j)
  BY <1>0, <1>2, FinishFrugal DEF Crash, NoMutation
<1>3. ASSUME NEW j \in Jobs, JobStep(j) PROVE Steps(j)
  BY <1>3, StandardStepFrugal, FullStepFrugal, LoopStepFrugal DEF JobStep
<1>4. CASE \/ \E q \in late : Land(q) \/ Drop(q)
           \/ \E i \in StandardJobs : EditNotes(i) \/ \E a \in Followers : AppendFollower(i, a)
           \/ UNCHANGED vars
  BY <1>4, <1>u DEF Land, Drop, EditNotes, AppendFollower, vars
<1> QED
  BY <1>1, <1>2, <1>3, <1>4, StepsKeep DEF Next

LEMMA AlwaysFrugal == Spec => [](\A k \in Jobs : Frugal(k))
<1>1. Init => \A k \in Jobs : Frugal(k)
  BY DEF Init, Idle, Frugal, Unsent, Early, Looping
<1>2. IInv /\ (\A k \in Jobs : Frugal(k)) /\ [Next]_vars => (\A k \in Jobs : Frugal(k))'
  BY FrugalNext DEF IInv
<1> QED
  BY <1>1, <1>2, Inductive, PTL DEF Spec

\* A job sends no mutation twice (mutationAttemptId), whatever its replies.
THEOREM NothingTwice == Spec => []SentOnce
<1>1. (\A k \in Jobs : Frugal(k)) => SentOnce
  BY DEF Frugal, SentOnce
<1> QED
  BY <1>1, AlwaysFrugal, PTL

\* Whoever mutates executes, and holds a publication record if it is a Standard
\* job: the path on which the record is not checked ends in the inspection.
THEOREM OnlyAdmittedMutate == Spec => []MutationIsAdmitted
<1>1. IInv /\ (\A k \in Jobs : Frugal(k)) => MutationIsAdmitted
  BY DEF Frugal, Admitted, Unsent, MutationIsAdmitted, IInv, TypeOK
<1> QED
  BY <1>1, AlwaysFrugal, Inductive, PTL
=============================================================================
