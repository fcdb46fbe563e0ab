----------------------------- MODULE MacAppProofs -----------------------------
(***************************************************************************)
(* The App on its way to a Mac: NotarizeDmg (what a failed notarisation    *)
(* advises), HomebrewTap (the casks that name a release) and ManualInstall *)
(* (the App an installation replaces). The three share nothing.            *)
(***************************************************************************)
EXTENDS NotarizeDmg, HomebrewTap, ManualInstall, TLAPS

-----------------------------------------------------------------------------
(* The notarisation of a DMG, for any number of signing attempts.          *)
NotaryStages ==
    {"sign", "submit", "wait", "staple", "publish", "record", "passed", "failed",
     "killed"}
FileDigests == {NoDigest, PlainDigest("signed")}
Advices == {"none", "new_operation", "reconcile_submission", "reconcile_history"}

NotaryTyped ==
    /\ apple \in {"none", "open", "accepted", "rejected"}
    /\ notary \in [stage : NotaryStages, tries : Nat, id : BOOLEAN, digest : FileDigests]
    /\ receipt \in [written : BOOLEAN, passed : BOOLEAN, id : BOOLEAN,
                    digest : FileDigests, retained : BOOLEAN, advice : Advices]

(* A submission exists only after the submit step, its id is known from    *)
(* the wait on, and only a failure advises.                                *)
NotaryInv ==
    /\ NotaryTyped
    /\ notary.stage \in {"sign", "submit"} => apple = "none" /\ ~notary.id
    /\ notary.stage \in {"wait", "staple", "publish", "record"} =>
           notary.id /\ apple # "none"
    /\ notary.stage # "failed" => receipt.advice = "none"
    /\ AdviceIsSafe

(* Before the notarisation nothing is written.                             *)
LEMMA NotaryStart == NotaryInit => NotaryInv
  BY DEF NotaryInit, NotaryInv, NotaryTyped, NotaryStages, FileDigests, Advices,
         AdviceIsSafe, Unwritten

(* Without an id only the submit step does not know what Apple holds; with *)
(* one, only a rejection permits a new operation.                          *)
LEMMA FailureAdvisesSafely ==
  ASSUME NotaryInv, NEW status, NEW file, Fails(notary.stage, status, file),
         notary.stage \notin {"passed", "failed", "killed"},
         apple' = apple \/ (notary.stage = "submit" /\ apple' \in {"none", "open"}),
         status = "rejected" => apple = "rejected"
  PROVE  NotaryInv'
  <1> DEFINE advice == Advice(notary.id, status, notary.stage)
  <1>1. notary' = [notary EXCEPT !.stage = "failed"]
    BY DEF Fails
  <1>2. notary \in [stage : NotaryStages, tries : Nat, id : BOOLEAN, digest : FileDigests]
    BY DEF NotaryInv, NotaryTyped
  <1>3. notary'.stage = "failed"
        /\ notary' \in [stage : NotaryStages, tries : Nat, id : BOOLEAN, digest : FileDigests]
    BY <1>1, <1>2 DEF NotaryStages
  <1>4. CASE UNCHANGED receipt
    BY <1>3, <1>4 DEF NotaryInv, NotaryTyped, AdviceIsSafe
  <1>5. CASE receipt' = [receipt EXCEPT !.written = TRUE, !.id = notary.id,
                           !.digest = notary.digest, !.retained = Retains,
                           !.advice = advice]
    <2>1. advice \in Advices /\ (advice = "new_operation" => apple' \in {"none", "rejected"})
      BY <1>2 DEF Advice, Advices, OutcomeUnknown, Rejected, NotaryInv, NotaryStages
    <2> HIDE DEF advice
    <2>2. receipt'.advice = advice
          /\ receipt' \in [written : BOOLEAN, passed : BOOLEAN, id : BOOLEAN,
                           digest : FileDigests, retained : BOOLEAN, advice : Advices]
      BY <1>2, <1>5, <2>1 DEF NotaryInv, NotaryTyped, Retains
    <2> QED
      BY <1>3, <2>1, <2>2 DEF NotaryInv, NotaryTyped, AdviceIsSafe
  <1> QED
    BY <1>4, <1>5 DEF Fails

(* Every step keeps the advice safe.                                       *)
LEMMA NotaryKeeps == NotaryInv /\ [NotaryNext]_notaryVars => NotaryInv'
  <1> SUFFICES ASSUME NotaryInv, [NotaryNext]_notaryVars PROVE NotaryInv'
    OBVIOUS
  <1>t. NotaryTyped
    BY DEF NotaryInv
  <1>1. CASE PreflightFails
    BY <1>1, FailureAdvisesSafely DEF PreflightFails
  <1>2. CASE Sign
    <2>1. CASE Fails("sign", "none", candidate)
      BY <1>2, <2>1, FailureAdvisesSafely DEF Sign
    <2>2. CASE /\ notary' = [notary EXCEPT !.stage = "submit", !.tries = @ + 1,
                               !.digest = PlainDigest("signed")]
               /\ Persist(FALSE, PlainDigest("signed"))
      <3>1. notary.tries + 1 \in Nat /\ PlainDigest("signed") \in FileDigests
        BY <1>t DEF NotaryTyped, FileDigests
      <3>2. NotaryTyped' /\ notary'.stage = "submit" /\ notary'.id = notary.id
        BY <1>t, <1>2, <2>2, <3>1 DEF Sign, Persist, NotaryTyped, NotaryStages
      <3> QED
        BY <1>2, <2>2, <3>2, <1>t DEF Sign, Persist, NotaryInv, NotaryTyped, AdviceIsSafe
    <2>3. CASE notary' = [notary EXCEPT !.tries = @ + 1] /\ Persist(FALSE, NoDigest)
      <3>1. notary.tries + 1 \in Nat /\ NoDigest \in FileDigests
        BY <1>t DEF NotaryTyped, FileDigests
      <3>2. NotaryTyped' /\ notary'.stage = notary.stage /\ notary'.id = notary.id
        BY <1>t, <1>2, <2>3, <3>1 DEF Sign, Persist, NotaryTyped, NotaryStages
      <3> QED
        BY <1>2, <2>3, <3>2, <1>t DEF Sign, Persist, NotaryInv, NotaryTyped, AdviceIsSafe
    <2> QED
      BY <1>2, <2>1, <2>2, <2>3 DEF Sign
  <1>3. CASE SubmitDmg
    <2>1. CASE Fails("submit", "none", candidate)
      BY <1>3, <2>1, FailureAdvisesSafely DEF SubmitDmg
    <2>2. CASE /\ apple' = "open"
               /\ notary' = [notary EXCEPT !.stage = "wait", !.id = TRUE]
               /\ Persist(TRUE, notary.digest)
      BY <1>t, <1>3, <2>2 DEF SubmitDmg, Persist, NotaryInv, NotaryTyped, AdviceIsSafe,
         NotaryStages
    <2> QED
      BY <1>3, <2>1, <2>2 DEF SubmitDmg
  <1>4. CASE AppleDecides
    BY <1>t, <1>4 DEF AppleDecides, NotaryInv, NotaryTyped, AdviceIsSafe
  <1>5. CASE ReadAnswer
    <2>1. CASE apple = "rejected" /\ Fails("wait", "rejected", candidate)
      BY <1>5, <2>1, FailureAdvisesSafely DEF ReadAnswer
    <2>2. CASE NotaryGoes("staple") /\ UNCHANGED <<candidate, kept, receipt>>
      BY <1>t, <1>5, <2>2 DEF ReadAnswer, NotaryGoes, NotaryInv, NotaryTyped, AdviceIsSafe,
         NotaryStages
    <2>3. apple \in {"accepted", "rejected", "open"}
      BY <1>t, <1>5 DEF ReadAnswer, NotaryInv, NotaryTyped
    <2> QED
      BY <1>5, <2>1, <2>2, <2>3 DEF ReadAnswer
  <1>6. CASE WindowEnds
    BY <1>6, FailureAdvisesSafely DEF WindowEnds
  <1>7. CASE Staple
    <2>1. CASE \E file \in {"signed", "stapled"} : Fails("staple", "accepted", file)
      BY <1>7, <2>1, FailureAdvisesSafely DEF Staple
    <2>2. CASE NotaryGoes("publish") /\ UNCHANGED <<kept, receipt>>
      BY <1>t, <1>7, <2>2 DEF Staple, NotaryGoes, NotaryInv, NotaryTyped, AdviceIsSafe,
         NotaryStages
    <2> QED
      BY <1>7, <2>1, <2>2 DEF Staple
  <1>8. CASE Publish
    <2>1. CASE Fails("publish", "accepted", candidate)
      BY <1>8, <2>1, FailureAdvisesSafely DEF Publish
    <2>2. CASE NotaryGoes("record") /\ UNCHANGED <<kept, receipt>>
      BY <1>t, <1>8, <2>2 DEF Publish, NotaryGoes, NotaryInv, NotaryTyped, AdviceIsSafe,
         NotaryStages
    <2> QED
      BY <1>8, <2>1, <2>2 DEF Publish
  <1>9. CASE RecordPassed
    <2>1. CASE Fails("record", "accepted", candidate)
      BY <1>9, <2>1, FailureAdvisesSafely DEF RecordPassed
    <2>2. CASE NotaryGoes("passed") /\ receipt' = [receipt EXCEPT !.passed = TRUE]
      BY <1>t, <1>9, <2>2 DEF RecordPassed, NotaryGoes, NotaryInv, NotaryTyped,
         AdviceIsSafe, NotaryStages
    <2> QED
      BY <1>9, <2>1, <2>2 DEF RecordPassed
  <1>10. CASE Killed
    BY <1>t, <1>10 DEF Killed, NotaryGoes, NotaryInv, NotaryTyped, AdviceIsSafe, NotaryStages
  <1>11. CASE Seal
    BY <1>11 DEF Seal, NotaryInv, NotaryTyped, AdviceIsSafe
  <1>12. CASE UNCHANGED notaryVars
    BY <1>12 DEF notaryVars, NotaryInv, NotaryTyped, AdviceIsSafe
  <1> QED
    BY <1>1, <1>2, <1>3, <1>4, <1>5, <1>6, <1>7, <1>8, <1>9, <1>10, <1>11, <1>12
       DEF NotaryNext

(* Whatever Apple decides, the tool is told or dies of: a receipt advises  *)
(* a new operation only when Apple holds no submission of the candidate,   *)
(* or has refused it (notarize-macos-dmg.ts, the catch).                   *)
THEOREM AdviceAlwaysSafe == NotarySpec => []AdviceIsSafe
  <1>1. NotaryInv => AdviceIsSafe
    BY DEF NotaryInv
  <1> QED
    BY <1>1, NotaryStart, NotaryKeeps, PTL DEF NotarySpec

-----------------------------------------------------------------------------
(* HomebrewTap: the casks only move forward, for any number of followers,  *)
(* releases and replacements. A commit lands on the head it was made on,   *)
(* and a head names one tree: so the tree a follower cloned is what its    *)
(* commit replaces. Standard reads the release after it cloned, so what it *)
(* writes is at least as new as what it saw.                               *)
Steps == {"idle", "public", "clone", "plan", "reclone", "push", "verify", "done"}
Content == [version : Nat, bytes : Nat]
Tips == TapFollowers \cup {RootCommit}

TapTypes ==
    /\ head \in Tips
    /\ casks \in [Casks -> Content]
    /\ public \in [Versions -> Nat]
    /\ follower \in [TapFollowers ->
           [pc : Steps, base : Tips, seen : [Casks -> Content],
            verdict : {"none", "passed", "failed"}, target : Content]]
    /\ flight \subseteq TapFollowers

(* The bytes of the Standard cask on main were public at some time.        *)
CaskWasPublic ==
    casks["standard"].version \in Versions =>
        casks["standard"].bytes <= public[casks["standard"].version]

Planned(f) == follower[f].pc = "push" \/ f \in flight
HasRead(f) == follower[f].pc \in {"plan", "push"} \/ f \in flight
Unlanded(f) == follower[f].pc \notin {"verify", "done"} \/ f \in flight

(* The head a follower cloned names the tree it cloned.                    *)
HeadNamesTree(f) == follower[f].base = head => follower[f].seen = casks

(* A commit that has not landed is nobody's head.                          *)
Unseen(f) ==
    Unlanded(f) => /\ head # f
                   /\ \A g \in TapFollowers : follower[g].base # f

SeenWasPublic(f) ==
    LET seen == follower[f].seen["standard"]
    IN  seen.version \in Versions => seen.bytes <= public[seen.version]

(* What a Standard follower read is not older than what it saw, and a      *)
(* Nightly one only writes over another version.                           *)
TargetIsNewer(f) ==
    CaskOf[f] = "standard" /\ HasRead(f) =>
        /\ follower[f].target.bytes <= public[ReleaseOf[f]]
        /\ follower[f].seen["standard"].version = ReleaseOf[f]
             => follower[f].seen["standard"].bytes <= follower[f].target.bytes

NightlyIsNew(f) ==
    CaskOf[f] = "nightly" /\ Planned(f) =>
        follower[f].seen["nightly"].version # ReleaseOf[f]

FollowerInv(f) ==
    /\ HeadNamesTree(f) /\ Unseen(f) /\ SeenWasPublic(f)
    /\ TargetIsNewer(f) /\ NightlyIsNew(f)
    /\ follower[f].target.version = ReleaseOf[f]
    /\ f \in flight => follower[f].pc \in {"verify", "done"}
    /\ follower[f].pc = "reclone" => CaskOf[f] = "full"

TapInv == TapTypes /\ CaskWasPublic /\ \A f \in TapFollowers : FollowerInv(f)

LEMMA InitInv == TapInit => TapInv
  <1>1. CASE TapInit
    <2>1. Casks # {} /\ "standard" \in Casks /\ "nightly" \in Casks
      BY DEF Casks
    <2>2. \A f \in TapFollowers : ReleaseOf[f] \in Nat \ {0} /\ ReceiptBytes[f] \in Nat
      BY FollowersAssumption
    <2>3. 0 \notin Versions
      BY <2>2 DEF Versions
    <2>4. TapTypes
      BY <1>1, <2>2 DEF TapInit, TapTypes, Content, Steps, Tips, Released
    <2>5. CaskWasPublic
      BY <1>1, <2>1, <2>3 DEF TapInit, CaskWasPublic, Released
    <2>6. ASSUME NEW f \in TapFollowers PROVE FollowerInv(f)
      <3>1. follower[f].pc = "idle" /\ follower[f].base = RootCommit
            /\ follower[f].seen = casks /\ follower[f].target.version = ReleaseOf[f]
            /\ f \notin flight
        BY <1>1 DEF TapInit
      <3>2. HeadNamesTree(f) /\ TargetIsNewer(f) /\ NightlyIsNew(f)
        BY <3>1 DEF HeadNamesTree, TargetIsNewer, NightlyIsNew, HasRead, Planned
      <3>3. Unseen(f)
        BY <1>1, FollowersAssumption DEF TapInit, Unseen
      <3>4. SeenWasPublic(f)
        BY <1>1, <2>1, <2>3, <3>1 DEF TapInit, SeenWasPublic, Released
      <3> QED
        BY <3>1, <3>2, <3>3, <3>4 DEF FollowerInv
    <2> QED
      BY <2>4, <2>5, <2>6 DEF TapInv
  <1> QED
    BY <1>1

(* A follower that goes on without a commit disturbs no other one.         *)
LEMMA OthersKeep ==
  ASSUME TapInv, MainRests,
         NEW f \in TapFollowers, NEW g \in TapFollowers, g # f,
         follower'[g] = follower[g],
         \A h \in TapFollowers \ {f} : follower'[h] = follower[h],
         follower'[f].base \in {follower[f].base, head}
  PROVE  FollowerInv(g)'
  <1> USE DEF MainRests
  <1>1. FollowerInv(g)
    BY DEF TapInv
  <1>2. HeadNamesTree(g)' /\ SeenWasPublic(g)' /\ TargetIsNewer(g)' /\ NightlyIsNew(g)'
    BY <1>1 DEF FollowerInv, HeadNamesTree, SeenWasPublic, TargetIsNewer, HasRead,
                NightlyIsNew, Planned
  <1>3. Unseen(g)'
    BY <1>1 DEF FollowerInv, Unseen, Unlanded
  <1> QED
    BY <1>1, <1>2, <1>3 DEF FollowerInv

LEMMA StepKeeps ==
  ASSUME TapInv, MainRests, NEW f \in TapFollowers,
         \A h \in TapFollowers \ {f} : follower'[h] = follower[h],
         follower'[f].base \in {follower[f].base, head},
         TapTypes', FollowerInv(f)'
  PROVE  TapInv'
  <1>1. CaskWasPublic'
    BY DEF TapInv, CaskWasPublic, MainRests
  <1>2. \A g \in TapFollowers : FollowerInv(g)'
    BY OthersKeep
  <1> QED
    BY <1>1, <1>2 DEF TapInv

(* A step that keeps what the follower knows and does not reach its push.  *)
LEMMA TurnKeeps ==
  ASSUME TapInv, MainRests, NEW f \in TapFollowers,
         NEW pc \in Steps, NEW verdict \in {"none", "passed", "failed"},
         follower' = [follower EXCEPT ![f].pc = pc, ![f].verdict = verdict],
         follower[f].pc # "done",
         pc \in {"verify", "done"} \/ f \notin flight,
         pc = "reclone" => CaskOf[f] = "full",
         CaskOf[f] = "standard" => (pc \in {"plan", "push"} => HasRead(f)),
         CaskOf[f] = "nightly" /\ pc = "push" =>
             follower[f].seen["nightly"].version # ReleaseOf[f],
         Unlanded(f) \/ pc \in {"verify", "done"}
  PROVE  TapInv'
  <1> USE DEF MainRests
  <1>1. FollowerInv(f) /\ TapTypes
    BY DEF TapInv
  <1>2. TapTypes'
    BY <1>1, ZenonT(30) DEF TapTypes
  <1>3. /\ follower'[f].pc = pc /\ follower'[f].base = follower[f].base
        /\ follower'[f].seen = follower[f].seen /\ follower'[f].target = follower[f].target
    BY <1>1 DEF TapTypes
  <1>4. \A h \in TapFollowers \ {f} : follower'[h] = follower[h]
    BY <1>1 DEF TapTypes
  <1>5. HeadNamesTree(f)' /\ SeenWasPublic(f)'
    BY <1>1, <1>3 DEF FollowerInv, HeadNamesTree, SeenWasPublic
  <1>6. Unseen(f)'
    BY <1>1, <1>3, <1>4, ZenonT(30) DEF FollowerInv, Unseen, Unlanded
  <1>7. TargetIsNewer(f)' /\ NightlyIsNew(f)'
    BY <1>1, <1>3 DEF FollowerInv, TargetIsNewer, HasRead, NightlyIsNew, Planned
  <1>8. FollowerInv(f)'
    BY <1>1, <1>3, <1>5, <1>6, <1>7 DEF FollowerInv
  <1> QED
    BY <1>2, <1>3, <1>4, <1>8, StepKeeps

LEMMA StartKeeps ==
  ASSUME TapInv, NEW f \in TapFollowers, StartFollower(f)
  PROVE  TapInv'
  <1>1. FollowerInv(f) /\ TapTypes
    BY DEF TapInv
  <1>2. PICK pc \in {"public", "clone"} : Turns(f, pc)
    BY DEF StartFollower
  <1>3. follower' = [follower EXCEPT ![f].pc = pc, ![f].verdict = follower[f].verdict]
    BY <1>1, <1>2 DEF Turns, TapTypes
  <1>4. pc \in Steps /\ follower[f].verdict \in {"none", "passed", "failed"}
    BY <1>1 DEF Steps, TapTypes
  <1>5. f \notin flight /\ Unlanded(f) /\ MainRests /\ follower[f].pc # "done"
    BY <1>1 DEF FollowerInv, StartFollower, Unlanded
  <1> QED
    BY <1>3, <1>4, <1>5, TurnKeeps

LEMMA EndKeeps ==
  ASSUME TapInv, NEW f \in TapFollowers, NEW verdict \in {"passed", "failed"},
         follower[f].pc # "done", Ends(f, verdict), MainRests
  PROVE  TapInv'
  <1>1. "done" \in Steps
    BY DEF Steps
  <1> QED
    BY <1>1, TurnKeeps DEF Ends

LEMMA PlanKeeps ==
  ASSUME TapInv, NEW f \in TapFollowers, PlanCask(f)
  PROVE  TapInv'
  <1>1. FollowerInv(f) /\ TapTypes /\ MainRests /\ follower[f].pc = "plan"
    BY DEF TapInv, PlanCask
  <1>2. CASE Conflicts(f)
    BY <1>1, <1>2, EndKeeps DEF PlanCask
  <1>3. CASE ~Conflicts(f)
    <2> DEFINE pc == IF CaskOf[f] = "full" THEN "reclone" ELSE AfterPlan(f)
    <2>1. follower' = [follower EXCEPT ![f].pc = pc, ![f].verdict = follower[f].verdict]
      BY <1>1, <1>3 DEF PlanCask, Turns, TapTypes
    <2>2. pc \in Steps /\ follower[f].verdict \in {"none", "passed", "failed"}
      BY <1>1 DEF Steps, TapTypes, AfterPlan
    <2>3. f \notin flight /\ Unlanded(f) /\ HasRead(f)
      BY <1>1 DEF FollowerInv, Unlanded, HasRead
    <2>4. pc = "reclone" => CaskOf[f] = "full"
      BY DEF AfterPlan
    <2>5. CaskOf[f] = "nightly" /\ pc = "push" => follower[f].seen["nightly"].version # ReleaseOf[f]
      BY <1>3 DEF AfterPlan, Conflicts
    <2> HIDE DEF pc
    <2> QED
      BY <1>1, <2>1, <2>2, <2>3, <2>4, <2>5, TurnKeeps
  <1> QED
    BY <1>2, <1>3

LEMMA RecloneKeeps ==
  ASSUME TapInv, NEW f \in TapFollowers, Reclone(f)
  PROVE  TapInv'
  <1>1. FollowerInv(f) /\ TapTypes /\ MainRests /\ follower[f].pc = "reclone"
    BY DEF TapInv, Reclone
  <1>2. CASE Turns(f, AfterPlan(f))
    <2> DEFINE pc == AfterPlan(f)
    <2>1. follower' = [follower EXCEPT ![f].pc = pc, ![f].verdict = follower[f].verdict]
      BY <1>1, <1>2 DEF Turns, TapTypes
    <2>2. pc \in Steps /\ follower[f].verdict \in {"none", "passed", "failed"}
      BY <1>1 DEF Steps, TapTypes, AfterPlan
    <2>3. f \notin flight /\ Unlanded(f) /\ CaskOf[f] = "full"
      BY <1>1 DEF FollowerInv, Unlanded
    <2>4. pc # "reclone"
      BY DEF AfterPlan
    <2> HIDE DEF pc
    <2> QED
      BY <1>1, <2>1, <2>2, <2>3, <2>4, TurnKeeps
  <1>3. CASE Ends(f, "failed")
    BY <1>1, <1>3, EndKeeps
  <1> QED
    BY <1>2, <1>3 DEF Reclone

LEMMA VerifyKeeps ==
  ASSUME TapInv, NEW f \in TapFollowers, Verify(f) \/ LosesCall(f)
  PROVE  TapInv'
  BY EndKeeps DEF Verify, LosesCall, UnderWay

LEMMA ReadKeeps ==
  ASSUME TapInv, NEW f \in TapFollowers, ReadRelease(f)
  PROVE  TapInv'
  <1> USE DEF MainRests
  <1>1. FollowerInv(f) /\ TapTypes /\ MainRests /\ follower[f].pc = "public"
    BY DEF TapInv, ReadRelease
  <1>2. ReleaseOf[f] \in Versions
    BY DEF Versions
  <1>3. TapTypes'
    BY <1>1, <1>2 DEF TapTypes, ReadRelease, Steps, Content
  <1>4. /\ follower'[f].pc \in {"clone", "plan"}
        /\ follower'[f].base = follower[f].base /\ follower'[f].seen = follower[f].seen
        /\ follower'[f].target.bytes = public[ReleaseOf[f]]
        /\ follower'[f].target.version = follower[f].target.version
    BY <1>1 DEF TapTypes, ReadRelease, Content
  <1>5. \A h \in TapFollowers \ {f} : follower'[h] = follower[h]
    BY <1>1 DEF TapTypes, ReadRelease
  <1>6. f \notin flight
    BY <1>1 DEF FollowerInv
  <1>7. HeadNamesTree(f)' /\ SeenWasPublic(f)'
    BY <1>1, <1>4 DEF FollowerInv, HeadNamesTree, SeenWasPublic
  <1>8. Unseen(f)'
    BY <1>1, <1>4, <1>5 DEF FollowerInv, Unseen, Unlanded
  <1>9. TargetIsNewer(f)'
    <2>1. public[ReleaseOf[f]] \in Nat
      BY <1>1, <1>2 DEF TapTypes
    <2>2. follower[f].seen["standard"].version = ReleaseOf[f]
            => follower[f].seen["standard"].bytes <= public[ReleaseOf[f]]
      BY <1>1, <1>2 DEF FollowerInv, SeenWasPublic
    <2> QED
      BY <1>1, <1>4, <2>1, <2>2 DEF TargetIsNewer
  <1>10. NightlyIsNew(f)'
    BY <1>1, <1>4, <1>6 DEF NightlyIsNew, Planned
  <1>11. FollowerInv(f)'
    BY <1>1, <1>4, <1>6, <1>7, <1>8, <1>9, <1>10 DEF FollowerInv
  <1> QED
    BY <1>1, <1>3, <1>4, <1>5, <1>11, StepKeeps

LEMMA CloneKeeps ==
  ASSUME TapInv, NEW f \in TapFollowers, Clone(f)
  PROVE  TapInv'
  <1> USE DEF MainRests
  <1>1. FollowerInv(f) /\ TapTypes /\ MainRests /\ follower[f].pc = "clone"
    BY DEF TapInv, Clone
  <1>2. TapTypes'
    BY <1>1 DEF TapTypes, Clone, Steps
  <1>3. /\ follower'[f].pc \in {"plan", "public"}
        /\ follower'[f].pc = "plan" => CaskOf[f] # "standard"
        /\ follower'[f].base = head /\ follower'[f].seen = casks
        /\ follower'[f].target = follower[f].target
    BY <1>1 DEF TapTypes, Clone, PublicFirst
  <1>4. \A h \in TapFollowers \ {f} : follower'[h] = follower[h]
    BY <1>1 DEF TapTypes, Clone
  <1>5. f \notin flight
    BY <1>1 DEF FollowerInv
  <1>6. HeadNamesTree(f)'
    BY <1>1, <1>3 DEF HeadNamesTree
  <1>7. SeenWasPublic(f)'
    BY <1>1, <1>3 DEF SeenWasPublic, TapInv, CaskWasPublic
  <1>8. Unseen(f)'
    BY <1>1, <1>3, <1>4 DEF FollowerInv, Unseen, Unlanded
  <1>9. TargetIsNewer(f)' /\ NightlyIsNew(f)'
    BY <1>1, <1>3, <1>5 DEF TargetIsNewer, HasRead, NightlyIsNew, Planned
  <1>10. FollowerInv(f)'
    BY <1>1, <1>3, <1>5, <1>6, <1>7, <1>8, <1>9 DEF FollowerInv
  <1> QED
    BY <1>1, <1>2, <1>3, <1>4, <1>10, StepKeeps

(* What a landing commit does: it was made on the head, so it replaces one *)
(* cask of what main shows.                                                *)
LEMMA LandingTree ==
  ASSUME TapInv, NEW f \in TapFollowers, Planned(f), Accepts(f), Lands(f)
  PROVE  /\ head' = f
         /\ casks' = [casks EXCEPT ![CaskOf[f]] = follower[f].target]
  BY DEF TapInv, FollowerInv, HeadNamesTree, Accepts, Lands, Tree

LEMMA LandingKeeps ==
  ASSUME TapInv, NEW f \in TapFollowers, Planned(f), Accepts(f), Lands(f),
         UNCHANGED public, flight' = flight \ {f},
         NEW pc \in {"verify", "done"},
         follower' = [follower EXCEPT ![f].pc = pc]
  PROVE  TapInv'
  <1>1. FollowerInv(f) /\ TapTypes
    BY DEF TapInv
  <1>2. head' = f /\ casks' = [casks EXCEPT ![CaskOf[f]] = follower[f].target]
    BY LandingTree
  <1>3. TapTypes'
    BY <1>1, <1>2, FollowersAssumption DEF TapTypes, Tips, Steps
  <1>4. Unlanded(f)
    BY DEF Planned, Unlanded
  <1>5. CaskWasPublic'
    <2>1. CASE CaskOf[f] = "standard"
      <3>1. follower[f].target.bytes <= public[ReleaseOf[f]]
            /\ follower[f].target.version = ReleaseOf[f]
        BY <1>1, <2>1 DEF FollowerInv, TargetIsNewer, HasRead, Planned
      <3>2. casks'["standard"] = follower[f].target
        BY <1>1, <1>2, <2>1 DEF TapTypes, Casks
      <3> QED
        BY <3>1, <3>2 DEF CaskWasPublic
    <2>2. CASE CaskOf[f] # "standard"
      <3>1. casks'["standard"] = casks["standard"]
        BY <1>1, <1>2, <2>2 DEF TapTypes, Casks
      <3> QED
        BY <3>1 DEF TapInv, CaskWasPublic
    <2> QED
      BY <2>1, <2>2
  <1>6. ASSUME NEW g \in TapFollowers PROVE FollowerInv(g)'
    <2>1. FollowerInv(g)
      BY DEF TapInv
    <2>2. /\ follower'[g].base = follower[g].base /\ follower'[g].seen = follower[g].seen
          /\ follower'[g].target = follower[g].target
          /\ g # f => follower'[g] = follower[g]
          /\ g = f => follower'[g].pc = pc
      BY <1>1 DEF TapTypes
    <2>3. HeadNamesTree(g)'
      BY <1>1, <1>2, <1>4, <2>2 DEF FollowerInv, Unseen, HeadNamesTree
    <2>4. Unseen(g)'
      <3>1. CASE g = f
        BY <2>2, <3>1 DEF Unseen, Unlanded
      <3>2. CASE g # f
        <4>1. \A h \in TapFollowers : follower'[h].base = follower[h].base
          BY <1>1 DEF TapTypes
        <4> QED
          BY <1>2, <2>1, <2>2, <3>2, <4>1 DEF FollowerInv, Unseen, Unlanded
      <3> QED
        BY <3>1, <3>2
    <2>5. SeenWasPublic(g)'
      BY <2>1, <2>2 DEF FollowerInv, SeenWasPublic
    <2>6. TargetIsNewer(g)' /\ NightlyIsNew(g)'
      BY <2>1, <2>2 DEF FollowerInv, TargetIsNewer, HasRead, NightlyIsNew, Planned
    <2> QED
      BY <2>1, <2>2, <2>3, <2>4, <2>5, <2>6 DEF FollowerInv
  <1> QED
    BY <1>3, <1>5, <1>6 DEF TapInv

LEMMA PushKeeps ==
  ASSUME TapInv, NEW f \in TapFollowers, Push(f)
  PROVE  TapInv'
  <1>1. FollowerInv(f) /\ TapTypes /\ follower[f].pc = "push"
    BY DEF TapInv, Push
  <1>2. f \notin flight /\ Planned(f) /\ HasRead(f) /\ Unlanded(f)
    BY <1>1 DEF FollowerInv, Planned, HasRead, Unlanded
  <1>3. CASE Accepts(f) /\ Lands(f) /\ UNCHANGED flight
    <2>1. flight' = flight \ {f}
      BY <1>2, <1>3
    <2> QED
      BY <1>2, <1>3, <2>1, LandingKeeps DEF Push, Turns
  <1>4. CASE UNCHANGED <<head, casks>> /\ flight' \in {flight, flight \cup {f}}
    <2>1. /\ follower'[f].pc = "verify" /\ follower'[f].base = follower[f].base
          /\ follower'[f].seen = follower[f].seen /\ follower'[f].target = follower[f].target
      BY <1>1 DEF TapTypes, Push, Turns
    <2>2. \A h \in TapFollowers \ {f} : follower'[h] = follower[h]
      BY <1>1 DEF TapTypes, Push, Turns
    <2>3. TapTypes'
      BY <1>1, <1>4 DEF TapTypes, Push, Turns, Steps
    <2>4. CaskWasPublic'
      BY <1>4 DEF TapInv, CaskWasPublic, Push
    <2>5. ASSUME NEW g \in TapFollowers PROVE FollowerInv(g)'
      <3>1. FollowerInv(g) /\ UNCHANGED public
        BY DEF TapInv, Push
      <3>2. /\ follower'[g].base = follower[g].base /\ follower'[g].seen = follower[g].seen
            /\ follower'[g].target = follower[g].target
            /\ Planned(g)' => Planned(g)
            /\ HasRead(g)' => HasRead(g)
            /\ Unlanded(g)' => Unlanded(g)
        BY <1>2, <1>4, <2>1, <2>2 DEF Planned, HasRead, Unlanded
      <3>3. /\ g \in flight' => follower'[g].pc \in {"verify", "done"}
            /\ follower'[g].pc = "reclone" => CaskOf[g] = "full"
        BY <1>4, <2>1, <2>2, <3>1 DEF FollowerInv
      <3>4. HeadNamesTree(g)' /\ SeenWasPublic(g)' /\ TargetIsNewer(g)' /\ NightlyIsNew(g)'
        BY <1>4, <3>1, <3>2 DEF FollowerInv, HeadNamesTree, SeenWasPublic, TargetIsNewer,
                                NightlyIsNew
      <3>5. Unseen(g)'
        <4>1. \A h \in TapFollowers : follower'[h].base = follower[h].base
          BY <2>1, <2>2
        <4> QED
          BY <1>4, <3>1, <3>2, <4>1 DEF FollowerInv, Unseen
      <3> QED
        BY <3>1, <3>2, <3>3, <3>4, <3>5 DEF FollowerInv
    <2> QED
      BY <2>3, <2>4, <2>5 DEF TapInv
  <1> QED
    BY <1>3, <1>4 DEF Push

LEMMA FlightKeeps ==
  ASSUME TapInv, NEW f \in TapFollowers, FlightLands(f)
  PROVE  TapInv'
  <1>1. FollowerInv(f) /\ TapTypes /\ f \in flight /\ flight' = flight \ {f}
        /\ UNCHANGED <<public, follower>>
    BY DEF TapInv, FlightLands
  <1>2. CASE Accepts(f) /\ Lands(f)
    <2>1. follower[f].pc \in {"verify", "done"} /\ Planned(f)
      BY <1>1 DEF FollowerInv, Planned
    <2>2. follower' = [follower EXCEPT ![f].pc = follower[f].pc]
      BY <1>1 DEF TapTypes
    <2> QED
      BY <1>1, <1>2, <2>1, <2>2, LandingKeeps
  <1>3. CASE UNCHANGED <<head, casks>>
    <2>1. TapTypes' /\ CaskWasPublic'
      BY <1>1, <1>3 DEF TapTypes, TapInv, CaskWasPublic
    <2>2. ASSUME NEW g \in TapFollowers PROVE FollowerInv(g)'
      BY <1>1, <1>3 DEF TapInv, FollowerInv, HeadNamesTree, Unseen, Unlanded, SeenWasPublic,
                        TargetIsNewer, HasRead, NightlyIsNew, Planned
    <2> QED
      BY <2>1, <2>2 DEF TapInv
  <1> QED
    BY <1>2, <1>3 DEF FlightLands

LEMMA ReplaceKeeps ==
  ASSUME TapInv, NEW v \in Versions, ReplaceRelease(v)
  PROVE  TapInv'
  <1>1. TapTypes /\ public' = [public EXCEPT ![v] = public[v] + 1]
        /\ UNCHANGED <<head, casks, follower, flight>>
    BY DEF TapInv, ReplaceRelease
  <1>2. \A w \in Versions : public[w] \in Nat /\ public'[w] \in Nat /\ public[w] <= public'[w]
    BY <1>1 DEF TapTypes
  <1>3. TapTypes'
    BY <1>1 DEF TapTypes
  <1>4. casks["standard"].bytes \in Nat
    BY <1>1 DEF TapTypes, Casks, Content
  <1>5. CaskWasPublic'
    BY <1>1, <1>2, <1>4 DEF TapInv, CaskWasPublic
  <1>6. ASSUME NEW f \in TapFollowers PROVE FollowerInv(f)'
    <2>1. FollowerInv(f) /\ ReleaseOf[f] \in Versions
      BY DEF TapInv, Versions
    <2>2. follower[f].seen["standard"].bytes \in Nat /\ follower[f].target.bytes \in Nat
      BY <1>1 DEF TapTypes, Casks, Content
    <2>3. HeadNamesTree(f)' /\ Unseen(f)' /\ NightlyIsNew(f)'
      BY <1>1, <2>1 DEF FollowerInv, HeadNamesTree, Unseen, Unlanded, NightlyIsNew, Planned
    <2>4. SeenWasPublic(f)'
      BY <1>1, <1>2, <2>1, <2>2 DEF FollowerInv, SeenWasPublic
    <2>5. TargetIsNewer(f)'
      BY <1>1, <1>2, <2>1, <2>2 DEF FollowerInv, TargetIsNewer, HasRead
    <2> QED
      BY <1>1, <2>1, <2>3, <2>4, <2>5 DEF FollowerInv
  <1> QED
    BY <1>3, <1>5, <1>6 DEF TapInv

(* TapInv holds throughout: what main shows, what the followers know and   *)
(* what is still in flight stay consistent.                                *)
THEOREM TapStaysConsistent == TapSpec => []TapInv
  <1>1. TapInv /\ [TapNext]_tapVars => TapInv'
    <2> SUFFICES ASSUME TapInv, [TapNext]_tapVars PROVE TapInv'
      OBVIOUS
    <2>1. ASSUME NEW f \in TapFollowers, FollowerStep(f) PROVE TapInv'
      BY <2>1, StartKeeps, ReadKeeps, CloneKeeps, PlanKeeps, RecloneKeeps, PushKeeps,
         VerifyKeeps DEF FollowerStep
    <2>2. CASE UNCHANGED tapVars
      BY <2>2 DEF tapVars, TapInv, TapTypes, CaskWasPublic, FollowerInv, HeadNamesTree,
                  Unseen, Unlanded, SeenWasPublic, TargetIsNewer, HasRead, NightlyIsNew, Planned
    <2> QED
      BY <2>1, <2>2, FlightKeeps, ReplaceKeeps DEF TapNext
  <1> QED
    BY InitInv, <1>1, PTL DEF TapSpec

(* A landing commit changes its own cask only, and forward.                *)
LEMMA LandingIsForward ==
  ASSUME TapInv, NEW f \in TapFollowers, Planned(f), Accepts(f), Lands(f),
         NEW c \in Casks, casks'[c] # casks[c]
  PROVE  /\ \A d \in Casks \ {c} : casks'[d] = casks[d]
         /\ casks'[c].version = casks[c].version =>
               /\ c # "nightly"
               /\ c = "standard" => casks'[c].bytes > casks[c].bytes
  <1>1. FollowerInv(f) /\ TapTypes /\ follower[f].seen = casks
    BY DEF TapInv, FollowerInv, HeadNamesTree, Accepts
  <1>2. casks' = [casks EXCEPT ![CaskOf[f]] = follower[f].target]
    BY LandingTree
  <1>3. CaskOf[f] = c /\ casks'[c] = follower[f].target
    BY <1>1, <1>2 DEF TapTypes
  <1>4. \A d \in Casks \ {c} : casks'[d] = casks[d]
    BY <1>1, <1>2, <1>3 DEF TapTypes
  <1>5. ASSUME casks'[c].version = casks[c].version PROVE c # "nightly"
    BY <1>1, <1>3, <1>5 DEF FollowerInv, NightlyIsNew
  <1>6. ASSUME casks'[c].version = casks[c].version, c = "standard"
        PROVE  casks'[c].bytes > casks[c].bytes
    <2>1. casks[c] \in Content /\ follower[f].target \in Content
      BY <1>1 DEF TapTypes
    <2>2. casks[c].bytes <= follower[f].target.bytes
      BY <1>1, <1>3, <1>6 DEF FollowerInv, TargetIsNewer, HasRead, Planned
    <2>3. casks[c].bytes \in Nat /\ follower[f].target.bytes \in Nat
      BY <2>1 DEF Content
    <2>4. \A x, y \in Content : x.version = y.version /\ x.bytes = y.bytes => x = y
      BY DEF Content
    <2>5. casks[c].bytes # follower[f].target.bytes
      BY <1>3, <1>6, <2>1, <2>4
    <2> QED
      BY <1>3, <2>2, <2>3, <2>5
  <1> QED
    BY <1>4, <1>5, <1>6

(* CasksMoveForward for any followers, releases and faults: the pushes of  *)
(* three kinds of follower to one branch (update-homebrew-tap.ts and its   *)
(* workflows) never revert each other's cask or a replacement.             *)
THEOREM CasksOnlyMoveForward == TapSpec => CasksMoveForward
  <1> DEFINE Forward ==
        \A c \in Casks : casks'[c] # casks[c] =>
          /\ \A d \in Casks \ {c} : casks'[d] = casks[d]
          /\ casks'[c].version = casks[c].version =>
                /\ c # "nightly"
                /\ c = "standard" => casks'[c].bytes > casks[c].bytes
  <1>1. TapInv /\ [TapNext]_tapVars => [Forward]_tapVars
    <2> SUFFICES ASSUME TapInv, TapNext PROVE Forward
      BY DEF tapVars
    <2>1. CASE UNCHANGED casks
      BY <2>1
    <2>2. ASSUME NEW f \in TapFollowers, Push(f) \/ FlightLands(f), casks' # casks
          PROVE  Forward
      <3>1. Planned(f) /\ Accepts(f) /\ Lands(f)
        BY <2>2 DEF Push, FlightLands, Planned
      <3> QED
        BY <3>1, LandingIsForward
    <2>3. ASSUME NEW f \in TapFollowers, FollowerStep(f) \/ FlightLands(f), ~Push(f), ~FlightLands(f)
          PROVE  UNCHANGED casks
      BY <2>3 DEF FollowerStep, StartFollower, ReadRelease, Clone, PlanCask, Reclone, Verify,
                  LosesCall, MainRests
    <2>4. ASSUME NEW v \in Versions, ReplaceRelease(v) PROVE UNCHANGED casks
      BY <2>4 DEF ReplaceRelease
    <2> HIDE DEF Forward
    <2> QED
      BY <2>1, <2>2, <2>3, <2>4 DEF TapNext
  <1> QED
    BY <1>1, TapStaysConsistent, PTL DEF TapSpec, CasksMoveForward
-----------------------------------------------------------------------------
(* ManualInstall: the App found at first, for any number of installations, *)
(* one after the other or at once.                                         *)
Apps == Installers \cup {First, Nothing, Damaged}
Before == {"idle", "copy", "check", "inspect"}
Chosen == {"inspect", "stop", "stopping", "prepare", "backup", "replace"}
Unmoved == Before \cup {"stop", "stopping", "prepare", "backup"}
Installing == {"verify", "launch", "verify_launched", "remove"}
Phases ==
    Unmoved \cup Installing \cup Over
        \cup {"replace", "restore", "relaunch", "clean", "succeeded"}
RunRecords == [pc : Phases, existing : Apps, wasRunning : BOOLEAN,
               moved : BOOLEAN, candidate : BOOLEAN, baseline : BOOLEAN,
               backupApp : BOOLEAN, relaunched : BOOLEAN]

FilesTyped ==
    /\ installed \in Apps
    /\ staged \in [Installers -> Apps]
    /\ backup \in [Installers -> Apps]
RunsTyped == run \in [Installers -> RunRecords]

(* Swaps that go on at once are on record. *)
OverlapsNoted ==
    /\ overlapped \subseteq Installers
    /\ \A i, k \in Installers : InSwap(i) /\ InSwap(k) /\ i # k => i \in overlapped

(* A swap that has met no other. *)
Alone(i) == InSwap(i) /\ i \notin overlapped

(* Nothing is recorded before its phase, and a candidate was checked.       *)
Early(i) ==
    /\ run[i].pc \in Before => run[i].existing = Nothing
    /\ run[i].pc \in Unmoved => ~run[i].moved
    /\ run[i].pc \in Unmoved \cup {"replace"} => ~run[i].candidate
    /\ run[i].pc \in Chosen => staged[i] = i
    /\ run[i].pc = "backup" => run[i].existing # Nothing

(* The backup directory of an installer that has not ended holds the App    *)
(* that was moved there, and nothing else.                                   *)
BackupIsExisting(i) ==
    /\ (Active(i) \/ run[i].pc = "idle") /\ ~run[i].moved => backup[i] = Nothing
    /\ Alone(i) /\ run[i].moved =>
          backup[i] = run[i].existing /\ run[i].existing # Nothing

(* In a swap that met no other, a candidate at the path is the installer's   *)
(* own, and it only got there once what was found was in the backup.         *)
CandidateIsOwn(i) ==
    Alone(i) /\ run[i].candidate /\ run[i].pc \in Installing =>
        /\ installed \in {i, Damaged}
        /\ run[i].existing # Nothing => run[i].moved

(* What such a swap found is in the backup or where it was. *)
ExistingIsKept(i) ==
    Alone(i) /\ run[i].existing # Nothing /\ ~run[i].moved => installed = run[i].existing

(* The receipt, from the moment it is written. *)
ReceiptHolds(i) ==
    run[i].pc = "clean" =>
        /\ run[i].baseline => ~run[i].moved /\ run[i].existing # Nothing
        /\ run[i].backupApp => run[i].moved
        /\ Alone(i) /\ run[i].existing # Nothing => run[i].baseline \/ run[i].backupApp

Kept(i) ==
    /\ Early(i) /\ BackupIsExisting(i) /\ CandidateIsOwn(i)
    /\ ExistingIsKept(i) /\ ReceiptHolds(i)

IInv ==
    /\ FilesTyped /\ RunsTyped
    /\ OverlapsNoted
    /\ \A i \in Installers : Kept(i)
-----------------------------------------------------------------------------
(* Before the first installation. *)
LEMMA IInvInit == InstallInit => IInv
<1> SUFFICES ASSUME InstallInit PROVE IInv
  OBVIOUS
<1>1. Fresh \in RunRecords
  BY DEF Fresh, RunRecords, Phases, Unmoved, Before, Apps
<1>2. FilesTyped /\ RunsTyped
  BY <1>1 DEF InstallInit, FilesTyped, RunsTyped, Apps
<1>3. \A i \in Installers : run[i] = Fresh /\ backup[i] = Nothing
  BY DEF InstallInit
<1>4. OverlapsNoted
  BY <1>3 DEF OverlapsNoted, InSwap, Active, Over, Fresh, InstallInit
<1>5. ASSUME NEW i \in Installers PROVE Kept(i)
  <2>1. /\ run[i].pc = "idle" /\ run[i].existing = Nothing
        /\ run[i].moved = FALSE /\ run[i].candidate = FALSE /\ backup[i] = Nothing
    BY <1>3 DEF Fresh
  <2> QED
    BY <2>1 DEF Kept, Early, BackupIsExisting, CandidateIsOwn, ExistingIsKept, ReceiptHolds,
       Alone, InSwap, Active, Over, Chosen, Installing
<1> QED
  BY <1>2, <1>4, <1>5 DEF IInv

(* Writing a flag keeps a record well formed. *)
LEMMA FlagTyped ==
    ASSUME NEW r \in RunRecords, NEW b \in BOOLEAN
    PROVE  /\ [r EXCEPT !.baseline = b] \in RunRecords
           /\ [r EXCEPT !.backupApp = b] \in RunRecords
           /\ [r EXCEPT !.relaunched = b] \in RunRecords
<1>1. CASE b = TRUE
  BY <1>1 DEF RunRecords
<1>2. CASE b = FALSE
  BY <1>2 DEF RunRecords
<1> QED
  BY <1>1, <1>2

(* A step of an installation writes well-formed records and nothing that     *)
(* belongs to another one.                                                   *)
LEMMA StepTyped ==
    ASSUME FilesTyped, RunsTyped, NEW i \in Installers, InstallStep(i) \/ InstallerDies(i)
    PROVE  /\ FilesTyped' /\ RunsTyped'
           /\ \A k \in Installers \ {i} :
                 run'[k] = run[k] /\ staged'[k] = staged[k] /\ backup'[k] = backup[k]
<1> USE AppsDiffer, FirstIsNotACandidate, LaunchesAssumption
    DEF FilesTyped, RunsTyped, RunRecords, Apps, Phases, Unmoved, Before, Installing, Over,
        To, Catch, Leaves, Fresh, KeepFiles
<1>1. CASE BeginInstall(i)
  BY <1>1 DEF BeginInstall
<1>2. CASE Ditto(i)
  BY <1>2 DEF Ditto
<1>3. CASE CheckStagedApp(i)
  <2>1. CASE To(i, "inspect")
    BY <1>3, <2>1 DEF CheckStagedApp
  <2>2. CASE Leaves(i, "refused")
    BY <1>3, <2>2 DEF CheckStagedApp
  <2> QED
    BY <1>3, <2>1, <2>2 DEF CheckStagedApp
<1>4. CASE InspectExisting(i)
  BY <1>4 DEF InspectExisting
<1>5. CASE StopExisting(i)
  BY <1>5 DEF StopExisting
<1>6. CASE AwaitStop(i)
  BY <1>6 DEF AwaitStop
<1>7. CASE PrepareBackup(i)
  BY <1>7 DEF PrepareBackup
<1>8. CASE BackupExisting(i)
  BY <1>8 DEF BackupExisting
<1>9. CASE ReplaceApp(i)
  BY <1>9 DEF ReplaceApp
<1>10. CASE VerifyInstalled(i)
  BY <1>10 DEF VerifyInstalled
<1>11. CASE LaunchInstalled(i)
  BY <1>11 DEF LaunchInstalled
<1>12. CASE VerifyLaunched(i)
  BY <1>12 DEF VerifyLaunched
<1>13. CASE RemoveCandidate(i)
  BY <1>13 DEF RemoveCandidate
<1>14. CASE RestoreExisting(i)
  BY <1>14 DEF RestoreExisting
<1>15. CASE Report(i)
  <2> DEFINE ended == [run[i] EXCEPT !.pc = "clean"]
             judged == [ended EXCEPT !.baseline = Baseline(i)]
             named == [judged EXCEPT !.backupApp = (backup[i] # Nothing)]
  <2>1. PICK opened \in BOOLEAN : run' = [run EXCEPT ![i] = [named EXCEPT !.relaunched = opened]]
    <3> HIDE DEF FilesTyped, RunsTyped, RunRecords, Apps, Phases, Unmoved, Before,
                 Installing, Over, To, Catch, Leaves, Fresh, KeepFiles
    <3> HIDE AppsDiffer, FirstIsNotACandidate, LaunchesAssumption
    <3> QED
      BY <1>15, ZenonT(40) DEF Report
  <2>2. Baseline(i) \in BOOLEAN /\ (backup[i] # Nothing) \in BOOLEAN
    BY Zenon DEF Baseline
  <2>3. ended \in RunRecords
    OBVIOUS
  <2>4. [named EXCEPT !.relaunched = opened] \in RunRecords
    <3> HIDE DEF RunRecords, ended, judged, named
    <3>1. judged \in RunRecords
      BY <2>2, <2>3, FlagTyped DEF judged
    <3>2. named \in RunRecords
      BY <2>2, <3>1, FlagTyped DEF named
    <3> QED
      BY <2>1, <3>2, FlagTyped
  <2> HIDE DEF named
  <2> QED
    BY <1>15, <2>1, <2>4 DEF Report
<1>16. CASE Clean(i)
  BY <1>16 DEF Clean
<1>17. CASE InstallerDies(i)
  BY <1>17 DEF InstallerDies
<1> QED
  BY <1>1, <1>2, <1>3, <1>4, <1>5, <1>6, <1>7, <1>8, <1>9,
     <1>10, <1>11, <1>12, <1>13, <1>14, <1>15, <1>16, <1>17
     DEF InstallStep, TryBlock, Rollback

(* Only an installer in its swap touches the installed App. *)
LEMMA SwapTouches ==
    ASSUME NEW i \in Installers, InstallStep(i) \/ InstallerDies(i), ~InSwap(i)
    PROVE  installed' = installed
BY DEF InSwap, Active, Over, KeepFiles, InstallStep, TryBlock, Rollback, InstallerDies,
   BeginInstall, Ditto, CheckStagedApp, InspectExisting, StopExisting, AwaitStop,
   PrepareBackup, BackupExisting, ReplaceApp, VerifyInstalled, LaunchInstalled,
   VerifyLaunched, RemoveCandidate, RestoreExisting, Report, Clean

(* What is kept of another installation: if its swap still has met no other,  *)
(* then the one that acts is in no swap.                                     *)
LEMMA OthersKept ==
    ASSUME NEW i \in Installers, NEW k \in Installers \ {i},
           InstallStep(i) \/ InstallerDies(i), NotesOverlap, OverlapsNoted, Kept(k),
           run'[k] = run[k], staged'[k] = staged[k], backup'[k] = backup[k]
    PROVE  Kept(k)'
<1>1. Alone(k)' => Alone(k) /\ installed' = installed
  <2> SUFFICES ASSUME Alone(k)' PROVE Alone(k) /\ installed' = installed
    OBVIOUS
  <2>1. Alone(k)
    BY DEF Alone, InSwap, Active, NotesOverlap
  <2>2. ~InSwap(i)
    BY <2>1 DEF Alone, OverlapsNoted
  <2> QED
    BY <2>1, <2>2, SwapTouches
<1>2. Early(k)'
  BY DEF Kept, Early
<1>3. BackupIsExisting(k)'
  <2>1. BackupIsExisting(k) /\ (Active(k)' => Active(k))
    BY DEF Kept, Active
  <2> QED
    BY <1>1, <2>1, Zenon DEF BackupIsExisting
<1>4. CandidateIsOwn(k)' /\ ExistingIsKept(k)'
  BY <1>1 DEF Kept, CandidateIsOwn, ExistingIsKept
<1>5. ReceiptHolds(k)'
  <2>1. ReceiptHolds(k)
    BY Zenon DEF Kept
  <2> QED
    BY <1>1, <2>1, Zenon DEF ReceiptHolds
<1> QED
  BY <1>2, <1>3, <1>4, <1>5 DEF Kept

(* The step keeps what must be kept of its own installation. *)
LEMMA OwnKept ==
    ASSUME IInv, NEW i \in Installers, InstallStep(i) \/ InstallerDies(i), NotesOverlap
    PROVE  Kept(i)'
<1>t. FilesTyped /\ RunsTyped /\ Kept(i)
  BY DEF IInv
<1>o. i \in overlapped => i \in overlapped'
  BY DEF NotesOverlap
<1> USE <1>t, <1>o, AppsDiffer, FirstIsNotACandidate
    DEF FilesTyped, RunsTyped, RunRecords, Kept, Early, BackupIsExisting, CandidateIsOwn,
        ExistingIsKept, ReceiptHolds, Alone, InSwap, Active, Over, Before, Chosen, Unmoved,
        Installing, To, Catch, Leaves, Fresh, KeepFiles
<1>1. CASE BeginInstall(i)
  BY <1>1 DEF BeginInstall
<1>2. CASE Ditto(i)
  BY <1>2 DEF Ditto
<1>3. CASE CheckStagedApp(i)
  BY <1>3 DEF CheckStagedApp
<1>4. CASE InspectExisting(i)
  BY <1>4 DEF InspectExisting
<1>5. CASE StopExisting(i)
  BY <1>5 DEF StopExisting
<1>6. CASE AwaitStop(i)
  BY <1>6 DEF AwaitStop
<1>7. CASE PrepareBackup(i)
  BY <1>7 DEF PrepareBackup
<1>8. CASE BackupExisting(i)
  BY <1>8 DEF BackupExisting
<1>9. CASE ReplaceApp(i)
  BY <1>9 DEF ReplaceApp
<1>10. CASE VerifyInstalled(i)
  BY <1>10 DEF VerifyInstalled
<1>11. CASE LaunchInstalled(i)
  BY <1>11 DEF LaunchInstalled
<1>12. CASE VerifyLaunched(i)
  BY <1>12 DEF VerifyLaunched
<1>13. CASE RemoveCandidate(i)
  BY <1>13 DEF RemoveCandidate
<1>14. CASE RestoreExisting(i)
  BY <1>14 DEF RestoreExisting
<1>15. CASE Report(i)
  BY <1>15 DEF Report, Baseline
<1>16. CASE Clean(i)
  BY <1>16 DEF Clean
<1>17. CASE InstallerDies(i)
  BY <1>17 DEF InstallerDies
<1> QED
  BY <1>1, <1>2, <1>3, <1>4, <1>5, <1>6, <1>7, <1>8, <1>9,
     <1>10, <1>11, <1>12, <1>13, <1>14, <1>15, <1>16, <1>17
     DEF InstallStep, TryBlock, Rollback

(* The first App is lost sight of only when an installation completes, or in  *)
(* the rollback of one that met another.                                     *)
LEMMA FirstStays ==
    ASSUME First # Nothing, IInv, FirstAppSurvives, NEW i \in Installers,
           InstallStep(i) \/ InstallerDies(i), NotesOverlap
    PROVE  FirstAppSurvives'
<1>t. /\ FilesTyped /\ RunsTyped /\ Kept(i) /\ FirstAppSurvives
      /\ \A k \in Installers \ {i} : run'[k] = run[k] /\ backup'[k] = backup[k]
      /\ overlapped \subseteq Installers /\ overlapped \subseteq overlapped'
  BY StepTyped DEF IInv, OverlapsNoted, NotesOverlap
<1>1. run[i].pc # "completed"
  BY DEF InstallStep, TryBlock, Rollback, BeginInstall, Ditto, CheckStagedApp,
         InspectExisting, StopExisting, AwaitStop, PrepareBackup, BackupExisting, ReplaceApp,
         VerifyInstalled, LaunchInstalled, VerifyLaunched, RemoveCandidate, RestoreExisting,
         Report, Clean, InstallerDies,
         Active, Over
<1>2. CASE \E k \in Installers : run[k].pc = "completed"
  BY <1>t, <1>1, <1>2 DEF FirstAppSurvives
<1>3. CASE \E k \in Installers \ {i} : backup[k] = First
  BY <1>t, <1>3 DEF FirstAppSurvives
<1>4. CASE installed = First
  <2>1. CASE BackupExisting(i)
    BY <1>t, <1>4, <2>1 DEF BackupExisting, FirstAppSurvives, FilesTyped
  <2>2. CASE ReplaceApp(i)
    BY <1>4, <2>2 DEF ReplaceApp, FirstAppSurvives
  <2>3. CASE RemoveCandidate(i)
    <3>1. CASE i \in overlapped
      <4>1. run'[i].pc = "restore"
        BY <1>t, <2>3 DEF RemoveCandidate, To, RunsTyped, RunRecords
      <4> QED
        BY <1>t, <3>1, <4>1 DEF FirstAppSurvives
    <3>2. CASE i \notin overlapped
      <4>1. run[i].candidate => installed \in {i, Damaged}
        BY <1>t, <2>3, <3>2 DEF RemoveCandidate, Kept, CandidateIsOwn, Installing, Alone,
           InSwap, Active, Over
      <4> QED
        BY <1>4, <2>3, <4>1, FirstIsNotACandidate DEF RemoveCandidate, FirstAppSurvives
    <3> QED
      BY <3>1, <3>2
  <2>4. CASE RestoreExisting(i)
    BY <1>4, <2>4 DEF RestoreExisting, FirstAppSurvives
  <2>5. CASE ~(BackupExisting(i) \/ ReplaceApp(i) \/ RemoveCandidate(i) \/ RestoreExisting(i))
    <3>1. installed' = installed
      BY <2>5
      DEF InstallStep, TryBlock, Rollback, BeginInstall, Ditto, CheckStagedApp,
         InspectExisting, StopExisting, AwaitStop, PrepareBackup, VerifyInstalled,
         LaunchInstalled, VerifyLaunched, Report, Clean, InstallerDies,
         KeepFiles
    <3> QED
      BY <1>4, <3>1 DEF FirstAppSurvives
  <2> QED
    BY <2>1, <2>2, <2>3, <2>4, <2>5
<1>5. CASE backup[i] = First
  <2>0. Active(i) \/ run[i].pc = "idle"
    BY DEF InstallStep, TryBlock, Rollback, BeginInstall, Ditto, CheckStagedApp,
         InspectExisting, StopExisting, AwaitStop, PrepareBackup, BackupExisting, ReplaceApp,
         VerifyInstalled, LaunchInstalled, VerifyLaunched, RemoveCandidate, RestoreExisting,
         Report, Clean, InstallerDies,
         Active, Over
  <2>1. run[i].moved
    BY <1>t, <1>5, <2>0 DEF Kept, BackupIsExisting
  <2>2. ~BackupExisting(i)
    BY <1>t, <2>1 DEF BackupExisting, Kept, Early, Unmoved
  <2>3. CASE RestoreExisting(i)
    BY <1>t, <1>5, <2>3 DEF RestoreExisting, FirstAppSurvives, FilesTyped
  <2>4. CASE Clean(i)
    BY <1>t, <1>5, <2>1, <2>4 DEF Clean, FirstAppSurvives, FilesTyped, Leaves, RunsTyped
  <2>5. CASE ~(RestoreExisting(i) \/ Clean(i))
    <3>1. backup' = backup
      BY <2>2, <2>5
      DEF InstallStep, TryBlock, Rollback, BeginInstall, Ditto, CheckStagedApp,
         InspectExisting, StopExisting, AwaitStop, PrepareBackup, ReplaceApp, VerifyInstalled,
         LaunchInstalled, VerifyLaunched, RemoveCandidate, Report, InstallerDies,
         KeepFiles
    <3> QED
      BY <1>5, <3>1 DEF FirstAppSurvives
  <2> QED
    BY <2>3, <2>4, <2>5
<1>6. CASE \E k \in overlapped : run[k].pc \in {"restore", "relaunch", "clean", "failed", "dead"}
  <2>1. PICK k \in overlapped : run[k].pc \in {"restore", "relaunch", "clean", "failed", "dead"}
    BY <1>6
  <2>2. run'[k].pc \in {"restore", "relaunch", "clean", "failed", "dead"}
    <3>1. CASE k # i
      BY <1>t, <2>1, <3>1
    <3>2. CASE k = i
      <4>1. RestoreExisting(i) \/ Report(i) \/ (Clean(i) /\ run[i].pc = "clean") \/ InstallerDies(i)
        BY <2>1, <3>2
        DEF InstallStep, TryBlock, Rollback, BeginInstall, Ditto, CheckStagedApp,
            InspectExisting, StopExisting, AwaitStop, PrepareBackup, BackupExisting, ReplaceApp,
            VerifyInstalled, LaunchInstalled, VerifyLaunched, RemoveCandidate, Clean
      <4> QED
        BY <1>t, <3>2, <4>1 DEF RestoreExisting, Report, Clean, InstallerDies, To, Leaves,
           Fresh, RunsTyped, RunRecords
    <3> QED
      BY <3>1, <3>2
  <2> QED
    BY <1>t, <2>1, <2>2 DEF FirstAppSurvives
<1> QED
  BY <1>t, <1>2, <1>3, <1>4, <1>5, <1>6 DEF FirstAppSurvives

(* Every step of the specification keeps the invariant. *)
LEMMA IInvNext ==
    ASSUME IInv, [InstallNext]_installVars
    PROVE  IInv'
<1>1. CASE UNCHANGED installVars
  <2>1. ASSUME NEW i \in Installers PROVE Kept(i)'
    BY <1>1 DEF installVars, IInv, Kept, Early, BackupIsExisting, CandidateIsOwn,
       ExistingIsKept, ReceiptHolds, Alone, InSwap, Active
  <2> QED
    BY <1>1, <2>1 DEF installVars, IInv, FilesTyped, RunsTyped, OverlapsNoted, InSwap, Active
<1>2. CASE InstallNext
  <2>o. OverlapsNoted'
    BY <1>2 DEF InstallNext, NotesOverlap, IInv, OverlapsNoted
  <2>1. CASE AppActs
    <3>1. UNCHANGED <<installed, staged, backup, run>>
      BY <2>1 DEF AppActs, KeepFiles
    <3>2. ASSUME NEW i \in Installers PROVE Kept(i)'
      <4>1. Alone(i)' => Alone(i)
        BY <1>2, <3>1 DEF InstallNext, NotesOverlap, Alone, InSwap, Active
      <4> QED
        BY <3>1, <4>1 DEF IInv, Kept, Early, BackupIsExisting, CandidateIsOwn, ExistingIsKept,
           ReceiptHolds, Active
    <3> QED
      BY <2>o, <3>1, <3>2 DEF IInv, FilesTyped, RunsTyped
  <2>2. CASE \E i \in Installers : InstallStep(i) \/ InstallerDies(i)
    <3>1. PICK i \in Installers : InstallStep(i) \/ InstallerDies(i)
      BY <2>2
    <3>2. /\ FilesTyped' /\ RunsTyped'
          /\ \A k \in Installers \ {i} :
                run'[k] = run[k] /\ staged'[k] = staged[k] /\ backup'[k] = backup[k]
      BY <3>1, StepTyped DEF IInv
    <3>3. NotesOverlap
      BY <1>2 DEF InstallNext
    <3>4. Kept(i)'
      BY <3>1, <3>3, OwnKept
    <3>5. ASSUME NEW k \in Installers \ {i} PROVE Kept(k)'
      BY <3>1, <3>2, <3>3, <3>5, OthersKept DEF IInv
    <3> QED
      BY <2>o, <3>2, <3>4, <3>5 DEF IInv
  <2> QED
    BY <1>2, <2>1, <2>2 DEF InstallNext, InstallActs
<1> QED
  BY <1>1, <1>2

(* For any number of installations, one after the other or at once, through  *)
(* every failure of a step or of its rollback and the death of an installer  *)
(* at any point: the App found at first stays on disk until an installer has *)
(* completed with its successor. The one way to lose it is the rollback of   *)
(* an installer whose swap met another's (install-app.ts, :331-430).         *)
THEOREM FirstSurvives ==
    ASSUME First # Nothing
    PROVE  InstallSpec => []FirstAppSurvives
<1>1. InstallInit => FirstAppSurvives
  BY DEF InstallInit, FirstAppSurvives
<1>2. IInv /\ [InstallNext]_installVars => IInv'
  BY IInvNext
<1>3. IInv /\ FirstAppSurvives /\ [InstallNext]_installVars => FirstAppSurvives'
  <2> SUFFICES ASSUME IInv, FirstAppSurvives, [InstallNext]_installVars PROVE FirstAppSurvives'
    OBVIOUS
  <2>1. CASE InstallNext /\ \E i \in Installers : InstallStep(i) \/ InstallerDies(i)
    BY <2>1, FirstStays DEF InstallNext
  <2>2. CASE InstallNext /\ AppActs
    BY <2>2 DEF AppActs, KeepFiles, FirstAppSurvives, InstallNext, NotesOverlap
  <2>3. CASE UNCHANGED installVars
    BY <2>3 DEF installVars, FirstAppSurvives
  <2> QED
    BY <2>1, <2>2, <2>3 DEF InstallNext, InstallActs
<1> QED
  BY <1>1, <1>2, <1>3, IInvInit, PTL DEF InstallSpec

(* The failure receipt (:383-424) of an installer whose swap met no other    *)
(* says where the App is that was found, and the finally block does not make *)
(* it false.                                                                 *)
THEOREM ReceiptIsHonest == InstallSpec => FailureReceiptIsTrue
<1>1. IInv /\ [InstallNext]_installVars => IInv'
  BY IInvNext
<1>2. ASSUME IInv, [InstallNext]_installVars
      PROVE  [\A i \in Installers \ overlapped :
                run[i].pc = "clean" /\ run'[i].pc = "failed" => ReceiptTells(i)]_installVars
  <2> SUFFICES ASSUME NEW i \in Installers \ overlapped,
                      run[i].pc = "clean", run'[i].pc = "failed"
               PROVE  ReceiptTells(i)
    OBVIOUS
  <2>1. PICK k \in Installers : InstallStep(k) \/ InstallerDies(k)
    BY <1>2 DEF InstallNext, InstallActs, AppActs, installVars
  <2>2. k = i
    BY <2>1, StepTyped, <1>2 DEF IInv
  <2>3. Clean(i)
    <3>1. Clean(i) \/ InstallerDies(i)
      BY <2>1, <2>2
      DEF InstallStep, TryBlock, Rollback, BeginInstall, Ditto, CheckStagedApp,
          InspectExisting, StopExisting, AwaitStop, PrepareBackup, BackupExisting, ReplaceApp,
          VerifyInstalled, LaunchInstalled, VerifyLaunched, RemoveCandidate, RestoreExisting,
          Report
    <3>2. ~InstallerDies(i)
      BY <1>2 DEF InstallerDies, Leaves, Fresh, IInv, RunsTyped
    <3> QED
      BY <3>1, <3>2
  <2>4. run[i].moved => backup' = backup
    BY <2>3 DEF Clean
  <2> QED
    BY <1>2, <2>4 DEF ReceiptTells, IInv, Kept, ReceiptHolds, ExistingIsKept, BackupIsExisting,
       Alone, InSwap, Active, Over
<1> QED
  BY <1>1, <1>2, IInvInit, PTL DEF InstallSpec, FailureReceiptIsTrue
=============================================================================
