------------------------------ MODULE HomebrewTap ------------------------------
(***************************************************************************)
(* The casks of the Homebrew tap (scripts/update-homebrew-tap.ts) and the  *)
(* followers that bring a published release into them: Standard            *)
(* (.github/actions/release-followups/homebrew-standard), Full             *)
(* (_release-homebrew-full-publish.yml) and Nightly                        *)
(* (release-nightly-followups.yml). They share one branch and no lock: a   *)
(* follower commits on the head it cloned and pushes once, without force.  *)
(* Meanwhile the files of a public Stable release may be replaced.         *)
(***************************************************************************)
EXTENDS Naturals

CONSTANTS
    TapFollowers,   \* runs of a follower
    CaskOf,         \* follower -> its cask
    SourceOf,       \* follower -> the run whose publication it follows
    ReleaseOf,      \* follower -> the version of that release, a number
    ReceiptBytes,   \* follower -> the bytes its handoff or receipt names
    MaxBytes,       \* bound: how often the files of a release were made
    LooseFollowers, \* followers that may lose a call or be cancelled
    RootCommit      \* the head of the tap before them

Casks == {"standard", "full", "nightly"}
Versions == {ReleaseOf[f] : f \in TapFollowers}

ASSUME FollowersAssumption ==
    /\ CaskOf \in [TapFollowers -> Casks]
    /\ ReleaseOf \in [TapFollowers -> Nat \ {0}]
    /\ ReceiptBytes \in [TapFollowers -> 1..MaxBytes]
    /\ MaxBytes \in Nat \ {0}
    /\ RootCommit \notin TapFollowers

VARIABLES
    head,      \* the commit main shows: RootCommit, or the follower's
    casks,     \* cask -> its content on main: [version, bytes]
    public,    \* version -> the bytes its public release shows
    follower,  \* follower -> its progress
    flight     \* pushes whose client is gone

tapVars == <<head, casks, public, follower, flight>>

Released == [version |-> 0, bytes |-> 1]

TapInit ==
    /\ head = RootCommit
    /\ casks = [c \in Casks |-> Released]
    /\ public = [v \in Versions |-> 1]
    /\ follower = [f \in TapFollowers |->
           [pc |-> "idle", base |-> RootCommit, seen |-> casks, verdict |-> "none",
            target |-> [version |-> ReleaseOf[f], bytes |-> ReceiptBytes[f]]]]
    /\ flight = {}
-----------------------------------------------------------------------------
UnderWay(f) == follower[f].pc \notin {"idle", "done"}

\* Bug for mutation: the Standard action reads the release first as well.
PublicAlwaysFirst(f) == CaskOf[f] # "nightly"

\* The Full workflow reads the release before it clones the tap; the Standard
\* action reads it after.
PublicFirst(f) == CaskOf[f] = "full"

Turns(f, pc) == follower' = [follower EXCEPT ![f].pc = pc]
Ends(f, verdict) ==
    follower' = [follower EXCEPT ![f].pc = "done", ![f].verdict = verdict]
MainRests == UNCHANGED <<head, casks, public, flight>>

Grouped(f, g) ==
    CaskOf[f] = CaskOf[g] /\ CaskOf[f] # "full" /\ SourceOf[f] = SourceOf[g]

StartFollower(f) ==
    /\ follower[f].pc = "idle"
    /\ \A g \in TapFollowers : Grouped(f, g) => ~UnderWay(g)
    /\ Turns(f, IF PublicFirst(f) THEN "public" ELSE "clone")
    /\ MainRests

\* What the public release shows decides the cask: its DMG for Standard, the
\* updater version of its manifest for Full.
ReadRelease(f) ==
    /\ follower[f].pc = "public"
    /\ follower' = [follower EXCEPT ![f].target.bytes = public[ReleaseOf[f]],
                      ![f].pc = IF PublicFirst(f) THEN "clone" ELSE "plan"]
    /\ MainRests

Clone(f) ==
    /\ follower[f].pc = "clone"
    /\ follower' = [follower EXCEPT ![f].base = head, ![f].seen = casks,
                      ![f].pc = IF CaskOf[f] = "nightly" \/ PublicFirst(f)
                                THEN "plan" ELSE "public"]
    /\ MainRests

(* buildPlan: idempotent, write_once or version_conflict. *)
Idempotent(f) == follower[f].target = follower[f].seen[CaskOf[f]]
Conflicts(f) ==
    /\ ~Idempotent(f) /\ CaskOf[f] = "nightly"
    /\ follower[f].seen[CaskOf[f]].version = ReleaseOf[f]

AfterPlan(f) == IF Idempotent(f) THEN "verify" ELSE "push"

PlanCask(f) ==
    /\ follower[f].pc = "plan"
    /\ IF Conflicts(f) THEN Ends(f, "failed")
       ELSE Turns(f, IF CaskOf[f] = "full" THEN "reclone" ELSE AfterPlan(f))
    /\ MainRests

\* publish-cask clones the tap again and stops if main has moved.
Reclone(f) ==
    /\ follower[f].pc = "reclone"
    /\ IF head = follower[f].base THEN Turns(f, AfterPlan(f)) ELSE Ends(f, "failed")
    /\ MainRests

(* The commit carries the whole tree the follower cloned, with its cask    *)
(* replaced; without force main only takes it on the head it was made on.  *)
Tree(f) == [follower[f].seen EXCEPT ![CaskOf[f]] = follower[f].target]
Accepts(f) == head = follower[f].base
Lands(f) == head' = f /\ casks' = Tree(f)

\* The exit code of the push decides nothing; after 240 seconds its client is
\* killed, and GitHub may still take the commit.
Push(f) ==
    /\ follower[f].pc = "push" /\ Turns(f, "verify") /\ UNCHANGED public
    /\ \/ Accepts(f) /\ Lands(f) /\ UNCHANGED flight
       \/ (~Accepts(f) \/ f \in LooseFollowers) /\ UNCHANGED <<head, casks, flight>>
       \/ f \in LooseFollowers /\ flight' = flight \cup {f} /\ UNCHANGED <<head, casks>>

FlightLands(f) ==
    /\ f \in flight /\ flight' = flight \ {f}
    /\ \/ Accepts(f) /\ Lands(f)
       \/ UNCHANGED <<head, casks>>
    /\ UNCHANGED <<public, follower>>

(* Standard compares its cask and the other two, Full its cask, Nightly    *)
(* the commit and the Standard cask.                                       *)
Candidate(f) == IF Idempotent(f) THEN follower[f].base ELSE f
Shown(f) == casks[CaskOf[f]] = follower[f].target
Confirms(f) ==
    CASE CaskOf[f] = "standard" -> Shown(f) /\ casks = Tree(f)
      [] CaskOf[f] = "full"     -> Shown(f)
      [] CaskOf[f] = "nightly"  -> /\ head = Candidate(f) /\ Shown(f)
                                   /\ casks["standard"] = follower[f].seen["standard"]

Verify(f) ==
    /\ follower[f].pc = "verify"
    /\ Ends(f, IF Confirms(f) THEN "passed" ELSE "failed")
    /\ MainRests

LosesCall(f) ==
    f \in LooseFollowers /\ UnderWay(f) /\ Ends(f, "failed") /\ MainRests

\* replace-same-tag-release-assets.ts replaces the files of a Stable release.
ReplaceRelease(v) ==
    /\ public[v] < MaxBytes
    /\ public' = [public EXCEPT ![v] = @ + 1]
    /\ UNCHANGED <<head, casks, follower, flight>>

FollowerStep(f) ==
    \/ StartFollower(f) \/ ReadRelease(f) \/ Clone(f) \/ PlanCask(f) \/ Reclone(f)
    \/ Push(f) \/ Verify(f) \/ LosesCall(f)

TapNext ==
    \/ \E f \in TapFollowers : FollowerStep(f) \/ FlightLands(f)
    \/ \E v \in Versions : ReplaceRelease(v)

TapSpec == TapInit /\ [][TapNext]_tapVars
-----------------------------------------------------------------------------
(* A commit changes one cask and reverts no other one. Under one version   *)
(* the Standard cask only takes newer bytes and the Nightly cask takes no  *)
(* others; whichever followers of whichever cask run beside each other,    *)
(* and though a push may land after its step.                              *)
CasksMoveForward ==
    [][\A c \in Casks : casks'[c] # casks[c] =>
          /\ \A d \in Casks \ {c} : casks'[d] = casks[d]
          /\ casks'[c].version = casks[c].version =>
                /\ c # "nightly"
                /\ c = "standard" => casks'[c].bytes > casks[c].bytes]_tapVars
=============================================================================
