----------------------------- MODULE LatestPointer -----------------------------
(***************************************************************************)
(* activateLatestCas of framework-release-adapter-publication-latest.ts:   *)
(* GitHub has no compare-and-swap for the Latest release, so an activation *)
(* reads Latest, compares it with the tag its admission expected, and then *)
(* patches.  Every workflow that does it holds opl-release-bundle-global.  *)
(***************************************************************************)

CONSTANTS
    Activations,   \* runs that move Latest, each to the tag TagOf
    TagOf,
    FirstLatest,   \* the Latest tag before them
    HoldsGroup,    \* the concurrency group keeps them apart
    FaultyRuns     \* runs that may die or lose sight of their PATCH

ASSUME HoldsGroupAssumption == HoldsGroup \in BOOLEAN

VARIABLES
    latest,        \* the tag GitHub shows as Latest
    act,           \* activation -> its progress
    stray          \* activation -> its PATCH after it gave up: none, open, landed

latestVars == <<latest, act, stray>>

LatestInit ==
    /\ latest = FirstLatest
    /\ act = [a \in Activations |-> [pc |-> "idle", expected |-> FirstLatest]]
    /\ stray = [a \in Activations |-> "none"]

Step(a, pc) == act' = [act EXCEPT ![a].pc = pc]
Holding(a) == act[a].pc \in {"patch", "readback"}

(* The admission receipt fixes the tag the activation may replace; it is   *)
(* written before the run holds the group.                                 *)
AdmitActivation(a) ==
    /\ act[a].pc = "idle"
    /\ act' = [act EXCEPT ![a] = [pc |-> "admitted", expected |-> latest]]
    /\ UNCHANGED <<latest, stray>>

\* Bug for mutation: Latest is patched whatever it shows.
CompareNothing(a) ==
    /\ act[a].pc = "admitted"
    /\ HoldsGroup => \A b \in Activations : ~Holding(b)
    /\ Step(a, IF latest = TagOf[a] THEN "idempotent" ELSE "patch")
    /\ UNCHANGED <<latest, stray>>

CompareLatest(a) ==
    /\ act[a].pc = "admitted"
    /\ HoldsGroup => \A b \in Activations : ~Holding(b)
    /\ Step(a, IF latest = TagOf[a] THEN "idempotent"
               ELSE IF latest = act[a].expected THEN "patch" ELSE "drift")
    /\ UNCHANGED <<latest, stray>>

(* An error of the PATCH stops the run; nothing is sent again.             *)
PatchLatest(a) ==
    /\ act[a].pc = "patch"
    /\ \/ latest' = TagOf[a] /\ Step(a, "readback") /\ UNCHANGED stray
       \/ /\ a \in FaultyRuns
          /\ Step(a, "stopped")
          /\ \/ latest' = TagOf[a] /\ UNCHANGED stray
             \/ UNCHANGED <<latest, stray>>
             \/ stray' = [stray EXCEPT ![a] = "open"] /\ UNCHANGED latest

ReadLatest(a) ==
    /\ act[a].pc = "readback"
    /\ Step(a, IF latest = TagOf[a] THEN "complete" ELSE "unknown")
    /\ UNCHANGED <<latest, stray>>

StrayLands(a) ==
    /\ stray[a] = "open"
    /\ stray' = [stray EXCEPT ![a] = "landed"]
    /\ latest' = TagOf[a]
    /\ UNCHANGED act

ActivationStep(a) ==
    \/ AdmitActivation(a) \/ CompareLatest(a) \/ PatchLatest(a)
    \/ ReadLatest(a) \/ StrayLands(a)
-----------------------------------------------------------------------------
(* No update of Latest is lost: it only moves from the tag the moving      *)
(* activation was admitted against (activateLatestCas, :40-83), unless a   *)
(* PATCH of a run that had given up has been astray.                       *)
LatestMovesAsAdmitted ==
    [][latest' # latest =>
         \/ \E a \in Activations : stray[a] # "none"
         \/ \E a \in Activations : /\ act[a].pc = "patch" /\ act[a].expected = latest
                                   /\ latest' = TagOf[a]]_latestVars
=============================================================================
