---------------------------- MODULE StableDispatch ----------------------------
(***************************************************************************)
(* How a Stable operation is dispatched once: stable-release-dispatch.ts   *)
(* on an operator's desk, and the run_bound guard and the consumption in   *)
(* the run that GitHub makes of the dispatch (release-stable.yml).  Each   *)
(* dispatch is a name, and so is the run it makes, now, later or never.    *)
(***************************************************************************)
CONSTANTS
    Dispatches,    \* workflow dispatches, each at most one run
    Standards,     \* of operation standard; the others are same-tag appends
    ByHand,        \* standard dispatches sent without the dispatcher
    CarrierOf,     \* the frozen operation of a standard, the source of an append
    FaultyDesks    \* dispatches whose reads of the runs may fail

ASSUME StandardsAssumption == ByHand \subseteq Standards /\ Standards \subseteq Dispatches

VARIABLES
    desk,          \* dispatch -> idle, planned, refused, sent
    ghRun          \* dispatch -> its run: [status, attempt, guard, consumed]

dispatchVars == <<desk, ghRun>>

DispatchInit ==
    /\ desk = [d \in Dispatches |-> "idle"]
    /\ ghRun = [d \in Dispatches |->
                  [status |-> "absent", attempt |-> 1, guard |-> "none", consumed |-> FALSE]]

DeskStep(d, pc) == desk' = [desk EXCEPT ![d] = pc]
Runs == {r \in Dispatches : ghRun[r].status # "absent"}

(* activeRunStatuses: a run GitHub lists as "requested" is not among them. *)
Underway(r) == ghRun[r].status = "active"
FirstAttempt(r) == r \in Runs /\ ghRun[r].attempt = 1

SameOperation(d) == {r \in Standards : FirstAttempt(r) /\ CarrierOf[r] = CarrierOf[d]}
OtherActive(d) == {r \in Dispatches \ {d} : FirstAttempt(r) /\ Underway(r)}
-----------------------------------------------------------------------------
(* new-product-release: buildPreNonceDispatchGuard, in any attempt-1 run   *)
(* of the operation and in any active one.  append-full and                *)
(* publish-qualified-standard: assertNoConflictingActiveRun, the same      *)
(* operation and source, whatever its attempt.                             *)
Clear(d) ==
    IF d \in Standards
    THEN SameOperation(d) \cup OtherActive(d) = {}
    ELSE ~\E r \in Dispatches \ Standards : Underway(r) /\ CarrierOf[r] = CarrierOf[d]

Preflight(d) ==
    /\ desk[d] = "idle" /\ d \notin ByHand
    /\ \/ Clear(d) /\ DeskStep(d, "planned")
       \/ ~Clear(d) /\ DeskStep(d, "refused")
       \/ d \in FaultyDesks /\ DeskStep(d, "refused")
    /\ UNCHANGED ghRun

(* The one `gh workflow run`.  Its answer decides nothing: the run comes   *)
(* when GitHub makes it, or never; only reads follow (dispatchOnce).       *)
SendDispatch(d) ==
    /\ desk[d] = IF d \in ByHand THEN "idle" ELSE "planned"
    /\ DeskStep(d, "sent")
    /\ UNCHANGED ghRun

RunAppears(d) ==
    /\ desk[d] = "sent" /\ ghRun[d].status = "absent"
    /\ ghRun' = [ghRun EXCEPT ![d].status = "requested"]
    /\ UNCHANGED desk
-----------------------------------------------------------------------------
RunStarts(r) ==
    /\ ghRun[r].status = "requested"
    /\ ghRun' = [ghRun EXCEPT ![r].status = "active"]
    /\ UNCHANGED desk

\* Bugs for mutation: another active run, or an earlier run of the operation,
\* does not block.
AloneInOperation(r) == FirstAttempt(r) /\ SameOperation(r) \ {r} = {}
AloneActive(r) == FirstAttempt(r) /\ OtherActive(r) = {}

(* passed of the run_bound phase: this run is there, no other attempt-1    *)
(* run of its operation is, and no other attempt-1 run is active.          *)
RunBoundPassed(r) == FirstAttempt(r) /\ SameOperation(r) \ {r} = {} /\ OtherActive(r) = {}

GuardRun(r) ==
    /\ r \in Standards
    /\ Underway(r) /\ ghRun[r].attempt = 1 /\ ghRun[r].guard = "none"
    /\ \/ RunBoundPassed(r) /\ ghRun' = [ghRun EXCEPT ![r].guard = "passed"]
       \/ ~RunBoundPassed(r) /\ ghRun' = [ghRun EXCEPT ![r].guard = "blocked"]
       \/ r \in FaultyDesks /\ ghRun' = [ghRun EXCEPT ![r].guard = "blocked"]
    /\ UNCHANGED desk

(* Every job that acts for the run demands run attempt 1.                  *)
ConsumeOperation(r) ==
    /\ Underway(r) /\ ghRun[r].attempt = 1 /\ ghRun[r].guard = "passed" /\ ~ghRun[r].consumed
    /\ ghRun' = [ghRun EXCEPT ![r].consumed = TRUE]
    /\ UNCHANGED desk

RunEnds(r) ==
    /\ Underway(r)
    /\ ghRun' = [ghRun EXCEPT ![r].status = "completed"]
    /\ UNCHANGED desk

(* An operator presses "re-run" once: the run is listed with attempt 2.    *)
RunAgain(r) ==
    /\ ghRun[r].status = "completed" /\ ghRun[r].attempt = 1
    /\ ghRun' = [ghRun EXCEPT ![r].status = "requested", ![r].attempt = 2]
    /\ UNCHANGED desk

DispatchStep(d) ==
    \/ Preflight(d) \/ SendDispatch(d) \/ RunAppears(d)
    \/ RunStarts(d) \/ GuardRun(d) \/ ConsumeOperation(d) \/ RunEnds(d) \/ RunAgain(d)

DispatchNext == \E d \in Dispatches : DispatchStep(d)
DispatchSpec == DispatchInit /\ [][DispatchNext]_dispatchVars
-----------------------------------------------------------------------------
Entitled(r) == r \in Standards /\ Underway(r) /\ ghRun[r].attempt = 1 /\ ghRun[r].guard = "passed"

(* Two Stable operations are never under way at once, although every guard *)
(* reads the list of runs first and acts on it later (nonce-guards.ts,     *)
(* :221-249): however the runs of two dispatches start and look, at most   *)
(* one passes while it is active.                                          *)
OneStableAtATime == \A r, s \in Dispatches : Entitled(r) /\ Entitled(s) => r = s

(* A frozen operation is consumed by one run: a carrier sent twice, or two *)
(* desks with one cohort, never get it twice (consumption.ts and the       *)
(* priorOperationMatches of the guard), as long as nobody re-runs the run  *)
(* that had it, which hides it from the guard (run_attempt === 1).         *)
OperationConsumedOnce ==
    \A r, s \in Standards :
        /\ ghRun[r].consumed /\ ghRun[s].consumed /\ CarrierOf[r] = CarrierOf[s]
        /\ ghRun[r].attempt = 1 /\ ghRun[s].attempt = 1
        => r = s
=============================================================================
