-------------------------- MODULE StableDispatchProofs --------------------------
(* Proofs about the dispatch of Stable operations, for any number of dispatches, *)
(* desks and operations.                                                         *)
EXTENDS StableDispatch, TLAPS

DeskStates == {"idle", "planned", "refused", "sent"}
RunRecords == [status : {"absent", "requested", "active", "completed"},
               attempt : {1, 2},
               guard : {"none", "passed", "blocked"},
               consumed : BOOLEAN]

RunsTyped == ghRun \in [Dispatches -> RunRecords]
DesksTyped == desk \in [Dispatches -> DeskStates]

(* A run looks at the others once it is active, and a run that has looked is *)
(* not queued again within its first attempt.                                *)
GuardFollowsStart ==
    \A r \in Dispatches :
        ghRun[r].guard # "none" =>
            /\ r \in Standards
            /\ ghRun[r].attempt = 1 => ghRun[r].status \in {"active", "completed"}

(* Only a run that passed consumes its operation. *)
ConsumedHasPassed ==
    \A r \in Dispatches : ghRun[r].consumed => ghRun[r].guard = "passed"

(* Of the first attempts of one operation at most one has passed. *)
OnePassesPerOperation ==
    \A r, s \in Standards :
        /\ ghRun[r].guard = "passed" /\ ghRun[s].guard = "passed"
        /\ ghRun[r].attempt = 1 /\ ghRun[s].attempt = 1
        /\ CarrierOf[r] = CarrierOf[s]
        => r = s

IInv ==
    /\ RunsTyped /\ DesksTyped
    /\ GuardFollowsStart
    /\ ConsumedHasPassed
    /\ OnePassesPerOperation
    /\ OneStableAtATime
-----------------------------------------------------------------------------
(* Before the first dispatch no run exists. *)
LEMMA IInvInit == DispatchInit => IInv
<1> SUFFICES ASSUME DispatchInit PROVE IInv
  OBVIOUS
<1>1. RunsTyped /\ DesksTyped
  BY DEF DispatchInit, RunsTyped, DesksTyped, RunRecords, DeskStates
<1>2. \A r \in Dispatches : ghRun[r].guard = "none" /\ ghRun[r].consumed = FALSE
  BY DEF DispatchInit
<1>3. GuardFollowsStart /\ ConsumedHasPassed
  BY <1>2 DEF GuardFollowsStart, ConsumedHasPassed
<1>4. OnePassesPerOperation
  BY <1>2, StandardsAssumption DEF OnePassesPerOperation
<1>5. OneStableAtATime
  BY <1>2 DEF OneStableAtATime, Entitled
<1> QED
  BY <1>1, <1>3, <1>4, <1>5 DEF IInv

(* The desks do not touch the runs. *)
LEMMA DeskKeepsIInv ==
    ASSUME IInv, NEW d \in Dispatches, Preflight(d) \/ SendDispatch(d)
    PROVE  IInv'
<1>1. ghRun' = ghRun
  BY DEF Preflight, SendDispatch
<1>2. DesksTyped'
  BY DEF IInv, DesksTyped, DeskStates, Preflight, SendDispatch, DeskStep
<1> QED
  BY <1>1, <1>2 DEF IInv, RunsTyped, GuardFollowsStart, ConsumedHasPassed,
     OnePassesPerOperation, OneStableAtATime, Entitled, Underway

(* Whatever a run's step does, it writes one well-formed record. *)
LEMMA RunStepTyped ==
    ASSUME IInv, NEW r \in Dispatches,
           RunAppears(r) \/ RunStarts(r) \/ GuardRun(r)
              \/ ConsumeOperation(r) \/ RunEnds(r) \/ RunAgain(r)
    PROVE  /\ (RunsTyped /\ DesksTyped)'
           /\ \A s \in Dispatches \ {r} : ghRun'[s] = ghRun[s]
<1> USE DEF IInv, RunsTyped, DesksTyped, RunRecords
<1>1. CASE RunAppears(r)
  BY <1>1 DEF RunAppears
<1>2. CASE RunStarts(r)
  BY <1>2 DEF RunStarts
<1>3. CASE GuardRun(r)
  BY <1>3 DEF GuardRun
<1>4. CASE ConsumeOperation(r)
  BY <1>4 DEF ConsumeOperation
<1>5. CASE RunEnds(r)
  BY <1>5 DEF RunEnds
<1>6. CASE RunAgain(r)
  BY <1>6 DEF RunAgain
<1> QED
  BY <1>1, <1>2, <1>3, <1>4, <1>5, <1>6

(* A step that lets no run pass and makes none that passed active again in   *)
(* its first attempt keeps at most one run entitled.                         *)
LEMMA NoNewcomer ==
    ASSUME IInv, NEW r \in Dispatches,
           \A s \in Dispatches \ {r} : ghRun'[s] = ghRun[s],
           \/ ghRun'[r].guard # "passed"
           \/ ghRun'[r].attempt # 1
           \/ /\ ghRun[r].guard = "passed" /\ ghRun[r].attempt = 1
              /\ ghRun'[r].status = "active" => ghRun[r].status = "active"
    PROVE  OnePassesPerOperation' /\ OneStableAtATime'
<1>1. OnePassesPerOperation'
  BY StandardsAssumption DEF IInv, OnePassesPerOperation
<1>2. ASSUME NEW s \in Dispatches, Entitled(s)' PROVE Entitled(s)
  BY <1>2 DEF Entitled, Underway
<1> QED
  BY <1>1, <1>2 DEF IInv, OneStableAtATime

(* A run that passes sees every other run that could be in its way.          *)
LEMMA PassingIsAlone ==
    ASSUME IInv, NEW r \in Standards, RunBoundPassed(r)
    PROVE  \A s \in Dispatches \ {r} :
              ghRun[s].guard = "passed" /\ ghRun[s].attempt = 1 =>
                 /\ CarrierOf[s] # CarrierOf[r]
                 /\ ghRun[s].status # "active"
<1> SUFFICES ASSUME NEW s \in Dispatches \ {r},
                    ghRun[s].guard = "passed", ghRun[s].attempt = 1
             PROVE  CarrierOf[s] # CarrierOf[r] /\ ghRun[s].status # "active"
  OBVIOUS
<1>1. s \in Standards /\ FirstAttempt(s)
  BY DEF IInv, GuardFollowsStart, FirstAttempt, Runs
<1>2. CarrierOf[s] # CarrierOf[r]
  BY <1>1 DEF RunBoundPassed, SameOperation
<1>3. ghRun[s].status # "active"
  BY <1>1 DEF RunBoundPassed, OtherActive, Underway
<1> QED
  BY <1>2, <1>3

(* The guard of a run, passed or blocked.                                    *)
LEMMA GuardKeepsIInv ==
    ASSUME IInv, NEW r \in Dispatches, GuardRun(r)
    PROVE  IInv'
<1>1. /\ (RunsTyped /\ DesksTyped)'
      /\ \A s \in Dispatches \ {r} : ghRun'[s] = ghRun[s]
  BY RunStepTyped
<1>2. /\ r \in Standards /\ ghRun[r].status = "active"
      /\ ghRun[r].attempt = 1 /\ ghRun[r].guard = "none"
  BY DEF GuardRun, Underway
<1>3. /\ ghRun'[r].status = "active" /\ ghRun'[r].attempt = 1
      /\ ghRun'[r].guard \in {"passed", "blocked"}
      /\ ghRun'[r].consumed = ghRun[r].consumed
  BY <1>2 DEF GuardRun, IInv, RunsTyped, RunRecords
<1>4. GuardFollowsStart'
  BY <1>1, <1>2, <1>3 DEF IInv, GuardFollowsStart
<1>5. ConsumedHasPassed'
  BY <1>1, <1>2, <1>3 DEF IInv, ConsumedHasPassed
<1>6. CASE ghRun'[r].guard = "blocked"
  BY <1>1, <1>4, <1>5, <1>6, NoNewcomer DEF IInv
<1>7. CASE ghRun'[r].guard = "passed"
  <2>1. RunBoundPassed(r)
    BY <1>7 DEF GuardRun, IInv, RunsTyped, RunRecords
  <2>2. \A s \in Dispatches \ {r} :
           ghRun[s].guard = "passed" /\ ghRun[s].attempt = 1 =>
              CarrierOf[s] # CarrierOf[r] /\ ghRun[s].status # "active"
    BY <1>2, <2>1, PassingIsAlone
  <2>3. OnePassesPerOperation'
    BY <1>1, <2>2, StandardsAssumption DEF IInv, OnePassesPerOperation
  <2>4. \A s \in Dispatches \ {r} : ~Entitled(s)'
    BY <1>1, <2>2 DEF Entitled, Underway
  <2>5. OneStableAtATime'
    BY <2>4 DEF OneStableAtATime
  <2> QED
    BY <1>1, <1>4, <1>5, <2>3, <2>5 DEF IInv
<1> QED
  BY <1>3, <1>6, <1>7

(* The other steps of a run.                                                 *)
LEMMA RunKeepsIInv ==
    ASSUME IInv, NEW r \in Dispatches,
           RunAppears(r) \/ RunStarts(r) \/ ConsumeOperation(r) \/ RunEnds(r) \/ RunAgain(r)
    PROVE  IInv'
<1>1. /\ (RunsTyped /\ DesksTyped)'
      /\ \A s \in Dispatches \ {r} : ghRun'[s] = ghRun[s]
  BY RunStepTyped
<1>2. ghRun'[r].guard = ghRun[r].guard
  BY DEF RunAppears, RunStarts, ConsumeOperation, RunEnds, RunAgain, IInv, RunsTyped, RunRecords
<1>3. \/ ghRun'[r].attempt = 2
      \/ /\ ghRun'[r].attempt = ghRun[r].attempt
         /\ ghRun'[r].guard # "none" /\ ghRun[r].attempt = 1 =>
               /\ ghRun'[r].status \in {"active", "completed"}
               /\ ghRun'[r].status = "active" => ghRun[r].status = "active"
  BY DEF RunAppears, RunStarts, ConsumeOperation, RunEnds, RunAgain, Underway,
     IInv, RunsTyped, RunRecords, GuardFollowsStart
<1>4. ghRun'[r].consumed => ghRun[r].consumed \/ ghRun[r].guard = "passed"
  BY DEF RunAppears, RunStarts, ConsumeOperation, RunEnds, RunAgain, IInv, RunsTyped, RunRecords
<1>5. GuardFollowsStart'
  BY <1>1, <1>2, <1>3 DEF IInv, GuardFollowsStart
<1>6. ConsumedHasPassed'
  BY <1>1, <1>2, <1>4 DEF IInv, ConsumedHasPassed
<1>7. OnePassesPerOperation' /\ OneStableAtATime'
  BY <1>1, <1>2, <1>3, NoNewcomer
<1> QED
  BY <1>1, <1>5, <1>6, <1>7 DEF IInv

(* Every step of the specification keeps the invariant. *)
LEMMA IInvNext == IInv /\ [DispatchNext]_dispatchVars => IInv'
<1> SUFFICES ASSUME IInv, [DispatchNext]_dispatchVars PROVE IInv'
  OBVIOUS
<1>1. CASE UNCHANGED dispatchVars
  BY <1>1 DEF dispatchVars, IInv, RunsTyped, DesksTyped, GuardFollowsStart, ConsumedHasPassed,
     OnePassesPerOperation, OneStableAtATime, Entitled, Underway
<1>2. CASE DispatchNext
  <2>1. PICK d \in Dispatches : DispatchStep(d)
    BY <1>2 DEF DispatchNext
  <2>2. CASE Preflight(d) \/ SendDispatch(d)
    BY <2>2, DeskKeepsIInv
  <2>3. CASE GuardRun(d)
    BY <2>3, GuardKeepsIInv
  <2>4. CASE RunAppears(d) \/ RunStarts(d) \/ ConsumeOperation(d) \/ RunEnds(d) \/ RunAgain(d)
    BY <2>4, RunKeepsIInv
  <2> QED
    BY <2>1, <2>2, <2>3, <2>4 DEF DispatchStep
<1> QED
  BY <1>1, <1>2

LEMMA IInvAlways == DispatchSpec => []IInv
BY IInvInit, IInvNext, PTL DEF DispatchSpec

(* However many desks and dispatches there are, no two Stable operations are  *)
(* under way at once: the check of a run against the list and what it does    *)
(* with the answer need not be atomic with those of the others (:221-249).    *)
THEOREM OneAtATime == DispatchSpec => []OneStableAtATime
<1>1. IInv => OneStableAtATime
  BY DEF IInv
<1> QED
  BY <1>1, IInvAlways, PTL

(* A frozen operation is consumed at most once unless its run is re-run       *)
(* (consumption.ts, :14-41), whatever is dispatched, by hand or not.          *)
THEOREM ConsumedOnce == DispatchSpec => []OperationConsumedOnce
<1>1. IInv => OperationConsumedOnce
  BY StandardsAssumption
     DEF IInv, ConsumedHasPassed, OnePassesPerOperation, OperationConsumedOnce
<1> QED
  BY <1>1, IInvAlways, PTL
=============================================================================
