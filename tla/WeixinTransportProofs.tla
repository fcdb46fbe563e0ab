------------------------- MODULE WeixinTransportProofs -------------------------
(***************************************************************************)
(* WeixinTransport, for any number of messages and stop() calls: replies   *)
(* are unique and earned, a finished task has released its turn, a stopped *)
(* provider is quiet, every step is a step of the relay, and what a batch  *)
(* held was forwarded. Each message is taken up at most once because the   *)
(* loop only looks past `handled'; its turn is subscribed at most once     *)
(* because it is taken up once; and stop() captures what is left only      *)
(* after the loop has ended.                                               *)
(***************************************************************************)
EXTENDS WeixinTransport, TLAPS

Lifecycles == {"created", "running", "stopping", "stopped"}
Subscriptions == {"none", "active", "untracked", "disposing", "disposed"}
Tasks == {"none", "sending", "closing", "disposing", "done"}
Calling == {"startThread", "resumeThread", "startTurn"}
Looping == {"request", "sleep", "batch"} \cup Calling

(* TypeOK without the delay of the backoff.                                *)
Types ==
    /\ lifecycle \in Lifecycles
    /\ aborted \in BOOLEAN /\ callback \in BOOLEAN
    /\ cursor \in 0..MaxMessages /\ handled \in 0..MaxMessages
    /\ arrived \in 0..MaxMessages /\ pollPc \in PollPcs
    /\ kind \in [Messages -> Kinds]
    /\ subscription \in [Messages -> Subscriptions]
    /\ terminalHandled \in [Messages -> BOOLEAN]
    /\ task \in [Messages -> Tasks]
    /\ activeTasks \subseteq Messages /\ completed \subseteq Messages
    /\ stopPc \in [Stops -> StopPcs]
    /\ stopWaits \in [Stops -> SUBSET Messages]
    /\ forwarded \in [Messages -> 0..1]
    /\ answer \in [Messages -> Events \cup {NoEvent}]
    /\ sends \in [Messages -> 0..1]

(* The loop is before every message past handled.                          *)
Before ==
    /\ pollPc \in Looping =>
          /\ handled <= cursor /\ cursor <= arrived
          /\ \A m \in Messages : m > handled => forwarded[m] = 0
    /\ pollPc \in Calling =>
          handled \in Messages /\ forwarded[handled] = 1 /\ subscription[handled] = "none"

(* A turn belongs to a forwarded message, and a task to a turn.            *)
Belongs(m) ==
    /\ subscription[m] # "none" => forwarded[m] = 1
    /\ terminalHandled[m] => subscription[m] # "none"
    /\ ~terminalHandled[m] => task[m] = "none" /\ sends[m] = 0
    /\ sends[m] = 1 => answer[m] = "completed" /\ m \in completed
    /\ task[m] = "done" => subscription[m] # "active"
    /\ task[m] = "sending" => m \in activeTasks

(* Before start() nothing runs, and stop() goes through its stages.        *)
Staged ==
    /\ lifecycle = "created" => pollPc = "idle" /\ ~aborted
    /\ lifecycle \in {"created", "running"} => \A s \in Stops : stopPc[s] = "idle"
    /\ lifecycle = "stopping" => aborted
    /\ lifecycle \in {"running", "stopping"} => pollPc # "idle"
    /\ pollPc = "idle" => cursor = 0 /\ handled = 0 /\ ~callback
                          /\ \A m \in Messages : forwarded[m] = 0
    /\ lifecycle = "stopped" => pollPc \in {"idle", "ended"} /\ cursor = 0 /\ ~callback

(* What a stop() has got rid of when it comes to its last stages, and what *)
(* a stopped provider is rid of.                                           *)
NoTracked == pollPc = "ended" /\ \A m \in Messages : subscription[m] # "active"
Cleared(s) ==
    /\ stopPc[s] \in {"dispose1", "poll", "dispose2", "tasks"} => aborted
    /\ stopPc[s] \in {"dispose2", "tasks"} => NoTracked
    /\ stopPc[s] = "tasks" => \A m \in Messages : task[m] = "sending" => m \in stopWaits[s]
Quiet ==
    lifecycle = "stopped" /\ pollPc = "ended" =>
        aborted /\ \A m \in Messages : subscription[m] # "active" /\ task[m] # "sending"

IInv ==
    /\ Types /\ Before /\ Staged /\ Quiet
    /\ \A m \in Messages : Belongs(m)
    /\ \A s \in Stops : Cleared(s)

LEMMA InitInv == Init => IInv
  <1> SUFFICES ASSUME Init PROVE IInv
    OBVIOUS
  <1> USE BoundsAssumption DEF Init
  <1>1. Types
    <2>1. 0 \in 0..MaxMessages /\ 0 \in 0..1
      BY BoundsAssumption
    <2>2. /\ subscription \in [Messages -> Subscriptions] /\ task \in [Messages -> Tasks]
          /\ kind \in [Messages -> Kinds]
      BY DEF Subscriptions, Tasks, Kinds
    <2>3. /\ answer \in [Messages -> Events \cup {NoEvent}]
          /\ terminalHandled \in [Messages -> BOOLEAN]
          /\ forwarded \in [Messages -> 0..1] /\ sends \in [Messages -> 0..1]
      BY <2>1
    <2>4. stopPc \in [Stops -> StopPcs] /\ stopWaits \in [Stops -> SUBSET Messages]
      BY DEF StopPcs
    <2> QED
      BY <2>1, <2>2, <2>3, <2>4 DEF Types, Lifecycles, PollPcs
  <1>2. Before /\ Staged /\ Quiet
    BY DEF Before, Staged, Quiet, Looping, Calling
  <1>3. ASSUME NEW m \in Messages PROVE Belongs(m)
    BY DEF Belongs
  <1>4. ASSUME NEW s \in Stops PROVE Cleared(s)
    BY DEF Cleared
  <1> QED
    BY <1>1, <1>2, <1>3, <1>4 DEF IInv

LEMMA ReceiveKeeps ==
  ASSUME IInv, NEW k \in Kinds, Receive(k)
  PROVE  IInv'
  <1> USE BoundsAssumption DEF Receive, LoopTop, FailPoll, TakesUp, NextMessage, BatchIsDone, provider, poll, server, turns, stopping
  <1>1. Types'
    BY DEF IInv, Types, Before, Messages, Kinds, PollPcs, StopPcs, Subscriptions, Lifecycles, Looping, Calling
  <1>2. Before'
    BY DEF IInv, Types, Before, Belongs, Staged, Looping, Calling, Messages
  <1>3. Staged' /\ Quiet'
    BY DEF IInv, Staged, Quiet
  <1>4. ASSUME NEW m \in Messages PROVE Belongs(m)'
    BY DEF IInv, Types, Before, Belongs, Looping, Calling
  <1>5. ASSUME NEW s \in Stops PROVE Cleared(s)'
    BY DEF IInv, Cleared, NoTracked, Staged
  <1> QED
    BY <1>1, <1>2, <1>3, <1>4, <1>5 DEF IInv

LEMMA StartKeeps ==
  ASSUME IInv, Start
  PROVE  IInv'
  <1> USE BoundsAssumption DEF Start, LoopTop, FailPoll, TakesUp, NextMessage, BatchIsDone, provider, poll, server, turns, stopping
  <1>1. Types'
    BY DEF IInv, Types, Before, Messages, Kinds, PollPcs, StopPcs, Subscriptions, Lifecycles, Looping, Calling
  <1>2. Before'
    BY DEF IInv, Types, Before, Belongs, Staged, Looping, Calling, Messages
  <1>3. Staged' /\ Quiet'
    BY DEF IInv, Staged, Quiet
  <1>4. ASSUME NEW m \in Messages PROVE Belongs(m)'
    BY DEF IInv, Types, Before, Belongs, Looping, Calling
  <1>5. ASSUME NEW s \in Stops PROVE Cleared(s)'
    BY DEF IInv, Cleared, NoTracked, Staged
  <1> QED
    BY <1>1, <1>2, <1>3, <1>4, <1>5 DEF IInv

LEMMA PollResponseKeeps ==
  ASSUME IInv, PollResponse
  PROVE  IInv'
  <1> USE BoundsAssumption DEF PollResponse, LoopTop, FailPoll, TakesUp, NextMessage, BatchIsDone, provider, poll, server, turns, stopping
  <1>1. Types'
    BY DEF IInv, Types, Before, Messages, Kinds, PollPcs, StopPcs, Subscriptions, Lifecycles, Looping, Calling
  <1>2. Before'
    BY DEF IInv, Types, Before, Belongs, Staged, Looping, Calling, Messages
  <1>3. Staged' /\ Quiet'
    BY DEF IInv, Staged, Quiet
  <1>4. ASSUME NEW m \in Messages PROVE Belongs(m)'
    BY DEF IInv, Types, Before, Belongs, Looping, Calling
  <1>5. ASSUME NEW s \in Stops PROVE Cleared(s)'
    BY DEF IInv, Cleared, NoTracked, Staged
  <1> QED
    BY <1>1, <1>2, <1>3, <1>4, <1>5 DEF IInv

LEMMA PollFailureKeeps ==
  ASSUME IInv, PollFailure
  PROVE  IInv'
  <1> USE BoundsAssumption DEF PollFailure, LoopTop, FailPoll, TakesUp, NextMessage, BatchIsDone, provider, poll, server, turns, stopping
  <1>1. Types'
    BY DEF IInv, Types, Before, Messages, Kinds, PollPcs, StopPcs, Subscriptions, Lifecycles, Looping, Calling
  <1>2. Before'
    BY DEF IInv, Types, Before, Belongs, Staged, Looping, Calling, Messages
  <1>3. Staged' /\ Quiet'
    BY DEF IInv, Staged, Quiet
  <1>4. ASSUME NEW m \in Messages PROVE Belongs(m)'
    BY DEF IInv, Types, Before, Belongs, Looping, Calling
  <1>5. ASSUME NEW s \in Stops PROVE Cleared(s)'
    BY DEF IInv, Cleared, NoTracked, Staged
  <1> QED
    BY <1>1, <1>2, <1>3, <1>4, <1>5 DEF IInv

LEMMA PollAbortedKeeps ==
  ASSUME IInv, PollAborted
  PROVE  IInv'
  <1> USE BoundsAssumption DEF PollAborted, LoopTop, FailPoll, TakesUp, NextMessage, BatchIsDone, provider, poll, server, turns, stopping
  <1>1. Types'
    BY DEF IInv, Types, Before, Messages, Kinds, PollPcs, StopPcs, Subscriptions, Lifecycles, Looping, Calling
  <1>2. Before'
    BY DEF IInv, Types, Before, Belongs, Staged, Looping, Calling, Messages
  <1>3. Staged' /\ Quiet'
    BY DEF IInv, Staged, Quiet
  <1>4. ASSUME NEW m \in Messages PROVE Belongs(m)'
    BY DEF IInv, Types, Before, Belongs, Looping, Calling
  <1>5. ASSUME NEW s \in Stops PROVE Cleared(s)'
    BY DEF IInv, Cleared, NoTracked, Staged
  <1> QED
    BY <1>1, <1>2, <1>3, <1>4, <1>5 DEF IInv

LEMMA SleepElapsedKeeps ==
  ASSUME IInv, SleepElapsed
  PROVE  IInv'
  <1> USE BoundsAssumption DEF SleepElapsed, LoopTop, FailPoll, TakesUp, NextMessage, BatchIsDone, provider, poll, server, turns, stopping
  <1>1. Types'
    BY DEF IInv, Types, Before, Messages, Kinds, PollPcs, StopPcs, Subscriptions, Lifecycles, Looping, Calling
  <1>2. Before'
    BY DEF IInv, Types, Before, Belongs, Staged, Looping, Calling, Messages
  <1>3. Staged' /\ Quiet'
    BY DEF IInv, Staged, Quiet
  <1>4. ASSUME NEW m \in Messages PROVE Belongs(m)'
    BY DEF IInv, Types, Before, Belongs, Looping, Calling
  <1>5. ASSUME NEW s \in Stops PROVE Cleared(s)'
    BY DEF IInv, Cleared, NoTracked, Staged
  <1> QED
    BY <1>1, <1>2, <1>3, <1>4, <1>5 DEF IInv

LEMMA SleepFailedKeeps ==
  ASSUME IInv, SleepFailed
  PROVE  IInv'
  <1> USE BoundsAssumption DEF SleepFailed, LoopTop, FailPoll, TakesUp, NextMessage, BatchIsDone, provider, poll, server, turns, stopping
  <1>1. Types'
    BY DEF IInv, Types, Before, Messages, Kinds, PollPcs, StopPcs, Subscriptions, Lifecycles, Looping, Calling
  <1>2. Before'
    BY DEF IInv, Types, Before, Belongs, Staged, Looping, Calling, Messages
  <1>3. Staged' /\ Quiet'
    BY DEF IInv, Staged, Quiet
  <1>4. ASSUME NEW m \in Messages PROVE Belongs(m)'
    BY DEF IInv, Types, Before, Belongs, Looping, Calling
  <1>5. ASSUME NEW s \in Stops PROVE Cleared(s)'
    BY DEF IInv, Cleared, NoTracked, Staged
  <1> QED
    BY <1>1, <1>2, <1>3, <1>4, <1>5 DEF IInv

LEMMA BatchDoneKeeps ==
  ASSUME IInv, BatchDone
  PROVE  IInv'
  <1> USE BoundsAssumption DEF BatchDone, LoopTop, FailPoll, TakesUp, NextMessage, BatchIsDone, provider, poll, server, turns, stopping
  <1>1. Types'
    BY DEF IInv, Types, Before, Messages, Kinds, PollPcs, StopPcs, Subscriptions, Lifecycles, Looping, Calling
  <1>2. Before'
    BY DEF IInv, Types, Before, Belongs, Staged, Looping, Calling, Messages
  <1>3. Staged' /\ Quiet'
    BY DEF IInv, Staged, Quiet
  <1>4. ASSUME NEW m \in Messages PROVE Belongs(m)'
    BY DEF IInv, Types, Before, Belongs, Looping, Calling
  <1>5. ASSUME NEW s \in Stops PROVE Cleared(s)'
    BY DEF IInv, Cleared, NoTracked, Staged
  <1> QED
    BY <1>1, <1>2, <1>3, <1>4, <1>5 DEF IInv

LEMMA TakeTextKeeps ==
  ASSUME IInv, TakeText
  PROVE  IInv'
  <1> USE BoundsAssumption DEF TakeText, LoopTop, FailPoll, TakesUp, NextMessage, BatchIsDone, provider, poll, server, turns, stopping
  <1>1. Types'
    BY DEF IInv, Types, Before, Messages, Kinds, PollPcs, StopPcs, Subscriptions, Lifecycles, Looping, Calling
  <1>2. Before'
    BY DEF IInv, Types, Before, Belongs, Staged, Looping, Calling, Messages
  <1>3. Staged' /\ Quiet'
    BY DEF IInv, Staged, Quiet
  <1>4. ASSUME NEW m \in Messages PROVE Belongs(m)'
    BY DEF IInv, Types, Before, Belongs, Looping, Calling
  <1>5. ASSUME NEW s \in Stops PROVE Cleared(s)'
    BY DEF IInv, Cleared, NoTracked, Staged
  <1> QED
    BY <1>1, <1>2, <1>3, <1>4, <1>5 DEF IInv

LEMMA TakeInvalidKeeps ==
  ASSUME IInv, TakeInvalid
  PROVE  IInv'
  <1> USE BoundsAssumption DEF TakeInvalid, LoopTop, FailPoll, TakesUp, NextMessage, BatchIsDone, provider, poll, server, turns, stopping
  <1>1. Types'
    BY DEF IInv, Types, Before, Messages, Kinds, PollPcs, StopPcs, Subscriptions, Lifecycles, Looping, Calling
  <1>2. Before'
    BY DEF IInv, Types, Before, Belongs, Staged, Looping, Calling, Messages
  <1>3. Staged' /\ Quiet'
    BY DEF IInv, Staged, Quiet
  <1>4. ASSUME NEW m \in Messages PROVE Belongs(m)'
    BY DEF IInv, Types, Before, Belongs, Looping, Calling
  <1>5. ASSUME NEW s \in Stops PROVE Cleared(s)'
    BY DEF IInv, Cleared, NoTracked, Staged
  <1> QED
    BY <1>1, <1>2, <1>3, <1>4, <1>5 DEF IInv

LEMMA TakePoisonKeeps ==
  ASSUME IInv, TakePoison
  PROVE  IInv'
  <1> USE BoundsAssumption DEF TakePoison, LoopTop, FailPoll, TakesUp, NextMessage, BatchIsDone, provider, poll, server, turns, stopping
  <1>1. Types'
    BY DEF IInv, Types, Before, Messages, Kinds, PollPcs, StopPcs, Subscriptions, Lifecycles, Looping, Calling
  <1>2. Before'
    BY DEF IInv, Types, Before, Belongs, Staged, Looping, Calling, Messages
  <1>3. Staged' /\ Quiet'
    BY DEF IInv, Staged, Quiet
  <1>4. ASSUME NEW m \in Messages PROVE Belongs(m)'
    BY DEF IInv, Types, Before, Belongs, Looping, Calling
  <1>5. ASSUME NEW s \in Stops PROVE Cleared(s)'
    BY DEF IInv, Cleared, NoTracked, Staged
  <1> QED
    BY <1>1, <1>2, <1>3, <1>4, <1>5 DEF IInv

LEMMA StartThreadResolvesKeeps ==
  ASSUME IInv, StartThreadResolves
  PROVE  IInv'
  <1> USE BoundsAssumption DEF StartThreadResolves, LoopTop, FailPoll, TakesUp, NextMessage, BatchIsDone, provider, poll, server, turns, stopping
  <1>1. Types'
    BY DEF IInv, Types, Before, Messages, Kinds, PollPcs, StopPcs, Subscriptions, Lifecycles, Looping, Calling
  <1>2. Before'
    BY DEF IInv, Types, Before, Belongs, Staged, Looping, Calling, Messages
  <1>3. Staged' /\ Quiet'
    BY DEF IInv, Staged, Quiet
  <1>4. ASSUME NEW m \in Messages PROVE Belongs(m)'
    BY DEF IInv, Types, Before, Belongs, Looping, Calling
  <1>5. ASSUME NEW s \in Stops PROVE Cleared(s)'
    BY DEF IInv, Cleared, NoTracked, Staged
  <1> QED
    BY <1>1, <1>2, <1>3, <1>4, <1>5 DEF IInv

LEMMA ResumeThreadResolvesKeeps ==
  ASSUME IInv, ResumeThreadResolves
  PROVE  IInv'
  <1> USE BoundsAssumption DEF ResumeThreadResolves, LoopTop, FailPoll, TakesUp, NextMessage, BatchIsDone, provider, poll, server, turns, stopping
  <1>1. Types'
    BY DEF IInv, Types, Before, Messages, Kinds, PollPcs, StopPcs, Subscriptions, Lifecycles, Looping, Calling
  <1>2. Before'
    BY DEF IInv, Types, Before, Belongs, Staged, Looping, Calling, Messages
  <1>3. Staged' /\ Quiet'
    BY DEF IInv, Staged, Quiet
  <1>4. ASSUME NEW m \in Messages PROVE Belongs(m)'
    BY DEF IInv, Types, Before, Belongs, Looping, Calling
  <1>5. ASSUME NEW s \in Stops PROVE Cleared(s)'
    BY DEF IInv, Cleared, NoTracked, Staged
  <1> QED
    BY <1>1, <1>2, <1>3, <1>4, <1>5 DEF IInv

LEMMA StartTurnResolvesKeeps ==
  ASSUME IInv, StartTurnResolves
  PROVE  IInv'
  <1> USE BoundsAssumption DEF StartTurnResolves, LoopTop, FailPoll, TakesUp, NextMessage, BatchIsDone, provider, poll, server, turns, stopping
  <1>1. Types'
    BY DEF IInv, Types, Before, Messages, Kinds, PollPcs, StopPcs, Subscriptions, Lifecycles, Looping, Calling
  <1>2. Before'
    BY DEF IInv, Types, Before, Belongs, Staged, Looping, Calling, Messages
  <1>3. Staged' /\ Quiet'
    BY DEF IInv, Staged, Quiet
  <1>4. ASSUME NEW m \in Messages PROVE Belongs(m)'
    BY DEF IInv, Types, Before, Belongs, Looping, Calling
  <1>5. ASSUME NEW s \in Stops PROVE Cleared(s)'
    BY DEF IInv, Cleared, NoTracked, Staged
  <1> QED
    BY <1>1, <1>2, <1>3, <1>4, <1>5 DEF IInv

LEMMA CallbackFailsKeeps ==
  ASSUME IInv, CallbackFails
  PROVE  IInv'
  <1> USE BoundsAssumption DEF CallbackFails, LoopTop, FailPoll, TakesUp, NextMessage, BatchIsDone, provider, poll, server, turns, stopping
  <1>1. Types'
    BY DEF IInv, Types, Before, Messages, Kinds, PollPcs, StopPcs, Subscriptions, Lifecycles, Looping, Calling
  <1>2. Before'
    BY DEF IInv, Types, Before, Belongs, Staged, Looping, Calling, Messages
  <1>3. Staged' /\ Quiet'
    BY DEF IInv, Staged, Quiet
  <1>4. ASSUME NEW m \in Messages PROVE Belongs(m)'
    BY DEF IInv, Types, Before, Belongs, Looping, Calling
  <1>5. ASSUME NEW s \in Stops PROVE Cleared(s)'
    BY DEF IInv, Cleared, NoTracked, Staged
  <1> QED
    BY <1>1, <1>2, <1>3, <1>4, <1>5 DEF IInv

LEMMA TerminalEventKeeps ==
  ASSUME IInv, NEW m \in Messages, NEW e \in Events, TerminalEvent(m, e)
  PROVE  IInv'
  <1> USE DEF TerminalEvent, Delivered, FirstEvent, MaySend, TaskEnds, MustDispose, provider, poll, server, stopping
  <1>1. Types'
    BY DEF IInv, Types, Belongs, Subscriptions, Tasks
  <1>2. Before'
    BY DEF IInv, Types, Before
  <1>3. Staged' /\ Quiet'
    BY DEF IInv, Types, Staged, Quiet, Tasks, Subscriptions
  <1>4. ASSUME NEW n \in Messages PROVE Belongs(n)'
    BY DEF IInv, Types, Belongs
  <1>5. ASSUME NEW s \in Stops PROVE Cleared(s)'
    BY DEF IInv, Types, Cleared, NoTracked
  <1> QED
    BY <1>1, <1>2, <1>3, <1>4, <1>5 DEF IInv

LEMMA RepeatedEventKeeps ==
  ASSUME IInv, NEW m \in Messages, NEW e \in Events, RepeatedEvent(m, e)
  PROVE  IInv'
  <1> USE DEF RepeatedEvent, Delivered, FirstEvent, MaySend, TaskEnds, MustDispose, provider, poll, server, stopping
  <1>1. Types'
    BY DEF IInv, Types, Belongs, Subscriptions, Tasks
  <1>2. Before'
    BY DEF IInv, Types, Before
  <1>3. Staged' /\ Quiet'
    BY DEF IInv, Types, Staged, Quiet, Tasks, Subscriptions
  <1>4. ASSUME NEW n \in Messages PROVE Belongs(n)'
    BY DEF IInv, Types, Belongs
  <1>5. ASSUME NEW s \in Stops PROVE Cleared(s)'
    BY DEF IInv, Types, Cleared, NoTracked
  <1> QED
    BY <1>1, <1>2, <1>3, <1>4, <1>5 DEF IInv

LEMMA SendSettlesKeeps ==
  ASSUME IInv, NEW m \in Messages, SendSettles(m)
  PROVE  IInv'
  <1> USE DEF SendSettles, Delivered, FirstEvent, MaySend, TaskEnds, MustDispose, provider, poll, server, stopping
  <1>1. Types'
    BY DEF IInv, Types, Belongs, Subscriptions, Tasks
  <1>2. Before'
    BY DEF IInv, Types, Before
  <1>3. Staged' /\ Quiet'
    BY DEF IInv, Types, Staged, Quiet, Tasks, Subscriptions
  <1>4. ASSUME NEW n \in Messages PROVE Belongs(n)'
    BY DEF IInv, Types, Belongs
  <1>5. ASSUME NEW s \in Stops PROVE Cleared(s)'
    BY DEF IInv, Types, Cleared, NoTracked
  <1> QED
    BY <1>1, <1>2, <1>3, <1>4, <1>5 DEF IInv

LEMMA TaskFinallyKeeps ==
  ASSUME IInv, NEW m \in Messages, TaskFinally(m)
  PROVE  IInv'
  <1> USE DEF TaskFinally, Delivered, FirstEvent, MaySend, TaskEnds, MustDispose, provider, poll, server, stopping
  <1>1. Types'
    BY DEF IInv, Types, Belongs, Subscriptions, Tasks
  <1>2. Before'
    BY DEF IInv, Types, Before
  <1>3. Staged' /\ Quiet'
    BY DEF IInv, Types, Staged, Quiet, Tasks, Subscriptions
  <1>4. ASSUME NEW n \in Messages PROVE Belongs(n)'
    BY DEF IInv, Types, Belongs
  <1>5. ASSUME NEW s \in Stops PROVE Cleared(s)'
    BY DEF IInv, Types, Cleared, NoTracked
  <1> QED
    BY <1>1, <1>2, <1>3, <1>4, <1>5 DEF IInv

LEMMA TaskDisposedKeeps ==
  ASSUME IInv, NEW m \in Messages, TaskDisposed(m)
  PROVE  IInv'
  <1> USE DEF TaskDisposed, Delivered, FirstEvent, MaySend, TaskEnds, MustDispose, provider, poll, server, stopping
  <1>1. Types'
    BY DEF IInv, Types, Belongs, Subscriptions, Tasks
  <1>2. Before'
    BY DEF IInv, Types, Before
  <1>3. Staged' /\ Quiet'
    BY DEF IInv, Types, Staged, Quiet, Tasks, Subscriptions
  <1>4. ASSUME NEW n \in Messages PROVE Belongs(n)'
    BY DEF IInv, Types, Belongs
  <1>5. ASSUME NEW s \in Stops PROVE Cleared(s)'
    BY DEF IInv, Types, Cleared, NoTracked
  <1> QED
    BY <1>1, <1>2, <1>3, <1>4, <1>5 DEF IInv

LEMMA HostDisposesKeeps ==
  ASSUME IInv, NEW m \in Messages, HostDisposes(m)
  PROVE  IInv'
  <1> USE DEF HostDisposes, Delivered, FirstEvent, MaySend, TaskEnds, MustDispose, provider, poll, server, stopping
  <1>1. Types'
    BY DEF IInv, Types, Belongs, Subscriptions, Tasks
  <1>2. Before'
    BY DEF IInv, Types, Before
  <1>3. Staged' /\ Quiet'
    BY DEF IInv, Types, Staged, Quiet, Tasks, Subscriptions
  <1>4. ASSUME NEW n \in Messages PROVE Belongs(n)'
    BY DEF IInv, Types, Belongs
  <1>5. ASSUME NEW s \in Stops PROVE Cleared(s)'
    BY DEF IInv, Types, Cleared, NoTracked
  <1> QED
    BY <1>1, <1>2, <1>3, <1>4, <1>5 DEF IInv

LEMMA StopReturnsKeeps ==
  ASSUME IInv, NEW s \in Stops, StopReturns(s)
  PROVE  IInv'
  <1> USE DEF StopReturns, Abort, DisposeTracked, DisposeAgain, AllDisposed, provider, poll, server, turns
  <1>1. Types'
    <2>1. IInv /\ 0 \in 0..MaxMessages
      BY BoundsAssumption
    <2> QED
      BY <2>1 DEF IInv, Types, Subscriptions, StopPcs, Lifecycles
  <1>2. Before'
    BY DEF IInv, Types, Before, Cleared, NoTracked, Looping, Calling
  <1>3. Staged'
    BY DEF IInv, Types, Staged, Cleared, NoTracked, Before
  <1>4. Quiet'
    BY DEF IInv, Types, Staged, Quiet, Cleared, NoTracked
  <1>5. ASSUME NEW m \in Messages PROVE Belongs(m)'
    BY DEF IInv, Types, Belongs, Cleared
  <1>6. ASSUME NEW r \in Stops PROVE Cleared(r)'
    BY DEF IInv, Types, Belongs, Staged, Cleared, NoTracked
  <1> QED
    BY <1>1, <1>2, <1>3, <1>4, <1>5, <1>6 DEF IInv

LEMMA StopBeginsKeeps ==
  ASSUME IInv, NEW s \in Stops, StopBegins(s)
  PROVE  IInv'
  <1> USE DEF StopBegins, Abort, DisposeTracked, DisposeAgain, AllDisposed, provider, poll, server, turns
  <1>1. Types'
    <2>1. IInv /\ 0 \in 0..MaxMessages
      BY BoundsAssumption
    <2> QED
      BY <2>1 DEF IInv, Types, Subscriptions, StopPcs, Lifecycles
  <1>2. Before'
    BY DEF IInv, Types, Before, Cleared, NoTracked, Looping, Calling
  <1>3. Staged'
    BY DEF IInv, Types, Staged, Cleared, NoTracked, Before
  <1>4. Quiet'
    BY DEF IInv, Types, Staged, Quiet, Cleared, NoTracked
  <1>5. ASSUME NEW m \in Messages PROVE Belongs(m)'
    BY DEF IInv, Types, Belongs, Cleared
  <1>6. ASSUME NEW r \in Stops PROVE Cleared(r)'
    BY DEF IInv, Types, Belongs, Staged, Cleared, NoTracked
  <1> QED
    BY <1>1, <1>2, <1>3, <1>4, <1>5, <1>6 DEF IInv

LEMMA StopDisposedOnceKeeps ==
  ASSUME IInv, NEW s \in Stops, StopDisposedOnce(s)
  PROVE  IInv'
  <1> USE DEF StopDisposedOnce, Abort, DisposeTracked, DisposeAgain, AllDisposed, provider, poll, server, turns
  <1>1. Types'
    <2>1. IInv /\ 0 \in 0..MaxMessages
      BY BoundsAssumption
    <2> QED
      BY <2>1 DEF IInv, Types, Subscriptions, StopPcs, Lifecycles
  <1>2. Before'
    BY DEF IInv, Types, Before, Cleared, NoTracked, Looping, Calling
  <1>3. Staged'
    BY DEF IInv, Types, Staged, Cleared, NoTracked, Before
  <1>4. Quiet'
    BY DEF IInv, Types, Staged, Quiet, Cleared, NoTracked
  <1>5. ASSUME NEW m \in Messages PROVE Belongs(m)'
    BY DEF IInv, Types, Belongs, Cleared
  <1>6. ASSUME NEW r \in Stops PROVE Cleared(r)'
    BY DEF IInv, Types, Belongs, Staged, Cleared, NoTracked
  <1> QED
    BY <1>1, <1>2, <1>3, <1>4, <1>5, <1>6 DEF IInv

LEMMA StopPollEndedKeeps ==
  ASSUME IInv, NEW s \in Stops, StopPollEnded(s)
  PROVE  IInv'
  <1> USE DEF StopPollEnded, Abort, DisposeTracked, DisposeAgain, AllDisposed, provider, poll, server, turns
  <1>1. Types'
    <2>1. IInv /\ 0 \in 0..MaxMessages
      BY BoundsAssumption
    <2> QED
      BY <2>1 DEF IInv, Types, Subscriptions, StopPcs, Lifecycles
  <1>2. Before'
    BY DEF IInv, Types, Before, Cleared, NoTracked, Looping, Calling
  <1>3. Staged'
    BY DEF IInv, Types, Staged, Cleared, NoTracked, Before
  <1>4. Quiet'
    BY DEF IInv, Types, Staged, Quiet, Cleared, NoTracked
  <1>5. ASSUME NEW m \in Messages PROVE Belongs(m)'
    BY DEF IInv, Types, Belongs, Cleared
  <1>6. ASSUME NEW r \in Stops PROVE Cleared(r)'
    BY DEF IInv, Types, Belongs, Staged, Cleared, NoTracked
  <1> QED
    BY <1>1, <1>2, <1>3, <1>4, <1>5, <1>6 DEF IInv

LEMMA StopDisposedTwiceKeeps ==
  ASSUME IInv, NEW s \in Stops, StopDisposedTwice(s)
  PROVE  IInv'
  <1> USE DEF StopDisposedTwice, Abort, DisposeTracked, DisposeAgain, AllDisposed, provider, poll, server, turns
  <1>1. Types'
    <2>1. IInv /\ 0 \in 0..MaxMessages
      BY BoundsAssumption
    <2> QED
      BY <2>1 DEF IInv, Types, Subscriptions, StopPcs, Lifecycles
  <1>2. Before'
    BY DEF IInv, Types, Before, Cleared, NoTracked, Looping, Calling
  <1>3. Staged'
    BY DEF IInv, Types, Staged, Cleared, NoTracked, Before
  <1>4. Quiet'
    BY DEF IInv, Types, Staged, Quiet, Cleared, NoTracked
  <1>5. ASSUME NEW m \in Messages PROVE Belongs(m)'
    BY DEF IInv, Types, Belongs, Cleared
  <1>6. ASSUME NEW r \in Stops PROVE Cleared(r)'
    BY DEF IInv, Types, Belongs, Staged, Cleared, NoTracked
  <1> QED
    BY <1>1, <1>2, <1>3, <1>4, <1>5, <1>6 DEF IInv

LEMMA StopFinishesKeeps ==
  ASSUME IInv, NEW s \in Stops, StopFinishes(s)
  PROVE  IInv'
  <1> USE DEF StopFinishes, Abort, DisposeTracked, DisposeAgain, AllDisposed, provider, poll, server, turns
  <1>1. Types'
    <2>1. IInv /\ 0 \in 0..MaxMessages
      BY BoundsAssumption
    <2> QED
      BY <2>1 DEF IInv, Types, Subscriptions, StopPcs, Lifecycles
  <1>2. Before'
    BY DEF IInv, Types, Before, Cleared, NoTracked, Looping, Calling
  <1>3. Staged'
    BY DEF IInv, Types, Staged, Cleared, NoTracked, Before
  <1>4. Quiet'
    BY DEF IInv, Types, Staged, Quiet, Cleared, NoTracked
  <1>5. ASSUME NEW m \in Messages PROVE Belongs(m)'
    BY DEF IInv, Types, Belongs, Cleared
  <1>6. ASSUME NEW r \in Stops PROVE Cleared(r)'
    BY DEF IInv, Types, Belongs, Staged, Cleared, NoTracked
  <1> QED
    BY <1>1, <1>2, <1>3, <1>4, <1>5, <1>6 DEF IInv

(* IInv holds throughout.                                                  *)
THEOREM StaysConsistent == Spec => []IInv
  <1>1. IInv /\ [Next]_vars => IInv'
    <2> SUFFICES ASSUME IInv, [Next]_vars PROVE IInv'
      OBVIOUS
    <2>1. ASSUME NEW k \in ServerKinds, Receive(k) PROVE IInv'
      BY <2>1, KindsAssumption, ReceiveKeeps
    <2>2. CASE Start \/ PollStep \/ HostStep
      BY <2>2, StartKeeps, PollResponseKeeps, PollFailureKeeps, PollAbortedKeeps,
         SleepElapsedKeeps, SleepFailedKeeps, BatchDoneKeeps, TakeTextKeeps, TakeInvalidKeeps,
         TakePoisonKeeps, StartThreadResolvesKeeps, ResumeThreadResolvesKeeps,
         StartTurnResolvesKeeps, CallbackFailsKeeps DEF PollStep, HostStep
    <2>3. ASSUME NEW m \in Messages, NEW e \in Events, TerminalEvent(m, e) \/ RepeatedEvent(m, e)
          PROVE  IInv'
      BY <2>3, TerminalEventKeeps, RepeatedEventKeeps
    <2>4. ASSUME NEW m \in Messages, TaskStep(m) \/ HostDisposes(m) PROVE IInv'
      BY <2>4, SendSettlesKeeps, TaskFinallyKeeps, TaskDisposedKeeps, HostDisposesKeeps DEF TaskStep
    <2>5. ASSUME NEW s \in Stops, StopReturns(s) \/ StopBegins(s) \/ StopStep(s) PROVE IInv'
      BY <2>5, StopReturnsKeeps, StopBeginsKeeps, StopDisposedOnceKeeps, StopPollEndedKeeps,
         StopDisposedTwiceKeeps, StopFinishesKeeps DEF StopStep
    <2>6. CASE UNCHANGED vars
      BY <2>6 DEF vars, provider, poll, server, turns, stopping, IInv, Types, Before, Belongs,
                  Staged, Quiet, Cleared, NoTracked
    <2> QED
      BY <2>1, <2>2, <2>3, <2>4, <2>5, <2>6 DEF Next
  <1> QED
    BY InitInv, <1>1, PTL DEF Spec

(* At most one reply per message, and only the text of its own turn's      *)
(* completed event (handleTerminal), for any messages and stops.           *)
THEOREM RepliesAreEarned == Spec => []ReplyDiscipline
  <1>1. IInv => ReplyDiscipline
    BY DEF IInv, Types, Belongs, ReplyDiscipline
  <1> QED
    BY <1>1, StaysConsistent, PTL

(* The finally block of a terminal task or a stop() releases each turn.    *)
THEOREM TasksRelease == Spec => []FinishedTaskReleases
  <1>1. IInv => FinishedTaskReleases
    BY DEF IInv, Belongs, FinishedTaskReleases
  <1> QED
    BY <1>1, StaysConsistent, PTL

(* Whichever of any number of overlapping stop() calls finishes first,     *)
(* nothing it promised to end is left.                                     *)
THEOREM StoppedStaysQuiet == Spec => []StoppedIsQuiet
  <1>1. IInv => StoppedIsQuiet
    <2> SUFFICES ASSUME IInv, lifecycle = "stopped" PROVE StoppedIsQuiet
      BY DEF StoppedIsQuiet
    <2>1. pollPc \in {"idle", "ended"} /\ cursor = 0 /\ ~callback
      BY DEF IInv, Staged
    <2>2. ASSUME NEW m \in Messages, pollPc = "idle"
          PROVE  subscription[m] # "active" /\ task[m] # "sending"
      BY <2>2 DEF IInv, Staged, Belongs
    <2>3. ASSUME NEW m \in Messages, pollPc = "ended"
          PROVE  subscription[m] # "active" /\ task[m] # "sending"
      BY <2>3 DEF IInv, Quiet
    <2> QED
      BY <2>1, <2>2, <2>3 DEF StoppedIsQuiet
  <1> QED
    BY <1>1, StaysConsistent, PTL
-----------------------------------------------------------------------------
(* The types, with the delay of the backoff.  The provers know nothing of  *)
(* powers: that those of two are natural numbers is what they are told.    *)

PowersOfTwo == \A k \in 0..52 : 2^k \in Nat
DelayTyped == failures \in Nat /\ delay \in 0..BackoffMax

(* A backoff is never longer than its maximum (boundedExponentialBackoffMs).*)
LEMMA BackoffIsBounded ==
  ASSUME PowersOfTwo, NEW n \in Nat \ {0}
  PROVE  BoundedBackoff(n, BackoffBase, BackoffMax) \in 0..BackoffMax
  <1> DEFINE k == Lesser(n - 1, 52)
  <1>1. k \in 0..52
    BY DEF Lesser
  <1> HIDE DEF k
  <1>2. 2^k \in Nat
    BY <1>1 DEF PowersOfTwo
  <1> DEFINE power == 2^k
  <1>3. power \in Nat
    BY <1>2
  <1>4. BoundedBackoff(n, BackoffBase, BackoffMax) = Lesser(BackoffMax, BackoffBase * power)
    BY DEF BoundedBackoff, k
  <1> HIDE DEF power
  <1>5. BackoffBase * power \in Nat /\ BackoffMax \in Nat
    BY <1>3, BackoffAssumption
  <1> QED
    BY <1>4, <1>5 DEF Lesser

(* Every step keeps the delay within its maximum.                          *)
LEMMA DelayKept == PowersOfTwo /\ DelayTyped /\ [Next]_vars => DelayTyped'
  <1> SUFFICES ASSUME PowersOfTwo, DelayTyped, [Next]_vars PROVE DelayTyped'
    OBVIOUS
  <1>1. CASE UNCHANGED <<failures, delay>>
    BY <1>1 DEF DelayTyped
  <1>2. CASE FailPoll(failures + 1)
    <2>1. failures + 1 \in Nat \ {0}
      BY DEF DelayTyped
    <2> QED
      BY <1>2, <2>1, BackoffIsBounded DEF FailPoll, DelayTyped
  <1>3. CASE PollResponse
    BY <1>3 DEF PollResponse, DelayTyped
  <1>4. CASE PollStep
    BY <1>1, <1>2, <1>3, <1>4 DEF PollStep, PollFailure, PollAborted, SleepElapsed, SleepFailed,
       BatchDone, TakeText, TakeInvalid, TakePoison
  <1>5. CASE Start \/ HostStep \/ \E k \in ServerKinds : Receive(k)
    BY <1>1, <1>5 DEF Start, HostStep, StartThreadResolves, ResumeThreadResolves,
       StartTurnResolves, CallbackFails, Receive, poll
  <1>6. ASSUME NEW m \in Messages,
               (\E e \in Events : TerminalEvent(m, e) \/ RepeatedEvent(m, e))
                  \/ TaskStep(m) \/ HostDisposes(m)
        PROVE  DelayTyped'
    BY <1>1, <1>6 DEF TerminalEvent, RepeatedEvent, TaskStep, SendSettles, TaskFinally,
       TaskDisposed, HostDisposes, poll
  <1>7. ASSUME NEW s \in Stops, StopReturns(s) \/ StopBegins(s) \/ StopStep(s)
        PROVE  DelayTyped'
    BY <1>1, <1>7 DEF StopReturns, StopBegins, StopStep, StopDisposedOnce, StopPollEnded,
       StopDisposedTwice, StopFinishes, poll
  <1>8. CASE UNCHANGED vars
    BY <1>1, <1>8 DEF vars, poll
  <1> QED
    BY <1>4, <1>5, <1>6, <1>7, <1>8 DEF Next

(* Every variable keeps its type, and the loop never sleeps longer than    *)
(* the configured maximum, however many polls and batches fail in a row.   *)
THEOREM TypeCorrect == PowersOfTwo => (Spec => []TypeOK)
  <1>1. Init => DelayTyped
    BY BackoffAssumption DEF Init, DelayTyped
  <1>2. IInv /\ DelayTyped => TypeOK
    BY DEF IInv, Types, DelayTyped, TypeOK, Lifecycles, Subscriptions, Tasks
  <1>3. ASSUME PowersOfTwo PROVE Spec => []TypeOK
    <2>1. DelayTyped /\ [Next]_vars => DelayTyped'
      BY <1>3, DelayKept
    <2> QED
      BY <1>1, <1>2, <2>1, StaysConsistent, PTL DEF Spec
  <1> QED
    BY <1>3
-----------------------------------------------------------------------------
(* The refinement of MessageRelay.                                         *)

Taken(m) == handled = m /\ pollPc \in Calling
Phases == [m \in Messages |-> RelayPhase(m)]

LEMMA PhaseOf ==
  ASSUME NEW m \in Messages, IInv
  PROVE  RelayPhase(m) = IF sends[m] = 1 THEN "answered"
                         ELSE IF subscription[m] # "none" THEN "turn"
                         ELSE IF forwarded[m] = 0 THEN "waiting"
                         ELSE IF Taken(m) THEN "taken" ELSE "dropped"
  BY DEF IInv, Types, RelayPhase, Taken, Calling

(* A step the relay does not see.                                          *)
LEMMA SamePhase ==
  ASSUME NEW m \in Messages, IInv, IInv',
         sends'[m] = sends[m], forwarded'[m] = forwarded[m],
         (subscription'[m] = "none") <=> (subscription[m] = "none"),
         forwarded[m] = 1 /\ subscription[m] = "none" => (Taken(m)' <=> Taken(m))
  PROVE  RelayPhase(m)' = RelayPhase(m)
  <1>1. sends[m] \in 0..1 /\ forwarded[m] \in 0..1
    BY DEF IInv, Types
  <1> QED
    BY <1>1 DEF RelayPhase, Taken, Calling

(* A step that moves one message.                                          *)
LEMMA OneMoves ==
  ASSUME NEW m \in Messages, NEW from, NEW to, RelayPhase(m) = from, RelayPhase(m)' = to,
         \A n \in Messages \ {m} : RelayPhase(n)' = RelayPhase(n)
  PROVE  Relay!Move(m, from, to)
  BY DEF Relay!Move

LEMMA InitRelays == Init => Relay!Init
  BY BoundsAssumption DEF Init, Relay!Init, RelayPhase, Messages, Relay!Messages

(* What the relay does not look at.                                        *)
Unseen ==
    /\ aborted' = aborted /\ sends' = sends /\ forwarded' = forwarded
    /\ \A m \in Messages : /\ subscription'[m] = "none" <=> subscription[m] = "none"
                           /\ Taken(m)' <=> Taken(m)

RelayStep == [Relay!Next]_<<[m \in Messages |-> RelayPhase(m)], ~aborted>>

LEMMA UnseenStutters ==
  ASSUME IInv, IInv', Unseen
  PROVE  RelayStep
  <1>1. ASSUME NEW m \in Messages PROVE RelayPhase(m)' = RelayPhase(m)
    BY SamePhase DEF Unseen
  <1>2. aborted' = aborted
    BY DEF Unseen
  <1> QED
    BY <1>1, <1>2 DEF RelayStep

LEMMA PollIsUnseen ==
  ASSUME IInv, Start \/ PollResponse \/ PollFailure \/ PollAborted \/ SleepElapsed
               \/ SleepFailed \/ BatchDone \/ TakeInvalid \/ TakePoison
  PROVE  Unseen
  <1> USE DEF Unseen, Taken, Calling, provider, turns
  <1>1. CASE Start
    BY <1>1 DEF Start, IInv, Staged
  <1>2. CASE PollResponse \/ PollFailure \/ PollAborted
    BY <1>2 DEF PollResponse, PollFailure, PollAborted, FailPoll
  <1>3. CASE SleepElapsed \/ SleepFailed \/ BatchDone
    BY <1>3 DEF SleepElapsed, SleepFailed, BatchDone, LoopTop
  <1>4. CASE TakeInvalid \/ TakePoison
    BY <1>4 DEF TakeInvalid, TakePoison, TakesUp, FailPoll
  <1> QED
    BY <1>1, <1>2, <1>3, <1>4

LEMMA HostIsUnseen ==
  ASSUME IInv, StartThreadResolves \/ ResumeThreadResolves
  PROVE  Unseen
  BY DEF StartThreadResolves, ResumeThreadResolves, Unseen, Taken, Calling, provider, turns

LEMMA TurnIsUnseen ==
  ASSUME IInv, NEW m \in Messages, NEW e \in Events,
         RepeatedEvent(m, e) \/ TaskStep(m) \/ HostDisposes(m)
  PROVE  Unseen
  <1> USE DEF Unseen, Taken, Calling, provider, poll, IInv, Types
  <1>1. CASE RepeatedEvent(m, e) \/ SendSettles(m) \/ TaskDisposed(m)
    BY <1>1 DEF RepeatedEvent, SendSettles, TaskDisposed
  <1>2. CASE TaskFinally(m)
    BY <1>2 DEF TaskFinally, MustDispose
  <1>3. CASE HostDisposes(m)
    BY <1>3 DEF HostDisposes
  <1> QED
    BY <1>1, <1>2, <1>3 DEF TaskStep

LEMMA StopIsUnseen ==
  ASSUME IInv, NEW s \in Stops, StopReturns(s) \/ StopStep(s)
  PROVE  Unseen
  <1> USE DEF Unseen, Taken, Calling, provider, poll, turns, IInv, Types
  <1>1. CASE StopReturns(s)
    BY <1>1 DEF StopReturns
  <1>2. CASE StopDisposedOnce(s) \/ StopDisposedTwice(s) \/ StopFinishes(s)
    BY <1>2 DEF StopDisposedOnce, StopDisposedTwice, StopFinishes
  <1>3. CASE StopPollEnded(s)
    BY <1>3 DEF StopPollEnded, DisposeAgain, DisposeTracked
  <1> QED
    BY <1>1, <1>2, <1>3 DEF StopStep

(* The steps the relay sees, each the one of its own.                      *)
LEMMA TakeRelays ==
  ASSUME IInv, IInv', TakeText
  PROVE  RelayStep
  <1>0. PICK next \in Messages : next = NextMessage
    BY BoundsAssumption
       DEF TakeText, TakesUp, NextMessage, IInv, Types, Before, Looping, Messages
  <1>1. next = NextMessage /\ handled \in Int /\ handled' = next /\ ~aborted /\ aborted' = aborted
        /\ forwarded' = [forwarded EXCEPT ![next] = @ + 1]
        /\ sends' = sends /\ subscription' = subscription
        /\ pollPc = "batch" /\ pollPc' = "startThread"
    BY <1>0 DEF TakeText, TakesUp, IInv, Types, Before, Looping, provider, turns
  <1>2. ASSUME NEW n \in Messages, n >= next
        PROVE  RelayPhase(n) = "waiting"
    <2>1. forwarded[n] = 0
      BY <1>1, <1>2 DEF IInv, Before, Looping, Messages, NextMessage
    <2>2. subscription[n] = "none" /\ sends[n] = 0
      BY <2>1 DEF IInv, Belongs
    <2> QED
      BY <2>1, <2>2 DEF RelayPhase
  <1>3. RelayPhase(next)' = "taken"
    <2>1. subscription[next] = "none" /\ sends[next] = 0 /\ forwarded[next] = 0
      BY <1>1 DEF IInv, Before, Belongs, Looping, NextMessage
    <2>2. forwarded'[next] = 1
      BY <1>1, <2>1 DEF IInv, Types
    <2> QED
      BY <1>1, <2>1, <2>2 DEF RelayPhase
  <1>4. ASSUME NEW n \in Messages \ {next} PROVE RelayPhase(n)' = RelayPhase(n)
    BY <1>1, SamePhase DEF Taken, Calling
  <1>5. Relay!Move(next, "waiting", "taken")
    BY <1>1, <1>2, <1>3, <1>4, OneMoves DEF Messages
  <1>6. Relay!Take(next)
    BY <1>1, <1>2, <1>5 DEF Relay!Take, Messages
  <1> QED
    BY <1>1, <1>6 DEF RelayStep, Relay!Next, Relay!Messages, Messages

LEMMA CallRelays ==
  ASSUME IInv, IInv', StartTurnResolves \/ CallbackFails
  PROVE  RelayStep
  <1>1. handled \in Messages /\ aborted' = aborted /\ sends' = sends /\ forwarded' = forwarded
        /\ handled' = handled /\ pollPc \in Calling /\ pollPc' = "batch"
    BY DEF StartTurnResolves, CallbackFails, IInv, Before, Calling, provider, turns
  <1>2. forwarded[handled] = 1 /\ subscription[handled] = "none" /\ sends[handled] = 0
    BY <1>1 DEF IInv, Before, Belongs
  <1>3. RelayPhase(handled) = "taken"
    BY <1>1, <1>2 DEF RelayPhase, Calling
  <1>4. ASSUME NEW n \in Messages \ {handled}
        PROVE  RelayPhase(n)' = RelayPhase(n)
    <2>1. subscription'[n] = subscription[n]
      BY DEF StartTurnResolves, CallbackFails, IInv, Types, turns
    <2> QED
      BY <1>1, <2>1, SamePhase DEF Taken, Calling
  <1>5. CASE StartTurnResolves
    <2>1. subscription'[handled] # "none"
      BY <1>1, <1>5 DEF StartTurnResolves, IInv, Types
    <2>2. RelayPhase(handled)' = "turn"
      BY <1>1, <1>2, <2>1 DEF RelayPhase
    <2>3. Relay!Begin(handled)
      BY <1>1, <1>3, <1>4, <2>2, OneMoves DEF Relay!Begin
    <2> QED
      BY <1>1, <2>3 DEF RelayStep, Relay!Next, Relay!Messages, Messages
  <1>6. CASE CallbackFails
    <2>1. subscription' = subscription
      BY <1>6 DEF CallbackFails, turns
    <2>2. RelayPhase(handled)' = "dropped"
      BY <1>1, <1>2, <2>1 DEF RelayPhase
    <2>3. Relay!Drop(handled)
      BY <1>1, <1>3, <1>4, <2>2, OneMoves DEF Relay!Drop
    <2> QED
      BY <1>1, <2>3 DEF RelayStep, Relay!Next, Relay!Messages, Messages
  <1> QED
    BY <1>5, <1>6

LEMMA EventRelays ==
  ASSUME IInv, IInv', NEW m \in Messages, NEW e \in Events, TerminalEvent(m, e)
  PROVE  RelayStep
  <1>1. aborted' = aborted /\ subscription' = subscription /\ forwarded' = forwarded
        /\ handled' = handled /\ pollPc' = pollPc
    BY DEF TerminalEvent, provider, poll
  <1>2. CASE ~MaySend(e)
    <2>1. sends' = sends
      BY <1>2 DEF TerminalEvent
    <2> QED
      BY <1>1, <2>1, UnseenStutters DEF Unseen, Taken
  <1>3. CASE MaySend(e)
    <2>1. sends' = [sends EXCEPT ![m] = @ + 1] /\ subscription[m] # "none" /\ ~terminalHandled[m]
          /\ ~aborted
      BY <1>3 DEF TerminalEvent, FirstEvent, MaySend
    <2>2. sends[m] = 0 /\ sends'[m] = 1
      BY <2>1 DEF IInv, Belongs, Types
    <2>3. RelayPhase(m) = "turn" /\ RelayPhase(m)' = "answered"
      BY <2>1, <2>2 DEF RelayPhase
    <2>4. ASSUME NEW n \in Messages \ {m} PROVE RelayPhase(n)' = RelayPhase(n)
      BY <1>1, <2>1, SamePhase DEF Taken, IInv, Types
    <2>5. Relay!Answer(m)
      BY <1>1, <2>1, <2>3, <2>4, OneMoves DEF Relay!Answer
    <2> QED
      BY <2>5 DEF RelayStep, Relay!Next, Relay!Messages, Messages
  <1> QED
    BY <1>2, <1>3

LEMMA CloseRelays ==
  ASSUME IInv, IInv', NEW s \in Stops, StopBegins(s)
  PROVE  RelayStep
  <1>1. aborted' /\ sends' = sends /\ forwarded' = forwarded
        /\ handled' = handled /\ pollPc' = pollPc
    BY DEF StopBegins, Abort, poll
  <1>2. ASSUME NEW m \in Messages PROVE RelayPhase(m)' = RelayPhase(m)
    <2>1. subscription'[m] = "none" <=> subscription[m] = "none"
      BY DEF StopBegins, DisposeTracked
    <2> QED
      BY <1>1, <2>1, SamePhase DEF Taken
  <1>3. UNCHANGED [m \in Messages |-> RelayPhase(m)]
    BY <1>2
  <1>4. CASE aborted
    BY <1>1, <1>3, <1>4 DEF RelayStep
  <1>5. CASE ~aborted
    <2>1. Relay!Close
      BY <1>1, <1>3, <1>5 DEF Relay!Close
    <2> QED
      BY <2>1 DEF RelayStep, Relay!Next
  <1> QED
    BY <1>4, <1>5

(* The provider implements the relay (MessageRelay): at most one turn and  *)
(* one answer per message, in order, and none taken up or answered once    *)
(* stop() has begun, for any messages, stops and faults.                   *)
THEOREM ProviderRelays == Spec => ImplementsRelay
  <1>1. Init => Relay!Init
    BY InitRelays
  <1>2. IInv /\ IInv' /\ [Next]_vars => RelayStep
    <2> SUFFICES ASSUME IInv, IInv', [Next]_vars PROVE RelayStep
      OBVIOUS
    <2>1. ASSUME NEW k \in ServerKinds, Receive(k) PROVE Unseen
      BY <2>1 DEF Receive, Unseen, Taken, provider, poll, turns
    <2>2. CASE Start \/ PollStep \/ HostStep
      BY <2>2, PollIsUnseen, HostIsUnseen, UnseenStutters, TakeRelays, CallRelays
         DEF PollStep, HostStep
    <2>3. ASSUME NEW m \in Messages, NEW e \in Events, TerminalEvent(m, e) \/ RepeatedEvent(m, e)
          PROVE  RelayStep
      BY <2>3, EventRelays, TurnIsUnseen, UnseenStutters
    <2>4. ASSUME NEW m \in Messages, TaskStep(m) \/ HostDisposes(m)
          PROVE  RelayStep
      <3>1. "failed" \in Events
        BY DEF Events
      <3> QED
        BY <2>4, <3>1, TurnIsUnseen, UnseenStutters
    <2>5. ASSUME NEW s \in Stops, StopReturns(s) \/ StopBegins(s) \/ StopStep(s)
          PROVE  RelayStep
      BY <2>5, StopIsUnseen, CloseRelays, UnseenStutters
    <2>6. CASE UNCHANGED vars
      BY <2>6, UnseenStutters DEF vars, Unseen, Taken, provider, poll, turns
    <2> QED
      BY <2>1, <2>2, <2>3, <2>4, <2>5, <2>6, UnseenStutters DEF Next
  <1> QED
    BY <1>1, <1>2, StaysConsistent, PTL DEF Spec, ImplementsRelay, Relay!Spec, RelayStep
-----------------------------------------------------------------------------
(* What the loop has passed it has forwarded, if no message makes          *)
(* messageText throw.                                                      *)
Handed ==
    /\ \A m \in Messages : kind[m] # "poison"
    /\ ~aborted /\ pollPc \in Looping =>
          \A m \in Messages : m <= handled /\ kind[m] = "text" => forwarded[m] = 1
    /\ ~aborted /\ pollPc \in {"request", "sleep"} => handled = cursor

LEMMA PollHands ==
  ASSUME IInv, Handed, Start \/ PollStep \/ HostStep
  PROVE  Handed'
  <1> USE DEF Handed, IInv, Types, Before, Looping, Calling, provider, server, turns
  <1>1. CASE Start
    BY <1>1 DEF Start, Staged, Messages
  <1>2. CASE PollResponse \/ PollFailure \/ PollAborted
    BY <1>2 DEF PollResponse, PollFailure, PollAborted, FailPoll
  <1>3. CASE SleepElapsed \/ SleepFailed \/ BatchDone
    BY <1>3 DEF SleepElapsed, SleepFailed, BatchDone, LoopTop, BatchIsDone
  <1>4. CASE TakeText
    BY <1>4, BoundsAssumption DEF TakeText, TakesUp, NextMessage, Messages
  <1>5. CASE TakeInvalid
    BY <1>5, BoundsAssumption DEF TakeInvalid, TakesUp, NextMessage, Messages
  <1>6. CASE TakePoison
    BY <1>6, BoundsAssumption DEF TakePoison, TakesUp, NextMessage, Messages
  <1>7. CASE HostStep
    BY <1>7 DEF HostStep, StartThreadResolves, ResumeThreadResolves, StartTurnResolves, CallbackFails
  <1> QED
    BY <1>1, <1>2, <1>3, <1>4, <1>5, <1>6, <1>7 DEF PollStep

LEMMA StopHands ==
  ASSUME IInv, Handed, NEW s \in Stops, StopReturns(s) \/ StopBegins(s) \/ StopStep(s)
  PROVE  Handed'
  <1> USE DEF Handed, IInv, Types, provider, poll, server
  <1>1. CASE StopReturns(s) \/ StopBegins(s)
    BY <1>1 DEF StopReturns, StopBegins, Abort
  <1>2. CASE StopFinishes(s)
    BY <1>2 DEF StopFinishes, Cleared
  <1>3. CASE StopDisposedOnce(s) \/ StopPollEnded(s) \/ StopDisposedTwice(s)
    BY <1>3 DEF StopDisposedOnce, StopPollEnded, StopDisposedTwice
  <1> QED
    BY <1>1, <1>2, <1>3 DEF StopStep

(* Whatever callbacks and polls fail, a batch loses no answerable message, *)
(* though its cursor moved first (pollLoop), unless one of them is poison. *)
THEOREM FetchedIsForwarded ==
  ASSUME "poison" \notin ServerKinds
  PROVE  Spec => []FetchedTextIsForwarded
  <1>1. Init => Handed
    BY DEF Init, Handed, Looping, Calling
  <1>2. IInv /\ Handed /\ [Next]_vars => Handed'
    <2> SUFFICES ASSUME IInv, Handed, [Next]_vars PROVE Handed'
      OBVIOUS
    <2>1. ASSUME NEW k \in ServerKinds, Receive(k) PROVE Handed'
      <3>1. k # "poison" /\ kind' = [kind EXCEPT ![arrived + 1] = k]
            /\ UNCHANGED <<provider, poll, forwarded>>
        BY <2>1 DEF Receive
      <3>2. \A m \in Messages : kind'[m] # "poison"
        BY <3>1 DEF Handed, IInv, Types
      <3>3. ASSUME ~aborted, pollPc \in Looping, NEW m \in Messages, m <= handled
            PROVE  kind'[m] = kind[m]
        BY <3>1, <3>3, BoundsAssumption DEF IInv, Types, Before, Messages
      <3> QED
        BY <3>1, <3>2, <3>3 DEF Handed, provider, poll
    <2>2. CASE Start \/ PollStep \/ HostStep
      BY <2>2, PollHands
    <2>3. ASSUME NEW m \in Messages, NEW e \in Events, TerminalEvent(m, e) \/ RepeatedEvent(m, e)
          PROVE  Handed'
      BY <2>3 DEF TerminalEvent, RepeatedEvent, Handed, provider, poll, server
    <2>4. ASSUME NEW m \in Messages, TaskStep(m) \/ HostDisposes(m) PROVE Handed'
      BY <2>4 DEF TaskStep, SendSettles, TaskFinally, TaskDisposed, HostDisposes, Handed,
                  provider, poll, server
    <2>5. ASSUME NEW s \in Stops, StopReturns(s) \/ StopBegins(s) \/ StopStep(s) PROVE Handed'
      BY <2>5, StopHands
    <2>6. CASE UNCHANGED vars
      BY <2>6 DEF vars, Handed, provider, poll, server
    <2> QED
      BY <2>1, <2>2, <2>3, <2>4, <2>5, <2>6 DEF Next
  <1>3. IInv /\ Handed => FetchedTextIsForwarded
    BY BoundsAssumption DEF IInv, Types, Before, Looping, Handed, FetchedTextIsForwarded, Messages
  <1> QED
    BY <1>1, <1>2, <1>3, StaysConsistent, PTL DEF Spec
=============================================================================
