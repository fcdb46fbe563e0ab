---------------------------- MODULE WeixinTransport ----------------------------
(* The Weixin channel provider of packages/opl-channel-weixin: one account's   *)
(* long-poll loop, the turn it starts for every inbound message, the terminal  *)
(* task that answers the sender, and the teardown that stop() performs.        *)
(*                                                                             *)
(* The program is single-threaded JavaScript: a step is the synchronous code   *)
(* between two awaits, and everything that awaits interleaves. The iLink       *)
(* server and the host that injects the callback are the environment.          *)
EXTENDS Integers, FiniteSets

CONSTANTS
    MaxMessages,   \* bound: messages the iLink server ever receives
    MaxFailures,   \* bound: consecutive poll failures explored
    Stops,         \* the stop()/dispose() calls the host may have in flight
    BackoffBase, BackoffMax,  \* backoff_base_ms and max_backoff_ms
    ServerKinds,   \* the kinds of message the server delivers
    SleepMayFail   \* may an injected sleep reject although nothing was aborted?

ASSUME BoundsAssumption == /\ MaxMessages \in Nat
                           /\ MaxFailures \in Nat
ASSUME StopsAssumption == IsFiniteSet(Stops)
ASSUME SleepAssumption == SleepMayFail \in BOOLEAN
\* The constructor rejects anything else (positiveMilliseconds and its last test).
ASSUME BackoffAssumption == /\ BackoffBase \in Nat \ {0}
                            /\ BackoffMax \in Nat
                            /\ BackoffBase <= BackoffMax

VARIABLES
    lifecycle,        \* the provider's status
    aborted,          \* the abort controller's signal
    callback,         \* is the host's callback held?
    cursor,           \* messages the server has been told we have
    pollPc,           \* where the poll loop waits
    handled,          \* last message of the current batch the loop took up
    failures,         \* consecutiveFailures
    delay,            \* the delay the loop sleeps for
    kind,             \* server side: what each received message looks like
    arrived,          \* server side: messages received so far
    subscription,     \* per message: its turn subscription
    terminalHandled,  \* per message: the one-shot flag of onTerminal
    task,             \* per message: its terminal task
    activeTasks,      \* activeTerminalTasks, as the messages they answer
    stopPc,           \* per stop call: the await it is at
    stopWaits,        \* per stop call: the subscriptions or tasks it awaits
    forwarded,        \* history: per message, how often startThread got it
    answer,           \* history: per message, the terminal event that was taken
    sends,            \* history: per message, sendmessage requests issued
    completed         \* history: turns whose own completed text was reported
                      \* before the abort

provider == <<lifecycle, aborted, callback>>
poll     == <<cursor, pollPc, handled, failures, delay>>
server   == <<kind, arrived>>
turns    == <<subscription, terminalHandled, task, activeTasks, answer, sends,
              completed>>
stopping == <<stopPc, stopWaits>>
vars     == <<provider, poll, server, turns, stopping, forwarded>>

Messages == 1..MaxMessages
\* A message is answerable text, lacks a sender or a text, or holds an item
\* whose access throws (item_list is not validated by ilink.ts).
Kinds == {"text", "invalid", "poison"}
Events == {"completed", "empty", "failed", "cancelled", "mismatch"}
NoEvent == "none"
ASSUME KindsAssumption == ServerKinds \subseteq Kinds

PollPcs == {"idle", "request", "batch", "startThread", "resumeThread",
            "startTurn", "sleep", "ended"}
StopPcs == {"idle", "dispose1", "poll", "dispose2", "tasks", "done"}

-----------------------------------------------------------------------------
Lesser(a, b) == IF a <= b THEN a ELSE b

\* Bug for mutation: the maximum forgotten.
UncappedBackoff(n, base, max) == base * 2^Lesser(n - 1, 52)

\* boundedExponentialBackoffMs: the exponent is capped at 52, the delay at max.
BoundedBackoff(n, base, max) == Lesser(max, base * 2^Lesser(n - 1, 52))

Init ==
    /\ lifecycle = "created" /\ aborted = FALSE /\ callback = FALSE
    /\ cursor = 0 /\ pollPc = "idle" /\ handled = 0
    /\ failures = 0 /\ delay = 0
    /\ kind = [m \in Messages |-> "text"] /\ arrived = 0
    /\ subscription = [m \in Messages |-> "none"]
    /\ terminalHandled = [m \in Messages |-> FALSE]
    /\ task = [m \in Messages |-> "none"]
    /\ activeTasks = {} /\ completed = {}
    /\ answer = [m \in Messages |-> NoEvent]
    /\ sends = [m \in Messages |-> 0]
    /\ stopPc = [s \in Stops |-> "idle"]
    /\ stopWaits = [s \in Stops |-> {}]
    /\ forwarded = [m \in Messages |-> 0]

\* External: the iLink server queues another message for the account.
Receive(k) ==
    /\ arrived < MaxMessages
    /\ arrived' = arrived + 1
    /\ kind' = [kind EXCEPT ![arrived + 1] = k]
    /\ UNCHANGED <<provider, poll, turns, stopping, forwarded>>

-----------------------------------------------------------------------------
(* start(): the loop is entered synchronously and its first request is sent.   *)
Start ==
    /\ lifecycle = "created"
    /\ lifecycle' = "running"
    /\ callback' = TRUE
    /\ pollPc' = "request"
    /\ UNCHANGED <<aborted, cursor, handled, failures, delay, server, turns,
                   stopping, forwarded>>

(* pollLoop                                                                    *)

\* Where the loop goes when the batch has nothing more for it.
LoopTop == IF aborted THEN "ended" ELSE "request"

\* getUpdates resolves with the messages after the cursor; the cursor moves
\* before any of them is looked at. A response may win against the abort.
PollResponse ==
    /\ pollPc = "request"
    /\ \E last \in cursor..arrived :
          /\ cursor' = last
          /\ handled' = cursor
          /\ pollPc' = IF aborted THEN "ended" ELSE "batch"
    /\ failures' = 0
    /\ UNCHANGED <<delay, provider, server, turns, stopping, forwarded>>

\* The catch of the loop, for an error raised while the signal is not aborted.
FailPoll(n) ==
    /\ failures' = n
    /\ delay' = BoundedBackoff(n, BackoffBase, BackoffMax)
    /\ pollPc' = "sleep"

\* getUpdates rejects: HTTP error, timeout, rejected or malformed answer.
PollFailure ==
    /\ pollPc = "request" /\ ~aborted
    /\ failures < MaxFailures
    /\ FailPoll(failures + 1)
    /\ UNCHANGED <<cursor, handled, provider, server, turns, stopping, forwarded>>

\* The abort rejects the request or the sleep and ends the loop.
PollAborted ==
    /\ pollPc \in {"request", "sleep"} /\ aborted
    /\ pollPc' = "ended"
    /\ UNCHANGED <<cursor, handled, failures, delay, provider, server, turns,
                   stopping, forwarded>>

\* The timer fires, or an injected sleep rejects and ends the loop for good.
SleepElapsed ==
    /\ pollPc = "sleep"
    /\ pollPc' = LoopTop
    /\ UNCHANGED <<cursor, handled, failures, delay, provider, server, turns,
                   stopping, forwarded>>

SleepFailed ==
    /\ SleepMayFail /\ pollPc = "sleep"
    /\ pollPc' = "ended"
    /\ UNCHANGED <<cursor, handled, failures, delay, provider, server, turns,
                   stopping, forwarded>>

\* Bug for mutation: the last message of a batch is skipped.
StopsShort == handled + 1 >= cursor \/ aborted

\* The batch is finished, or the abort is seen between two of its messages.
BatchIsDone == handled = cursor \/ aborted

BatchDone ==
    /\ pollPc = "batch" /\ BatchIsDone
    /\ pollPc' = LoopTop
    /\ UNCHANGED <<cursor, handled, failures, delay, provider, server, turns,
                   stopping, forwarded>>

(* handleIncoming, up to its first await                                       *)

NextMessage == handled + 1

TakesUp == pollPc = "batch" /\ handled < cursor /\ ~aborted

TakeText ==
    /\ TakesUp /\ kind[NextMessage] = "text" /\ callback
    /\ handled' = NextMessage
    /\ pollPc' = "startThread"
    /\ forwarded' = [forwarded EXCEPT ![NextMessage] = @ + 1]
    /\ UNCHANGED <<cursor, failures, delay, provider, server, turns, stopping>>

TakeInvalid ==
    /\ TakesUp /\ kind[NextMessage] = "invalid"
    /\ handled' = NextMessage
    /\ UNCHANGED <<cursor, pollPc, failures, delay, provider, server, turns,
                   stopping, forwarded>>

\* messageText throws on the item: the error leaves the batch, whose later
\* messages the cursor already covers.
TakePoison ==
    /\ TakesUp /\ kind[NextMessage] = "poison"
    /\ FailPoll(failures + 1)
    /\ handled' = cursor
    /\ UNCHANGED <<cursor, provider, server, turns, stopping, forwarded>>

(* handleIncoming, from its first await: the three host callbacks in turn      *)

StartThreadResolves ==
    /\ pollPc = "startThread"
    /\ pollPc' = "resumeThread"
    /\ UNCHANGED <<cursor, handled, failures, delay, provider, server, turns,
                   stopping, forwarded>>

ResumeThreadResolves ==
    /\ pollPc = "resumeThread"
    /\ pollPc' = "startTurn"
    /\ UNCHANGED <<cursor, handled, failures, delay, provider, server, turns,
                   stopping, forwarded>>

\* A callback rejects, or answers with a malformed reference or another thread.
CallbackFails ==
    /\ pollPc \in {"startThread", "resumeThread", "startTurn"}
    /\ pollPc' = "batch"
    /\ UNCHANGED <<cursor, handled, failures, delay, provider, server, turns,
                   stopping, forwarded>>

\* The turn exists: subscribeTurn is called in the same step, aborted or not.
\* When it throws or returns no disposable ("untracked") the host may have kept
\* the handler all the same.
StartTurnResolves ==
    /\ pollPc = "startTurn"
    /\ pollPc' = "batch"
    /\ \E outcome \in {"active", "untracked"} :
          subscription' = [subscription EXCEPT ![handled] = outcome]
    /\ UNCHANGED <<cursor, handled, failures, delay, provider, server,
                   terminalHandled, task, activeTasks, answer, sends, completed,
                   stopping, forwarded>>

-----------------------------------------------------------------------------
(* onTerminal and its task                                                     *)

Delivered(m, e) ==
    completed' = IF e = "completed" /\ ~aborted THEN completed \cup {m} ELSE completed

\* Bug for mutation: the one-shot flag is not tested.
AnyEvent(m) == subscription[m] # "none"

FirstEvent(m) == subscription[m] # "none" /\ ~terminalHandled[m]

\* Bug for mutation: sendText without the provider's signal.
SendsAnyway(e) == e = "completed"

MaySend(e) == e = "completed" /\ ~aborted

\* The first event for the turn, whatever it says, consumes the one-shot flag;
\* handleTerminal then runs up to its first await in the same step. A request
\* made under an aborted signal is refused by requestJson before any I/O.
TerminalEvent(m, e) ==
    /\ FirstEvent(m)
    /\ terminalHandled' = [terminalHandled EXCEPT ![m] = TRUE]
    /\ answer' = [answer EXCEPT ![m] = e]
    /\ activeTasks' = activeTasks \cup {m}
    /\ LET sending == MaySend(e)
       IN  /\ task' = [task EXCEPT ![m] = IF sending THEN "sending" ELSE "closing"]
           /\ sends' = IF sending THEN [sends EXCEPT ![m] = @ + 1] ELSE sends
    /\ Delivered(m, e)
    /\ UNCHANGED <<provider, poll, server, subscription, stopping, forwarded>>

\* A further event for a turn whose flag is spent is dropped.
RepeatedEvent(m, e) ==
    /\ subscription[m] # "none" /\ terminalHandled[m]
    /\ Delivered(m, e)
    /\ UNCHANGED <<provider, poll, server, subscription, terminalHandled, task,
                   activeTasks, answer, sends, stopping, forwarded>>

\* sendText settles: accepted, refused, timed out or aborted in flight.
SendSettles(m) ==
    /\ task[m] = "sending"
    /\ task' = [task EXCEPT ![m] = "closing"]
    /\ UNCHANGED <<provider, poll, server, subscription, terminalHandled,
                   activeTasks, answer, sends, completed, stopping, forwarded>>

TaskEnds(m) ==
    /\ task' = [task EXCEPT ![m] = "done"]
    /\ activeTasks' = activeTasks \ {m}

\* Bug for mutation: the finally block is missing.
NeverDisposes(m) == FALSE

MustDispose(m) == subscription[m] = "active"

\* The finally block: tracked.dispose() acts once, whoever calls it first.
TaskFinally(m) ==
    /\ task[m] = "closing"
    /\ IF MustDispose(m)
       THEN /\ subscription' = [subscription EXCEPT ![m] = "disposing"]
            /\ task' = [task EXCEPT ![m] = "disposing"]
            /\ UNCHANGED activeTasks
       ELSE TaskEnds(m) /\ UNCHANGED subscription
    /\ UNCHANGED <<provider, poll, server, terminalHandled, answer, sends,
                   completed, stopping, forwarded>>

TaskDisposed(m) ==
    /\ task[m] = "disposing" /\ subscription[m] = "disposed"
    /\ TaskEnds(m)
    /\ UNCHANGED <<provider, poll, server, subscription, terminalHandled, answer,
                   sends, completed, stopping, forwarded>>

\* External: the host's dispose of the turn subscription settles.
HostDisposes(m) ==
    /\ subscription[m] = "disposing"
    /\ subscription' = [subscription EXCEPT ![m] = "disposed"]
    /\ UNCHANGED <<provider, poll, server, terminalHandled, task, activeTasks,
                   answer, sends, completed, stopping, forwarded>>

-----------------------------------------------------------------------------
(* stop(); calls may overlap                                                   *)

\* disposeSubscriptions: everything tracked now is disposed and awaited.
DisposeTracked(s) ==
    LET tracked == {m \in Messages : subscription[m] = "active"}
    IN  /\ subscription' = [m \in Messages |->
                              IF m \in tracked THEN "disposing" ELSE subscription[m]]
        /\ stopWaits' = [stopWaits EXCEPT ![s] = tracked]

StopReturns(s) ==
    /\ stopPc[s] = "idle" /\ lifecycle \in {"created", "stopped"}
    /\ lifecycle' = "stopped"
    /\ stopPc' = [stopPc EXCEPT ![s] = "done"]
    /\ UNCHANGED <<aborted, callback, poll, server, turns, stopWaits, forwarded>>

\* Bug for mutation: the controller is not aborted.
NoAbort == UNCHANGED aborted

Abort == aborted' = TRUE

StopBegins(s) ==
    /\ stopPc[s] = "idle" /\ lifecycle \in {"running", "stopping"}
    /\ lifecycle' = "stopping" /\ Abort
    /\ DisposeTracked(s)
    /\ stopPc' = [stopPc EXCEPT ![s] = "dispose1"]
    /\ UNCHANGED <<callback, poll, server, terminalHandled, task, activeTasks,
                   answer, sends, completed, forwarded>>

AllDisposed(s) == \A m \in stopWaits[s] : subscription[m] = "disposed"

StopDisposedOnce(s) ==
    /\ stopPc[s] = "dispose1" /\ AllDisposed(s)
    /\ stopPc' = [stopPc EXCEPT ![s] = "poll"]
    /\ UNCHANGED <<provider, poll, server, turns, stopWaits, forwarded>>

\* Bug for mutation: subscriptions are disposed only before the loop has ended.
DisposesOnce(s) == UNCHANGED <<subscription, stopWaits>>

\* The loop may have subscribed another turn meanwhile.
DisposeAgain(s) == DisposeTracked(s)

StopPollEnded(s) ==
    /\ stopPc[s] = "poll" /\ pollPc = "ended"
    /\ DisposeAgain(s)
    /\ stopPc' = [stopPc EXCEPT ![s] = "dispose2"]
    /\ UNCHANGED <<provider, poll, server, terminalHandled, task, activeTasks,
                   answer, sends, completed, forwarded>>

StopDisposedTwice(s) ==
    /\ stopPc[s] = "dispose2" /\ AllDisposed(s)
    /\ stopPc' = [stopPc EXCEPT ![s] = "tasks"]
    /\ stopWaits' = [stopWaits EXCEPT ![s] = activeTasks]
    /\ UNCHANGED <<provider, poll, server, turns, forwarded>>

StopFinishes(s) ==
    /\ stopPc[s] = "tasks"
    /\ \A m \in stopWaits[s] : task[m] = "done"
    /\ activeTasks' = {}
    /\ cursor' = 0
    /\ callback' = FALSE
    /\ lifecycle' = "stopped"
    /\ stopPc' = [stopPc EXCEPT ![s] = "done"]
    /\ UNCHANGED <<aborted, pollPc, handled, failures, delay, server, subscription,
                   terminalHandled, task, answer, sends, completed, stopWaits,
                   forwarded>>

-----------------------------------------------------------------------------
PollStep == \/ PollResponse \/ PollFailure \/ PollAborted
            \/ SleepElapsed \/ SleepFailed \/ BatchDone
            \/ TakeText \/ TakeInvalid \/ TakePoison

HostStep == \/ StartThreadResolves \/ ResumeThreadResolves
            \/ StartTurnResolves \/ CallbackFails

TaskStep(m) == SendSettles(m) \/ TaskFinally(m) \/ TaskDisposed(m)

StopStep(s) == \/ StopDisposedOnce(s) \/ StopPollEnded(s)
               \/ StopDisposedTwice(s) \/ StopFinishes(s)

Next ==
    \/ \E k \in ServerKinds : Receive(k)
    \/ Start \/ PollStep \/ HostStep
    \/ \E m \in Messages :
          \/ \E e \in Events : TerminalEvent(m, e) \/ RepeatedEvent(m, e)
          \/ TaskStep(m) \/ HostDisposes(m)
    \/ \E s \in Stops : StopReturns(s) \/ StopBegins(s) \/ StopStep(s)

Spec == Init /\ [][Next]_vars

\* A long poll ends within its timeout, the server does hand over what it holds,
\* and the host's callbacks and disposals settle: the code awaits them with no
\* timeout of its own.
DeliversNews == PollResponse /\ cursor' > cursor
Fairness ==
    /\ WF_vars(PollStep) /\ SF_vars(DeliversNews) /\ WF_vars(HostStep)
    /\ \A m \in Messages : WF_vars(TaskStep(m)) /\ WF_vars(HostDisposes(m))
    /\ \A s \in Stops : WF_vars(StopStep(s))

FairSpec == Spec /\ Fairness

-----------------------------------------------------------------------------
(* Properties                                                                  *)

TypeOK ==
    /\ lifecycle \in {"created", "running", "stopping", "stopped"}
    /\ aborted \in BOOLEAN /\ callback \in BOOLEAN
    /\ cursor \in 0..MaxMessages /\ pollPc \in PollPcs
    /\ handled \in 0..MaxMessages
    /\ failures \in Nat /\ delay \in 0..BackoffMax
    /\ kind \in [Messages -> Kinds] /\ arrived \in 0..MaxMessages
    /\ subscription \in [Messages -> {"none", "active", "untracked",
                                      "disposing", "disposed"}]
    /\ terminalHandled \in [Messages -> BOOLEAN]
    /\ task \in [Messages -> {"none", "sending", "closing", "disposing", "done"}]
    /\ activeTasks \subseteq Messages
    /\ stopPc \in [Stops -> StopPcs]
    /\ stopWaits \in [Stops -> SUBSET Messages]
    /\ forwarded \in [Messages -> Nat]
    /\ answer \in [Messages -> Events \cup {NoEvent}]
    /\ sends \in [Messages -> Nat]
    /\ completed \subseteq Messages

\* The sender of a message gets at most one reply, and only the text of a turn
\* that this message started and whose own completed event was the one taken
\* (onTerminal's one-shot flag, handleTerminal's early returns).
ReplyDiscipline ==
    \A m \in Messages :
        /\ sends[m] <= 1
        /\ sends[m] = 1 => /\ answer[m] = "completed" /\ m \in completed
                          /\ forwarded[m] = 1 /\ subscription[m] # "none"

\* Once a stop() has finished, nothing it promised to end is left: the loop is
\* over, no tracked subscription survives (not even one made while stop waited
\* for the loop), no reply is on the wire, cursor and callback are gone.
StoppedIsQuiet ==
    lifecycle = "stopped" =>
        /\ pollPc \in {"idle", "ended"}
        /\ cursor = 0 /\ ~callback
        /\ \A m \in Messages : subscription[m] # "active" /\ task[m] # "sending"

\* The terminal task releases its turn: a finished task leaves no subscription
\* that nobody has begun to dispose, whoever of task and stop() came first.
FinishedTaskReleases ==
    \A m \in Messages : task[m] = "done" => subscription[m] # "active"

\* A loop that has moved on to another request or backs off has handed every
\* answerable message below its cursor to the host exactly once. (The cursor
\* is advanced before the batch is handled, so what a batch loses is lost.)
FetchedTextIsForwarded ==
    pollPc \in {"request", "sleep"} /\ ~aborted =>
        \A m \in 1..cursor : kind[m] = "text" => forwarded[m] = 1

\* Every stop() call that began its teardown returns.
StopCompletes ==
    \A s \in Stops : stopPc[s] # "idle" ~> stopPc[s] = "done"

\* Every answerable message the server received reaches the host, unless the
\* channel is stopped.
TextReachesHost ==
    \A m \in Messages :
        (arrived >= m /\ kind[m] = "text" /\ lifecycle = "running")
            ~> (forwarded[m] = 1 \/ aborted)

\* The detailed provider implements the relay.
RelayPhase(m) ==
    IF sends[m] > 0 THEN "answered"
    ELSE IF subscription[m] # "none" THEN "turn"
    ELSE IF forwarded[m] = 0 THEN "waiting"
    ELSE IF handled = m /\ pollPc \in {"startThread", "resumeThread", "startTurn"}
         THEN "taken" ELSE "dropped"

Relay == INSTANCE MessageRelay WITH
            phase <- [m \in Messages |-> RelayPhase(m)], open <- ~aborted

\* Each step of the provider is a step of the relay or leaves it unchanged: at
\* most one turn and one answer per message, in order, none once stop() began.
ImplementsRelay == Relay!Spec
=============================================================================
