------------------------------ MODULE MessageRelay ------------------------------
(* What the Weixin channel promises its account's senders, with no transport,  *)
(* no subscriptions and no teardown protocol: every message becomes at most    *)
(* one turn, messages are taken up in order, a turn is answered at most once,  *)
(* and once the relay is closed nothing is taken up or answered any more.      *)
EXTENDS Integers

CONSTANT MaxMessages

VARIABLES phase,  \* per message: waiting, taken, dropped, turn or answered
          open    \* FALSE for good once teardown has begun

Messages == 1..MaxMessages

Init == /\ phase = [m \in Messages |-> "waiting"]
        /\ open = TRUE

Move(m, from, to) == /\ phase[m] = from
                     /\ phase' = [phase EXCEPT ![m] = to]

\* Message m is handed to the host; no later one has been.
Take(m) == /\ open
           /\ \A n \in m..MaxMessages : phase[n] = "waiting"
           /\ Move(m, "waiting", "taken")
           /\ UNCHANGED open

Drop(m) == Move(m, "taken", "dropped") /\ UNCHANGED open

\* A hand-over under way when the relay closes may still become a turn.
Begin(m) == Move(m, "taken", "turn") /\ UNCHANGED open

Answer(m) == open /\ Move(m, "turn", "answered") /\ UNCHANGED open

Close == open /\ open' = FALSE /\ UNCHANGED phase

Next == \/ \E m \in Messages : Take(m) \/ Drop(m) \/ Begin(m) \/ Answer(m)
        \/ Close

Spec == Init /\ [][Next]_<<phase, open>>
=============================================================================
