------------------------------ MODULE OneReply ------------------------------
(***************************************************************************)
(* What a chat promises about the messages addressed to the agent, without *)
(* its queue, its goroutines, its inbox or its crashes: a message is       *)
(* answered, or fails for good, in a turn of its own, or joins another one *)
(* that is answered for both, or is discarded, which may also cancel a     *)
(* turn under way; and none of these is ever taken back.                   *)
(***************************************************************************)
CONSTANTS Msgs, Nobody

VARIABLES
  fate,     \* how far the chat is with each message
  answerer  \* the message it was answered together with

vars == <<fate, answerer>>

Init ==
  /\ fate = [m \in Msgs |-> "unheard"]
  /\ answerer = [m \in Msgs |-> Nobody]

Move(m, to) == fate' = [fate EXCEPT ![m] = to] /\ UNCHANGED answerer

Hear(m) == fate[m] = "unheard" /\ Move(m, "waiting")

\* What one claim does to each message.
Keeps(m) == fate'[m] = fate[m] /\ answerer'[m] = answerer[m]
Discards(m) ==
  fate[m] = "waiting" /\ fate'[m] = "discarded" /\ answerer'[m] = answerer[m]
Cancels(m) ==
  fate[m] = "underway" /\ fate'[m] = "discarded" /\ answerer'[m] = answerer[m]
Joins(m, a) == fate[m] = "waiting" /\ fate'[m] = "joined" /\ answerer'[m] = a

\* Messages that still wait join the one that will be answered for all of them.
\* One that was handed in twice may join itself.
TakeUp(a) ==
  /\ fate[a] \in {"waiting", "underway"} /\ (Keeps(a) \/ Joins(a, a))
  /\ \A m \in Msgs : Keeps(m) \/ Discards(m) \/ Joins(m, a)

\* A reset, or a claim that finds what one left behind.
Discard == \A m \in Msgs : Keeps(m) \/ Discards(m) \/ Cancels(m)

\* The turn of a message that joined no other begins, or begins again.
Begin(m) ==
  /\ \/ fate[m] \in {"waiting", "underway"}
     \/ fate[m] = "joined" /\ answerer[m] = m
  /\ Move(m, "underway")
Settle(m) == fate[m] = "underway" /\ \E end \in {"answered", "failed"} : Move(m, end)

Next ==
  \/ \E m \in Msgs : Hear(m) \/ TakeUp(m) \/ Begin(m) \/ Settle(m)
  \/ Discard

Spec == Init /\ [][Next]_vars

\* Nobody is answered twice: what was answered, failed for good, was discarded or
\* joined another message stays so, and is never given a turn.
IsSettled(m) ==
  \/ fate[m] \in {"answered", "failed", "discarded"}
  \/ fate[m] = "joined" /\ answerer[m] # m
SettledForGood ==
  [][\A m \in Msgs : IsSettled(m) => Keeps(m)]_vars
=============================================================================
