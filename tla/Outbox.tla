------------------------------- MODULE Outbox -------------------------------
(***************************************************************************)
(* The durable outbox: planned replies (outbound_actions rows) and planned *)
(* typed effects (typed_effects rows), the threads that dispatch them, and *)
(* the crash, the lost write and the lost connection they must survive.    *)
(*                                                                         *)
(* A turn that answers with text owns one reply, and the model names the   *)
(* reply after its turn; a bare turn answers with effects only.  A row is  *)
(* a reply or an effect.  The threads that dispatch a row are the worker   *)
(* that planned it, workers that resume it, and the single redelivery      *)
(* goroutine (the flusher).  Policy decisions, provider answers and        *)
(* storage failures are nondeterministic.                                  *)
(***************************************************************************)
EXTENDS Integers, FiniteSets

CONSTANTS
  Replies,      \* turns that answer with a text
  Bare,         \* turns that answer with effects only
  Effects,      \* typed effects
  CommandRuns,  \* the effects that run a registry command (RunCommand)
  TurnOf,       \* the turn that plans an effect, or Desktop
  Rank,         \* the position of an effect in its plan
  Desktop,      \* stands in TurnOf for an effect the local UI asks for
  Workers,      \* goroutines that plan and dispatch
  Flusher,      \* the redelivery goroutine
  NoRow,        \* a thread that is dispatching nothing
  MaxCrashes,   \* bound: process crashes
  MaxFaults,    \* bound: failed writes and retryable policy errors
  MaxDrops      \* bound: lost connections

Turns == Replies \cup Bare
Rows == Replies \cup Effects
Threads == Workers \cup {Flusher}

ASSUME TurnsAreDistinct == Replies \cap Bare = {} /\ Turns \cap Effects = {}
ASSUME PlansAreOrdered ==
  /\ TurnOf \in [Effects -> Turns \cup {Desktop}] /\ Desktop \notin Turns
  /\ Rank \in [Effects -> Nat] /\ CommandRuns \subseteq Effects
ASSUME ThreadsAreDistinct == Flusher \notin Workers /\ NoRow \notin Rows
ASSUME BoundsAreNatural == {MaxCrashes, MaxFaults, MaxDrops} \subseteq Nat

VARIABLES
  turn,     \* inbound_events.turn_state of each turn
  state,    \* the state column of each row, "none" before it is planned
  up,       \* the process runs
  ready,    \* the sender's Ready()
  pc,       \* where each thread is in Dispatch
  row,      \* the row it is dispatching
  todo,     \* the rows it still has to dispatch
  listing,  \* which list the flusher works through
  ran,      \* how often a row was carried out (SendText or ExecuteEffect)
  lost,     \* rows whose dispatcher could not write the outcome
  crashes, faults, drops

durable == <<turn, state>>
threads == <<pc, row, todo, listing>>
counters == <<crashes, faults, drops>>
vars == <<turn, state, up, ready, pc, row, todo, listing, ran, lost,
          crashes, faults, drops>>

Final == {"succeeded", "failed_terminal", "unknown"}
RowStates == {"none", "pending", "executing"} \cup Final
TurnStates == {"generating", "response_planned", "delivery_pending"} \cup Final
Steps == {"idle", "next", "load", "check", "deny", "start",
          "run", "complete", "mark", "refuse"}
\* The steps between a successful Start and the record of its outcome.
Owning == {"run", "complete", "mark", "refuse"}

TypeOK ==
  /\ turn \in [Turns -> TurnStates]
  /\ state \in [Rows -> RowStates]
  /\ up \in BOOLEAN /\ ready \in BOOLEAN
  /\ pc \in [Threads -> Steps]
  /\ row \in [Threads -> Rows \cup {NoRow}]
  /\ todo \in [Threads -> SUBSET Rows]
  /\ listing \in {"none", "replies", "effects"}
  /\ ran \in [Rows -> Nat]
  /\ lost \in SUBSET Rows
  /\ crashes \in 0..MaxCrashes /\ faults \in 0..MaxFaults /\ drops \in 0..MaxDrops
  /\ \A d \in Threads : pc[d] \notin {"idle", "next"} => row[d] \in Rows

Init ==
  /\ turn = [t \in Turns |-> "generating"]
  /\ state = [r \in Rows |-> "none"]
  /\ up = TRUE /\ ready = FALSE
  /\ pc = [d \in Threads |-> "idle"]
  /\ row = [d \in Threads |-> NoRow]
  /\ todo = [d \in Threads |-> {}]
  /\ listing = "none"
  /\ ran = [r \in Rows |-> 0]
  /\ lost = {}
  /\ crashes = 0 /\ faults = 0 /\ drops = 0

EffectsOf(t) == {e \in Effects : TurnOf[e] = t}

\* Seeded fault: any outcome of the reply will do.
BadDelivered(e) ==
  \/ TurnOf[e] = Desktop
  \/ TurnOf[e] \in Replies /\ state[TurnOf[e]] \in Final
  \/ TurnOf[e] \in Bare /\ turn[TurnOf[e]] = "succeeded"

\* A model effect waits for its reply's receipt or for its bare turn to be
\* committed; an effect the desktop asked for waits for nothing.
Delivered(e) ==
  \/ TurnOf[e] = Desktop
  \/ TurnOf[e] \in Replies /\ state[TurnOf[e]] = "succeeded"
  \/ TurnOf[e] \in Bare /\ turn[TurnOf[e]] = "succeeded"

-----------------------------------------------------------------------------
(* A thread and its list of rows.                                          *)

Goto(d, step) == pc' = [pc EXCEPT ![d] = step] /\ UNCHANGED <<row, todo, listing>>

\* Dispatch returns.  A plan's rows stop at the first error; the flusher only
\* reports it and goes on.
Return(d, ok) ==
  /\ pc' = [pc EXCEPT ![d] = "next"]
  /\ row' = [row EXCEPT ![d] = NoRow]
  /\ todo' = [todo EXCEPT ![d] = IF ok \/ d = Flusher THEN @ ELSE {}]
  /\ UNCHANGED listing

GiveJob(d, rows) ==
  /\ pc' = [pc EXCEPT ![d] = "next"]
  /\ todo' = [todo EXCEPT ![d] = rows]
  /\ UNCHANGED row

\* The reply goes first, then the effects of a plan in the order it names them.
ComesNext(r, rows) ==
  /\ r \in rows
  /\ r \in Effects =>
       /\ rows \cap Replies = {}
       /\ \A e \in rows : TurnOf[e] = TurnOf[r] => Rank[r] <= Rank[e]

NextRow(d) ==
  /\ pc[d] = "next"
  /\ \E r \in todo[d] :
       /\ ComesNext(r, todo[d])
       /\ row' = [row EXCEPT ![d] = r]
       /\ todo' = [todo EXCEPT ![d] = @ \ {r}]
  /\ pc' = [pc EXCEPT ![d] = "load"]
  /\ UNCHANGED <<durable, up, ready, listing, ran, lost, counters>>

EndJob(d) ==
  /\ pc[d] = "next" /\ todo[d] = {}
  /\ d = Flusher => listing = "effects"
  /\ pc' = [pc EXCEPT ![d] = "idle"]
  /\ listing' = IF d = Flusher THEN "none" ELSE listing
  /\ UNCHANGED <<durable, up, ready, row, todo, ran, lost, counters>>

-----------------------------------------------------------------------------
(* Planning and the jobs that dispatch a plan.                             *)

\* One transaction publishes the turn's new state, its reply and its effects.
CommitPlan(d, t) ==
  /\ up /\ pc[d] = "idle" /\ turn[t] = "generating"
  /\ turn' = [turn EXCEPT ![t] =
                IF t \in Replies THEN "response_planned" ELSE "succeeded"]
  /\ LET planned == EffectsOf(t) \cup ({t} \cap Replies)
     IN  /\ state' = [r \in Rows |-> IF r \in planned THEN "pending" ELSE state[r]]
         /\ GiveJob(d, planned)
  /\ UNCHANGED <<up, ready, listing, ran, lost, counters>>

\* The local UI plans one effect and dispatches it.
PlanDesktop(d, e) ==
  /\ up /\ pc[d] = "idle" /\ TurnOf[e] = Desktop /\ state[e] = "none"
  /\ state' = [state EXCEPT ![e] = "pending"]
  /\ GiveJob(d, {e})
  /\ UNCHANGED <<turn, up, ready, listing, ran, lost, counters>>

\* A message seen again dispatches the reply it already has; an agent that
\* finds its turn planned dispatches the whole plan again.
Redispatch(d, t) ==
  /\ up /\ pc[d] = "idle" /\ turn[t] # "generating"
  /\ \/ t \in Replies /\ GiveJob(d, {t})
     \/ GiveJob(d, EffectsOf(t) \cup ({t} \cap Replies))
  /\ UNCHANGED <<durable, up, ready, listing, ran, lost, counters>>

\* Seeded fault: redelivery looks for interrupted rows, not for pending ones.
BadListReplies(young) ==
  /\ up /\ pc[Flusher] = "idle"
  /\ GiveJob(Flusher, {r \in Replies : state[r] = "executing"} \ young)
  /\ listing' = "replies"
  /\ UNCHANGED <<durable, up, ready, ran, lost, counters>>

\* A connection, or the minute's sweep, lists the pending replies.  The sweep
\* leaves out the rows younger than a minute.
ListReplies(young) ==
  /\ up /\ pc[Flusher] = "idle"
  /\ GiveJob(Flusher, {r \in Replies : state[r] = "pending"} \ young)
  /\ listing' = "replies"
  /\ UNCHANGED <<durable, up, ready, ran, lost, counters>>

\* Seeded fault: only effects without a model call are listed.
BadListEffects(young) ==
  /\ pc[Flusher] = "next" /\ todo[Flusher] = {} /\ listing = "replies"
  /\ GiveJob(Flusher, {e \in Effects : state[e] = "pending" /\ TurnOf[e] = Desktop} \ young)
  /\ listing' = "effects"
  /\ UNCHANGED <<durable, up, ready, ran, lost, counters>>

\* Effects go second, and only those whose reply is out.
ListEffects(young) ==
  /\ pc[Flusher] = "next" /\ todo[Flusher] = {} /\ listing = "replies"
  /\ GiveJob(Flusher, {e \in Effects : state[e] = "pending" /\ Delivered(e)} \ young)
  /\ listing' = "effects"
  /\ UNCHANGED <<durable, up, ready, ran, lost, counters>>

-----------------------------------------------------------------------------
(* Dispatch of one row, one action per read or write of shared state.      *)

Load(d) ==
  /\ pc[d] = "load"
  /\ IF state[row[d]] = "pending"
     THEN Goto(d, "check")
     ELSE Return(d, state[row[d]] = "succeeded")
  /\ UNCHANGED <<durable, up, ready, ran, lost, counters>>

\* A reply: the send policy first, any error of which is final, then Ready().
CheckReply(d) ==
  /\ pc[d] = "check" /\ row[d] \in Replies
  /\ \/ Goto(d, "deny")
     \/ IF ready THEN Goto(d, "start") ELSE Return(d, FALSE)
  /\ UNCHANGED <<durable, up, ready, ran, lost, counters>>

\* An effect: Ready() first, then the effect policy, which a command skips and
\* whose retryable errors leave the row pending.
CheckEffect(d) ==
  /\ pc[d] = "check" /\ row[d] \in Effects
  /\ \/ ~ready /\ Return(d, FALSE) /\ UNCHANGED faults
     \/ ready /\ Goto(d, "start") /\ UNCHANGED faults
     \/ /\ ready /\ row[d] \notin CommandRuns
        /\ \/ Goto(d, "deny") /\ UNCHANGED faults
           \/ faults < MaxFaults /\ faults' = faults + 1 /\ Return(d, FALSE)
  /\ UNCHANGED <<durable, up, ready, ran, lost, crashes, drops>>

\* Seeded fault: a claim that does not look at the row's state.
BadStartClaim(d) ==
  /\ pc[d] = "start"
  /\ (row[d] \in Effects => Delivered(row[d]))
  /\ state' = [state EXCEPT ![row[d]] = "executing"]
  /\ Goto(d, "run")
  /\ UNCHANGED <<turn, up, ready, ran, lost, counters>>

\* The claim: only one caller finds the row pending.
Start(d) ==
  /\ pc[d] = "start"
  /\ LET r == row[d]
     IN  IF state[r] = "pending" /\ (r \in Effects => Delivered(r))
         THEN /\ state' = [state EXCEPT ![r] = "executing"]
              /\ turn' = IF r \in Replies /\ turn[r] = "response_planned"
                         THEN [turn EXCEPT ![r] = "delivery_pending"] ELSE turn
              /\ Goto(d, "run")
         ELSE Return(d, FALSE) /\ UNCHANGED durable
  /\ UNCHANGED <<up, ready, ran, lost, counters>>

StartFails(d) ==
  /\ pc[d] = "start" /\ faults < MaxFaults
  /\ faults' = faults + 1
  /\ Return(d, FALSE)
  /\ UNCHANGED <<durable, up, ready, ran, lost, crashes, drops>>

\* The call to the provider.  One that errs may have reached it or not.
Run(d) ==
  /\ pc[d] = "run"
  /\ \/ /\ ran' = [ran EXCEPT ![row[d]] = @ + 1]
        /\ \E step \in {"complete", "mark"} : Goto(d, step)
     \/ ran' = ran /\ Goto(d, "mark")
     \/ row[d] \in CommandRuns /\ ran' = ran /\ Goto(d, "refuse")
  /\ UNCHANGED <<durable, up, ready, lost, counters>>

\* A row in one of the states "from" takes its final state, and the turn of a
\* reply follows it.
Finish(r, from, to) ==
  IF state[r] \in from
  THEN /\ state' = [state EXCEPT ![r] = to]
       /\ turn' = IF r \in Replies THEN [turn EXCEPT ![r] = to] ELSE turn
  ELSE UNCHANGED durable

Complete(d) ==
  /\ pc[d] = "complete"
  /\ IF state[row[d]] = "executing"
     THEN \/ /\ Finish(row[d], {"executing"}, "succeeded")
             /\ Return(d, TRUE) /\ UNCHANGED faults
          \/ /\ faults < MaxFaults /\ faults' = faults + 1
             /\ Goto(d, "mark") /\ UNCHANGED durable
     ELSE Goto(d, "mark") /\ UNCHANGED <<durable, faults>>
  /\ UNCHANGED <<up, ready, ran, lost, crashes, drops>>

\* Seeded fault: a reply, too, can be failed while it executes.
BadFailableFrom(r) == {"pending", "executing"}

\* Only a reply that is still pending can be failed; an effect also while it
\* executes.
FailableFrom(r) ==
  IF r \in Replies THEN {"pending"} ELSE {"pending", "executing"}

\* record(): the write is tried once, and nobody looks at its error.
Record(d, from, to) ==
  /\ \/ Finish(row[d], from, to) /\ UNCHANGED <<lost, faults>>
     \/ /\ faults < MaxFaults /\ faults' = faults + 1
        /\ lost' = IF pc[d] \in Owning THEN lost \cup {row[d]} ELSE lost
        /\ UNCHANGED durable
  /\ Return(d, FALSE)
  /\ UNCHANGED <<up, ready, ran, crashes, drops>>

\* Seeded fault: a send that erred goes back to pending, to be tried again.
BadMarkUnknown(d) == pc[d] = "mark" /\ Record(d, {"executing"}, "pending")
MarkUnknown(d) == pc[d] = "mark" /\ Record(d, {"executing"}, "unknown")

FailTerminal(d) ==
  /\ pc[d] \in {"deny", "refuse"}
  /\ Record(d, FailableFrom(row[d]), "failed_terminal")

-----------------------------------------------------------------------------
(* The process and its connection.                                         *)

Crash ==
  /\ up /\ crashes < MaxCrashes
  /\ up' = FALSE /\ ready' = FALSE /\ crashes' = crashes + 1
  /\ pc' = [d \in Threads |-> "idle"]
  /\ row' = [d \in Threads |-> NoRow]
  /\ todo' = [d \in Threads |-> {}]
  /\ listing' = "none"
  /\ UNCHANGED <<durable, ran, lost, faults, drops>>

\* ResolveInterrupted runs before anything can dispatch.
Restart ==
  /\ ~up /\ up' = TRUE
  /\ state' = [r \in Rows |-> IF state[r] = "executing" THEN "unknown" ELSE state[r]]
  /\ turn' = [t \in Turns |-> IF t \in Replies /\ state[t] = "executing"
                              THEN "unknown" ELSE turn[t]]
  /\ UNCHANGED <<ready, threads, ran, lost, counters>>

Connect == up /\ ~ready /\ ready' = TRUE
           /\ UNCHANGED <<durable, up, threads, ran, lost, counters>>

Disconnect ==
  /\ ready /\ drops < MaxDrops
  /\ ready' = FALSE /\ drops' = drops + 1
  /\ UNCHANGED <<durable, up, threads, ran, lost, crashes, faults>>

Step(d) ==
  \/ NextRow(d) \/ EndJob(d) \/ Load(d) \/ CheckReply(d) \/ CheckEffect(d)
  \/ Start(d) \/ Run(d) \/ Complete(d) \/ MarkUnknown(d) \/ FailTerminal(d)

Next ==
  \/ \E d \in Workers : \/ \E t \in Turns : CommitPlan(d, t) \/ Redispatch(d, t)
                        \/ \E e \in Effects : PlanDesktop(d, e)
  \/ \E young \in SUBSET Rows : ListReplies(young) \/ ListEffects(young)
  \/ \E d \in Threads : Step(d) \/ StartFails(d)
  \/ Crash \/ Restart \/ Connect \/ Disconnect

Spec == Init /\ [][Next]_vars

\* A started goroutine keeps running, the process is started again, the
\* session reconnects, and the sweep comes round every minute: sooner or later
\* it lists every pending row, none being younger than a minute for ever.
Fairness ==
  /\ \A d \in Threads : WF_vars(Step(d))
  /\ SF_vars(ListReplies({})) /\ SF_vars(ListEffects({}))
  /\ WF_vars(Restart) /\ WF_vars(Connect)

FairSpec == Spec /\ Fairness

-----------------------------------------------------------------------------
(* What must hold.                                                         *)

\* Dispatch sends a planned reply, and runs a planned effect, at most once,
\* whatever the threads, the crashes and the lost writes do (action.go and
\* effect.go, the comments on Dispatch).
AtMostOnce == \A r \in Rows : ran[r] <= 1

\* A model effect runs only after the reply it follows went out and has its
\* receipt, or after its bare turn is committed (effect.go, Start).
EffectFollowsReply ==
  \A e \in Effects : ran[e] > 0 =>
    /\ TurnOf[e] \in Replies => ran[TurnOf[e]] = 1 /\ state[TurnOf[e]] = "succeeded"
    /\ TurnOf[e] \in Bare => turn[TurnOf[e]] = "succeeded"

\* A reply recorded as sent was sent, and one recorded as failed was not: the
\* user is never told that nothing went out when something did (FailTerminal
\* and Complete of the action store).
ReplyOutcomeIsTrue ==
  \A r \in Replies :
    /\ state[r] = "succeeded" => ran[r] = 1
    /\ state[r] \in {"none", "pending", "failed_terminal"} => ran[r] = 0

\* The turn is a view of its reply's row: no crash, replay or lost write may
\* leave the two apart (updateTurnDelivery, Start, resolveInterruptedActions).
TurnOfState ==
  [s \in RowStates |-> CASE s = "none" -> "generating"
                         [] s = "pending" -> "response_planned"
                         [] s = "executing" -> "delivery_pending"
                         [] OTHER -> s]
TurnMirrorsReply == \A r \in Replies : turn[r] = TurnOfState[state[r]]

Owns(d, r) == pc[d] \in Owning /\ row[d] = r

\* A row is left executing only while a thread works on it, while the process
\* is down, or because the write of its outcome failed: after a restart nothing
\* executes that nobody will finish (ResolveInterrupted).
ExecutingHasAnOwner ==
  \A r \in Rows :
    state[r] = "executing" =>
      \/ ~up \/ r \in lost \/ \E d \in Threads : Owns(d, r)

\* What the tables say of a reply and of its turn is true after every step, and
\* every row that executes has somebody to finish it.
RecordsAreTrue ==
  TypeOK /\ ReplyOutcomeIsTrue /\ TurnMirrorsReply /\ ExecutingHasAnOwner

\* What is final stays final, through redelivery, replay and restart.
FinalStaysFinal ==
  [][\A r \in Rows : state[r] \in Final => state'[r] = state[r]]_vars

\* The replies keep the promise of AtMostOnceDelivery.
Promise == INSTANCE AtMostOnceDelivery WITH
  Items <- Replies,
  fate <- [r \in Replies |-> state[r]],
  attempts <- [r \in Replies |-> ran[r]]
RepliesKeepThePromise == Promise!Spec

\* A planned reply does not stay pending for ever once connections are no
\* longer lost: redelivery reaches what its own turn left behind.
PendingReplySettles ==
  \A r \in Replies : state[r] = "pending" ~> state[r] # "pending"

\* So does an effect whose reply is out, although its plan may have stopped at
\* an earlier row.
DeliveredEffectSettles ==
  \A e \in Effects :
    (state[e] = "pending" /\ Delivered(e)) ~> state[e] # "pending"
=============================================================================
