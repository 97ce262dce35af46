----------------------------- MODULE Admission -----------------------------
(***************************************************************************)
(* How a group message is let in: mute, the smart trigger's judge, the    *)
(* burst of messages that waits for it, and the queue behind both.         *)
(*                                                                         *)
(* Several adapter workers route messages of the group at once; commands   *)
(* mute and unmute one member; one background goroutine judges a burst;    *)
(* another one answers a batch or reads the inbox back when the queue was  *)
(* full.                                                                   *)
(*                                                                         *)
(* A batch is answered or fails as a whole, and one that fails stays       *)
(* unfinished until the next startup, which routes it as if it had just    *)
(* arrived: crash, retries of a batch and redelivery are the subject of    *)
(* ChatQueue, the reply that of Outbox.                                    *)
(***************************************************************************)
EXTENDS Integers, Sequences, FiniteSets

CONSTANTS
  Msgs,        \* messages of the group
  Commands,    \* /group mute commands, all against one member
  Mentions,    \* messages that match a trigger without the judge
  Muted,       \* the messages of the member the commands mute
  Workers,     \* number of adapter workers
  MaxPending,  \* maxPending
  BurstCap,    \* Options.BurstCap
  MaxComing,   \* bound: messages that come
  MaxFaults,   \* bound: writes and revocations that fail
  NoMsg        \* nobody holds the commands lock

Smart == Msgs \ (Commands \cup Mentions)

ASSUME Kinds ==
  /\ Commands \subseteq Msgs /\ Mentions \subseteq Msgs /\ Muted \subseteq Msgs
  /\ Commands \cap Mentions = {} /\ NoMsg \notin Msgs
ASSUME Bounds ==
  /\ {Workers, MaxPending, BurstCap} \subseteq Nat \ {0} /\ {MaxComing, MaxFaults} \subseteq Nat

VARIABLES
  status, arrived,  \* the inbox rows, and their order
  mute,             \* the chat_mutes row of the member
  stage,            \* where the worker that routes a message is
  holder,           \* the message whose worker holds the commands lock
  awaiting, judging, judgeTimer,   \* the burst that waits, the one judged
  judgeStep,        \* what the judging goroutine does next
  judged,           \* remembered judgments: "yes", "no" or "none"
  asking,           \* the message the burst or the turn asks the judge about
  pending, overflow, refilling, timer, running,  \* the chat's queue
  batch, passed,    \* the batch of the turn, how much of it is authorized
  page,             \* the page of the refill
  dropped,          \* messages left to the next startup
  faults

inbox == <<status, arrived>>
burst == <<awaiting, judging, judgeTimer, judgeStep>>
answers == <<judged, asking>>
queue == <<pending, overflow, refilling, timer, running, batch, passed, page>>
worker == <<stage, holder>>
admissionVars == <<inbox, burst, answers, queue, mute, worker, dropped, faults>>

Elems(s) == {s[i] : i \in DOMAIN s}
Last(s) == s[Len(s)]
Unfinished == {m \in Msgs : status[m] = "unfinished"}

\* The elements of s that are in T, in the order of s.
Filter(s, T) ==
  LET f[i \in 0..Len(s)] ==
        IF i = 0 THEN <<>> ELSE IF s[i] \in T THEN Append(f[i - 1], s[i]) ELSE f[i - 1]
  IN f[Len(s)]

Steps == {"idle", "mute", "purge", "revoke", "hold", "admit", "ignore", "lock", "close"}

AdmissionTypeOK ==
  /\ status \in [Msgs -> {"absent", "unfinished", "ignored", "closed", "answered"}]
  /\ arrived \in Seq(Msgs) /\ mute \in {"none", "live", "expired"}
  /\ stage \in [Msgs -> Steps] /\ holder \in Msgs \cup {NoMsg}
  /\ {awaiting, judging, pending, batch, page} \subseteq Seq(Msgs)
  /\ judgeStep \in {"none", "skip", "admit", "deny", "end"}
  /\ judged \in [Msgs -> {"none", "yes", "no"}]
  /\ asking \in [{"burst", "turn"} -> Msgs \cup {NoMsg}] /\ passed \in 0..Len(batch)
  /\ {judgeTimer, overflow, timer, running} \subseteq BOOLEAN
  /\ refilling \in {"none", "reading", "read"}
  /\ dropped \subseteq Msgs /\ faults \in 0..MaxFaults

AdmissionInit ==
  /\ status = [m \in Msgs |-> "absent"] /\ arrived = <<>>
  /\ mute = "none"
  /\ stage = [m \in Msgs |-> "idle"] /\ holder = NoMsg
  /\ awaiting = <<>> /\ judging = <<>> /\ judgeTimer = FALSE /\ judgeStep = "none"
  /\ judged = [m \in Msgs |-> "none"]
  /\ asking = [w \in {"burst", "turn"} |-> NoMsg]
  /\ pending = <<>> /\ overflow = FALSE /\ refilling = "none" /\ timer = FALSE
  /\ running = FALSE /\ batch = <<>> /\ passed = 0 /\ page = <<>> /\ dropped = {}
  /\ faults = 0

-----------------------------------------------------------------------------
(* Helpers.                                                                *)

Fault == faults < MaxFaults /\ faults' = faults + 1
Move(m, step) == stage' = [stage EXCEPT ![m] = step]
FreeWorker == Cardinality({m \in Msgs : stage[m] # "idle"}) < Workers

\* MarkIgnored and MarkCommandHandled change a row that is still unfinished.
Settle(m, s) == status' = [status EXCEPT ![m] = IF @ = "unfinished" THEN s ELSE @]

\* A message is waiting for or under judgment.
JudgedHere(m) == m \in Elems(awaiting) \cup Elems(judging)

\* AuthorizeInvocation would have to ask the judge about m.
NeedsJudgment(m) == m \in Smart /\ judged[m] = "none"

\* The group message is triggered, by itself or by a remembered judgment.
Triggered(m) == m \in Mentions \/ judged[m] = "yes"

\* The judge is asked, and answers; a failure is remembered as a no.
Ask(who, m) ==
  /\ NeedsJudgment(m) /\ asking[who] = NoMsg
  /\ asking' = [asking EXCEPT ![who] = m]
  /\ UNCHANGED judged
Answer(who, verdict) ==
  /\ asking[who] # NoMsg /\ asking' = [asking EXCEPT ![who] = NoMsg]
  /\ judged' = [judged EXCEPT ![asking[who]] = verdict]
Remembers(who, m) == asking[who] = NoMsg /\ ~NeedsJudgment(m) /\ UNCHANGED answers

-----------------------------------------------------------------------------
(* A worker routes a message.                                              *)

\* Handle claims the message and looks at its sender's mute.
Handle(m) ==
  /\ status[m] = "absent" /\ Len(arrived) < MaxComing /\ FreeWorker
  /\ status' = [status EXCEPT ![m] = "unfinished"] /\ arrived' = Append(arrived, m)
  /\ Move(m, "mute")
  /\ UNCHANGED <<burst, answers, queue, mute, holder, dropped, faults>>

\* A command waits for the chat's lock, a message the judge must see is held.
Routed(m) ==
  Move(m, CASE m \in Commands -> "lock"
            [] m \in Smart /\ NeedsJudgment(m) -> "hold"
            [] m \notin Commands /\ ~NeedsJudgment(m) -> "admit")

\* IsChatMuted reads the row; one that has expired is deleted in a second step.
IsChatMuted(m) ==
  /\ stage[m] = "mute"
  /\ CASE m \notin Muted \/ mute = "none" -> Routed(m)
       [] m \in Muted /\ mute = "live" -> Move(m, "revoke")
       [] m \in Muted /\ mute = "expired" -> Move(m, "purge")
  /\ UNCHANGED <<inbox, burst, answers, queue, mute, holder, dropped, faults>>

\* The deletion names the member, not the expiry that was read.
PurgeMute(m) ==
  /\ stage[m] = "purge" /\ Routed(m)
  /\ mute' = "none"
  /\ UNCHANGED <<inbox, burst, answers, queue, holder, dropped, faults>>

\* The message of a muted member is revoked and its row closed; when it cannot
\* be revoked, it stays as it is.
Ignore(m) ==
  /\ stage[m] \in {"revoke", "ignore"} /\ Move(m, "idle") /\ Settle(m, "ignored")
  /\ UNCHANGED <<arrived, burst, answers, queue, mute, holder, dropped, faults>>
RevokeFails(m) ==
  /\ stage[m] = "revoke" /\ Fault /\ Move(m, "idle")
  /\ dropped' = dropped \cup {m}
  /\ UNCHANGED <<inbox, burst, answers, queue, mute, holder>>

\* Mutant: a message that comes during a judgment does not wait for its end.
BadAwaitJudgment(m) ==
  /\ stage[m] = "hold" /\ Move(m, "idle")
  /\ awaiting' = Append(awaiting, m) /\ UNCHANGED <<judgeTimer, judging, judgeStep>>
  /\ UNCHANGED <<inbox, answers, queue, mute, holder, dropped, faults>>

\* awaitJudgment holds the message; only an idle judge's timer is restarted.
AwaitJudgment(m) ==
  /\ stage[m] = "hold" /\ Move(m, "idle")
  /\ IF JudgedHere(m) THEN UNCHANGED burst
     ELSE /\ awaiting' = Append(awaiting, m)
          /\ judgeTimer' = (judgeTimer \/ judging = <<>>)
          /\ UNCHANGED <<judging, judgeStep>>
  /\ UNCHANGED <<inbox, answers, queue, mute, holder, dropped, faults>>

\* A message joins the queue, or stays in the inbox when that is full.
Enqueue(m) ==
  /\ IF m \in Elems(pending) THEN UNCHANGED <<pending, overflow, timer>>
     ELSE IF overflow \/ refilling # "none" \/ Len(pending) >= MaxPending
     THEN overflow' = TRUE /\ UNCHANGED <<pending, timer>>
     ELSE /\ pending' = Append(pending, m) /\ timer' = (timer \/ ~running)
          /\ UNCHANGED overflow
  /\ UNCHANGED <<refilling, running, batch, passed, page>>

\* admitAI: what the policy denies is ignored.
Admit(m) ==
  /\ stage[m] = "admit" /\ ~NeedsJudgment(m)
  /\ IF Triggered(m) THEN Move(m, "idle") /\ Enqueue(m)
     ELSE Move(m, "ignore") /\ UNCHANGED queue
  /\ UNCHANGED <<inbox, burst, answers, mute, holder, dropped, faults>>

-----------------------------------------------------------------------------
(* Commands, one at a time in the chat.                                    *)

\* SetChatMute writes the row, or deletes it for a duration of zero.
SetChatMute(m) ==
  /\ stage[m] = "lock" /\ holder = NoMsg
  /\ holder' = m /\ Move(m, "close")
  /\ \E minutes \in 0..1 :
       mute' = (IF minutes > 0 THEN "live" ELSE "none")
  /\ UNCHANGED <<inbox, burst, answers, queue, dropped, faults>>

\* refill keeps turns out while the inbox is read.
StartsRefill == running' = TRUE /\ refilling' = "reading"

\* The command is marked handled, and the last one may read the inbox back.
CloseCommand(m) ==
  /\ stage[m] = "close" /\ Move(m, "idle") /\ Settle(m, "closed")
  /\ holder' = NoMsg
  /\ LET last == \A n \in Msgs \ {m} : stage[n] \notin {"lock", "close"}
     IN IF last /\ overflow /\ ~running /\ ~timer /\ pending = <<>>
        THEN StartsRefill ELSE UNCHANGED <<running, refilling>>
  /\ UNCHANGED <<arrived, burst, answers, mute, dropped, faults,
                 pending, overflow, timer, batch, passed, page>>

\* Time passes: the mute runs out.
Expire ==
  /\ mute = "live" /\ mute' = "expired"
  /\ UNCHANGED <<inbox, burst, answers, queue, worker, dropped, faults>>

-----------------------------------------------------------------------------
(* The judging goroutine.                                                  *)

\* The timer fires: the messages held become the burst.
StartJudgment ==
  /\ judgeTimer /\ judging = <<>> /\ awaiting # <<>>
  /\ judgeTimer' = FALSE /\ judging' = awaiting /\ awaiting' = <<>>
  /\ judgeStep' = "skip"
  /\ UNCHANGED <<inbox, answers, queue, mute, worker, dropped, faults>>

\* judgeBurst ignores all but the newest message, oldest first.
Skipped(m) ==
  \A i \in 1..(Len(judging) - 1) : judging[i] = m =>
    \A j \in 1..(i - 1) : status[judging[j]] = "ignored"
JudgeSkips(m) ==
  /\ judgeStep = "skip" /\ m \in Elems(judging) \ {Last(judging)}
  /\ status[m] = "unfinished" /\ Skipped(m)
  /\ status' = [status EXCEPT ![m] = "ignored"]
  /\ UNCHANGED <<arrived, burst, answers, queue, mute, worker, dropped, faults>>
OnlyNewestLeft == \A i \in 1..(Len(judging) - 1) : status[judging[i]] = "ignored"

\* A row that cannot be ignored ends the burst: a turn took it, or a write failed.
JudgeSkipFails(m) ==
  /\ judgeStep = "skip" /\ m \in Elems(judging) \ {Last(judging)} /\ Skipped(m)
  /\ \/ status[m] = "answered" /\ UNCHANGED faults
     \/ status[m] = "unfinished" /\ Fault
  /\ judgeStep' = "end"
  /\ dropped' = dropped \cup (Elems(judging) \cap Unfinished)
  /\ UNCHANGED <<inbox, awaiting, judging, judgeTimer, answers, queue, mute,
                 worker>>

\* The newest is authorized, which asks the judge unless it has judged it.
JudgeAsks ==
  /\ judgeStep = "skip" /\ OnlyNewestLeft /\ Ask("burst", Last(judging))
  /\ UNCHANGED <<inbox, burst, queue, mute, worker, dropped, faults>>
JudgeAnswers ==
  /\ judgeStep = "skip" /\ OnlyNewestLeft
  /\ \/ Answer("burst", "yes") /\ judgeStep' = "admit"
     \/ Answer("burst", "no") /\ judgeStep' = "deny"
     \/ /\ Remembers("burst", Last(judging))
        /\ judgeStep' = IF Triggered(Last(judging)) THEN "admit" ELSE "deny"
  /\ UNCHANGED <<inbox, awaiting, judging, judgeTimer, queue, mute, worker,
                 dropped, faults>>
JudgeAdmits ==
  /\ judgeStep \in {"admit", "deny"} /\ judgeStep' = "end"
  /\ IF judgeStep = "admit" THEN Enqueue(Last(judging)) /\ UNCHANGED status
     ELSE Settle(Last(judging), "ignored") /\ UNCHANGED queue
  /\ UNCHANGED <<arrived, awaiting, judging, judgeTimer, answers, mute, worker,
                 dropped, faults>>

\* The goroutine ends; messages that came meanwhile wait for the next burst.
JudgeEnds ==
  /\ judgeStep = "end" /\ judgeStep' = "none" /\ judging' = <<>>
  /\ judgeTimer' = (awaiting # <<>>) /\ UNCHANGED awaiting
  /\ UNCHANGED <<inbox, answers, queue, mute, worker, dropped, faults>>

-----------------------------------------------------------------------------
(* The turn, and the refill of the queue from the inbox.                   *)

\* The queue's timer fires; the claim leaves out what is already settled.
StartTurn ==
  /\ timer /\ timer' = FALSE
  /\ IF running \/ pending = <<>> THEN UNCHANGED <<running, pending, batch>>
     ELSE LET size == IF Len(pending) < BurstCap THEN Len(pending) ELSE BurstCap
          IN /\ running' = TRUE
             /\ batch' = Filter(SubSeq(pending, 1, size), Unfinished)
             /\ pending' = SubSeq(pending, size + 1, Len(pending))
  /\ UNCHANGED <<overflow, refilling, passed, page, inbox, burst, answers, mute, worker,
                 dropped, faults>>

\* processBatch authorizes every message again, and asks about one the judge
\* has not seen.
TurnAsks ==
  /\ running /\ refilling = "none" /\ passed < Len(batch)
  /\ Ask("turn", batch[passed + 1])
  /\ UNCHANGED <<inbox, burst, queue, mute, worker, dropped, faults>>
TurnPasses ==
  /\ running /\ refilling = "none" /\ passed < Len(batch)
  /\ \/ Answer("turn", "yes")
     \/ Remembers("turn", batch[passed + 1]) /\ Triggered(batch[passed + 1])
  /\ passed' = passed + 1
  /\ UNCHANGED <<pending, overflow, refilling, timer, running, batch, page, inbox,
                 burst, mute, worker, dropped, faults>>

\* What follows a turn: the rest of the queue, or the inbox.
AfterTurn ==
  IF pending = <<>> /\ overflow
  THEN overflow' = FALSE /\ StartsRefill /\ UNCHANGED timer
  ELSE running' = FALSE /\ timer' = (pending # <<>>) /\ UNCHANGED <<overflow, refilling>>

\* The batch is answered, or one of its messages is denied and all fail.
TurnEnds ==
  /\ batch' = <<>> /\ passed' = 0 /\ AfterTurn
  /\ UNCHANGED <<arrived, pending, page, burst, mute, worker, faults>>
TurnAnswers ==
  /\ running /\ refilling = "none" /\ passed = Len(batch)
  /\ status' = [m \in Msgs |-> IF m \in Elems(batch) THEN "answered" ELSE status[m]]
  /\ TurnEnds
  /\ UNCHANGED <<answers, dropped>>
TurnDenied ==
  /\ running /\ refilling = "none" /\ passed < Len(batch)
  /\ \/ Answer("turn", "no")
     \/ Remembers("turn", batch[passed + 1]) /\ ~Triggered(batch[passed + 1])
  /\ dropped' = dropped \cup Elems(batch)
  /\ TurnEnds
  /\ UNCHANGED status

\* readInbox reads one page of unfinished rows, oldest first.
InboxPage ==
  LET waiting == Filter(arrived, Unfinished)
  IN SubSeq(waiting, 1, IF Len(waiting) < MaxPending THEN Len(waiting) ELSE MaxPending)
ReadInbox ==
  /\ refilling = "reading" /\ refilling' = "read" /\ page' = InboxPage
  /\ UNCHANGED <<pending, overflow, timer, running, batch, passed, inbox, burst,
                 answers, mute, worker, dropped, faults>>

\* Mutant: a refill that found nothing forgets what overflowed meanwhile.
BadReadsOn(full, users) == full /\ ~users

\* The inbox is read again when the queue overflowed meanwhile, or when a full
\* page held nothing for the queue and no command is left to read on.
ReadsOn(full, users) == overflow \/ (full /\ ~users)

\* The page joins the queue, without commands and messages held for the judge.
\* When the judgment of one is over but not yet noted as over, nobody else will
\* read it: it was left to this refill.
Refill ==
  /\ refilling = "read"
  /\ LET kept == Filter(page, {m \in Msgs \ Commands : ~JudgedHere(m)})
         full == Len(page) = MaxPending
         users == \E m \in Msgs : stage[m] \in {"lock", "close"}
     IN /\ pending' = pending \o kept
        /\ page' = <<>>
        /\ IF pending' # <<>>
           THEN /\ overflow' = (full \/ overflow) /\ timer' = TRUE
                /\ running' = FALSE /\ refilling' = "none"
           ELSE /\ overflow' = full /\ UNCHANGED timer
                /\ IF ReadsOn(full, users)
                   THEN StartsRefill
                   ELSE running' = FALSE /\ refilling' = "none"
  /\ dropped' = IF overflow' \/ refilling' = "reading" \/ judgeStep # "end" THEN dropped
                ELSE dropped \cup (Elems(page) \cap Elems(judging))
  /\ UNCHANGED <<batch, passed, inbox, burst, answers, mute, worker, faults>>

-----------------------------------------------------------------------------

WorkerStep(m) ==
  \/ IsChatMuted(m) \/ PurgeMute(m) \/ Ignore(m)
  \/ AwaitJudgment(m) \/ Admit(m) \/ SetChatMute(m) \/ CloseCommand(m)
JudgeStep ==
  \/ StartJudgment \/ JudgeAsks \/ JudgeAnswers \/ JudgeAdmits \/ JudgeEnds
  \/ \E m \in Msgs : JudgeSkips(m) \/ JudgeSkipFails(m)
QueueStep ==
  \/ StartTurn \/ TurnAsks \/ TurnPasses \/ TurnAnswers \/ TurnDenied
  \/ ReadInbox \/ Refill

AdmissionNext ==
  \/ \E m \in Msgs : Handle(m) \/ RevokeFails(m) \/ WorkerStep(m)
  \/ JudgeStep \/ QueueStep \/ Expire

\* Goroutines run, timers fire, and the judge answers or times out.
Fairness ==
  /\ \A m \in Msgs : WF_admissionVars(WorkerStep(m))
  /\ WF_admissionVars(JudgeStep) /\ WF_admissionVars(QueueStep)
AdmissionSpec == AdmissionInit /\ [][AdmissionNext]_admissionVars /\ Fairness

-----------------------------------------------------------------------------
(* Properties.                                                             *)

\* While messages wait for the judge, its timer runs or a burst whose end
\* restarts it is being judged: an arrival during a judgment, or a burst that
\* ends early, leaves nobody waiting for a judgment that never comes.
HeldHasATimer ==
  /\ awaiting # <<>> => judgeTimer \/ judging # <<>>
  /\ (judging # <<>>) = (judgeStep # "none")

\* An unfinished message that is no command is in somebody's hands: its worker,
\* the burst, the queue, the turn, a page read back, or the inbox with a reader
\* to come.  Only an error leaves it, or a refill that passes over a message whose
\* judgment is not noted as over, and then only until the next startup.
NobodyForgotten ==
  \A m \in Unfinished \ Commands :
    \/ stage[m] # "idle" \/ JudgedHere(m)
    \/ m \in Elems(pending) \cup Elems(batch) \cup Elems(page)
    \/ overflow \/ refilling = "reading" \/ Len(page) = MaxPending
    \/ m \in dropped

\* Whoever waits, for the judge or for a turn, has somebody to come for it.
WaitersAreServed == AdmissionTypeOK /\ HeldHasATimer /\ NobodyForgotten

\* What waits for the judge is judged, skipped or left by an error.
HeldIsJudged ==
  \A m \in Smart : m \in Elems(awaiting) ~> m \notin Elems(awaiting)
=============================================================================
