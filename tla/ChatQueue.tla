----------------------------- MODULE ChatQueue -----------------------------
(***************************************************************************)
(* One chat of the inbound dispatcher: its durable inbox rows, its queue   *)
(* in memory, the callers that route messages into it (the adapter's       *)
(* workers and the startup recovery) and the one background goroutine that *)
(* answers a batch or reads the inbox back.                                *)
(*                                                                         *)
(* A message is a command, an AI message the policy wants, or one it does  *)
(* not want.  Policy decisions are stable; providers, the model and        *)
(* storage fail nondeterministically.  The smart trigger's judgment and    *)
(* graceful shutdown are not part of this module.                          *)
(***************************************************************************)
EXTENDS Integers, Sequences, FiniteSets, Functions

CONSTANTS
  Msgs,         \* messages of the chat, numbered as they come in
  Kinds,        \* what they may be: functions from Msgs to MessageKinds
  Workers,      \* goroutines of the adapter that call Handle
  Recoverer,    \* the goroutine that runs Recover
  NoMsg,        \* a caller that routes nothing
  MaxPending,   \* maxPending
  BurstCap,     \* Options.BurstCap
  MaxRetries,   \* maxGenerationRetries
  MaxAttempts,  \* maxGenerationAttempts
  MaxDups,      \* bound: repeated deliveries
  MaxFaults,    \* bound: failures of storage, registry and model
  MaxCrashes,   \* bound: process crashes
  MaxTrouble    \* bound: all three together

Callers == Workers \cup {Recoverer}

\* A registered command, an AI message AuthorizeInvocation allows, and one it
\* denies.
MessageKinds == {"command", "wanted", "unwanted"}
ASSUME KindsOfMessages ==
  /\ Msgs \subseteq Nat /\ NoMsg \notin Msgs /\ Kinds \subseteq [Msgs -> MessageKinds]
ASSUME CallersDiffer == Recoverer \notin Workers
ASSUME Sizes ==
  /\ {MaxPending, BurstCap, MaxAttempts} \subseteq Nat \ {0}
  /\ {MaxRetries, MaxDups, MaxFaults, MaxCrashes, MaxTrouble} \subseteq Nat

VARIABLES
  kind,       \* what each message is, which the registry and the policy decide
  \* the inbox
  row,        \* the state of each message's inbound_events row
  attempts,   \* generation_attempts
  arrived,    \* the rows in rowid order
  resetAt,    \* how many rows the last history reset covers
  \* the chat's queue
  pending, overflow, refilling, timer, running, retries,
  users, holder,            \* users and owner of the commands lock
  \* goroutines
  jobs,       \* background goroutines of the chat
  at, msg,    \* where each caller is, and the message it routes
  recovered,  \* Recover has succeeded in this process
  page, more, after, passFailed,   \* its current pass over the inbox
  \* observations
  dropped,    \* messages given up until the next startup, with an error
  anchorOf,   \* the message another one was batched into
  doubled,    \* messages that have waited in the queue twice at once
  dups, faults, crashes

inbox == <<kind, row, attempts, arrived, resetAt>>
flags == <<overflow, refilling, timer, running, retries>>
queue == <<pending, flags>>
lock == <<users, holder>>
recovery == <<recovered, page, more, after, passFailed>>
seen == <<dropped, anchorOf, doubled>>
counters == <<dups, faults, crashes>>
vars == <<inbox, queue, lock, jobs, at, msg, recovery, seen, counters>>

Unfinished == {"received", "generating", "retryable"}
Settled == {"ignored", "answered", "closed", "failed"}
RowStates == Unfinished \cup Settled \cup {"absent", "batched"}
CallerSteps == {"idle", "route", "ignore", "resume", "admit",
                "lock", "check", "execute", "close", "release"}
JobSteps == {"claim", "prepare", "generate", "end", "read", "append"}
Jobs == [step : JobSteps, batch : Seq(Msgs), rest : Seq(Msgs),
         redo : Seq(Msgs), failed : BOOLEAN]

Commands == {m \in Msgs : kind[m] = "command"}
Unwanted == {m \in Msgs : kind[m] = "unwanted"}
Wanted == {m \in Msgs : kind[m] = "wanted"}

Elems(s) == {s[i] : i \in DOMAIN s}
Last(s) == s[Len(s)]
Twice(s) == {m \in Elems(s) : \E i, k \in DOMAIN s : i # k /\ s[i] = m /\ s[k] = m}
\* The elements of s that are in T, in their order: a recursive function.
Filter(s, T) ==
  LET f[i \in 0..Len(s)] ==
        IF i = 0 THEN <<>>
        ELSE IF s[i] \in T THEN Append(f[i - 1], s[i]) ELSE f[i - 1]
  IN  f[Len(s)]
Arrival(m) == CHOOSE i \in DOMAIN arrived : arrived[i] = m

InboxTypeOK ==
  /\ kind \in Kinds
  /\ row \in [Msgs -> RowStates] /\ attempts \in [Msgs -> 0..MaxAttempts]
  /\ arrived \in Seq(Msgs) /\ resetAt \in 0..Len(arrived)
QueueTypeOK ==
  /\ pending \in Seq(Msgs) /\ retries \in 0..MaxRetries /\ jobs \subseteq Jobs
FlagsTypeOK ==
  /\ overflow \in BOOLEAN /\ refilling \in BOOLEAN /\ timer \in BOOLEAN /\ running \in BOOLEAN
  /\ recovered \in BOOLEAN /\ more \in BOOLEAN /\ passFailed \in BOOLEAN
CallersTypeOK ==
  /\ at \in [Callers -> CallerSteps] /\ msg \in [Callers -> Msgs \cup {NoMsg}]
  /\ users \in Nat /\ holder \in Callers \cup {NoMsg}
  /\ page \in Seq(Msgs) /\ after \in 0..Len(arrived)
SeenTypeOK ==
  /\ dropped \subseteq Msgs /\ doubled \subseteq Msgs
  /\ anchorOf \in [Msgs -> Msgs \cup {NoMsg}]
  /\ dups \in 0..MaxDups /\ faults \in 0..MaxFaults /\ crashes \in 0..MaxCrashes
TypeOK ==
  InboxTypeOK /\ QueueTypeOK /\ FlagsTypeOK /\ CallersTypeOK /\ SeenTypeOK

Init ==
  /\ kind \in Kinds
  /\ row = [m \in Msgs |-> "absent"] /\ attempts = [m \in Msgs |-> 0]
  /\ arrived = <<>> /\ resetAt = 0
  /\ pending = <<>> /\ retries = 0
  /\ overflow = FALSE /\ refilling = FALSE /\ timer = FALSE /\ running = FALSE
  /\ users = 0 /\ holder = NoMsg
  /\ jobs = {}
  /\ at = [c \in Callers |-> "idle"] /\ msg = [c \in Callers |-> NoMsg]
  /\ recovered = FALSE /\ page = <<>> /\ more = TRUE /\ after = 0
  /\ passFailed = FALSE
  /\ dropped = {}
  /\ anchorOf = [m \in Msgs |-> NoMsg] /\ doubled = {}
  /\ dups = 0 /\ faults = 0 /\ crashes = 0

-----------------------------------------------------------------------------
(* Helpers.                                                                *)

SpareTrouble == dups + faults + crashes < MaxTrouble
Fault == faults < MaxFaults /\ SpareTrouble /\ faults' = faults + 1 /\ UNCHANGED <<dups, crashes>>
Move(c, step) == at' = [at EXCEPT ![c] = step] /\ UNCHANGED msg
Leave(c) == at' = [at EXCEPT ![c] = "idle"] /\ msg' = [msg EXCEPT ![c] = NoMsg]
SetRow(m, s) == row' = [row EXCEPT ![m] = s]

\* The rows listUnfinished returns: oldest first, one page.
UnfinishedAfter(n) ==
  LET rows == Filter(arrived, {m \in Msgs : row[m] \in Unfinished /\ Arrival(m) > n})
  IN  IF Len(rows) > MaxPending THEN SubSeq(rows, 1, MaxPending) ELSE rows

\* A caller's Resume returned an error.  Handle's caller logs it; Recover comes
\* back for the transient ones and reports the others.
Fails(c) ==
  /\ Leave(c)
  /\ \/ c \in Workers /\ dropped' = dropped \cup {msg[c]} /\ UNCHANGED passFailed
     \/ c = Recoverer /\ dropped' = dropped \cup {msg[c]} /\ UNCHANGED passFailed
     \/ c = Recoverer /\ passFailed' = TRUE /\ UNCHANGED dropped
  /\ UNCHANGED <<anchorOf, doubled, recovered, page, more, after>>

Replace(j, k) == jobs' = (jobs \ {j}) \cup {k}
Job(step, b, rest, redo, failed) ==
  [step |-> step, batch |-> b, rest |-> rest, redo |-> redo, failed |-> failed]
NewJob(step, b) == Job(step, b, <<>>, <<>>, FALSE)
End(j, rest, redo, failed) == Replace(j, Job("end", <<>>, rest, redo, failed))

\* Seeded fault: the reader does not count as a running turn.
BadRefill(others) ==
  /\ running' = FALSE /\ refilling' = TRUE
  /\ jobs' = others \cup {NewJob("read", <<>>)}

\* refill: the goroutine that reads the inbox counts as the chat's running turn.
Refill(others) ==
  /\ running' = TRUE /\ refilling' = TRUE
  /\ jobs' = others \cup {NewJob("read", <<>>)}

-----------------------------------------------------------------------------
(* Handle, Resume and Recover.                                             *)

\* ClaimAndResolveSender: one transaction per provider message ID.
Deliver(c, m) ==
  /\ at[c] = "idle" /\ row[m] = "absent"
  /\ \A n \in Msgs : n < m => row[n] # "absent"
  /\ row' = [row EXCEPT ![m] = "received"]
  /\ arrived' = Append(arrived, m)
  /\ at' = [at EXCEPT ![c] = "route"] /\ msg' = [msg EXCEPT ![c] = m]
  /\ UNCHANGED <<kind, attempts, resetAt, queue, lock, jobs, recovery, seen, counters>>

\* The provider repeats a message.  A handled one stops here, which in this
\* model leaves the rows that are unfinished or have a reply on its way.
Redeliver(c, m) ==
  /\ at[c] = "idle" /\ row[m] \in Unfinished \cup {"answered"} /\ dups < MaxDups /\ SpareTrouble
  /\ dups' = dups + 1
  /\ at' = [at EXCEPT ![c] = "route"] /\ msg' = [msg EXCEPT ![c] = m]
  /\ UNCHANGED <<inbox, queue, lock, jobs, recovery, seen, faults, crashes>>

RecoverList ==
  /\ at[Recoverer] = "idle" /\ ~recovered /\ page = <<>> /\ more
  /\ LET found == UnfinishedAfter(after)
     IN  /\ page' = found
         /\ more' = (Len(found) = MaxPending)
         /\ after' = IF found = <<>> THEN after ELSE Arrival(Last(found))
  /\ UNCHANGED <<inbox, queue, lock, jobs, at, msg, recovered, passFailed, seen, counters>>

\* The listing fails: the whole pass is tried again later.
RecoverListFails ==
  /\ at[Recoverer] = "idle" /\ ~recovered /\ page = <<>> /\ more
  /\ Fault
  /\ more' = TRUE /\ after' = 0 /\ passFailed' = FALSE
  /\ UNCHANGED <<inbox, queue, lock, jobs, at, msg, recovered, page, seen>>

RecoverNext ==
  /\ at[Recoverer] = "idle" /\ page # <<>>
  /\ at' = [at EXCEPT ![Recoverer] = "route"]
  /\ msg' = [msg EXCEPT ![Recoverer] = Head(page)]
  /\ page' = Tail(page)
  /\ UNCHANGED <<inbox, queue, lock, jobs, recovered, more, after, passFailed, seen, counters>>

RecoverDone ==
  /\ at[Recoverer] = "idle" /\ ~recovered /\ page = <<>> /\ ~more
  /\ IF passFailed
     THEN more' = TRUE /\ after' = 0 /\ passFailed' = FALSE /\ UNCHANGED recovered
     ELSE recovered' = TRUE /\ UNCHANGED <<more, after, passFailed>>
  /\ UNCHANGED <<inbox, queue, lock, jobs, at, msg, page, seen, counters>>

\* Resume: a command goes for the chat's command lock; an AI message loads its
\* agent and is authorized.
Route(c) ==
  /\ at[c] = "route"
  /\ IF msg[c] \in Commands
     THEN Move(c, "lock") /\ users' = users + 1
     ELSE Move(c, IF msg[c] \in Unwanted THEN "ignore" ELSE "resume") /\ UNCHANGED users
  /\ UNCHANGED <<inbox, queue, holder, jobs, recovery, seen, counters>>

RouteFails(c) ==
  /\ at[c] = "route" /\ msg[c] \notin Commands
  /\ Fault /\ Fails(c)
  /\ UNCHANGED <<inbox, queue, lock, jobs>>

\* MarkIgnored: only a row nothing has happened to yet.
Ignore(c) ==
  /\ at[c] = "ignore"
  /\ IF row[msg[c]] = "received" THEN SetRow(msg[c], "ignored") ELSE UNCHANGED row
  /\ Leave(c)
  /\ UNCHANGED <<kind, attempts, arrived, resetAt, queue, lock, jobs, recovery, seen, counters>>

IgnoreFails(c) ==
  /\ at[c] = "ignore" /\ Fault /\ Fails(c)
  /\ UNCHANGED <<inbox, queue, lock, jobs>>

\* A message that already has a reply only has it dispatched (module Outbox).
Resume(c) ==
  /\ at[c] = "resume"
  /\ IF row[msg[c]] = "answered" THEN Leave(c) ELSE Move(c, "admit")
  /\ UNCHANGED <<inbox, queue, lock, jobs, recovery, seen, counters>>

ResumeFails(c) ==
  /\ at[c] = "resume" /\ Fault /\ Fails(c)
  /\ UNCHANGED <<inbox, queue, lock, jobs>>

\* Seeded fault: a bound that lets a message pass the ones already left in the
\* inbox.
BadStaysOvertaken == Len(pending) >= MaxPending

\* Once one message is left in the inbox, the later ones wait there too.
StaysInInbox == overflow \/ refilling \/ Len(pending) >= MaxPending

\* The rest of admitAI, under mu.
Admit(c) ==
  /\ at[c] = "admit"
  /\ IF msg[c] \in Elems(pending) THEN UNCHANGED queue
     ELSE IF StaysInInbox
     THEN overflow' = TRUE /\ UNCHANGED <<pending, refilling, timer, running, retries>>
     ELSE /\ pending' = Append(pending, msg[c])
          /\ timer' = (timer \/ ~running)
          /\ UNCHANGED <<overflow, refilling, running, retries>>
  /\ Leave(c)
  /\ UNCHANGED <<inbox, lock, jobs, recovery, seen, counters>>

-----------------------------------------------------------------------------
(* Commands: on the caller's goroutine, one at a time per chat.            *)

Acquire(c) ==
  /\ at[c] = "lock" /\ holder = NoMsg
  /\ holder' = c /\ Move(c, "check")
  /\ UNCHANGED <<inbox, queue, users, jobs, recovery, seen, counters>>

\* A response planned earlier is only dispatched; the row's state is not read
\* again.  A denied command replies without running.
Check(c) ==
  /\ at[c] = "check"
  /\ IF row[msg[c]] = "answered"
     THEN Move(c, "release") /\ UNCHANGED row
     ELSE \/ Move(c, "execute") /\ UNCHANGED row
          \/ Move(c, "release") /\ SetRow(msg[c], "answered")
  /\ UNCHANGED <<kind, attempts, arrived, resetAt, queue, lock, jobs, recovery, seen, counters>>

\* loadAgent or Resume fails, or what the command did cannot be recorded: it
\* stays in the inbox.
CommandFails(c) ==
  /\ at[c] \in {"check", "close"} /\ Fault /\ Move(c, "release")
  /\ \/ dropped' = dropped \cup {msg[c]} /\ UNCHANGED passFailed
     \/ c = Recoverer /\ passFailed' = TRUE /\ UNCHANGED dropped
  /\ UNCHANGED <<inbox, queue, lock, jobs, recovered, page, more, after, anchorOf, doubled>>

\* A turn was begun for the message; a history reset covers it.
Started(m) == row[m] \in {"generating", "retryable"}
Predates(m) == Arrival(m) <= resetAt

\* ResetIfConfigVersion: everything that has arrived is covered, and the turns
\* that were begun for it are cancelled, also the one under way.
Reset ==
  /\ resetAt' = Len(arrived)
  /\ row' = [m \in Msgs |-> IF Started(m) THEN "ignored" ELSE row[m]]

\* The handler runs; a history reset is one of the things it may do.
Execute(c) ==
  /\ at[c] = "execute"
  /\ Reset \/ UNCHANGED <<row, resetAt>>
  /\ Move(c, "close")
  /\ UNCHANGED <<kind, attempts, arrived, queue, lock, jobs, recovery, seen, counters>>

\* MarkCommandHandled after a success or an uncertain failure; a reply that is
\* planned whatever the row says after another failure.
Close(c) ==
  /\ at[c] = "close" /\ Move(c, "release")
  /\ \/ IF row[msg[c]] = "received" THEN SetRow(msg[c], "closed") ELSE UNCHANGED row
     \/ SetRow(msg[c], "answered")
  /\ UNCHANGED <<kind, attempts, arrived, resetAt, queue, lock, jobs, recovery, seen, counters>>

\* The last command to leave reads the inbox back if messages were left there
\* and the queue will not do it.
LastCommandReads == overflow /\ users = 1 /\ ~running /\ ~timer /\ pending = <<>>

Release(c) ==
  /\ at[c] = "release"
  /\ holder' = NoMsg /\ users' = users - 1 /\ Leave(c)
  /\ IF LastCommandReads
     THEN Refill(jobs) /\ UNCHANGED <<pending, overflow, timer, retries>>
     ELSE UNCHANGED <<queue, jobs>>
  /\ UNCHANGED <<inbox, recovery, seen, counters>>

-----------------------------------------------------------------------------
(* A turn: the timer, the claim, the generation, the end.                  *)

StartTurn ==
  /\ timer /\ timer' = FALSE
  /\ IF running \/ pending = <<>>
     THEN UNCHANGED <<pending, running, jobs>>
     ELSE LET size == IF Len(pending) < BurstCap THEN Len(pending) ELSE BurstCap
          IN  /\ pending' = SubSeq(pending, size + 1, Len(pending))
              /\ running' = TRUE
              /\ jobs' = jobs \cup {NewJob("claim", SubSeq(pending, 1, size))}
  /\ UNCHANGED <<inbox, overflow, refilling, retries, lock, at, msg, recovery, seen, counters>>

\* The inbox's row order is the arrival order: every way to put b into it.
Sortings(b) ==
  {s \in Bijection(DOMAIN b, DOMAIN b) :
     \A i, k \in DOMAIN b : i < k => Arrival(b[s[i]]) <= Arrival(b[s[k]])}

\* ClaimBatch: what a batch becomes.  A started message runs alone; fresh ones
\* run together, up to the first started one; what was received before the
\* reset is discarded and what is answered already is dropped.
Fresh(m) == row[m] = "received" /\ Arrival(m) > resetAt
Stale(m) == row[m] = "received" /\ Arrival(m) <= resetAt
Used(b) ==
  LET first == {i \in DOMAIN b : Started(b[i]) /\ \A j \in 1..(i - 1) : ~Started(b[j])}
  IN  IF first = {} THEN Len(b)
      ELSE LET i == CHOOSE k \in first : TRUE
           IN  IF \E j \in 1..(i - 1) : Fresh(b[j]) THEN i - 1 ELSE i
Claimed(b) ==
  Filter(SubSeq(b, 1, Used(b)), {m \in Msgs : Fresh(m) \/ Started(m)})

\* Seeded fault: the anchor, too, is recorded as batched.
BadAbsorbed(claimed) == claimed
\* Every claimed message but the last is recorded as batched into the last.
Absorbed(claimed) == SubSeq(claimed, 1, Len(claimed) - 1)

ClaimBatch(j) ==
  /\ j.step = "claim"
  /\ \E s \in Sortings(j.batch) :
       LET b == [i \in DOMAIN j.batch |-> j.batch[s[i]]]
           taken == SubSeq(b, 1, Used(b))
           claimed == Claimed(b)
           rest == SubSeq(b, Used(b) + 1, Len(b))
           absorbed == Absorbed(claimed)
           others == Elems(absorbed)
       IN  IF Cardinality(others) < Len(absorbed)
           THEN \* a row is batched once only: the transaction is rolled back
                End(j, <<>>, j.batch, TRUE) /\ UNCHANGED <<row, anchorOf>>
           ELSE /\ row' = [m \in Msgs |->
                             IF m \in others THEN "batched"
                             ELSE IF m \in Elems(taken) /\ Stale(m) THEN "ignored" ELSE row[m]]
                /\ anchorOf' = [m \in Msgs |->
                                  IF m \in others THEN Last(claimed) ELSE anchorOf[m]]
                /\ IF claimed = <<>>
                   THEN End(j, rest, <<>>, FALSE)
                   ELSE Replace(j, Job("prepare", claimed, rest, <<>>, FALSE))
  /\ UNCHANGED <<kind, attempts, arrived, resetAt, queue, lock, at, msg, recovery, dropped, doubled, counters>>

ClaimBatchFails(j) ==
  /\ j.step = "claim" /\ Fault
  /\ End(j, <<>>, j.batch, TRUE)
  /\ UNCHANGED <<inbox, queue, lock, at, msg, recovery, seen>>

Exhausted(m) == Started(m) /\ attempts[m] >= MaxAttempts

\* The batch ends in an error before its anchor is claimed: the policy denies
\* one of its messages, or a reset covers one that is to enter the transcript, or
\* the anchor failed for good or lost its turn to a reset.
Blocked(b) ==
  \/ Elems(b) \cap Unwanted # {}
  \/ \E i \in 1..(Len(b) - 1) : Predates(b[i])
  \/ row[Last(b)] \in {"failed", "ignored"}
  \/ row[Last(b)] = "answered" /\ Predates(Last(b))

\* processBatch up to the agent's claim of the anchor: every message is
\* authorized again, and a turn that was tried too often fails for good.
Prepare(j) ==
  /\ j.step = "prepare"
  /\ LET m == Last(j.batch)
     IN  IF Blocked(j.batch)
         THEN End(j, j.rest, <<m>>, TRUE) /\ UNCHANGED <<row, attempts>>
         ELSE IF row[m] = "answered"
         THEN End(j, j.rest, <<>>, FALSE) /\ UNCHANGED <<row, attempts>>
         ELSE IF Exhausted(m)
         THEN End(j, j.rest, <<m>>, TRUE) /\ SetRow(m, "failed") /\ UNCHANGED attempts
         ELSE /\ SetRow(m, "generating")
              /\ attempts' = [attempts EXCEPT ![m] = @ + 1]
              /\ Replace(j, [j EXCEPT !.step = "generate"])
  /\ UNCHANGED <<kind, arrived, resetAt, queue, lock, at, msg, recovery, seen, counters>>

\* The registry, the settings, the history or the claim's own write fails.
PrepareFails(j) ==
  /\ j.step = "prepare" /\ Fault
  /\ End(j, j.rest, <<Last(j.batch)>>, TRUE)
  /\ UNCHANGED <<inbox, queue, lock, at, msg, recovery, seen>>

\* Seeded fault: the plan is committed whatever became of the turn.
BadGenerate(j) ==
  /\ j.step = "generate"
  /\ SetRow(Last(j.batch), "answered")
  /\ End(j, j.rest, <<>>, FALSE)
  /\ UNCHANGED <<kind, attempts, arrived, resetAt, queue, lock, at, msg, recovery, seen, counters>>

\* The anchor enters the transcript, the model answers and the plan is committed;
\* the turn of an anchor that a reset covered before it was claimed fails for
\* good, and what a reset cancelled since then is refused and left as it is.
Generate(j) ==
  /\ j.step = "generate"
  /\ LET m == Last(j.batch)
     IN  IF row[m] = "generating" /\ ~Predates(m)
         THEN SetRow(m, "answered") /\ End(j, j.rest, <<>>, FALSE)
         ELSE /\ IF row[m] = "generating" THEN SetRow(m, "failed") ELSE UNCHANGED row
              /\ End(j, j.rest, <<m>>, TRUE)
  /\ UNCHANGED <<kind, attempts, arrived, resetAt, queue, lock, at, msg, recovery, seen, counters>>

\* The model fails, for now or for good; the note of it may fail to be written;
\* or the plan is committed and its dispatch returns an error.
GenerateFails(j) ==
  /\ j.step = "generate" /\ row[Last(j.batch)] = "generating" /\ Fault
  /\ \E s \in {"retryable", "failed", "generating", "answered"} :
       /\ s = "answered" => ~Predates(Last(j.batch))
       /\ SetRow(Last(j.batch), s)
  /\ End(j, j.rest, <<Last(j.batch)>>, TRUE)
  /\ UNCHANGED <<kind, attempts, arrived, resetAt, queue, lock, at, msg, recovery, seen>>

\* Seeded fault: a turn that ends without looking at the inbox.
BadTurnReads(left) == FALSE
TurnReads(left) == left = <<>> /\ overflow
TurnSchedules(left) == timer \/ left # <<>>

\* What goes back to the front of the queue.
Requeued(j, retry) == (IF retry THEN j.redo ELSE <<>>) \o j.rest

EndTurn(j) ==
  /\ j.step = "end"
  /\ LET retry == j.failed /\ j.redo # <<>> /\ retries < MaxRetries
         left == Requeued(j, retry) \o pending
     IN  /\ pending' = left
         /\ retries' = IF retry THEN retries + 1 ELSE 0
         /\ dropped' = IF j.failed /\ ~retry THEN dropped \cup Elems(j.redo) ELSE dropped
         /\ doubled' = doubled \cup Twice(left)
         /\ IF TurnReads(left)
            THEN overflow' = FALSE /\ Refill(jobs \ {j}) /\ UNCHANGED timer
            ELSE /\ running' = FALSE /\ jobs' = jobs \ {j}
                 /\ timer' = TurnSchedules(left)
                 /\ UNCHANGED <<overflow, refilling>>
  /\ UNCHANGED <<inbox, lock, at, msg, recovery, anchorOf, counters>>

ReadInbox(j) ==
  /\ j.step = "read"
  /\ Replace(j, NewJob("append", UnfinishedAfter(0)))
  /\ UNCHANGED <<inbox, queue, lock, at, msg, recovery, seen, counters>>

\* Every try to read failed.
ReadInboxFails(j) ==
  /\ j.step = "read" /\ Fault
  /\ Replace(j, Job("append", <<>>, <<>>, <<>>, TRUE))
  /\ UNCHANGED <<inbox, queue, lock, at, msg, recovery, seen>>

\* Seeded fault: the reader forgets the messages left behind while it read.
BadReadsAgain(full) == full /\ users = 0
\* Messages were missed, or the page was full and no command will read again.
ReadsAgain(full) == overflow \/ (full /\ users = 0)

\* The page joins the queue, except the commands in it; the reader goes on
\* while messages were missed or the page was full.
EndRefill(j) ==
  /\ j.step = "append"
  /\ LET left == pending \o Filter(j.batch, Msgs \ Commands)
         full == Len(j.batch) = MaxPending
     IN  /\ pending' = left
         /\ dropped' = IF j.failed /\ left = <<>>
                       THEN dropped \cup {m \in Msgs : row[m] \in Unfinished} ELSE dropped
         /\ IF left # <<>>
            THEN /\ overflow' = (full \/ overflow) /\ timer' = TRUE
                 /\ running' = FALSE /\ refilling' = FALSE /\ jobs' = jobs \ {j}
            ELSE IF j.failed
            THEN /\ overflow' = FALSE /\ UNCHANGED timer
                 /\ running' = FALSE /\ refilling' = FALSE /\ jobs' = jobs \ {j}
            ELSE IF ReadsAgain(full)
            THEN overflow' = full /\ Refill(jobs \ {j}) /\ UNCHANGED timer
            ELSE /\ overflow' = full /\ UNCHANGED timer
                 /\ running' = FALSE /\ refilling' = FALSE /\ jobs' = jobs \ {j}
  /\ UNCHANGED <<inbox, retries, lock, at, msg, recovery, anchorOf, doubled, counters>>

-----------------------------------------------------------------------------

\* The process dies and is started again: memory is gone, the inbox stays.
Crash ==
  /\ crashes < MaxCrashes /\ SpareTrouble /\ crashes' = crashes + 1
  /\ pending' = <<>> /\ retries' = 0
  /\ overflow' = FALSE /\ refilling' = FALSE /\ timer' = FALSE /\ running' = FALSE
  /\ users' = 0 /\ holder' = NoMsg /\ jobs' = {}
  /\ at' = [c \in Callers |-> "idle"] /\ msg' = [c \in Callers |-> NoMsg]
  /\ recovered' = FALSE /\ page' = <<>> /\ more' = TRUE /\ after' = 0
  /\ passFailed' = FALSE
  /\ dropped' = {}
  /\ UNCHANGED <<inbox, anchorOf, doubled, dups, faults>>

\* One step of a caller that got its message, and one of a background goroutine.
CallerStep(c) ==
  \/ Route(c) \/ Ignore(c) \/ Resume(c) \/ Admit(c)
  \/ Acquire(c) \/ Check(c) \/ Execute(c) \/ Close(c) \/ Release(c)
JobStep ==
  \E j \in jobs : ClaimBatch(j) \/ Prepare(j) \/ Generate(j) \/ EndTurn(j)
                  \/ ReadInbox(j) \/ EndRefill(j)
RecoverStep == RecoverList \/ RecoverNext \/ RecoverDone

Failure ==
  \/ RecoverListFails
  \/ \E c \in Callers : RouteFails(c) \/ IgnoreFails(c) \/ ResumeFails(c) \/ CommandFails(c)
  \/ \E j \in jobs : ClaimBatchFails(j) \/ PrepareFails(j) \/ GenerateFails(j)
                     \/ ReadInboxFails(j)

Next ==
  \/ \E c \in Workers, m \in Msgs : Deliver(c, m) \/ Redeliver(c, m)
  \/ \E c \in Callers : CallerStep(c)
  \/ RecoverStep \/ StartTurn \/ JobStep \/ Failure \/ Crash

Spec == Init /\ [][Next]_vars

\* Goroutines run, calls return, timers fire: the process does something as
\* long as there is something it can do.  Which of its goroutines goes on is left
\* open, so a reader that spins may keep the others waiting.
Progress == (\E c \in Callers : CallerStep(c)) \/ RecoverStep \/ StartTurn \/ JobStep
Fairness == WF_vars(Progress)
FairSpec == Spec /\ Fairness

-----------------------------------------------------------------------------
(* What must hold.                                                         *)

\* "A chat never runs two turns at once" (dispatcher.go, Dispatcher): whatever
\* the timer, the refills and the commands do, there is one background
\* goroutine, and the flags that exclude a second one say so.
SerialTurns ==
  /\ Cardinality(jobs) <= 1
  /\ running <=> jobs # {}
  /\ refilling <=> \E j \in jobs : j.step \in {"read", "append"}

\* Messages left in the inbox have a reader: the queue, or a command that is
\* still running (Release, EndTurn, EndRefill).
OverflowHasAReader ==
  overflow => running \/ timer \/ users > 0

\* A queued message has a timer or a running turn that will come back to it.
PendingWillRun == pending # <<>> => timer \/ running

\* What one chat keeps waiting in memory is bounded.
PendingBounded == Len(pending) <= MaxPending + BurstCap

\* The chat's flags agree with its goroutines, its queue and its inbox: one turn
\* at a time, and a reader, a timer or a turn for whatever waits.
QueueIsSound ==
  TypeOK /\ SerialTurns /\ OverflowHasAReader /\ PendingWillRun /\ PendingBounded

\* Somebody in this process still has the message in hand.
Held(m) ==
  \/ m \in Elems(pending) \/ m \in Elems(page)
  \/ \E c \in Callers : at[c] # "idle" /\ msg[c] = m
  \/ \E j \in jobs :
       m \in Elems(j.batch) \cup Elems(j.rest) \cup (IF j.failed THEN Elems(j.redo) ELSE {})
\* Recover has yet to list it.
ToRecover(m) ==
  ~recovered /\ (passFailed \/ (more /\ Arrival(m) > after))
\* The inbox will be read again, or was just found unreadable.
ToReadBack ==
  \/ overflow
  \/ \E j \in jobs :
       \/ j.step = "read"
       \/ j.step = "append" /\ (j.failed \/ Len(j.batch) = MaxPending)

\* An accepted message that still needs a reply is never forgotten: it is in
\* somebody's hands, or waits in an inbox that will be read, or was given up
\* with an error (admitAI, startTurn, refill, Recover).
NoMessageLost ==
  \A m \in Wanted :
    row[m] \in Unfinished =>
      Held(m) \/ ToRecover(m) \/ ToReadBack \/ m \in dropped

\* "Once claimed, only the anchor still needs a reply; the rest of its batch is
\* recorded as part of it" (runTurn): whoever is batched has a later anchor
\* that is itself answered, failed, still to be answered, batched into a later
\* one, or ignored because of a reset or because the policy does not want it.
\* Only a message that waited twice in the queue may be its own anchor.
BatchedHasAnAnchor ==
  \A m \in Msgs : row[m] = "batched" =>
    LET anchor == anchorOf[m]
    IN  \/ anchor = m /\ m \in doubled
        \/ /\ Arrival(anchor) > Arrival(m)
           /\ \/ row[anchor] \in Unfinished \cup {"answered", "failed", "batched"}
              \/ /\ row[anchor] = "ignored"
                 /\ anchor \in Unwanted \/ Arrival(anchor) <= resetAt

\* What OneReply calls the state of a row.
FateOf(state) ==
  CASE state = "absent" -> "unheard"
    [] state = "received" -> "waiting"
    [] state \in {"generating", "retryable"} -> "underway"
    [] state = "batched" -> "joined"
    [] state = "ignored" -> "discarded"
    [] OTHER -> state
Fate(m) == IF m \in Commands THEN "unheard" ELSE FateOf(row[m])
Promise == INSTANCE OneReply WITH
  Nobody <- NoMsg,
  fate <- [m \in Msgs |-> Fate(m)],
  answerer <- anchorOf

\* The chat keeps the promise of OneReply: whatever is repeated, retried, read
\* back or started again, an AI message has one turn of its own or is answered as
\* a part of another's, and is never taken up again after either (ClaimBatch,
\* processBatch, the agent's claim of the anchor).  A reset may cancel its turn at
\* any step; what was cancelled stays so (ResetIfConfigVersion, CommitPlan).
EachAnsweredOnce == Promise!Spec

\* Messages are taken up in the order they arrived, also across an overflow
\* (admitAI: "so the refill reads them back in arrival order").  After a restart
\* a new message does not wait for the ones Recover has yet to list.
TakenInOrder ==
  crashes = 0 => \A i, j \in DOMAIN arrived :
    (/\ i < j /\ {arrived[i], arrived[j]} \subseteq Wanted
     /\ row[arrived[i]] = "received" /\ arrived[i] \notin dropped
     /\ arrived[i] \notin UNION {Elems(k.batch) : k \in jobs})
    => row[arrived[j]] \in {"received", "ignored"}

\* Every message the policy wants is answered, unless it fails for good, is
\* discarded by a reset or is given up with an error.  A command or an unwanted
\* message that stays unfinished, because its caller failed, is excluded: with a
\* page full of them the reader never gets past that page (EndRefill).
Unsettled == {m \in Wanted : row[m] \in Unfinished /\ m \notin dropped}
EventuallySettled ==
  Unsettled # {} ~>
    \/ Unsettled = {}
    \/ \E m \in Msgs \ Wanted : row[m] \in Unfinished
=============================================================================
