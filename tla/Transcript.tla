---------------------------- MODULE Transcript ----------------------------
(***************************************************************************)
(* The transcript of one chat: who writes it, and what a turn is shown.    *)
(*                                                                         *)
(* Messages are recorded as they are claimed, on any goroutine; one turn   *)
(* at a time takes a batch, authorizes it, claims its last message (the    *)
(* anchor), lists the transcript through the anchor, has an answer made    *)
(* and commits it; a /reset command runs beside the turn, and its request  *)
(* reads the clock before its transaction starts.  An answer is sent when  *)
(* the account is connected, which may be long after its turn is over      *)
(* (Outbox has the sending itself, ChatQueue the choice of the batch).     *)
(*                                                                         *)
(* A transcript entry is a message or task, or the bot's answer to one;    *)
(* its sequence is its place in log.  Times are milliseconds of one clock. *)
(***************************************************************************)
EXTENDS Integers, Sequences, FiniteSets, SequencesExt

CONSTANTS
  Users,          \* messages that may ask for an answer
  Resets,         \* /reset commands
  Tasks,          \* scheduled tasks that fire
  Manual,         \* messages sent from the application's own window
  HistoryWindow,  \* entries of one page (Agent.historyWindow)
  MaxShown,       \* entries that fit the context (maxBytes, in entries)
  MaxTime,        \* bound: the clock
  MaxVersions,     \* bound: versions of the chat's configuration
  MaxFaults       \* bound: crashes and failed generations

ASSUME BoundsArePositive ==
  /\ {HistoryWindow, MaxShown} \subseteq Nat \ {0}
  /\ {MaxTime, MaxVersions, MaxFaults} \subseteq Nat

\* A message is a command or is not, and comes from outside or from the window.
ASSUME KindsAreDisjoint ==
  /\ Users \intersect Resets = {}
  /\ Tasks \intersect (Users \union Resets) = {}
  /\ Manual \intersect (Users \union Resets \union Tasks) = {}

Messages == Users \union Resets
Everything == Messages \union Tasks \union Manual

VARIABLES
  now,
  version,   \* agent_configs.version
  log,       \* history_entries, in the order of their sequence
  cutoff,    \* history_resets.cutoff_sequence
  resetAt,   \* history_resets.reset_at_ms, -1 without a row
  state,     \* inbound_events.turn_state, or how far before a row something is
  received,  \* received_at_ms
  turn,      \* the turn under way
  reset,     \* the /reset under way
  faults

history == <<log, cutoff, resetAt>>
inbox == <<state, received>>
transcriptVars == <<now, version, history, inbox, turn, reset, faults>>

NoTurn == [step |-> "idle", batch |-> {}]
NoReset == [step |-> "idle"]

Unfinished == {"waiting", "generating", "retryable"}
Asked(m) == [of |-> m, role |-> "user"]
Answer(m, status) == [of |-> m, role |-> "bot", status |-> status]
IsAnswer(entry) == entry.role = "bot"
Sent(entry) == ~IsAnswer(entry) \/ entry.status = "succeeded"

Sequence(m) == SelectInSeq(log, LAMBDA entry : entry = Asked(m))
Predates(m) == received[m] <= resetAt

RecordAgain(entry) == Append(log, entry)

\* Recording an entry again changes nothing.
Record(entry) == IF entry \in ToSet(log) THEN log ELSE Append(log, entry)

Fault == faults < MaxFaults /\ faults' = faults + 1

\* What is absent never comes; version and faults may have used up their bounds.
TranscriptInit ==
  /\ now = 0 /\ version \in 1 .. MaxVersions /\ log = <<>> /\ cutoff = 0 /\ resetAt = -1
  /\ state \in [Everything -> {"new", "absent"}]
  /\ received = [m \in Everything |-> 0]
  /\ turn = NoTurn /\ reset = NoReset /\ faults \in 0 .. MaxFaults

Tick == now < MaxTime /\ now' = now + 1 /\ UNCHANGED <<version, history, inbox, turn, reset, faults>>

ChangeConfig ==
  /\ version < MaxVersions /\ version' = version + 1
  /\ UNCHANGED <<now, history, inbox, turn, reset, faults>>

-----------------------------------------------------------------------------
(* Recording.                                                               *)

Receive(m) ==
  /\ state[m] = "new"
  /\ state' = [state EXCEPT ![m] = "received"]
  /\ received' = [received EXCEPT ![m] = now]
  /\ UNCHANGED <<now, version, history, turn, reset, faults>>

\* The row and its entry are one transaction; a message received before the
\* latest reset gets a row only.
ClaimAndResolveSender(m) ==
  /\ state[m] = "received"
  /\ state' = [state EXCEPT ![m] = "waiting"]
  /\ log' = IF Predates(m) THEN log ELSE Record(Asked(m))
  /\ UNCHANGED <<now, version, cutoff, resetAt, received, turn, reset, faults>>

\* The queue finds nothing to answer in it.
MarkIgnored(m) ==
  /\ state[m] = "waiting"
  /\ m \in Users \ turn.batch
  /\ state' = [state EXCEPT ![m] = "ignored"]
  /\ UNCHANGED <<now, version, history, received, turn, reset, faults>>

SendChatMessage(m) ==
  /\ state[m] = "new" /\ state' = [state EXCEPT ![m] = "sent"]
  /\ UNCHANGED <<now, version, history, received, turn, reset, faults>>

RecordManualAssistantMessage(m) ==
  /\ state[m] = "sent" /\ state' = [state EXCEPT ![m] = "succeeded"]
  /\ log' = Record(Answer(m, "succeeded"))
  /\ UNCHANGED <<now, version, cutoff, resetAt, received, turn, reset, faults>>

-----------------------------------------------------------------------------
(* One turn.  A step that fails ends it.                                    *)

EndTurn == turn' = NoTurn

\* The turn row of the anchor, unless a reset has taken it away.
FailGeneration(how) ==
  state' = [state EXCEPT ![turn.anchor] = IF @ = "generating" THEN how ELSE @]

\* A claimed message is taken alone; fresh ones from before the latest reset are
\* dropped and the others are answered with the last of them.  Rows keep the
\* order in which messages were recorded, and so do their entries.
ClaimBatch(batch) ==
  LET live == IF \A m \in batch : state[m] = "waiting"
              THEN {m \in batch : ~Predates(m)} ELSE batch
      last == CHOOSE m \in live : \A other \in live : Sequence(other) <= Sequence(m)
  IN /\ turn.step = "idle"
     /\ \/ \A m \in batch : state[m] = "waiting"
        \/ \E m \in batch : batch = {m} /\ state[m] \in Unfinished
     /\ state' = [m \in Everything |->
                    IF m \notin batch THEN state[m]
                    ELSE IF m \notin live THEN "ignored"
                    ELSE IF m # last THEN "batched" ELSE state[m]]
     /\ turn' = IF live = {} THEN NoTurn
                ELSE [step |-> "batched", batch |-> live, anchor |-> last]
     /\ UNCHANGED <<now, version, history, received, reset, faults>>

\* The configuration the batch is authorized with, and the check that none of
\* its earlier messages was reset since: its entries exist already.
ProcessBatch ==
  /\ turn.step = "batched"
  /\ IF \E m \in turn.batch \ {turn.anchor} : Predates(m)
     THEN EndTurn
     ELSE turn' = [step |-> "authorized", batch |-> turn.batch,
                   anchor |-> turn.anchor, v |-> version]
  /\ UNCHANGED <<now, version, history, inbox, reset, faults>>

RunTask(t) ==
  /\ turn.step = "idle" /\ state[t] \in {"new", "generating", "retryable"}
  /\ turn' = [step |-> "authorized", batch |-> {t}, anchor |-> t, v |-> version]
  /\ UNCHANGED <<now, version, history, inbox, reset, faults>>

\* A task's row is inserted with its claim.
Claim ==
  LET m == turn.anchor IN
  /\ turn.step = "authorized"
  /\ \/ /\ state[m] \in Unfinished \union {"new"}
        /\ state' = [state EXCEPT ![m] = "generating"]
        /\ received' = IF state[m] = "new" THEN [received EXCEPT ![m] = now] ELSE received
        /\ turn' = [turn EXCEPT !.step = "claimed"]
     \/ state[m] \notin Unfinished \union {"new"} /\ EndTurn /\ UNCHANGED inbox
  /\ UNCHANGED <<now, version, history, reset, faults>>

BadAppendAnchor ==
  /\ turn.step = "claimed"
  /\ \/ resetAt # -1 /\ FailGeneration("failed") /\ EndTurn /\ UNCHANGED log
     \/ /\ resetAt = -1
        /\ log' = Record(Asked(turn.anchor))
        /\ turn' = [turn EXCEPT !.step = "appended"]
        /\ UNCHANGED state
  /\ UNCHANGED <<now, version, cutoff, resetAt, received, reset, faults>>

AppendAnchor ==
  /\ turn.step = "claimed"
  /\ \/ /\ Predates(turn.anchor)
        /\ FailGeneration("failed") /\ EndTurn /\ UNCHANGED log
     \/ /\ ~Predates(turn.anchor)
        /\ log' = Record(Asked(turn.anchor))
        /\ turn' = [turn EXCEPT !.step = "appended"]
        /\ UNCHANGED state
  /\ UNCHANGED <<now, version, cutoff, resetAt, received, reset, faults>>

Bound(s, n) == SubSeq(s, 1, IF Len(s) < n THEN Len(s) ELSE n)
Newest(s, n) == SubSeq(s, IF Len(s) < n THEN 1 ELSE Len(s) - n + 1, Len(s))

BadPlaceReply(entries, reply) == Append(entries, reply)

\* A late answer goes right after the message it answers, if that is shown.
PlaceReply(entries, reply) ==
  LET at == SelectLastInSeq(entries, LAMBDA entry : entry.of = reply.of)
  IN IF at = 0 THEN entries ELSE InsertAt(entries, at + 1, reply)

PlaceReplies(entries, late) ==
  LET placed[n \in 0 .. Len(late)] ==
        IF n = 0 THEN entries ELSE PlaceReply(placed[n - 1], late[n])
  IN placed[Len(late)]

\* The entries of a sequence that are in a set, in their order.
Filter(entries, Kept) ==
  LET kept[n \in 0 .. Len(entries)] ==
        IF n = 0 THEN <<>>
        ELSE IF entries[n] \in Kept THEN Append(kept[n - 1], entries[n])
        ELSE kept[n - 1]
  IN kept[Len(entries)]

\* Answers recorded after the entry of the anchor, to messages from before it.
LateReplies(through) ==
  Filter(SubSeq(log, through + 1, Len(log)),
         {entry \in ToSet(log) : /\ IsAnswer(entry) /\ entry.of # log[through].of
                                 /\ Sequence(entry.of) \in cutoff + 1 .. through})

\* The newest entries since the latest reset up to the anchor's, and the
\* answers to them that were recorded after it.
List(through) ==
  PlaceReplies(Newest(SubSeq(log, cutoff + 1, through), HistoryWindow),
               Bound(LateReplies(through), HistoryWindow))

\* The oldest invocation leaves a context that is too long.
DropOldest(entries) ==
  IF Len(entries) <= MaxShown \/ Len(entries) = 1 THEN entries
  ELSE Filter(entries, {entry \in ToSet(entries) : entry.of # Head(entries).of})

Fit(entries) ==
  LET left[n \in 0 .. Len(entries)] ==
        IF n = 0 THEN entries ELSE DropOldest(left[n - 1])
  IN left[Len(entries)]

Build(entries) == Fit(Filter(entries, {entry \in ToSet(entries) : Sent(entry)}))

Prompt ==
  LET m == turn.anchor
      entries == List(Sequence(m))
  IN /\ turn.step = "appended"
     /\ \/ /\ turn.v # version \/ Sequence(m) <= cutoff
           /\ FailGeneration("failed") /\ EndTurn
        \/ /\ turn.v = version /\ Sequence(m) > cutoff
           /\ turn' = [step |-> "prompted", batch |-> turn.batch,
                       anchor |-> turn.anchor, shown |-> Build(entries)]
           /\ UNCHANGED state
     /\ UNCHANGED <<now, version, history, received, reset, faults>>

GenerationFails ==
  /\ turn.step = "prompted" /\ Fault
  /\ \E how \in {"retryable", "failed"} : FailGeneration(how)
  /\ EndTurn
  /\ UNCHANGED <<now, version, history, received, reset>>

\* A plan of effects alone has no answer to record.
CommitPlan(text) ==
  /\ turn.step = "prompted"
  /\ \/ state[turn.anchor] # "generating" /\ EndTurn /\ UNCHANGED <<state, log>>
     \/ /\ state[turn.anchor] = "generating"
        /\ state' = [state EXCEPT ![turn.anchor] = IF text THEN "planned" ELSE "succeeded"]
        /\ log' = IF text THEN Record(Answer(turn.anchor, "pending")) ELSE log
        /\ turn' = [step |-> "sending", batch |-> turn.batch, anchor |-> turn.anchor]
  /\ UNCHANGED <<now, version, cutoff, resetAt, received, reset, faults>>

\* The dispatcher returns: the answer has an outcome, or has to wait.
DispatchPlan ==
  /\ turn.step = "sending" /\ EndTurn
  /\ UNCHANGED <<now, version, history, inbox, reset, faults>>

\* An answer that was planned gets its outcome, and its entry with it.  An unknown
\* outcome is shown to nobody, as a failed one is.
FinishAction(m, outcome) ==
  /\ state[m] = "planned"
  /\ state' = [state EXCEPT ![m] = outcome]
  /\ log' = [i \in DOMAIN log |->
              IF IsAnswer(log[i]) /\ log[i].of = m THEN Answer(m, outcome) ELSE log[i]]
  /\ UNCHANGED <<now, version, cutoff, resetAt, received, turn, reset, faults>>

-----------------------------------------------------------------------------
(* A reset, beside the turn.                                                *)

BeginReset(c) ==
  /\ reset.step = "idle" /\ state[c] = "waiting"
  /\ reset' = [step |-> "authorized", of |-> c, v |-> version]
  /\ UNCHANGED <<now, version, history, inbox, turn, faults>>

ReadClock ==
  /\ reset.step = "authorized"
  /\ reset' = [step |-> "clocked", of |-> reset.of, v |-> reset.v, at |-> now]
  /\ UNCHANGED <<now, version, history, inbox, turn, faults>>

BadResetIfConfigVersion ==
  /\ reset.step = "clocked"
  /\ reset' = [reset EXCEPT !.step = "replying"]
  /\ \/ version # reset.v /\ UNCHANGED <<cutoff, resetAt>>
     \/ version = reset.v /\ cutoff' = Len(log) /\ resetAt' = reset.at
  /\ UNCHANGED <<now, version, log, state, received, turn, faults>>

\* The turns under way that have no answer planned are taken away; what is still
\* waiting, this command among it, is left for ClaimBatch to drop.
ResetIfConfigVersion ==
  /\ reset.step = "clocked"
  /\ reset' = [reset EXCEPT !.step = "replying"]
  /\ \/ version # reset.v /\ UNCHANGED <<cutoff, resetAt, state>>
     \/ /\ version = reset.v
        /\ cutoff' = Len(log)
        /\ resetAt' = IF reset.at > resetAt THEN reset.at ELSE resetAt
        /\ state' = [m \in Everything |->
                       IF state[m] \in {"generating", "retryable"} /\ received[m] <= resetAt'
                       THEN "ignored" ELSE state[m]]
  /\ UNCHANGED <<now, version, log, received, turn, faults>>

PlanCommandResponse ==
  /\ reset.step = "replying" /\ reset' = NoReset
  /\ state' = [state EXCEPT ![reset.of] = "planned"]
  /\ log' = Record(Answer(reset.of, "pending"))
  /\ UNCHANGED <<now, version, cutoff, resetAt, received, turn, faults>>

-----------------------------------------------------------------------------
(* The process dies; what was received and not recorded is received again.  *)

Crash ==
  /\ Fault /\ turn' = NoTurn /\ reset' = NoReset
  /\ state' = [m \in Everything |->
                 CASE state[m] = "received" -> "new" [] state[m] = "sent" -> "lost"
                   [] OTHER -> state[m]]
  /\ UNCHANGED <<now, version, history, received>>

TranscriptNext ==
  \/ Tick
  \/ ChangeConfig
  \/ \E m \in Messages :
       \/ Receive(m)
       \/ ClaimAndResolveSender(m)
       \/ MarkIgnored(m)
  \/ \E m \in Manual : SendChatMessage(m) \/ RecordManualAssistantMessage(m)
  \/ \E batch \in SUBSET Users \ {{}} : ClaimBatch(batch)
  \/ ProcessBatch
  \/ \E t \in Tasks : RunTask(t)
  \/ Claim
  \/ AppendAnchor
  \/ Prompt
  \/ GenerationFails
  \/ \E text \in BOOLEAN : CommitPlan(text)
  \/ DispatchPlan
  \/ \E m \in Everything, outcome \in {"succeeded", "failed"} :
       FinishAction(m, outcome)
  \/ \E c \in Resets : BeginReset(c)
  \/ ReadClock
  \/ ResetIfConfigVersion
  \/ PlanCommandResponse
  \/ Crash

TranscriptSpec == TranscriptInit /\ [][TranscriptNext]_transcriptVars

-----------------------------------------------------------------------------
(* Properties.                                                              *)

\* The tables keep to their values: an entry is recorded once, an answer after
\* its message, the cutoff is a sequence that was given out, and a turn that is
\* past its claim has a row.
TranscriptTypeOK ==
  /\ now \in 0 .. MaxTime /\ version \in 1 .. MaxVersions /\ faults \in 0 .. MaxFaults
  /\ cutoff \in 0 .. Len(log) /\ resetAt \in -1 .. now
  /\ received \in [Everything -> 0 .. now]
  /\ \A i, j \in DOMAIN log :
       log[i].of = log[j].of /\ i < j => ~IsAnswer(log[i]) /\ IsAnswer(log[j])
  /\ turn.step \in {"appended", "prompted"} =>
       /\ Sequence(turn.anchor) > 0
       /\ state[turn.anchor] \in {"generating", "ignored"}

Prompted == turn.step = "appended" /\ turn'.step = "prompted"
Committed == turn.step = "prompted" /\ turn'.step = "sending"

\* What a turn is shown ends with the message it answers, once, and shows the
\* answer of every message that has been answered, after that message: the
\* model would otherwise answer it again.  More late answers than the window
\* holds are cut to its size, the latest first, and with them the answer of a
\* message that is shown.  (history.go, list and placeLateReplies; context.go,
\* Build.)
AnswersAreShown ==
  [][Prompted =>
       LET shown == turn'.shown IN
       /\ SelectInSeq(shown, LAMBDA entry : entry.of = turn.anchor) = Len(shown)
       /\ Len(LateReplies(Sequence(turn.anchor))) <= HistoryWindow =>
            \A i \in DOMAIN shown, k \in DOMAIN log :
              /\ ~IsAnswer(shown[i]) /\ IsAnswer(log[k])
              /\ log[k].of = shown[i].of /\ log[k].status = "succeeded"
              => \E j \in i + 1 .. Len(shown) : shown[j] = log[k]]_transcriptVars

\* Nobody's words from before a reset come back: no later context has a message
\* received before it, and no answer to one is committed after it, whatever step
\* the reset met the message or its turn at.  (history.go, ResetIfConfigVersion,
\* Append and shouldRecordInboundHistory; turn.go, CommitPlan.)
ResetIsFinal ==
  [][/\ Prompted => \A i \in DOMAIN turn'.shown :
          LET entry == turn'.shown[i] IN ~IsAnswer(entry) => ~Predates(entry.of)
     /\ Committed => ~Predates(turn.anchor)]_transcriptVars

\* A turn is given up before its model is called only if a reset or a change of
\* the configuration overtook it.  (agent.go, invoke; a change between the
\* authorization and the listing is enough, and is final for the message.)
GivenUpForAReason ==
  [][\A m \in Users \union Tasks :
       state[m] = "generating" /\ state'[m] = "failed" /\ turn.step # "prompted"
       => turn.v # version \/ Predates(m) \/ Sequence(m) <= cutoff]_transcriptVars

=============================================================================
