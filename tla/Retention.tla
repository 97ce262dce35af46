----------------------------- MODULE Retention -----------------------------
(***************************************************************************)
(* What is kept of one chat, for how long, and what leans on it.           *)
(*                                                                         *)
(* A message leaves an inbox row (dedup key, WhatsApp identifier, reset    *)
(* time), the mentions in its text, and its entry in the transcript.  The  *)
(* bot's answer has its reply row, removed with the inbox row, and an      *)
(* entry of its own; a message typed in the application's window has an    *)
(* entry that carries its WhatsApp identifier; a sticker has a row only.   *)
(* Maintenance removes each kind by its own rule and clock, while quotes,  *)
(* replies, reactions and deletions made days later still refer to them.   *)
(*                                                                         *)
(* Times are days of one clock.  A message occurs when it is received, and *)
(* every message mentions somebody.  Transcript has the order of entries,  *)
(* Outbox the sending, in the detail left out here.                        *)
(***************************************************************************)
EXTENDS Integers, Sequences, FiniteSets, SequencesExt, FiniteSetsExt

CONSTANTS
  Incoming,    \* messages of people
  Manual,      \* messages typed in the application's window
  Stickers,    \* stickers the bot sends
  Effects,     \* deletions and reactions
  RetainAge,   \* age at which a finished row goes (Worker.retainAge)
  HistoryAge,  \* age at which an entry may go (RetentionPolicy.MaxAge)
  KeepLatest,  \* entries that stay whatever their age
  BatchSize,   \* rows of one kind removed by one maintenance
  MaxTime      \* bound: the clock

ASSUME RetentionIsBounded ==
  {RetainAge, HistoryAge, KeepLatest, BatchSize, MaxTime} \subseteq Nat \ {0}

ASSUME KindsAreApart ==
  Incoming \intersect Manual = {} /\ Stickers \intersect (Incoming \union Manual) = {}

User(m) == [by |-> "user", of |-> m]
Bot(m) == [by |-> "bot", of |-> m]
Recorded == {User(m) : m \in Incoming} \union {Bot(m) : m \in Incoming \union Manual}
Messages == Recorded \union {Bot(s) : s \in Stickers}

VARIABLES
  now,
  state,     \* inbound_events.turn_state; "new" before the row, "gone" after it
  updated,   \* inbound_events.updated_at_ms
  at,        \* when a message was received, committed or sent
  log,       \* every history entry, in the order of its sequence
  kept,      \* the entries still there
  quote,     \* the quote stored with an entry
  delivery,  \* delivery_status, of an answer also the state of its reply row
  bindings,  \* messages with their rows in message_mentions
  stickers,  \* sent_stickers
  effects,   \* typed_effects
  cutoff, resetAt,  \* history_resets; 0 and -1 without a row
  turn,      \* the turn under way and the entries it was shown
  manual,    \* the window's message under way
  revoked    \* ghost: messages whose deletion is recorded as done

transcript == <<log, kept, quote, delivery, bindings>>
inbox == <<state, updated>>
resets == <<cutoff, resetAt>>
retentionVars == <<now, inbox, at, transcript, stickers, effects, resets, turn, manual, revoked>>

Nobody == [by |-> "none", of |-> "none"]
NoQuote == [of |-> Nobody, text |-> "none"]
NoEffect == [step |-> "none"]
AtRest == [step |-> "idle"]

Sequence(x) == SelectInSeq(log, LAMBDA entry : entry = x)
Visible(x) == x \in kept /\ Sequence(x) > cutoff
HasRow(m) == state[m] \notin {"new", "gone"}
Predates(m) == at[User(m)] <= resetAt
Sent(x) == x.by = "user" \/ delivery[x.of] = "sent"

IsMessageDeleted(x) ==
  \E e \in Effects : /\ effects[e].step = "succeeded"
                     /\ effects[e].kind = "delete" /\ effects[e].target = x

\* The mentions an entry is loaded with: of its own text, and of a text quoted.
ContentMentions(x) == IF x.by = "user" THEN {x.of} \intersect bindings ELSE {}
QuotedMentions(q) ==
  IF q.text = "shown" /\ q.of.by = "user" THEN {q.of.of} \intersect bindings ELSE {}

\* The page the window shows.
ListBotMessages ==
  {[of |-> x, deleted |-> IsMessageDeleted(x), mentions |-> ContentMentions(x),
    quote |-> quote[x], quoted |-> QuotedMentions(quote[x])] : x \in {y \in kept : Visible(y)}}

\* What never comes is as good as gone.
RetentionInit ==
  /\ now = 0
  /\ state \in [Incoming -> {"new", "gone"}] /\ updated = [m \in Incoming |-> 0]
  /\ at \in {a \in [Messages -> {0, 1}] : \A x \in Recorded : a[x] = 0}
  /\ log = <<>> /\ kept = {} /\ quote = [x \in Recorded |-> NoQuote]
  /\ delivery \in {d \in [Incoming \union Manual -> {"none", "unsent"}] :
                      \A m \in Incoming : d[m] = "none"}
  /\ bindings = {} /\ stickers = {}
  /\ effects \in [Effects -> {NoEffect, [step |-> "gone"]}]
  /\ cutoff = 0 /\ resetAt = -1
  /\ turn = AtRest /\ manual = AtRest /\ revoked = {}

Tick ==
  /\ now < MaxTime /\ now' = now + 1
  /\ UNCHANGED <<inbox, at, transcript, stickers, effects, resets, turn, manual, revoked>>

Move(m, to) ==
  /\ state' = [state EXCEPT ![m] = to]
  /\ updated' = [updated EXCEPT ![m] = now]

-----------------------------------------------------------------------------
(* What an identifier still leads to.                                       *)

\* mutant: the text is quoted whenever the message was received
BadResolveQuoted(x) ==
  LET found == [of |-> x, text |-> "shown"]
  IN IF x.of \in Stickers
     THEN IF x.of \in stickers THEN found ELSE NoQuote
     ELSE IF x.of \in Incoming /\ HasRow(x.of) /\ Sent(x) THEN found ELSE NoQuote

\* The quote stored with a message that WhatsApp says quotes x: found through
\* the reply row, the sticker row or the inbox row, its text withheld when it
\* is from before the latest reset.  Messages of the window are not looked up.
ResolveQuoted(x) ==
  LET snapshot(old) == [of |-> x, text |-> IF old THEN "withheld" ELSE "shown"]
  IN IF x.of \in Stickers
     THEN IF x.of \in stickers THEN snapshot(at[x] <= resetAt) ELSE NoQuote
     ELSE IF x.of \in Incoming /\ HasRow(x.of) /\ Sent(x)
          THEN snapshot(Predates(x.of)) ELSE NoQuote

\* Whether WhatsApp's identifier of x is known: what a reply, a reaction and a
\* deletion need.
ResolveMessageTarget(x) ==
  \/ x.of \in Incoming /\ HasRow(x.of) /\ Sent(x)
  \/ x.of \in Manual /\ x \in kept

\* A reply may quote a visible message that was sent ...
ResolveHistoryQuote(x) == Visible(x) /\ Sent(x)

\* ... and is sent only when that one is still known to WhatsApp.
CanQuote(q) == q # NoQuote => ResolveMessageTarget(q.of)

-----------------------------------------------------------------------------
(* Messages and turns.                                                      *)

\* WhatsApp has a message once it was received or sent.
OnWhatsApp(x) ==
  IF x.by = "user" THEN state[x.of] # "new"
  ELSE IF x.of \in Stickers THEN at[x] > 0 ELSE delivery[x.of] = "sent"

\* A message quotes one on WhatsApp, or none.  Row, mentions and entry are one
\* transaction; what a reset came after gets no entry and no turn.
ClaimAndResolveSender(m) ==
  /\ state[m] = "new"
  /\ \E found \in {NoQuote} \union {ResolveQuoted(x) : x \in {y \in Messages : OnWhatsApp(y)}} :
       quote' = [quote EXCEPT ![User(m)] = found]
  /\ at' = [at EXCEPT ![User(m)] = now]
  /\ Move(m, IF now > resetAt THEN "waiting" ELSE "done")
  /\ bindings' = bindings \union {m}
  /\ IF now > resetAt
     THEN log' = Append(log, User(m)) /\ kept' = kept \union {User(m)}
     ELSE UNCHANGED <<log, kept>>
  /\ UNCHANGED <<now, delivery, stickers, effects, resets, turn, manual, revoked>>

\* The queue ignores it, or answers another with it.
MarkHandled(m) ==
  /\ state[m] = "waiting" /\ Move(m, "done")
  /\ UNCHANGED <<now, at, transcript, stickers, effects, resets, turn, manual, revoked>>

\* The entries the model may name.
ContextMessages == {x \in kept : Visible(x)}

\* The turn is shown the transcript; one whose commit failed is taken up again.
Generate(m) ==
  /\ turn = AtRest
  /\ state[m] \in {"waiting", "generating"} /\ ~Predates(m)
  /\ Move(m, "generating")
  /\ turn' = [step |-> "generating", of |-> m, seen |-> ContextMessages]
  /\ UNCHANGED <<now, at, transcript, stickers, effects, resets, manual, revoked>>

NewEffect(kind, target, m) ==
  [step |-> "pending", kind |-> kind, target |-> target, turn |-> m, at |-> now]

\* An answer, or none when there is an effect.  The model names entries it was
\* shown; the transaction looks for them again, and fails as a whole, leaving
\* the turn generating, when one of them is gone.
CommitPlan ==
  LET m == turn.of IN
  /\ turn # AtRest
  /\ \E reply \in {NoQuote} \union {[of |-> x, text |-> "shown"] : x \in turn.seen},
        text \in BOOLEAN,
        planned \in SUBSET {e \in Effects : effects[e] = NoEffect},
        kind \in {"delete", "react"}, target \in turn.seen :
       /\ Cardinality(planned) <= 1
       /\ text \/ (planned # {} /\ reply = NoQuote)
       /\ IF /\ state[m] = "generating"
             /\ reply # NoQuote => ResolveHistoryQuote(reply.of)
             /\ planned # {} => target \in kept
          THEN /\ effects' = [e \in Effects |->
                                IF e \in planned THEN NewEffect(kind, target, m) ELSE effects[e]]
               /\ Move(m, IF text THEN "planned" ELSE "done")
               /\ IF text
                  THEN /\ log' = Append(log, Bot(m)) /\ kept' = kept \union {Bot(m)}
                       /\ quote' = [quote EXCEPT ![Bot(m)] = reply]
                       /\ delivery' = [delivery EXCEPT ![m] = "pending"]
                       /\ at' = [at EXCEPT ![Bot(m)] = now]
                  ELSE UNCHANGED <<log, kept, quote, delivery, at>>
          ELSE UNCHANGED <<effects, inbox, at, log, kept, quote, delivery>>
  /\ turn' = AtRest
  /\ UNCHANGED <<now, bindings, stickers, resets, manual, revoked>>

\* The message it replies to is looked up as the answer is sent; without it
\* the answer is not sent.
SendText(m) ==
  /\ state[m] = "planned"
  /\ \E how \in {"sent", "unsent"} :
       /\ how = "sent" => CanQuote(quote[Bot(m)])
       /\ delivery' = [delivery EXCEPT ![m] = how]
  /\ Move(m, "done")
  /\ UNCHANGED <<now, at, log, kept, quote, bindings, stickers, effects, resets, turn, manual, revoked>>

-----------------------------------------------------------------------------
(* Effects, the application's window, the reset command.                    *)

\* A model's effect waits for its answer, or for the commit of a turn without.
ResponseDelivered(m) == HasRow(m) /\ state[m] = "done" /\ delivery[m] \in {"none", "sent"}

ExecuteEffect(e) ==
  LET plan == effects[e] IN
  /\ plan.step = "pending"
  /\ plan.turn \in Incoming => ResponseDelivered(plan.turn)
  /\ \E how \in {"succeeded", "failed"} :
       /\ how = "succeeded" => ResolveMessageTarget(plan.target)
       /\ effects' = [effects EXCEPT ![e].step = how, ![e].at = now]
       /\ revoked' = IF how = "succeeded" /\ plan.kind = "delete"
                     THEN revoked \union {plan.target} ELSE revoked
  /\ UNCHANGED <<now, inbox, at, transcript, stickers, resets, turn, manual>>

DeleteChatMessage(e) ==
  /\ effects[e] = NoEffect
  /\ \E x \in kept :
       /\ Visible(x) /\ Sent(x) /\ ~IsMessageDeleted(x)
       /\ effects' = [effects EXCEPT ![e] = NewEffect("delete", x, "none")]
  /\ UNCHANGED <<now, inbox, at, transcript, stickers, resets, turn, manual, revoked>>

\* The quote is read before the message is sent ...
ManualReplyContext(h) ==
  /\ manual = AtRest /\ at[Bot(h)] = 0 /\ delivery[h] = "none"
  /\ \E found \in {NoQuote} \union
         {[of |-> x, text |-> IF IsMessageDeleted(x) THEN "deleted" ELSE "shown"] :
            x \in {y \in kept : Visible(y) /\ Sent(y)}} :
       manual' = [step |-> "quoted", of |-> h, quote |-> found, mentions |-> QuotedMentions(found)]
  /\ UNCHANGED <<now, inbox, at, transcript, stickers, effects, resets, turn, revoked>>

\* ... which needs its target, as an answer does ...
SendChatMessage ==
  /\ manual.step = "quoted"
  /\ \/ /\ CanQuote(manual.quote)
        /\ manual' = [manual EXCEPT !.step = "sent"]
        /\ delivery' = [delivery EXCEPT ![manual.of] = "sent"]
     \/ manual' = AtRest /\ delivery' = [delivery EXCEPT ![manual.of] = "unsent"]
  /\ UNCHANGED <<now, inbox, at, log, kept, quote, bindings, stickers, effects, resets, turn, revoked>>

\* ... and recorded after it, unless the quote's mentions are no longer stored.
RecordManualAssistantMessage ==
  LET entry == Bot(manual.of)
  IN /\ manual.step = "sent"
     /\ IF manual.mentions \subseteq bindings
        THEN /\ at' = [at EXCEPT ![entry] = now]
             /\ log' = Append(log, entry) /\ kept' = kept \union {entry}
             /\ quote' = [quote EXCEPT ![entry] = manual.quote]
        ELSE UNCHANGED <<at, log, kept, quote>>
     /\ manual' = AtRest
     /\ UNCHANGED <<now, inbox, delivery, bindings, stickers, effects, resets, turn, revoked>>

RecordSentSticker(s) ==
  /\ at[Bot(s)] = 0 /\ now > 0
  /\ at' = [at EXCEPT ![Bot(s)] = now] /\ stickers' = stickers \union {s}
  /\ UNCHANGED <<now, inbox, transcript, effects, resets, turn, manual, revoked>>

\* The command's time was read before its transaction.  Turns that are being
\* answered and are from before it are cancelled.
Reset ==
  \E time \in resetAt + 1 .. now :
    /\ resetAt' = time /\ cutoff' = Len(log)
    /\ LET cancelled == {m \in Incoming : state[m] = "generating" /\ at[User(m)] <= time}
       IN /\ state' = [m \in Incoming |-> IF m \in cancelled THEN "done" ELSE state[m]]
          /\ updated' = [m \in Incoming |-> IF m \in cancelled THEN time ELSE updated[m]]
    /\ UNCHANGED <<now, at, transcript, stickers, effects, turn, manual, revoked>>

-----------------------------------------------------------------------------
(* Maintenance: one transaction of five deletions, each of the oldest first.*)

\* The batches one deletion may take: the oldest, in any order among equals.
Batches(S, age) ==
  {B \in kSubset(IF Cardinality(S) < BatchSize THEN Cardinality(S) ELSE BatchSize, S) :
     \A b \in B, s \in S \ B : age[b] <= age[s]}

ExpiredRows == {m \in Incoming : state[m] = "done" /\ updated[m] <= now - RetainAge}

\* A finished effect stays while the message it is about has an entry.
ExpiredEffects ==
  {e \in Effects : /\ effects[e].step \in {"succeeded", "failed"}
                   /\ effects[e].at <= now - RetainAge
                   /\ effects[e].target \notin kept}

ExpiredStickers == {s \in stickers : at[Bot(s)] <= now - RetainAge}

Pending(x) == x.by = "bot" /\ delivery[x.of] = "pending"
Position(x) == Cardinality({y \in kept : Sequence(y) >= Sequence(x)})

\* mutant: what a reset hides goes at once, an answer still to be sent too
BadExpiredEntries ==
  {x \in kept : \/ Sequence(x) <= cutoff
                \/ ~Pending(x) /\ Position(x) > KeepLatest /\ at[x] < now - HistoryAge}

ExpiredEntries ==
  {x \in kept : /\ ~Pending(x)
                /\ \/ Sequence(x) <= cutoff
                   \/ Position(x) > KeepLatest /\ at[x] < now - HistoryAge}

\* Mentions stay with the row, the entry, or an entry that quotes the message.
Referenced(m, rows, entries) ==
  \/ m \in rows
  \/ \E x \in entries : x = User(m) \/ quote[x].of = User(m)

Maintain ==
  /\ \E rows \in Batches(ExpiredRows, updated) :
       state' = [m \in Incoming |-> IF m \in rows THEN "gone" ELSE state[m]]
  /\ \E gone \in Batches(ExpiredEffects, [e \in ExpiredEffects |-> effects[e].at]) :
       effects' = [e \in Effects |-> IF e \in gone THEN [step |-> "gone"] ELSE effects[e]]
  /\ \E gone \in Batches(ExpiredStickers, [s \in stickers |-> at[Bot(s)]]) : stickers' = stickers \ gone
  /\ \E gone \in Batches(ExpiredEntries, [x \in kept |-> Sequence(x)]) : kept' = kept \ gone
  /\ bindings' = {m \in bindings :
                    Referenced(m, {i \in Incoming : state'[i] \notin {"new", "gone"}}, kept')}
  /\ UNCHANGED <<now, updated, at, log, quote, delivery, resets, turn, manual, revoked>>

-----------------------------------------------------------------------------
RetentionNext ==
  \/ Tick
  \/ \E m \in Incoming :
       \/ ClaimAndResolveSender(m) \/ MarkHandled(m) \/ Generate(m) \/ SendText(m)
  \/ CommitPlan
  \/ \E e \in Effects : ExecuteEffect(e) \/ DeleteChatMessage(e)
  \/ \E h \in Manual : ManualReplyContext(h)
  \/ SendChatMessage \/ RecordManualAssistantMessage
  \/ \E s \in Stickers : RecordSentSticker(s)
  \/ Reset
  \/ Maintain

RetentionSpec == RetentionInit /\ [][RetentionNext]_retentionVars

-----------------------------------------------------------------------------
Quotes == [of : Messages, text : {"shown", "withheld", "deleted"}] \union {NoQuote}

RetentionTypeOK ==
  /\ now \in 0 .. MaxTime /\ resetAt \in -1 .. MaxTime /\ cutoff \in 0 .. Len(log)
  /\ state \in [Incoming -> {"new", "waiting", "generating", "planned", "done", "gone"}]
  /\ updated \in [Incoming -> 0 .. MaxTime] /\ at \in [Messages -> 0 .. MaxTime]
  /\ log \in Seq(Recorded) /\ IsInjective(log) /\ kept \subseteq ToSet(log)
  /\ quote \in [Recorded -> Quotes]
  /\ delivery \in [Incoming \union Manual -> {"none", "pending", "sent", "unsent"}]
  /\ bindings \subseteq Incoming /\ stickers \subseteq Stickers /\ revoked \subseteq Recorded
  /\ \A e \in Effects :
       effects[e].step \in {"none", "gone"}
       \/ effects[e] \in [step : {"pending", "succeeded", "failed"}, kind : {"delete", "react"},
                          target : Recorded, turn : Incoming \union {"none"}, at : 0 .. MaxTime]
  /\ turn = AtRest \/ turn \in [step : {"generating"}, of : Incoming, seen : SUBSET Recorded]
  /\ manual = AtRest \/ manual \in [step : {"quoted", "sent"}, of : Manual, quote : Quotes,
                               mentions : SUBSET Incoming]

\* A message deleted on WhatsApp is shown as deleted for as long as its entry
\* is.  Maintain removes finished effects by age, and the effect's row is the
\* only mark.
DeletedStaysMarked == \A row \in ListBotMessages : row.of \in revoked => row.deleted

\* While an answer is to be sent its inbox row and its entry are there, whatever
\* their age and across a reset.  updateTurnDelivery needs the row, and would
\* pass over a missing entry in silence.
PendingIsKept ==
  \A m \in Incoming : delivery[m] = "pending" => HasRow(m) /\ Bot(m) \in kept

\* Every mention in a text the page shows, of an entry or in a quote, can be
\* resolved: message_mentions outlives the inbox row of the message and its
\* entry, as long as something still shows the text.
MentionsCanBeRead ==
  \A row \in ListBotMessages :
    /\ row.of.by = "user" => row.mentions # {}
    /\ row.quote.text = "shown" /\ row.quote.of.by = "user" => row.quoted # {}

\* No message or answer a turn may be shown quotes, with its text, one from
\* before the latest reset, though rows and entries from before it remain.  A
\* message of the window reads its quote before it is sent and is not covered.
ResetHidesQuotes ==
  \A x \in kept :
    Visible(x) /\ x.of \notin Manual /\ quote[x].text = "shown" =>
      LET of == quote[x].of
      IN IF of.of \in Manual THEN Sequence(of) > cutoff
         ELSE at[IF of.of \in Incoming THEN User(of.of) ELSE of] > resetAt

\* A visible message or answer younger than the row retention can be replied
\* to, reacted to and deleted: no rule of maintenance reaches what it needs.
YoungTargetsResolve ==
  \A x \in kept :
    Visible(x) /\ Sent(x) /\ now - at[x] < RetainAge => ResolveMessageTarget(x)

\* Whatever still leans on a row or an entry finds it.
KeptWhileNeeded ==
  RetentionTypeOK /\ DeletedStaysMarked /\ PendingIsKept /\ MentionsCanBeRead /\ YoungTargetsResolve

=============================================================================
