------------------------------- MODULE Access -------------------------------
(***************************************************************************)
(* Who may use the bot: the configured owner and the chat allowlist, the   *)
(* participants and chats rows that carry them, the random references the  *)
(* model knows people by, and the checks in front of a command, a turn and *)
(* a send.                                                                 *)
(*                                                                         *)
(* A person is known by a LID; a phone number is an alias that a message   *)
(* may carry, as its first or its second address, or leave out.  Every     *)
(* message writes what it shows about its sender and its chat into the     *)
(* rows, and every start writes the configured policy over them.           *)
(*                                                                         *)
(* The rows, the references, the inbox and the planned replies survive a   *)
(* restart.  The queue in front of a turn is the subject of ChatQueue, the *)
(* steps of a send that of Outbox, triggers and mutes that of Admission.   *)
(***************************************************************************)
EXTENDS Integers, FiniteSets

CONSTANTS
  Lids,        \* the people, by their LID
  Phones,      \* phone addresses
  Groups,      \* group chats
  StatusChat,  \* the status broadcast
  None,        \* no address
  Refs,        \* sender references
  Events,      \* messages of the provider
  Info,        \* what a message says: see EventInfo
  Policies,    \* what may be configured: an owner and an allowlist
  Admins,      \* the admins in the snapshots of the groups
  BotIsAdmin,  \* the bot is one of them
  MaxDeliveries,  \* bound: deliveries of one message
  MaxRestarts     \* bound: restarts of the bot

Chats == Lids \cup Phones \cup Groups \cup {StatusChat}
Wildcards == {"*", "*@lid", "*@g.us"}
Texts == {"text", "dump", "group", "memory"}
EventInfo == [lid : Lids, alias : Phones \cup {None}, phoneFirst : BOOLEAN,
              chat : Groups \cup {StatusChat, None}, fromMe : BOOLEAN,
              text : Texts, mentions : Lids \cup {None}]

ASSUME AccessAssumption ==
  /\ Info \in [Events -> EventInfo]
  /\ \A e \in Events :
       /\ Info[e].phoneFirst => Info[e].alias # None
       /\ Info[e].fromMe => Info[e].chat \in Groups
  /\ Policies \subseteq [owner : Lids \cup Phones, allow : SUBSET (Chats \cup Wildcards)]
  /\ None \notin Chats \cup Refs /\ Admins \subseteq Lids /\ BotIsAdmin \in BOOLEAN
  /\ Lids \cap Phones = {} /\ Groups \cap (Lids \cup Phones) = {}
  /\ StatusChat \notin Lids \cup Phones \cup Groups
  /\ MaxDeliveries \in Nat /\ MaxRestarts \in Nat

VARIABLES
  policy,     \* the configuration the bot runs with
  allowed,    \* chats.allowlisted, "none" when there is no row
  owner,      \* participants.owner
  phone,      \* participants.phone_address, with the participants known
  ref,        \* sender_refs: a person's reference in a chat
  row,        \* the inbox row of a message
  at,         \* what the bot does with a message
  marked,     \* the Allowlisted flag the message in memory carries
  granted,    \* the owner fact read for a command
  reply,      \* the reply to a message, or to a denied command
  ran,        \* the commands that ran
  todo,       \* what Recover has listed
  deliveries, restarts

people == <<owner, phone, ref>>
work == <<at, marked, granted, todo>>
outcome == <<row, reply, ran>>
counters == <<deliveries, restarts>>
vars == <<policy, allowed, people, work, outcome, counters>>

-----------------------------------------------------------------------------
(* Addresses.                                                              *)

Sender(e) == IF Info[e].phoneFirst THEN Info[e].alias ELSE Info[e].lid
SenderAlt(e) == IF Info[e].phoneFirst THEN Info[e].lid ELSE Info[e].alias

\* The phone number among two addresses, and the first one when there is none.
PhoneAddress(primary, alternative) ==
  IF primary \notin Phones /\ alternative \in Phones THEN alternative ELSE primary

SenderPhone(e) == PhoneAddress(Sender(e), SenderAlt(e))
ChatOf(e) == IF Info[e].chat = None THEN SenderPhone(e) ELSE Info[e].chat

Kind(chat) == CASE chat \in Groups -> "group"
                [] chat = StatusChat -> "status"
                [] chat \in Lids \cup Phones -> "direct"

WildcardMatches(w, kind) ==
  CASE w = "*" -> kind \in {"direct", "group"}
    [] w = "*@lid" -> kind = "direct"
    [] w = "*@g.us" -> kind = "group"

\* InboundGate: the addresses of one message decide.
ListsChat(p, chat) ==
  \/ chat \in p.allow
  \/ \E w \in Wildcards : w \in p.allow /\ WildcardMatches(w, Kind(chat))
ChatAllowlisted(p, e) ==
  \/ ListsChat(p, ChatOf(e))
  \/ Kind(ChatOf(e)) # "group" /\ SenderAlt(e) \in p.allow
IsOwner(p, e) == p.owner \in {Sender(e), SenderAlt(e)}

-----------------------------------------------------------------------------
(* Commands and what they ask for.                                         *)

Permits(text, facts) ==
  CASE text = "dump" -> facts.owner /\ ~facts.fromMe
    [] text = "group" -> facts.admin /\ facts.group
    [] text = "memory" -> \/ facts.fromMe \/ facts.owner \/ facts.private
                          \/ facts.admin /\ facts.group

IsCommand(e) == Info[e].text # "text"
Flag(chat) == allowed[chat] = "yes"
Open(e) == row[e] = "open" /\ reply[e] = "none"
Known(l) == phone[l] # "unknown"

TypeOK ==
  /\ policy \in Policies
  /\ allowed \in [Chats -> {"none", "yes", "no"}]
  /\ owner \in [Lids -> BOOLEAN]
  /\ phone \in [Lids -> Lids \cup Phones \cup {None, "unknown"}]
  /\ ref \in [Chats -> [Lids -> Refs \cup {None}]]
  /\ row \in [Events -> {"absent", "open", "ignored", "closed", "answered"}]
  /\ at \in [Events -> {"idle", "route", "turn", "access", "dispatch"}]
  /\ marked \in [Events -> BOOLEAN] /\ granted \in [Events -> BOOLEAN]
  /\ reply \in [Events -> {"none", "planned", "sent", "denied"}]
  /\ ran \subseteq Events /\ todo \subseteq Events
  /\ deliveries \in [Events -> 0..MaxDeliveries] /\ restarts \in 0..MaxRestarts

Init ==
  /\ policy \in Policies
  /\ allowed = [c \in Chats |-> "none"]
  /\ owner = [l \in Lids |-> FALSE] /\ phone = [l \in Lids |-> "unknown"]
  /\ ref = [c \in Chats |-> [l \in Lids |-> None]]
  /\ row = [e \in Events |-> "absent"] /\ at = [e \in Events |-> "idle"]
  /\ marked = [e \in Events |-> FALSE] /\ granted = [e \in Events |-> FALSE]
  /\ reply = [e \in Events |-> "none"] /\ ran = {} /\ todo = {}
  /\ deliveries = [e \in Events |-> 0] /\ restarts = 0

-----------------------------------------------------------------------------
(* A message is claimed, in one transaction.                               *)

\* Who is named in the chat for the first time.
NeedRef(e) == {l \in {Info[e].lid, Info[e].mentions} \ {None} : ref[ChatOf(e)][l] = None}
Fresh(chat) == {r \in Refs : \A l \in Lids : ref[chat][l] # r}

\* Random references that nobody has in the chat yet.
NewRefs(e) == {f \in [NeedRef(e) -> Fresh(ChatOf(e))] :
                 \A l, k \in NeedRef(e) : f[l] = f[k] => l = k}

\* Somebody else's row holds the number the message shows.
PhoneTaken(e) == \E l \in Lids \ {Info[e].lid} : phone[l] = SenderPhone(e)

\* What the message shows replaces what the rows said of its sender and chat.
Claim(e) ==
  /\ deliveries[e] < MaxDeliveries /\ at[e] = "idle" /\ ~PhoneTaken(e)
  /\ deliveries' = [deliveries EXCEPT ![e] = @ + 1]
  /\ allowed' = [allowed EXCEPT ![ChatOf(e)] = IF ChatAllowlisted(policy, e) THEN "yes" ELSE "no"]
  /\ owner' = [owner EXCEPT ![Info[e].lid] = IsOwner(policy, e)]
  /\ phone' = [l \in Lids |->
       IF l = Info[e].lid THEN SenderPhone(e)
       ELSE IF l = Info[e].mentions /\ ~Known(l) THEN None ELSE phone[l]]
  /\ \E new \in NewRefs(e) :
       ref' = [ref EXCEPT ![ChatOf(e)] =
                 [l \in Lids |-> IF l \in NeedRef(e) THEN new[l] ELSE @[l]]]
  /\ row' = [row EXCEPT ![e] = IF @ = "absent" THEN "open" ELSE @]
  /\ at' = [at EXCEPT ![e] = IF row[e] \in {"absent", "open"} THEN "route" ELSE @]
  /\ marked' = [marked EXCEPT ![e] = ChatAllowlisted(policy, e)]
  /\ UNCHANGED <<policy, granted, todo, reply, ran, restarts>>

\* The unique index refuses the number: the transaction is rolled back.
ClaimConflicts(e) ==
  /\ deliveries[e] < MaxDeliveries /\ at[e] = "idle" /\ PhoneTaken(e)
  /\ deliveries' = [deliveries EXCEPT ![e] = @ + 1]
  /\ UNCHANGED <<policy, allowed, people, work, outcome, restarts>>

-----------------------------------------------------------------------------
(* What the bot does with it.                                              *)

To(e, step) == at' = [at EXCEPT ![e] = step]
Settled(e, state) == row' = [row EXCEPT ![e] = IF @ = "open" THEN state ELSE @]
Ignored(e) == To(e, "idle") /\ Settled(e, "ignored")

\* The reply is planned and the row is its turn's from now on.
Answered(e) ==
  To(e, "idle") /\ Settled(e, "answered") /\ reply' = [reply EXCEPT ![e] = "planned"]

\* ReadHumanAccess: the rows decide, not what the message carried.
Authorized(e) == Kind(ChatOf(e)) # "status" /\ Flag(ChatOf(e))

\* A status, a chat that is not listed and the bot's own text are ignored.
IgnoredAtOnce(e) ==
  \/ Kind(ChatOf(e)) = "status" \/ ~marked[e]
  \/ ~IsCommand(e) /\ Info[e].fromMe

Route(e) ==
  /\ at[e] = "route"
  /\ CASE IgnoredAtOnce(e) -> Ignored(e)
       [] ~IgnoredAtOnce(e) /\ IsCommand(e) -> To(e, "access") /\ UNCHANGED row
       [] ~IgnoredAtOnce(e) /\ ~IsCommand(e) ->
            IF Authorized(e) THEN To(e, "turn") /\ UNCHANGED row ELSE Ignored(e)
  /\ UNCHANGED <<policy, allowed, people, marked, granted, todo, reply, ran, counters>>

\* The turn authorizes again; a denial fails the batch, and the row waits.
Turn(e) ==
  /\ at[e] = "turn"
  /\ IF Authorized(e) THEN Answered(e) ELSE To(e, "idle") /\ UNCHANGED <<row, reply>>
  /\ UNCHANGED <<policy, allowed, people, marked, granted, todo, ran, counters>>

\* Commands of a chat run one at a time.
NoOtherCommand(e) == \A d \in Events \ {e} : ChatOf(d) = ChatOf(e) => at[d] # "dispatch"

\* The owner fact is read from the rows; the bot's own commands never have it.
ReadAccess(e) ==
  /\ at[e] = "access" /\ NoOtherCommand(e)
  /\ IF Authorized(e)
     THEN /\ granted' = [granted EXCEPT ![e] = ~Info[e].fromMe /\ owner[Info[e].lid]]
          /\ To(e, "dispatch") /\ UNCHANGED <<row, reply>>
     ELSE Answered(e) /\ UNCHANGED granted
  /\ UNCHANGED <<policy, allowed, people, marked, todo, ran, counters>>

\* ReadChatAuthority: roles come from the group's snapshot.
Facts(e) ==
  LET group == Kind(ChatOf(e)) = "group"
  IN [owner |-> granted[e], group |-> group, private |-> ~group, fromMe |-> Info[e].fromMe,
      admin |-> group /\ (IF Info[e].fromMe THEN BotIsAdmin ELSE Info[e].lid \in Admins)]

\* The permission decides; a denial is answered, a command that ran is closed.
Dispatch(e) ==
  /\ at[e] = "dispatch"
  /\ IF Permits(Info[e].text, Facts(e))
     THEN To(e, "idle") /\ Settled(e, "closed") /\ ran' = ran \cup {e} /\ UNCHANGED reply
     ELSE Answered(e) /\ UNCHANGED ran
  /\ UNCHANGED <<policy, allowed, people, marked, granted, todo, counters>>

\* Mutant: what was planned is sent.
BadSend(e) ==
  /\ reply[e] = "planned" /\ reply' = [reply EXCEPT ![e] = "sent"]
  /\ UNCHANGED <<policy, allowed, people, work, row, ran, counters>>

\* AuthorizeSend: the chat's row decides once more.
Send(e) ==
  /\ reply[e] = "planned"
  /\ reply' = [reply EXCEPT ![e] = IF Flag(ChatOf(e)) THEN "sent" ELSE "denied"]
  /\ UNCHANGED <<policy, allowed, people, work, row, ran, counters>>

-----------------------------------------------------------------------------
(* A restart, possibly with another policy.                                *)

\* Only the address of the chat's row is compared.
Relisted(p, chat) == ListsChat(p, chat)

\* Mutant: an owner is added, none is removed.
BadReowned(p, l) == owner[l] \/ (Known(l) /\ p.owner \in {l, phone[l]})

Reowned(p, l) == Known(l) /\ p.owner \in {l, phone[l]}

\* ReconcileAccountPolicy runs before anything else does.
Restart(p) ==
  /\ restarts < MaxRestarts /\ restarts' = restarts + 1 /\ policy' = p
  /\ allowed' = [c \in Chats |->
       IF allowed[c] = "none" THEN "none" ELSE IF Relisted(p, c) THEN "yes" ELSE "no"]
  /\ owner' = [l \in Lids |-> Reowned(p, l)]
  /\ at' = [e \in Events |-> "idle"] /\ marked' = [e \in Events |-> FALSE]
  /\ granted' = [e \in Events |-> FALSE] /\ todo' = {e \in Events : Open(e)}
  /\ UNCHANGED <<phone, ref, outcome, deliveries>>

\* An unfinished message carries what the rows say now.
Recover(e) ==
  /\ e \in todo /\ at[e] = "idle" /\ todo' = todo \ {e}
  /\ To(e, IF Open(e) THEN "route" ELSE "idle")
  /\ marked' = [marked EXCEPT ![e] = Flag(ChatOf(e))]
  /\ UNCHANGED <<policy, allowed, people, granted, outcome, counters>>

Next ==
  \/ \E e \in Events :
       \/ Claim(e) \/ ClaimConflicts(e) \/ Route(e) \/ Turn(e) \/ ReadAccess(e)
       \/ Dispatch(e) \/ Send(e) \/ Recover(e)
  \/ \E p \in Policies : Restart(p)
Spec == Init /\ [][Next]_vars

-----------------------------------------------------------------------------
(* Properties.                                                             *)

\* The addresses of a person that messages have shown.
AddressesOf(l) == {l} \cup {Info[e].alias : e \in {d \in Events : Info[d].lid = l}}

\* Only the owner configured now has the owner flag, by the LID or by a number
\* messages of that person showed: a restart with another owner, a number that
\* moves and a message without an alias leave the flag on nobody else.
OwnerIsConfigured ==
  \A l \in Lids : owner[l] => policy.owner \in AddressesOf(l)

\* A chat may be answered: listed itself, by its kind, or, outside groups, by
\* an address of somebody who writes there.
Inside(p, chat) ==
  \/ ListsChat(p, chat)
  \/ /\ Kind(chat) # "group"
     /\ \E e \in Events : ChatOf(e) = chat /\ SenderAlt(e) \in p.allow

\* The flag of a chat follows the allowlist in force, whatever it was before.
AllowedIsConfigured ==
  \A c \in Chats : allowed[c] = "yes" => Inside(policy, c)

\* Sends and commands happen under the policy in force: a reply planned before
\* the allowlist was narrowed is not sent after it, and a command received from
\* the last owner does not run for the next one.
ActsInside ==
  [][\A e \in Events :
       /\ reply[e] # "sent" /\ reply'[e] = "sent" => Inside(policy, ChatOf(e))
       /\ e \in ran' \ ran /\ Info[e].text = "dump" =>
            policy.owner \in AddressesOf(Info[e].lid) /\ ~Info[e].fromMe]_vars

\* A reference names one person of a chat, and always the same.
RefsNameOnePerson ==
  \A c \in Chats : \A l, k \in Lids :
    ref[c][l] # None /\ ref[c][l] = ref[c][k] => l = k

\* What the rows say of people and chats is what the configuration in force says.
StandingIsConfigured ==
  TypeOK /\ OwnerIsConfigured /\ AllowedIsConfigured /\ RefsNameOnePerson

=============================================================================
