--------------------------- MODULE Configuration ---------------------------
(***************************************************************************)
(* The settings of the program and the configuration of each chat: both a  *)
(* row with a version, read by forms and commands and written back only at *)
(* the version they read.  A start of the bot projects the settings on the *)
(* chats, forms edit either, commands edit the chat they are sent in, and  *)
(* the registry of agents creates a configuration on first use.            *)
(*                                                                         *)
(* The part of a chat's configuration that is its own is a list of smart   *)
(* rules and a prompt override, which stand for the triggers, the          *)
(* moderation level and the override.                                      *)
(***************************************************************************)
EXTENDS SettingsRules, Integers, Sequences

CONSTANTS
  Drafts,       \* what a form may contain: [status, whatsAppEnabled, agentEnabled, prompt, own]
  Patches,      \* what a form may be saved with: [draft, secrets]
  FirstDraft,   \* the settings saved last, with the key of the model
  Forms,        \* open pages of the UI
  Chats,
  Commands,     \* messages with a command that changes the configuration
  Turns,        \* messages the model answers
  Edit,         \* what each command does: [chat, kind, value]
  Rules,        \* the smart rules there may be
  Overrides,
  None,
  Coming,       \* bound: the sets of messages that may still come, the others were handled before
  MaxRevision,  \* bound: saves of the settings
  MaxVersion,   \* bound: versions of one chat's configuration
  MaxStops      \* bound: ends of the bot, stopped or crashed

Handlers == Commands \cup Turns

Prompts == {d.prompt : d \in Drafts}

\* What is a chat's own, a row of its configuration, and what a start takes of
\* the settings.
Own == [rules : Seq(Rules), override : Overrides]
Configs == [version : 1..MaxVersion, prompt : Prompts, own : Own]
Runtimes == [prompt : Prompts, own : Own]

ASSUME DraftsFit ==
  /\ Drafts \subseteq [status : [Fields \ Secrets -> Status], whatsAppEnabled : BOOLEAN,
                       agentEnabled : BOOLEAN, prompt : Prompts, own : Own]
  /\ Patches \subseteq [draft : Drafts, secrets : [Secrets -> {"keep", "clear", "replace"}]]
  /\ FirstDraft \in Drafts
ASSUME EditsFit ==
  /\ Commands \cap Turns = {} /\ DOMAIN Edit = Handlers
  /\ \A h \in Handlers : Edit[h].chat \in Chats
  /\ \A h \in Commands :
       /\ Edit[h].kind = "add" => Edit[h].value \in Rules
       /\ Edit[h].kind \notin {"add", "remove"} => Edit[h].value \in Overrides
ASSUME NoneIsNothing == None \notin Configs \cup Runtimes \cup Handlers
ASSUME BoundsFit == MaxRevision \in Nat \ {0} /\ MaxVersion \in Nat \ {0} /\ MaxStops \in Nat

VARIABLES
  settings,  \* application_settings: [revision, draft, keys]
  configs,   \* agent_configs: per chat, None or [version, prompt, own]
  runtime,   \* None, or the configDefaults of the running bot
  agents,    \* Registry.agents: per chat, None or the handler that built the Agent
  handling,  \* where each handler is
  rows,      \* whether a message is new, received or done
  forms,     \* what each page shows and does
  stops

store == <<settings, configs>>
bot == <<runtime, agents, handling, rows>>
vars == <<store, bot, forms, stops>>

Idle == [step |-> "idle"]

\* A secret is the revision that brought it, 0 when it is not configured.
Typed(values) ==
  [status |-> [f \in Fields |-> IF f \notin Secrets THEN values.draft.status[f]
                                ELSE IF values.keys[f] = 0 THEN "unset" ELSE "ok"],
   whatsAppEnabled |-> values.draft.whatsAppEnabled,
   agentEnabled |-> values.draft.agentEnabled]

FirstKeys == [k \in Secrets |-> IF k = "LLMAPIKey" THEN 1 ELSE 0]

\* What is stored was accepted when it was saved.
ASSUME FirstWasAccepted == ValidateDraft(Typed([draft |-> FirstDraft, keys |-> FirstKeys]))

Init ==
  /\ settings = [revision |-> 1, draft |-> FirstDraft, keys |-> FirstKeys]
  /\ configs = [c \in Chats |-> None]
  /\ runtime = None /\ agents = [c \in Chats |-> None]
  /\ handling = [h \in Handlers |-> Idle]
  /\ \E coming \in Coming : rows = [h \in Handlers |-> IF h \in coming THEN "new" ELSE "done"]
  /\ forms = [f \in Forms |-> Idle] /\ stops = 0

-----------------------------------------------------------------------------
(* The two rows.                                                            *)

\* LoadOrCreate, as a change of configs: what it returns is the chat's row.
Created(chat) ==
  IF configs[chat] # None THEN configs
  ELSE [configs EXCEPT ![chat] = [version |-> 1, prompt |-> runtime.prompt, own |-> runtime.own]]
LoadOrCreate(chat) == configs' = Created(chat)

CompareAndSwap(chat, expected, values) ==
  /\ configs[chat].version = expected /\ expected < MaxVersion
  /\ configs' = [configs EXCEPT ![chat] =
                   [version |-> expected + 1, prompt |-> values.prompt, own |-> values.own]]

Stale(chat, expected) == configs[chat].version # expected /\ UNCHANGED configs

\* Every row the new values would change, and only those, gets a new version.
Versioned(change(_)) ==
  /\ \A c \in Chats : configs[c] # None /\ change(configs[c]) # configs[c] => configs[c].version < MaxVersion
  /\ configs' = [c \in Chats |->
       IF configs[c] = None \/ change(configs[c]) = configs[c] THEN configs[c]
       ELSE [change(configs[c]) EXCEPT !.version = @ + 1]]

BadReconcileUntouched(prompt) ==
  Versioned(LAMBDA row : IF row.version = 1 THEN [row EXCEPT !.prompt = prompt] ELSE row)

ReconcileAccountDefaults(prompt) == Versioned(LAMBDA row : [row EXCEPT !.prompt = prompt])

ResetAccountChatSettings(own, categories) ==
  Versioned(LAMBDA row :
    [row EXCEPT !.own = [rules |-> IF "rules" \in categories THEN own.rules ELSE @.rules,
                         override |-> IF "override" \in categories THEN own.override ELSE @.override]])

BadSaveValues(expected, values) ==
  /\ expected < MaxRevision
  /\ settings' = [revision |-> expected + 1, draft |-> values.draft, keys |-> values.keys]

SaveValues(expected, values) ==
  /\ settings.revision = expected /\ expected < MaxRevision
  /\ settings' = [revision |-> expected + 1, draft |-> values.draft, keys |-> values.keys]

-----------------------------------------------------------------------------
(* The page of the settings.                                                *)

At(f, step) == forms[f].step = step
Show(f, page) == forms' = [forms EXCEPT ![f] = page]

\* What a page is shown of the settings: which secrets there are, not what they are.
Public(row) ==
  [revision |-> row.revision, draft |-> row.draft, configured |-> {k \in Secrets : row.keys[k] # 0}]

GetSettings(f) ==
  /\ At(f, "idle")
  /\ Show(f, [step |-> "settings", view |-> Public(settings)])
  /\ UNCHANGED <<store, bot, stops>>

MergeSecret(k, action, kept) ==
  CASE action = "keep" -> kept [] action = "clear" -> 0 [] OTHER -> settings.revision + 1

MergePatch(patch) ==
  [draft |-> patch.draft,
   keys |-> [k \in Secrets |-> MergeSecret(k, patch.secrets[k], settings.keys[k])]]

Accepted(patch) == ValidateDraft(Typed(MergePatch(patch)))

\* Controller.Save up to the write: it refuses a stale revision and a malformed draft.
Save(f, patch) ==
  /\ At(f, "settings")
  /\ IF forms[f].view.revision = settings.revision /\ Accepted(patch)
       THEN Show(f, [step |-> "saving", view |-> forms[f].view, merged |-> MergePatch(patch)])
       ELSE Show(f, Idle)
  /\ UNCHANGED <<store, bot, stops>>

CommitSave(f) ==
  /\ At(f, "saving")
  /\ \/ SaveValues(forms[f].view.revision, forms[f].merged)
     \/ settings.revision # forms[f].view.revision /\ UNCHANGED settings
  /\ Show(f, Idle)
  /\ UNCHANGED <<configs, bot, stops>>

\* ResetWhatsAppChatSettings: the revision is compared, then the chats are written.
ResetChats(f, categories) ==
  /\ At(f, "settings") /\ forms[f].view.revision = settings.revision
  /\ Show(f, [step |-> "resetting", own |-> settings.draft.own, categories |-> categories])
  /\ UNCHANGED <<store, bot, stops>>

CommitReset(f) ==
  /\ At(f, "resetting")
  /\ IF runtime = None THEN UNCHANGED configs
     ELSE ResetAccountChatSettings(forms[f].own, forms[f].categories)
  /\ Show(f, Idle)
  /\ UNCHANGED <<settings, bot, stops>>

-----------------------------------------------------------------------------
(* The page of one chat.                                                    *)

GetChatSettings(f, chat) ==
  /\ At(f, "idle") /\ runtime # None
  /\ LoadOrCreate(chat)
  /\ Show(f, [step |-> "chat", chat |-> chat, view |-> configs'[chat]])
  /\ UNCHANGED <<settings, bot, stops>>

\* SaveChatSettings merges the form with the row as it is now, and not as it was shown.
MergeChat(f, own) == [prompt |-> configs[forms[f].chat].prompt, own |-> own]

SaveChatSettings(f, own) ==
  /\ At(f, "chat") /\ runtime # None
  /\ Show(f, [step |-> "chatSaving", chat |-> forms[f].chat, view |-> forms[f].view, merged |-> MergeChat(f, own)])
  /\ UNCHANGED <<store, bot, stops>>

CommitChat(f) ==
  /\ At(f, "chatSaving")
  /\ LET form == forms[f] IN
       \/ CompareAndSwap(form.chat, form.view.version, form.merged)
       \/ Stale(form.chat, form.view.version)
  /\ Show(f, Idle)
  /\ UNCHANGED <<settings, bot, stops>>

-----------------------------------------------------------------------------
(* A message reaches the Agent of its chat.                                 *)

In(h, step) == handling[h].step = step
Put(h, place) == handling' = [handling EXCEPT ![h] = place]
ChatOf(h) == Edit[h].chat

\* The `commands' lock of the chat's queue.
Locked(h) == \E k \in Commands \ {h} : h \in Commands /\ ~In(k, "idle") /\ ChatOf(k) = ChatOf(h)

\* AgentFor's first look: what it misses is built outside the lock.
Begin(h) ==
  /\ runtime # None /\ In(h, "idle") /\ rows[h] # "done" /\ ~Locked(h)
  /\ rows' = [rows EXCEPT ![h] = "received"]
  /\ Put(h, IF agents[ChatOf(h)] = None THEN [step |-> "building"]
            ELSE [step |-> "loaded", agent |-> agents[ChatOf(h)]])
  /\ UNCHANGED <<store, runtime, agents, forms, stops>>

NewAgent(h) ==
  /\ In(h, "building")
  /\ LoadOrCreate(ChatOf(h))
  /\ Put(h, [step |-> "built"])
  /\ UNCHANGED <<settings, runtime, agents, rows, forms, stops>>

BadKeepAgent(h) ==
  /\ agents' = [agents EXCEPT ![ChatOf(h)] = h]
  /\ Put(h, [step |-> "loaded", agent |-> h])

\* AgentFor's second look: the first one stored wins.
KeepAgent(h) ==
  LET first == IF agents[ChatOf(h)] = None THEN h ELSE agents[ChatOf(h)] IN
  /\ agents' = [agents EXCEPT ![ChatOf(h)] = first]
  /\ Put(h, [step |-> "loaded", agent |-> first])

AgentFor(h) ==
  /\ In(h, "built")
  /\ KeepAgent(h)
  /\ UNCHANGED <<store, runtime, rows, forms, stops>>

-----------------------------------------------------------------------------
(* A command changes the configuration.                                     *)

Refresh(h) ==
  /\ h \in Commands /\ In(h, "loaded")
  /\ Put(h, [step |-> "run", seen |-> configs[ChatOf(h)]])
  /\ UNCHANGED <<store, runtime, agents, rows, forms, stops>>

\* What the command does to the chat's own values.
Changed(h, own) ==
  CASE Edit[h].kind = "add" -> [own EXCEPT !.rules = Append(@, Edit[h].value)]
    [] Edit[h].kind = "remove" -> [own EXCEPT !.rules = IF @ = <<>> THEN @ ELSE Tail(@)]
    [] OTHER -> [own EXCEPT !.override = Edit[h].value]

\* UpdateConfig: nothing to change, or the change of the values at the version seen.
UpdateConfig(h) ==
  /\ In(h, "run")
  /\ LET seen == handling[h].seen
         row == configs[ChatOf(h)] IN
       Put(h, CASE Changed(h, seen.own) = seen.own -> [step |-> "ran"]
                [] Changed(h, seen.own) # seen.own /\ row.version # seen.version -> [step |-> "failed"]
                [] OTHER -> [step |-> "update", seen |-> seen,
                             values |-> [prompt |-> row.prompt, own |-> Changed(h, row.own)]])
  /\ UNCHANGED <<store, runtime, agents, rows, forms, stops>>

Update(h) ==
  /\ In(h, "update")
  /\ LET seen == handling[h].seen IN
       \/ CompareAndSwap(ChatOf(h), seen.version, handling[h].values) /\ Put(h, [step |-> "ran"])
       \/ Stale(ChatOf(h), seen.version) /\ Put(h, [step |-> "failed"])
  /\ UNCHANGED <<settings, runtime, agents, rows, forms, stops>>

\* The answer is planned, or failCommand closes the command: it will not run again.
CloseCommand(h) ==
  /\ In(h, "ran") \/ In(h, "failed")
  /\ rows' = [rows EXCEPT ![h] = "done"] /\ Put(h, Idle)
  /\ UNCHANGED <<store, runtime, agents, forms, stops>>

-----------------------------------------------------------------------------
(* A turn holds the gate of its Agent.                                      *)

Holds(h, agent) == In(h, "inside") /\ handling[h].agent = agent

GateIsFree(agent) == \A h \in Turns : ~Holds(h, agent)

Acquire(h) ==
  /\ h \in Turns /\ In(h, "loaded") /\ GateIsFree(handling[h].agent)
  /\ Put(h, [step |-> "inside", agent |-> handling[h].agent])
  /\ UNCHANGED <<store, runtime, agents, rows, forms, stops>>

Release(h) ==
  /\ In(h, "inside")
  /\ rows' = [rows EXCEPT ![h] = "done"] /\ Put(h, Idle)
  /\ UNCHANGED <<store, runtime, agents, forms, stops>>

-----------------------------------------------------------------------------
(* The bot starts with the settings saved last, and ends.                   *)

Start ==
  /\ runtime = None
  /\ settings.draft.agentEnabled /\ SnapshotFromSettings(Typed(settings))
  /\ runtime' = [prompt |-> settings.draft.prompt, own |-> settings.draft.own]
  /\ ReconcileAccountDefaults(settings.draft.prompt)
  /\ UNCHANGED <<settings, agents, handling, rows, forms, stops>>

ActionsReturned == \A f \in Forms : ~At(f, "chatSaving")

\* A stop waits for chat actions and cuts the handlers off, a crash cuts off both.
\* A page of the browser outlives it.
End ==
  /\ runtime # None /\ stops < MaxStops /\ stops' = stops + 1
  /\ runtime' = None /\ agents' = [c \in Chats |-> None]
  /\ handling' = [h \in Handlers |-> Idle]
  /\ \/ UNCHANGED forms /\ ActionsReturned
     \/ forms' = [f \in Forms |-> IF forms[f].step \in {"settings", "chat"} THEN forms[f] ELSE Idle]
  /\ UNCHANGED <<store, rows>>

\* What a person makes of the values a page shows.
Edited(own) == {[own EXCEPT !.override = o] : o \in Overrides} \cup {[own EXCEPT !.rules = <<>>]}

FormStep(f) ==
  \/ GetSettings(f)
  \/ \E patch \in Patches : Save(f, patch)
  \/ CommitSave(f)
  \/ \E categories \in SUBSET {"rules", "override"} \ {{}} : ResetChats(f, categories)
  \/ CommitReset(f)
  \/ \E chat \in Chats : GetChatSettings(f, chat)
  \/ At(f, "chat") /\ \E own \in Edited(forms[f].view.own) : SaveChatSettings(f, own)
  \/ CommitChat(f)

HandlerStep(h) ==
  \/ Begin(h) \/ NewAgent(h) \/ AgentFor(h)
  \/ Refresh(h) \/ UpdateConfig(h) \/ Update(h) \/ CloseCommand(h)
  \/ Acquire(h) \/ Release(h)

Next == (\E f \in Forms : FormStep(f)) \/ (\E h \in Handlers : HandlerStep(h)) \/ Start \/ End

Spec == Init /\ [][Next]_vars

-----------------------------------------------------------------------------
(* Every row, page and handler has values of its type, a chat that is       *)
(* handled has a configuration, and a message in work was received.         *)
TypeOK ==
  /\ settings.revision \in 1..MaxRevision /\ settings.draft \in Drafts
  /\ \A k \in Secrets : settings.keys[k] \in 0..settings.revision
  /\ \A c \in Chats : configs[c] = None \/ configs[c] \in Configs
  /\ runtime = None \/ runtime \in Runtimes
  /\ \A h \in Handlers :
       /\ In(h, "idle") \/ (rows[h] = "received" /\ runtime # None)
       /\ In(h, "idle") \/ In(h, "building") \/ configs[ChatOf(h)] # None
  /\ \A c \in Chats : agents[c] # None => configs[c] # None
  /\ \A f \in Forms : At(f, "chatSaving") => runtime # None
  /\ stops \in 0..MaxStops

(* While the bot runs, every configured chat has the prompt and the model   *)
(* it was started with: those created late, those a page or a command       *)
(* wrote meanwhile, and those a page opened before the last start writes.   *)
ChatsFollowTheRuntime ==
  runtime # None => \A c \in Chats : configs[c] # None => configs[c].prompt = runtime.prompt

(* A version names one content: who holds a copy of the version that is in  *)
(* the row holds what is in the row, whoever wrote it.  Commands and the    *)
(* context of a turn tell a changed configuration by its version alone.     *)
SameVersionSameValues ==
  /\ \A f \in Forms : forms[f].step \in {"chat", "chatSaving"} =>
       (forms[f].view.version = configs[forms[f].chat].version => forms[f].view = configs[forms[f].chat])
  /\ \A h \in Handlers : handling[h].step \in {"run", "update"} =>
       (handling[h].seen.version = configs[ChatOf(h)].version => handling[h].seen = configs[ChatOf(h)])

(* Whatever was saved, a phone can be paired: a draft is validated with the *)
(* secrets it is merged with, so the settings never stop a session.         *)
SavedSettingsCanPair == SessionSnapshotFromSettings(Typed(settings))

(* Settings, chats and the copies that are held of them agree.              *)
ConfigurationIsSound ==
  TypeOK /\ ChatsFollowTheRuntime /\ SameVersionSameValues /\ SavedSettingsCanPair

(* The model answers one message of a chat at a time, although two messages *)
(* may build the Agent of the chat at once: there is one gate.              *)
OneInvocationPerChat ==
  \A h, k \in Turns : In(h, "inside") /\ In(k, "inside") /\ ChatOf(h) = ChatOf(k) => h = k

(* A save of a page never undoes what was saved since the page was shown:   *)
(* of the settings, the secrets it kept included, or of a chat.             *)
SavesOnlyWhatWasSeen ==
  [][\A f \in Forms :
       /\ At(f, "saving") /\ settings' # settings /\ forms'[f] # forms[f] => forms[f].view = Public(settings)
       /\ At(f, "chatSaving") /\ configs' # configs /\ forms'[f] # forms[f] =>
            forms[f].view = configs[forms[f].chat]]_vars

=============================================================================
