------------------------ MODULE ConfigurationProofs ------------------------
(***************************************************************************)
(* Proofs about Configuration, for every set of drafts, pages, chats,      *)
(* commands and turns, and every value of the bounds; and, in the second   *)
(* part, about Transcript, for every set of messages, commands and tasks.  *)
(***************************************************************************)
EXTENDS Configuration, Transcript, SequenceTheorems, FiniteSetTheorems, TLAPS

-----------------------------------------------------------------------------
(* The inductive invariant.                                                *)

\* Values that may be saved at a revision.
MayBeSaved(values, revision) ==
  /\ values.draft \in Drafts /\ values.keys \in [Secrets -> 0..revision]
  /\ ValidateDraft(Typed(values))

SettingsOK ==
  /\ settings.revision \in 1..MaxRevision
  /\ MayBeSaved(settings, settings.revision)

ChatsOK ==
  /\ configs \in [Chats -> Configs \cup {None}] /\ runtime \in Runtimes \cup {None}
  /\ agents \in [Chats -> Handlers \cup {None}]
  /\ \A c \in Chats : agents[c] # None => configs[c] # None
  /\ stops \in 0..MaxStops

\* A copy of a row is what it was at its version.
CopyOK(copy, chat) ==
  /\ configs[chat] \in Configs /\ copy \in Configs /\ copy.version <= configs[chat].version
  /\ copy.version = configs[chat].version => copy = configs[chat]

\* What a page shows was read, and what it saves keeps the prompt of the bot.
PageOK(f) ==
  LET page == forms[f]
  IN  /\ page.step \in {"idle", "settings", "saving", "resetting", "chat", "chatSaving"}
      /\ page.step \in {"settings", "saving"} =>
           /\ page.view.revision \in 1..settings.revision
           /\ page.view.revision = settings.revision => page.view = Public(settings)
      /\ page.step = "saving" => MayBeSaved(page.merged, page.view.revision + 1)
      /\ page.step = "resetting" => page.own \in Own
      /\ page.step \in {"chat", "chatSaving"} => page.chat \in Chats /\ CopyOK(page.view, page.chat)
      /\ page.step = "chatSaving" =>
           /\ runtime \in Runtimes /\ page.merged \in Runtimes
           /\ page.merged.prompt = runtime.prompt

\* A message in work was received by the bot that runs, and has its chat's
\* Agent; what a command holds was read, and keeps the prompt.
PlaceOK(h) ==
  LET place == handling[h]
  IN  /\ place.step \in {"idle", "building", "built", "loaded", "run", "update", "ran", "failed", "inside"}
      /\ place.step # "idle" => rows[h] = "received" /\ runtime \in Runtimes
      /\ place.step \notin {"idle", "building"} => configs[ChatOf(h)] \in Configs
      /\ place.step \in {"loaded", "inside"} =>
           place.agent \in Handlers /\ agents[ChatOf(h)] = place.agent
      /\ place.step \in {"run", "update"} => h \in Commands /\ CopyOK(place.seen, ChatOf(h))
      /\ place.step = "update" => place.values \in Runtimes /\ place.values.prompt = runtime.prompt

IInv ==
  /\ SettingsOK /\ ChatsOK
  /\ DOMAIN forms = Forms /\ DOMAIN handling = Handlers /\ DOMAIN rows = Handlers
  /\ \A f \in Forms : PageOK(f)
  /\ \A h \in Handlers : PlaceOK(h)
  /\ ChatsFollowTheRuntime /\ OneInvocationPerChat

-----------------------------------------------------------------------------
(* Lemmas about the rules of the settings.                                 *)

LEMMA SomeFields ==
  /\ "DataDir" \in Fields \ CheckedByAgent /\ "DataDir" \in Defaulted /\ "DataDir" \notin Secrets
  BY DEF Fields, Defaulted, Required, Optional, CheckedByAgent, Secrets

\* A draft that is accepted can pair a phone.
LEMMA AcceptedCanPair ==
  ASSUME NEW s, ValidateDraft(s),
         s \in [status : [Fields -> Status], whatsAppEnabled : BOOLEAN, agentEnabled : BOOLEAN]
  PROVE  SessionSnapshotFromSettings(s)
<1> DEFINE r == [s EXCEPT !.whatsAppEnabled = TRUE, !.agentEnabled = FALSE]
           st == [f \in Fields |-> IF f \in Defaulted /\ s.status[f] = "unset" THEN "ok" ELSE s.status[f]]
<1>1. r.status = s.status /\ ~r.agentEnabled /\ r.whatsAppEnabled OBVIOUS
<1>2. r \in [status : [Fields -> Status], whatsAppEnabled : BOOLEAN, agentEnabled : BOOLEAN] OBVIOUS
<1>3. WithDefaults(s).status = st BY DEF WithDefaults
<1>4. WithDefaults(r).status = st /\ ~WithDefaults(r).agentEnabled
  BY <1>1, <1>2 DEF WithDefaults
<1>5. DraftIssues(WithDefaults(s)) = {} BY DEF ValidateDraft
<1>6. DraftIssues(WithDefaults(r)) = {}
  BY <1>3, <1>4, <1>5 DEF DraftIssues, Bad, Unset, FallbackIncomplete
<1>7. WithDefaults(r).status["DataDir"] = "ok"
  <2>1. st["DataDir"] \in {"ok", "bad"} BY SomeFields DEF Status
  <2>2. st["DataDir"] # "bad" BY <1>3, <1>5, SomeFields DEF DraftIssues, Bad
  <2>3. QED BY <1>4, <2>1, <2>2
<1>8. SnapshotFromSettings(r) BY <1>1, <1>6, <1>7 DEF SnapshotFromSettings, ValidateSession
<1>9. QED BY <1>8 DEF SessionSnapshotFromSettings

LEMMA TypedType ==
  ASSUME NEW values, NEW revision \in Nat, MayBeSaved(values, revision)
  PROVE  Typed(values) \in [status : [Fields -> Status], whatsAppEnabled : BOOLEAN, agentEnabled : BOOLEAN]
<1>1. values.draft.status \in [Fields \ Secrets -> Status] /\ values.draft.whatsAppEnabled \in BOOLEAN
      /\ values.draft.agentEnabled \in BOOLEAN
  BY DraftsFit DEF MayBeSaved
<1>2. QED BY <1>1 DEF Typed, Status

LEMMA SavedCanPair ==
  ASSUME SettingsOK PROVE SessionSnapshotFromSettings(Typed(settings))
<1>1. settings.revision \in Nat /\ ValidateDraft(Typed(settings))
  BY BoundsFit DEF SettingsOK, MayBeSaved
<1>2. PICK values, revision : values = settings /\ revision = settings.revision OBVIOUS
<1>3. MayBeSaved(values, revision) /\ revision \in Nat BY <1>1, <1>2 DEF SettingsOK
<1>4. Typed(values) \in [status : [Fields -> Status], whatsAppEnabled : BOOLEAN, agentEnabled : BOOLEAN]
  BY <1>3, TypedType
<1>5. ValidateDraft(Typed(values)) BY <1>1, <1>2
<1>6. SessionSnapshotFromSettings(Typed(values)) BY <1>4, <1>5, AcceptedCanPair
<1>7. QED BY <1>2, <1>6

-----------------------------------------------------------------------------
(* Lemmas about the rows of the chats.                                     *)

\* A row that exists stays, or becomes one of a later version.
Grow ==
  /\ configs' \in [Chats -> Configs \cup {None}]
  /\ \A c \in Chats : configs[c] # None =>
       configs'[c] # None /\ (configs'[c] = configs[c] \/ configs'[c].version > configs[c].version)

\* A row is not None.
LEMMA RowKinds ==
  ASSUME ChatsOK, NEW c \in Chats
  PROVE  configs[c] # None <=> configs[c] \in Configs
  BY NoneIsNothing DEF ChatsOK

LEMMA RuntimeKinds ==
  ASSUME ChatsOK PROVE runtime # None <=> runtime \in Runtimes
  BY NoneIsNothing DEF ChatsOK

LEMMA StillGrows == ASSUME ChatsOK, configs' = configs PROVE Grow
  BY DEF ChatsOK, Grow

LEMMA CopyStays ==
  ASSUME Grow, NEW c \in Chats, NEW copy, CopyOK(copy, c)
  PROVE  CopyOK(copy, c)'
<1>1. configs[c] \in Configs /\ copy \in Configs /\ copy.version <= configs[c].version
      /\ (copy.version = configs[c].version => copy = configs[c])
  BY DEF CopyOK
<1>2. configs[c] # None BY <1>1, NoneIsNothing
<1>3. configs'[c] \in Configs /\ (configs'[c] = configs[c] \/ configs'[c].version > configs[c].version)
  BY <1>2 DEF Grow
<1>4. copy.version \in Nat /\ configs[c].version \in Nat /\ configs'[c].version \in Nat
  BY <1>1, <1>3, BoundsFit DEF Configs
<1>5. QED BY <1>1, <1>3, <1>4 DEF CopyOK

LEMMA CreatedGrows ==
  ASSUME ChatsOK, runtime # None, NEW c \in Chats, configs' = Created(c)
  PROVE  /\ Grow /\ configs'[c] \in Configs
         /\ \A d \in Chats : configs'[d] = configs[d] \/ configs'[d].prompt = runtime.prompt
<1>1. runtime \in Runtimes BY RuntimeKinds
<1>2. CASE configs[c] # None
  <2>1. configs' = configs BY <1>2 DEF Created
  <2>2. QED BY <1>2, <2>1, StillGrows, RowKinds
<1>3. CASE configs[c] = None
  <2>1. PICK row : row = [version |-> 1, prompt |-> runtime.prompt, own |-> runtime.own] OBVIOUS
  <2>2. row \in Configs /\ row.prompt = runtime.prompt
    BY <1>1, <2>1, BoundsFit DEF Configs, Runtimes
  <2>3. configs' = [configs EXCEPT ![c] = row] BY <1>3, <2>1 DEF Created
  <2>4. configs' \in [Chats -> Configs \cup {None}] /\ configs'[c] = row
        /\ \A d \in Chats \ {c} : configs'[d] = configs[d]
    BY <2>2, <2>3 DEF ChatsOK
  <2>5. QED BY <1>3, <2>2, <2>4 DEF Grow
<1>4. QED BY <1>2, <1>3

LEMMA SwapGrows ==
  ASSUME ChatsOK, NEW c \in Chats, configs[c] \in Configs, NEW expected, NEW values \in Runtimes,
         CompareAndSwap(c, expected, values)
  PROVE  /\ Grow /\ configs[c].version = expected
         /\ \A d \in Chats : configs'[d] = configs[d] \/ (d = c /\ configs'[d].prompt = values.prompt)
<1>1. PICK row : row = [version |-> expected + 1, prompt |-> values.prompt, own |-> values.own] OBVIOUS
<1>2. configs[c].version = expected /\ expected < MaxVersion /\ configs' = [configs EXCEPT ![c] = row]
  BY <1>1 DEF CompareAndSwap
<1>3. expected \in 1..MaxVersion BY <1>2 DEF Configs
<1>4. row \in Configs /\ row.prompt = values.prompt /\ row.version > expected
  BY <1>1, <1>2, <1>3, BoundsFit DEF Configs, Runtimes
<1>5. configs' \in [Chats -> Configs \cup {None}] /\ configs'[c] = row
      /\ \A d \in Chats \ {c} : configs'[d] = configs[d]
  BY <1>2, <1>4 DEF ChatsOK
<1>6. row # None BY <1>4, NoneIsNothing
<1>7. QED BY <1>2, <1>4, <1>5, <1>6 DEF Grow

\* A row that gets a new version with the prompt and the values of its own.
LEMMA NextVersion ==
  ASSUME NEW row \in Configs, row.version < MaxVersion, NEW changed \in Configs,
         changed.version = row.version
  PROVE  LET next == [changed EXCEPT !.version = changed.version + 1]
         IN  next \in Configs /\ next.version > row.version /\ next.prompt = changed.prompt
<1>1. row.version \in 1..MaxVersion BY DEF Configs
<1>2. row.version + 1 \in 1..MaxVersion /\ row.version + 1 > row.version BY <1>1, BoundsFit
<1>3. QED BY <1>2 DEF Configs

LEMMA ReconcileGrows ==
  ASSUME ChatsOK, NEW prompt \in Prompts, ReconcileAccountDefaults(prompt)
  PROVE  Grow /\ \A c \in Chats : configs'[c] # None => configs'[c].prompt = prompt
<1> DEFINE change(row) == [row EXCEPT !.prompt = prompt]
<1>1. /\ \A c \in Chats : configs[c] # None /\ change(configs[c]) # configs[c] => configs[c].version < MaxVersion
      /\ configs' = [c \in Chats |->
           IF configs[c] = None \/ change(configs[c]) = configs[c] THEN configs[c]
           ELSE [change(configs[c]) EXCEPT !.version = change(configs[c]).version + 1]]
  BY DEF ReconcileAccountDefaults, Versioned
<1>2. \A row \in Configs : change(row) \in Configs /\ change(row).version = row.version
                          /\ change(row).prompt = prompt
  BY DEF Configs
<1> HIDE DEF change
<1>3. ASSUME NEW c \in Chats
      PROVE  /\ configs'[c] \in Configs \cup {None}
             /\ configs[c] # None => configs'[c] # None /\ configs'[c].prompt = prompt
                  /\ (configs'[c] = configs[c] \/ configs'[c].version > configs[c].version)
             /\ configs[c] = None => configs'[c] = None
  <2>1. CASE configs[c] = None BY <1>1, <2>1
  <2>2. CASE configs[c] # None
    <3>1. PICK row \in Configs : row = configs[c] BY <2>2, RowKinds
    <3>2. CASE change(row) = row
      <4>1. configs'[c] = row BY <1>1, <3>1, <3>2
      <4>2. QED BY <1>2, <2>2, <3>1, <3>2, <4>1
    <3>3. CASE change(row) # row
      <4>1. row.version < MaxVersion BY <1>1, <2>2, <3>1, <3>3
      <4>2. PICK changed \in Configs : changed = change(row) BY <1>2
      <4>3. configs'[c] = [changed EXCEPT !.version = changed.version + 1]
        BY <1>1, <2>2, <3>1, <3>3, <4>2
      <4>4. changed.version = row.version /\ changed.prompt = prompt BY <1>2, <4>2
      <4>5. configs'[c] \in Configs /\ configs'[c].version > row.version /\ configs'[c].prompt = prompt
        BY <4>1, <4>3, <4>4, NextVersion
      <4>6. QED BY <2>2, <3>1, <4>5, NoneIsNothing
    <3>4. QED BY <3>2, <3>3
  <2>3. QED BY <2>1, <2>2
<1>4. configs' \in [Chats -> Configs \cup {None}]
  <2>1. configs' = [c \in Chats |-> configs'[c]] BY <1>1
  <2>2. QED BY <1>3, <2>1
<1>5. QED BY <1>3, <1>4 DEF Grow

LEMMA ResetGrows ==
  ASSUME ChatsOK, NEW own \in Own, NEW categories, ResetAccountChatSettings(own, categories)
  PROVE  Grow /\ \A c \in Chats : configs'[c] # None =>
                    configs[c] # None /\ configs'[c].prompt = configs[c].prompt
<1> DEFINE change(row) ==
      [row EXCEPT !.own = [rules |-> IF "rules" \in categories THEN own.rules ELSE row.own.rules,
                           override |-> IF "override" \in categories THEN own.override ELSE row.own.override]]
<1>1. /\ \A c \in Chats : configs[c] # None /\ change(configs[c]) # configs[c] => configs[c].version < MaxVersion
      /\ configs' = [c \in Chats |->
           IF configs[c] = None \/ change(configs[c]) = configs[c] THEN configs[c]
           ELSE [change(configs[c]) EXCEPT !.version = change(configs[c]).version + 1]]
  BY DEF ResetAccountChatSettings, Versioned
<1>2. \A row \in Configs : change(row) \in Configs /\ change(row).version = row.version
                          /\ change(row).prompt = row.prompt
  BY DEF Configs, Own
<1> HIDE DEF change
<1>3. ASSUME NEW c \in Chats
      PROVE  /\ configs'[c] \in Configs \cup {None}
             /\ configs[c] # None => configs'[c] # None /\ configs'[c].prompt = configs[c].prompt
                  /\ (configs'[c] = configs[c] \/ configs'[c].version > configs[c].version)
             /\ configs[c] = None => configs'[c] = None
  <2>1. CASE configs[c] = None BY <1>1, <2>1
  <2>2. CASE configs[c] # None
    <3>1. PICK row \in Configs : row = configs[c] BY <2>2, RowKinds
    <3>2. CASE change(row) = row
      <4>1. configs'[c] = row BY <1>1, <3>1, <3>2
      <4>2. QED BY <1>2, <2>2, <3>1, <3>2, <4>1
    <3>3. CASE change(row) # row
      <4>1. row.version < MaxVersion BY <1>1, <2>2, <3>1, <3>3
      <4>2. PICK changed \in Configs : changed = change(row) BY <1>2
      <4>3. configs'[c] = [changed EXCEPT !.version = changed.version + 1]
        BY <1>1, <2>2, <3>1, <3>3, <4>2
      <4>4. changed.version = row.version /\ changed.prompt = row.prompt BY <1>2, <4>2
      <4>5. configs'[c] \in Configs /\ configs'[c].version > row.version /\ configs'[c].prompt = row.prompt
        BY <4>1, <4>3, <4>4, NextVersion
      <4>6. QED BY <2>2, <3>1, <4>5, NoneIsNothing
    <3>4. QED BY <3>2, <3>3
  <2>3. QED BY <2>1, <2>2
<1>4. configs' \in [Chats -> Configs \cup {None}]
  <2>1. configs' = [c \in Chats |-> configs'[c]] BY <1>1
  <2>2. QED BY <1>3, <2>1
<1>5. QED BY <1>3, <1>4 DEF Grow

-----------------------------------------------------------------------------
(* What the pages and handlers hold stays true.                            *)

\* The page of f does not change.
LEMMA PageStays ==
  ASSUME SettingsOK, SettingsOK', Grow, NEW f \in Forms, PageOK(f), forms'[f] = forms[f],
         settings' = settings \/ settings'.revision > settings.revision,
         forms[f].step = "chatSaving" => runtime' = runtime
  PROVE  PageOK(f)'
<1>1. PICK page : page = forms[f] OBVIOUS
<1>2. forms'[f] = page BY <1>1
<1>3. /\ page.step \in {"idle", "settings", "saving", "resetting", "chat", "chatSaving"}
      /\ page.step \in {"settings", "saving"} =>
           /\ page.view.revision \in 1..settings.revision
           /\ page.view.revision = settings.revision => page.view = Public(settings)
      /\ page.step = "saving" => MayBeSaved(page.merged, page.view.revision + 1)
      /\ page.step = "resetting" => page.own \in Own
      /\ page.step \in {"chat", "chatSaving"} => page.chat \in Chats /\ CopyOK(page.view, page.chat)
      /\ page.step = "chatSaving" =>
           /\ runtime \in Runtimes /\ page.merged \in Runtimes
           /\ page.merged.prompt = runtime.prompt
  BY <1>1 DEF PageOK
<1>4. page.step \in {"settings", "saving"} =>
        /\ page.view.revision \in 1..settings'.revision
        /\ page.view.revision = settings'.revision => page.view = Public(settings')
  <2>1. settings.revision \in Nat /\ settings'.revision \in Nat BY BoundsFit DEF SettingsOK
  <2>2. CASE settings' = settings BY <1>3, <2>2
  <2>3. CASE settings'.revision > settings.revision BY <1>3, <2>1, <2>3
  <2>4. QED BY <2>2, <2>3
<1>5. page.step = "saving" => MayBeSaved(page.merged, page.view.revision + 1)' BY <1>3 DEF MayBeSaved
<1>6. page.step \in {"chat", "chatSaving"} => CopyOK(page.view, page.chat)'
  <2>1. PICK view, chat : view = page.view /\ chat = page.chat OBVIOUS
  <2>2. page.step \in {"chat", "chatSaving"} => CopyOK(view, chat)' BY <1>3, <2>1, CopyStays
  <2>3. QED BY <2>1, <2>2
<1>7. page.step = "chatSaving" => runtime' = runtime BY <1>1
<1>8. QED BY <1>2, <1>3, <1>4, <1>5, <1>6, <1>7 DEF PageOK

\* The place of h does not change.
LEMMA PlaceStays ==
  ASSUME Grow, NEW h \in Handlers, PlaceOK(h), handling'[h] = handling[h], rows'[h] = rows[h],
         runtime' = runtime, \A c \in Chats : agents[c] # None => agents'[c] = agents[c]
  PROVE  PlaceOK(h)'
<1>1. PICK place : place = handling[h] OBVIOUS
<1>2. PICK c \in Chats : c = ChatOf(h) BY EditsFit DEF ChatOf
<1>3. /\ place.step \in {"idle", "building", "built", "loaded", "run", "update", "ran", "failed", "inside"}
      /\ place.step # "idle" => rows[h] = "received" /\ runtime \in Runtimes
      /\ place.step \notin {"idle", "building"} => configs[c] \in Configs
      /\ place.step \in {"loaded", "inside"} => place.agent \in Handlers /\ agents[c] = place.agent
      /\ place.step \in {"run", "update"} => h \in Commands /\ CopyOK(place.seen, c)
      /\ place.step = "update" => place.values \in Runtimes /\ place.values.prompt = runtime.prompt
  BY <1>1, <1>2 DEF PlaceOK
<1>4. configs[c] \in Configs => configs'[c] \in Configs BY NoneIsNothing DEF Grow
<1>5. place.step \in {"loaded", "inside"} => agents'[c] = place.agent BY <1>3, NoneIsNothing
<1>6. place.step \in {"run", "update"} => CopyOK(place.seen, c)'
  <2>1. PICK seen : seen = place.seen OBVIOUS
  <2>2. place.step \in {"run", "update"} => CopyOK(seen, c)' BY <1>3, <2>1, CopyStays
  <2>3. QED BY <2>1, <2>2
<1>7. handling'[h] = place /\ rows'[h] = rows[h] BY <1>1
<1>8. QED BY <1>2, <1>3, <1>4, <1>5, <1>6, <1>7 DEF PlaceOK

-----------------------------------------------------------------------------
(* The steps of a page.                                                    *)

\* One page changes, and the settings or the rows of the chats.
LEMMA FormKeeps ==
  ASSUME IInv, NEW f \in Forms, UNCHANGED <<bot, stops>>, DOMAIN forms' = Forms,
         \A g \in Forms \ {f} : forms'[g] = forms[g],
         SettingsOK', settings' = settings \/ settings'.revision > settings.revision,
         Grow, ChatsFollowTheRuntime', PageOK(f)'
  PROVE  IInv'
<1>1. UNCHANGED <<runtime, agents, handling, rows, stops>> BY DEF bot
<1>2. ChatsOK' BY <1>1, NoneIsNothing DEF IInv, ChatsOK, Grow
<1>3. \A g \in Forms : PageOK(g)' BY <1>1, PageStays DEF IInv
<1>4. \A h \in Handlers : PlaceOK(h)' BY <1>1, PlaceStays DEF IInv
<1>5. OneInvocationPerChat' BY <1>1 DEF IInv, OneInvocationPerChat, In
<1>6. QED BY <1>1, <1>2, <1>3, <1>4, <1>5 DEF IInv

\* As Show writes it.
LEMMA Shown ==
  ASSUME DOMAIN forms = Forms, NEW f \in Forms, NEW page, Show(f, page)
  PROVE  DOMAIN forms' = Forms /\ forms'[f] = page /\ \A g \in Forms \ {f} : forms'[g] = forms[g]
  BY DEF Show

\* A page closes, and nothing else changes.
LEMMA IdlePage == ASSUME NEW f \in Forms, forms'[f] = Idle PROVE PageOK(f)'
  BY DEF PageOK, Idle

LEMMA SameChatsFollow ==
  ASSUME IInv, UNCHANGED <<configs, runtime>> PROVE ChatsFollowTheRuntime'
  BY DEF IInv, ChatsFollowTheRuntime

LEMMA GetSettingsStep == ASSUME IInv, NEW f \in Forms, GetSettings(f) PROVE IInv'
<1>1. UNCHANGED <<store, bot, stops>> BY DEF GetSettings
<1>2. PICK page : page = [step |-> "settings", view |-> Public(settings)] OBVIOUS
<1>3. DOMAIN forms' = Forms /\ forms'[f] = page /\ \A g \in Forms \ {f} : forms'[g] = forms[g]
  BY <1>2, Shown DEF GetSettings, IInv
<1>4. UNCHANGED <<settings, configs, runtime>> BY <1>1 DEF store, bot
<1>5. SettingsOK' BY <1>4 DEF IInv, SettingsOK, MayBeSaved
<1>6. PageOK(f)'
  <2>1. page.view.revision = settings.revision /\ settings.revision \in 1..settings.revision
    BY <1>2 DEF Public, IInv, SettingsOK
  <2>2. QED BY <1>2, <1>3, <1>4, <2>1 DEF PageOK
<1>7. Grow BY <1>4, StillGrows DEF IInv
<1>8. ChatsFollowTheRuntime' BY <1>4, SameChatsFollow
<1>9. QED BY <1>1, <1>3, <1>4, <1>5, <1>6, <1>7, <1>8, FormKeeps

LEMMA MergedPatch ==
  ASSUME SettingsOK, NEW patch \in Patches, Accepted(patch)
  PROVE  MayBeSaved(MergePatch(patch), settings.revision + 1)
<1>1. patch.draft \in Drafts /\ patch.secrets \in [Secrets -> {"keep", "clear", "replace"}] BY DraftsFit
<1>2. settings.revision \in Nat /\ settings.keys \in [Secrets -> 0..settings.revision]
  BY BoundsFit DEF SettingsOK, MayBeSaved
<1>3. \A k \in Secrets : MergeSecret(k, patch.secrets[k], settings.keys[k]) \in 0..settings.revision + 1
  BY <1>1, <1>2 DEF MergeSecret
<1>4. MergePatch(patch).draft \in Drafts /\ MergePatch(patch).keys \in [Secrets -> 0..settings.revision + 1]
  BY <1>1, <1>3 DEF MergePatch
<1>5. QED BY <1>4 DEF MayBeSaved, Accepted

LEMMA SaveStep == ASSUME IInv, NEW f \in Forms, NEW patch \in Patches, Save(f, patch) PROVE IInv'
<1>1. UNCHANGED <<store, bot, stops>> /\ forms[f].step = "settings" BY DEF Save, At
<1>2. UNCHANGED <<settings, configs, runtime>> BY <1>1 DEF store, bot
<1>3. SettingsOK' BY <1>2 DEF IInv, SettingsOK, MayBeSaved
<1>4. Grow BY <1>2, StillGrows DEF IInv
<1>5. ChatsFollowTheRuntime' BY <1>2, SameChatsFollow
<1>6. CASE forms[f].view.revision = settings.revision /\ Accepted(patch)
  <2>1. PICK page : page = [step |-> "saving", view |-> forms[f].view, merged |-> MergePatch(patch)] OBVIOUS
  <2>2. DOMAIN forms' = Forms /\ forms'[f] = page /\ \A g \in Forms \ {f} : forms'[g] = forms[g]
    BY <1>6, <2>1, Shown DEF Save, IInv
  <2>3. MayBeSaved(page.merged, page.view.revision + 1)
    <3>1. page.merged = MergePatch(patch) /\ page.view.revision = settings.revision BY <1>6, <2>1
    <3>2. MayBeSaved(MergePatch(patch), settings.revision + 1) BY <1>6, MergedPatch DEF IInv
    <3>3. QED BY <3>1, <3>2
  <2>4. MayBeSaved(page.merged, page.view.revision + 1)' BY <2>3 DEF MayBeSaved
  <2>5. page.view.revision \in 1..settings.revision /\ page.view = Public(settings)
    BY <1>1, <1>6, <2>1 DEF IInv, PageOK
  <2>6. page.step = "saving" BY <2>1
  <2>7. PageOK(f)' BY <1>2, <2>2, <2>4, <2>5, <2>6 DEF PageOK
  <2>8. QED BY <1>1, <1>2, <1>3, <1>4, <1>5, <2>2, <2>7, FormKeeps
<1>7. CASE ~(forms[f].view.revision = settings.revision /\ Accepted(patch))
  <2>1. Show(f, Idle) BY <1>7 DEF Save
  <2>2. DOMAIN forms' = Forms /\ forms'[f] = Idle /\ \A g \in Forms \ {f} : forms'[g] = forms[g]
    BY <2>1, Shown DEF IInv
  <2>3. PageOK(f)' BY <2>2, IdlePage
  <2>4. QED BY <1>1, <1>2, <1>3, <1>4, <1>5, <2>2, <2>3, FormKeeps
<1>8. QED BY <1>6, <1>7

\* SaveValues keeps the settings in order and moves them to the next revision.
LEMMA SavedValues ==
  ASSUME SettingsOK, NEW expected, NEW values, MayBeSaved(values, expected + 1), SaveValues(expected, values)
  PROVE  SettingsOK' /\ settings'.revision > settings.revision
<1>1. settings.revision = expected /\ expected \in 1..MaxRevision /\ expected < MaxRevision
      /\ settings' = [revision |-> expected + 1, draft |-> values.draft, keys |-> values.keys]
  BY DEF SaveValues, SettingsOK
<1>2. settings'.revision = expected + 1 /\ settings'.draft = values.draft /\ settings'.keys = values.keys
  BY <1>1
<1>3. expected + 1 \in 1..MaxRevision /\ expected + 1 > expected BY <1>1, BoundsFit
<1>4. Typed(settings') = Typed(values) BY <1>2 DEF Typed
<1>5. MayBeSaved(settings', expected + 1)
  <2>1. settings'.draft \in Drafts /\ settings'.keys \in [Secrets -> 0..expected + 1]
    BY <1>2 DEF MayBeSaved
  <2>2. ValidateDraft(Typed(settings')) BY <1>4 DEF MayBeSaved
  <2>3. QED BY <2>1, <2>2 DEF MayBeSaved
<1>6. QED BY <1>1, <1>2, <1>3, <1>5 DEF SettingsOK, MayBeSaved

LEMMA CommitSaveStep == ASSUME IInv, NEW f \in Forms, CommitSave(f) PROVE IInv'
<1>1. UNCHANGED <<configs, bot, stops>> /\ forms[f].step = "saving" /\ Show(f, Idle)
  BY DEF CommitSave, At
<1>2. UNCHANGED <<configs, runtime>> BY <1>1 DEF bot
<1>3. DOMAIN forms' = Forms /\ forms'[f] = Idle /\ \A g \in Forms \ {f} : forms'[g] = forms[g]
  BY <1>1, Shown DEF IInv
<1>4. PageOK(f)' BY <1>3, IdlePage
<1>5. Grow BY <1>2, StillGrows DEF IInv
<1>6. ChatsFollowTheRuntime' BY <1>2, SameChatsFollow
<1>7. PICK expected, values : expected = forms[f].view.revision /\ values = forms[f].merged OBVIOUS
<1>8. SettingsOK' /\ (settings' = settings \/ settings'.revision > settings.revision)
  <2>1. CASE settings' = settings BY <2>1 DEF IInv, SettingsOK, MayBeSaved
  <2>2. CASE settings' # settings
    <3>1. SaveValues(expected, values) BY <1>7, <2>2 DEF CommitSave
    <3>2. MayBeSaved(values, expected + 1) BY <1>1, <1>7 DEF IInv, PageOK
    <3>3. QED BY <3>1, <3>2, SavedValues DEF IInv
  <2>3. QED BY <2>1, <2>2
<1>9. QED BY <1>1, <1>3, <1>4, <1>5, <1>6, <1>8, FormKeeps

LEMMA ResetChatsStep ==
  ASSUME IInv, NEW f \in Forms, NEW categories, ResetChats(f, categories) PROVE IInv'
<1>1. UNCHANGED <<store, bot, stops>> BY DEF ResetChats
<1>2. UNCHANGED <<settings, configs, runtime>> BY <1>1 DEF store, bot
<1>3. PICK page : page = [step |-> "resetting", own |-> settings.draft.own, categories |-> categories]
  OBVIOUS
<1>4. DOMAIN forms' = Forms /\ forms'[f] = page /\ \A g \in Forms \ {f} : forms'[g] = forms[g]
  BY <1>3, Shown DEF ResetChats, IInv
<1>5. SettingsOK' BY <1>2 DEF IInv, SettingsOK, MayBeSaved
<1>6. settings.draft.own \in Own BY DraftsFit DEF IInv, SettingsOK, MayBeSaved
<1>7. PageOK(f)' BY <1>3, <1>4, <1>6 DEF PageOK
<1>8. Grow BY <1>2, StillGrows DEF IInv
<1>9. ChatsFollowTheRuntime' BY <1>2, SameChatsFollow
<1>10. QED BY <1>1, <1>2, <1>4, <1>5, <1>7, <1>8, <1>9, FormKeeps

LEMMA CommitResetStep == ASSUME IInv, NEW f \in Forms, CommitReset(f) PROVE IInv'
<1>1. UNCHANGED <<settings, bot, stops>> /\ forms[f].step = "resetting" /\ Show(f, Idle)
  BY DEF CommitReset, At
<1>2. UNCHANGED <<settings, runtime>> BY <1>1 DEF bot
<1>3. DOMAIN forms' = Forms /\ forms'[f] = Idle /\ \A g \in Forms \ {f} : forms'[g] = forms[g]
  BY <1>1, Shown DEF IInv
<1>4. PageOK(f)' BY <1>3, IdlePage
<1>5. SettingsOK' BY <1>2 DEF IInv, SettingsOK, MayBeSaved
<1>6. Grow /\ ChatsFollowTheRuntime'
  <2>1. CASE runtime = None
    <3>1. UNCHANGED <<configs, runtime>> BY <1>2, <2>1 DEF CommitReset
    <3>2. QED BY <3>1, StillGrows, SameChatsFollow DEF IInv
  <2>2. CASE runtime # None
    <3>1. PICK own, categories : own = forms[f].own /\ categories = forms[f].categories OBVIOUS
    <3>2. own \in Own BY <1>1, <3>1 DEF IInv, PageOK
    <3>3. ResetAccountChatSettings(own, categories) BY <2>2, <3>1 DEF CommitReset
    <3>4. Grow /\ \A c \in Chats : configs'[c] # None =>
                    configs[c] # None /\ configs'[c].prompt = configs[c].prompt
      BY <3>2, <3>3, ResetGrows DEF IInv
    <3>5. QED BY <1>2, <3>4 DEF IInv, ChatsFollowTheRuntime
  <2>3. QED BY <2>1, <2>2
<1>7. QED BY <1>1, <1>3, <1>4, <1>5, <1>6, FormKeeps

LEMMA GetChatSettingsStep ==
  ASSUME IInv, NEW f \in Forms, NEW chat \in Chats, GetChatSettings(f, chat) PROVE IInv'
<1>1. UNCHANGED <<settings, bot, stops>> /\ runtime # None /\ configs' = Created(chat)
  BY DEF GetChatSettings, LoadOrCreate
<1>2. UNCHANGED <<settings, runtime>> BY <1>1 DEF bot
<1>3. PICK page : page = [step |-> "chat", chat |-> chat, view |-> configs'[chat]] OBVIOUS
<1>4. DOMAIN forms' = Forms /\ forms'[f] = page /\ \A g \in Forms \ {f} : forms'[g] = forms[g]
  BY <1>3, Shown DEF GetChatSettings, IInv
<1>5. SettingsOK' BY <1>2 DEF IInv, SettingsOK, MayBeSaved
<1>6. Grow /\ configs'[chat] \in Configs
      /\ \A d \in Chats : configs'[d] = configs[d] \/ configs'[d].prompt = runtime.prompt
  BY <1>1, CreatedGrows DEF IInv
<1>7. PageOK(f)'
  <2>1. configs'[chat].version \in Nat BY <1>6, BoundsFit DEF Configs
  <2>2. CopyOK(page.view, page.chat)' BY <1>3, <1>6, <2>1 DEF CopyOK
  <2>3. page.step = "chat" /\ page.chat \in Chats BY <1>3
  <2>4. QED BY <1>4, <2>2, <2>3 DEF PageOK
<1>8. ChatsFollowTheRuntime' BY <1>2, <1>6 DEF IInv, ChatsFollowTheRuntime
<1>9. QED BY <1>1, <1>4, <1>5, <1>6, <1>7, <1>8, FormKeeps

LEMMA SaveChatSettingsStep ==
  ASSUME IInv, NEW f \in Forms, NEW own \in Own, SaveChatSettings(f, own) PROVE IInv'
<1>1. UNCHANGED <<store, bot, stops>> /\ forms[f].step = "chat" /\ runtime # None
  BY DEF SaveChatSettings, At
<1>2. UNCHANGED <<settings, configs, runtime>> BY <1>1 DEF store, bot
<1>3. PICK page : page = [step |-> "chatSaving", chat |-> forms[f].chat, view |-> forms[f].view,
                          merged |-> MergeChat(f, own)]
  OBVIOUS
<1>4. DOMAIN forms' = Forms /\ forms'[f] = page /\ \A g \in Forms \ {f} : forms'[g] = forms[g]
  BY <1>3, Shown DEF SaveChatSettings, IInv
<1>5. SettingsOK' BY <1>2 DEF IInv, SettingsOK, MayBeSaved
<1>6. Grow BY <1>2, StillGrows DEF IInv
<1>7. ChatsFollowTheRuntime' BY <1>2, SameChatsFollow
<1>8. PageOK(f)'
  <2>1. page.chat = forms[f].chat /\ page.view = forms[f].view /\ page.step = "chatSaving"
        /\ page.merged = [prompt |-> configs[page.chat].prompt, own |-> own]
    BY <1>3 DEF MergeChat
  <2>2. page.chat \in Chats /\ CopyOK(page.view, page.chat) BY <1>1, <2>1 DEF IInv, PageOK
  <2>3. CopyOK(page.view, page.chat)' BY <1>2, <2>2 DEF CopyOK
  <2>4. configs[page.chat] \in Configs BY <2>2 DEF CopyOK
  <2>5. configs[page.chat].prompt = runtime.prompt
    BY <1>1, <2>2, <2>4, NoneIsNothing DEF IInv, ChatsFollowTheRuntime
  <2>6. page.merged \in Runtimes /\ page.merged.prompt = runtime.prompt
    BY <2>1, <2>4, <2>5 DEF Configs, Runtimes
  <2>7. runtime \in Runtimes BY <1>1, RuntimeKinds DEF IInv
  <2>8. QED BY <1>2, <1>4, <2>1, <2>2, <2>3, <2>6, <2>7 DEF PageOK
<1>9. QED BY <1>1, <1>2, <1>4, <1>5, <1>6, <1>7, <1>8, FormKeeps

LEMMA CommitChatStep == ASSUME IInv, NEW f \in Forms, CommitChat(f) PROVE IInv'
<1>1. UNCHANGED <<settings, bot, stops>> /\ forms[f].step = "chatSaving" /\ Show(f, Idle)
  BY DEF CommitChat, At
<1>2. UNCHANGED <<settings, runtime>> BY <1>1 DEF bot
<1>3. DOMAIN forms' = Forms /\ forms'[f] = Idle /\ \A g \in Forms \ {f} : forms'[g] = forms[g]
  BY <1>1, Shown DEF IInv
<1>4. PageOK(f)' BY <1>3, IdlePage
<1>5. SettingsOK' BY <1>2 DEF IInv, SettingsOK, MayBeSaved
<1>6. PICK chat, expected, values :
        chat = forms[f].chat /\ expected = forms[f].view.version /\ values = forms[f].merged
  OBVIOUS
<1>7. chat \in Chats /\ configs[chat] \in Configs /\ values \in Runtimes /\ values.prompt = runtime.prompt
  BY <1>1, <1>6 DEF IInv, PageOK, CopyOK
<1>8. Grow /\ ChatsFollowTheRuntime'
  <2>1. CASE configs' = configs BY <1>2, <2>1, StillGrows, SameChatsFollow DEF IInv
  <2>2. CASE configs' # configs
    <3>1. CompareAndSwap(chat, expected, values) BY <1>6, <2>2 DEF CommitChat, Stale
    <3>2. Grow /\ \A d \in Chats : configs'[d] = configs[d] \/ (d = chat /\ configs'[d].prompt = values.prompt)
      BY <1>7, <3>1, SwapGrows DEF IInv
    <3>3. QED BY <1>2, <1>7, <3>2 DEF IInv, ChatsFollowTheRuntime
  <2>3. QED BY <2>1, <2>2
<1>9. QED BY <1>1, <1>3, <1>4, <1>5, <1>8, FormKeeps

-----------------------------------------------------------------------------
(* The steps of a message.                                                 *)

\* One message goes on, and the rows of the chats or the agents change.
LEMMA HandlerKeeps ==
  ASSUME IInv, NEW h \in Handlers, UNCHANGED <<settings, runtime, forms, stops>>,
         DOMAIN handling' = Handlers, DOMAIN rows' = Handlers,
         \A k \in Handlers \ {h} : handling'[k] = handling[k] /\ rows'[k] = rows[k],
         Grow, ChatsFollowTheRuntime',
         agents' \in [Chats -> Handlers \cup {None}],
         \A c \in Chats : agents[c] # None => agents'[c] = agents[c],
         \A c \in Chats : agents'[c] # None => agents[c] # None \/ configs[c] # None,
         PlaceOK(h)',
         \/ handling'[h].step # "inside"
         \/ /\ h \in Turns /\ handling[h].step = "loaded" /\ handling'[h].agent = handling[h].agent
            /\ GateIsFree(handling[h].agent)
  PROVE  IInv'
<1>1. SettingsOK' BY DEF IInv, SettingsOK, MayBeSaved
<1>2. ChatsOK' BY NoneIsNothing DEF IInv, ChatsOK, Grow
<1>3. \A f \in Forms : PageOK(f)' BY <1>1, PageStays DEF IInv
<1>4. \A k \in Handlers : PlaceOK(k)' BY PlaceStays DEF IInv
<1>5. OneInvocationPerChat'
  <2>1. \A k \in Turns : k \in Handlers BY DEF Handlers
  <2>2. CASE handling'[h].step # "inside"
    BY <2>1, <2>2 DEF IInv, OneInvocationPerChat, In
  <2>3. CASE h \in Turns /\ handling[h].step = "loaded" /\ GateIsFree(handling[h].agent)
    <3>1. handling[h].agent = agents[ChatOf(h)] BY <2>3 DEF IInv, PlaceOK
    <3>2. ASSUME NEW k \in Turns \ {h}, handling'[k].step = "inside", ChatOf(k) = ChatOf(h)
          PROVE  FALSE
      <4>1. handling[k].step = "inside" BY <2>1, <3>2
      <4>2. handling[k].agent = handling[h].agent BY <2>1, <3>1, <3>2, <4>1 DEF IInv, PlaceOK
      <4>3. QED BY <2>3, <4>1, <4>2 DEF GateIsFree, Holds, In
    <3>3. QED BY <2>1, <3>2 DEF IInv, OneInvocationPerChat, In
  <2>4. QED BY <2>2, <2>3
<1>6. QED BY <1>1, <1>2, <1>3, <1>4, <1>5 DEF IInv

\* As Put writes it.
LEMMA Placed ==
  ASSUME DOMAIN handling = Handlers, NEW h \in Handlers, NEW place, Put(h, place)
  PROVE  DOMAIN handling' = Handlers /\ handling'[h] = place
         /\ \A k \in Handlers \ {h} : handling'[k] = handling[k]
  BY DEF Put

\* A message goes on, and nothing else but its row changes.
LEMMA QuietHandler ==
  ASSUME IInv, NEW h \in Handlers, UNCHANGED <<store, runtime, agents, forms, stops>>,
         DOMAIN handling' = Handlers, DOMAIN rows' = Handlers,
         \A k \in Handlers \ {h} : handling'[k] = handling[k] /\ rows'[k] = rows[k],
         PlaceOK(h)',
         \/ handling'[h].step # "inside"
         \/ /\ h \in Turns /\ handling[h].step = "loaded" /\ handling'[h].agent = handling[h].agent
            /\ GateIsFree(handling[h].agent)
  PROVE  IInv'
<1>1. UNCHANGED <<settings, configs>> BY DEF store
<1>2. Grow BY <1>1, StillGrows DEF IInv
<1>3. ChatsFollowTheRuntime' BY <1>1, SameChatsFollow
<1>4. agents' \in [Chats -> Handlers \cup {None}] BY DEF IInv, ChatsOK
<1>5. QED BY <1>1, <1>2, <1>3, <1>4, HandlerKeeps

LEMMA ChatType == ASSUME NEW h \in Handlers PROVE ChatOf(h) \in Chats
  BY EditsFit DEF ChatOf

LEMMA BeginStep == ASSUME IInv, NEW h \in Handlers, Begin(h) PROVE IInv'
<1>1. /\ UNCHANGED <<store, runtime, agents, forms, stops>> /\ runtime # None
      /\ rows' = [rows EXCEPT ![h] = "received"]
  BY DEF Begin
<1>2. DOMAIN rows' = Handlers /\ rows'[h] = "received" /\ \A k \in Handlers \ {h} : rows'[k] = rows[k]
  BY <1>1 DEF IInv
<1>3. runtime \in Runtimes BY <1>1, RuntimeKinds DEF IInv
<1>4. UNCHANGED <<settings, configs>> BY <1>1 DEF store
<1>5. PICK c \in Chats : c = ChatOf(h) BY ChatType
<1>6. CASE agents[c] = None
  <2>1. PICK place : place = [step |-> "building"] OBVIOUS
  <2>2. Put(h, place) BY <1>5, <1>6, <2>1 DEF Begin
  <2>3. /\ DOMAIN handling' = Handlers /\ handling'[h] = place
        /\ \A k \in Handlers \ {h} : handling'[k] = handling[k]
    BY <2>2, Placed DEF IInv
  <2>4. PlaceOK(h)' BY <1>1, <1>2, <1>3, <2>1, <2>3 DEF PlaceOK
  <2>5. handling'[h].step # "inside" BY <2>1, <2>3
  <2>6. QED BY <1>1, <1>2, <2>3, <2>4, <2>5, QuietHandler
<1>7. CASE agents[c] # None
  <2>1. PICK place : place = [step |-> "loaded", agent |-> agents[c]] OBVIOUS
  <2>2. Put(h, place) BY <1>5, <1>7, <2>1 DEF Begin
  <2>3. /\ DOMAIN handling' = Handlers /\ handling'[h] = place
        /\ \A k \in Handlers \ {h} : handling'[k] = handling[k]
    BY <2>2, Placed DEF IInv
  <2>4. configs[c] \in Configs /\ agents[c] \in Handlers BY <1>7, RowKinds DEF IInv, ChatsOK
  <2>5. PlaceOK(h)' BY <1>1, <1>2, <1>3, <1>4, <1>5, <2>1, <2>3, <2>4 DEF PlaceOK
  <2>6. handling'[h].step # "inside" BY <2>1, <2>3
  <2>7. QED BY <1>1, <1>2, <2>3, <2>5, <2>6, QuietHandler
<1>8. QED BY <1>6, <1>7

LEMMA NewAgentStep == ASSUME IInv, NEW h \in Handlers, NewAgent(h) PROVE IInv'
<1>1. PICK c \in Chats : c = ChatOf(h) BY ChatType
<1>2. /\ UNCHANGED <<settings, runtime, agents, rows, forms, stops>> /\ configs' = Created(c)
      /\ handling[h].step = "building"
  BY <1>1 DEF NewAgent, LoadOrCreate, In
<1>3. rows[h] = "received" /\ runtime \in Runtimes /\ runtime # None
  BY <1>2, NoneIsNothing DEF IInv, PlaceOK
<1>4. PICK place : place = [step |-> "built"] OBVIOUS
<1>5. Put(h, place) BY <1>4 DEF NewAgent
<1>6. /\ DOMAIN handling' = Handlers /\ handling'[h] = place
      /\ \A k \in Handlers \ {h} : handling'[k] = handling[k]
  BY <1>5, Placed DEF IInv
<1>7. Grow /\ configs'[c] \in Configs
      /\ \A d \in Chats : configs'[d] = configs[d] \/ configs'[d].prompt = runtime.prompt
  BY <1>2, <1>3, CreatedGrows DEF IInv
<1>8. ChatsFollowTheRuntime' BY <1>2, <1>7 DEF IInv, ChatsFollowTheRuntime
<1>9. PlaceOK(h)' BY <1>1, <1>2, <1>3, <1>4, <1>6, <1>7 DEF PlaceOK
<1>10. handling'[h].step # "inside" BY <1>4, <1>6
<1>11. DOMAIN rows' = Handlers /\ agents' \in [Chats -> Handlers \cup {None}]
  BY <1>2 DEF IInv, ChatsOK
<1>12. QED BY <1>2, <1>6, <1>7, <1>8, <1>9, <1>10, <1>11, HandlerKeeps

LEMMA AgentForStep == ASSUME IInv, NEW h \in Handlers, AgentFor(h) PROVE IInv'
<1>1. PICK c \in Chats : c = ChatOf(h) BY ChatType
<1>2. UNCHANGED <<store, runtime, rows, forms, stops>> /\ handling[h].step = "built"
  BY DEF AgentFor, In
<1>3. PICK first : first = IF agents[c] = None THEN h ELSE agents[c] OBVIOUS
<1>4. PICK place : place = [step |-> "loaded", agent |-> first] OBVIOUS
<1>5. agents' = [agents EXCEPT ![c] = first] /\ Put(h, place)
  BY <1>1, <1>3, <1>4 DEF AgentFor, KeepAgent
<1>6. /\ DOMAIN handling' = Handlers /\ handling'[h] = place
      /\ \A k \in Handlers \ {h} : handling'[k] = handling[k]
  BY <1>5, Placed DEF IInv
<1>7. /\ first \in Handlers /\ agents' \in [Chats -> Handlers \cup {None}] /\ agents'[c] = first
      /\ \A d \in Chats : agents[d] # None => agents'[d] = agents[d]
      /\ \A d \in Chats \ {c} : agents'[d] = agents[d]
  BY <1>3, <1>5 DEF IInv, ChatsOK
<1>8. /\ rows[h] = "received" /\ runtime \in Runtimes /\ configs[c] \in Configs
  BY <1>1, <1>2 DEF IInv, PlaceOK
<1>9. UNCHANGED <<settings, configs>> BY <1>2 DEF store
<1>10. PlaceOK(h)' BY <1>1, <1>2, <1>4, <1>6, <1>7, <1>8, <1>9 DEF PlaceOK
<1>11. Grow BY <1>9, StillGrows DEF IInv
<1>12. ChatsFollowTheRuntime' BY <1>2, <1>9, SameChatsFollow
<1>13. \A d \in Chats : agents'[d] # None => agents[d] # None \/ configs[d] # None
  BY <1>7, <1>8, NoneIsNothing
<1>14. handling'[h].step # "inside" BY <1>4, <1>6
<1>15. DOMAIN rows' = Handlers BY <1>2 DEF IInv
<1>16. QED
  BY <1>2, <1>6, <1>7, <1>9, <1>10, <1>11, <1>12, <1>13, <1>14, <1>15, HandlerKeeps

LEMMA RefreshStep == ASSUME IInv, NEW h \in Handlers, Refresh(h) PROVE IInv'
<1>1. PICK c \in Chats : c = ChatOf(h) BY ChatType
<1>2. /\ UNCHANGED <<store, runtime, agents, rows, forms, stops>>
      /\ h \in Commands /\ handling[h].step = "loaded"
  BY DEF Refresh, In
<1>3. UNCHANGED <<settings, configs>> BY <1>2 DEF store
<1>4. PICK place : place = [step |-> "run", seen |-> configs[c]] OBVIOUS
<1>5. Put(h, place) BY <1>1, <1>4 DEF Refresh
<1>6. /\ DOMAIN handling' = Handlers /\ handling'[h] = place
      /\ \A k \in Handlers \ {h} : handling'[k] = handling[k]
  BY <1>5, Placed DEF IInv
<1>7. rows[h] = "received" /\ runtime \in Runtimes /\ configs[c] \in Configs
  BY <1>1, <1>2 DEF IInv, PlaceOK
<1>8. CopyOK(place.seen, c)'
  <2>1. configs[c].version \in Nat BY <1>7, BoundsFit DEF Configs
  <2>2. QED BY <1>3, <1>4, <1>7, <2>1 DEF CopyOK
<1>9. PlaceOK(h)' BY <1>1, <1>2, <1>3, <1>4, <1>6, <1>7, <1>8 DEF PlaceOK
<1>10. handling'[h].step # "inside" /\ DOMAIN rows' = Handlers BY <1>2, <1>4, <1>6 DEF IInv
<1>11. QED BY <1>2, <1>6, <1>9, <1>10, QuietHandler

\* What a command makes of a chat's own values is a chat's own values.
LEMMA ChangedType ==
  ASSUME NEW h \in Commands, NEW own \in Own PROVE Changed(h, own) \in Own
<1>1. own.rules \in Seq(Rules) /\ own.override \in Overrides BY DEF Own
<1>2. CASE Edit[h].kind = "add"
  <2>1. PICK value \in Rules : value = Edit[h].value BY <1>2, EditsFit DEF Handlers
  <2>2. PICK rules \in Seq(Rules) : rules = own.rules BY <1>1
  <2>3. PICK longer : longer = Append(rules, value) OBVIOUS
  <2>4. longer \in Seq(Rules) BY <2>3, AppendProperties
  <2>5. Changed(h, own) = [own EXCEPT !.rules = longer] BY <1>2, <2>1, <2>2, <2>3 DEF Changed
  <2>6. QED BY <2>4, <2>5 DEF Own
<1>3. CASE Edit[h].kind = "remove"
  <2>1. PICK rules \in Seq(Rules) : rules = own.rules BY <1>1
  <2>2. PICK shorter : shorter = IF rules = <<>> THEN rules ELSE Tail(rules) OBVIOUS
  <2>3. shorter \in Seq(Rules) BY <2>2, HeadTailProperties
  <2>4. Changed(h, own) = [own EXCEPT !.rules = shorter] BY <1>3, <2>1, <2>2 DEF Changed
  <2>5. QED BY <2>3, <2>4 DEF Own
<1>4. CASE Edit[h].kind \notin {"add", "remove"}
  <2>1. PICK value \in Overrides : value = Edit[h].value BY <1>4, EditsFit DEF Handlers
  <2>2. Changed(h, own) = [own EXCEPT !.override = value] BY <1>4, <2>1 DEF Changed
  <2>3. QED BY <2>2 DEF Own
<1>5. QED BY <1>2, <1>3, <1>4

LEMMA UpdateConfigStep == ASSUME IInv, NEW h \in Handlers, UpdateConfig(h) PROVE IInv'
<1>1. PICK c \in Chats : c = ChatOf(h) BY ChatType
<1>2. UNCHANGED <<store, runtime, agents, rows, forms, stops>> /\ handling[h].step = "run"
  BY DEF UpdateConfig, In
<1>3. UNCHANGED <<settings, configs>> BY <1>2 DEF store
<1>4. PICK seen : seen = handling[h].seen OBVIOUS
<1>5. /\ rows[h] = "received" /\ runtime \in Runtimes /\ configs[c] \in Configs
      /\ h \in Commands /\ CopyOK(seen, c)
  BY <1>1, <1>2, <1>4 DEF IInv, PlaceOK
<1>6. CopyOK(seen, c)' BY <1>3, <1>5 DEF CopyOK
<1>7. PICK row \in Configs : row = configs[c] BY <1>5
<1>8. PICK own : own = Changed(h, row.own) OBVIOUS
<1>9. own \in Own BY <1>5, <1>7, <1>8, ChangedType DEF Configs
<1>10. row.prompt = runtime.prompt
  BY <1>5, <1>7, NoneIsNothing DEF IInv, ChatsFollowTheRuntime
<1>11. PICK values : values = [prompt |-> row.prompt, own |-> own] OBVIOUS
<1>12. values \in Runtimes /\ values.prompt = runtime.prompt
  BY <1>7, <1>9, <1>10, <1>11 DEF Configs, Runtimes
<1>13. PICK place : /\ Put(h, place)
                    /\ \/ place = [step |-> "ran"] \/ place = [step |-> "failed"]
                       \/ place = [step |-> "update", seen |-> seen, values |-> values]
  BY <1>1, <1>4, <1>7, <1>8, <1>11 DEF UpdateConfig
<1>14. /\ DOMAIN handling' = Handlers /\ handling'[h] = place
       /\ \A k \in Handlers \ {h} : handling'[k] = handling[k]
  BY <1>13, Placed DEF IInv
<1>15. place.step \in {"ran", "failed", "update"}
       /\ (place.step = "update" => place.seen = seen /\ place.values = values)
  BY <1>13
<1>16. PlaceOK(h)' BY <1>1, <1>2, <1>3, <1>5, <1>6, <1>12, <1>14, <1>15 DEF PlaceOK
<1>17. handling'[h].step # "inside" /\ DOMAIN rows' = Handlers BY <1>2, <1>14, <1>15 DEF IInv
<1>18. QED BY <1>2, <1>14, <1>16, <1>17, QuietHandler

LEMMA UpdateStep == ASSUME IInv, NEW h \in Handlers, Update(h) PROVE IInv'
<1>1. PICK c \in Chats : c = ChatOf(h) BY ChatType
<1>2. UNCHANGED <<settings, runtime, agents, rows, forms, stops>> /\ handling[h].step = "update"
  BY DEF Update, In
<1>3. PICK expected, values : expected = handling[h].seen.version /\ values = handling[h].values OBVIOUS
<1>4. /\ rows[h] = "received" /\ runtime \in Runtimes /\ configs[c] \in Configs
      /\ values \in Runtimes /\ values.prompt = runtime.prompt
  BY <1>1, <1>2, <1>3 DEF IInv, PlaceOK
<1>5. PICK place : /\ Put(h, place) /\ (place = [step |-> "ran"] \/ place = [step |-> "failed"])
                   /\ CompareAndSwap(c, expected, values) \/ Stale(c, expected)
  BY <1>1, <1>3 DEF Update
<1>6. /\ DOMAIN handling' = Handlers /\ handling'[h] = place
      /\ \A k \in Handlers \ {h} : handling'[k] = handling[k]
  BY <1>5, Placed DEF IInv
<1>7. Grow /\ ChatsFollowTheRuntime'
  <2>1. CASE CompareAndSwap(c, expected, values)
    <3>1. Grow /\ \A d \in Chats : configs'[d] = configs[d] \/ (d = c /\ configs'[d].prompt = values.prompt)
      BY <1>4, <2>1, SwapGrows DEF IInv
    <3>2. QED BY <1>2, <1>4, <3>1 DEF IInv, ChatsFollowTheRuntime
  <2>2. CASE Stale(c, expected)
    <3>1. configs' = configs BY <2>2 DEF Stale
    <3>2. QED BY <1>2, <3>1, StillGrows, SameChatsFollow DEF IInv
  <2>3. QED BY <1>5, <2>1, <2>2
<1>8. configs'[c] \in Configs BY <1>4, <1>7, NoneIsNothing DEF Grow
<1>9. place.step \in {"ran", "failed"} BY <1>5
<1>10. PlaceOK(h)' BY <1>1, <1>2, <1>4, <1>6, <1>8, <1>9 DEF PlaceOK
<1>11. handling'[h].step # "inside" /\ DOMAIN rows' = Handlers BY <1>2, <1>6, <1>9 DEF IInv
<1>12. agents' \in [Chats -> Handlers \cup {None}] BY <1>2 DEF IInv, ChatsOK
<1>13. QED BY <1>2, <1>6, <1>7, <1>10, <1>11, <1>12, HandlerKeeps

\* A message is done.
LEMMA IdlePlace == ASSUME NEW h \in Handlers, handling'[h] = Idle PROVE PlaceOK(h)' /\ handling'[h].step # "inside"
  BY DEF PlaceOK, Idle

LEMMA DoneStep ==
  ASSUME IInv, NEW h \in Handlers, rows' = [rows EXCEPT ![h] = "done"], Put(h, Idle),
         UNCHANGED <<store, runtime, agents, forms, stops>>
  PROVE  IInv'
<1>1. /\ DOMAIN handling' = Handlers /\ handling'[h] = Idle
      /\ \A k \in Handlers \ {h} : handling'[k] = handling[k]
  BY Placed DEF IInv
<1>2. DOMAIN rows' = Handlers /\ \A k \in Handlers \ {h} : rows'[k] = rows[k] BY DEF IInv
<1>3. PlaceOK(h)' /\ handling'[h].step # "inside" BY <1>1, IdlePlace
<1>4. QED BY <1>1, <1>2, <1>3, QuietHandler

LEMMA CloseCommandStep == ASSUME IInv, NEW h \in Handlers, CloseCommand(h) PROVE IInv'
  BY DoneStep DEF CloseCommand

LEMMA ReleaseStep == ASSUME IInv, NEW h \in Handlers, Release(h) PROVE IInv'
  BY DoneStep DEF Release

LEMMA AcquireStep == ASSUME IInv, NEW h \in Handlers, Acquire(h) PROVE IInv'
<1>1. PICK c \in Chats : c = ChatOf(h) BY ChatType
<1>2. /\ UNCHANGED <<store, runtime, agents, rows, forms, stops>> /\ handling[h].step = "loaded"
      /\ h \in Turns /\ GateIsFree(handling[h].agent)
  BY DEF Acquire, In
<1>3. UNCHANGED <<settings, configs>> BY <1>2 DEF store
<1>4. PICK place : place = [step |-> "inside", agent |-> handling[h].agent] OBVIOUS
<1>5. Put(h, place) BY <1>4 DEF Acquire
<1>6. /\ DOMAIN handling' = Handlers /\ handling'[h] = place
      /\ \A k \in Handlers \ {h} : handling'[k] = handling[k]
  BY <1>5, Placed DEF IInv
<1>7. /\ rows[h] = "received" /\ runtime \in Runtimes /\ configs[c] \in Configs
      /\ handling[h].agent \in Handlers /\ agents[c] = handling[h].agent
  BY <1>1, <1>2 DEF IInv, PlaceOK
<1>8. PlaceOK(h)' BY <1>1, <1>2, <1>3, <1>4, <1>6, <1>7 DEF PlaceOK
<1>9. handling'[h].agent = handling[h].agent /\ DOMAIN rows' = Handlers BY <1>2, <1>4, <1>6 DEF IInv
<1>10. QED BY <1>2, <1>6, <1>8, <1>9, QuietHandler

-----------------------------------------------------------------------------
(* The start and the end of the bot.                                       *)

\* Without a bot no message is in work and no chat is being written.
LEMMA NothingWithoutABot ==
  ASSUME IInv, runtime = None
  PROVE  /\ \A h \in Handlers : handling[h].step = "idle"
         /\ \A f \in Forms : forms[f].step # "chatSaving"
  BY NoneIsNothing DEF IInv, PageOK, PlaceOK

LEMMA StartStep == ASSUME IInv, Start PROVE IInv'
<1>1. PICK prompt, own : prompt = settings.draft.prompt /\ own = settings.draft.own OBVIOUS
<1>2. /\ UNCHANGED <<settings, agents, handling, rows, forms, stops>> /\ runtime = None
      /\ runtime' = [prompt |-> prompt, own |-> own] /\ ReconcileAccountDefaults(prompt)
  BY <1>1 DEF Start
<1>3. settings.draft \in Drafts BY DEF IInv, SettingsOK, MayBeSaved
<1>4. prompt \in Prompts /\ own \in Own BY <1>1, <1>3, DraftsFit DEF Prompts
<1>5. runtime' \in Runtimes /\ runtime'.prompt = prompt BY <1>2, <1>4 DEF Runtimes
<1>6. Grow /\ \A c \in Chats : configs'[c] # None => configs'[c].prompt = prompt
  BY <1>2, <1>4, ReconcileGrows DEF IInv
<1>7. \A h \in Handlers : handling[h].step = "idle" BY <1>2, NothingWithoutABot
<1>8. \A f \in Forms : forms[f].step # "chatSaving" BY <1>2, NothingWithoutABot
<1>9. SettingsOK' BY <1>2 DEF IInv, SettingsOK, MayBeSaved
<1>10. ChatsOK' BY <1>2, <1>5, <1>6 DEF IInv, ChatsOK, Grow
<1>11. \A f \in Forms : PageOK(f)' BY <1>2, <1>6, <1>8, <1>9, PageStays DEF IInv
<1>12. \A h \in Handlers : PlaceOK(h)' BY <1>2, <1>7 DEF PlaceOK
<1>13. ChatsFollowTheRuntime' BY <1>5, <1>6 DEF ChatsFollowTheRuntime
<1>14. OneInvocationPerChat' BY <1>2 DEF IInv, OneInvocationPerChat, In
<1>15. QED BY <1>2, <1>9, <1>10, <1>11, <1>12, <1>13, <1>14 DEF IInv

LEMMA EndStep == ASSUME IInv, End PROVE IInv'
<1>1. /\ UNCHANGED <<store, rows>> /\ stops < MaxStops /\ stops' = stops + 1 /\ runtime' = None
      /\ agents' = [c \in Chats |-> None] /\ handling' = [h \in Handlers |-> Idle]
  BY DEF End
<1>2. UNCHANGED <<settings, configs>> BY <1>1 DEF store
<1>3. SettingsOK' BY <1>2 DEF IInv, SettingsOK, MayBeSaved
<1>4. stops' \in 0..MaxStops BY <1>1, BoundsFit DEF IInv, ChatsOK
<1>5. ChatsOK' BY <1>1, <1>2, <1>4 DEF IInv, ChatsOK
<1>6. Grow BY <1>2, StillGrows DEF IInv
<1>7. DOMAIN forms' = Forms /\ \A f \in Forms :
        forms'[f] = Idle \/ (forms'[f] = forms[f] /\ forms[f].step # "chatSaving")
  BY DEF End, ActionsReturned, At, IInv
<1>8. ASSUME NEW f \in Forms PROVE PageOK(f)'
  <2>1. CASE forms'[f] = Idle BY <2>1, IdlePage
  <2>2. CASE forms'[f] = forms[f] /\ forms[f].step # "chatSaving"
    BY <1>2, <1>3, <1>6, <2>2, PageStays DEF IInv
  <2>3. QED BY <1>7, <2>1, <2>2
<1>9. \A h \in Handlers : PlaceOK(h)' BY <1>1, IdlePlace
<1>10. ChatsFollowTheRuntime' BY <1>1 DEF ChatsFollowTheRuntime
<1>11. \A h \in Turns : handling'[h].step # "inside" BY <1>1 DEF Handlers, Idle
<1>12. OneInvocationPerChat' BY <1>11 DEF OneInvocationPerChat, In
<1>13. DOMAIN handling' = Handlers /\ DOMAIN rows' = Handlers BY <1>1 DEF IInv
<1>14. QED BY <1>3, <1>5, <1>7, <1>8, <1>9, <1>10, <1>12, <1>13 DEF IInv

-----------------------------------------------------------------------------
(* The invariant holds.                                                    *)

LEMMA EditedType ==
  ASSUME NEW old \in Own, NEW own \in Edited(old) PROVE own \in Own
<1>1. <<>> \in Seq(Rules) BY EmptySeq
<1>2. QED BY <1>1 DEF Edited, Own

LEMMA InitOK == ASSUME Init PROVE IInv
<1>1. /\ settings = [revision |-> 1, draft |-> FirstDraft, keys |-> FirstKeys]
      /\ configs = [c \in Chats |-> None] /\ runtime = None /\ agents = [c \in Chats |-> None]
      /\ handling = [h \in Handlers |-> Idle] /\ forms = [f \in Forms |-> Idle] /\ stops = 0
      /\ DOMAIN rows = Handlers
  BY DEF Init
<1>2. FirstKeys \in [Secrets -> 0..1] BY DEF FirstKeys
<1>3. Typed(settings) = Typed([draft |-> FirstDraft, keys |-> FirstKeys]) BY <1>1 DEF Typed
<1>4. SettingsOK
  <2>1. settings.revision = 1 /\ settings.draft = FirstDraft /\ settings.keys = FirstKeys BY <1>1
  <2>2. ValidateDraft(Typed(settings)) BY <1>3, FirstWasAccepted
  <2>3. 1 \in 1..MaxRevision BY BoundsFit
  <2>4. QED BY <1>2, <2>1, <2>2, <2>3, DraftsFit DEF SettingsOK, MayBeSaved
<1>5. ChatsOK BY <1>1, BoundsFit DEF ChatsOK
<1>6. \A f \in Forms : PageOK(f) BY <1>1 DEF PageOK, Idle
<1>7. \A h \in Handlers : PlaceOK(h) BY <1>1 DEF PlaceOK, Idle
<1>8. ChatsFollowTheRuntime BY <1>1 DEF ChatsFollowTheRuntime
<1>9. OneInvocationPerChat BY <1>1 DEF OneInvocationPerChat, In, Idle, Handlers
<1>10. QED BY <1>1, <1>4, <1>5, <1>6, <1>7, <1>8, <1>9 DEF IInv

LEMMA FormKeepsInvariant == ASSUME IInv, NEW f \in Forms, FormStep(f) PROVE IInv'
<1>1. CASE GetSettings(f) BY <1>1, GetSettingsStep
<1>2. CASE \E patch \in Patches : Save(f, patch) BY <1>2, SaveStep
<1>3. CASE CommitSave(f) BY <1>3, CommitSaveStep
<1>4. CASE \E categories \in SUBSET {"rules", "override"} \ {{}} : ResetChats(f, categories)
  BY <1>4, ResetChatsStep
<1>5. CASE CommitReset(f) BY <1>5, CommitResetStep
<1>6. CASE \E chat \in Chats : GetChatSettings(f, chat) BY <1>6, GetChatSettingsStep
<1>7. CASE At(f, "chat") /\ \E own \in Edited(forms[f].view.own) : SaveChatSettings(f, own)
  <2>1. PICK old : old = forms[f].view.own OBVIOUS
  <2>2. PICK own \in Edited(old) : SaveChatSettings(f, own) BY <1>7, <2>1
  <2>3. old \in Own BY <1>7, <2>1 DEF IInv, PageOK, At, CopyOK, Configs
  <2>4. own \in Own BY <2>2, <2>3, EditedType
  <2>5. QED BY <2>2, <2>4, SaveChatSettingsStep
<1>8. CASE CommitChat(f) BY <1>8, CommitChatStep
<1>9. QED BY <1>1, <1>2, <1>3, <1>4, <1>5, <1>6, <1>7, <1>8 DEF FormStep

LEMMA NextKeeps == ASSUME IInv, [Next]_vars PROVE IInv'
<1>1. CASE \E f \in Forms : FormStep(f) BY <1>1, FormKeepsInvariant
<1>2. ASSUME NEW h \in Handlers, HandlerStep(h) PROVE IInv'
  BY <1>2, BeginStep, NewAgentStep, AgentForStep, RefreshStep, UpdateConfigStep, UpdateStep,
     CloseCommandStep, AcquireStep, ReleaseStep DEF HandlerStep
<1>3. CASE Start BY <1>3, StartStep
<1>4. CASE End BY <1>4, EndStep
<1>5. CASE UNCHANGED vars
  <2>1. UNCHANGED <<settings, configs, runtime, agents, handling, rows, forms, stops>>
    BY <1>5 DEF vars, store, bot
  <2>2. SettingsOK' /\ ChatsOK' BY <2>1 DEF IInv, SettingsOK, ChatsOK, MayBeSaved
  <2>3. Grow BY <2>1, StillGrows DEF IInv
  <2>4. \A f \in Forms : PageOK(f)' BY <2>1, <2>2, <2>3, PageStays DEF IInv
  <2>5. \A h \in Handlers : PlaceOK(h)' BY <2>1, <2>3, PlaceStays DEF IInv
  <2>6. ChatsFollowTheRuntime' BY <2>1, SameChatsFollow
  <2>7. OneInvocationPerChat' BY <2>1 DEF IInv, OneInvocationPerChat, In
  <2>8. QED BY <2>1, <2>2, <2>4, <2>5, <2>6, <2>7 DEF IInv
<1>6. QED BY <1>1, <1>2, <1>3, <1>4, <1>5 DEF Next

(* The inductive invariant of the settings, the chats' configurations, the  *)
(* pages and the handlers holds in every reachable state.                   *)
THEOREM InvariantHolds == Spec => []IInv
<1>1. Init => IInv BY InitOK
<1>2. IInv /\ [Next]_vars => IInv' BY NextKeeps
<1>3. QED BY <1>1, <1>2, PTL DEF Spec

-----------------------------------------------------------------------------
(* The properties.                                                         *)

LEMMA IInvIsSound == ASSUME IInv PROVE ConfigurationIsSound
<1>1. TypeOK
  <2>1. settings.revision \in 1..MaxRevision /\ settings.draft \in Drafts
        /\ \A k \in Secrets : settings.keys[k] \in 0..settings.revision
    BY DEF IInv, SettingsOK, MayBeSaved
  <2>2. /\ \A c \in Chats : configs[c] = None \/ configs[c] \in Configs
        /\ runtime = None \/ runtime \in Runtimes
        /\ \A c \in Chats : agents[c] # None => configs[c] # None
        /\ stops \in 0..MaxStops
    BY DEF IInv, ChatsOK
  <2>3. ASSUME NEW h \in Handlers
        PROVE  /\ In(h, "idle") \/ (rows[h] = "received" /\ runtime # None)
               /\ In(h, "idle") \/ In(h, "building") \/ configs[ChatOf(h)] # None
    BY NoneIsNothing DEF IInv, PlaceOK, In
  <2>4. ASSUME NEW f \in Forms PROVE At(f, "chatSaving") => runtime # None
    BY NoneIsNothing DEF IInv, PageOK, At
  <2>5. QED BY <2>1, <2>2, <2>3, <2>4 DEF TypeOK
<1>2. SameVersionSameValues
  <2>1. ASSUME NEW f \in Forms, forms[f].step \in {"chat", "chatSaving"},
               forms[f].view.version = configs[forms[f].chat].version
        PROVE  forms[f].view = configs[forms[f].chat]
    BY <2>1 DEF IInv, PageOK, CopyOK
  <2>2. ASSUME NEW h \in Handlers, handling[h].step \in {"run", "update"},
               handling[h].seen.version = configs[ChatOf(h)].version
        PROVE  handling[h].seen = configs[ChatOf(h)]
    BY <2>2 DEF IInv, PlaceOK, CopyOK
  <2>3. QED BY <2>1, <2>2 DEF SameVersionSameValues
<1>3. SavedSettingsCanPair BY SavedCanPair DEF IInv, SavedSettingsCanPair
<1>4. ChatsFollowTheRuntime BY DEF IInv
<1>5. QED BY <1>1, <1>2, <1>3, <1>4 DEF ConfigurationIsSound

(* The settings, the configurations of the chats and every copy a page or a *)
(* command holds of them agree: a chat has the prompt of the bot that runs, *)
(* a version names one content, and what is saved can pair a phone.         *)
THEOREM SettingsAndChatsAgree == Spec => []ConfigurationIsSound
<1>1. IInv => ConfigurationIsSound BY IInvIsSound
<1>2. QED BY <1>1, InvariantHolds, PTL

(* Two messages of a chat never have their turns at once, although both may *)
(* have built an Agent.                                                     *)
THEOREM OneTurnPerChat == Spec => []OneInvocationPerChat
<1>1. IInv => OneInvocationPerChat BY DEF IInv
<1>2. QED BY <1>1, InvariantHolds, PTL

\* What one step may do to the settings and chats for the page of f.
Honest(f) ==
  /\ At(f, "saving") /\ settings' # settings /\ forms'[f] # forms[f] => forms[f].view = Public(settings)
  /\ At(f, "chatSaving") /\ configs' # configs /\ forms'[f] # forms[f] =>
       forms[f].view = configs[forms[f].chat]

LEMMA OtherPage ==
  ASSUME IInv, NEW f \in Forms, NEW g \in Forms, f # g, FormStep(g) PROVE forms'[f] = forms[f]
<1>1. PICK page : Show(g, page)
  BY DEF FormStep, GetSettings, Save, CommitSave, ResetChats, CommitReset, GetChatSettings,
         SaveChatSettings, CommitChat
<1>2. QED BY <1>1, Shown DEF IInv

LEMMA SaveIsHonest == ASSUME IInv, NEW f \in Forms, CommitSave(f) PROVE Honest(f)
<1>1. configs' = configs /\ forms[f].step = "saving" BY DEF CommitSave, At
<1>2. settings' # settings => forms[f].view.revision = settings.revision BY DEF CommitSave, SaveValues
<1>3. settings' # settings => forms[f].view = Public(settings) BY <1>1, <1>2 DEF IInv, PageOK
<1>4. QED BY <1>1, <1>3 DEF Honest

LEMMA ChatSaveIsHonest == ASSUME IInv, NEW f \in Forms, CommitChat(f) PROVE Honest(f)
<1>1. settings' = settings /\ forms[f].step = "chatSaving" BY DEF CommitChat, At
<1>2. configs' # configs => forms[f].view.version = configs[forms[f].chat].version
  BY DEF CommitChat, CompareAndSwap, Stale
<1>3. configs' # configs => forms[f].view = configs[forms[f].chat]
  BY <1>1, <1>2 DEF IInv, PageOK, CopyOK
<1>4. QED BY <1>1, <1>3 DEF Honest

LEMMA FormIsHonest == ASSUME IInv, NEW f \in Forms, NEW g \in Forms, FormStep(g) PROVE Honest(f)
<1>1. CASE f # g BY <1>1, OtherPage DEF Honest
<1>2. CASE f = g
  <2>1. CASE CommitSave(g) BY <1>2, <2>1, SaveIsHonest
  <2>2. CASE CommitChat(g) BY <1>2, <2>2, ChatSaveIsHonest
  <2>3. CASE forms[g].step \notin {"saving", "chatSaving"} BY <1>2, <2>3 DEF Honest, At
  <2>4. QED
    BY <2>1, <2>2, <2>3 DEF FormStep, GetSettings, Save, ResetChats, CommitReset, GetChatSettings,
                            SaveChatSettings, At
<1>3. QED BY <1>1, <1>2

LEMMA StepIsHonest == ASSUME IInv, [Next]_vars, NEW f \in Forms PROVE Honest(f)
<1>1. CASE \E g \in Forms : FormStep(g) BY <1>1, FormIsHonest
<1>2. CASE \E h \in Handlers : HandlerStep(h)
  <2>1. forms' = forms
    BY <1>2 DEF HandlerStep, Begin, NewAgent, AgentFor, Refresh, UpdateConfig, Update, CloseCommand,
                Acquire, Release
  <2>2. QED BY <2>1 DEF Honest
<1>3. CASE Start BY <1>3 DEF Start, Honest
<1>4. CASE End BY <1>4 DEF End, store, Honest
<1>5. CASE UNCHANGED vars BY <1>5 DEF vars, store, Honest
<1>6. QED BY <1>1, <1>2, <1>3, <1>4, <1>5 DEF Next

(* A save of a page never undoes what was saved since the page was shown.   *)
THEOREM SavesAreHonest == Spec => SavesOnlyWhatWasSeen
<1>1. IInv /\ [Next]_vars =>
        [\A f \in Forms :
           /\ At(f, "saving") /\ settings' # settings /\ forms'[f] # forms[f] => forms[f].view = Public(settings)
           /\ At(f, "chatSaving") /\ configs' # configs /\ forms'[f] # forms[f] =>
                forms[f].view = configs[forms[f].chat]]_vars
  BY StepIsHonest DEF Honest
<1>2. QED BY <1>1, InvariantHolds, PTL DEF Spec, SavesOnlyWhatWasSeen

-----------------------------------------------------------------------------
(* Transcript: induction over the naturals, with a set for the property,    *)
(* and functions defined from the value before.                             *)

LEMMA LeastNumber ==
  ASSUME NEW T, T \subseteq Nat, T # {}
  PROVE  \E x \in T : \A y \in T : x <= y
<1> DEFINE Segments == {0..n : n \in T}
<1>1. \A n \in T : 0..n \in FiniteSubsetsOf(Nat)
  <2> SUFFICES ASSUME NEW n \in T PROVE 0..n \in FiniteSubsetsOf(Nat) OBVIOUS
  <2>1. IsFiniteSet(0..n) BY FS_Interval
  <2>2. 0..n \subseteq Nat OBVIOUS
  <2>3. QED BY <2>1, <2>2 DEF FiniteSubsetsOf
<1>2. Segments \subseteq FiniteSubsetsOf(Nat) /\ Segments # {} BY <1>1
<1>3. IsWellFoundedOn(StrictSubsetOrdering(Nat), FiniteSubsetsOf(Nat))
  BY FS_StrictSubsetOrderingWellFounded
<1>4. PICK S \in Segments : \A U \in Segments : ~ (<<U, S>> \in StrictSubsetOrdering(Nat))
  BY <1>2, <1>3, WFMin
<1>5. PICK x \in T : S = 0..x OBVIOUS
<1>6. ASSUME NEW y \in T, ~(x <= y) PROVE FALSE
  <2>1. (0..y) \subseteq Nat /\ (0..x) \subseteq Nat /\ (0..y) \subseteq 0..x /\ 0..y # 0..x
    BY <1>6
  <2>2. <<0..y, S>> \in StrictSubsetOrdering(Nat)
    BY <2>1, <1>5 DEF StrictSubsetOrdering
  <2>3. QED BY <2>2, <1>4
<1>7. QED BY <1>6

LEMMA GreatestNumber ==
  ASSUME NEW T, NEW n \in Nat, T \subseteq 0..n, T # {}
  PROVE  \E x \in T : \A y \in T : y <= x
<1> DEFINE U == {n - x : x \in T}
<1>1. U \subseteq Nat /\ U # {} OBVIOUS
<1>2. PICK u \in U : \A y \in U : u <= y BY <1>1, LeastNumber
<1>3. PICK x \in T : u = n - x OBVIOUS
<1>4. ASSUME NEW y \in T PROVE y <= x
  <2>1. n - y \in U /\ x \in 0..n /\ y \in 0..n OBVIOUS
  <2>2. u <= n - y BY <2>1, <1>2
  <2>3. QED BY <2>1, <2>2, <1>3
<1>5. QED BY <1>4

LEMMA NumberInduction ==
  ASSUME NEW S, 0 \in S, \A n \in Nat : n \in S => n + 1 \in S
  PROVE  Nat \subseteq S
<1> SUFFICES ASSUME Nat \ S # {} PROVE FALSE OBVIOUS
<1>1. PICK x \in Nat \ S : \A y \in Nat \ S : x <= y BY LeastNumber
<1>2. x - 1 \in Nat /\ x - 1 \in S BY <1>1
<1>3. QED BY <1>1, <1>2

\* g[n] is what n steps of F make of a.
Repeats(g, S, a, N, F) ==
  g \in [0..N -> S] /\ g[0] = a /\ \A n \in 1..N : g[n] = F[<<g[n - 1], n>>]

\* A step that keeps to S can be repeated.
LEMMA Repeated ==
  ASSUME NEW S, NEW a \in S, NEW N \in Nat, NEW F \in [S \X (1..N) -> S]
  PROVE  \E g : Repeats(g, S, a, N, F)
<1>0. \A s \in S, n \in 1..N : F[<<s, n>>] \in S OBVIOUS
<1> DEFINE G(k, g) == g[0] = a /\ \A n \in 1..k : g[n] = F[<<g[n - 1], n>>]
           K == {k \in Nat : k <= N => \E g \in [0..k -> S] : G(k, g)}
<1>1. 0 \in K
  <2>1. [i \in 0..0 |-> a] \in [0..0 -> S] OBVIOUS
  <2>2. G(0, [i \in 0..0 |-> a]) OBVIOUS
  <2>3. QED BY <2>1, <2>2
<1>2. ASSUME NEW k \in Nat, k \in K PROVE k + 1 \in K
  <2> SUFFICES ASSUME k + 1 <= N PROVE \E g \in [0..(k + 1) -> S] : G(k + 1, g) OBVIOUS
  <2>1. PICK g \in [0..k -> S] : G(k, g) BY <1>2
  <2>2. PICK e : e = F[<<g[k], k + 1>>] OBVIOUS
  <2>3. g[k] \in S /\ k + 1 \in 1..N OBVIOUS
  <2>4. e \in S BY <2>2, <2>3, <1>0
  <2> DEFINE h == [i \in 0..(k + 1) |-> IF i = k + 1 THEN e ELSE g[i]]
  <2>5. h \in [0..(k + 1) -> S] BY <2>4
  <2>6. h[0] = a BY <2>1
  <2>7. ASSUME NEW n \in 1..(k + 1) PROVE h[n] = F[<<h[n - 1], n>>]
    <3>1. CASE n = k + 1
      <4>1. h[n] = e /\ h[n - 1] = g[k] BY <3>1
      <4>2. QED BY <4>1, <3>1, <2>2
    <3>2. CASE n # k + 1
      <4>1. n \in 1..k /\ h[n] = g[n] /\ h[n - 1] = g[n - 1] BY <3>2
      <4>2. QED BY <4>1, <2>1
    <3>3. QED BY <3>1, <3>2
  <2> HIDE DEF h
  <2>8. G(k + 1, h) BY <2>6, <2>7
  <2> HIDE DEF G
  <2>9. QED BY <2>5, <2>8
<1>3. N \in K BY <1>1, <1>2, NumberInduction
<1>4. \E g \in [0..N -> S] : G(N, g) BY <1>3
<1>5. QED BY <1>4 DEF Repeats

-----------------------------------------------------------------------------
(* Positions in a sequence.                                                 *)

LEMMA FirstPlace ==
  ASSUME NEW I, NEW n \in Nat, I \subseteq 1..n
  PROVE  LET at == IF I # {} THEN Min(I) ELSE 0
         IN  /\ at \in 0..n
             /\ at = 0 => I = {}
             /\ at # 0 => at \in I /\ \A i \in I : at <= i
<1>1. CASE I = {} BY <1>1
<1>2. CASE I # {}
  <2>0. I \subseteq Nat OBVIOUS
  <2>1. \E x \in I : \A y \in I : x <= y BY <1>2, <2>0, LeastNumber
  <2>2. Min(I) \in I /\ \A y \in I : Min(I) <= y BY <2>1 DEF Min
  <2>3. PICK x : x = Min(I) OBVIOUS
  <2>x. x \in I BY <2>2, <2>3, Zenon
  <2>4. x \in 1..n /\ x # 0 BY <2>x
  <2>5. QED BY <2>2, <2>3, <2>4, <1>2
<1>3. QED BY <1>1, <1>2

LEMMA LastPlace ==
  ASSUME NEW I, NEW n \in Nat, I \subseteq 1..n
  PROVE  LET at == IF I # {} THEN Max(I) ELSE 0
         IN  /\ at \in 0..n
             /\ at = 0 => I = {}
             /\ at # 0 => at \in I /\ \A i \in I : i <= at
<1>1. CASE I = {} BY <1>1
<1>2. CASE I # {}
  <2>0. I \subseteq 0..n OBVIOUS
  <2>1. \E x \in I : \A y \in I : y <= x BY <1>2, <2>0, GreatestNumber
  <2>2. \E x \in I : \A y \in I : x >= y
    <3>1. PICK x \in I : \A y \in I : y <= x BY <2>1
    <3>2. \A y \in I : x >= y BY <3>1
    <3>3. QED BY <3>2
  <2>3. Max(I) \in I /\ \A y \in I : Max(I) >= y BY <2>2 DEF Max
  <2>4. PICK x : x = Max(I) OBVIOUS
  <2>x. x \in I BY <2>3, <2>4, Zenon
  <2>5. x \in 1..n /\ x # 0 BY <2>x
  <2>6. \A i \in I : i <= x BY <2>3, <2>4, <2>5
  <2>7. QED BY <2>3, <2>4, <2>5, <2>6, <1>2
<1>3. QED BY <1>1, <1>2

LEMMA SequenceIs ==
  ASSUME NEW S, log \in Seq(S), NEW m
  PROVE  /\ Sequence(m) \in 0..Len(log)
         /\ Sequence(m) = 0 => \A i \in 1..Len(log) : log[i] # Asked(m)
         /\ Sequence(m) # 0 => /\ log[Sequence(m)] = Asked(m)
                               /\ \A i \in 1..Len(log) : log[i] = Asked(m) => Sequence(m) <= i
<1> DEFINE I == {i \in 1..Len(log) : log[i] = Asked(m)}
<1>1. Sequence(m) = IF I # {} THEN Min(I) ELSE 0 BY DEF Sequence, SelectInSeq
<1>2. I \subseteq 1..Len(log) /\ Len(log) \in Nat OBVIOUS
<1>3. LET at == IF I # {} THEN Min(I) ELSE 0
      IN  /\ at \in 0..Len(log)
          /\ at = 0 => I = {}
          /\ at # 0 => at \in I /\ \A i \in I : at <= i
  BY <1>2, FirstPlace
<1>4. QED BY <1>1, <1>3

-----------------------------------------------------------------------------
(* What Filter returns.                                                     *)

FilterGrows(k, S, s, T) ==
  /\ k \in [0..Len(s) -> Seq(S)] /\ Filter(s, T) = k[Len(s)] /\ k[0] = <<>>
  /\ \A n \in 1..Len(s) :
       k[n] = IF s[n] \in T THEN Append(k[n - 1], s[n]) ELSE k[n - 1]

LEMMA FilterSteps ==
  ASSUME NEW S, NEW s \in Seq(S), NEW T
  PROVE  \E k : FilterGrows(k, S, s, T)
<1> DEFINE N == Len(s)
           F == [p \in Seq(S) \X (1..N) |->
                   IF s[p[2]] \in T THEN Append(p[1], s[p[2]]) ELSE p[1]]
<1>1. N \in Nat /\ <<>> \in Seq(S) OBVIOUS
<1>2. F \in [Seq(S) \X (1..N) -> Seq(S)] OBVIOUS
<1>3. \A u \in Seq(S), n \in 1..N : F[<<u, n>>] = IF s[n] \in T THEN Append(u, s[n]) ELSE u
  OBVIOUS
<1> HIDE DEF F
<1>4. PICK g \in [0..N -> Seq(S)] :
        g[0] = <<>> /\ \A n \in 1..N : g[n] = F[<<g[n - 1], n>>]
  <2>1. PICK Q : Q = Seq(S) OBVIOUS
  <2>2. <<>> \in Q BY <1>1, <2>1
  <2>3. N \in Nat BY <1>1
  <2>4. F \in [Q \X (1..N) -> Q] BY <1>2, <2>1
  <2> HIDE DEF N
  <2>5. \E g : Repeats(g, Q, <<>>, N, F) BY <2>2, <2>3, <2>4, Repeated
  <2>6. QED BY <2>5, <2>1 DEF Repeats
<1>5. ASSUME NEW n \in 1..N
      PROVE  g[n] = IF s[n] \in T THEN Append(g[n - 1], s[n]) ELSE g[n - 1]
  <2>1. g[n - 1] \in Seq(S) OBVIOUS
  <2>2. QED BY <2>1, <1>3, <1>4
<1>6. g = [n \in 0..N |-> IF n = 0 THEN <<>>
             ELSE IF s[n] \in T THEN Append(g[n - 1], s[n]) ELSE g[n - 1]]
  <2>1. \A n \in 0..N : g[n] = IF n = 0 THEN <<>>
             ELSE IF s[n] \in T THEN Append(g[n - 1], s[n]) ELSE g[n - 1]
    <3> SUFFICES ASSUME NEW n \in 0..N
                 PROVE g[n] = IF n = 0 THEN <<>>
                         ELSE IF s[n] \in T THEN Append(g[n - 1], s[n]) ELSE g[n - 1]
        OBVIOUS
    <3>1. CASE n = 0 BY <3>1, <1>4
    <3>2. CASE n # 0
      <4>1. n \in 1..N BY <3>2, <1>1
      <4>2. QED BY <4>1, <3>2, <1>5
    <3>3. QED BY <3>1, <3>2
  <2>2. QED BY <2>1
<1>7. \E k : k = [n \in 0..N |-> IF n = 0 THEN <<>>
             ELSE IF s[n] \in T THEN Append(k[n - 1], s[n]) ELSE k[n - 1]]
  BY <1>6
<1>8. PICK k : /\ k = [n \in 0..N |-> IF n = 0 THEN <<>>
                         ELSE IF s[n] \in T THEN Append(k[n - 1], s[n]) ELSE k[n - 1]]
               /\ Filter(s, T) = k[N]
  BY <1>7 DEF Filter
<1>9. k[0] = <<>> BY <1>1, <1>8
<1>10. ASSUME NEW n \in 1..N
       PROVE  k[n] = IF s[n] \in T THEN Append(k[n - 1], s[n]) ELSE k[n - 1]
  <2>1. n \in 0..N /\ n # 0 BY <1>1
  <2>2. QED BY <2>1, <1>8
<1>11. \A n \in 0..N : k[n] = g[n]
  <2> DEFINE K == {n \in Nat : n <= N => k[n] = g[n]}
  <2>1. 0 \in K BY <1>9, <1>4
  <2>2. ASSUME NEW n \in Nat, n \in K PROVE n + 1 \in K
    <3> SUFFICES ASSUME n + 1 <= N PROVE k[n + 1] = g[n + 1] OBVIOUS
    <3>1. n + 1 \in 1..N /\ (n + 1) - 1 = n /\ k[n] = g[n] BY <2>2
    <3>2. QED BY <3>1, <1>5, <1>10
  <2>3. Nat \subseteq K
    <3> HIDE DEF K
    <3>1. QED BY <2>1, <2>2, NumberInduction
  <2>4. QED BY <2>3
<1>12. DOMAIN k = 0..N /\ k = [n \in 0..N |-> k[n]] BY <1>8
<1>13. k \in [0..N -> Seq(S)]
  <2>1. \A n \in 0..N : k[n] \in Seq(S) BY <1>11
  <2>2. QED BY <2>1, <1>12
<1>14. FilterGrows(k, S, s, T) BY <1>8, <1>9, <1>10, <1>13 DEF FilterGrows
<1>15. QED BY <1>14

\* t has the elements of the first n of s that are in T, in their order; h says where they were.
Picks(s, T, n, t, h) ==
  /\ Len(t) <= n
  /\ h \in [1..Len(t) -> 1..n]
  /\ \A i \in 1..Len(t) : t[i] = s[h[i]] /\ t[i] \in T
  /\ \A i, j \in 1..Len(t) : i < j => h[i] < h[j]
  /\ \A k \in 1..n : s[k] \in T => \E i \in 1..Len(t) : h[i] = k

LEMMA FilterPicks ==
  ASSUME NEW S, NEW s \in Seq(S), NEW T
  PROVE  Filter(s, T) \in Seq(S) /\ \E h : Picks(s, T, Len(s), Filter(s, T), h)
<1>0. PICK g : FilterGrows(g, S, s, T) BY FilterSteps
<1>1. /\ g \in [0..Len(s) -> Seq(S)] /\ Filter(s, T) = g[Len(s)] /\ g[0] = <<>>
      /\ \A n \in 1..Len(s) : g[n] = IF s[n] \in T THEN Append(g[n - 1], s[n]) ELSE g[n - 1]
  BY <1>0 DEF FilterGrows
<1> DEFINE K == {k \in Nat : k <= Len(s) => \E h : Picks(s, T, k, g[k], h)}
<1>2. 0 \in K
  <2>1. Picks(s, T, 0, g[0], [i \in {} |-> 0]) BY <1>1 DEF Picks
  <2>2. QED BY <2>1
<1>3. ASSUME NEW k \in Nat, k \in K PROVE k + 1 \in K
  <2> SUFFICES ASSUME k + 1 <= Len(s) PROVE \E h : Picks(s, T, k + 1, g[k + 1], h) OBVIOUS
  <2>1. PICK h : Picks(s, T, k, g[k], h) BY <1>3
  <2>2. g[k + 1] = IF s[k + 1] \in T THEN Append(g[k], s[k + 1]) ELSE g[k]
    <3>1. k + 1 \in 1..Len(s) /\ (k + 1) - 1 = k OBVIOUS
    <3>2. QED BY <3>1, <1>1
  <2>0. g[k] \in Seq(S) /\ s[k + 1] \in S
    <3>1. k \in 0..Len(s) /\ k + 1 \in 1..Len(s) OBVIOUS
    <3>2. QED BY <3>1, <1>1
  <2> DEFINE t == g[k]
  <2>3. CASE s[k + 1] \in T
    <3> DEFINE hh == [i \in 1..(Len(t) + 1) |-> IF i <= Len(t) THEN h[i] ELSE k + 1]
               u == Append(t, s[k + 1])
    <3>1. t \in Seq(S) /\ Len(t) \in Nat /\ Len(t) <= k BY <2>0, <2>1 DEF Picks
    <3>2. u \in Seq(S) /\ Len(u) = Len(t) + 1 /\ u[Len(t) + 1] = s[k + 1]
          /\ \A i \in 1..Len(t) : u[i] = t[i]
      BY <3>1, <2>0
    <3>3. Len(u) <= k + 1 BY <3>1, <3>2
    <3>4. hh \in [1..Len(u) -> 1..(k + 1)] BY <2>1, <3>1, <3>2 DEF Picks
    <3>5. \A i \in 1..Len(u) : u[i] = s[hh[i]] /\ u[i] \in T
      <4> SUFFICES ASSUME NEW i \in 1..Len(u) PROVE u[i] = s[hh[i]] /\ u[i] \in T OBVIOUS
      <4>1. CASE i = Len(t) + 1 BY <4>1, <3>1, <3>2, <2>3
      <4>2. CASE i \in 1..Len(t) BY <4>2, <3>1, <3>2, <2>1 DEF Picks
      <4>3. QED BY <4>1, <4>2, <3>1, <3>2
    <3>6. \A i, j \in 1..Len(u) : i < j => hh[i] < hh[j]
      <4> SUFFICES ASSUME NEW i \in 1..Len(u), NEW j \in 1..Len(u), i < j
                   PROVE hh[i] < hh[j] OBVIOUS
      <4>0. i \in 1..Len(t) BY <3>1, <3>2
      <4>a. h \in [1..Len(t) -> 1..k] BY <2>1 DEF Picks
      <4>b. h[i] \in 1..k BY <4>0, <4>a
      <4>c. i \in 1..(Len(t) + 1) /\ i <= Len(t) BY <4>0, <3>1
      <4>1. hh[i] = h[i] /\ h[i] \in 1..k BY <4>b, <4>c
      <4>2. CASE j = Len(t) + 1
        <5>1. hh[j] = k + 1 BY <4>2, <3>1
        <5>2. QED BY <5>1, <4>1
      <4>3. CASE j \in 1..Len(t)
        <5>1. hh[j] = h[j] BY <4>3, <3>1
        <5>2. h[i] < h[j] BY <4>0, <4>3, <2>1 DEF Picks
        <5>3. QED BY <5>1, <5>2, <4>1
      <4>4. QED BY <4>2, <4>3, <3>1, <3>2
    <3>7. \A n \in 1..(k + 1) : s[n] \in T => \E i \in 1..Len(u) : hh[i] = n
      <4> SUFFICES ASSUME NEW n \in 1..(k + 1), s[n] \in T
                   PROVE \E i \in 1..Len(u) : hh[i] = n OBVIOUS
      <4>1. CASE n = k + 1
        <5>1. Len(t) + 1 \in 1..Len(u) /\ hh[Len(t) + 1] = k + 1 BY <3>1, <3>2
        <5>2. QED BY <5>1, <4>1
      <4>2. CASE n \in 1..k
        <5>1. PICK i \in 1..Len(t) : h[i] = n BY <4>2, <2>1 DEF Picks
        <5>2. i \in 1..Len(u) /\ hh[i] = n BY <5>1, <3>1, <3>2
        <5>3. QED BY <5>2
      <4>3. n = k + 1 \/ n \in 1..k OBVIOUS
      <4>4. QED BY <4>1, <4>2, <4>3
    <3>8. g[k + 1] = u BY <2>2, <2>3
    <3> HIDE DEF hh, u
    <3>9. Picks(s, T, k + 1, g[k + 1], hh)
      BY <3>3, <3>4, <3>5, <3>6, <3>7, <3>8 DEF Picks
    <3>10. QED BY <3>9
  <2>4. CASE s[k + 1] \notin T
    <3>1. g[k + 1] = g[k] BY <2>2, <2>4
    <3>2. Picks(s, T, k + 1, g[k], h)
      BY <2>0, <2>1, <2>4 DEF Picks
    <3>3. QED BY <3>1, <3>2
  <2>5. QED BY <2>3, <2>4
<1>4. Len(s) \in K
  <2> HIDE DEF K
  <2>1. QED BY <1>2, <1>3, NumberInduction
<1>5. Filter(s, T) \in Seq(S) BY <1>1
<1>6. QED BY <1>1, <1>4, <1>5

\* What a filtered sequence has, without the places.
LEMMA FilterKeeps ==
  ASSUME NEW S, NEW s \in Seq(S), NEW T
  PROVE  /\ Filter(s, T) \in Seq(S) /\ Len(Filter(s, T)) <= Len(s)
         /\ \A i \in 1..Len(Filter(s, T)) :
              Filter(s, T)[i] \in T /\ \E k \in 1..Len(s) : Filter(s, T)[i] = s[k]
         /\ \A k \in 1..Len(s) :
              s[k] \in T => \E i \in 1..Len(Filter(s, T)) : Filter(s, T)[i] = s[k]
<1>1. PICK t : t = Filter(s, T) OBVIOUS
<1>2. t \in Seq(S) /\ \E h : Picks(s, T, Len(s), t, h) BY <1>1, FilterPicks
<1>3. PICK h : Picks(s, T, Len(s), t, h) BY <1>2
<1>4. Len(t) <= Len(s) BY <1>3 DEF Picks
<1>5. \A i \in 1..Len(t) : t[i] \in T /\ \E k \in 1..Len(s) : t[i] = s[k] BY <1>3 DEF Picks
<1>6. \A k \in 1..Len(s) : s[k] \in T => \E i \in 1..Len(t) : t[i] = s[k] BY <1>3 DEF Picks
<1>7. QED BY <1>1, <1>2, <1>4, <1>5, <1>6

-----------------------------------------------------------------------------
(* What PlaceReply and PlaceReplies return.                                 *)

\* u is s with r after the last entry of its invocation, which is at the place at.
PlacedAt(u, s, r, at) ==
  /\ at \in 1..Len(s) /\ s[at].of = r.of /\ Len(u) = Len(s) + 1
  /\ \A i \in 1..Len(s) : s[i].of = r.of => i <= at
  /\ \A i \in 1..at : u[i] = s[i]
  /\ u[at + 1] = r
  /\ \A i \in at + 1..Len(s) : u[i + 1] = s[i]

LEMMA PlaceIs ==
  ASSUME NEW S, NEW s \in Seq(S), NEW r \in S
  PROVE  /\ PlaceReply(s, r) \in Seq(S)
         /\ \/ PlaceReply(s, r) = s /\ \A i \in 1..Len(s) : s[i].of # r.of
            \/ \E at : PlacedAt(PlaceReply(s, r), s, r, at)
<1> DEFINE I == {i \in 1..Len(s) : s[i].of = r.of}
<1>1. PICK at : at = IF I # {} THEN Max(I) ELSE 0 OBVIOUS
<1>2. PlaceReply(s, r) = IF at = 0 THEN s ELSE InsertAt(s, at + 1, r)
  BY <1>1 DEF PlaceReply, SelectLastInSeq
<1>3. I \subseteq 1..Len(s) /\ Len(s) \in Nat OBVIOUS
<1>4. LET a == IF I # {} THEN Max(I) ELSE 0
      IN  /\ a \in 0..Len(s)
          /\ a = 0 => I = {}
          /\ a # 0 => a \in I /\ \A i \in I : i <= a
  BY <1>3, LastPlace
<1>5. /\ at \in 0..Len(s)
      /\ at = 0 => I = {}
      /\ at # 0 => at \in I /\ \A i \in I : i <= at
  BY <1>1, <1>4
<1>6. CASE at = 0
  <2>1. \A i \in 1..Len(s) : s[i].of # r.of BY <1>5, <1>6
  <2>2. QED BY <1>2, <1>6, <2>1
<1>7. CASE at # 0
  <2>1. at \in 1..Len(s) /\ s[at].of = r.of BY <1>5, <1>7
  <2>2. \A i \in 1..Len(s) : s[i].of = r.of => i <= at BY <1>5, <1>7
  <2> DEFINE a == SubSeq(s, 1, at)
             b == SubSeq(s, at + 1, Len(s))
             u == (a \o <<r>>) \o b
  <2>3. PlaceReply(s, r) = u
    <3>1. (at + 1) - 1 = at BY <2>1
    <3>2. QED BY <3>1, <1>2, <1>7 DEF InsertAt
  <2>4. a \in Seq(S) /\ Len(a) = at /\ \A i \in 1..at : a[i] = s[i] BY <2>1
  <2>5. b \in Seq(S) /\ Len(b) = Len(s) - at /\ \A i \in 1..(Len(s) - at) : b[i] = s[at + i]
    BY <2>1
  <2> HIDE DEF a, b
  <2>6. PICK c : c = a \o <<r>> OBVIOUS
  <2>7. c \in Seq(S) /\ Len(c) = at + 1 /\ c[at + 1] = r /\ \A i \in 1..at : c[i] = a[i]
    BY <2>1, <2>4, <2>6
  <2>8. u = c \o b BY <2>6
  <2> HIDE DEF u
  <2>a. c \in Seq(S) /\ b \in Seq(S) BY <2>5, <2>7
  <2>b. u \in Seq(S) /\ Len(u) = Len(c) + Len(b) BY <2>a, <2>8
  <2>c. Len(c) + Len(b) = Len(s) + 1
    <3>1. Len(s) \in Nat OBVIOUS
    <3>2. Len(c) = at + 1 BY <2>7
    <3>3. Len(b) = Len(s) - at BY <2>5
    <3>4. QED BY <3>1, <3>2, <3>3, <2>1
  <2>9. u \in Seq(S) /\ Len(u) = Len(s) + 1 BY <2>b, <2>c
  <2>10. \A i \in 1..(at + 1) : u[i] = c[i] BY <2>1, <2>5, <2>7, <2>8
  <2>11. \A i \in 1..at : u[i] = s[i]
    <3> SUFFICES ASSUME NEW i \in 1..at PROVE u[i] = s[i] OBVIOUS
    <3>1. u[i] = c[i] BY <2>10, <2>1
    <3>2. QED BY <3>1, <2>7, <2>4
  <2>12. u[at + 1] = r BY <2>10, <2>7, <2>1
  <2>13. \A i \in at + 1..Len(s) : u[i + 1] = s[i]
    <3> SUFFICES ASSUME NEW i \in at + 1..Len(s) PROVE u[i + 1] = s[i] OBVIOUS
    <3>1. PICK j : j = i - at OBVIOUS
    <3>2. j \in 1..(Len(s) - at) /\ j \in 1..Len(b) /\ i + 1 = (at + 1) + j BY <3>1, <2>1, <2>5
    <3>3. u[(at + 1) + j] = b[j] BY <3>2, <2>1, <2>5, <2>7, <2>8
    <3>4. b[j] = s[at + j] BY <3>2, <2>5
    <3>5. at + j = i BY <3>1, <3>2, <2>1
    <3>6. QED BY <3>2, <3>3, <3>4, <3>5
  <2>14. PlacedAt(u, s, r, at)
    BY <2>1, <2>2, <2>9, <2>11, <2>12, <2>13 DEF PlacedAt
  <2>15. QED BY <2>3, <2>9, <2>14
<1>8. QED BY <1>6, <1>7

RepliesGo(k, S, s, late) ==
  /\ k \in [0..Len(late) -> Seq(S)] /\ PlaceReplies(s, late) = k[Len(late)] /\ k[0] = s
  /\ \A n \in 1..Len(late) : k[n] = PlaceReply(k[n - 1], late[n])

LEMMA PlaceSteps ==
  ASSUME NEW S, NEW s \in Seq(S), NEW late \in Seq(S)
  PROVE  \E k : RepliesGo(k, S, s, late)
<1> DEFINE N == Len(late)
           F == [p \in Seq(S) \X (1..N) |-> PlaceReply(p[1], late[p[2]])]
<1>1. N \in Nat OBVIOUS
<1>2. \A u \in Seq(S), n \in 1..N : PlaceReply(u, late[n]) \in Seq(S)
  <2> SUFFICES ASSUME NEW u \in Seq(S), NEW n \in 1..N PROVE PlaceReply(u, late[n]) \in Seq(S)
      OBVIOUS
  <2>1. late[n] \in S OBVIOUS
  <2>2. QED BY <2>1, PlaceIs
<1>a. F \in [Seq(S) \X (1..N) -> Seq(S)] BY <1>2
<1>3. \A u \in Seq(S), n \in 1..N : F[<<u, n>>] = PlaceReply(u, late[n]) OBVIOUS
<1> HIDE DEF F
<1>4. PICK g \in [0..N -> Seq(S)] : g[0] = s /\ \A n \in 1..N : g[n] = F[<<g[n - 1], n>>]
  <2>1. PICK Q : Q = Seq(S) OBVIOUS
  <2>2. s \in Q BY <2>1
  <2>3. N \in Nat BY <1>1
  <2>4. F \in [Q \X (1..N) -> Q] BY <1>a, <2>1
  <2> HIDE DEF N
  <2>5. \E g : Repeats(g, Q, s, N, F) BY <2>2, <2>3, <2>4, Repeated
  <2>6. QED BY <2>5, <2>1 DEF Repeats
<1>5. ASSUME NEW n \in 1..N PROVE g[n] = PlaceReply(g[n - 1], late[n])
  <2>1. g[n - 1] \in Seq(S) OBVIOUS
  <2>2. QED BY <2>1, <1>3, <1>4
<1>6. g = [n \in 0..N |-> IF n = 0 THEN s ELSE PlaceReply(g[n - 1], late[n])]
  <2>1. ASSUME NEW n \in 0..N PROVE g[n] = IF n = 0 THEN s ELSE PlaceReply(g[n - 1], late[n])
    <3>1. CASE n = 0 BY <3>1, <1>4
    <3>2. CASE n # 0
      <4>1. n \in 1..N BY <3>2, <1>1
      <4>2. QED BY <4>1, <3>2, <1>5
    <3>3. QED BY <3>1, <3>2
  <2>2. QED BY <2>1
<1>7. \E k : k = [n \in 0..N |-> IF n = 0 THEN s ELSE PlaceReply(k[n - 1], late[n])] BY <1>6
<1>8. PICK k : /\ k = [n \in 0..N |-> IF n = 0 THEN s ELSE PlaceReply(k[n - 1], late[n])]
               /\ PlaceReplies(s, late) = k[N]
  BY <1>7 DEF PlaceReplies
<1>9. k[0] = s BY <1>1, <1>8
<1>10. ASSUME NEW n \in 1..N PROVE k[n] = PlaceReply(k[n - 1], late[n])
  <2>1. n \in 0..N /\ n # 0 BY <1>1
  <2>2. QED BY <2>1, <1>8
<1>11. \A n \in 0..N : k[n] = g[n]
  <2> DEFINE K == {n \in Nat : n <= N => k[n] = g[n]}
  <2>1. 0 \in K BY <1>9, <1>4
  <2>2. ASSUME NEW n \in Nat, n \in K PROVE n + 1 \in K
    <3> SUFFICES ASSUME n + 1 <= N PROVE k[n + 1] = g[n + 1] OBVIOUS
    <3>1. n + 1 \in 1..N /\ (n + 1) - 1 = n /\ k[n] = g[n] BY <2>2
    <3>2. QED BY <3>1, <1>5, <1>10
  <2>3. Nat \subseteq K
    <3> HIDE DEF K
    <3>1. QED BY <2>1, <2>2, NumberInduction
  <2>4. QED BY <2>3
<1>12. DOMAIN k = 0..N /\ k = [n \in 0..N |-> k[n]] BY <1>8
<1>13. k \in [0..N -> Seq(S)]
  <2>1. \A n \in 0..N : k[n] \in Seq(S) BY <1>11
  <2>2. QED BY <2>1, <1>12
<1>14. RepliesGo(k, S, s, late) BY <1>8, <1>9, <1>10, <1>13 DEF RepliesGo
<1>15. QED BY <1>14

-----------------------------------------------------------------------------
(* What Fit returns.                                                        *)

LEMMA DropIs ==
  ASSUME NEW S, NEW s \in Seq(S)
  PROVE  /\ DropOldest(s) \in Seq(S)
         /\ \/ DropOldest(s) = s
            \/ /\ Len(s) > 1
               /\ DropOldest(s) = Filter(s, {entry \in ToSet(s) : entry.of # s[1].of})
<1>1. CASE Len(s) <= MaxShown \/ Len(s) = 1 BY <1>1 DEF DropOldest
<1>2. CASE ~(Len(s) <= MaxShown \/ Len(s) = 1)
  <2>1. Len(s) \in Nat /\ MaxShown \in Nat \ {0} BY BoundsArePositive
  <2>2. Len(s) > 1 /\ Head(s) = s[1] BY <2>1, <1>2
  <2>3. PICK T : T = {entry \in ToSet(s) : entry.of # s[1].of} OBVIOUS
  <2>4. DropOldest(s) = Filter(s, T) BY <1>2, <2>2, <2>3 DEF DropOldest
  <2>5. Filter(s, T) \in Seq(S) BY FilterKeeps
  <2>6. QED BY <2>2, <2>3, <2>4, <2>5
<1>3. QED BY <1>1, <1>2

OldestGo(k, S, s) ==
  /\ k \in [0..Len(s) -> Seq(S)] /\ Fit(s) = k[Len(s)] /\ k[0] = s
  /\ \A n \in 1..Len(s) : k[n] = DropOldest(k[n - 1])

LEMMA FitSteps ==
  ASSUME NEW S, NEW s \in Seq(S)
  PROVE  \E k : OldestGo(k, S, s)
<1> DEFINE N == Len(s)
           F == [p \in Seq(S) \X (1..N) |-> DropOldest(p[1])]
<1>1. N \in Nat OBVIOUS
<1>2. \A u \in Seq(S), n \in 1..N : DropOldest(u) \in Seq(S)
  BY DropIs
<1>a. F \in [Seq(S) \X (1..N) -> Seq(S)] BY <1>2
<1>3. \A u \in Seq(S), n \in 1..N : F[<<u, n>>] = DropOldest(u) OBVIOUS
<1> HIDE DEF F
<1>4. PICK g \in [0..N -> Seq(S)] : g[0] = s /\ \A n \in 1..N : g[n] = F[<<g[n - 1], n>>]
  <2>1. PICK Q : Q = Seq(S) OBVIOUS
  <2>2. s \in Q BY <2>1
  <2>3. N \in Nat BY <1>1
  <2>4. F \in [Q \X (1..N) -> Q] BY <1>a, <2>1
  <2> HIDE DEF N
  <2>5. \E g : Repeats(g, Q, s, N, F) BY <2>2, <2>3, <2>4, Repeated
  <2>6. QED BY <2>5, <2>1 DEF Repeats
<1>5. ASSUME NEW n \in 1..N PROVE g[n] = DropOldest(g[n - 1])
  <2>1. g[n - 1] \in Seq(S) OBVIOUS
  <2>2. QED BY <2>1, <1>3, <1>4
<1>6. g = [n \in 0..N |-> IF n = 0 THEN s ELSE DropOldest(g[n - 1])]
  <2>1. ASSUME NEW n \in 0..N PROVE g[n] = IF n = 0 THEN s ELSE DropOldest(g[n - 1])
    <3>1. CASE n = 0 BY <3>1, <1>4
    <3>2. CASE n # 0
      <4>1. n \in 1..N BY <3>2, <1>1
      <4>2. QED BY <4>1, <3>2, <1>5
    <3>3. QED BY <3>1, <3>2
  <2>2. QED BY <2>1
<1>7. \E k : k = [n \in 0..N |-> IF n = 0 THEN s ELSE DropOldest(k[n - 1])] BY <1>6
<1>8. PICK k : /\ k = [n \in 0..N |-> IF n = 0 THEN s ELSE DropOldest(k[n - 1])]
               /\ Fit(s) = k[N]
  BY <1>7 DEF Fit
<1>9. k[0] = s BY <1>1, <1>8
<1>10. ASSUME NEW n \in 1..N PROVE k[n] = DropOldest(k[n - 1])
  <2>1. n \in 0..N /\ n # 0 BY <1>1
  <2>2. QED BY <2>1, <1>8
<1>11. \A n \in 0..N : k[n] = g[n]
  <2> DEFINE K == {n \in Nat : n <= N => k[n] = g[n]}
  <2>1. 0 \in K BY <1>9, <1>4
  <2>2. ASSUME NEW n \in Nat, n \in K PROVE n + 1 \in K
    <3> SUFFICES ASSUME n + 1 <= N PROVE k[n + 1] = g[n + 1] OBVIOUS
    <3>1. n + 1 \in 1..N /\ (n + 1) - 1 = n /\ k[n] = g[n] BY <2>2
    <3>2. QED BY <3>1, <1>5, <1>10
  <2>3. Nat \subseteq K
    <3> HIDE DEF K
    <3>1. QED BY <2>1, <2>2, NumberInduction
  <2>4. QED BY <2>3
<1>12. DOMAIN k = 0..N /\ k = [n \in 0..N |-> k[n]] BY <1>8
<1>13. k \in [0..N -> Seq(S)]
  <2>1. \A n \in 0..N : k[n] \in Seq(S) BY <1>11
  <2>2. QED BY <2>1, <1>12
<1>14. OldestGo(k, S, s) BY <1>8, <1>9, <1>10, <1>13 DEF OldestGo
<1>15. QED BY <1>14

-----------------------------------------------------------------------------
(* The inductive invariant of Transcript.                                   *)

Callers == Users \cup Tasks
Entries == {Asked(m) : m \in Everything}
             \cup {Answer(m, status) : m \in Everything, status \in {"pending", "succeeded", "failed"}}
Unrecorded == {"absent", "new", "received", "sent", "lost"}
Answered == {"planned", "succeeded", "failed"}
Unanswered == {"waiting", "generating", "retryable", "ignored", "batched"}
Statuses == Unrecorded \cup Answered \cup Unanswered

RowsTyped ==
  /\ now \in 0 .. MaxTime /\ version \in 1 .. MaxVersions /\ faults \in 0 .. MaxFaults
  /\ resetAt \in -1 .. now
  /\ received \in [Everything -> 0 .. now]
  /\ state \in [Everything -> Statuses]

\* A row says whether its message has an entry, and an answer.
LogMatches ==
  /\ log \in Seq(Entries) /\ cutoff \in 0 .. Len(log)
  /\ \A i \in 1 .. Len(log) :
       state[log[i].of] \in IF IsAnswer(log[i]) THEN Answered ELSE Answered \cup Unanswered

AnswersFollow ==
  \A i, j \in 1 .. Len(log) :
    log[i].of = log[j].of /\ i < j => ~IsAnswer(log[i]) /\ IsAnswer(log[j])

\* Nothing that is listed was received before the reset.
CutoffHides ==
  \A i \in 1 .. Len(log) : i > cutoff /\ ~IsAnswer(log[i]) => ~Predates(log[i].of)

TurnRecords ==
  {NoTurn}
  \cup [step : {"batched", "sending"}, batch : SUBSET Callers, anchor : Callers]
  \cup [step : {"authorized", "claimed", "appended"}, batch : SUBSET Callers,
        anchor : Callers, v : 1 .. MaxVersions]
  \cup [step : {"prompted"}, batch : SUBSET Callers, anchor : Callers, shown : Seq(Entries)]

\* A reset that is done has taken the row of a turn it overtook.
TurnStands ==
  /\ turn \in TurnRecords
  /\ turn.step \in {"claimed", "appended", "prompted"} =>
       state[turn.anchor] \in {"generating", "ignored"}
  /\ turn.step \in {"appended", "prompted"} =>
       /\ Asked(turn.anchor) \in ToSet(log)
       /\ state[turn.anchor] = "generating" => ~Predates(turn.anchor)

ResetStands ==
  /\ reset \in {NoReset} \cup [step : {"authorized"}, of : Resets, v : 1 .. MaxVersions]
                 \cup [step : {"clocked", "replying"}, of : Resets, v : 1 .. MaxVersions, at : 0 .. now]
  /\ reset.step # "idle" => state[reset.of] = "waiting"

TranscriptInv ==
  RowsTyped /\ LogMatches /\ AnswersFollow /\ CutoffHides /\ TurnStands /\ ResetStands

-----------------------------------------------------------------------------
(* Entries, and what a step leaves of the invariant.                        *)

LEMMA EntryKinds ==
  /\ \A m \in Everything : Asked(m) \in Entries /\ Asked(m).of = m
  /\ \A m : ~IsAnswer(Asked(m))
  /\ \A m \in Everything, status \in {"pending", "succeeded", "failed"} :
       Answer(m, status) \in Entries /\ Answer(m, status).of = m /\ Answer(m, status).status = status
  /\ \A m, status : IsAnswer(Answer(m, status))
  /\ \A e \in Entries : e.of \in Everything
  /\ \A e \in Entries : ~IsAnswer(e) => e = Asked(e.of)
<1>1. \A m : Asked(m).of = m /\ ~IsAnswer(Asked(m)) BY DEF Asked, IsAnswer
<1>2. \A m, status : /\ Answer(m, status).of = m /\ Answer(m, status).status = status
                     /\ IsAnswer(Answer(m, status))
  BY DEF Answer, IsAnswer
<1>3. \A m \in Everything : Asked(m) \in Entries BY DEF Entries
<1>4. \A m \in Everything, status \in {"pending", "succeeded", "failed"} :
        Answer(m, status) \in Entries
  BY DEF Entries
<1>5. ASSUME NEW e \in Entries
      PROVE  e.of \in Everything /\ (~IsAnswer(e) => e = Asked(e.of))
  <2>1. CASE e \in {Asked(m) : m \in Everything} BY <2>1, <1>1
  <2>2. CASE e \in {Answer(m, status) : m \in Everything, status \in {"pending", "succeeded", "failed"}}
    BY <2>2, <1>2
  <2>3. QED BY <2>1, <2>2 DEF Entries
<1>6. QED BY <1>1, <1>2, <1>3, <1>4, <1>5

LEMMA Kinds ==
  /\ Callers \subseteq Everything /\ Resets \subseteq Everything
  /\ Callers \cap Resets = {} /\ Manual \cap (Callers \cup Resets) = {}
BY KindsAreDisjoint DEF Callers, Everything, Messages

LEMMA SetOfLog ==
  ASSUME NEW S, NEW s \in Seq(S)
  PROVE  ToSet(s) = {s[i] : i \in 1 .. Len(s)}
BY DEF ToSet

\* Rows keep the entries they have.
RowsKeep ==
  \A m \in Everything :
    /\ state[m] \in Answered => state'[m] \in Answered
    /\ state[m] \in Unanswered => state'[m] \in Answered \cup Unanswered
    /\ state[m] \notin Unrecorded => received'[m] = received[m]

\* The row of a turn under way moves only as a reset moves it.
TurnRowsKeep ==
  \A m \in Callers :
    state[m] \in {"generating", "ignored"} =>
      /\ state'[m] \in {"generating", "ignored"}
      /\ state'[m] = "generating" => state[m] = "generating"

LEMMA LogStays ==
  ASSUME TranscriptInv, UNCHANGED <<log, cutoff, resetAt>>, RowsKeep
  PROVE  LogMatches' /\ AnswersFollow' /\ CutoffHides'
<1>1. \A i \in 1 .. Len(log) : log[i] \in Entries /\ log[i].of \in Everything
  BY EntryKinds DEF TranscriptInv, LogMatches
<1>2. \A i \in 1 .. Len(log) : state[log[i].of] \in Answered \cup Unanswered
  BY DEF TranscriptInv, LogMatches
<1>3. \A i \in 1 .. Len(log) : received'[log[i].of] = received[log[i].of]
  BY <1>1, <1>2 DEF RowsKeep, Unrecorded, Answered, Unanswered
<1>4. ASSUME NEW i \in 1 .. Len(log)
      PROVE  state'[log[i].of] \in IF IsAnswer(log[i]) THEN Answered ELSE Answered \cup Unanswered
  <2>1. state[log[i].of] \in IF IsAnswer(log[i]) THEN Answered ELSE Answered \cup Unanswered
    BY DEF TranscriptInv, LogMatches
  <2>2. QED BY <2>1, <1>1 DEF RowsKeep
<1>5. LogMatches' BY <1>4 DEF TranscriptInv, LogMatches, IsAnswer
<1>6. AnswersFollow' BY DEF TranscriptInv, AnswersFollow, IsAnswer
<1>7. CutoffHides' BY <1>3 DEF TranscriptInv, CutoffHides, IsAnswer, Predates
<1>8. QED BY <1>5, <1>6, <1>7

LEMMA LogGrows ==
  ASSUME TranscriptInv, NEW e \in Entries, log' = Record(e), UNCHANGED <<cutoff, resetAt, received>>,
         RowsKeep, e \in ToSet(log) \/ state[e.of] \notin Answered,
         state'[e.of] \in IF IsAnswer(e) THEN Answered ELSE Answered \cup Unanswered,
         ~IsAnswer(e) => ~Predates(e.of)
  PROVE  LogMatches' /\ AnswersFollow' /\ CutoffHides'
<1>0. log \in Seq(Entries) BY DEF TranscriptInv, LogMatches
<1>1. CASE e \in ToSet(log)
  <2>1. log' = log BY <1>1 DEF Record
  <2>2. QED BY <2>1, LogStays
<1>2. CASE e \notin ToSet(log)
  <2>1. log' = Append(log, e) BY <1>2 DEF Record
  <2> DEFINE n == Len(log)
  <2>2. n \in Nat /\ log' \in Seq(Entries) /\ Len(log') = n + 1 /\ log'[n + 1] = e
    BY <1>0, <2>1
  <2>3. \A i \in 1 .. n : log'[i] = log[i] BY <1>0, <2>1
  <2>4. \A i \in 1 .. n : log[i] \in Entries /\ log[i].of \in Everything /\ log[i] # e
    <3>1. ToSet(log) = {log[i] : i \in 1 .. Len(log)} BY <1>0, SetOfLog
    <3>2. QED BY <1>0, <1>2, <3>1, EntryKinds
  <2>5. ASSUME NEW i \in 1 .. n
        PROVE  state'[log[i].of] \in IF IsAnswer(log[i]) THEN Answered ELSE Answered \cup Unanswered
    <3>1. state[log[i].of] \in IF IsAnswer(log[i]) THEN Answered ELSE Answered \cup Unanswered
      BY DEF TranscriptInv, LogMatches
    <3>2. QED BY <3>1, <2>4 DEF RowsKeep
  <2>6. \A i \in 1 .. n + 1 :
          state'[log'[i].of] \in IF IsAnswer(log'[i]) THEN Answered ELSE Answered \cup Unanswered
    <3> SUFFICES ASSUME NEW i \in 1 .. n + 1
                 PROVE state'[log'[i].of] \in IF IsAnswer(log'[i]) THEN Answered
                                              ELSE Answered \cup Unanswered
        OBVIOUS
    <3>1. CASE i = n + 1 BY <3>1, <2>2
    <3>2. CASE i \in 1 .. n BY <3>2, <2>3, <2>5
    <3>3. QED BY <3>1, <3>2, <2>2
  <2>7. cutoff' \in 0 .. Len(log') BY <2>2 DEF TranscriptInv, LogMatches
  <2>8. LogMatches'
    <3>1. \A i \in (1 .. Len(log))' :
            (state[log[i].of])' \in (IF IsAnswer(log[i]) THEN Answered ELSE Answered \cup Unanswered)'
      BY <2>2, <2>6 DEF IsAnswer
    <3>2. QED BY <2>2, <2>7, <3>1 DEF LogMatches
  <2>9. ASSUME NEW i \in 1 .. n, log[i].of = e.of PROVE ~IsAnswer(log[i]) /\ IsAnswer(e)
    <3>1. state[log[i].of] \in IF IsAnswer(log[i]) THEN Answered ELSE Answered \cup Unanswered
      BY DEF TranscriptInv, LogMatches
    <3>2. state[e.of] \notin Answered BY <1>2
    <3>3. ~IsAnswer(log[i]) BY <3>1, <3>2, <2>9
    <3>4. log[i] = Asked(e.of) BY <3>3, <2>4, <2>9, EntryKinds
    <3>5. IsAnswer(e)
      <4>1. SUFFICES ASSUME ~IsAnswer(e) PROVE FALSE OBVIOUS
      <4>2. e = Asked(e.of) BY <4>1, EntryKinds
      <4>3. QED BY <4>2, <3>4, <2>4
    <3>6. QED BY <3>3, <3>5
  <2>10. AnswersFollow'
    <3>1. ASSUME NEW i \in 1 .. n + 1, NEW j \in 1 .. n + 1, log'[i].of = log'[j].of, i < j
          PROVE  ~IsAnswer(log'[i]) /\ IsAnswer(log'[j])
      <4>0. i \in 1 .. n /\ log'[i] = log[i] BY <3>1, <2>2, <2>3
      <4>1. CASE j = n + 1 BY <4>0, <4>1, <3>1, <2>2, <2>9
      <4>2. CASE j \in 1 .. n
        <5>1. log'[j] = log[j] BY <4>2, <2>3
        <5>2. QED BY <5>1, <4>0, <4>2, <3>1 DEF TranscriptInv, AnswersFollow
      <4>3. QED BY <4>1, <4>2, <2>2
    <3>2. QED BY <3>1, <2>2 DEF AnswersFollow, IsAnswer
  <2>11. CutoffHides'
    <3>1. ASSUME NEW i \in 1 .. n + 1, i > cutoff, ~IsAnswer(log'[i])
          PROVE  ~(received[log'[i].of] <= resetAt)
      <4>1. CASE i = n + 1 BY <4>1, <3>1, <2>2 DEF Predates
      <4>2. CASE i \in 1 .. n
        BY <4>2, <3>1, <2>3 DEF TranscriptInv, CutoffHides, Predates
      <4>3. QED BY <4>1, <4>2, <2>2
    <3>2. QED BY <3>1, <2>2 DEF CutoffHides, IsAnswer, Predates
  <2>12. QED BY <2>8, <2>10, <2>11
<1>3. QED BY <1>1, <1>2

\* What is in the transcript stays in it.
LEMMA EntriesStay ==
  ASSUME TranscriptInv, NEW e \in Entries, log' = Record(e)
  PROVE  ToSet(log) \subseteq ToSet(log)' /\ e \in ToSet(log)'
<1>0. log \in Seq(Entries) BY DEF TranscriptInv, LogMatches
<1>1. CASE e \in ToSet(log)
  <2>1. log' = log BY <1>1 DEF Record
  <2>2. ToSet(log)' = ToSet(log) BY <2>1 DEF ToSet
  <2>3. QED BY <2>2, <1>1
<1>2. CASE e \notin ToSet(log)
  <2>1. log' = Append(log, e) BY <1>2 DEF Record
  <2>2. Len(log) \in Nat /\ DOMAIN log = 1 .. Len(log) /\ DOMAIN log' = 1 .. Len(log) + 1
        /\ log'[Len(log) + 1] = e
    BY <1>0, <2>1
  <2>3. \A i \in 1 .. Len(log) : log'[i] = log[i] BY <1>0, <2>1
  <2>4. ToSet(log)' = {log'[i] : i \in DOMAIN log'} BY DEF ToSet
  <2>5. ToSet(log) = {log[i] : i \in DOMAIN log} BY DEF ToSet
  <2>6. QED BY <2>2, <2>3, <2>4, <2>5
<1>3. QED BY <1>1, <1>2

LEMMA TurnStays ==
  ASSUME TranscriptInv, turn' = turn, resetAt' = resetAt, RowsKeep, TurnRowsKeep,
         \A m \in Callers : Asked(m) \in ToSet(log) => Asked(m) \in ToSet(log)'
  PROVE  TurnStands'
<1>1. turn \in TurnRecords BY DEF TranscriptInv, TurnStands
<1>2. turn' \in TurnRecords BY <1>1
<1>3. turn.step \in {"claimed", "appended", "prompted"} => turn.anchor \in Callers
  BY <1>1 DEF TurnRecords, NoTurn
<1>4. turn.step \in {"claimed", "appended", "prompted"} =>
        state[turn.anchor] \in {"generating", "ignored"}
  BY DEF TranscriptInv, TurnStands
<1>5. turn.step \in {"appended", "prompted"} => Asked(turn.anchor) \in ToSet(log)
  BY DEF TranscriptInv, TurnStands
<1>6. turn.step \in {"appended", "prompted"} =>
        (state[turn.anchor] = "generating" => ~Predates(turn.anchor))
  BY DEF TranscriptInv, TurnStands
<1>7. turn.step \in {"claimed", "appended", "prompted"} =>
        state'[turn.anchor] \in {"generating", "ignored"}
  BY <1>3, <1>4 DEF TurnRowsKeep
<1>8. ASSUME turn.step \in {"appended", "prompted"} PROVE Asked(turn.anchor) \in ToSet(log)'
  <2>1. PICK m : m = turn.anchor OBVIOUS
  <2>2. m \in Callers BY <1>8, <1>3, <2>1
  <2>3. Asked(m) \in ToSet(log) BY <1>8, <1>5, <2>1
  <2>4. QED BY <2>1, <2>2, <2>3
<1>9. ASSUME turn.step \in {"appended", "prompted"}, state'[turn.anchor] = "generating"
      PROVE  ~(received'[turn.anchor] <= resetAt)
  <2>1. turn.anchor \in Callers BY <1>9, <1>3
  <2>2. state[turn.anchor] = "generating" BY <1>9, <1>4, <2>1 DEF TurnRowsKeep
  <2>3. received'[turn.anchor] = received[turn.anchor]
    BY <2>1, <2>2, Kinds DEF RowsKeep, Unrecorded
  <2>4. QED BY <2>2, <2>3, <1>6, <1>9 DEF Predates
<1>10. turn'.step \in {"appended", "prompted"} => Asked(turn'.anchor) \in ToSet(log)'
  <2>1. SUFFICES ASSUME turn'.step \in {"appended", "prompted"}
                 PROVE Asked(turn'.anchor) \in ToSet(log)' OBVIOUS
  <2>2. turn.step \in {"appended", "prompted"} BY <2>1
  <2>3. Asked(turn.anchor) \in ToSet(log)' BY <2>2, <1>8
  <2>4. QED BY <2>3
<1>11. TurnStands'
  <2>1. (turn \in TurnRecords)' BY <1>2 DEF TurnRecords, NoTurn, Callers, Entries
  <2>2. (turn.step \in {"claimed", "appended", "prompted"} =>
           state[turn.anchor] \in {"generating", "ignored"})' BY <1>7
  <2>3. (turn.step \in {"appended", "prompted"} => Asked(turn.anchor) \in ToSet(log))'
    BY <1>10 DEF Asked
  <2>4. (turn.step \in {"appended", "prompted"} =>
           (state[turn.anchor] = "generating" => ~Predates(turn.anchor)))'
    BY <1>9 DEF Predates
  <2>5. QED BY <2>1, <2>2, <2>3, <2>4 DEF TurnStands
<1>12. QED BY <1>11

LEMMA TurnIdle == ASSUME turn' = NoTurn PROVE TurnStands'
<1>1. turn'.step = "idle" BY DEF NoTurn
<1>2. turn' \in TurnRecords' BY DEF TurnRecords, NoTurn
<1>3. QED BY <1>1, <1>2 DEF TurnStands

LEMMA ResetStays ==
  ASSUME TranscriptInv, reset' = reset, now' \in Int, now <= now',
         \A c \in Resets : state[c] = "waiting" => state'[c] = "waiting"
  PROVE  ResetStands'
<1>1. reset \in {NoReset} \cup [step : {"authorized"}, of : Resets, v : 1 .. MaxVersions]
                 \cup [step : {"clocked", "replying"}, of : Resets, v : 1 .. MaxVersions, at : 0 .. now]
  BY DEF TranscriptInv, ResetStands
<1>2. reset.step # "idle" => state[reset.of] = "waiting" BY DEF TranscriptInv, ResetStands
<1>3. now \in Int BY BoundsArePositive DEF TranscriptInv, RowsTyped
<1>4. CASE reset = NoReset BY <1>4 DEF ResetStands, NoReset
<1>5. CASE reset \in [step : {"authorized"}, of : Resets, v : 1 .. MaxVersions]
  <2>1. reset.of \in Resets /\ reset.step # "idle" BY <1>5
  <2>2. state'[reset.of] = "waiting" BY <2>1, <1>2
  <2>3. QED BY <1>5, <2>2 DEF ResetStands
<1>6. CASE reset \in [step : {"clocked", "replying"}, of : Resets, v : 1 .. MaxVersions, at : 0 .. now]
  <2>1. reset.of \in Resets /\ reset.step # "idle" BY <1>6
  <2>2. state'[reset.of] = "waiting" BY <2>1, <1>2
  <2>3. reset \in [step : {"clocked", "replying"}, of : Resets, v : 1 .. MaxVersions, at : 0 .. now']
    BY <1>6, <1>3
  <2>4. QED BY <2>2, <2>3 DEF ResetStands
<1>7. QED BY <1>1, <1>4, <1>5, <1>6

-----------------------------------------------------------------------------
(* What a turn is shown is made of entries.                                 *)

LEMMA BuildType ==
  ASSUME NEW S, NEW s \in Seq(S)
  PROVE  Build(s) \in Seq(S)
<1>1. PICK u : u = Filter(s, {entry \in ToSet(s) : Sent(entry)}) OBVIOUS
<1>2. u \in Seq(S) BY <1>1, FilterKeeps
<1>3. PICK k : OldestGo(k, S, u) BY <1>2, FitSteps
<1>4. Fit(u) \in Seq(S) BY <1>2, <1>3 DEF OldestGo
<1>5. QED BY <1>1, <1>4 DEF Build

\* The page is what the log has up to the anchor, from the place after first.
LEMMA PageIs ==
  ASSUME NEW S, NEW s \in Seq(S), NEW from \in 0 .. Len(s), NEW to \in 0 .. Len(s), from < to
  PROVE  LET page == Newest(SubSeq(s, from + 1, to), HistoryWindow)
         IN  /\ page \in Seq(S)
             /\ \E first \in from .. to - 1 :
                  /\ Len(page) = to - first
                  /\ \A i \in 1 .. to - first : page[i] = s[first + i]
<1>1. PICK u : u = SubSeq(s, from + 1, to) OBVIOUS
<1>2. u \in Seq(S) /\ Len(u) = to - from /\ \A i \in 1 .. to - from : u[i] = s[from + i]
  <2>1. u \in Seq(S) BY <1>1
  <2>2. Len(u) = to - from BY <1>1
  <2>3. \A i \in 1 .. to - from : u[i] = s[from + i] BY <1>1
  <2>4. QED BY <2>1, <2>2, <2>3
<1>3. HistoryWindow \in Nat \ {0} BY BoundsArePositive
<1>4. PICK page : page = Newest(u, HistoryWindow) OBVIOUS
<1>5. CASE Len(u) < HistoryWindow
  <2>1. page = SubSeq(u, 1, Len(u)) BY <1>4, <1>5 DEF Newest
  <2>2. page = u BY <2>1, <1>2
  <2>3. from \in from .. to - 1 OBVIOUS
  <2>4. QED BY <1>1, <1>2, <1>4, <2>2, <2>3
<1>6. CASE ~(Len(u) < HistoryWindow)
  <2>1. page = SubSeq(u, Len(u) - HistoryWindow + 1, Len(u)) BY <1>4, <1>6 DEF Newest
  <2>2. PICK first : first = to - HistoryWindow OBVIOUS
  <2>3. first \in from .. to - 1 BY <2>2, <1>2, <1>3, <1>6
  <2>4. PICK skip : skip = Len(u) - HistoryWindow OBVIOUS
  <2>5. skip \in 0 .. Len(u) /\ page = SubSeq(u, skip + 1, Len(u)) BY <2>1, <2>4, <1>2, <1>3, <1>6
  <2>6. page \in Seq(S) /\ Len(page) = Len(u) - skip
        /\ \A i \in 1 .. Len(u) - skip : page[i] = u[skip + i]
    <3>1. page \in Seq(S) BY <2>5, <1>2
    <3>2. Len(page) = Len(u) - skip BY <2>5, <1>2
    <3>3. \A i \in 1 .. Len(u) - skip : page[i] = u[skip + i] BY <2>5, <1>2
    <3>4. QED BY <3>1, <3>2, <3>3
  <2>7. Len(u) - skip = to - first BY <2>2, <2>4, <1>2, <1>3, <2>3
  <2>8. ASSUME NEW i \in 1 .. to - first PROVE page[i] = s[first + i]
    <3>1. page[i] = u[skip + i] BY <2>6, <2>7
    <3>2. skip + i \in 1 .. to - from /\ from + (skip + i) = first + i
      BY <2>2, <2>3, <2>4, <2>5, <1>2, <1>3
    <3>3. u[skip + i] = s[from + (skip + i)] BY <3>2, <1>2
    <3>4. QED BY <3>1, <3>2, <3>3
  <2>9. QED BY <1>1, <1>4, <2>3, <2>6, <2>7, <2>8
<1>7. QED BY <1>5, <1>6

LEMMA LateType ==
  ASSUME TranscriptInv, NEW through \in 0 .. Len(log)
  PROVE  LateReplies(through) \in Seq(Entries) /\ Bound(LateReplies(through), HistoryWindow) \in Seq(Entries)
<1>1. log \in Seq(Entries) BY DEF TranscriptInv, LogMatches
<1>2. PICK rest : rest = SubSeq(log, through + 1, Len(log)) OBVIOUS
<1>3. rest \in Seq(Entries) BY <1>1, <1>2
<1>4. PICK T : T = {entry \in ToSet(log) : /\ IsAnswer(entry) /\ entry.of # log[through].of
                                          /\ Sequence(entry.of) \in cutoff + 1 .. through}
  OBVIOUS
<1>5. Filter(rest, T) \in Seq(Entries) BY <1>3, FilterKeeps
<1>6. PICK late : late = LateReplies(through) OBVIOUS
<1>7. late = Filter(rest, T) BY <1>2, <1>4, <1>6 DEF LateReplies
<1>8. late \in Seq(Entries) BY <1>5, <1>7
<1>9. HistoryWindow \in Nat BY BoundsArePositive
<1>10. Bound(late, HistoryWindow) \in Seq(Entries) BY <1>8, <1>9 DEF Bound
<1>11. QED BY <1>6, <1>8, <1>10

LEMMA ListType ==
  ASSUME TranscriptInv, NEW through \in 0 .. Len(log), cutoff < through
  PROVE  List(through) \in Seq(Entries)
<1>1. log \in Seq(Entries) /\ cutoff \in 0 .. Len(log) BY DEF TranscriptInv, LogMatches
<1>2. PICK page : page = Newest(SubSeq(log, cutoff + 1, through), HistoryWindow) OBVIOUS
<1>3. PICK late : late = Bound(LateReplies(through), HistoryWindow) OBVIOUS
<1>4. PICK s, from, to : s = log /\ from = cutoff /\ to = through OBVIOUS
<1>5. s \in Seq(Entries) BY <1>1, <1>4
<1>6. from \in 0 .. Len(s) /\ to \in 0 .. Len(s) /\ from < to BY <1>1, <1>4
<1>7. page \in Seq(Entries)
  <2>1. Newest(SubSeq(s, from + 1, to), HistoryWindow) \in Seq(Entries) BY <1>5, <1>6, PageIs
  <2>2. QED BY <2>1, <1>2, <1>4
<1>8. late \in Seq(Entries) BY <1>3, LateType
<1>9. PICK k : RepliesGo(k, Entries, page, late) BY <1>7, <1>8, PlaceSteps
<1>10. PlaceReplies(page, late) \in Seq(Entries) BY <1>8, <1>9 DEF RepliesGo
<1>11. QED BY <1>2, <1>3, <1>10 DEF List

-----------------------------------------------------------------------------
(* Every step keeps the invariant.                                          *)

LEMMA SameRows == ASSUME state' = state, received' = received PROVE RowsKeep /\ TurnRowsKeep
BY DEF RowsKeep, TurnRowsKeep, Answered, Unanswered

\* One row moves.
LEMMA OneRow ==
  ASSUME TranscriptInv, NEW m \in Everything, NEW to \in Statuses,
         state' = [state EXCEPT ![m] = to],
         \/ received' = received
         \/ state[m] \in Unrecorded /\ \A n \in Everything \ {m} : received'[n] = received[n],
         state[m] \in Answered => to \in Answered,
         state[m] \in Unanswered => to \in Answered \cup Unanswered
  PROVE  /\ state' \in [Everything -> Statuses] /\ state'[m] = to
         /\ \A n \in Everything \ {m} : state'[n] = state[n]
         /\ RowsKeep
         /\ m \notin Callers \/ state[m] \notin {"generating", "ignored"} => TurnRowsKeep
<1>1. state \in [Everything -> Statuses] BY DEF TranscriptInv, RowsTyped
<1>2. \A n \in Everything : state'[n] = IF n = m THEN to ELSE state[n] BY <1>1
<1>3. RowsKeep
  <2> SUFFICES ASSUME NEW n \in Everything
               PROVE /\ state[n] \in Answered => state'[n] \in Answered
                     /\ state[n] \in Unanswered => state'[n] \in Answered \cup Unanswered
                     /\ state[n] \notin Unrecorded => received'[n] = received[n]
      BY DEF RowsKeep
  <2>1. CASE n = m BY <2>1, <1>2
  <2>2. CASE n # m BY <2>2, <1>2
  <2>3. QED BY <2>1, <2>2
<1>4. m \notin Callers \/ state[m] \notin {"generating", "ignored"} => TurnRowsKeep
  BY <1>2, Kinds DEF TurnRowsKeep
<1>5. state' \in [Everything -> Statuses] BY <1>1
<1>6. QED BY <1>2, <1>3, <1>4, <1>5

\* The whole invariant, when the log, the turn and the reset stay.
LEMMA RowMoves ==
  ASSUME TranscriptInv, RowsTyped', UNCHANGED <<log, cutoff, resetAt, turn, reset>>, now <= now',
         RowsKeep, TurnRowsKeep, \A c \in Resets : state[c] = "waiting" => state'[c] = "waiting"
  PROVE  TranscriptInv'
<1>1. LogMatches' /\ AnswersFollow' /\ CutoffHides' BY LogStays
<1>2. now' \in Int BY BoundsArePositive DEF RowsTyped
<1>3. ResetStands' BY <1>2, ResetStays
<1>4. ToSet(log)' = ToSet(log) BY DEF ToSet
<1>5. TurnStands' BY <1>4, TurnStays
<1>6. QED BY <1>1, <1>3, <1>5 DEF TranscriptInv

LEMMA TimeIs == ASSUME RowsTyped PROVE now \in Nat /\ resetAt \in Int
BY BoundsArePositive DEF RowsTyped

LEMMA TickStep == ASSUME TranscriptInv, Tick PROVE TranscriptInv'
<1> USE DEF Tick, history, inbox
<1>1. RowsTyped'
  <2>1. now \in Nat /\ MaxTime \in Nat BY TimeIs, BoundsArePositive DEF TranscriptInv
  <2>2. now' \in 0 .. MaxTime /\ resetAt' \in -1 .. now' BY <2>1 DEF TranscriptInv, RowsTyped
  <2>3. received' \in [Everything -> 0 .. now']
    <3>1. received \in [Everything -> 0 .. now] BY DEF TranscriptInv, RowsTyped
    <3>2. 0 .. now \subseteq 0 .. now' BY <2>1
    <3>3. QED BY <3>1, <3>2
  <2>4. QED BY <2>2, <2>3 DEF TranscriptInv, RowsTyped
<1>2. now <= now' BY TimeIs DEF TranscriptInv
<1>3. RowsKeep /\ TurnRowsKeep BY SameRows
<1>4. QED BY <1>1, <1>2, <1>3, RowMoves

LEMMA ChangeConfigStep == ASSUME TranscriptInv, ChangeConfig PROVE TranscriptInv'
<1> USE DEF ChangeConfig, history, inbox
<1>1. RowsTyped' BY BoundsArePositive DEF TranscriptInv, RowsTyped
<1>2. now <= now' BY TimeIs DEF TranscriptInv
<1>3. RowsKeep /\ TurnRowsKeep BY SameRows
<1>4. QED BY <1>1, <1>2, <1>3, RowMoves

LEMMA ReceiveStep ==
  ASSUME TranscriptInv, NEW m \in Messages, Receive(m) PROVE TranscriptInv'
<1> USE DEF Receive, history, inbox
<1>0. m \in Everything BY DEF Everything
<1>1. /\ state' \in [Everything -> Statuses] /\ state'[m] = "received"
      /\ \A n \in Everything \ {m} : state'[n] = state[n]
      /\ RowsKeep
      /\ m \notin Callers \/ state[m] \notin {"generating", "ignored"} => TurnRowsKeep
  <2>1. "received" \in Statuses BY DEF Statuses, Unrecorded
  <2>2. state[m] \in Unrecorded /\ state[m] \notin Answered /\ state[m] \notin Unanswered
    BY DEF Unrecorded, Answered, Unanswered
  <2>3. \A n \in Everything \ {m} : received'[n] = received[n]
    BY DEF TranscriptInv, RowsTyped
  <2>4. QED BY <1>0, <2>1, <2>2, <2>3, OneRow
<1>2. received' \in [Everything -> 0 .. now']
  <2>1. now \in 0 .. now BY TimeIs DEF TranscriptInv
  <2>2. received \in [Everything -> 0 .. now] BY DEF TranscriptInv, RowsTyped
  <2>3. QED BY <2>1, <2>2
<1>3. RowsTyped' BY <1>1, <1>2 DEF TranscriptInv, RowsTyped
<1>4. now <= now' BY TimeIs DEF TranscriptInv
<1>5. TurnRowsKeep BY <1>1
<1>6. \A c \in Resets : state[c] = "waiting" => state'[c] = "waiting" BY <1>1, Kinds
<1>7. QED BY <1>1, <1>3, <1>4, <1>5, <1>6, RowMoves

LEMMA MarkIgnoredStep ==
  ASSUME TranscriptInv, NEW m \in Messages, MarkIgnored(m) PROVE TranscriptInv'
<1> USE DEF MarkIgnored, history, inbox
<1>0. m \in Everything /\ m \in Callers BY DEF Everything, Callers
<1>1. /\ state' \in [Everything -> Statuses] /\ state'[m] = "ignored"
      /\ \A n \in Everything \ {m} : state'[n] = state[n]
      /\ RowsKeep
      /\ m \notin Callers \/ state[m] \notin {"generating", "ignored"} => TurnRowsKeep
  <2>1. "ignored" \in Statuses /\ "ignored" \in Unanswered BY DEF Statuses, Unanswered
  <2>2. state[m] \notin Answered BY DEF Answered
  <2>3. QED BY <1>0, <2>1, <2>2, OneRow
<1>3. RowsTyped' BY <1>1 DEF TranscriptInv, RowsTyped
<1>4. now <= now' BY TimeIs DEF TranscriptInv
<1>5. TurnRowsKeep BY <1>1
<1>6. \A c \in Resets : state[c] = "waiting" => state'[c] = "waiting" BY <1>0, <1>1, Kinds
<1>7. QED BY <1>1, <1>3, <1>4, <1>5, <1>6, RowMoves

LEMMA SendStep ==
  ASSUME TranscriptInv, NEW m \in Manual, SendChatMessage(m) PROVE TranscriptInv'
<1> USE DEF SendChatMessage, history, inbox
<1>0. m \in Everything /\ m \notin Resets BY Kinds DEF Everything
<1>1. /\ state' \in [Everything -> Statuses] /\ state'[m] = "sent"
      /\ \A n \in Everything \ {m} : state'[n] = state[n]
      /\ RowsKeep
      /\ m \notin Callers \/ state[m] \notin {"generating", "ignored"} => TurnRowsKeep
  <2>1. "sent" \in Statuses BY DEF Statuses, Unrecorded
  <2>2. state[m] \notin Answered /\ state[m] \notin Unanswered BY DEF Answered, Unanswered
  <2>3. QED BY <1>0, <2>1, <2>2, OneRow
<1>3. RowsTyped' BY <1>1 DEF TranscriptInv, RowsTyped
<1>4. now <= now' BY TimeIs DEF TranscriptInv
<1>5. TurnRowsKeep BY <1>1
<1>6. \A c \in Resets : state[c] = "waiting" => state'[c] = "waiting" BY <1>0, <1>1, Kinds
<1>7. QED BY <1>1, <1>3, <1>4, <1>5, <1>6, RowMoves

\* The whole invariant, when an entry is recorded beside the turn.
LEMMA Recording ==
  ASSUME TranscriptInv, RowsTyped', NEW e \in Entries, log' = Record(e),
         UNCHANGED <<now, cutoff, resetAt, received, turn, reset>>,
         RowsKeep, TurnRowsKeep, e \in ToSet(log) \/ state[e.of] \notin Answered,
         state'[e.of] \in IF IsAnswer(e) THEN Answered ELSE Answered \cup Unanswered,
         ~IsAnswer(e) => ~Predates(e.of),
         \A c \in Resets : state[c] = "waiting" => state'[c] = "waiting"
  PROVE  TranscriptInv'
<1>1. LogMatches' /\ AnswersFollow' /\ CutoffHides' BY LogGrows
<1>2. now' \in Int /\ now <= now' BY TimeIs DEF TranscriptInv
<1>3. ResetStands' BY <1>2, ResetStays
<1>4. ToSet(log) \subseteq ToSet(log)' BY EntriesStay
<1>5. \A n \in Callers : Asked(n) \in ToSet(log) => Asked(n) \in ToSet(log)' BY <1>4
<1>6. TurnStands' BY <1>5, TurnStays
<1>7. QED BY <1>1, <1>3, <1>6 DEF TranscriptInv

LEMMA ClaimAndResolveStep ==
  ASSUME TranscriptInv, NEW m \in Messages, ClaimAndResolveSender(m) PROVE TranscriptInv'
<1> USE DEF ClaimAndResolveSender, history, inbox
<1>0. m \in Everything BY DEF Everything
<1>1. /\ state' \in [Everything -> Statuses] /\ state'[m] = "waiting"
      /\ \A n \in Everything \ {m} : state'[n] = state[n]
      /\ RowsKeep
      /\ m \notin Callers \/ state[m] \notin {"generating", "ignored"} => TurnRowsKeep
  <2>1. "waiting" \in Statuses BY DEF Statuses, Unanswered
  <2>2. state[m] \notin Answered /\ state[m] \notin Unanswered BY DEF Answered, Unanswered
  <2>3. QED BY <1>0, <2>1, <2>2, OneRow
<1>3. RowsTyped' BY <1>1 DEF TranscriptInv, RowsTyped
<1>4. now <= now' BY TimeIs DEF TranscriptInv
<1>5. TurnRowsKeep BY <1>1
<1>6. \A c \in Resets : state[c] = "waiting" => state'[c] = "waiting" BY <1>1, Kinds
<1>7. CASE Predates(m)
  <2>1. log' = log BY <1>7
  <2>2. QED BY <2>1, <1>1, <1>3, <1>4, <1>5, <1>6, RowMoves
<1>8. CASE ~Predates(m)
  <2>1. PICK e : e = Asked(m) OBVIOUS
  <2>2. e \in Entries /\ e.of = m /\ ~IsAnswer(e) BY <2>1, <1>0, EntryKinds
  <2>3. log' = Record(e) BY <2>1, <1>8
  <2>4. state[e.of] \notin Answered BY <2>2 DEF Answered
  <2>5. state'[e.of] \in IF IsAnswer(e) THEN Answered ELSE Answered \cup Unanswered
    BY <2>2, <1>1 DEF Unanswered
  <2>6. ~Predates(e.of) BY <2>2, <1>8
  <2>7. QED BY <1>1, <1>3, <1>5, <1>6, <2>2, <2>3, <2>4, <2>5, <2>6, Recording
<1>9. QED BY <1>7, <1>8

LEMMA RecordManualStep ==
  ASSUME TranscriptInv, NEW m \in Manual, RecordManualAssistantMessage(m) PROVE TranscriptInv'
<1> USE DEF RecordManualAssistantMessage, history, inbox
<1>0. m \in Everything /\ m \notin Resets /\ m \notin Callers BY Kinds DEF Everything
<1>1. /\ state' \in [Everything -> Statuses] /\ state'[m] = "succeeded"
      /\ \A n \in Everything \ {m} : state'[n] = state[n]
      /\ RowsKeep
      /\ m \notin Callers \/ state[m] \notin {"generating", "ignored"} => TurnRowsKeep
  <2>1. "succeeded" \in Statuses BY DEF Statuses, Answered
  <2>2. state[m] \notin Answered /\ state[m] \notin Unanswered BY DEF Answered, Unanswered
  <2>3. QED BY <1>0, <2>1, <2>2, OneRow
<1>3. RowsTyped' BY <1>1 DEF TranscriptInv, RowsTyped
<1>5. TurnRowsKeep BY <1>0, <1>1
<1>6. \A c \in Resets : state[c] = "waiting" => state'[c] = "waiting" BY <1>0, <1>1, Kinds
<1>8. PICK e : e = Answer(m, "succeeded") OBVIOUS
<1>9. e \in Entries /\ e.of = m /\ IsAnswer(e) BY <1>8, <1>0, EntryKinds
<1>10. log' = Record(e) BY <1>8
<1>11. state[e.of] \notin Answered BY <1>9 DEF Answered
<1>12. state'[e.of] \in IF IsAnswer(e) THEN Answered ELSE Answered \cup Unanswered
  BY <1>9, <1>1 DEF Answered
<1>13. QED BY <1>1, <1>3, <1>5, <1>6, <1>9, <1>10, <1>11, <1>12, Recording

-----------------------------------------------------------------------------
(* The steps of the turn keep the invariant.                                *)

\* The whole invariant, when only the turn and rows move.
LEMMA TurnMoves ==
  ASSUME TranscriptInv, RowsTyped', TurnStands', UNCHANGED <<log, cutoff, resetAt, reset>>, now' = now,
         RowsKeep, \A c \in Resets : state[c] = "waiting" => state'[c] = "waiting"
  PROVE  TranscriptInv'
<1>1. LogMatches' /\ AnswersFollow' /\ CutoffHides' BY LogStays
<1>2. now' \in Int /\ now <= now' BY TimeIs DEF TranscriptInv
<1>3. ResetStands' BY <1>2, ResetStays
<1>4. QED BY <1>1, <1>3 DEF TranscriptInv

\* The fields of a turn that is past its first step.
LEMMA TurnFields ==
  ASSUME TranscriptInv
  PROVE  /\ turn.step # "idle" => turn.anchor \in Callers /\ turn.batch \in SUBSET Callers
         /\ turn.step \in {"authorized", "claimed", "appended"} => turn.v \in 1 .. MaxVersions
         /\ turn.step \in {"authorized", "claimed", "appended"} =>
              turn \in [step : {"authorized", "claimed", "appended"}, batch : SUBSET Callers,
                        anchor : Callers, v : 1 .. MaxVersions]
         /\ turn.step \in {"claimed", "appended", "prompted"} =>
              state[turn.anchor] \in {"generating", "ignored"}
<1>1. turn \in TurnRecords BY DEF TranscriptInv, TurnStands
<1>2. turn.step \in {"claimed", "appended", "prompted"} =>
        state[turn.anchor] \in {"generating", "ignored"}
  BY DEF TranscriptInv, TurnStands
<1>3. QED BY <1>1, <1>2 DEF TurnRecords, NoTurn

\* A turn that has claimed nothing yet, or has committed, holds no row.
LEMMA TurnBegins ==
  ASSUME turn' \in TurnRecords', turn'.step \notin {"claimed", "appended", "prompted"}
  PROVE  TurnStands'
BY DEF TurnStands

\* A turn that is given up takes its row along, unless a reset has it.
LEMMA GivenUp ==
  ASSUME TranscriptInv, turn.anchor \in Callers, NEW how \in {"retryable", "failed"},
         FailGeneration(how), received' = received
  PROVE  /\ state' \in [Everything -> Statuses] /\ RowsKeep
         /\ \A c \in Resets : state[c] = "waiting" => state'[c] = "waiting"
<1>1. PICK m : m = turn.anchor OBVIOUS
<1>2. PICK to : to = IF state[m] = "generating" THEN how ELSE state[m] OBVIOUS
<1>3. state \in [Everything -> Statuses] BY DEF TranscriptInv, RowsTyped
<1>4. m \in Everything /\ m \notin Resets /\ m \in Callers BY <1>1, Kinds
<1>5. state' = [state EXCEPT ![m] = to] BY <1>1, <1>2 DEF FailGeneration
<1>6. to \in Statuses BY <1>2, <1>3, <1>4 DEF Statuses, Answered, Unanswered
<1>7. state[m] \in Answered => to \in Answered BY <1>2 DEF Answered
<1>8. state[m] \in Unanswered => to \in Answered \cup Unanswered
  BY <1>2 DEF Answered, Unanswered
<1>9. /\ state' \in [Everything -> Statuses] /\ state'[m] = to
      /\ \A n \in Everything \ {m} : state'[n] = state[n]
      /\ RowsKeep
      /\ m \notin Callers \/ state[m] \notin {"generating", "ignored"} => TurnRowsKeep
  BY <1>4, <1>5, <1>6, <1>7, <1>8, OneRow
<1>10. QED BY <1>4, <1>9, Kinds

LEMMA ClaimBatchStep ==
  ASSUME TranscriptInv, NEW batch \in SUBSET Users \ {{}}, ClaimBatch(batch) PROVE TranscriptInv'
<1> USE DEF history, inbox
<1> DEFINE waits == \A m \in batch : state[m] = "waiting"
           live == IF waits THEN {m \in batch : ~Predates(m)} ELSE batch
           last == CHOOSE m \in live : \A other \in live : Sequence(other) <= Sequence(m)
<1>1. /\ turn.step = "idle"
      /\ waits \/ \E m \in batch : batch = {m} /\ state[m] \in Unfinished
      /\ state' = [m \in Everything |->
                     IF m \notin batch THEN state[m]
                     ELSE IF m \notin live THEN "ignored"
                     ELSE IF m # last THEN "batched" ELSE state[m]]
      /\ turn' = IF live = {} THEN NoTurn
                 ELSE [step |-> "batched", batch |-> live, anchor |-> last]
      /\ UNCHANGED <<now, version, log, cutoff, resetAt, received, reset, faults>>
  BY DEF ClaimBatch
<1>2. live \subseteq batch /\ batch \subseteq Users OBVIOUS
<1>3. ASSUME live # {} PROVE last \in live
  <2>1. log \in Seq(Entries) BY DEF TranscriptInv, LogMatches
  <2>2. \A m : Sequence(m) \in 0 .. Len(log) BY <2>1, SequenceIs
  <2> DEFINE T == {Sequence(m) : m \in live}
  <2>3. T \subseteq 0 .. Len(log) /\ T # {} BY <2>2, <1>3
  <2>4. Len(log) \in Nat BY <2>1
  <2>5. PICK n : n = Len(log) OBVIOUS
  <2>6. PICK U : U = T OBVIOUS
  <2>7. \E x \in U : \A y \in U : y <= x
    <3>1. n \in Nat BY <2>4, <2>5
    <3>2. U \subseteq 0 .. n /\ U # {} BY <2>3, <2>5, <2>6
    <3>3. QED BY <3>1, <3>2, GreatestNumber
  <2>8. \E m \in live : \A other \in live : Sequence(other) <= Sequence(m) BY <2>6, <2>7
  <2> HIDE DEF live
  <2>9. QED BY <2>8
<1>4. state \in [Everything -> Statuses] BY DEF TranscriptInv, RowsTyped
<1>5. ASSUME NEW m \in Everything, state'[m] # state[m]
      PROVE  m \in Callers /\ state[m] = "waiting" /\ state'[m] \in {"ignored", "batched"}
  <2>1. m \in batch BY <1>1, <1>5
  <2>2. m \in Callers BY <2>1 DEF Callers
  <2>3. waits
    <3>1. SUFFICES ASSUME ~waits PROVE FALSE OBVIOUS
    <3>2. batch = {m} BY <3>1, <2>1, <1>1
    <3>3. live = {m} BY <3>1, <3>2
    <3>4. last = m
      <4> HIDE DEF live, last
      <4>1. QED BY <3>3, <1>3
    <3>5. m \in live BY <3>3
    <3> HIDE DEF live, last, waits
    <3>6. QED BY <3>4, <3>5, <1>1, <1>5
  <2>4. state[m] = "waiting" BY <2>1, <2>3
  <2>5. state'[m] \in {"ignored", "batched"}
    <3> HIDE DEF live, last, waits
    <3>1. QED BY <2>1, <1>1, <1>5
  <2>6. QED BY <2>2, <2>4, <2>5
<1>6. state' \in [Everything -> Statuses]
  <2>1. \A m \in Everything : state'[m] \in Statuses
    BY <1>4, <1>5 DEF Statuses, Unanswered
  <2> HIDE DEF live, last, waits
  <2>2. QED BY <2>1, <1>1
<1>7. RowsTyped'
  <2> HIDE DEF live, last, waits
  <2>1. QED BY <1>1, <1>6 DEF TranscriptInv, RowsTyped
<1>8. RowsKeep
  <2> HIDE DEF live, last, waits
  <2>1. received' = received BY <1>1
  <2>2. \A m \in Everything : state'[m] # state[m] => state[m] = "waiting" /\ state'[m] \in {"ignored", "batched"}
    BY <1>5
  <2>3. QED BY <2>1, <2>2 DEF RowsKeep, Answered, Unanswered
<1>9. \A c \in Resets : state[c] = "waiting" => state'[c] = "waiting" BY <1>5, Kinds
<1>10. turn' \in TurnRecords' /\ turn'.step \notin {"claimed", "appended", "prompted"}
  <2>1. CASE live = {}
    <3>1. turn' = NoTurn BY <1>1, <2>1
    <3>2. QED BY <3>1 DEF TurnRecords, NoTurn
  <2>2. CASE live # {}
    <3>1. last \in Callers BY <2>2, <1>2, <1>3 DEF Callers
    <3>2. live \in SUBSET Callers BY <1>2 DEF Callers
    <3> HIDE DEF live, last, waits
    <3>3. turn' = [step |-> "batched", batch |-> live, anchor |-> last] BY <1>1, <2>2
    <3>4. turn' \in [step : {"batched", "sending"}, batch : SUBSET Callers, anchor : Callers]
      BY <3>1, <3>2, <3>3
    <3>5. turn'.step = "batched" BY <3>3
    <3>6. QED BY <3>4, <3>5 DEF TurnRecords
  <2>3. QED BY <2>1, <2>2
<1>11. TurnStands' BY <1>10, TurnBegins
<1>12. UNCHANGED <<log, cutoff, resetAt, reset>> /\ now' = now BY <1>1
<1>13. QED BY <1>7, <1>8, <1>9, <1>11, <1>12, TurnMoves

LEMMA ProcessBatchStep == ASSUME TranscriptInv, ProcessBatch PROVE TranscriptInv'
<1> USE DEF ProcessBatch, history, inbox
<1>1. RowsTyped' BY DEF TranscriptInv, RowsTyped
<1>2. RowsKeep BY SameRows
<1>3. turn.step # "idle" BY DEF ProcessBatch
<1>4. turn.anchor \in Callers /\ turn.batch \in SUBSET Callers BY <1>3, TurnFields
<1>5. version \in 1 .. MaxVersions BY DEF TranscriptInv, RowsTyped
<1>6. turn' = NoTurn \/ turn' = [step |-> "authorized", batch |-> turn.batch,
                                anchor |-> turn.anchor, v |-> version]
  BY DEF EndTurn
<1>7. turn' \in TurnRecords' /\ turn'.step \notin {"claimed", "appended", "prompted"}
  BY <1>4, <1>5, <1>6 DEF TurnRecords, NoTurn
<1>8. TurnStands' BY <1>7, TurnBegins
<1>9. QED BY <1>1, <1>2, <1>8, TurnMoves

LEMMA RunTaskStep == ASSUME TranscriptInv, NEW t \in Tasks, RunTask(t) PROVE TranscriptInv'
<1> USE DEF RunTask, history, inbox
<1>1. RowsTyped' BY DEF TranscriptInv, RowsTyped
<1>2. RowsKeep BY SameRows
<1>5. version \in 1 .. MaxVersions BY DEF TranscriptInv, RowsTyped
<1>6. t \in Callers BY DEF Callers
<1>7. turn' \in TurnRecords' /\ turn'.step \notin {"claimed", "appended", "prompted"}
  BY <1>5, <1>6 DEF TurnRecords
<1>8. TurnStands' BY <1>7, TurnBegins
<1>9. QED BY <1>1, <1>2, <1>8, TurnMoves

LEMMA ClaimStep == ASSUME TranscriptInv, Claim PROVE TranscriptInv'
<1> USE DEF history, inbox
<1>0. PICK m : m = turn.anchor OBVIOUS
<1>1. /\ turn.step = "authorized"
      /\ \/ /\ state[m] \in Unfinished \cup {"new"}
            /\ state' = [state EXCEPT ![m] = "generating"]
            /\ received' = IF state[m] = "new" THEN [received EXCEPT ![m] = now] ELSE received
            /\ turn' = [turn EXCEPT !.step = "claimed"]
         \/ EndTurn /\ UNCHANGED <<state, received>>
      /\ UNCHANGED <<now, version, log, cutoff, resetAt, reset, faults>>
  BY <1>0 DEF Claim
<1>2. m \in Callers /\ m \in Everything /\ m \notin Resets BY <1>0, <1>1, TurnFields, Kinds
<1>3. CASE EndTurn /\ UNCHANGED <<state, received>>
  <2>1. RowsTyped' BY <1>1, <1>3 DEF TranscriptInv, RowsTyped
  <2>2. RowsKeep BY <1>3, SameRows
  <2>3. TurnStands' BY <1>3, TurnIdle DEF EndTurn
  <2>4. QED BY <1>1, <1>3, <2>1, <2>2, <2>3, TurnMoves
<1>4. CASE /\ state[m] \in Unfinished \cup {"new"}
           /\ state' = [state EXCEPT ![m] = "generating"]
           /\ received' = IF state[m] = "new" THEN [received EXCEPT ![m] = now] ELSE received
           /\ turn' = [turn EXCEPT !.step = "claimed"]
  <2>1. received \in [Everything -> 0 .. now] /\ now \in 0 .. now
    BY TimeIs DEF TranscriptInv, RowsTyped
  <2>2. received' \in [Everything -> 0 .. now] BY <1>4, <2>1
  <2>3. \/ received' = received
        \/ state[m] \in Unrecorded /\ \A n \in Everything \ {m} : received'[n] = received[n]
    BY <1>4, <2>1 DEF Unrecorded
  <2>4. "generating" \in Statuses /\ "generating" \in Answered \cup Unanswered
    BY DEF Statuses, Unanswered
  <2>5. state[m] \notin Answered BY <1>4 DEF Unfinished, Answered
  <2>6. /\ state' \in [Everything -> Statuses] /\ state'[m] = "generating"
        /\ \A n \in Everything \ {m} : state'[n] = state[n]
        /\ RowsKeep
        /\ m \notin Callers \/ state[m] \notin {"generating", "ignored"} => TurnRowsKeep
    BY <1>2, <1>4, <2>3, <2>4, <2>5, OneRow
  <2>7. RowsTyped' BY <1>1, <2>2, <2>6 DEF TranscriptInv, RowsTyped
  <2>8. \A c \in Resets : state[c] = "waiting" => state'[c] = "waiting" BY <1>2, <2>6, Kinds
  <2>9. turn \in [step : {"authorized", "claimed", "appended"}, batch : SUBSET Callers,
                  anchor : Callers, v : 1 .. MaxVersions]
    BY <1>1, TurnFields
  <2>10. turn' \in [step : {"authorized", "claimed", "appended"}, batch : SUBSET Callers,
                    anchor : Callers, v : 1 .. MaxVersions]
         /\ turn'.step = "claimed" /\ turn'.anchor = m
    BY <1>0, <1>4, <2>9
  <2>11. TurnStands'
    <3>1. turn' \in TurnRecords' BY <2>10 DEF TurnRecords
    <3>2. state'[turn'.anchor] \in {"generating", "ignored"} BY <2>6, <2>10
    <3>3. turn'.step \notin {"appended", "prompted"} BY <2>10
    <3>4. QED BY <3>1, <3>2, <3>3 DEF TurnStands
  <2>12. QED BY <1>1, <2>6, <2>7, <2>8, <2>11, TurnMoves
<1>5. QED BY <1>1, <1>3, <1>4

\* A turn that ends without its answer.
LEMMA TurnFails ==
  ASSUME TranscriptInv, turn.step # "idle", NEW how \in {"retryable", "failed"}, FailGeneration(how),
         EndTurn, faults' \in 0 .. MaxFaults,
         UNCHANGED <<now, version, log, cutoff, resetAt, received, reset>>
  PROVE  TranscriptInv'
<1>1. turn.anchor \in Callers BY TurnFields
<1>2. /\ state' \in [Everything -> Statuses] /\ RowsKeep
      /\ \A c \in Resets : state[c] = "waiting" => state'[c] = "waiting"
  BY <1>1, GivenUp
<1>3. RowsTyped' BY <1>2 DEF TranscriptInv, RowsTyped
<1>4. TurnStands' BY TurnIdle DEF EndTurn
<1>5. QED BY <1>2, <1>3, <1>4, TurnMoves

LEMMA AppendAnchorStep == ASSUME TranscriptInv, AppendAnchor PROVE TranscriptInv'
<1> USE DEF history, inbox
<1>1. /\ turn.step = "claimed"
      /\ \/ FailGeneration("failed") /\ EndTurn /\ UNCHANGED log
         \/ /\ ~Predates(turn.anchor)
            /\ log' = Record(Asked(turn.anchor))
            /\ turn' = [turn EXCEPT !.step = "appended"]
            /\ UNCHANGED state
      /\ UNCHANGED <<now, version, cutoff, resetAt, received, reset, faults>>
  BY DEF AppendAnchor
<1>2. CASE FailGeneration("failed") /\ EndTurn /\ UNCHANGED log
  <2>1. faults' \in 0 .. MaxFaults BY <1>1 DEF TranscriptInv, RowsTyped
  <2>2. turn.step # "idle" BY <1>1
  <2>3. QED BY <1>1, <1>2, <2>1, <2>2, TurnFails
<1>3. CASE /\ ~Predates(turn.anchor)
           /\ log' = Record(Asked(turn.anchor))
           /\ turn' = [turn EXCEPT !.step = "appended"]
           /\ UNCHANGED state
  <2>1. PICK m : m = turn.anchor OBVIOUS
  <2>2. m \in Callers /\ m \in Everything BY <1>1, <2>1, TurnFields, Kinds
  <2>3. PICK e : e = Asked(m) OBVIOUS
  <2>4. e \in Entries /\ e.of = m /\ ~IsAnswer(e) BY <2>2, <2>3, EntryKinds
  <2>5. log' = Record(e) BY <1>3, <2>1, <2>3
  <2>6. state[m] \in {"generating", "ignored"} BY <1>1, <2>1, TurnFields
  <2>7. state[e.of] \notin Answered BY <2>4, <2>6 DEF Answered
  <2>8. state'[e.of] \in IF IsAnswer(e) THEN Answered ELSE Answered \cup Unanswered
    BY <1>3, <2>4, <2>6 DEF Unanswered
  <2>9. ~Predates(e.of) BY <1>3, <2>1, <2>4
  <2>10. RowsKeep BY <1>1, <1>3, SameRows
  <2>11. LogMatches' /\ AnswersFollow' /\ CutoffHides'
    BY <1>1, <2>4, <2>5, <2>7, <2>8, <2>9, <2>10, LogGrows
  <2>12. now' \in Int /\ now <= now' BY <1>1, TimeIs DEF TranscriptInv
  <2>13. ResetStands' BY <1>1, <1>3, <2>12, ResetStays
  <2>14. e \in ToSet(log)' BY <2>4, <2>5, EntriesStay
  <2>15. turn \in [step : {"authorized", "claimed", "appended"}, batch : SUBSET Callers,
                   anchor : Callers, v : 1 .. MaxVersions]
    BY <1>1, TurnFields
  <2>16. turn' \in [step : {"authorized", "claimed", "appended"}, batch : SUBSET Callers,
                    anchor : Callers, v : 1 .. MaxVersions]
         /\ turn'.step = "appended" /\ turn'.anchor = m
    BY <1>3, <2>1, <2>15
  <2>17. TurnStands'
    <3>1. turn' \in TurnRecords' BY <2>16 DEF TurnRecords
    <3>2. state'[turn'.anchor] \in {"generating", "ignored"} BY <1>3, <2>6, <2>16
    <3>3. (Asked(turn.anchor) \in ToSet(log))'
      <4>1. Asked(turn'.anchor) = e BY <2>3, <2>16
      <4>2. QED BY <4>1, <2>14 DEF Asked
    <3>4. (~Predates(turn.anchor))' BY <1>1, <1>3, <2>1, <2>16 DEF Predates
    <3>5. QED BY <3>1, <3>2, <3>3, <3>4 DEF TurnStands
  <2>18. RowsTyped' BY <1>1, <1>3 DEF TranscriptInv, RowsTyped
  <2>19. QED BY <2>11, <2>13, <2>17, <2>18 DEF TranscriptInv
<1>4. QED BY <1>1, <1>2, <1>3

LEMMA PromptStep == ASSUME TranscriptInv, Prompt PROVE TranscriptInv'
<1> USE DEF history, inbox
<1>1. PICK m : m = turn.anchor OBVIOUS
<1>2. PICK th : th = Sequence(m) OBVIOUS
<1>3. PICK entries : entries = List(th) OBVIOUS
<1>4. /\ turn.step = "appended"
      /\ \/ FailGeneration("failed") /\ EndTurn
         \/ /\ th > cutoff
            /\ turn' = [step |-> "prompted", batch |-> turn.batch,
                        anchor |-> turn.anchor, shown |-> Build(entries)]
            /\ UNCHANGED state
      /\ UNCHANGED <<now, version, log, cutoff, resetAt, received, reset, faults>>
  BY <1>1, <1>2, <1>3 DEF Prompt
<1>5. CASE FailGeneration("failed") /\ EndTurn
  <2>1. faults' \in 0 .. MaxFaults BY <1>4 DEF TranscriptInv, RowsTyped
  <2>2. turn.step # "idle" BY <1>4
  <2>3. QED BY <1>4, <1>5, <2>1, <2>2, TurnFails
<1>6. CASE /\ th > cutoff
           /\ turn' = [step |-> "prompted", batch |-> turn.batch,
                       anchor |-> turn.anchor, shown |-> Build(entries)]
           /\ UNCHANGED state
  <2>1. log \in Seq(Entries) /\ cutoff \in Int BY DEF TranscriptInv, LogMatches
  <2>2. th \in 0 .. Len(log) BY <2>1, <1>2, SequenceIs
  <2>3. cutoff < th BY <1>6, <2>1, <2>2
  <2>4. entries \in Seq(Entries) BY <1>3, <2>2, <2>3, ListType
  <2>5. Build(entries) \in Seq(Entries) BY <2>4, BuildType
  <2>6. turn.anchor \in Callers /\ turn.batch \in SUBSET Callers BY <1>4, TurnFields
  <2>7. turn' \in [step : {"prompted"}, batch : SUBSET Callers, anchor : Callers, shown : Seq(Entries)]
        /\ turn'.anchor = turn.anchor
    BY <1>6, <2>5, <2>6
  <2>8. turn' \in TurnRecords' BY <2>7 DEF TurnRecords
  <2>9. state'[turn'.anchor] \in {"generating", "ignored"} BY <1>4, <1>6, <2>7, TurnFields
  <2>10. Asked(turn.anchor) \in ToSet(log) /\ (state[turn.anchor] = "generating" => ~Predates(turn.anchor))
    BY <1>4 DEF TranscriptInv, TurnStands
  <2>11. (Asked(turn.anchor) \in ToSet(log))'
    <3>1. Asked(turn'.anchor) = Asked(turn.anchor) BY <2>7
    <3>2. log' = log BY <1>4
    <3>3. QED BY <3>1, <3>2, <2>10 DEF Asked, ToSet
  <2>12. (state[turn.anchor] = "generating" => ~Predates(turn.anchor))'
    BY <1>4, <1>6, <2>7, <2>10 DEF Predates
  <2>13. TurnStands' BY <2>8, <2>9, <2>11, <2>12 DEF TurnStands
  <2>14. RowsTyped' BY <1>4, <1>6 DEF TranscriptInv, RowsTyped
  <2>15. RowsKeep BY <1>4, <1>6, SameRows
  <2>16. QED BY <1>4, <1>6, <2>13, <2>14, <2>15, TurnMoves
<1>7. QED BY <1>4, <1>5, <1>6

LEMMA FaultIs == ASSUME TranscriptInv, Fault PROVE faults' \in 0 .. MaxFaults
BY BoundsArePositive DEF TranscriptInv, RowsTyped, Fault

LEMMA GenerationFailsStep == ASSUME TranscriptInv, GenerationFails PROVE TranscriptInv'
<1> USE DEF history, inbox
<1>1. PICK how \in {"retryable", "failed"} : FailGeneration(how) BY DEF GenerationFails
<1>2. turn.step # "idle" BY DEF GenerationFails
<1>3. faults' \in 0 .. MaxFaults BY FaultIs DEF GenerationFails
<1>4. EndTurn /\ UNCHANGED <<now, version, log, cutoff, resetAt, received, reset>>
  BY DEF GenerationFails
<1>5. QED BY <1>1, <1>2, <1>3, <1>4, TurnFails

LEMMA DispatchPlanStep == ASSUME TranscriptInv, DispatchPlan PROVE TranscriptInv'
<1> USE DEF DispatchPlan, history, inbox
<1>1. RowsTyped' BY DEF TranscriptInv, RowsTyped
<1>2. RowsKeep BY SameRows
<1>3. TurnStands' BY TurnIdle DEF EndTurn
<1>4. QED BY <1>1, <1>2, <1>3, TurnMoves

LEMMA CommitPlanStep ==
  ASSUME TranscriptInv, NEW text \in BOOLEAN, CommitPlan(text) PROVE TranscriptInv'
<1> USE DEF history, inbox
<1>0. PICK m : m = turn.anchor OBVIOUS
<1>1. PICK to : to = IF text THEN "planned" ELSE "succeeded" OBVIOUS
<1>2. /\ turn.step = "prompted"
      /\ \/ EndTurn /\ UNCHANGED <<state, log>>
         \/ /\ state[m] = "generating"
            /\ state' = [state EXCEPT ![m] = to]
            /\ log' = IF text THEN Record(Answer(m, "pending")) ELSE log
            /\ turn' = [step |-> "sending", batch |-> turn.batch, anchor |-> m]
      /\ UNCHANGED <<now, version, cutoff, resetAt, received, reset, faults>>
  BY <1>0, <1>1 DEF CommitPlan
<1>3. CASE EndTurn /\ UNCHANGED <<state, log>>
  <2>1. RowsTyped' BY <1>2, <1>3 DEF TranscriptInv, RowsTyped
  <2>2. RowsKeep BY <1>2, <1>3, SameRows
  <2>3. TurnStands' BY <1>3, TurnIdle DEF EndTurn
  <2>4. QED BY <1>2, <1>3, <2>1, <2>2, <2>3, TurnMoves
<1>4. CASE /\ state[m] = "generating"
           /\ state' = [state EXCEPT ![m] = to]
           /\ log' = IF text THEN Record(Answer(m, "pending")) ELSE log
           /\ turn' = [step |-> "sending", batch |-> turn.batch, anchor |-> m]
  <2>1. m \in Callers /\ turn.batch \in SUBSET Callers BY <1>0, <1>2, TurnFields
  <2>2. m \in Everything /\ m \notin Resets BY <2>1, Kinds
  <2>3. to \in Answered /\ to \in Statuses BY <1>1 DEF Answered, Statuses
  <2>4. state[m] \notin Answered BY <1>4 DEF Answered
  <2>5. received' = received BY <1>2
  <2>6. /\ state' \in [Everything -> Statuses] /\ state'[m] = to
        /\ \A n \in Everything \ {m} : state'[n] = state[n]
        /\ RowsKeep
        /\ m \notin Callers \/ state[m] \notin {"generating", "ignored"} => TurnRowsKeep
    BY <1>4, <2>2, <2>3, <2>4, <2>5, OneRow
  <2>7. RowsTyped' BY <1>2, <2>6 DEF TranscriptInv, RowsTyped
  <2>8. \A c \in Resets : state[c] = "waiting" => state'[c] = "waiting" BY <2>2, <2>6, Kinds
  <2>9. turn' \in [step : {"batched", "sending"}, batch : SUBSET Callers, anchor : Callers]
        /\ turn'.step = "sending"
    BY <1>4, <2>1
  <2>10. turn' \in TurnRecords' /\ turn'.step \notin {"claimed", "appended", "prompted"}
    BY <2>9 DEF TurnRecords
  <2>11. TurnStands' BY <2>10, TurnBegins
  <2>12. CASE ~text
    <3>1. log' = log BY <1>4, <2>12
    <3>2. QED BY <3>1, <1>2, <2>6, <2>7, <2>8, <2>11, TurnMoves
  <2>13. CASE text
    <3>1. PICK e : e = Answer(m, "pending") OBVIOUS
    <3>2. e \in Entries /\ e.of = m /\ IsAnswer(e) BY <3>1, <2>2, EntryKinds
    <3>3. log' = Record(e) BY <1>4, <2>13, <3>1
    <3>4. state[e.of] \notin Answered BY <2>4, <3>2
    <3>5. state'[e.of] \in IF IsAnswer(e) THEN Answered ELSE Answered \cup Unanswered
      BY <2>3, <2>6, <3>2
    <3>6. LogMatches' /\ AnswersFollow' /\ CutoffHides'
      BY <1>2, <2>6, <3>2, <3>3, <3>4, <3>5, LogGrows
    <3>7. now' \in Int /\ now <= now' BY <1>2, TimeIs DEF TranscriptInv
    <3>8. ResetStands' BY <1>2, <2>8, <3>7, ResetStays
    <3>9. QED BY <2>7, <2>11, <3>6, <3>8 DEF TranscriptInv
  <2>14. QED BY <2>12, <2>13
<1>5. QED BY <1>2, <1>3, <1>4

LEMMA FinishActionStep ==
  ASSUME TranscriptInv, NEW m \in Everything, NEW outcome \in {"succeeded", "failed"},
         FinishAction(m, outcome)
  PROVE  TranscriptInv'
<1> USE DEF history, inbox
<1>1. /\ state[m] = "planned" /\ state' = [state EXCEPT ![m] = outcome]
      /\ log' = [i \in DOMAIN log |->
                   IF IsAnswer(log[i]) /\ log[i].of = m THEN Answer(m, outcome) ELSE log[i]]
      /\ UNCHANGED <<now, version, cutoff, resetAt, received, turn, reset, faults>>
  BY DEF FinishAction
<1>2. outcome \in Answered /\ outcome \in Statuses BY DEF Answered, Statuses
<1>3. /\ state' \in [Everything -> Statuses] /\ state'[m] = outcome
      /\ \A n \in Everything \ {m} : state'[n] = state[n]
      /\ RowsKeep
      /\ m \notin Callers \/ state[m] \notin {"generating", "ignored"} => TurnRowsKeep
  <2>1. state[m] \in Answered => outcome \in Answered BY <1>2
  <2>2. state[m] \in Unanswered => outcome \in Answered \cup Unanswered BY <1>2
  <2>3. received' = received BY <1>1
  <2>4. QED BY <1>1, <1>2, <2>1, <2>2, <2>3, OneRow
<1>4. TurnRowsKeep BY <1>1, <1>3
<1>5. RowsTyped' BY <1>1, <1>3 DEF TranscriptInv, RowsTyped
<1>6. \A c \in Resets : state[c] = "waiting" => state'[c] = "waiting" BY <1>1, <1>3, Kinds
<1>7. log \in Seq(Entries) /\ cutoff \in 0 .. Len(log) BY DEF TranscriptInv, LogMatches
<1>8. DOMAIN log = 1 .. Len(log) /\ Len(log) \in Nat BY <1>7
<1>9. PICK a : a = Answer(m, outcome) OBVIOUS
<1>10. a \in Entries /\ a.of = m /\ IsAnswer(a) BY <1>9, EntryKinds
<1>11. \A i \in 1 .. Len(log) :
         log'[i] = IF IsAnswer(log[i]) /\ log[i].of = m THEN a ELSE log[i]
  BY <1>1, <1>8, <1>9
<1>12. \A i \in 1 .. Len(log) : log[i] \in Entries /\ log[i].of \in Everything BY <1>7, EntryKinds
<1>13. log' \in Seq(Entries) /\ Len(log') = Len(log)
  <2>1. \A i \in 1 .. Len(log) : log'[i] \in Entries BY <1>10, <1>11, <1>12
  <2>2. DOMAIN log' = 1 .. Len(log) /\ log' = [i \in 1 .. Len(log) |-> log'[i]] BY <1>1, <1>8
  <2>3. log' \in [1 .. Len(log) -> Entries] BY <2>1, <2>2
  <2>4. QED BY <2>3, <1>8
<1>14. ASSUME NEW i \in 1 .. Len(log)
       PROVE  log'[i].of = log[i].of /\ (IsAnswer(log'[i]) <=> IsAnswer(log[i]))
  <2>1. CASE IsAnswer(log[i]) /\ log[i].of = m
    <3>1. log'[i] = a BY <2>1, <1>11
    <3>2. QED BY <3>1, <2>1, <1>10
  <2>2. CASE ~(IsAnswer(log[i]) /\ log[i].of = m)
    <3>1. log'[i] = log[i] BY <2>2, <1>11
    <3>2. QED BY <3>1
  <2>3. QED BY <2>1, <2>2
<1>15. ASSUME NEW i \in 1 .. Len(log)
       PROVE  state'[log'[i].of] \in IF IsAnswer(log'[i]) THEN Answered ELSE Answered \cup Unanswered
  <2>1. state[log[i].of] \in IF IsAnswer(log[i]) THEN Answered ELSE Answered \cup Unanswered
    BY DEF TranscriptInv, LogMatches
  <2>2. state'[log[i].of] \in IF IsAnswer(log[i]) THEN Answered ELSE Answered \cup Unanswered
    BY <2>1, <1>3, <1>12 DEF RowsKeep
  <2>3. QED BY <2>2, <1>14
<1>16. LogMatches'
  <2>1. (\A i \in 1 .. Len(log) :
           state[log[i].of] \in IF IsAnswer(log[i]) THEN Answered ELSE Answered \cup Unanswered)'
    BY <1>13, <1>15 DEF IsAnswer
  <2>2. (log \in Seq(Entries))' BY <1>13 DEF Entries, Asked, Answer
  <2>3. (cutoff \in 0 .. Len(log))' BY <1>1, <1>7, <1>13
  <2>4. QED BY <2>1, <2>2, <2>3 DEF LogMatches
<1>17. AnswersFollow'
  <2>1. ASSUME NEW i \in 1 .. Len(log), NEW j \in 1 .. Len(log), log'[i].of = log'[j].of, i < j
        PROVE  ~IsAnswer(log'[i]) /\ IsAnswer(log'[j])
    <3>1. log[i].of = log[j].of BY <2>1, <1>14
    <3>2. ~IsAnswer(log[i]) /\ IsAnswer(log[j])
      BY <3>1, <2>1 DEF TranscriptInv, AnswersFollow
    <3>3. QED BY <3>2, <1>14
  <2>2. QED BY <2>1, <1>13 DEF AnswersFollow, IsAnswer
<1>18. CutoffHides'
  <2>1. ASSUME NEW i \in 1 .. Len(log), i > cutoff, ~IsAnswer(log'[i])
        PROVE  ~(received[log'[i].of] <= resetAt)
    <3>1. ~IsAnswer(log[i]) BY <2>1, <1>14
    <3>2. ~Predates(log[i].of) BY <3>1, <2>1 DEF TranscriptInv, CutoffHides
    <3>3. QED BY <3>2, <1>14 DEF Predates
  <2>2. QED BY <2>1, <1>1, <1>13 DEF CutoffHides, IsAnswer, Predates
<1>19. now' \in Int /\ now <= now' BY <1>1, TimeIs DEF TranscriptInv
<1>20. ResetStands' BY <1>1, <1>6, <1>19, ResetStays
<1>21. ASSUME NEW n \in Callers, Asked(n) \in ToSet(log) PROVE Asked(n) \in ToSet(log)'
  <2>1. PICK i \in 1 .. Len(log) : log[i] = Asked(n) BY <1>7, <1>21, SetOfLog
  <2>2. ~IsAnswer(log[i]) BY <2>1, EntryKinds
  <2>3. log'[i] = Asked(n) BY <2>1, <2>2, <1>11
  <2>4. i \in DOMAIN log' BY <1>1, <1>8
  <2>5. QED BY <2>3, <2>4 DEF ToSet
<1>22. TurnStands' BY <1>1, <1>3, <1>4, <1>21, TurnStays
<1>23. QED BY <1>5, <1>16, <1>17, <1>18, <1>20, <1>22 DEF TranscriptInv

-----------------------------------------------------------------------------
(* The steps of a reset keep the invariant, and the end of the process.     *)

LEMMA ResetFields ==
  ASSUME TranscriptInv, reset.step # "idle"
  PROVE  /\ reset.of \in Resets /\ state[reset.of] = "waiting" /\ reset.v \in 1 .. MaxVersions
         /\ reset.step \in {"clocked", "replying"} =>
              reset \in [step : {"clocked", "replying"}, of : Resets, v : 1 .. MaxVersions, at : 0 .. now]
BY DEF TranscriptInv, ResetStands, NoReset

\* The whole invariant, when only the reset moves.
LEMMA ResetMoves ==
  ASSUME TranscriptInv, RowsTyped', ResetStands',
         UNCHANGED <<log, cutoff, resetAt, turn, state, received>>
  PROVE  TranscriptInv'
<1>1. RowsKeep /\ TurnRowsKeep BY SameRows
<1>2. LogMatches' /\ AnswersFollow' /\ CutoffHides' BY <1>1, LogStays
<1>3. ToSet(log)' = ToSet(log) BY DEF ToSet
<1>4. TurnStands' BY <1>1, <1>3, TurnStays
<1>5. QED BY <1>2, <1>4 DEF TranscriptInv

LEMMA BeginResetStep == ASSUME TranscriptInv, NEW c \in Resets, BeginReset(c) PROVE TranscriptInv'
<1> USE DEF BeginReset, history, inbox
<1>1. RowsTyped' BY DEF TranscriptInv, RowsTyped
<1>2. version \in 1 .. MaxVersions BY DEF TranscriptInv, RowsTyped
<1>3. ResetStands' BY <1>2 DEF ResetStands
<1>4. QED BY <1>1, <1>3, ResetMoves

LEMMA ReadClockStep == ASSUME TranscriptInv, ReadClock PROVE TranscriptInv'
<1> USE DEF ReadClock, history, inbox
<1>1. RowsTyped' BY DEF TranscriptInv, RowsTyped
<1>2. reset.of \in Resets /\ state[reset.of] = "waiting" /\ reset.v \in 1 .. MaxVersions
  BY ResetFields
<1>3. now \in 0 .. now BY TimeIs DEF TranscriptInv
<1>4. ResetStands' BY <1>2, <1>3 DEF ResetStands
<1>5. QED BY <1>1, <1>4, ResetMoves

LEMMA ResetIfConfigVersionStep ==
  ASSUME TranscriptInv, ResetIfConfigVersion PROVE TranscriptInv'
<1> USE DEF history, inbox
<1>1. /\ reset.step = "clocked" /\ reset' = [reset EXCEPT !.step = "replying"]
      /\ \/ UNCHANGED <<cutoff, resetAt, state>>
         \/ /\ cutoff' = Len(log)
            /\ resetAt' = IF reset.at > resetAt THEN reset.at ELSE resetAt
            /\ state' = [m \in Everything |->
                           IF state[m] \in {"generating", "retryable"} /\ received[m] <= resetAt'
                           THEN "ignored" ELSE state[m]]
      /\ UNCHANGED <<now, version, log, received, turn, faults>>
  BY DEF ResetIfConfigVersion
<1>2. reset \in [step : {"clocked", "replying"}, of : Resets, v : 1 .. MaxVersions, at : 0 .. now]
      /\ state[reset.of] = "waiting"
  BY <1>1, ResetFields
<1>3. reset' \in [step : {"clocked", "replying"}, of : Resets, v : 1 .. MaxVersions, at : 0 .. now]
      /\ reset'.of = reset.of /\ reset.of \in Resets
  BY <1>1, <1>2
<1>4. CASE UNCHANGED <<cutoff, resetAt, state>>
  <2>1. RowsTyped' BY <1>1, <1>4 DEF TranscriptInv, RowsTyped
  <2>2. ResetStands' BY <1>1, <1>2, <1>3, <1>4 DEF ResetStands
  <2>3. QED BY <1>1, <1>4, <2>1, <2>2, ResetMoves
<1>5. CASE /\ cutoff' = Len(log)
           /\ resetAt' = IF reset.at > resetAt THEN reset.at ELSE resetAt
           /\ state' = [m \in Everything |->
                          IF state[m] \in {"generating", "retryable"} /\ received[m] <= resetAt'
                          THEN "ignored" ELSE state[m]]
  <2>1. now \in Nat /\ resetAt \in -1 .. now /\ reset.at \in 0 .. now
    BY <1>2, TimeIs DEF TranscriptInv, RowsTyped
  <2>2. resetAt' \in -1 .. now BY <1>5, <2>1
  <2>3. state \in [Everything -> Statuses] BY DEF TranscriptInv, RowsTyped
  <2>4. state' \in [Everything -> Statuses]
    <3>1. "ignored" \in Statuses BY DEF Statuses, Unanswered
    <3>2. QED BY <1>5, <2>3, <3>1
  <2>5. RowsTyped' BY <1>1, <2>2, <2>4 DEF TranscriptInv, RowsTyped
  <2>6. RowsKeep BY <1>1, <1>5 DEF RowsKeep, Answered, Unanswered
  <2>7. log \in Seq(Entries) /\ Len(log) \in Nat BY DEF TranscriptInv, LogMatches
  <2>8. \A i \in 1 .. Len(log) : log[i] \in Entries /\ log[i].of \in Everything BY <2>7, EntryKinds
  <2>9. LogMatches'
    <3>1. ASSUME NEW i \in 1 .. Len(log)
          PROVE  state'[log[i].of] \in IF IsAnswer(log[i]) THEN Answered ELSE Answered \cup Unanswered
      <4>1. state[log[i].of] \in IF IsAnswer(log[i]) THEN Answered ELSE Answered \cup Unanswered
        BY DEF TranscriptInv, LogMatches
      <4>2. QED BY <4>1, <2>6, <2>8 DEF RowsKeep
    <3>2. cutoff' \in 0 .. Len(log) BY <1>5, <2>7
    <3>3. log' = log BY <1>1
    <3>4. (log \in Seq(Entries))' BY <3>3, <2>7 DEF Entries, Asked, Answer
    <3>5. (\A i \in 1 .. Len(log) :
             state[log[i].of] \in IF IsAnswer(log[i]) THEN Answered ELSE Answered \cup Unanswered)'
      BY <3>1, <3>3 DEF IsAnswer
    <3>6. QED BY <3>2, <3>3, <3>4, <3>5 DEF LogMatches
  <2>10. AnswersFollow' BY <1>1 DEF TranscriptInv, AnswersFollow, IsAnswer
  <2>11. CutoffHides' BY <1>1, <1>5, <2>7 DEF CutoffHides
  <2>12. reset.of \in Everything BY <1>3, Kinds
  <2>13. state'[reset.of] = "waiting" BY <1>2, <1>5, <2>12
  <2>14. ResetStands' BY <1>1, <1>3, <2>13 DEF ResetStands
  <2>15. turn \in TurnRecords BY DEF TranscriptInv, TurnStands
  <2>16. ASSUME turn.step \in {"claimed", "appended", "prompted"}
         PROVE  /\ state'[turn.anchor] \in {"generating", "ignored"}
                /\ state'[turn.anchor] = "generating" => ~(received[turn.anchor] <= resetAt')
    <3>1. turn.anchor \in Everything /\ state[turn.anchor] \in {"generating", "ignored"}
      BY <2>16, TurnFields, Kinds
    <3>2. QED BY <3>1, <1>5
  <2>17. TurnStands'
    <3>1. (turn \in TurnRecords)' BY <1>1, <2>15 DEF TurnRecords, NoTurn, Callers, Entries
    <3>2. (turn.step \in {"claimed", "appended", "prompted"} =>
             state[turn.anchor] \in {"generating", "ignored"})' BY <1>1, <2>16
    <3>3. (turn.step \in {"appended", "prompted"} => Asked(turn.anchor) \in ToSet(log))'
      BY <1>1 DEF TranscriptInv, TurnStands, Asked, ToSet
    <3>4. (turn.step \in {"appended", "prompted"} =>
             (state[turn.anchor] = "generating" => ~Predates(turn.anchor)))'
      BY <1>1, <2>16 DEF Predates
    <3>5. QED BY <3>1, <3>2, <3>3, <3>4 DEF TurnStands
  <2>18. QED BY <2>5, <2>9, <2>10, <2>11, <2>14, <2>17 DEF TranscriptInv
<1>6. QED BY <1>1, <1>4, <1>5

LEMMA PlanCommandResponseStep == ASSUME TranscriptInv, PlanCommandResponse PROVE TranscriptInv'
<1> USE DEF history, inbox
<1>0. PICK c : c = reset.of OBVIOUS
<1>1. /\ reset.step = "replying" /\ reset' = NoReset
      /\ state' = [state EXCEPT ![c] = "planned"]
      /\ log' = Record(Answer(c, "pending"))
      /\ UNCHANGED <<now, version, cutoff, resetAt, received, turn, faults>>
  BY <1>0 DEF PlanCommandResponse
<1>2. c \in Resets /\ state[c] = "waiting" /\ c \in Everything /\ c \notin Callers
  BY <1>0, <1>1, ResetFields, Kinds
<1>3. "planned" \in Statuses /\ "planned" \in Answered BY DEF Statuses, Answered
<1>4. /\ state' \in [Everything -> Statuses] /\ state'[c] = "planned"
      /\ \A n \in Everything \ {c} : state'[n] = state[n]
      /\ RowsKeep
      /\ c \notin Callers \/ state[c] \notin {"generating", "ignored"} => TurnRowsKeep
  <2>1. state[c] \notin Answered BY <1>2 DEF Answered
  <2>2. received' = received BY <1>1
  <2>3. QED BY <1>1, <1>2, <1>3, <2>1, <2>2, OneRow
<1>5. TurnRowsKeep BY <1>2, <1>4
<1>6. RowsTyped' BY <1>1, <1>4 DEF TranscriptInv, RowsTyped
<1>7. PICK e : e = Answer(c, "pending") OBVIOUS
<1>8. e \in Entries /\ e.of = c /\ IsAnswer(e) BY <1>7, <1>2, EntryKinds
<1>9. log' = Record(e) BY <1>1, <1>7
<1>10. state[e.of] \notin Answered BY <1>2, <1>8 DEF Answered
<1>11. state'[e.of] \in IF IsAnswer(e) THEN Answered ELSE Answered \cup Unanswered
  BY <1>3, <1>4, <1>8
<1>12. LogMatches' /\ AnswersFollow' /\ CutoffHides'
  BY <1>1, <1>4, <1>8, <1>9, <1>10, <1>11, LogGrows
<1>13. ToSet(log) \subseteq ToSet(log)' BY <1>8, <1>9, EntriesStay
<1>14. \A n \in Callers : Asked(n) \in ToSet(log) => Asked(n) \in ToSet(log)' BY <1>13
<1>15. TurnStands' BY <1>1, <1>4, <1>5, <1>14, TurnStays
<1>16. ResetStands' BY <1>1 DEF ResetStands, NoReset
<1>17. QED BY <1>6, <1>12, <1>15, <1>16 DEF TranscriptInv

LEMMA CrashStep == ASSUME TranscriptInv, Crash PROVE TranscriptInv'
<1> USE DEF history, inbox
<1>1. /\ Fault /\ turn' = NoTurn /\ reset' = NoReset
      /\ state' = [m \in Everything |->
                     CASE state[m] = "received" -> "new" [] state[m] = "sent" -> "lost"
                       [] OTHER -> state[m]]
      /\ UNCHANGED <<now, version, log, cutoff, resetAt, received>>
  BY DEF Crash
<1>2. state \in [Everything -> Statuses] BY DEF TranscriptInv, RowsTyped
<1>3. \A m \in Everything :
        state'[m] = state[m] \/ (state[m] \in {"received", "sent"} /\ state'[m] \in {"new", "lost"})
  BY <1>1
<1>4. state' \in [Everything -> Statuses]
  <2>1. \A m \in Everything : state'[m] \in Statuses BY <1>2, <1>3 DEF Statuses, Unrecorded
  <2>2. QED BY <1>1, <2>1
<1>5. RowsKeep BY <1>1, <1>3 DEF RowsKeep, Answered, Unanswered
<1>6. RowsTyped' BY <1>1, <1>4, FaultIs DEF TranscriptInv, RowsTyped
<1>7. LogMatches' /\ AnswersFollow' /\ CutoffHides' BY <1>1, <1>5, LogStays
<1>8. TurnStands' BY <1>1, TurnIdle
<1>9. ResetStands' BY <1>1 DEF ResetStands, NoReset
<1>10. QED BY <1>6, <1>7, <1>8, <1>9 DEF TranscriptInv

LEMMA TranscriptInitOK == ASSUME TranscriptInit PROVE TranscriptInv
<1> USE DEF TranscriptInit
<1>1. RowsTyped
  <2>1. \A m \in Everything : state[m] \in Statuses BY DEF Statuses, Unrecorded
  <2>2. 0 \in 0 .. MaxTime BY BoundsArePositive
  <2>3. state \in [Everything -> Statuses] BY <2>1
  <2>4. QED BY <2>2, <2>3 DEF RowsTyped
<1>2. LogMatches BY DEF LogMatches
<1>3. AnswersFollow /\ CutoffHides BY DEF AnswersFollow, CutoffHides
<1>4. TurnStands BY DEF TurnStands, TurnRecords, NoTurn
<1>5. ResetStands BY DEF ResetStands, NoReset
<1>6. QED BY <1>1, <1>2, <1>3, <1>4, <1>5 DEF TranscriptInv

LEMMA TranscriptStutters == ASSUME TranscriptInv, UNCHANGED transcriptVars PROVE TranscriptInv'
<1> USE DEF transcriptVars, history, inbox
<1>1. RowsTyped' BY DEF TranscriptInv, RowsTyped
<1>2. ResetStands' BY DEF TranscriptInv, ResetStands, NoReset
<1>3. QED BY <1>1, <1>2, ResetMoves

LEMMA TranscriptNextKeeps ==
  ASSUME TranscriptInv, [TranscriptNext]_transcriptVars PROVE TranscriptInv'
<1>1. CASE Tick BY <1>1, TickStep
<1>2. CASE ChangeConfig BY <1>2, ChangeConfigStep
<1>3. ASSUME NEW m \in Messages, Receive(m) PROVE TranscriptInv' BY <1>3, ReceiveStep
<1>4. ASSUME NEW m \in Messages, ClaimAndResolveSender(m) PROVE TranscriptInv'
  BY <1>4, ClaimAndResolveStep
<1>5. ASSUME NEW m \in Messages, MarkIgnored(m) PROVE TranscriptInv' BY <1>5, MarkIgnoredStep
<1>6. ASSUME NEW m \in Manual, SendChatMessage(m) PROVE TranscriptInv' BY <1>6, SendStep
<1>7. ASSUME NEW m \in Manual, RecordManualAssistantMessage(m) PROVE TranscriptInv'
  BY <1>7, RecordManualStep
<1>8. ASSUME NEW batch \in SUBSET Users \ {{}}, ClaimBatch(batch) PROVE TranscriptInv'
  BY <1>8, ClaimBatchStep
<1>9. CASE ProcessBatch BY <1>9, ProcessBatchStep
<1>10. ASSUME NEW t \in Tasks, RunTask(t) PROVE TranscriptInv' BY <1>10, RunTaskStep
<1>11. CASE Claim BY <1>11, ClaimStep
<1>12. CASE AppendAnchor BY <1>12, AppendAnchorStep
<1>13. CASE Prompt BY <1>13, PromptStep
<1>14. CASE GenerationFails BY <1>14, GenerationFailsStep
<1>15. ASSUME NEW text \in BOOLEAN, CommitPlan(text) PROVE TranscriptInv' BY <1>15, CommitPlanStep
<1>16. CASE DispatchPlan BY <1>16, DispatchPlanStep
<1>17. ASSUME NEW m \in Everything, NEW outcome \in {"succeeded", "failed"}, FinishAction(m, outcome)
       PROVE TranscriptInv'
  BY <1>17, FinishActionStep
<1>18. ASSUME NEW c \in Resets, BeginReset(c) PROVE TranscriptInv' BY <1>18, BeginResetStep
<1>19. CASE ReadClock BY <1>19, ReadClockStep
<1>20. CASE ResetIfConfigVersion BY <1>20, ResetIfConfigVersionStep
<1>21. CASE PlanCommandResponse BY <1>21, PlanCommandResponseStep
<1>22. CASE Crash BY <1>22, CrashStep
<1>23. CASE UNCHANGED transcriptVars BY <1>23, TranscriptStutters
<1>24. QED
  BY <1>1, <1>2, <1>3, <1>4, <1>5, <1>6, <1>7, <1>8, <1>9, <1>10, <1>11, <1>12, <1>13, <1>14,
     <1>15, <1>16, <1>17, <1>18, <1>19, <1>20, <1>21, <1>22, <1>23 DEF TranscriptNext

\* The inductive invariant of the transcript holds in every reachable state.
THEOREM TranscriptHolds == TranscriptSpec => []TranscriptInv
<1>1. TranscriptInit => TranscriptInv BY TranscriptInitOK
<1>2. TranscriptInv /\ [TranscriptNext]_transcriptVars => TranscriptInv' BY TranscriptNextKeeps
<1>3. QED BY <1>1, <1>2, PTL DEF TranscriptSpec

\* Every state is typed: entries recorded once, an answer after its message, and
\* a turn past its claim has a row.
LEMMA TranscriptInvIsTyped == ASSUME TranscriptInv PROVE TranscriptTypeOK
<1>1. log \in Seq(Entries) /\ DOMAIN log = 1 .. Len(log) BY DEF TranscriptInv, LogMatches
<1>2. \A i, j \in DOMAIN log :
        log[i].of = log[j].of /\ i < j => ~IsAnswer(log[i]) /\ IsAnswer(log[j])
  BY <1>1 DEF TranscriptInv, AnswersFollow
<1>3. ASSUME turn.step \in {"appended", "prompted"}
      PROVE  /\ Sequence(turn.anchor) > 0
             /\ state[turn.anchor] \in {"generating", "ignored"}
  <2>1. Asked(turn.anchor) \in ToSet(log) BY <1>3 DEF TranscriptInv, TurnStands
  <2>2. PICK m : m = turn.anchor OBVIOUS
  <2>3. PICK i \in 1 .. Len(log) : log[i] = Asked(m) BY <1>1, <2>1, <2>2, SetOfLog
  <2>4. Sequence(m) \in 0 .. Len(log) /\ Sequence(m) # 0 BY <1>1, <2>3, SequenceIs
  <2>5. Sequence(m) > 0 BY <2>4
  <2>6. state[turn.anchor] \in {"generating", "ignored"} BY <1>3, TurnFields
  <2>7. QED BY <2>2, <2>5, <2>6
<1>4. cutoff \in 0 .. Len(log) BY DEF TranscriptInv, LogMatches
<1>5. QED BY <1>2, <1>3, <1>4 DEF TranscriptInv, RowsTyped, TranscriptTypeOK

\* An entry is recorded once, an answer after its message, and a turn that is
\* past its claim has a row that a reset at most has taken.
THEOREM EntriesAreInOrder == TranscriptSpec => []TranscriptTypeOK
<1>1. TranscriptInv => TranscriptTypeOK BY TranscriptInvIsTyped
<1>2. QED BY <1>1, TranscriptHolds, PTL

-----------------------------------------------------------------------------
(* A turn is given up for a reason.                                         *)

LEMMA GivenUpStep ==
  ASSUME TranscriptInv, [TranscriptNext]_transcriptVars, NEW m \in Users \union Tasks,
         state[m] = "generating", state'[m] = "failed", turn.step # "prompted"
  PROVE  turn.v # version \/ Predates(m) \/ Sequence(m) <= cutoff
<1> USE DEF history, inbox
<1>0. state \in [Everything -> Statuses] /\ m \in Everything
  BY DEF TranscriptInv, RowsTyped, Everything, Messages
<1>1. state' # state BY <1>0
<1>2. CASE Tick \/ ChangeConfig \/ ProcessBatch \/ DispatchPlan \/ ReadClock
  BY <1>1, <1>2 DEF Tick, ChangeConfig, ProcessBatch, DispatchPlan, ReadClock
<1>3. CASE (\E t \in Tasks : RunTask(t)) \/ (\E c \in Resets : BeginReset(c))
  BY <1>1, <1>3 DEF RunTask, BeginReset
<1>4. ASSUME NEW n \in Everything, NEW to,
             state' = [state EXCEPT ![n] = to], to # "failed" \/ state[n] # "generating"
      PROVE  FALSE
  BY <1>0, <1>4
<1>5. ASSUME NEW n \in Messages, Receive(n) \/ ClaimAndResolveSender(n) \/ MarkIgnored(n) PROVE FALSE
  <2>1. n \in Everything BY DEF Everything
  <2>2. CASE Receive(n) BY <2>1, <2>2, <1>0 DEF Receive
  <2>3. CASE ClaimAndResolveSender(n) BY <2>1, <2>3, <1>0 DEF ClaimAndResolveSender
  <2>4. CASE MarkIgnored(n) BY <2>1, <2>4, <1>0 DEF MarkIgnored
  <2>5. QED BY <1>5, <2>2, <2>3, <2>4
<1>6. ASSUME NEW n \in Manual, SendChatMessage(n) \/ RecordManualAssistantMessage(n) PROVE FALSE
  BY <1>0, <1>6 DEF SendChatMessage, RecordManualAssistantMessage, Everything
<1>7. ASSUME NEW batch \in SUBSET Users \ {{}}, ClaimBatch(batch) PROVE FALSE
  BY <1>0, <1>7 DEF ClaimBatch
<1>8. CASE Claim BY <1>0, <1>8 DEF Claim
<1>9. CASE AppendAnchor
  <2>1. FailGeneration("failed") /\ Predates(turn.anchor) BY <1>1, <1>9 DEF AppendAnchor
  <2>2. turn.anchor = m BY <2>1, <1>0 DEF FailGeneration
  <2>3. QED BY <2>1, <2>2
<1>10. CASE Prompt
  <2>1. PICK a : a = turn.anchor OBVIOUS
  <2>2. FailGeneration("failed") /\ (turn.v # version \/ Sequence(a) <= cutoff)
    BY <1>1, <1>10, <2>1 DEF Prompt
  <2>3. a = m BY <2>1, <2>2, <1>0 DEF FailGeneration
  <2>4. QED BY <2>2, <2>3
<1>11. ASSUME NEW text \in BOOLEAN, CommitPlan(text) PROVE FALSE BY <1>11 DEF CommitPlan
<1>12. ASSUME NEW n \in Everything, NEW outcome \in {"succeeded", "failed"}, FinishAction(n, outcome)
       PROVE  FALSE
  BY <1>0, <1>12 DEF FinishAction
<1>13. CASE ResetIfConfigVersion BY <1>0, <1>13 DEF ResetIfConfigVersion
<1>14. CASE PlanCommandResponse BY <1>0, <1>14 DEF PlanCommandResponse
<1>15. CASE Crash BY <1>0, <1>15 DEF Crash
<1>16. CASE GenerationFails BY <1>16 DEF GenerationFails
<1>17. CASE UNCHANGED transcriptVars BY <1>1, <1>17 DEF transcriptVars
<1>18. QED
  BY <1>2, <1>3, <1>5, <1>6, <1>7, <1>8, <1>9, <1>10, <1>11, <1>12, <1>13, <1>14, <1>15, <1>16, <1>17
  DEF TranscriptNext

\* A turn is given up before its model is called only if a reset or a change of
\* the configuration overtook it.
THEOREM TurnsAreGivenUpForAReason == TranscriptSpec => GivenUpForAReason
<1>1. TranscriptInv /\ [TranscriptNext]_transcriptVars =>
        [\A m \in Users \union Tasks :
           state[m] = "generating" /\ state'[m] = "failed" /\ turn.step # "prompted"
           => turn.v # version \/ Predates(m) \/ Sequence(m) <= cutoff]_transcriptVars
  BY GivenUpStep
<1>2. QED BY <1>1, TranscriptHolds, PTL DEF TranscriptSpec, GivenUpForAReason

-----------------------------------------------------------------------------
(* The steps that show a turn the transcript, and that commit its answer.   *)

LEMMA PromptedIs ==
  ASSUME TranscriptInv, [TranscriptNext]_transcriptVars, Prompted
  PROVE  /\ Sequence(turn.anchor) \in cutoff + 1 .. Len(log)
         /\ turn'.shown = Build(List(Sequence(turn.anchor)))
         /\ UNCHANGED <<log, received, resetAt>>
<1> USE DEF Prompted, history, inbox
<1>1. turn' # turn /\ turn'.step = "prompted" /\ turn.step = "appended" OBVIOUS
<1>2. CASE Prompt
  <2>1. PICK th : th = Sequence(turn.anchor) OBVIOUS
  <2>2. PICK entries : entries = List(th) OBVIOUS
  <2>3. \/ turn' = NoTurn
        \/ th > cutoff /\ turn' = [step |-> "prompted", batch |-> turn.batch,
                                   anchor |-> turn.anchor, shown |-> Build(entries)]
    BY <1>2, <2>1, <2>2 DEF Prompt, EndTurn
  <2>4. th > cutoff /\ turn'.shown = Build(entries) BY <1>1, <2>3 DEF NoTurn
  <2>5. UNCHANGED <<log, received, resetAt>> BY <1>2 DEF Prompt
  <2>6. log \in Seq(Entries) /\ cutoff \in 0 .. Len(log) BY DEF TranscriptInv, LogMatches
  <2>7. PICK m : m = turn.anchor OBVIOUS
  <2>8. Sequence(m) \in 0 .. Len(log) BY <2>6, SequenceIs
  <2>9. th \in cutoff + 1 .. Len(log) BY <2>1, <2>4, <2>6, <2>7, <2>8
  <2>10. QED BY <2>1, <2>2, <2>4, <2>5, <2>9
<1>3. CASE Tick \/ ChangeConfig \/ ReadClock \/ ResetIfConfigVersion \/ PlanCommandResponse
  BY <1>1, <1>3 DEF Tick, ChangeConfig, ReadClock, ResetIfConfigVersion, PlanCommandResponse
<1>4. ASSUME NEW m \in Messages, Receive(m) \/ ClaimAndResolveSender(m) \/ MarkIgnored(m) PROVE FALSE
  BY <1>1, <1>4 DEF Receive, ClaimAndResolveSender, MarkIgnored
<1>5. ASSUME NEW m \in Manual, SendChatMessage(m) \/ RecordManualAssistantMessage(m) PROVE FALSE
  BY <1>1, <1>5 DEF SendChatMessage, RecordManualAssistantMessage
<1>6. ASSUME NEW batch \in SUBSET Users \ {{}}, ClaimBatch(batch) PROVE FALSE
  BY <1>1, <1>6 DEF ClaimBatch
<1>7. CASE ProcessBatch \/ Claim \/ GenerationFails \/ DispatchPlan \/ Crash
  BY <1>1, <1>7 DEF ProcessBatch, Claim, GenerationFails, DispatchPlan, Crash, NoTurn
<1>8. CASE AppendAnchor BY <1>1, <1>8 DEF AppendAnchor
<1>9. ASSUME NEW t \in Tasks, RunTask(t) PROVE FALSE BY <1>1, <1>9 DEF RunTask
<1>10. ASSUME NEW text \in BOOLEAN, CommitPlan(text) PROVE FALSE BY <1>1, <1>10 DEF CommitPlan
<1>11. ASSUME NEW m \in Everything, NEW outcome \in {"succeeded", "failed"}, FinishAction(m, outcome)
       PROVE  FALSE
  BY <1>1, <1>11 DEF FinishAction
<1>12. ASSUME NEW c \in Resets, BeginReset(c) PROVE FALSE BY <1>1, <1>12 DEF BeginReset
<1>13. CASE UNCHANGED transcriptVars BY <1>1, <1>13 DEF transcriptVars
<1>14. QED
  BY <1>2, <1>3, <1>4, <1>5, <1>6, <1>7, <1>8, <1>9, <1>10, <1>11, <1>12, <1>13 DEF TranscriptNext

LEMMA CommittedIs ==
  ASSUME TranscriptInv, [TranscriptNext]_transcriptVars, Committed
  PROVE  state[turn.anchor] = "generating"
<1> USE DEF Committed, history, inbox
<1>1. turn' # turn /\ turn'.step = "sending" /\ turn.step = "prompted" OBVIOUS
<1>2. ASSUME NEW text \in BOOLEAN, CommitPlan(text) PROVE state[turn.anchor] = "generating"
  BY <1>1, <1>2 DEF CommitPlan, EndTurn, NoTurn
<1>3. CASE Tick \/ ChangeConfig \/ ReadClock \/ ResetIfConfigVersion \/ PlanCommandResponse
  BY <1>1, <1>3 DEF Tick, ChangeConfig, ReadClock, ResetIfConfigVersion, PlanCommandResponse
<1>4. ASSUME NEW m \in Messages, Receive(m) \/ ClaimAndResolveSender(m) \/ MarkIgnored(m) PROVE FALSE
  BY <1>1, <1>4 DEF Receive, ClaimAndResolveSender, MarkIgnored
<1>5. ASSUME NEW m \in Manual, SendChatMessage(m) \/ RecordManualAssistantMessage(m) PROVE FALSE
  BY <1>1, <1>5 DEF SendChatMessage, RecordManualAssistantMessage
<1>6. ASSUME NEW batch \in SUBSET Users \ {{}}, ClaimBatch(batch) PROVE FALSE
  BY <1>1, <1>6 DEF ClaimBatch
<1>7. CASE ProcessBatch \/ Claim \/ GenerationFails \/ DispatchPlan \/ Crash
  BY <1>1, <1>7 DEF ProcessBatch, Claim, GenerationFails, DispatchPlan, Crash, EndTurn, NoTurn
<1>8. CASE AppendAnchor \/ Prompt BY <1>1, <1>8 DEF AppendAnchor, Prompt
<1>9. ASSUME NEW t \in Tasks, RunTask(t) PROVE FALSE BY <1>1, <1>9 DEF RunTask
<1>11. ASSUME NEW m \in Everything, NEW outcome \in {"succeeded", "failed"}, FinishAction(m, outcome)
       PROVE  FALSE
  BY <1>1, <1>11 DEF FinishAction
<1>12. ASSUME NEW c \in Resets, BeginReset(c) PROVE FALSE BY <1>1, <1>12 DEF BeginReset
<1>13. CASE UNCHANGED transcriptVars BY <1>1, <1>13 DEF transcriptVars
<1>14. QED
  BY <1>2, <1>3, <1>4, <1>5, <1>6, <1>7, <1>8, <1>9, <1>11, <1>12, <1>13 DEF TranscriptNext

-----------------------------------------------------------------------------
(* What is shown is listed since the reset, or an answer.                   *)

LEMMA SeqWithin ==
  ASSUME NEW S, NEW T, NEW s \in Seq(S), \A i \in 1 .. Len(s) : s[i] \in T
  PROVE  s \in Seq(T)
<1>1. Len(s) \in Nat /\ s \in [1 .. Len(s) -> S] OBVIOUS
<1>2. s \in [1 .. Len(s) -> T] BY <1>1
<1>3. QED BY <1>1, <1>2

\* The late answers are answers, recorded after the anchor.
LEMMA LateElements ==
  ASSUME TranscriptInv, NEW through \in 0 .. Len(log), NEW i \in 1 .. Len(LateReplies(through))
  PROVE  /\ IsAnswer(LateReplies(through)[i])
         /\ LateReplies(through)[i].of # log[through].of
<1>1. log \in Seq(Entries) BY DEF TranscriptInv, LogMatches
<1>2. PICK rest : rest = SubSeq(log, through + 1, Len(log)) OBVIOUS
<1>3. rest \in Seq(Entries) BY <1>1, <1>2
<1>4. PICK T : T = {entry \in ToSet(log) : /\ IsAnswer(entry) /\ entry.of # log[through].of
                                          /\ Sequence(entry.of) \in cutoff + 1 .. through}
  OBVIOUS
<1>5. PICK late : late = LateReplies(through) OBVIOUS
<1>6. late = Filter(rest, T) BY <1>2, <1>4, <1>5 DEF LateReplies
<1>7. \A j \in 1 .. Len(Filter(rest, T)) : Filter(rest, T)[j] \in T BY <1>3, FilterKeeps
<1>8. late[i] \in T BY <1>5, <1>6, <1>7
<1>9. QED BY <1>4, <1>5, <1>8

\* The first so many of a sequence.
LEMMA BoundIs ==
  ASSUME NEW S, NEW s \in Seq(S), NEW n \in Nat
  PROVE  /\ Bound(s, n) \in Seq(S) /\ Len(Bound(s, n)) <= Len(s)
         /\ \A i \in 1 .. Len(Bound(s, n)) : Bound(s, n)[i] = s[i]
         /\ Len(s) <= n => Bound(s, n) = s
<1>1. PICK k : k = IF Len(s) < n THEN Len(s) ELSE n OBVIOUS
<1>2. k \in 0 .. Len(s) BY <1>1
<1>3. PICK t : t = SubSeq(s, 1, k) OBVIOUS
<1>4. Bound(s, n) = t BY <1>1, <1>3 DEF Bound
<1>5. t \in Seq(S) BY <1>2, <1>3
<1>6. Len(t) = k BY <1>2, <1>3
<1>7. \A i \in 1 .. Len(t) : t[i] = s[i] BY <1>2, <1>3, <1>6
<1>8. ASSUME Len(s) <= n PROVE t = s
  <2>1. k = Len(s) BY <1>1, <1>8
  <2>2. QED BY <2>1, <1>3
<1>9. QED BY <1>2, <1>4, <1>5, <1>6, <1>7, <1>8

\* The list has messages and tasks from since the reset up to the anchor, and answers.
LEMMA ListWithin ==
  ASSUME TranscriptInv, NEW through \in cutoff + 1 .. Len(log)
  PROVE  List(through) \in Seq({log[k] : k \in cutoff + 1 .. through} \cup {e \in Entries : IsAnswer(e)})
<1>0. PICK s, from : s = log /\ from = cutoff OBVIOUS
<1>1. log \in Seq(Entries) /\ cutoff \in 0 .. Len(log) BY DEF TranscriptInv, LogMatches
<1>2. s \in Seq(Entries) /\ from \in 0 .. Len(s) /\ through \in 0 .. Len(s) /\ from < through
  BY <1>0, <1>1
<1>3. PICK S : S = {s[k] : k \in from + 1 .. through} \cup {e \in Entries : IsAnswer(e)} OBVIOUS
<1>4. PICK page : page = Newest(SubSeq(s, from + 1, through), HistoryWindow) OBVIOUS
<1>5. page \in Seq(S)
  <2>1. page \in Seq(Entries)
        /\ \E first \in from .. through - 1 :
             /\ Len(page) = through - first
             /\ \A j \in 1 .. through - first : page[j] = s[first + j]
    BY <1>2, <1>4, PageIs
  <2>2. PICK first \in from .. through - 1 :
             /\ Len(page) = through - first
             /\ \A j \in 1 .. through - first : page[j] = s[first + j]
    BY <2>1
  <2>3. ASSUME NEW j \in 1 .. Len(page) PROVE page[j] \in S
    <3>1. first + j \in from + 1 .. through BY <2>2, <1>2
    <3>2. QED BY <3>1, <2>2, <1>3
  <2>4. page \in Seq(Entries) BY <2>1
  <2>5. QED BY <2>3, <2>4, SeqWithin
<1>6. PICK all : all = LateReplies(through) OBVIOUS
<1>7. through \in 0 .. Len(log) BY <1>0, <1>2
<1>8. all \in Seq(Entries) BY <1>6, <1>7, LateType
<1>9. \A j \in 1 .. Len(all) : IsAnswer(all[j]) BY <1>6, <1>7, LateElements
<1>10. PICK late : late = Bound(all, HistoryWindow) OBVIOUS
<1>11. HistoryWindow \in Nat BY BoundsArePositive
<1>12. /\ late \in Seq(Entries) /\ Len(late) <= Len(all)
       /\ \A j \in 1 .. Len(late) : late[j] = all[j]
  BY <1>8, <1>10, <1>11, BoundIs
<1>13. late \in Seq(S)
  <2>1. ASSUME NEW j \in 1 .. Len(late) PROVE late[j] \in S
    <3>1. j \in 1 .. Len(all) BY <1>8, <1>12
    <3>2. late[j] \in Entries /\ IsAnswer(late[j]) BY <3>1, <1>9, <1>12
    <3>3. QED BY <3>2, <1>3
  <2>2. QED BY <2>1, <1>12, SeqWithin
<1>14. PICK k : RepliesGo(k, S, page, late) BY <1>5, <1>13, PlaceSteps
<1>15. PlaceReplies(page, late) \in Seq(S) BY <1>13, <1>14 DEF RepliesGo
<1>16. List(through) \in Seq(S)
  <2>1. List(through) = PlaceReplies(page, late) BY <1>0, <1>4, <1>6, <1>10 DEF List
  <2>2. QED BY <2>1, <1>15
<1>17. QED BY <1>0, <1>3, <1>16

LEMMA ShownIsListed ==
  ASSUME TranscriptInv, NEW through \in cutoff + 1 .. Len(log),
         NEW i \in 1 .. Len(Build(List(through))), ~IsAnswer(Build(List(through))[i])
  PROVE  \E k \in cutoff + 1 .. through : Build(List(through))[i] = log[k]
<1>1. PICK S : S = {log[k] : k \in cutoff + 1 .. through} \cup {e \in Entries : IsAnswer(e)} OBVIOUS
<1>2. List(through) \in Seq(S) BY <1>1, ListWithin
<1>3. PICK shown : shown = Build(List(through)) OBVIOUS
<1>4. PICK entries : entries = List(through) OBVIOUS
<1>5. entries \in Seq(S) BY <1>2, <1>4
<1>6. Build(entries) \in Seq(S) BY <1>5, BuildType
<1>7. shown \in Seq(S) BY <1>3, <1>4, <1>6
<1>8. i \in 1 .. Len(shown) /\ ~IsAnswer(shown[i]) BY <1>3
<1>9. shown[i] \in S BY <1>7, <1>8
<1>10. \E k \in cutoff + 1 .. through : shown[i] = log[k] BY <1>1, <1>8, <1>9
<1>11. QED BY <1>3, <1>10

LEMMA ResetIsFinalStep ==
  ASSUME TranscriptInv, [TranscriptNext]_transcriptVars
  PROVE  /\ Prompted => \A i \in DOMAIN turn'.shown :
              LET entry == turn'.shown[i] IN ~IsAnswer(entry) => ~Predates(entry.of)
         /\ Committed => ~Predates(turn.anchor)
<1>1. ASSUME Prompted
      PROVE  \A i \in DOMAIN turn'.shown :
               LET entry == turn'.shown[i] IN ~IsAnswer(entry) => ~Predates(entry.of)
  <2>1. Sequence(turn.anchor) \in cutoff + 1 .. Len(log)
        /\ turn'.shown = Build(List(Sequence(turn.anchor)))
    BY <1>1, PromptedIs
  <2>2. PICK th : th = Sequence(turn.anchor) OBVIOUS
  <2>3. PICK shown : shown = Build(List(th)) OBVIOUS
  <2>4. turn'.shown = shown /\ th \in cutoff + 1 .. Len(log) BY <2>1, <2>2, <2>3
  <2>5. shown \in Seq(Entries)
    <3>1. cutoff \in 0 .. Len(log) /\ log \in Seq(Entries) BY DEF TranscriptInv, LogMatches
    <3>2. th \in 0 .. Len(log) /\ cutoff < th BY <2>4, <3>1
    <3>3. PICK entries : entries = List(th) OBVIOUS
    <3>4. entries \in Seq(Entries) BY <3>2, <3>3, ListType
    <3>5. Build(entries) \in Seq(Entries) BY <3>4, BuildType
    <3>6. QED BY <2>3, <3>3, <3>5
  <2>6. ASSUME NEW i \in 1 .. Len(shown), ~IsAnswer(shown[i]) PROVE ~Predates(shown[i].of)
    <3>1. \E k \in cutoff + 1 .. th : shown[i] = log[k] BY <2>3, <2>4, <2>6, ShownIsListed
    <3>2. PICK k \in cutoff + 1 .. th : shown[i] = log[k] BY <3>1
    <3>3. cutoff \in 0 .. Len(log) /\ log \in Seq(Entries) BY DEF TranscriptInv, LogMatches
    <3>4. k \in 1 .. Len(log) /\ k > cutoff BY <2>4, <3>3
    <3>5. ~IsAnswer(log[k]) BY <3>2, <2>6
    <3>6. ~Predates(log[k].of) BY <3>4, <3>5 DEF TranscriptInv, CutoffHides
    <3>7. QED BY <3>2, <3>6
  <2>7. DOMAIN shown = 1 .. Len(shown) BY <2>5
  <2>8. QED BY <2>4, <2>6, <2>7
<1>2. ASSUME Committed PROVE ~Predates(turn.anchor)
  <2>1. state[turn.anchor] = "generating" BY <1>2, CommittedIs
  <2>2. turn.step = "prompted" BY <1>2 DEF Committed
  <2>3. QED BY <2>1, <2>2 DEF TranscriptInv, TurnStands
<1>3. QED BY <1>1, <1>2

\* Nobody's words from before a reset come back: not into a later context, and
\* not as an answer committed after it.
THEOREM ResetsAreFinal == TranscriptSpec => ResetIsFinal
<1>1. TranscriptInv /\ [TranscriptNext]_transcriptVars =>
        [/\ Prompted => \A i \in DOMAIN turn'.shown :
              LET entry == turn'.shown[i] IN ~IsAnswer(entry) => ~Predates(entry.of)
         /\ Committed => ~Predates(turn.anchor)]_transcriptVars
  BY ResetIsFinalStep
<1>2. QED BY <1>1, TranscriptHolds, PTL DEF TranscriptSpec, ResetIsFinal

-----------------------------------------------------------------------------
(* What is shown ends with the anchor, and shows every answer after its     *)
(* message.                                                                 *)

\* m's message is the last of s, and nothing before it is of m.
EndsWith(s, m) ==
  /\ Len(s) \in Nat \ {0} /\ s[Len(s)] = Asked(m)
  /\ \A i \in 1 .. Len(s) : i < Len(s) => s[i].of # m

\* A message of s whose answer is in A has it after it in s.
Followed(s, A) ==
  \A i \in 1 .. Len(s), a \in A :
    ~IsAnswer(s[i]) /\ IsAnswer(a) /\ a.of = s[i].of => \E j \in i + 1 .. Len(s) : s[j] = a

LEMMA PlaceEnds ==
  ASSUME NEW S, NEW s \in Seq(S), NEW r \in S, NEW m, EndsWith(s, m), r.of # m
  PROVE  EndsWith(PlaceReply(s, r), m)
<1>1. PICK u : u = PlaceReply(s, r) OBVIOUS
<1>2. \/ u = s /\ \A i \in 1 .. Len(s) : s[i].of # r.of
      \/ \E at : PlacedAt(u, s, r, at)
  BY <1>1, PlaceIs
<1>3. CASE u = s BY <1>1, <1>3
<1>4. CASE \E at : PlacedAt(u, s, r, at)
  <2>1. PICK at : PlacedAt(u, s, r, at) BY <1>4
  <2>2. Len(s) \in Nat \ {0} /\ at \in 1 .. Len(s) /\ Len(u) = Len(s) + 1
    BY <2>1 DEF PlacedAt, EndsWith
  <2>3. Asked(m).of = m BY DEF Asked
  <2>4. at < Len(s)
    <3>1. s[at].of = r.of BY <2>1 DEF PlacedAt
    <3>2. s[Len(s)].of = m BY <2>3 DEF EndsWith
    <3>3. at # Len(s) BY <3>1, <3>2
    <3>4. QED BY <2>2, <3>3
  <2>5. u[Len(u)] = Asked(m)
    <3>1. Len(s) \in at + 1 .. Len(s) BY <2>2, <2>4
    <3>2. u[Len(s) + 1] = s[Len(s)] BY <3>1, <2>1 DEF PlacedAt
    <3>3. QED BY <3>2, <2>2 DEF EndsWith
  <2>6. ASSUME NEW i \in 1 .. Len(u), i < Len(u) PROVE u[i].of # m
    <3>1. CASE i \in 1 .. at
      <4>1. u[i] = s[i] BY <3>1, <2>1 DEF PlacedAt
      <4>2. i \in 1 .. Len(s) /\ i < Len(s) BY <3>1, <2>2, <2>4
      <4>3. QED BY <4>1, <4>2 DEF EndsWith
    <3>2. CASE i = at + 1 BY <3>2, <2>1 DEF PlacedAt
    <3>3. CASE i \in at + 2 .. Len(u)
      <4>1. i - 1 \in at + 1 .. Len(s) /\ (i - 1) + 1 = i BY <3>3, <2>2
      <4>2. u[i] = s[i - 1] BY <4>1, <2>1 DEF PlacedAt
      <4>3. i - 1 \in 1 .. Len(s) /\ i - 1 < Len(s) BY <4>1, <2>2, <2>6
      <4>4. QED BY <4>2, <4>3 DEF EndsWith
    <3>4. QED BY <3>1, <3>2, <3>3, <2>2
  <2>7. Len(u) \in Nat \ {0} BY <2>2
  <2>8. EndsWith(u, m) BY <2>5, <2>6, <2>7 DEF EndsWith
  <2>9. QED BY <1>1, <2>8
<1>5. QED BY <1>2, <1>3, <1>4

LEMMA PlaceFollows ==
  ASSUME NEW S, NEW s \in Seq(S), NEW r \in S, IsAnswer(r), NEW A, Followed(s, A)
  PROVE  Followed(PlaceReply(s, r), A \cup {r})
<1>1. PICK u : u = PlaceReply(s, r) OBVIOUS
<1>2. \/ u = s /\ \A i \in 1 .. Len(s) : s[i].of # r.of
      \/ \E at : PlacedAt(u, s, r, at)
  BY <1>1, PlaceIs
<1>3. CASE u = s /\ \A i \in 1 .. Len(s) : s[i].of # r.of
  <2>1. Followed(u, A \cup {r}) BY <1>3 DEF Followed
  <2>2. QED BY <1>1, <2>1
<1>4. CASE \E at : PlacedAt(u, s, r, at)
  <2>1. PICK at : PlacedAt(u, s, r, at) BY <1>4
  <2>2. Len(s) \in Nat /\ at \in 1 .. Len(s) /\ Len(u) = Len(s) + 1 BY <2>1 DEF PlacedAt
  <2>3. ASSUME NEW i \in 1 .. Len(u), NEW a \in A \cup {r},
               ~IsAnswer(u[i]), IsAnswer(a), a.of = u[i].of
        PROVE  \E j \in i + 1 .. Len(u) : u[j] = a
    <3>1. u[at + 1] = r BY <2>1 DEF PlacedAt
    <3>2. i # at + 1 BY <3>1, <2>3
    <3>3. PICK i0 : i0 = IF i <= at THEN i ELSE i - 1 OBVIOUS
    <3>4. i0 \in 1 .. Len(s) /\ u[i] = s[i0]
      <4>1. CASE i <= at
        <5>1. i0 = i /\ i \in 1 .. at BY <4>1, <3>3, <2>2
        <5>2. u[i] = s[i] BY <5>1, <2>1 DEF PlacedAt
        <5>3. QED BY <5>1, <5>2, <2>2
      <4>2. CASE ~(i <= at)
        <5>1. i0 = i - 1 /\ i0 \in at + 1 .. Len(s) /\ i0 + 1 = i BY <4>2, <3>2, <3>3, <2>2
        <5>2. u[i0 + 1] = s[i0] BY <5>1, <2>1 DEF PlacedAt
        <5>3. QED BY <5>1, <5>2, <2>2
      <4>3. QED BY <4>1, <4>2
    <3>5. CASE a = r
      <4>1. s[i0].of = r.of BY <3>4, <3>5, <2>3
      <4>2. i0 <= at BY <4>1, <3>4, <2>1 DEF PlacedAt
      <4>3. i <= at BY <4>2, <3>2, <3>3, <2>2
      <4>4. at + 1 \in i + 1 .. Len(u) BY <4>3, <2>2
      <4>5. QED BY <4>4, <3>1, <3>5
    <3>6. CASE a \in A
      <4>1. ~IsAnswer(s[i0]) /\ a.of = s[i0].of BY <3>4, <2>3
      <4>2. \E j \in i0 + 1 .. Len(s) : s[j] = a BY <4>1, <3>4, <3>6, <2>3 DEF Followed
      <4>3. PICK j0 \in i0 + 1 .. Len(s) : s[j0] = a BY <4>2
      <4>4. CASE j0 <= at
        <5>1. j0 \in 1 .. at BY <4>4, <3>4, <2>2
        <5>2. u[j0] = s[j0] BY <5>1, <2>1 DEF PlacedAt
        <5>3. j0 \in i + 1 .. Len(u) BY <4>4, <3>3, <3>4, <2>2
        <5>4. QED BY <5>2, <5>3, <4>3
      <4>5. CASE ~(j0 <= at)
        <5>1. j0 \in at + 1 .. Len(s) BY <4>5, <3>4, <2>2
        <5>2. u[j0 + 1] = s[j0] BY <5>1, <2>1 DEF PlacedAt
        <5>3. j0 + 1 \in i + 1 .. Len(u) BY <4>5, <3>3, <3>4, <2>2
        <5>4. QED BY <5>2, <5>3, <4>3
      <4>6. QED BY <4>4, <4>5
    <3>7. QED BY <3>5, <3>6
  <2>4. Followed(u, A \cup {r}) BY <2>3 DEF Followed
  <2>5. QED BY <1>1, <2>4
<1>5. QED BY <1>2, <1>3, <1>4

LEMMA RepliesPlaced ==
  ASSUME NEW S, NEW s \in Seq(S), NEW late \in Seq(S), NEW m, NEW A, EndsWith(s, m), Followed(s, A),
         \A i \in 1 .. Len(late) : IsAnswer(late[i]) /\ late[i].of # m
  PROVE  /\ EndsWith(PlaceReplies(s, late), m)
         /\ Followed(PlaceReplies(s, late), A \cup {late[i] : i \in 1 .. Len(late)})
<1>1. PICK k : RepliesGo(k, S, s, late) BY PlaceSteps
<1>2. /\ k \in [0 .. Len(late) -> Seq(S)] /\ PlaceReplies(s, late) = k[Len(late)] /\ k[0] = s
      /\ \A n \in 1 .. Len(late) : k[n] = PlaceReply(k[n - 1], late[n])
  BY <1>1 DEF RepliesGo
<1> DEFINE B(n) == A \cup {late[i] : i \in 1 .. n}
           K == {n \in Nat : n <= Len(late) => EndsWith(k[n], m) /\ Followed(k[n], B(n))}
<1>3. 0 \in K
  <2>1. B(0) = A OBVIOUS
  <2> HIDE DEF B
  <2>2. QED BY <1>2, <2>1
<1>4. ASSUME NEW n \in Nat, n \in K PROVE n + 1 \in K
  <2> SUFFICES ASSUME n + 1 <= Len(late)
               PROVE EndsWith(k[n + 1], m) /\ Followed(k[n + 1], B(n + 1)) OBVIOUS
  <2>1. Len(late) \in Nat /\ n \in 0 .. Len(late) /\ n + 1 \in 1 .. Len(late) /\ (n + 1) - 1 = n OBVIOUS
  <2>2. EndsWith(k[n], m) /\ Followed(k[n], B(n)) BY <1>4, <2>1
  <2>3. PICK r, u, C : r = late[n + 1] /\ u = k[n] /\ C = B(n) OBVIOUS
  <2>4. k[n + 1] = PlaceReply(u, r) BY <1>2, <2>1, <2>3
  <2>5. r \in S /\ IsAnswer(r) /\ r.of # m BY <2>1, <2>3
  <2>6. u \in Seq(S) BY <1>2, <2>1, <2>3
  <2>7. B(n + 1) = C \cup {r}
    <3>1. 1 .. n + 1 = (1 .. n) \cup {n + 1} OBVIOUS
    <3>2. QED BY <3>1, <2>3
  <2> HIDE DEF B
  <2>8. EndsWith(u, m) /\ Followed(u, C) BY <2>2, <2>3
  <2>9. EndsWith(PlaceReply(u, r), m) BY <2>5, <2>6, <2>8, PlaceEnds
  <2>10. Followed(PlaceReply(u, r), C \cup {r}) BY <2>5, <2>6, <2>8, PlaceFollows
  <2>11. QED BY <2>4, <2>7, <2>9, <2>10
<1>5. Len(late) \in K
  <2> HIDE DEF K
  <2>1. QED BY <1>3, <1>4, NumberInduction
<1>6. QED BY <1>2, <1>5

\* A filter that keeps the anchor's entry keeps it last.
LEMMA FilterEnds ==
  ASSUME NEW S, NEW s \in Seq(S), NEW T, NEW m, EndsWith(s, m), Asked(m) \in T
  PROVE  EndsWith(Filter(s, T), m)
<1>1. PICK t : t = Filter(s, T) OBVIOUS
<1>2. t \in Seq(S) /\ \E h : Picks(s, T, Len(s), t, h) BY <1>1, FilterPicks
<1>3. PICK h : Picks(s, T, Len(s), t, h) BY <1>2
<1>4. Len(s) \in Nat \ {0} /\ s[Len(s)] = Asked(m) BY DEF EndsWith
<1>5. Len(t) \in Nat /\ h \in [1 .. Len(t) -> 1 .. Len(s)] BY <1>2, <1>3 DEF Picks
<1>6. Len(s) \in 1 .. Len(s) /\ s[Len(s)] \in T BY <1>4
<1>7. PICK last \in 1 .. Len(t) : h[last] = Len(s) BY <1>3, <1>6 DEF Picks
<1>8. last = Len(t)
  <2>1. SUFFICES ASSUME last # Len(t) PROVE FALSE OBVIOUS
  <2>2. Len(t) \in 1 .. Len(t) /\ last < Len(t) BY <2>1, <1>5
  <2>3. h[last] < h[Len(t)] BY <2>2, <1>3 DEF Picks
  <2>4. h[Len(t)] \in 1 .. Len(s) BY <2>2, <1>5
  <2>5. QED BY <2>3, <2>4, <1>4, <1>7
<1>9. t[Len(t)] = Asked(m)
  <2>1. t[last] = s[h[last]] BY <1>3 DEF Picks
  <2>2. QED BY <2>1, <1>4, <1>7, <1>8
<1>10. ASSUME NEW i \in 1 .. Len(t), i < Len(t) PROVE t[i].of # m
  <2>1. h[i] < h[Len(t)] BY <1>3, <1>7, <1>8, <1>10 DEF Picks
  <2>2. h[i] \in 1 .. Len(s) /\ h[i] < Len(s) BY <2>1, <1>5, <1>7, <1>8
  <2>3. s[h[i]].of # m BY <2>2 DEF EndsWith
  <2>4. t[i] = s[h[i]] BY <1>3 DEF Picks
  <2>5. QED BY <2>3, <2>4
<1>11. Len(t) \in Nat \ {0} BY <1>5, <1>7
<1>12. EndsWith(t, m) BY <1>9, <1>10, <1>11 DEF EndsWith
<1>13. QED BY <1>1, <1>12

\* A filter that keeps the answers of the messages it keeps.
KeepsAnswers(s, T, A) ==
  \A i, j \in 1 .. Len(s) :
    /\ s[i] \in T /\ ~IsAnswer(s[i])
    /\ s[j] \in A /\ IsAnswer(s[j]) /\ s[j].of = s[i].of
    => s[j] \in T

LEMMA FilterFollows ==
  ASSUME NEW S, NEW s \in Seq(S), NEW T, NEW A, Followed(s, A), KeepsAnswers(s, T, A)
  PROVE  Followed(Filter(s, T), A)
<1>1. PICK t : t = Filter(s, T) OBVIOUS
<1>2. t \in Seq(S) /\ \E h : Picks(s, T, Len(s), t, h) BY <1>1, FilterPicks
<1>3. PICK h : Picks(s, T, Len(s), t, h) BY <1>2
<1>4. Len(s) \in Nat /\ Len(t) \in Nat /\ h \in [1 .. Len(t) -> 1 .. Len(s)] BY <1>2, <1>3 DEF Picks
<1>5. ASSUME NEW i \in 1 .. Len(t), NEW a \in A, ~IsAnswer(t[i]), IsAnswer(a), a.of = t[i].of
      PROVE  \E j \in i + 1 .. Len(t) : t[j] = a
  <2>1. h[i] \in 1 .. Len(s) /\ t[i] = s[h[i]] /\ t[i] \in T BY <1>3, <1>4 DEF Picks
  <2>2. \E j \in h[i] + 1 .. Len(s) : s[j] = a
    <3>1. ~IsAnswer(s[h[i]]) /\ a.of = s[h[i]].of BY <2>1, <1>5
    <3>2. QED BY <3>1, <2>1, <1>5 DEF Followed
  <2>3. PICK j0 \in h[i] + 1 .. Len(s) : s[j0] = a BY <2>2
  <2>4. j0 \in 1 .. Len(s) /\ h[i] < j0 BY <2>1, <2>3
  <2>5. s[j0] \in T
    <3>1. s[h[i]] \in T /\ ~IsAnswer(s[h[i]]) BY <2>1, <1>5
    <3>2. s[j0] \in A /\ IsAnswer(s[j0]) /\ s[j0].of = s[h[i]].of BY <2>1, <2>3, <1>5
    <3>3. QED BY <3>1, <3>2, <2>1, <2>4 DEF KeepsAnswers
  <2>6. PICK j \in 1 .. Len(t) : h[j] = j0 BY <2>4, <2>5, <1>3 DEF Picks
  <2>7. i < j
    <3>1. SUFFICES ASSUME ~(i < j) PROVE FALSE OBVIOUS
    <3>2. CASE i = j BY <3>2, <2>1, <2>4, <2>6
    <3>3. CASE j < i
      <4>1. h[j] < h[i] BY <3>3, <1>3 DEF Picks
      <4>2. QED BY <4>1, <2>1, <2>4, <2>6
    <3>4. QED BY <3>1, <3>2, <3>3, <1>4
  <2>8. t[j] = a
    <3>1. t[j] = s[h[j]] BY <1>3 DEF Picks
    <3>2. QED BY <3>1, <2>3, <2>6
  <2>9. j \in i + 1 .. Len(t) BY <2>7, <1>4
  <2>10. QED BY <2>8, <2>9
<1>6. Followed(t, A) BY <1>5 DEF Followed
<1>7. QED BY <1>1, <1>6

LEMMA DropKeeps ==
  ASSUME NEW S, NEW s \in Seq(S), NEW m, NEW A, EndsWith(s, m), Followed(s, A)
  PROVE  EndsWith(DropOldest(s), m) /\ Followed(DropOldest(s), A)
<1>1. CASE DropOldest(s) = s BY <1>1
<1>2. CASE /\ Len(s) > 1
           /\ DropOldest(s) = Filter(s, {entry \in ToSet(s) : entry.of # s[1].of})
  <2>1. PICK T : T = {entry \in ToSet(s) : entry.of # s[1].of} OBVIOUS
  <2>2. ToSet(s) = {s[i] : i \in 1 .. Len(s)} BY SetOfLog
  <2>3. Len(s) \in Nat /\ 1 \in 1 .. Len(s) /\ Len(s) \in 1 .. Len(s) BY <1>2
  <2>4. s[1].of # m BY <2>3, <1>2 DEF EndsWith
  <2>5. s[Len(s)] = Asked(m) BY DEF EndsWith
  <2>6. Asked(m).of = m BY DEF Asked
  <2>7. Asked(m) \in ToSet(s) BY <2>2, <2>3, <2>5
  <2>8. Asked(m) \in T BY <2>1, <2>4, <2>6, <2>7
  <2>9. KeepsAnswers(s, T, A)
    <3>1. ASSUME NEW i \in 1 .. Len(s), NEW j \in 1 .. Len(s), s[i] \in T, s[j].of = s[i].of
          PROVE  s[j] \in T
      <4>1. s[i].of # s[1].of BY <2>1, <3>1
      <4>2. s[j] \in ToSet(s) BY <2>2
      <4>3. QED BY <4>1, <4>2, <3>1, <2>1
    <3>2. QED BY <3>1 DEF KeepsAnswers
  <2>10. EndsWith(Filter(s, T), m) BY <2>8, FilterEnds
  <2>11. Followed(Filter(s, T), A) BY <2>9, FilterFollows
  <2>12. QED BY <2>1, <2>10, <2>11, <1>2
<1>3. QED BY <1>1, <1>2, DropIs

LEMMA FitKeeps ==
  ASSUME NEW S, NEW s \in Seq(S), NEW m, NEW A, EndsWith(s, m), Followed(s, A)
  PROVE  EndsWith(Fit(s), m) /\ Followed(Fit(s), A)
<1>1. PICK k : OldestGo(k, S, s) BY FitSteps
<1>2. /\ k \in [0 .. Len(s) -> Seq(S)] /\ Fit(s) = k[Len(s)] /\ k[0] = s
      /\ \A n \in 1 .. Len(s) : k[n] = DropOldest(k[n - 1])
  BY <1>1 DEF OldestGo
<1> DEFINE K == {n \in Nat : n <= Len(s) => EndsWith(k[n], m) /\ Followed(k[n], A)}
<1>3. 0 \in K BY <1>2
<1>4. ASSUME NEW n \in Nat, n \in K PROVE n + 1 \in K
  <2> SUFFICES ASSUME n + 1 <= Len(s) PROVE EndsWith(k[n + 1], m) /\ Followed(k[n + 1], A) OBVIOUS
  <2>1. Len(s) \in Nat /\ n \in 0 .. Len(s) /\ n + 1 \in 1 .. Len(s) /\ (n + 1) - 1 = n OBVIOUS
  <2>2. PICK u : u = k[n] OBVIOUS
  <2>3. EndsWith(u, m) /\ Followed(u, A) BY <1>4, <2>1, <2>2
  <2>4. k[n + 1] = DropOldest(u) BY <1>2, <2>1, <2>2
  <2>5. u \in Seq(S) BY <1>2, <2>1, <2>2
  <2>6. EndsWith(DropOldest(u), m) /\ Followed(DropOldest(u), A) BY <2>3, <2>5, DropKeeps
  <2>7. QED BY <2>4, <2>6
<1>5. Len(s) \in K
  <2> HIDE DEF K
  <2>1. QED BY <1>3, <1>4, NumberInduction
<1>6. QED BY <1>2, <1>5

LEMMA BuildKeeps ==
  ASSUME NEW S, NEW s \in Seq(S), NEW m, NEW A, EndsWith(s, m), Followed(s, A),
         \A a \in A : IsAnswer(a) => Sent(a)
  PROVE  EndsWith(Build(s), m) /\ Followed(Build(s), A)
<1>1. PICK T : T = {entry \in ToSet(s) : Sent(entry)} OBVIOUS
<1>2. PICK u : u = Filter(s, T) OBVIOUS
<1>3. u \in Seq(S) BY <1>2, FilterKeeps
<1>4. ToSet(s) = {s[i] : i \in 1 .. Len(s)} BY SetOfLog
<1>5. Asked(m) \in T
  <2>1. Len(s) \in 1 .. Len(s) /\ s[Len(s)] = Asked(m) BY DEF EndsWith
  <2>2. Sent(Asked(m)) BY DEF Sent, IsAnswer, Asked
  <2>3. QED BY <2>1, <2>2, <1>1, <1>4
<1>6. KeepsAnswers(s, T, A)
  <2>1. ASSUME NEW j \in 1 .. Len(s), s[j] \in A, IsAnswer(s[j]) PROVE s[j] \in T
    <3>1. Sent(s[j]) BY <2>1
    <3>2. QED BY <3>1, <1>1, <1>4
  <2>2. QED BY <2>1 DEF KeepsAnswers
<1>7. EndsWith(u, m) BY <1>2, <1>5, FilterEnds
<1>8. Followed(u, A) BY <1>2, <1>6, FilterFollows
<1>9. EndsWith(Fit(u), m) /\ Followed(Fit(u), A) BY <1>3, <1>7, <1>8, FitKeeps
<1>10. QED BY <1>1, <1>2, <1>9 DEF Build

\* An entry of a message is in the log once, and its answer after it.
LEMMA PageKeeps ==
  ASSUME NEW s \in Seq(Entries), NEW from \in 0 .. Len(s), NEW to \in 1 .. Len(s), from < to,
         NEW m, s[to] = Asked(m),
         \A i, j \in 1 .. Len(s) :
           s[i].of = s[j].of /\ i < j => ~IsAnswer(s[i]) /\ IsAnswer(s[j])
  PROVE  LET page == Newest(SubSeq(s, from + 1, to), HistoryWindow)
         IN  EndsWith(page, m) /\ Followed(page, {s[k] : k \in 1 .. to})
<1>1. PICK page : page = Newest(SubSeq(s, from + 1, to), HistoryWindow) OBVIOUS
<1>2. page \in Seq(Entries)
      /\ \E first \in from .. to - 1 :
           /\ Len(page) = to - first
           /\ \A i \in 1 .. to - first : page[i] = s[first + i]
  <2>1. to \in 0 .. Len(s) OBVIOUS
  <2>2. QED BY <2>1, <1>1, PageIs
<1>3. PICK first \in from .. to - 1 :
           /\ Len(page) = to - first
           /\ \A i \in 1 .. to - first : page[i] = s[first + i]
  BY <1>2
<1>4. Len(s) \in Nat /\ Len(page) \in Nat \ {0} /\ first + Len(page) = to BY <1>3
<1>5. \A i \in 1 .. Len(page) : first + i \in 1 .. to /\ page[i] = s[first + i] BY <1>3
<1>6. Asked(m).of = m /\ ~IsAnswer(Asked(m)) BY DEF Asked, IsAnswer
<1>7. page[Len(page)] = Asked(m)
  <2>1. Len(page) \in 1 .. Len(page) BY <1>4
  <2>2. QED BY <2>1, <1>4, <1>5
<1>8. ASSUME NEW i \in 1 .. Len(page), i < Len(page) PROVE page[i].of # m
  <2>1. PICK n : n = first + i OBVIOUS
  <2>2. n \in 1 .. Len(s) /\ n < to /\ page[i] = s[n] BY <2>1, <1>3, <1>4, <1>5, <1>8
  <2>3. s[n].of = s[to].of => IsAnswer(s[to]) BY <2>2
  <2>4. QED BY <2>2, <2>3, <1>6
<1>9. EndsWith(page, m) BY <1>4, <1>7, <1>8 DEF EndsWith
<1>10. ASSUME NEW i \in 1 .. Len(page), NEW k \in 1 .. to,
              ~IsAnswer(page[i]), IsAnswer(s[k]), s[k].of = page[i].of
       PROVE  \E j \in i + 1 .. Len(page) : page[j] = s[k]
  <2>1. PICK n : n = first + i OBVIOUS
  <2>2. n \in 1 .. Len(s) /\ k \in 1 .. Len(s) /\ page[i] = s[n] BY <2>1, <1>5
  <2>3. n < k
    <3>1. n # k BY <2>2, <1>10
    <3>2. k < n => ~IsAnswer(s[k]) BY <2>2, <1>10
    <3>3. QED BY <3>1, <3>2, <2>2, <1>10
  <2>4. PICK j : j = k - first OBVIOUS
  <2>5. j \in i + 1 .. Len(page) /\ first + j = k BY <2>1, <2>3, <2>4, <1>3, <1>4
  <2>6. j \in 1 .. Len(page) BY <2>5
  <2>7. page[j] = s[k] BY <2>5, <2>6, <1>5
  <2>8. QED BY <2>5, <2>7
<1>11. Followed(page, {s[k] : k \in 1 .. to}) BY <1>10 DEF Followed
<1>12. QED BY <1>1, <1>9, <1>11

\* An answer to a listed message that came after the anchor is a late answer.
LEMMA LateHas ==
  ASSUME TranscriptInv, NEW through \in cutoff + 1 .. Len(log),
         state[log[through].of] \notin Answered,
         NEW u \in cutoff + 1 .. through, ~IsAnswer(log[u]),
         NEW k \in through + 1 .. Len(log), IsAnswer(log[k]), log[k].of = log[u].of
  PROVE  \E i \in 1 .. Len(LateReplies(through)) : LateReplies(through)[i] = log[k]
<1>1. log \in Seq(Entries) /\ cutoff \in 0 .. Len(log) BY DEF TranscriptInv, LogMatches
<1>2. PICK s, from : s = log /\ from = cutoff OBVIOUS
<1>3. s \in Seq(Entries) /\ from \in 0 .. Len(s) /\ Len(s) \in Nat BY <1>1, <1>2
<1>4. through \in from + 1 .. Len(s) /\ u \in from + 1 .. through /\ k \in through + 1 .. Len(s)
  BY <1>2
<1>5. u \in 1 .. Len(s) /\ k \in 1 .. Len(s) /\ through \in 1 .. Len(s) BY <1>3, <1>4
<1>6. PICK m : m = s[u].of OBVIOUS
<1>7. s[u] = Asked(m)
  <2>1. s[u] \in Entries /\ ~IsAnswer(s[u]) BY <1>2, <1>3, <1>5
  <2>2. QED BY <2>1, <1>6, EntryKinds
<1>8. Sequence(m) = u
  <2>1. /\ Sequence(m) \in 0 .. Len(log)
        /\ Sequence(m) = 0 => \A i \in 1 .. Len(log) : log[i] # Asked(m)
        /\ Sequence(m) # 0 => /\ log[Sequence(m)] = Asked(m)
                              /\ \A i \in 1 .. Len(log) : log[i] = Asked(m) => Sequence(m) <= i
    BY <1>1, SequenceIs
  <2>2. PICK n : n = Sequence(m) OBVIOUS
  <2>3. n # 0 BY <2>1, <2>2, <1>2, <1>5, <1>7
  <2>4. n \in 1 .. Len(s) /\ n <= u /\ s[n] = Asked(m) BY <2>1, <2>2, <2>3, <1>2, <1>5, <1>7
  <2>5. Asked(m).of = m /\ ~IsAnswer(Asked(m)) BY DEF Asked, IsAnswer
  <2>6. ~(n < u)
    <3>1. n < u /\ s[n].of = s[u].of => IsAnswer(s[u])
      BY <2>4, <1>2, <1>5 DEF TranscriptInv, AnswersFollow
    <3>2. QED BY <3>1, <2>4, <2>5, <1>7
  <2>7. QED BY <2>2, <2>4, <2>6, <1>5
<1>9. PICK rest : rest = SubSeq(s, through + 1, Len(s)) OBVIOUS
<1>10. rest \in Seq(Entries) BY <1>3, <1>4, <1>9
<1>11. PICK T : T = {entry \in ToSet(s) : /\ IsAnswer(entry) /\ entry.of # s[through].of
                                          /\ Sequence(entry.of) \in from + 1 .. through}
  OBVIOUS
<1>12. PICK late : late = LateReplies(through) OBVIOUS
<1>13. late = Filter(rest, T) BY <1>2, <1>9, <1>11, <1>12 DEF LateReplies
<1>14. s[k] \in T
  <2>1. ToSet(s) = {s[i] : i \in 1 .. Len(s)} BY <1>3, SetOfLog
  <2>2. s[k] \in ToSet(s) BY <2>1, <1>5
  <2>3. IsAnswer(s[k]) BY <1>2
  <2>4. s[k].of # s[through].of
    <3>1. state[s[k].of] \in Answered
      BY <2>3, <1>2, <1>5 DEF TranscriptInv, LogMatches
    <3>2. QED BY <3>1, <1>2
  <2>5. s[k].of = m BY <1>2, <1>6
  <2>6. Sequence(s[k].of) \in from + 1 .. through BY <2>5, <1>4, <1>8
  <2>7. QED BY <2>2, <2>3, <2>4, <2>6, <1>11
<1>15. PICK n : n = k - through OBVIOUS
<1>16. n \in 1 .. Len(rest) /\ rest[n] = s[k]
  <2>1. Len(rest) = Len(s) - through BY <1>3, <1>4, <1>9
  <2>2. n \in 1 .. Len(s) - through /\ through + n = k BY <1>3, <1>4, <1>15
  <2>3. rest[n] = s[through + n] BY <2>2, <1>3, <1>4, <1>9
  <2>4. QED BY <2>1, <2>2, <2>3
<1>17. \A j \in 1 .. Len(rest) :
         rest[j] \in T => \E i \in 1 .. Len(Filter(rest, T)) : Filter(rest, T)[i] = rest[j]
  BY <1>10, FilterKeeps
<1>18. \E i \in 1 .. Len(late) : late[i] = s[k] BY <1>13, <1>14, <1>16, <1>17
<1>19. QED BY <1>2, <1>12, <1>18

LEMMA ListKeeps ==
  ASSUME TranscriptInv, NEW through \in cutoff + 1 .. Len(log), NEW m,
         log[through] = Asked(m), state[m] \notin Answered
  PROVE  /\ EndsWith(List(through), m)
         /\ Len(LateReplies(through)) <= HistoryWindow =>
              Followed(List(through), {log[k] : k \in 1 .. Len(log)})
<1>1. log \in Seq(Entries) /\ cutoff \in 0 .. Len(log) BY DEF TranscriptInv, LogMatches
<1>2. PICK s, from : s = log /\ from = cutoff OBVIOUS
<1>3. s \in Seq(Entries) /\ from \in 0 .. Len(s) /\ Len(s) \in Nat BY <1>1, <1>2
<1>4. through \in 1 .. Len(s) /\ through \in 0 .. Len(log) /\ from < through /\ s[through] = Asked(m)
  BY <1>2, <1>3
<1>5. PICK page : page = Newest(SubSeq(s, from + 1, through), HistoryWindow) OBVIOUS
<1>6. page \in Seq(Entries)
  <2>1. through \in 0 .. Len(s) BY <1>4
  <2>2. QED BY <2>1, <1>3, <1>4, <1>5, PageIs
<1>7. EndsWith(page, m) /\ Followed(page, {s[k] : k \in 1 .. through})
  <2>1. \A i, j \in 1 .. Len(s) :
          s[i].of = s[j].of /\ i < j => ~IsAnswer(s[i]) /\ IsAnswer(s[j])
    BY <1>2 DEF TranscriptInv, AnswersFollow
  <2>2. QED BY <2>1, <1>3, <1>4, <1>5, PageKeeps
<1>8. PICK all : all = LateReplies(through) OBVIOUS
<1>9. all \in Seq(Entries) BY <1>4, <1>8, LateType
<1>10. Asked(m).of = m BY DEF Asked
<1>11. \A j \in 1 .. Len(all) : IsAnswer(all[j]) /\ all[j].of # m
  <2>1. \A j \in 1 .. Len(all) : IsAnswer(all[j]) /\ all[j].of # log[through].of
    BY <1>4, <1>8, LateElements
  <2>2. QED BY <2>1, <1>2, <1>4, <1>10
<1>12. PICK late : late = Bound(all, HistoryWindow) OBVIOUS
<1>13. HistoryWindow \in Nat BY BoundsArePositive
<1>14. /\ late \in Seq(Entries) /\ Len(late) <= Len(all)
       /\ \A j \in 1 .. Len(late) : late[j] = all[j]
       /\ Len(all) <= HistoryWindow => late = all
  BY <1>9, <1>12, <1>13, BoundIs
<1>15. \A j \in 1 .. Len(late) : IsAnswer(late[j]) /\ late[j].of # m
  <2>1. ASSUME NEW j \in 1 .. Len(late) PROVE IsAnswer(late[j]) /\ late[j].of # m
    <3>1. j \in 1 .. Len(all) BY <1>9, <1>14
    <3>2. QED BY <3>1, <1>11, <1>14
  <2>2. QED BY <2>1
<1>16. PICK A : A = {s[k] : k \in 1 .. through} OBVIOUS
<1>17. PICK B : B = A \cup {late[j] : j \in 1 .. Len(late)} OBVIOUS
<1>18. EndsWith(PlaceReplies(page, late), m) /\ Followed(PlaceReplies(page, late), B)
  <2>1. EndsWith(page, m) /\ Followed(page, A) BY <1>7, <1>16
  <2>2. late \in Seq(Entries) BY <1>14
  <2>3. page \in Seq(Entries) BY <1>6
  <2>4. /\ EndsWith(PlaceReplies(page, late), m)
        /\ Followed(PlaceReplies(page, late), A \cup {late[j] : j \in 1 .. Len(late)})
    <3> HIDE DEF Entries
    <3>1. PICK S : S = Entries OBVIOUS
    <3>2. page \in Seq(S) /\ late \in Seq(S) BY <2>2, <2>3, <3>1
    <3>3. QED BY <2>1, <3>2, <1>15, RepliesPlaced
  <2>5. QED BY <2>4, <1>17
<1>19. PICK entries : entries = List(through) OBVIOUS
<1>20. entries = PlaceReplies(page, late) BY <1>2, <1>5, <1>8, <1>12, <1>19 DEF List
<1>21. EndsWith(entries, m) /\ Followed(entries, B) BY <1>18, <1>20
<1>22. ASSUME Len(all) <= HistoryWindow,
              NEW i \in 1 .. Len(entries), NEW k \in 1 .. Len(s),
              ~IsAnswer(entries[i]), IsAnswer(s[k]), s[k].of = entries[i].of
       PROVE  \E j \in i + 1 .. Len(entries) : entries[j] = s[k]
  <2>1. s[k] \in B
    <3>1. CASE k <= through
      <4>1. k \in 1 .. through BY <3>1, <1>4
      <4>2. QED BY <4>1, <1>16, <1>17
    <3>2. CASE ~(k <= through)
      <4>1. k \in through + 1 .. Len(s) BY <3>2, <1>3, <1>4
      <4>2. PICK S : S = {log[n] : n \in cutoff + 1 .. through} \cup {e \in Entries : IsAnswer(e)}
        OBVIOUS
      <4>3. List(through) \in Seq(S) BY <4>2, ListWithin
      <4>4. entries \in Seq(S) BY <4>3, <1>19
      <4>5. entries[i] \in S BY <4>4
      <4>6. \E u \in from + 1 .. through : entries[i] = s[u] BY <4>2, <4>5, <1>2, <1>22
      <4>7. PICK u \in from + 1 .. through : entries[i] = s[u] BY <4>6
      <4>8. u \in cutoff + 1 .. through /\ ~IsAnswer(log[u]) /\ k \in through + 1 .. Len(log)
            /\ IsAnswer(log[k]) /\ log[k].of = log[u].of
        BY <4>1, <4>7, <1>2, <1>22
      <4>9. state[log[through].of] \notin Answered BY <1>10
      <4>10. \E j \in 1 .. Len(LateReplies(through)) : LateReplies(through)[j] = log[k]
        BY <4>8, <4>9, LateHas
      <4>11. \E j \in 1 .. Len(all) : all[j] = s[k] BY <4>10, <1>2, <1>8
      <4>12. late = all BY <1>14, <1>22
      <4>13. QED BY <4>11, <4>12, <1>17
    <3>3. QED BY <3>1, <3>2
  <2>2. QED BY <2>1, <1>21, <1>22 DEF Followed
<1>23. Len(all) <= HistoryWindow => Followed(entries, {s[k] : k \in 1 .. Len(s)})
  BY <1>22 DEF Followed
<1>24. QED BY <1>2, <1>8, <1>19, <1>21, <1>23

\* A sequence that is followed by more is followed by less.
LEMMA FollowedBy ==
  ASSUME NEW s, NEW A, NEW B, B \subseteq A, Followed(s, A)
  PROVE  Followed(s, B)
BY DEF Followed

AnswersShownIn(shown) ==
  /\ SelectInSeq(shown, LAMBDA entry : entry.of = turn.anchor) = Len(shown)
  /\ Len(LateReplies(Sequence(turn.anchor))) <= HistoryWindow =>
       \A i \in DOMAIN shown, k \in DOMAIN log :
         /\ ~IsAnswer(shown[i]) /\ IsAnswer(log[k])
         /\ log[k].of = shown[i].of /\ log[k].status = "succeeded"
         => \E j \in i + 1 .. Len(shown) : shown[j] = log[k]

LEMMA AnswersShownStep ==
  ASSUME TranscriptInv, [TranscriptNext]_transcriptVars, Prompted
  PROVE  AnswersShownIn(turn'.shown)
<1>1. Sequence(turn.anchor) \in cutoff + 1 .. Len(log)
      /\ turn'.shown = Build(List(Sequence(turn.anchor)))
  BY PromptedIs
<1>2. PICK m, th : m = turn.anchor /\ th = Sequence(turn.anchor) OBVIOUS
<1>3. log \in Seq(Entries) /\ cutoff \in 0 .. Len(log) BY DEF TranscriptInv, LogMatches
<1>4. th \in cutoff + 1 .. Len(log) BY <1>1, <1>2
<1>5. log[th] = Asked(m)
  <2>1. /\ Sequence(m) \in 0 .. Len(log)
        /\ Sequence(m) = 0 => \A i \in 1 .. Len(log) : log[i] # Asked(m)
        /\ Sequence(m) # 0 => /\ log[Sequence(m)] = Asked(m)
                              /\ \A i \in 1 .. Len(log) : log[i] = Asked(m) => Sequence(m) <= i
    BY <1>3, SequenceIs
  <2>2. Sequence(m) = th /\ th # 0 BY <1>2, <1>3, <1>4
  <2>3. QED BY <2>1, <2>2
<1>6. state[m] \notin Answered
  <2>1. turn.step = "appended" BY DEF Prompted
  <2>2. state[m] \in {"generating", "ignored"} BY <2>1, <1>2 DEF TranscriptInv, TurnStands
  <2>3. QED BY <2>2 DEF Answered
<1>7. PICK entries, shown : entries = List(th) /\ shown = Build(List(th)) OBVIOUS
<1>8. entries \in Seq(Entries)
  <2>1. th \in 0 .. Len(log) /\ cutoff < th BY <1>3, <1>4
  <2>2. List(th) \in Seq(Entries) BY <2>1, ListType
  <2>3. QED BY <2>2, <1>7
<1>9. shown = Build(entries) BY <1>7
<1>10. shown \in Seq(Entries)
  <2>1. PICK S : S = Entries OBVIOUS
  <2>2. entries \in Seq(S) BY <2>1, <1>8
  <2>3. Build(entries) \in Seq(S) BY <2>2, BuildType
  <2>4. QED BY <2>1, <2>3, <1>9
<1>11. /\ EndsWith(List(th), m)
       /\ Len(LateReplies(th)) <= HistoryWindow =>
            Followed(List(th), {log[k] : k \in 1 .. Len(log)})
  BY <1>4, <1>5, <1>6, ListKeeps
<1>12. EndsWith(entries, m) BY <1>7, <1>11
<1>13. EndsWith(shown, m)
  <2>1. PICK S, A : S = Entries /\ A = {} OBVIOUS
  <2>2. entries \in Seq(S) BY <2>1, <1>8
  <2>3. Followed(entries, A) /\ \A a \in A : IsAnswer(a) => Sent(a) BY <2>1 DEF Followed
  <2>4. EndsWith(Build(entries), m) BY <2>2, <2>3, <1>12, BuildKeeps
  <2>5. QED BY <2>4, <1>9
<1>14. SelectInSeq(shown, LAMBDA entry : entry.of = m) = Len(shown)
  <2> DEFINE I == {i \in 1 .. Len(shown) : shown[i].of = m}
  <2>1. SelectInSeq(shown, LAMBDA entry : entry.of = m) = IF I # {} THEN Min(I) ELSE 0 BY DEF SelectInSeq
  <2>2. I \subseteq 1 .. Len(shown) /\ Len(shown) \in Nat BY <1>10
  <2>3. LET at == IF I # {} THEN Min(I) ELSE 0
        IN  /\ at \in 0 .. Len(shown)
            /\ at = 0 => I = {}
            /\ at # 0 => at \in I /\ \A i \in I : at <= i
    BY <2>2, FirstPlace
  <2>4. PICK at : at = IF I # {} THEN Min(I) ELSE 0 OBVIOUS
  <2>5. Len(shown) \in I
    <3>1. Asked(m).of = m BY DEF Asked
    <3>2. QED BY <3>1, <1>13 DEF EndsWith
  <2>6. at \in I BY <2>3, <2>4, <2>5
  <2>7. at = Len(shown)
    <3>1. at \in 1 .. Len(shown) /\ shown[at].of = m BY <2>6
    <3>2. ~(at < Len(shown)) BY <3>1, <1>13 DEF EndsWith
    <3>3. QED BY <3>1, <3>2
  <2>8. QED BY <2>1, <2>4, <2>7
<1>15. ASSUME Len(LateReplies(th)) <= HistoryWindow,
              NEW i \in 1 .. Len(shown), NEW k \in 1 .. Len(log),
              ~IsAnswer(shown[i]), IsAnswer(log[k]),
              log[k].of = shown[i].of, log[k].status = "succeeded"
       PROVE  \E j \in i + 1 .. Len(shown) : shown[j] = log[k]
  <2>1. PICK S, A, B, s : /\ S = Entries /\ s = log /\ A = {log[n] : n \in 1 .. Len(log)}
                          /\ B = {a \in A : IsAnswer(a) => Sent(a)}
    OBVIOUS
  <2>2. entries \in Seq(S) BY <2>1, <1>8
  <2>3. Followed(entries, A) BY <2>1, <1>7, <1>11, <1>15
  <2>4. Followed(entries, B)
    <3>1. B \subseteq A BY <2>1
    <3>2. QED BY <2>3, <3>1, FollowedBy
  <2>5. \A a \in B : IsAnswer(a) => Sent(a) BY <2>1
  <2>6. Followed(Build(entries), B) BY <2>2, <2>4, <2>5, <1>12, BuildKeeps
  <2>7. Followed(shown, B) BY <2>6, <1>9
  <2>8. log[k] \in B
    <3>1. Sent(log[k]) BY <1>15 DEF Sent
    <3>2. log[k] \in A BY <2>1
    <3>3. QED BY <3>1, <3>2, <2>1
  <2>9. PICK a : a = log[k] OBVIOUS
  <2>10. a \in B /\ IsAnswer(a) /\ a.of = shown[i].of BY <2>8, <2>9, <1>15
  <2>11. \E j \in i + 1 .. Len(shown) : shown[j] = a BY <2>7, <2>10, <1>15 DEF Followed
  <2>12. QED BY <2>9, <2>11
<1>16. DOMAIN shown = 1 .. Len(shown) /\ DOMAIN log = 1 .. Len(log) BY <1>3, <1>10
<1>17. Len(LateReplies(th)) <= HistoryWindow =>
         \A i \in DOMAIN shown, k \in DOMAIN log :
           /\ ~IsAnswer(shown[i]) /\ IsAnswer(log[k])
           /\ log[k].of = shown[i].of /\ log[k].status = "succeeded"
           => \E j \in i + 1 .. Len(shown) : shown[j] = log[k]
  BY <1>15, <1>16
<1>18. SelectInSeq(shown, LAMBDA entry : entry.of = turn.anchor) = Len(shown) BY <1>2, <1>14
<1>19. AnswersShownIn(shown) BY <1>2, <1>17, <1>18 DEF AnswersShownIn
<1>20. turn'.shown = shown BY <1>1, <1>2, <1>7
<1>21. QED BY <1>19, <1>20

\* What a turn is shown ends with the message it answers, once, and shows the
\* answer of every message that has been answered, after it, whenever the late
\* answers fit the window.
THEOREM AnswersShown == TranscriptSpec => AnswersAreShown
<1>1. TranscriptInv /\ [TranscriptNext]_transcriptVars =>
        [Prompted =>
           LET shown == turn'.shown IN
           /\ SelectInSeq(shown, LAMBDA entry : entry.of = turn.anchor) = Len(shown)
           /\ Len(LateReplies(Sequence(turn.anchor))) <= HistoryWindow =>
                \A i \in DOMAIN shown, k \in DOMAIN log :
                  /\ ~IsAnswer(shown[i]) /\ IsAnswer(log[k])
                  /\ log[k].of = shown[i].of /\ log[k].status = "succeeded"
                  => \E j \in i + 1 .. Len(shown) : shown[j] = log[k]]_transcriptVars
  BY AnswersShownStep DEF AnswersShownIn
<1>2. QED BY <1>1, TranscriptHolds, PTL DEF TranscriptSpec, AnswersAreShown
=============================================================================
