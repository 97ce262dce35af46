--------------------------- MODULE SettingsRules ---------------------------
(***************************************************************************)
(* What settings must satisfy before they are saved, before a session and  *)
(* before the bot may start, as a function of the state of each field:     *)
(* "unset", "ok" or "bad" (present and malformed or out of range).  The    *)
(* two flags are fields of their own.                                      *)
(***************************************************************************)
EXTENDS FiniteSets

Status == {"unset", "ok", "bad"}

\* The fields withDefaults fills in.
Defaulted ==
  {"DataDir", "HTTPAddress", "LogLevel", "LogFormat", "LLMProviderID", "PolicyID", "PolicyRevision",
   "PromptMode", "ShutdownTimeout", "LLMTimeout", "LLMConcurrency", "MaxOutputTokens",
   "MaxResponseBytes", "InboundQueue", "InboundWorkers", "MessageDebounce", "MessageBurstCap",
   "HistoryWindow", "MaxContextBytes", "HistoryKeepLatest", "HistoryMaxAge", "ConnectTimeout",
   "SendTimeout", "PairingOutput"}

\* The fields without which the bot cannot start.
Required ==
  {"AssistantName", "OwnerJID", "ChatAllowlist", "LLMEndpoint", "LLMAPIKey", "LLMModel", "BasePrompt"}

Optional == {"SmartTriggerDebounce", "FallbackEndpoint", "FallbackAPIKey", "TypeSafeEndpoint"}

\* The secrets of the settings: a form never sees them.
Secrets == {"LLMAPIKey", "FallbackAPIKey"}

Fields == Defaulted \cup Required \cup Optional

\* Malformed, these stop only the bot.
CheckedByAgent == {"OwnerJID", "LLMEndpoint", "BasePrompt", "FallbackEndpoint", "TypeSafeEndpoint"}

\* Zero is a value of these, and an invalid one.
NeverUnset == {"PolicyRevision", "PromptMode"}

WithDefaults(s) ==
  [s EXCEPT !.status = [f \in Fields |-> IF f \in Defaulted /\ @[f] = "unset" THEN "ok" ELSE @[f]]]

Bad(s, fields) == {f \in fields : s.status[f] = "bad"}
Unset(s, fields) == {f \in fields : s.status[f] = "unset"}

\* The fallback endpoint and its key are configured together.
FallbackIncomplete(s) == Cardinality(Unset(s, {"FallbackEndpoint", "FallbackAPIKey"})) = 1

DraftIssues(s) ==
  Bad(s, Fields \ CheckedByAgent) \cup Unset(s, NeverUnset)
    \cup {f \in {"FallbackEndpoint"} : FallbackIncomplete(s)}
    \cup {f \in {"AgentEnabled"} : s.agentEnabled /\ ~s.whatsAppEnabled}

AgentIssues(s) ==
  DraftIssues(s) \cup Unset(s, Required) \cup Bad(s, CheckedByAgent)
    \cup {f \in {"WhatsAppEnabled"} : ~s.whatsAppEnabled}

ValidateDraft(s) == DraftIssues(WithDefaults(s)) = {}
ValidateSession(s) ==
  LET filled == WithDefaults(s) IN DraftIssues(filled) = {} /\ filled.status["DataDir"] = "ok"
ValidateAgent(s) == AgentIssues(WithDefaults(s)) = {}

\* Whether the settings give a runtime its configuration.
SnapshotFromSettings(s) == ValidateSession(s) /\ (s.agentEnabled => ValidateAgent(s))

\* Pairing and resuming need none of the values of the bot.
SessionSnapshotFromSettings(s) ==
  SnapshotFromSettings([s EXCEPT !.whatsAppEnabled = TRUE, !.agentEnabled = FALSE])
=============================================================================
