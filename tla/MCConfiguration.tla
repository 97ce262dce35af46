-------------------------- MODULE MCConfiguration --------------------------
(* One chat, a command and turns of it, and pages that save.                *)
EXTENDS Configuration, TLC

CONSTANTS addRule, setOverride, turn1, turn2, chat, prompt1, prompt2, override

Filled(except) ==
  [f \in Fields \ Secrets |-> IF f \in DOMAIN except THEN except[f]
                              ELSE IF f \in Optional THEN "unset" ELSE "ok"]
Values(prompt, own, except) ==
  [status |-> Filled(except), whatsAppEnabled |-> TRUE, agentEnabled |-> TRUE, prompt |-> prompt, own |-> own]

NoRules == [rules |-> <<>>, override |-> None]
MCFirstDraft == Values(prompt1, NoRules, <<>>)
Other == Values(prompt2, [rules |-> <<>>, override |-> override], "PolicyRevision" :> "unset")
WithFallback == Values(prompt2, NoRules, "FallbackEndpoint" :> "ok")
WithBadLevel == Values(prompt1, NoRules, "LogLevel" :> "bad")
MCDrafts == {MCFirstDraft, Other, WithFallback, WithBadLevel}

Keys(llm, fallback) == "LLMAPIKey" :> llm @@ "FallbackAPIKey" :> fallback
MCPatches ==
  {[draft |-> Other, secrets |-> Keys("replace", "keep")], [draft |-> WithBadLevel, secrets |-> Keys("clear", "keep")]}
    \cup {[draft |-> WithFallback, secrets |-> Keys("keep", action)] : action \in {"keep", "replace"}}

MCEdit ==
  addRule :> [chat |-> chat, kind |-> "add", value |-> "rule"]
    @@ setOverride :> [chat |-> chat, kind |-> "set", value |-> override]
    @@ turn1 :> [chat |-> chat] @@ turn2 :> [chat |-> chat]
MCComing == {{addRule}, {setOverride}, {turn1, turn2}}
MCOverrides == {None, override}
Symmetry == Permutations(Forms) \cup Permutations({turn1, turn2})
=============================================================================
