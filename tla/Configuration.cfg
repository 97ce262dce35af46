SPECIFICATION Spec
CONSTANTS
  None = none
  addRule = addRule
  setOverride = setOverride
  turn1 = turn1
  turn2 = turn2
  chat = chat
  prompt1 = prompt1
  prompt2 = prompt2
  override = override
  Drafts <- MCDrafts
  Patches <- MCPatches
  FirstDraft <- MCFirstDraft
  Forms = {f1, f2}
  Chats = {chat}
  Commands = {addRule, setOverride}
  Turns = {turn1, turn2}
  Edit <- MCEdit
  Rules = {"rule"}
  Overrides <- MCOverrides
  Coming <- MCComing
  MaxRevision = 2
  MaxVersion = 3
  MaxStops = 1
INVARIANTS
  ConfigurationIsSound
  OneInvocationPerChat
PROPERTY
  SavesOnlyWhatWasSeen
SYMMETRY
  Symmetry
CHECK_DEADLOCK FALSE
