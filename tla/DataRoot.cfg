SPECIFICATION Spec
CONSTANTS
  Procs = {p1, p2}
  Roots = {data, copy, other}
  Default = data
  Destination = copy
  Files = {settings, bot}
  None = None
  MaxVersion = 1
  MaxCrashes = 1
  MaxFaults = 1
INVARIANTS RootHasOneOwner RestoreIsSound
PROPERTY OnlyTheOwnerWrites
SYMMETRY Symmetry
