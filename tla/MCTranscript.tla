--------------------------- MODULE MCTranscript ---------------------------
(* A few of the messages and tasks come, with a change of the configuration*)
(* or a fault.  Messages that ask for an answer are alike.                 *)
EXTENDS Transcript

CONSTANTS
  MaxComing,  \* bound: messages and tasks of a behaviour
  MaxEvents   \* bound: its changes of the configuration and faults

Symmetry == Permutations(Users)

MCInit ==
  /\ TranscriptInit
  /\ Cardinality({m \in Everything : state[m] = "new"}) <= MaxComing
  /\ (MaxVersions - version) + (MaxFaults - faults) <= MaxEvents

MCSpec == MCInit /\ [][TranscriptNext]_transcriptVars
=============================================================================
