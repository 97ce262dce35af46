---------------------------- MODULE MCRetention ----------------------------
(* Some of the messages, stickers and effects come.  People's messages are  *)
(* alike.                                                                    *)
EXTENDS Retention

CONSTANT MaxComing  \* bound: messages, stickers and effects of a behaviour

Symmetry == Permutations(Incoming)

MCInit ==
  /\ RetentionInit
  /\ Cardinality({m \in Incoming : state[m] = "new"})
       + Cardinality({h \in Manual : delivery[h] = "none"})
       + Cardinality({s \in Stickers : at[Bot(s)] = 0})
       + Cardinality({e \in Effects : effects[e] = NoEffect}) <= MaxComing

MCSpec == MCInit /\ [][RetentionNext]_retentionVars
=============================================================================
