---------------------------- MODULE MCChatQueue ----------------------------
(* Small instances of ChatQueue for TLC: the second message differs, the   *)
(* others are AI messages the policy wants.                                *)
EXTENDS ChatQueue, TLC

SecondIs(special) == [m \in Msgs |-> IF m = 2 THEN special ELSE "wanted"]
EachKind == {SecondIs(k) : k \in MessageKinds}
=============================================================================
