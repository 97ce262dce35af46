------------------------------ MODULE MCAccess ------------------------------
(* Two people, a group and their direct chats, for TLC.                    *)
EXTENDS Access, TLC
CONSTANTS l1, l2, p1, g, status, r1, r2, r3, r4, dump, hello, hi, bot, seen

Says(lid, alias, first, chat, fromMe, text, mentions) ==
  [lid |-> lid, alias |-> alias, phoneFirst |-> first, chat |-> chat,
   fromMe |-> fromMe, text |-> text, mentions |-> mentions]

\* The first person commands in the group and writes in a direct chat, the
\* number first or second; the second one shows a status under the same number,
\* and commands in the group as the bot.
MCInfo == [e \in Events |->
  CASE e = dump  -> Says(l1, p1, FALSE, g, FALSE, "dump", l2)
    [] e = hello -> Says(l1, p1, TRUE, None, FALSE, "text", None)
    [] e = hi    -> Says(l1, p1, FALSE, None, FALSE, "text", None)
    [] e = bot   -> Says(l2, None, FALSE, g, TRUE, "memory", l1)
    [] e = seen  -> Says(l2, p1, FALSE, status, FALSE, "text", None)]

MCPolicies == {[owner |-> p1, allow |-> {g, l1}],
               [owner |-> l1, allow |-> {"*@lid"}],
               [owner |-> l2, allow |-> {"*@g.us"}]}
RefSymmetry == Permutations(Refs)
=============================================================================
