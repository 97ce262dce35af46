------------------------- MODULE MCScheduledTasks -------------------------
(* A command that asks for a task in a tick, and calls that ask for a daily
   task each, of which the chat may have one.                             *)
EXTENDS ScheduledTasks

CONSTANTS c1, d1, d2

WhenAsked == [s \in Sources |-> IF s \in Daily THEN 0 ELSE 1]
=============================================================================
