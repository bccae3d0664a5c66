--------------------------- MODULE MCMessageQueue ---------------------------
(***************************************************************************)
(* Instances of MessageQueue for TLC: two tasks of different priority and  *)
(* the idle task, with interrupt handlers that also send and receive.      *)
(***************************************************************************)
EXTENDS MessageQueue

CONSTANTS idle, a, b        \* the idle task and two others

Tasks == {idle, a, b}
FirstTasks == {a, b}
QueueLists == {"toSend", "toReceive"}

TaskPriority == [t \in Tasks |-> CASE t = idle -> 0 [] t = a -> 1 [] t = b -> 2]

BothWays == [t \in Tasks |->
    CASE t = idle -> {}
      [] t = a -> {"receive", "send"}
      [] t = b -> {"peek", "reset"}]

OneTick == [t \in Tasks |-> IF t = idle THEN {} ELSE {1}]

\* A receiver that a task of higher priority delays.
Late == [t \in Tasks |-> CASE t = idle -> {} [] t = a -> {"receive"} [] t = b -> {"delay"}]
LateWaits == [t \in Tasks |-> CASE t = idle -> {} [] t = a -> {1} [] t = b -> {2}]
=============================================================================
