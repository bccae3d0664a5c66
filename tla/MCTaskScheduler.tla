--------------------------- MODULE MCTaskScheduler ---------------------------
(***************************************************************************)
(* An instance of TaskScheduler for TLC: a periodic task that shares the   *)
(* processor with one that holds the scheduler, and a task of the highest  *)
(* priority that is created while they run, sleeps and deletes.            *)
(***************************************************************************)
EXTENDS TaskScheduler

CONSTANTS idle, a, b, c     \* the idle task and three others

Tasks == {idle, a, b, c}
FirstTasks == {a, b}

TaskPriority == [t \in Tasks |-> CASE t \in {idle, b} -> 0 [] t = a -> 1 [] t = c -> 2]

TaskProgram == [t \in Tasks |->
    CASE t = idle -> {}
      [] t = a -> {"until", "create", "yield"}
      [] t = b -> {"suspend"}
      [] t = c -> {"delay", "delete", "exit"}]

\* A delay of 0 ticks is a yield; 2 is the longest there is.
TaskWaits == [t \in Tasks |-> CASE t = a -> {2} [] t = c -> {0, 2} [] OTHER -> {1}]
=============================================================================
