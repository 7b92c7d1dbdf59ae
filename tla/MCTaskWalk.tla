----------------------------- MODULE MCTaskWalk -----------------------------
(* A small instance of TaskWalk: a process of two threads and a task to come. *)
EXTENDS TaskWalk, TLC

CONSTANTS t1, t2, t3

MCTasks == {t1, t2, t3}
MCRenamers == {t1, t2}
MCFirstProc == <<t1, t2>>
=============================================================================
