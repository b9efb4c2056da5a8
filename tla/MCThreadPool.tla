---------------------------- MODULE MCThreadPool ----------------------------
(***************************************************************************)
(* Small instances of ThreadPool for TLC.                                  *)
(***************************************************************************)
EXTENDS ThreadPool

CONSTANTS c1, c2

MCClients == {c1, c2}
MCOneClient == {c1}
MCNone == {}
MCAllTasks == 1 .. MaxTasks
MCFirstWorker == {1}
MCSecondWorker == {2}
=============================================================================
