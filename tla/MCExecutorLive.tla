--------------------------- MODULE MCExecutorLive ---------------------------
(***************************************************************************)
(* The instances of MCExecutor, watched.                                    *)
(***************************************************************************)
EXTENDS MCExecutor, ExecutorWatch
=============================================================================
