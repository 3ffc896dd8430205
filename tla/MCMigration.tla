---------------------------- MODULE MCMigration ----------------------------
(***************************************************************************)
(* A small instance of BotArchive and the Migration it extends: one root in *)
(* each of its possible conditions, two stages so that a migration can be   *)
(* begun again after a rollback, one directory a starting command may       *)
(* create, a run of the migration tool beside an archive command and the    *)
(* daemon, and two failures or crashes anywhere.                            *)
(***************************************************************************)
EXTENDS BotArchive

CONSTANTS s1, s2
TwoStages == {s1, s2}
=============================================================================
