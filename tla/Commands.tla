------------------------------ MODULE Commands ------------------------------
(***************************************************************************)
(* The programs that the shell runs in its foreground, one at a time: the  *)
(* first line typed chooses one of them.                                   *)
(***************************************************************************)
EXTENDS TestSync, MVar

CONSTANT Programs       \* "test_sync", "mvar"

VARIABLE program

commandVars == << program, syncVars, mvarVars >>

CommandInit == program \in Programs /\ SyncInit /\ MVarInit

Syncs  == program = "test_sync" /\ UNCHANGED << program, mvarVars >>
Shares == program = "mvar" /\ UNCHANGED << program, syncVars >>

CommandNext ==
  \/ Syncs /\ SyncNext
  \/ Shares /\ MVarNext

(* A process that can go on does, when it is not killed (Scheduler's       *)
(* ReadyRunsOnceWakesStop).                                                *)
CommandSpec ==
  /\ CommandInit /\ [][CommandNext]_commandVars
  /\ WF_commandVars(Syncs /\ Works)
  /\ WF_commandVars(Shares /\ Makes)
  /\ \A p \in Users : WF_commandVars(Shares /\ Uses(p))
=============================================================================
