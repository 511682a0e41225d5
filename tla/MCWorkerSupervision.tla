----------------------- MODULE MCWorkerSupervision -----------------------
(* Instances of WorkerSupervision for TLC.                                 *)
EXTENDS WorkerSupervision, TLC

CONSTANT alice

OneWorker == {alice}

\* Two of the commands the CLI offers; they are enough for a second process
\* beside a sleeping restart.
RestartCommands == {"stop", "restart"}
=============================================================================
