---------------------------- MODULE StatementLog ----------------------------
(***************************************************************************)
(* What a worker promises that executes statements some time after it was  *)
(* given them.  log holds the statements not yet tried, oldest first, and  *)
(* file what is on disk.  Only the oldest statement is ever tried, and it  *)
(* is tried once; one that fails changes nothing; those not tried may be   *)
(* lost with the process, all of them at once.                             *)
(***************************************************************************)
EXTENDS SequencesExt

CONSTANTS
  Effect(_, _),  \* what a statement makes of a file
  MayFail        \* may a statement fail?

VARIABLES file, log

Init == log = <<>>

Give == log' # <<>> /\ Front(log') = log /\ UNCHANGED file

Execute == log # <<>> /\ file' = Effect(Head(log), file) /\ log' = Tail(log)

Skip == MayFail /\ log # <<>> /\ log' = Tail(log) /\ UNCHANGED file

Lose == log' = <<>> /\ UNCHANGED file

Next == Give \/ Execute \/ Skip \/ Lose

Spec == Init /\ [][Next]_<<file, log>>
=============================================================================
