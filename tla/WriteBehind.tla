----------------------------- MODULE WriteBehind -----------------------------
(***************************************************************************)
(* What a write-behind store promises.  versions is the list of contents   *)
(* the store has been asked for, one for each operation: the first is on   *)
(* disk, the last is what the operations asked for so far will make of it. *)
(* Contents reach the disk in the order they were asked for, none skipped  *)
(* and none twice; a stop of the process may lose the last ones, never one *)
(* in the middle.  A command of several operations has contents in between *)
(* that its user never sees, and the disk may be left with one of them.    *)
(***************************************************************************)
EXTENDS Integers, Sequences

VARIABLE versions

Init == Len(versions) = 1

\* A command asks for one or more new contents.
Give ==
  /\ Len(versions') > Len(versions)
  /\ SubSeq(versions', 1, Len(versions)) = versions

Persist == Len(versions) > 1 /\ versions' = Tail(versions)

Lose == \E n \in 1 .. Len(versions) : versions' = SubSeq(versions, 1, n)

Next == Give \/ Persist \/ Lose

Spec == Init /\ [][Next]_versions
=============================================================================
