------------------------------ MODULE MCHistory ------------------------------
(* Instances of HistoryModel for TLC. *)
EXTENDS HistoryModel, TLC

CONSTANTS u1, u2, d1, d2

\* One domain for each URL.
MCDomainOf == [u \in Url |-> IF u = u1 THEN d1 ELSE d2]

\* Titles are interchangeable, and so are the URLs when their domains go with them.
Swapped == [x \in {u1, u2, d1, d2} |-> CASE x = u1 -> u2 [] x = u2 -> u1 [] x = d1 -> d2 [] x = d2 -> d1]
Symmetric == Permutations(Title) \cup {Swapped}
=============================================================================
