----------------------------- MODULE LocalCookies -----------------------------
(***************************************************************************)
(* The cookie store that is a database file (local-cookie-store.cpp).  The *)
(* table has the time of creation as its key, in microseconds of a clock   *)
(* of milliseconds; a row whose key there is already is not inserted, and  *)
(* the result of the statement is not looked at.                           *)
(***************************************************************************)
EXTENDS Naturals, Sequences, FiniteSets, SequencesExt, Functions

CONSTANTS Cookie,
          PerMs,      \* bound: microseconds in a millisecond
          MaxMs,      \* bound: milliseconds
          MaxCookies, \* bound: cookies of one call
          SameMs,     \* can the store be written to twice in one millisecond?
          Faults,     \* can opening, or creating the table, fail?
          InsertFails \* can the INSERT of a cookie whose key is free fail?

Row == [creation : Nat, cookie : Cookie]

VARIABLES hasTable,  \* is there a table?
          table,     \* the table of cookies
          msec,      \* the clock
          written,   \* when it was last written to
          emitted,   \* the last signal: "cookiesSet", "gotCookies", or none
          acked, got \* the cookies for which it said cookiesSet(true), and the ones of gotCookies

vars == <<hasTable, table, msec, written, emitted, acked, got>>

Init == /\ hasTable = FALSE /\ table = {} /\ msec = 1 /\ written = 0
        /\ emitted = "none" /\ acked = {} /\ got = {}

TimestampMut(last) == msec * PerMs   \* mutant: all cookies of a call have one time

\* "Make sure that every cicle iteration marks a different timestamp".
Timestamp(last) == IF msec * PerMs <= last THEN last + 1 ELSE msec * PerMs

\* One turn of the loop, on the table and the last time stamp.
Insert(s, c) ==
  LET t == Timestamp(s.last)
  IN [rows |-> IF \E r \in s.rows : r.creation = t THEN s.rows
               ELSE s.rows \cup {[creation |-> t, cookie |-> c]},
      last |-> t]
Unstored(s, c) == [Insert(s, c) EXCEPT !.rows = s.rows]

\* The whole loop, over the cookies of a call; the statements of some turns may fail.
Inserted(rows, cs, failed) ==
  LET F[n \in 0 .. Len(cs)] == IF n = 0 THEN [rows |-> rows, last |-> 0]
                               ELSE IF n \in failed THEN Unstored(F[n - 1], cs[n]) ELSE Insert(F[n - 1], cs[n])
  IN F[Len(cs)]

CreateDb == hasTable' = TRUE

DoSetCookies(cs) ==
  /\ SameMs \/ written < msec
  /\ hasTable \/ CreateDb
  /\ hasTable' = TRUE
  /\ \E failed \in IF InsertFails THEN SUBSET DOMAIN cs ELSE {{}} :
       table' = Inserted(table, cs, failed).rows
  /\ emitted' = "cookiesSet" /\ acked' = acked \cup Range(cs)
  /\ written' = msec
  /\ UNCHANGED <<msec, got>>

\* Without a table the query fails, and there are no cookies.
DoGetCookies == /\ got' = {r.cookie : r \in table}
                /\ emitted' = "gotCookies"
                /\ UNCHANGED <<hasTable, table, msec, written, acked>>

\* The file cannot be opened, or the transaction that creates the tables is rolled back: no signal.
Fails == /\ Faults
         /\ emitted' = "none"
         /\ UNCHANGED <<hasTable, table, msec, written, acked, got>>

Tick == /\ msec < MaxMs /\ msec' = msec + 1
        /\ UNCHANGED <<hasTable, table, written, emitted, acked, got>>

Next == \/ \E cs \in BoundedSeq(Cookie, MaxCookies) : DoSetCookies(cs)
        \/ DoGetCookies \/ Fails \/ Tick

Spec == Init /\ [][Next]_vars

-----------------------------------------------------------------------------
(* Properties *)

\* Every cookie for which the store has said that it is set is in the table, however many
\* are set together and however often one is set again; and getCookies gives all of them.
SetIsStored == acked \subseteq {r.cookie : r \in table}
GotStep == got' # got => acked \subseteq got'
GotAll == [][GotStep]_vars
=============================================================================
