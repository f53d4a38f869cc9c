---------------------------- MODULE MCTimeEntries ----------------------------
(***************************************************************************)
(* Instances of TimeEntries for TLC. A tax rate of 1 on a base of 2 and an *)
(* hour of 2 seconds keep both truncating divisions of the code in play.   *)
(***************************************************************************)
EXTENDS TimeEntries

CONSTANTS u1, u2, h1, h2

OneUser      == {u1}
TwoUsers     == {u1, u2}
OneHandler   == {h1}
TwoHandlers  == {h1, h2}
=============================================================================
