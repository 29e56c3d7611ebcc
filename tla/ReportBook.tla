----------------------------- MODULE ReportBook -----------------------------
(***************************************************************************)
(* What the bug reports of the sanity checker promise to whoever reads     *)
(* them: a report is announced at most once, then written from its first   *)
(* chapter to its last, each chapter once, and never changes again.  There *)
(* is one chapter per online CPU.                                          *)
(***************************************************************************)
EXTENDS Integers, Sequences

CONSTANTS
  Reports,   \* the reports there may be
  Chapters   \* how many chapters a report has, a natural number

VARIABLES
  announced, \* the reports a reader takes for existing
  text       \* per report, the chapters written, in the order written

book == <<announced, text>>

Init == announced = {} /\ text = [r \in Reports |-> <<>>]

Announce(r) ==
  /\ r \notin announced
  /\ announced' = announced \cup {r}
  /\ UNCHANGED text

Write(r) ==
  /\ r \in announced
  /\ Len(text[r]) < Chapters
  /\ text' = [text EXCEPT ![r] = Append(@, Len(@))]
  /\ UNCHANGED announced

Next == \E r \in Reports : Announce(r) \/ Write(r)

Spec == Init /\ [][Next]_book
=============================================================================
