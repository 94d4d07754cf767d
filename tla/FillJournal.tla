----------------------------- MODULE FillJournal -----------------------------
(***************************************************************************)
(* What the trade log promises (tradelog.go:1-5, README.md:64-68): the     *)
(* fills of the account, from the first one on, without a gap, and in the  *)
(* end all of them.  Nothing is said here of files, calls or restarts.     *)
(***************************************************************************)
EXTENDS Integers

VARIABLES
  happened,  \* fills there have been so far
  journal    \* those on record

Init == happened = 0 /\ journal = {}

Happen ==
  /\ happened' = happened + 1
  /\ UNCHANGED journal

FromTheFirst(S) == \A k \in S : \A j \in 1 .. k : j \in S

Record ==
  /\ journal' \in SUBSET (1 .. happened)
  /\ journal \subseteq journal' /\ journal' # journal
  /\ FromTheFirst(journal')
  /\ UNCHANGED happened

Next == Happen \/ Record

Spec == Init /\ [][Next]_<<happened, journal>>

FairSpec == Spec /\ WF_<<happened, journal>>(Record)
=============================================================================
