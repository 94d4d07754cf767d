----------------------------- MODULE ScanWindow -----------------------------
(***************************************************************************)
(* engine.rotatingWindow: which candidates a tick scans.  A list is the    *)
(* set of its slots, numbers whose order is the order of the list; the     *)
(* k-th slot, from zero, is the one with k slots before it.                *)
(***************************************************************************)
EXTENDS Integers, FiniteSets

Rank(list, slot) == Cardinality({x \in list : x < slot})

\* Mutant: the window stops at the end of the list.
WindowWithoutWrap(list, offset, n) ==
  {x \in list : Rank(list, x) \in offset .. offset + n - 1}

RotatingWindow(list, offset, n) ==
  IF n >= Cardinality(list) THEN list
  ELSE {x \in list : \E i \in 0 .. n - 1 :
                       Rank(list, x) = (offset + i) % Cardinality(list)}

\* Mutant: the offset is not brought back into the list.
OffsetUnbounded(list, offset, window) == offset + Cardinality(window)

\* Mutant: every window starts at the head of the list.
OffsetStuck(list, offset, window) == 0

\* Where the next tick's window starts.
NextOffset(list, offset, window) ==
  (offset + Cardinality(window)) % (IF list = {} THEN 1 ELSE Cardinality(list))
=============================================================================
