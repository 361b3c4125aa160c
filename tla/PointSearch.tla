---------------------------- MODULE PointSearch ----------------------------
(***************************************************************************)
(* CustomQChartView::startSearchIndex: the binary search for the point of  *)
(* a chart under the mouse, one turn of the loop per step, and the mouse   *)
(* movements that start it.  Points are numbered from 0.                   *)
(***************************************************************************)
EXTENDS Integers

CONSTANT MouseX    \* the x values under the mouse

VARIABLES
  size,      \* series->count()
  xs,        \* the x of the points
  x,         \* the x under the mouse
  first, count,
  pc

vars == <<size, xs, x, first, count, pc>>

Index == 0 .. size - 1
Ordered == \A i, j \in Index : i <= j => xs[i] <= xs[j]

TypeOK ==
  /\ first \in 0 .. size \/ (pc = "found" /\ first = -1)
  /\ count \in 0 .. size
  /\ pc \in {"idle", "search", "clamp", "found"}

Init ==
  /\ size \in Nat
  /\ xs \in [Index -> Int] /\ Ordered
  /\ x = 0 /\ first = 0 /\ count = 0
  /\ pc = "idle"

(* mouseMoveEvent up to the loop of startSearchIndex.  After an index that *)
(* is not that of a point, series->at(index) is undefined: no next one.    *)
MouseMove ==
  /\ \/ pc = "idle"
     \/ pc = "found" /\ first \in Index
  /\ x' \in MouseX
  /\ first' = 0
  /\ count' = size
  /\ pc' = "search"
  /\ UNCHANGED <<size, xs>>

step == count \div 2
it == first + step

-----------------------------------------------------------------------------
(* Mutant: the half that is searched still holds the point compared.       *)
SearchKeepsHalf ==
  /\ pc = "search" /\ count > 0
  /\ IF xs[it] < x
       THEN first' = it /\ count' = count - step
       ELSE first' = first /\ count' = step
  /\ UNCHANGED <<size, xs, x, pc>>

(* Mutant: the upper half is one too long.                                 *)
SearchTooFar ==
  /\ pc = "search" /\ count > 0
  /\ IF xs[it] < x
       THEN first' = it + 1 /\ count' = count - step
       ELSE first' = first /\ count' = step
  /\ UNCHANGED <<size, xs, x, pc>>

(* Mutant: the comparison is turned around.                                *)
SearchDescending ==
  /\ pc = "search" /\ count > 0
  /\ IF xs[it] > x
       THEN first' = it + 1 /\ count' = count - step - 1
       ELSE first' = first /\ count' = step
  /\ UNCHANGED <<size, xs, x, pc>>

(* One turn of the loop.                                                   *)
Search ==
  /\ pc = "search" /\ count > 0
  /\ IF xs[it] < x
       THEN first' = it + 1 /\ count' = count - step - 1
       ELSE first' = first /\ count' = step
  /\ UNCHANGED <<size, xs, x, pc>>

SearchEnds ==
  /\ pc = "search" /\ count = 0
  /\ pc' = "clamp"
  /\ UNCHANGED <<size, xs, x, first, count>>

(* if (first == count) first = count - 1; where count is the loop's.       *)
Clamp ==
  /\ pc = "clamp"
  /\ pc' = "found"
  /\ first' = IF first = count THEN count - 1 ELSE first
  /\ UNCHANGED <<size, xs, x, count>>

StartSearchIndex == Search \/ SearchEnds \/ Clamp

Next == MouseMove \/ StartSearchIndex

Spec == Init /\ [][Next]_vars

-----------------------------------------------------------------------------
(* Every point below the range searched is left of the mouse, and every    *)
(* point above it is not.                                                  *)
SearchInv ==
  pc \in {"search", "clamp"} =>
    /\ first + count <= size
    /\ \A i \in Index : /\ i < first => xs[i] < x
                        /\ i >= first + count => xs[i] >= x

(* Between the first point and the last, the index found is that of a      *)
(* point.  Wherever the mouse is, and also of no points, an index that is  *)
(* that of a point is that of the first one not left of the mouse, or of   *)
(* the last one if all are left of it.                                     *)
FindsPointUnderMouse ==
  pc = "found" =>
    /\ size > 0 /\ xs[0] < x /\ x <= xs[size - 1] => first \in Index
    /\ first \in Index =>
         /\ x <= xs[first] \/ first = size - 1
         /\ \A i \in 0 .. first - 1 : xs[i] < x

-----------------------------------------------------------------------------
(* What the code does not meet: TLC finds a counterexample (see README.md). *)

(* What the clamp is written for: the index is that of a point, also left  *)
(* of the first and right of the last one.                                 *)
IndexInSeries == pc = "found" /\ size > 0 => first \in Index
=============================================================================
