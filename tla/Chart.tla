------------------------------- MODULE Chart -------------------------------
(***************************************************************************)
(* A chart from the log to the mouse: SignalGraph fills its series, and    *)
(* each movement of the mouse over it runs PointSearch on that series, as  *)
(* CustomQChartView::mouseMoveEvent does.  The mouse also reaches x values *)
(* outside the range of the line, in the margins of the chart.             *)
(***************************************************************************)
EXTENDS SignalGraph

VARIABLES
  x, first, count,   \* of startSearchIndex
  search             \* where it is; "idle" before the mouse moves

chartVars == <<vars, x, first, count, search>>

Points == [i \in 0 .. Len(series) - 1 |-> series[i + 1][1]]

Mouse == INSTANCE PointSearch
  WITH MouseX <- -1 .. MaxTime + 1, size <- Len(series), xs <- Points, pc <- search

ChartInit ==
  /\ Init
  /\ x = 0 /\ first = 0 /\ count = 0
  /\ search = "idle"

(* The chart is made, without the mouse on it.                             *)
AddSignal == Next /\ UNCHANGED <<x, first, count, search>>

MouseMove == pc = "done" /\ UNCHANGED vars /\ Mouse!MouseMove

StartSearchIndex == UNCHANGED vars /\ Mouse!StartSearchIndex

ChartNext == AddSignal \/ MouseMove \/ StartSearchIndex

ChartSpec == ChartInit /\ [][ChartNext]_chartVars

(* startSearchIndex runs to its end; the mouse need not move.              *)
ChartFairSpec == ChartSpec /\ WF_chartVars(StartSearchIndex)

-----------------------------------------------------------------------------
(* Throughout the search, the points below the range that is left are left *)
(* of the mouse and those above it are not, and the range lies within the  *)
(* series: also with several points at one x, as each step of a signal has *)
(* them where its first message is the first of the log.                   *)
SearchIsSound == Mouse!TypeOK /\ Mouse!SearchInv

(* A label is always of the first point not left of the mouse, or of the   *)
(* last one to the right of all, also beyond the ends of the line and with *)
(* several points at one x, and between the ends there is one: which takes *)
(* a series whose x never decrease.                                        *)
LabelsPointUnderMouse == Mouse!FindsPointUnderMouse

(* Every search ends, whatever the length of the series.                   *)
SearchTerminates == search = "search" ~> search = "found"

-----------------------------------------------------------------------------
(* What the code does not meet: TLC finds a counterexample (see README.md). *)

(* What the clamp at the end of the search is written for: the index is    *)
(* that of a point, also left of the first and right of the last one.      *)
IndexInSeries == Mouse!IndexInSeries
=============================================================================
