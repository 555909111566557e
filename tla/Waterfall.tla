----------------------------- MODULE Waterfall -----------------------------
(***************************************************************************)
(* The timeline of the session page (assignLanes in                        *)
(* web/src/pages/app/SessionDetailPage.tsx): the spans of a session, in    *)
(* the order in which processing lists them, are put into lanes one by     *)
(* one, each into the first lane that is free when it starts.  Processing  *)
(* lists them as they were stored, which is neither the order in which     *)
(* they started nor that in which they ended.  A bar is then drawn for     *)
(* each span, from the beginning of the first span to the end of the last. *)
(***************************************************************************)
EXTENDS Integers

CONSTANTS
  Size,       \* the number of spans of the session
  Times,      \* when a span may start
  Lengths     \* how long it may run: duration_ms, which may be 0

\* Times are milliseconds.
WaterfallAssumption == Size \in Nat /\ Times \subseteq Nat /\ Lengths \subseteq Nat

VARIABLES
  spans,      \* the session's spans, as listed
  done,       \* how many of them have a lane
  lane,       \* their lanes
  laneCount,  \* laneEnds.length
  laneEnds    \* when each lane becomes free

vars == <<spans, done, lane, laneCount, laneEnds>>

Index == 1 .. Size
Lanes == 0 .. Size - 1
Span  == [start : Times, length : Lengths]

Start(i) == spans[i].start
End(i)   == spans[i].start + spans[i].length

TypeOK ==
  /\ spans \in [Index -> Span] /\ done \in 0 .. Size
  /\ lane \in [Index -> Lanes] /\ laneCount \in 0 .. done
  /\ laneEnds \in [Lanes -> Nat]

Init ==
  /\ spans \in [Index -> Span] /\ done = 0
  /\ lane = [i \in Index |-> 0] /\ laneCount = 0 /\ laneEnds = [l \in Lanes |-> 0]

----------------------------------------------------------------------------
\* The lanes that are free when span i starts.
FreeLanes(i) == {l \in 0 .. laneCount - 1 : laneEnds[l] <= Start(i)}

\* Faulty variant: only a new lane remembers when it becomes free.
TakenOnce(l, i) == IF l < laneCount THEN laneEnds ELSE [laneEnds EXCEPT ![l] = End(i)]
Taken(l, i) == [laneEnds EXCEPT ![l] = End(i)]

\* The first of them.
Reuse(l, i) ==
  /\ l \in FreeLanes(i) /\ \A m \in FreeLanes(i) : l <= m
  /\ UNCHANGED laneCount

\* Without one, a new lane at the bottom.
Grow(l, i) == FreeLanes(i) = {} /\ l = laneCount /\ laneCount' = laneCount + 1

\* One round of the loop.
Assign(i, l) ==
  /\ i = done + 1 /\ done' = i
  /\ Reuse(l, i) \/ Grow(l, i)
  /\ laneEnds' = Taken(l, i) /\ lane' = [lane EXCEPT ![i] = l]
  /\ UNCHANGED spans

Next == \E i \in Index, l \in Lanes : Assign(i, l)

Spec == Init /\ [][Next]_vars

----------------------------------------------------------------------------
(* The bars.  The page computes with percentages; here the chart is Whole wide, so that one
   percent is 2 * Total and half a percent Total.  (A bar is also at least 2 pixels wide; that
   the chart is wider than 400 is taken for granted.) *)

\* What a bar of no length is given to end after it starts.
Stop(i) == IF spans[i].length = 0 THEN Start(i) + 1 ELSE End(i)

\* timelineData: the earliest start and the latest end.
From  == CHOOSE t \in {Start(i) : i \in Index} : \A i \in Index : t <= Start(i)
Until == CHOOSE t \in {Stop(i) : i \in Index} : \A i \in Index : Stop(i) <= t
Total == Until - From
Whole == 200 * Total

\* At least half a percent; the bar is moved to the left if it would stick out.
Width(i) == IF 200 * spans[i].length < Total THEN Total ELSE 200 * spans[i].length
Left(i)  ==
  LET rawLeft == 200 * (Start(i) - From)
  IN IF rawLeft <= Whole - Width(i) THEN rawLeft ELSE Whole - Width(i)

\* In pixels: a lane is 24 high, its bars 20.
Top(i)  == 4 + lane[i] * 24
Height  == laneCount * 24 + 8

----------------------------------------------------------------------------
(* Properties *)

\* Two spans in one lane do not overlap in time, in whatever order processing lists them:
\* one has ended when the next one in the list starts.  That is about the times of the spans;
\* two of no length at one instant share a lane, and so may two that touch.
NoOverlap ==
  \A i, j \in 1 .. done : i < j /\ lane[i] = lane[j] => End(i) <= Start(j)

InOrder == \A i, j \in Index : i < j => Start(i) <= Start(j)

\* If the list is in the order of the starts, there are no more lanes than spans that ran
\* at one time: as the last lane was opened, a span was running in each of the others.
\* (Otherwise spans that ran one after another may get lanes of their own.)
LanesNeeded ==
  InOrder /\ laneCount > 0 =>
    \E k \in 1 .. done : \A l \in 0 .. laneCount - 1 : \E i \in 1 .. k :
      lane[i] = l /\ Start(i) <= Start(k) /\ (Start(k) < End(i) \/ i = k)

\* Every bar lies within the chart: neither the order of the list, nor spans of no length,
\* nor the least width make one stick out.
BarsFit ==
  /\ \A i \in Index : Left(i) >= 0 /\ Left(i) + Width(i) <= Whole
  /\ \A i \in 1 .. done : Top(i) + 20 <= Height

\* A bar that is as wide as its span was long, not widened to the least width.
ToScale(i) == 200 * spans[i].length >= Total

\* What the least width and the shift to the left leave of NoOverlap on the screen: the bars
\* of a lane are drawn in the order of the list, one covers at most half a percent of the
\* chart of a later one, and none of it if both are to scale.  Two bars of the least width
\* may still coincide, and only one of them is then seen: half a percent is all they have.
BarsApart ==
  \A i, j \in 1 .. done :
    i < j /\ lane[i] = lane[j] =>
      /\ Left(i) <= Left(j) /\ Left(i) + Width(i) <= Left(j) + Total
      /\ ToScale(i) /\ ToScale(j) => Left(i) + Width(i) <= Left(j)
=============================================================================
