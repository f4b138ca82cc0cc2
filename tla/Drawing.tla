------------------------------ MODULE Drawing ------------------------------
(***************************************************************************)
(* The drawing of the results in the Java shell (mpeshell, package         *)
(* opendraw), on top of the report watch that feeds it. DrawModel has no   *)
(* lock and three threads: the event dispatch thread resets it when Run is *)
(* pressed and paints it, the thread of the benchmark sets it up for the   *)
(* session, and the monitor thread adds a point for each row of the report *)
(* and fits the scale to it.                                               *)
(*                                                                         *)
(* Rows have values that fall from row to row. Scales are scaled down.     *)
(***************************************************************************)
EXTENDS ReportWatch

CONSTANTS
  Capacities,   \* what rescaleXmax may be called with: lengths of the array of points
  Followed,     \* bound: the delays with which the drawing is followed; with others
                \* only the watch is
  ScaleBase,    \* BIG_SCALE_BASE
  ScaleDelta    \* BIG_SCALE_DELTA

ASSUME DrawingAssumption ==
  /\ Capacities \subseteq Nat \ {0} /\ Capacities # {}
  /\ Followed \subseteq DelaySets
  /\ ScaleBase \in Nat \ {0} /\ ScaleDelta \in Nat \ {0}

VARIABLES
  opening,   \* a press of Run on its way to runBenchmark
  capacity,  \* DrawModel.maxCount
  curve,     \* the points of DrawModel.function below currentCount
  scale,     \* DrawModel.scaleValue
  adding,    \* where each monitor thread is with the point of its last line
  pending,   \* a repaint has been asked for
  painting,  \* the scale a paint() has begun with, 0 if none is running
  frame      \* what the last paint() has drawn

drawVars == <<opening, capacity, curve, scale, adding, pending, painting, frame>>
vars     == <<watchVars, drawVars>>

Blank == [curve |-> <<>>, scale |-> ScaleBase]

DrawingInit ==
  /\ WatchInit
  /\ opening = IF delays \in Followed THEN "no" ELSE "unseen"
  /\ capacity = 1 /\ curve = <<>> /\ scale = ScaleBase
  /\ adding = [s \in Session |-> "no"]
  /\ pending = FALSE /\ painting = 0 /\ frame = Blank

-----------------------------------------------------------------------------
(* The start of a session.                                                 *)

\* ButtonRun: DrawController.reset() resets the model and asks for a repaint. The
\* length it gives the array is replaced before there is a point.
PressRun ==
  /\ client = "idle" /\ opening = "no" /\ session < MaxSessions /\ painting = 0
  /\ curve' = <<>> /\ scale' = ScaleBase
  /\ pending' = TRUE
  /\ opening' = "pressed"
  /\ UNCHANGED <<watchVars, capacity, adding, painting, frame>>

\* extractParmsFromGui, which resets the model again and sets the length of its
\* array, and startModel. A paint() in between sees the same empty curve.
OpenDrawing ==
  /\ opening = "pressed"
  /\ capacity' \in Capacities
  /\ curve' = <<>> /\ scale' = ScaleBase
  /\ opening' = "open"
  /\ UNCHANGED <<watchVars, adding, pending, painting, frame>>

StartSession ==
  /\ AddFile
  /\ \/ opening = "open" /\ opening' = "no"
     \/ opening = "unseen" /\ UNCHANGED opening
  /\ UNCHANGED <<capacity, curve, scale, adding, pending, painting, frame>>

-----------------------------------------------------------------------------
(* The monitor thread, in dataHandler.                                     *)

\* A line is recognized as a row if it was whole when it was read. Its value is
\* NumericEntry's bandwidth or latency.
IsRow(line) == line.whole
Value(line) == Parts + 1 - line.number

ShowLine(s) ==
  /\ adding[s] = "no"
  /\ MonitorStep(s)
  /\ adding' = IF opening # "unseen" /\ \E d \in Session : shown'[d] # shown[d] /\ IsRow(Last(shown'[d]))
               THEN [adding EXCEPT ![s] = "point"] ELSE adding
  /\ UNCHANGED <<opening, capacity, curve, scale, pending, painting, frame>>

At(s, from, to) == adding[s] = from /\ adding' = [adding EXCEPT ![s] = to]

\* Mutant: a point too many is taken.
UpdateValueOver(s) ==
  /\ At(s, "point", "scale")
  /\ curve' = IF Len(curve) <= capacity
              THEN Append(curve, Value(Last(shown[monitor[s].d]))) ELSE curve
  /\ UNCHANGED <<watchVars, opening, capacity, scale, pending, painting, frame>>

\* updateValue: beyond the length of the array a point is dropped.
UpdateValue(s) ==
  /\ At(s, "point", "scale")
  /\ curve' = IF Len(curve) < capacity
              THEN Append(curve, Value(Last(shown[monitor[s].d]))) ELSE curve
  /\ UNCHANGED <<watchVars, opening, capacity, scale, pending, painting, frame>>

\* The least multiple of the delta that is not below any point.
Fitted(c) ==
  Min({n \in {ScaleDelta * i : i \in 1..Parts} : \A i \in DOMAIN c : n >= c[i]})

RescaleY(s) ==
  /\ At(s, "scale", "repaint")
  /\ scale' = Fitted(curve)
  /\ UNCHANGED <<watchVars, opening, capacity, curve, pending, painting, frame>>

Repaint(s) ==
  /\ At(s, "repaint", "no")
  /\ pending' = TRUE
  /\ UNCHANGED <<watchVars, opening, capacity, curve, scale, painting, frame>>

AddPoint(s) == UpdateValue(s) \/ RescaleY(s) \/ Repaint(s)

-----------------------------------------------------------------------------
(* paint(), on the event dispatch thread: it draws the axis with the scale, *)
(* and later looks at the points.                                          *)

PaintAxis ==
  /\ pending /\ painting = 0
  /\ pending' = FALSE
  /\ painting' = scale
  /\ UNCHANGED <<watchVars, opening, capacity, curve, scale, adding, frame>>

\* Mutant: requests that came during the paint are taken as done.
PaintPointsClears ==
  /\ painting # 0
  /\ frame' = [curve |-> curve, scale |-> painting]
  /\ painting' = 0 /\ pending' = FALSE
  /\ UNCHANGED <<watchVars, opening, capacity, curve, scale, adding>>

PaintPoints ==
  /\ painting # 0
  /\ frame' = [curve |-> curve, scale |-> painting]
  /\ painting' = 0
  /\ UNCHANGED <<watchVars, opening, capacity, curve, scale, adding, pending>>

Paint == PaintAxis \/ PaintPoints

-----------------------------------------------------------------------------
MonitorThread(s) == ShowLine(s) \/ AddPoint(s)
Watched == ClientStep \/ ChildTruncates \/ ChildWrites \/ ChildEnds
Open    == OpenDrawing \/ (opening = "open" /\ StartSession)

DrawingNext ==
  \/ PressRun \/ OpenDrawing \/ StartSession \/ Paint
  \/ Watched /\ UNCHANGED drawVars
  \/ \E s \in Session : MonitorThread(s)
  \/ AllOver /\ ~pending /\ painting = 0 /\ UNCHANGED vars

\* As for the watch; the event dispatch thread and a started thread of the benchmark
\* run too.
DrawingSpec ==
  /\ DrawingInit /\ [][DrawingNext]_vars
  /\ WF_vars(ClientStep /\ UNCHANGED drawVars) /\ WF_vars(ChildEnds /\ UNCHANGED drawVars)
  /\ WF_vars(Open) /\ WF_vars(Paint)
  /\ \A s \in Session : WF_vars(MonitorThread(s))

-----------------------------------------------------------------------------
Quiescent == opening = "no" /\ \A s \in Session : adding[s] = "no"

\* The curve has one point for each row that the session has shown, in order, as far
\* as the array is long, and none of the session before: the point of a row is where
\* the number of rows up to it says.
CurveIsReport ==
  (Quiescent /\ "start" \notin delays /\ session > 0) =>
    LET log     == shown[session]
        rows    == {k \in DOMAIN log : IsRow(log[k])}
        rank(k) == Cardinality({j \in rows : j <= k})
    IN  /\ Len(curve) = Min({Cardinality(rows), capacity})
        /\ \A k \in rows : rank(k) <= capacity => curve[rank(k)] = Value(log[k])

\* However the paint() and the updates of the model mix, the picture that stays on
\* the screen shows all the points of the model, under a scale that covers them. (A
\* picture without points may have the X axis of the length before.)
FrameIsCurrent ==
  (Quiescent /\ ~pending /\ painting = 0) =>
    /\ frame = [curve |-> curve, scale |-> scale]
    /\ \A i \in DOMAIN curve : frame.curve[i] <= frame.scale
=============================================================================
