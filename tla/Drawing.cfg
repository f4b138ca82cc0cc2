SPECIFICATION DrawingSpec
CONSTANTS
  MaxSessions = 2
  Parts = 3
  LineEnds = {2, 3}
  ExtraWait = 1
  DelaySets = {{}, {"start"}, {"events", "register"}, {"read"}}
  Capacities = {1, 3}
  Followed = {{}}
  ScaleBase = 10
  ScaleDelta = 1
INVARIANTS ReportComplete ShownInOrder OneMonitor CurveIsReport FrameIsCurrent
PROPERTIES MonitorEnds StopReturns
