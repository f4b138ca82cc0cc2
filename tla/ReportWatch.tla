---------------------------- MODULE ReportWatch ----------------------------
(***************************************************************************)
(* How the Java shell shows the report of a running benchmark (mpeshell,   *)
(* package taskmonitor). The child process appends parts of lines to a     *)
(* file; DirectoryMonitor polls a WatchService in a thread of its own;     *)
(* ReportFileListener reads the whole file again at every event; and       *)
(* ReportToGuiListener shows the lines after the ones it has shown.        *)
(* ActionRun.runBenchmark starts and stops all this, once per session, on  *)
(* the thread of the benchmark. `alive' and the two lists of listeners are *)
(* shared by the two threads without a lock.                               *)
(***************************************************************************)
EXTENDS Naturals, FiniteSets, SequencesExt

CONSTANTS
  MaxSessions,  \* bound: sessions run one after another with one monitor object
  Parts,        \* bound: parts a child writes to the report, one fprintf each
  LineEnds,     \* the parts that end with a new line
  ExtraWait,    \* polls after the stop (10 in the code)
  DelaySets     \* the combinations of AnyDelay that are considered

\* "start":  the monitor thread may start to run after the child does.
\* "events": events may take longer than the 100 ms executeTask waits for them.
\* "read":   reading the report may fail in the middle.
\* "register": registering the directory may fail.
AnyDelay == {"start", "events", "read", "register"}

ASSUME WatchAssumption ==
  /\ MaxSessions \in Nat /\ Parts \in Nat /\ ExtraWait \in Nat \ {0}
  /\ LineEnds \subseteq 1..Parts
  /\ DelaySets \subseteq SUBSET AnyDelay

VARIABLES
  delays,    \* what may be late or fail in this behaviour
  session,   \* the number of the current session, 0 before the first
  client,    \* where runBenchmark stands
  child,     \* the last child process: "none", "running" or "over"
  file,      \* the report on disk: who wrote it, and how many parts
  alive,     \* DirectoryMonitor.alive
  flst, dlst,\* DirectoryMonitor.flst and .dlst: listeners, named by their session
  monitor,   \* the monitor thread of each session
  event,     \* whether the watch key of each monitor holds events
  report,    \* ReportFileListener.report of each session
  previous,  \* ReportToGuiListener.previous of each session
  shown      \* the lines each ReportToGuiListener has appended to the log

clientVars == <<delays, session, client, child>>
guiVars    == <<report, previous, shown>>
watchVars  == <<delays, session, client, child, file, alive, flst, dlst, monitor, event,
                report, previous, shown>>

Session == 1..MaxSessions

\* A line is named by its writer, its number, and whether it was whole when it was
\* read: readLine also returns a last line that has no end yet.
LinesOf(f) ==
  LET ended == Cardinality(LineEnds \cap 1..f.parts)
      begun == IF f.parts \in LineEnds \cup {0} THEN 0 ELSE 1
  IN  [k \in 1..(ended + begun) |-> [by |-> f.by, number |-> k, whole |-> k <= ended]]

Idle == [pc |-> "none", extra |-> 0, i |-> 0, fcount |-> 0, j |-> 0, dcount |-> 0,
         f |-> 0, d |-> 0, at |-> 0, n |-> 0]
Over == {"ended", "died"}
IsAlive(s) == monitor[s].pc \notin {"none"} \cup Over
Watching(s) == IsAlive(s) /\ monitor[s].pc \notin {"start", "register"}

WatchInit ==
  /\ delays \in DelaySets
  /\ session = 0 /\ client = "idle" /\ child = "none"
  /\ file = [by |-> 0, parts |-> 0]
  /\ alive = FALSE /\ flst = <<>> /\ dlst = <<>>
  /\ monitor = [s \in Session |-> Idle]
  /\ event = [s \in Session |-> FALSE]
  /\ report = [s \in Session |-> <<>>]
  /\ previous = [s \in Session |-> 0]
  /\ shown = [s \in Session |-> <<>>]

-----------------------------------------------------------------------------
(* The child process. Each fopen, fprintf and fclose is one event for the   *)
(* directory; events that wait in a key are handled like one.               *)

Notify == event' = [s \in Session |-> event[s] \/ Watching(s)]

\* A session's child starts with an empty report.
ChildTruncates ==
  /\ child = "running" /\ file.by # session
  /\ file' = [by |-> session, parts |-> 0] /\ Notify
  /\ UNCHANGED <<clientVars, alive, flst, dlst, monitor, guiVars>>

ChildWrites ==
  /\ child = "running" /\ file.by = session /\ file.parts < Parts
  /\ file' = [file EXCEPT !.parts = @ + 1] /\ Notify
  /\ UNCHANGED <<clientVars, alive, flst, dlst, monitor, guiVars>>

\* It ends after its last part, or earlier: by an error, or by interruptTask.
ChildEnds ==
  /\ child = "running" /\ child' = "over"
  /\ UNCHANGED <<delays, session, client, file, alive, flst, dlst, monitor, event, guiVars>>

-----------------------------------------------------------------------------
(* The thread of the benchmark: runBenchmark and monitorStop.               *)

Goto(from, to) == client = from /\ client' = to

AddFile ==
  /\ Goto("idle", "addData") /\ session < MaxSessions
  /\ session' = session + 1
  /\ flst' = Append(flst, session')
  /\ UNCHANGED <<delays, child, file, alive, dlst, monitor, event, guiVars>>

AddData ==
  /\ Goto("addData", "start")
  /\ dlst' = Append(dlst, session)
  /\ UNCHANGED <<delays, session, child, file, alive, flst, monitor, event, guiVars>>

\* monitorStartBackground: returns at once.
StartMonitor ==
  /\ Goto("start", "exec")
  /\ monitor' = [monitor EXCEPT ![session].pc = "start"]
  /\ UNCHANGED <<delays, session, child, file, alive, flst, dlst, event, guiVars>>

Execute ==
  /\ client = "exec"
  /\ "start" \in delays \/ monitor[session].pc \notin {"start", "register"}
  /\ \/ Goto("exec", "wait") /\ child' = "running"
     \/ Goto("exec", "removeFile") /\ UNCHANGED child
  /\ UNCHANGED <<delays, session, file, alive, flst, dlst, monitor, event, guiVars>>

AwaitChild ==
  /\ Goto("wait", "removeFile") /\ child = "over"
  /\ UNCHANGED <<delays, session, child, file, alive, flst, dlst, monitor, event, guiVars>>

Quiet(s) == ~event[s] /\ (Watching(s) => monitor[s].pc \in {"top", "poll"})

RemoveFile ==
  /\ Goto("removeFile", "removeData")
  /\ "events" \in delays \/ Quiet(session)
  /\ flst' = RemoveFirst(flst, session)
  /\ UNCHANGED <<delays, session, child, file, alive, dlst, monitor, event, guiVars>>

RemoveData ==
  /\ Goto("removeData", "clear")
  /\ dlst' = RemoveFirst(dlst, session)
  /\ UNCHANGED <<delays, session, child, file, alive, flst, monitor, event, guiVars>>

\* Mutant: the flag is not cleared.
ClearAliveForgotten ==
  /\ Goto("clear", "join")
  /\ UNCHANGED <<delays, session, child, file, alive, flst, dlst, monitor, event, guiVars>>

\* monitorStop, first half.
ClearAlive ==
  /\ Goto("clear", "join")
  /\ alive' = FALSE
  /\ UNCHANGED <<delays, session, child, file, flst, dlst, monitor, event, guiVars>>

\* Mutant: no wait for the thread.
JoinNoWait ==
  /\ Goto("join", "idle")
  /\ UNCHANGED <<delays, session, child, file, alive, flst, dlst, monitor, event, guiVars>>

\* Mutant: waits without a limit.
JoinForever ==
  /\ Goto("join", "idle") /\ ~IsAlive(session)
  /\ UNCHANGED <<delays, session, child, file, alive, flst, dlst, monitor, event, guiVars>>

\* monitorStop, second half: 500 waits of 20 ms, far more than the ExtraWait waits
\* of 20 ms of a monitor that has seen the flag. It gives up on one that
\* sets the flag after it was cleared.
Join ==
  /\ Goto("join", "idle")
  /\ IsAlive(session) => alive
  /\ UNCHANGED <<delays, session, child, file, alive, flst, dlst, monitor, event, guiVars>>

ClientStep == AddData \/ StartMonitor \/ Execute \/ AwaitChild \/ RemoveFile
              \/ RemoveData \/ ClearAlive \/ Join

-----------------------------------------------------------------------------
(* A monitor thread: monitorStart, calling both listeners.                  *)

\* The thread of session s is at `from'; its locals become r.
Monitor(s, from, r) == monitor[s].pc = from /\ monitor' = [monitor EXCEPT ![s] = r]
To(s, pc) == [monitor[s] EXCEPT !.pc = pc]
\* A list is indexed past its end: IndexOutOfBoundsException ends the thread.
Die(s, from) == Monitor(s, from, To(s, "died"))

MonitorBegin(s) ==
  /\ Monitor(s, "start", To(s, "register"))
  /\ alive' = TRUE
  /\ UNCHANGED <<clientVars, file, flst, dlst, event, guiVars>>

MonitorRegister(s) ==
  /\ \/ Monitor(s, "register", [To(s, "top") EXCEPT !.extra = ExtraWait])
     \/ "register" \in delays /\ Monitor(s, "register", To(s, "ended"))
  /\ UNCHANGED <<clientVars, file, alive, flst, dlst, event, guiVars>>

\* The head of the loop: counts the extra waits once the flag is cleared.
MonitorTop(s) ==
  /\ LET extra == monitor[s].extra IN
       IF extra = 0 THEN Monitor(s, "top", To(s, "ended"))
       ELSE Monitor(s, "top", [To(s, "poll") EXCEPT
                                 !.extra = IF alive THEN extra ELSE extra - 1])
  /\ UNCHANGED <<clientVars, file, alive, flst, dlst, event, guiVars>>

MonitorPoll(s) ==
  /\ IF event[s]
       THEN Monitor(s, "poll", [To(s, "files") EXCEPT !.i = 1, !.fcount = Len(flst)])
       ELSE Monitor(s, "poll", To(s, "top"))
  /\ event' = [event EXCEPT ![s] = FALSE]
  /\ UNCHANGED <<clientVars, file, alive, flst, dlst, guiVars>>

\* Mutant: they are dropped.
MonitorResetDrops(s) ==
  /\ monitor[s].i > monitor[s].fcount /\ Monitor(s, "files", To(s, "top"))
  /\ event' = [event EXCEPT ![s] = FALSE]
  /\ UNCHANGED <<clientVars, file, alive, flst, dlst, guiVars>>

\* All listeners were called: key.reset(). Events that came meanwhile stay.
MonitorReset(s) ==
  /\ monitor[s].i > monitor[s].fcount /\ Monitor(s, "files", To(s, "top"))
  /\ UNCHANGED <<clientVars, file, alive, flst, dlst, event, guiVars>>

\* fileHandler of the i-th listener: clears the list and reads the file again.
\* A failing read leaves the old list, or what was read so far.
MonitorFile(s) ==
  /\ monitor[s].i <= monitor[s].fcount
  /\ LET m == monitor[s] IN
       \/ m.i > Len(flst) /\ Die(s, "files") /\ UNCHANGED report
       \/ /\ m.i <= Len(flst)
          /\ Monitor(s, "files",
               [To(s, "data") EXCEPT !.j = 1, !.dcount = Len(dlst)])
          /\ LET lines == LinesOf(file) IN
               \/ report' = [report EXCEPT ![flst[m.i]] = lines]
               \/ "read" \in delays /\ UNCHANGED report
               \/ /\ "read" \in delays
                  /\ \E k \in 0..Len(lines) :
                       report' = [report EXCEPT ![flst[m.i]] = SubSeq(lines, 1, k)]
  /\ UNCHANGED <<clientVars, file, alive, flst, dlst, event, previous, shown>>

\* Looks both listeners up, and enters dataHandler: n and the first index.
MonitorData(s) ==
  /\ LET m == monitor[s] IN
       \/ m.j > m.dcount /\ Monitor(s, "data", [To(s, "files") EXCEPT !.i = m.i + 1])
       \/ m.j <= m.dcount /\ (m.i > Len(flst) \/ m.j > Len(dlst)) /\ Die(s, "data")
       \/ /\ m.j <= m.dcount /\ m.i <= Len(flst) /\ m.j <= Len(dlst)
          /\ Monitor(s, "data",
               [To(s, "line") EXCEPT !.f = flst[m.i], !.d = dlst[m.j],
                  !.at = previous[dlst[m.j]], !.n = Len(report[flst[m.i]])])
  /\ UNCHANGED <<clientVars, file, alive, flst, dlst, event, guiVars>>

\* Mutant: previous is not brought up to date.
MonitorLineForgets(s) ==
  /\ LET m == monitor[s] IN
       \/ /\ m.at < m.n /\ m.at < Len(report[m.f])
          /\ Monitor(s, "line", [m EXCEPT !.at = m.at + 1])
          /\ shown' = [shown EXCEPT ![m.d] = Append(@, report[m.f][m.at + 1])]
       \/ /\ m.at >= m.n
          /\ Monitor(s, "line", [To(s, "data") EXCEPT !.j = m.j + 1])
          /\ UNCHANGED shown
  /\ UNCHANGED <<clientVars, file, alive, flst, dlst, event, report, previous>>

\* One turn of dataHandler's loop over the new lines, or its end.
MonitorLine(s) ==
  /\ LET m == monitor[s] IN
       \/ /\ m.at < m.n /\ m.at < Len(report[m.f])
          /\ Monitor(s, "line", [m EXCEPT !.at = m.at + 1])
          /\ shown' = [shown EXCEPT ![m.d] = Append(@, report[m.f][m.at + 1])]
          /\ UNCHANGED previous
       \/ /\ m.at < m.n /\ m.at >= Len(report[m.f]) /\ Die(s, "line")
          /\ UNCHANGED <<shown, previous>>
       \/ /\ m.at >= m.n
          /\ Monitor(s, "line", [To(s, "data") EXCEPT !.j = m.j + 1])
          /\ previous' = [previous EXCEPT ![m.d] = IF @ < m.n THEN m.n ELSE @]
          /\ UNCHANGED shown
  /\ UNCHANGED <<clientVars, file, alive, flst, dlst, event, report>>

MonitorStep(s) == MonitorBegin(s) \/ MonitorRegister(s) \/ MonitorTop(s)
                  \/ MonitorPoll(s) \/ MonitorReset(s) \/ MonitorFile(s)
                  \/ MonitorData(s) \/ MonitorLine(s)

-----------------------------------------------------------------------------
\* The bound is reached and every thread has ended.
AllOver == /\ client = "idle" /\ session = MaxSessions
           /\ \A s \in Session : ~IsAlive(s)
           /\ UNCHANGED watchVars

WatchNext == AddFile \/ ClientStep \/ ChildTruncates \/ ChildWrites \/ ChildEnds
             \/ (\E s \in Session : MonitorStep(s)) \/ AllOver

\* Java's threads are scheduled, and a child comes to its end. Nobody has to start
\* another session.
WatchSpec == /\ WatchInit /\ [][WatchNext]_watchVars
             /\ WF_watchVars(ClientStep) /\ WF_watchVars(ChildEnds)
             /\ \A s \in Session : WF_watchVars(MonitorStep(s))

-----------------------------------------------------------------------------
(* Properties.                                                              *)

\* ReportToGuiListener shows the lines of its own session's report, each once, in
\* order and without a gap, whatever the moments at which the growing file is read,
\* and also when a read fails. (A line that is read before it is whole stays as it
\* was read: the rows of the result table are written in one part.)
ShownInOrder ==
  "start" \notin delays =>
    \A s \in Session : \A k \in DOMAIN shown[s] :
      shown[s][k].by = s /\ shown[s][k].number = k

\* When events arrive in the time the code waits for them, no line of the report is
\* missing at the end of a session, however the child ended.
ReportComplete ==
  delays = {} /\ client = "idle" /\ session > 0 /\ file.by = session
    => Len(shown[session]) = Len(LinesOf(file))

\* monitorStop: when a session is over its monitor thread is too. So at most one
\* monitor thread runs, which is what makes the unlocked handlers safe.
OneMonitor == "start" \notin delays => Cardinality({s \in Session : IsAlive(s)}) <= 1

\* monitorStart (DirectoryMonitor.java:31, "this method waits session termination"):
\* a monitor thread that was started ends, unless it starts so late that it undoes
\* the stop.
MonitorEnds ==
  "start" \notin delays => \A s \in Session : IsAlive(s) ~> ~IsAlive(s)

\* monitorStop returns, also when the monitor thread missed the flag.
StopReturns == client = "clear" ~> client = "idle"
=============================================================================
