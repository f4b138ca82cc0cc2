---------------------------- MODULE ShellSession ---------------------------
(***************************************************************************)
(* Run, Stop and exit in the Java shell (mpeshell): the event dispatch     *)
(* thread, the thread each press of Run creates, the child process, and    *)
(* TaskMonitor's unpacked files. The threads share, without a lock, the    *)
(* state of the buttons, the window's default close operation and          *)
(* TaskMonitor.process. Module ReportWatch has the part of runBenchmark    *)
(* that is about the report; here it is a stretch that comes to an end.    *)
(***************************************************************************)
EXTENDS Naturals, FiniteSets

CONSTANTS
  MaxSessions,  \* bound: presses of Run
  DeleteTries,  \* passes of deleteBinaries (50 in the code)
  DelaySets,    \* the combinations of AnyDelay that are considered
  SpareCounts   \* how far the second unpacking, that of ActionInit, may get

\* "press": the user's next event may come before the new thread has changed the
\*          buttons and the close operation.
\* "alive": the child may be over before executeTask first sees it alive.
\* "lock":  a file may be in use by another program when it is deleted.
\* "close": a session may end between windowClosing, which does nothing then, and
\*          the frame's look at its close operation.
AnyDelay == {"press", "alive", "lock", "close"}

ASSUME ShellAssumption ==
  /\ MaxSessions \in Nat /\ DeleteTries \in Nat \ {0}
  /\ DelaySets \subseteq SUBSET AnyDelay /\ SpareCounts \subseteq 0..5

VARIABLES
  delays,    \* what the environment may do in this behaviour
  app,       \* "open", or "exited" after System.exit
  edt,       \* what the event dispatch thread is in the middle of
  tries,     \* n, the passes deleteBinaries has left
  result,    \* the flag of the OpStatus of closeSession
  closeOp,   \* the frame's default close operation
  runStop,   \* ButtonRun.runStop; FALSE also means that the buttons are disabled
  session,   \* where the thread of each press of Run stands
  asked,     \* history: the sessions during which Stop was pressed
  process,   \* TaskMonitor.process: 0 for null, or the session whose child it is
  child,     \* the child process of each session
  disk,      \* the files of taskShell's temporary directory, and the directory
  refs,      \* the File fields of its TaskMonitor that are not null
  unpacked,  \* how many steps of its unpackBinaries succeeded
  spare      \* the same of ActionInit's temporary directory

closeVars == <<app, edt, tries, result>>
runVars   == <<closeOp, runStop, session, asked, process, child>>
files     == <<delays, disk, refs, unpacked, spare>>
shellVars == <<closeVars, runVars, files>>

Session  == 1..MaxSessions
Idle     == <<"idle", "none">>
Unpacking == <<"dir", "exe32", "lib32", "exe64", "lib64">>
First(n) == {Unpacking[k] : k \in 1..n}
FieldsAfter(n) == First(n) \cup (IF n = 5 THEN {"txt"} ELSE {})

\* unpackBinaries creates the directory and one file after another. The file at which it
\* fails stays on the disk or not, but not in its field. The shell shows an error message,
\* and goes on. It is called twice, for taskShell and for the ActionInit that runs a child
\* before the window is shown, which may leave a report in its own directory.
ShellInit ==
  /\ delays \in DelaySets
  /\ app = "open" /\ edt = Idle /\ tries = 0 /\ result = TRUE
  /\ closeOp = "exit" /\ runStop = TRUE
  /\ session = [s \in Session |-> "off"]
  /\ asked = {} /\ process = 0 /\ child = [s \in Session |-> "none"]
  /\ unpacked \in 0..5
  /\ refs = FieldsAfter(unpacked)
  /\ \/ disk = First(unpacked)
     \/ unpacked \in 1..4 /\ disk = First(unpacked + 1)
  /\ \E n \in SpareCounts : spare \in {First(n), FieldsAfter(n)}

-----------------------------------------------------------------------------
(* The event dispatch thread.                                               *)

Changing(s) == session[s] \in {"disableClose", "disableButtons"}
\* The user acts on what the window shows.
UserActs == /\ app = "open" /\ edt = Idle
            /\ "press" \in delays \/ \A s \in Session : ~Changing(s)

PressRun(s) ==
  /\ UserActs /\ runStop
  /\ session[s] = "off" /\ \A r \in 1..(s - 1) : session[r] # "off"
  /\ session' = [session EXCEPT ![s] = "disableClose"]
  /\ UNCHANGED <<closeVars, closeOp, runStop, asked, process, child, files>>

Active == {s \in Session : session[s] \notin {"off", "done", "died"}}

\* interruptTask: on null an exception, which leaves everything as it is.
PressStop ==
  /\ UserActs /\ ~runStop
  /\ IF process # 0 /\ child[process] = "running"
       THEN child' = [child EXCEPT ![process] = "dying"] ELSE UNCHANGED child
  /\ asked' = asked \cup Active
  /\ UNCHANGED <<closeVars, closeOp, runStop, session, process, files>>

\* Mutant: the listener does not look at the close operation.
WindowClosingUnchecked(kind) ==
  /\ UserActs /\ (kind = "cancel" => runStop)
  /\ edt' = <<"delete", kind>>
  /\ tries' = DeleteTries /\ result' = FALSE
  /\ UNCHANGED <<app, runVars, files>>

\* Closing the window calls the listener, windowClosing, and then lets the frame act
\* on its default close operation. Cancel calls the listener and exits.
WindowClosing(kind) ==
  /\ UserActs /\ (kind = "cancel" => runStop)
  /\ \/ closeOp = "exit" /\ edt' = <<"delete", kind>>
     \/ /\ closeOp # "exit" /\ edt' = <<"after", kind>>
        /\ kind = "cancel" \/ "close" \in delays
  /\ tries' = DeleteTries
  /\ result' = (closeOp # "exit")
  /\ UNCHANGED <<app, runVars, files>>

IsAlive(p) == child[p] \in {"running", "dying"}
Images == {{"exe32", "lib32"}, {"exe64", "lib64"}}
\* The files that cannot be deleted: those of a running child, of either width.
Locks == IF "lock" \in delays THEN SUBSET disk
         ELSE IF \E s \in Session : IsAlive(s) THEN Images ELSE {{}}

\* One pass of deleteBinaries, where the files in `locked' cannot be deleted. Every
\* field is null afterwards. The result of txt replaces the one of lib64.
DeletePass(kind) ==
  /\ edt = <<"delete", kind>> /\ ~result /\ tries > 0
  /\ \E locked \in Locks :
       LET gone == ((refs \cap disk) \ locked) \ {"dir"}
           left == disk \ gone
           dirGone == "dir" \in refs \ locked /\ left = {"dir"}
           lib64OK == "txt" \in refs \/ "lib64" \notin refs \/ "lib64" \in gone
       IN  /\ disk' = IF dirGone THEN {} ELSE left
           /\ result' = (/\ (refs \ {"lib64", "dir"}) \subseteq gone /\ lib64OK
                         /\ "dir" \in refs => dirGone)
  /\ refs' = {} /\ tries' = tries - 1
  /\ UNCHANGED <<app, edt, runVars, delays, unpacked, spare>>

\* The end of closeSession; on a failure windowClosing shows a message.
DeleteEnd(kind) ==
  /\ edt = <<"delete", kind>> /\ (result \/ tries = 0)
  /\ edt' = <<"after", kind>>
  /\ UNCHANGED <<app, tries, result, runVars, files>>

AfterClosing(kind) ==
  /\ edt = <<"after", kind>>
  /\ edt' = Idle
  /\ app' = IF kind = "cancel" \/ closeOp = "exit" THEN "exited" ELSE app
  /\ UNCHANGED <<tries, result, runVars, files>>

Closing(kind) == DeletePass(kind) \/ DeleteEnd(kind) \/ AfterClosing(kind)

-----------------------------------------------------------------------------
(* The thread of a press of Run: BenchmarkAction.run and executeTask.       *)

Step(s, from, to) ==
  /\ app = "open"
  /\ session[s] = from /\ session' = [session EXCEPT ![s] = to]

\* Mutant: it leaves the close operation alone.
DisableCloseForgotten(s) ==
  /\ Step(s, "disableClose", "disableButtons")
  /\ UNCHANGED <<closeVars, closeOp, runStop, asked, process, child, files>>

\* disableGuiBeforeRun changes the close operation first, then the buttons.
DisableClose(s) ==
  /\ Step(s, "disableClose", "disableButtons")
  /\ closeOp' = "nothing"
  /\ UNCHANGED <<closeVars, runStop, asked, process, child, files>>

DisableButtons(s) ==
  /\ Step(s, "disableButtons", "exec")
  /\ runStop' = FALSE
  /\ UNCHANGED <<closeVars, closeOp, asked, process, child, files>>

\* executeTask for either width. Without the File, or when exec fails, it returns.
Execute(s) ==
  /\ \E exe \in {"exe32", "exe64"} :
       \/ /\ exe \notin refs /\ Step(s, "exec", "enableClose")
          /\ UNCHANGED <<process, child>>
       \/ /\ exe \in refs /\ Step(s, "exec", "enableClose")
          /\ process' = 0 /\ UNCHANGED child
       \/ /\ exe \in refs /\ exe \in disk /\ Step(s, "exec", "waitAlive")
          /\ process' = s /\ child' = [child EXCEPT ![s] = "running"]
  /\ UNCHANGED <<closeVars, closeOp, runStop, asked, files>>

\* The two loops ask `process', not a variable of their own. null ends the thread.
AwaitAlive(s) ==
  /\ \/ process # 0 /\ IsAlive(process) /\ Step(s, "waitAlive", "waitExit")
     \/ process = 0 /\ Step(s, "waitAlive", "died")
  /\ UNCHANGED <<closeVars, closeOp, runStop, asked, process, child, files>>

\* Mutant: no second loop.
AwaitExitEarly(s) ==
  /\ process # 0 /\ Step(s, "waitExit", "enableClose")
  /\ UNCHANGED <<closeVars, closeOp, runStop, asked, process, child, files>>

AwaitExit(s) ==
  /\ \/ process # 0 /\ ~IsAlive(process) /\ Step(s, "waitExit", "enableClose")
     \/ process = 0 /\ Step(s, "waitExit", "died")
  /\ UNCHANGED <<closeVars, closeOp, runStop, asked, process, child, files>>

\* enableGuiAfterRun.
EnableClose(s) ==
  /\ Step(s, "enableClose", "enableButtons")
  /\ closeOp' = "exit"
  /\ UNCHANGED <<closeVars, runStop, asked, process, child, files>>

\* Mutant: the button stays "Stop".
EnableButtonsForgotten(s) ==
  /\ Step(s, "enableButtons", "done")
  /\ UNCHANGED <<closeVars, closeOp, runStop, asked, process, child, files>>

EnableButtons(s) ==
  /\ Step(s, "enableButtons", "done")
  /\ runStop' = TRUE
  /\ UNCHANGED <<closeVars, closeOp, asked, process, child, files>>

Thread(s) == DisableClose(s) \/ DisableButtons(s) \/ Execute(s) \/ AwaitAlive(s)
             \/ AwaitExit(s) \/ EnableClose(s) \/ EnableButtons(s)

-----------------------------------------------------------------------------
(* The child processes. They outlive the shell.                             *)

ChildReports(s) ==
  /\ child[s] = "running" /\ "dir" \in disk
  /\ disk' = disk \cup {"txt"}
  /\ UNCHANGED <<closeVars, runVars, delays, refs, unpacked, spare>>

ChildEnds(s) ==
  /\ IsAlive(s)
  /\ "alive" \in delays \/ process # s \/ \A r \in Session : session[r] # "waitAlive"
  /\ child' = [child EXCEPT ![s] = "over"]
  /\ UNCHANGED <<closeVars, closeOp, runStop, session, asked, process, files>>

Rest == app = "exited" /\ UNCHANGED shellVars

ShellNext ==
  \/ \E s \in Session : PressRun(s) \/ Thread(s) \/ ChildReports(s) \/ ChildEnds(s)
  \/ PressStop
  \/ \E kind \in {"window", "cancel"} : WindowClosing(kind) \/ Closing(kind)
  \/ Rest

\* Java's threads run and a child comes to its end; the user need not do anything.
ShellSpec ==
  /\ ShellInit /\ [][ShellNext]_shellVars
  /\ \A s \in Session : WF_shellVars(Thread(s)) /\ WF_shellVars(ChildEnds(s))
  /\ \A kind \in {"window", "cancel"} : WF_shellVars(Closing(kind))

-----------------------------------------------------------------------------
(* Properties.                                                              *)

\* disableGuiBeforeRun (MpeGui.java:347, "used BEFORE run benchmarking process"):
\* with the buttons disabled in time, two benchmarks never run at once, which would
\* spoil the measurements and write one report file; and executeTask waits for the child
\* it has started, although it asks a field that other threads write.
OneChild ==
  "press" \notin delays =>
    /\ Cardinality({s \in Session : IsAlive(s)}) <= 1
    /\ \A s \in Session : session[s] \in {"waitAlive", "waitExit"} => process = s

\* A window that stays open keeps the unpacked binaries: whenever the listener has
\* deleted them, the application really ends.
OpenKeepsFiles ==
  "press" \notin delays /\ app = "open" /\ edt = Idle => refs = FieldsAfter(unpacked)

\* Leaving the shell leaves no benchmark running. Of the two temporary directories it
\* deletes its own, with all that is in it, if everything could be unpacked; but not that
\* of ActionInit, of which it knows nothing: TaskMonitor.java:67 and 139 say that binaries
\* are unpacked once and deleted once in a session, and they are unpacked twice.
LeftFiles == ({"taskShell"} \X disk) \cup ({"ActionInit"} \X spare)
ExitLeavesSpare ==
  delays \subseteq {"alive"} /\ app = "exited" =>
    /\ \A s \in Session : ~IsAlive(s)
    /\ unpacked = 5 => LeftFiles = {"ActionInit"} \X spare

\* enableGuiAfterRun (MpeGui.java:356, "used AFTER run benchmarking process"): the
\* Stop button always becomes Run again, unless the user leaves the shell; also when
\* presses overlap and a thread dies because another one's exec has failed. But a
\* child that is over before it is seen alive is waited for without end.
SessionReturns == "alive" \notin delays => (~runStop ~> (runStop \/ app = "exited"))

\* interruptTask (TaskMonitor.java:260, "interrupt runned native benchmark
\* application"): no child runs on after Stop was pressed in its session.
StopReachesChild == \A s \in asked : child[s] # "running"
=============================================================================
