------------------------ MODULE ShellSessionProofs ------------------------
(***************************************************************************)
(* Proofs about ShellSession, for every number of presses of Run, every    *)
(* number of passes of the deletion and every outcome of the unpacking:    *)
(* what the buttons and the close operation keep the user from doing, as   *)
(* long as the user's events come after the window has been changed.       *)
(***************************************************************************)
EXTENDS ShellSession, FiniteSetTheorems, TLAPS

-----------------------------------------------------------------------------
(* What is known of the shell when the user acts on what the window shows.  *)

Places   == {"off", "disableClose", "disableButtons", "exec", "waitAlive", "waitExit",
             "enableClose", "enableButtons", "done", "died"}
\* Between the change of the buttons and the change back.
Disabled == {"exec", "waitAlive", "waitExit", "enableClose", "enableButtons"}
\* Between the change of the close operation and the change back.
Held     == {"disableButtons", "exec", "waitAlive", "waitExit", "enableClose"}
Waiting  == {"waitAlive", "waitExit"}
Kinds    == {"window", "cancel"}
Everything == FieldsAfter(5)

ShellTypeOK ==
  /\ delays \in DelaySets /\ app \in {"open", "exited"}
  /\ edt \in {Idle} \cup ({"delete", "after"} \X Kinds)
  /\ tries \in 0..DeleteTries /\ result \in BOOLEAN
  /\ closeOp \in {"exit", "nothing"} /\ runStop \in BOOLEAN
  /\ session \in [Session -> Places] /\ asked \subseteq Session
  /\ process \in 0..MaxSessions
  /\ child \in [Session -> {"none", "running", "dying", "over"}]
  /\ disk \subseteq Everything /\ refs \subseteq Everything /\ unpacked \in 0..5

\* One press of Run is under way at a time, and the buttons and the close operation show
\* how far it is.
TurnInv ==
  /\ \A s, r \in Active : s = r
  /\ \A s \in Session : session[s] \in Disabled => ~runStop
  /\ \A s \in Session : session[s] \in Held => closeOp # "exit"
  /\ closeOp # "exit" => \E s \in Session : session[s] \in Held

\* A child lives within the waits of its own session.
ChildInv ==
  /\ \A s \in Session : session[s] \in Waiting => process = s
  /\ \A s \in Session : IsAlive(s) => session[s] \in Waiting

\* While the window is being closed no session starts. The fields are only given up when
\* the frame is going to exit.
ClosingInv ==
  /\ edt # Idle => \A s \in Session : ~Changing(s)
  /\ edt[1] = "delete" => closeOp = "exit"
  /\ app = "open" => refs = FieldsAfter(unpacked) \/ (edt # Idle /\ closeOp = "exit")

\* With the user's events in time.
TimelyInv == TurnInv /\ ChildInv /\ ClosingInv

Deleting == edt[1] = "delete"
\* The temporary directory as it was unpacked, perhaps with a report.
Unpacked == /\ disk \subseteq FieldsAfter(unpacked) /\ First(unpacked) \subseteq disk
            /\ refs = FieldsAfter(unpacked)

\* The deletion takes place when no child is left, and its first pass clears the disk.
LeavingInv ==
  /\ (Deleting /\ tries = DeleteTries) => ~result
  /\ edt[1] = "after" => closeOp = "exit"
  /\ app = "exited" => edt = Idle /\ closeOp = "exit" /\ \A s \in Session : ~IsAlive(s)
  /\ unpacked = 5 =>
       IF app = "exited" \/ edt[1] = "after" \/ (Deleting /\ tries # DeleteTries)
       THEN disk = {} ELSE Unpacked

ShellInv ==
  /\ ShellTypeOK
  /\ "press" \notin delays => TimelyInv
  /\ delays \subseteq {"alive"} => LeavingInv

-----------------------------------------------------------------------------
(* The files.                                                              *)

\* The names of the files, and that those unpacked are among them.
LEMMA Names ==
  /\ First(5) = {"dir", "exe32", "lib32", "exe64", "lib64"}
  /\ Everything = {"dir", "exe32", "lib32", "exe64", "lib64", "txt"}
  /\ \A m \in 0..5 : First(m) \subseteq First(5) /\ FieldsAfter(m) \subseteq Everything
<1>1. \A k \in 1..5 : Unpacking[k] \in {"dir", "exe32", "lib32", "exe64", "lib64"}
  BY DEF Unpacking
<1>2. /\ Unpacking[1] = "dir" /\ Unpacking[2] = "exe32" /\ Unpacking[3] = "lib32"
      /\ Unpacking[4] = "exe64" /\ Unpacking[5] = "lib64"
      /\ 1 \in 1..5 /\ 2 \in 1..5 /\ 3 \in 1..5 /\ 4 \in 1..5 /\ 5 \in 1..5
  BY DEF Unpacking
<1>3. First(5) = {"dir", "exe32", "lib32", "exe64", "lib64"}
  BY <1>1, <1>2 DEF First
<1>4. Everything = {"dir", "exe32", "lib32", "exe64", "lib64", "txt"}
  BY <1>3 DEF Everything, FieldsAfter
<1>5. ASSUME NEW m \in 0..5 PROVE First(m) \subseteq First(5)
  <2>1. \A k \in 1..m : k \in 1..5
    OBVIOUS
  <2>. QED
    BY <2>1 DEF First
<1>6. \A m \in 0..5 : FieldsAfter(m) \subseteq Everything
  BY <1>4, <1>5, <1>3 DEF FieldsAfter
<1>. QED
  BY <1>3, <1>4, <1>5, <1>6

\* Idle is neither of the other places of the event dispatch thread.
LEMMA IdleIsIdle ==
  /\ Idle[1] = "idle"
  /\ \A w \in {"delete", "after"}, kind \in Kinds : <<w, kind>> # Idle /\ <<w, kind>>[1] = w
BY DEF Idle

-----------------------------------------------------------------------------
(* Types.                                                                  *)

\* The constructor of TaskMonitor has unpacked some of the binaries.
LEMMA ShellInitial == ShellInit => ShellInv
<1>. SUFFICES ASSUME ShellInit PROVE ShellInv
  OBVIOUS
<1>. USE DEF ShellInit
<1>1. disk \subseteq Everything /\ refs \subseteq Everything /\ unpacked \in 0..5
  <2>1. unpacked < 5 => unpacked + 1 \in 0..5
    OBVIOUS
  <2>2. \A m \in 0..5 : First(m) \subseteq Everything
    BY Names
  <2>. QED
    BY <2>1, <2>2, Names
<1>2. ShellTypeOK
  BY <1>1, ShellAssumption DEF ShellTypeOK, Places
<1>3. \A s \in Session : session[s] = "off" /\ ~IsAlive(s) /\ s \notin Active
  BY DEF IsAlive, Active
<1>4. TimelyInv
  BY <1>3, IdleIsIdle
     DEF TimelyInv, TurnInv, ChildInv, ClosingInv, Disabled, Held, Waiting, Changing, Active
<1>5. LeavingInv
  <2>1. unpacked = 5 => disk = First(unpacked)
    OBVIOUS
  <2>2. unpacked = 5 => Unpacked
    BY <2>1 DEF Unpacked, FieldsAfter
  <2>. QED
    BY <2>2, IdleIsIdle DEF LeavingInv, Deleting
<1>. QED
  BY <1>2, <1>4, <1>5 DEF ShellInv

\* Every step keeps the types.
LEMMA ShellTypeStep ==
  ASSUME ShellTypeOK, [ShellNext]_shellVars
  PROVE  ShellTypeOK'
<1>. USE DEF ShellTypeOK, closeVars, runVars, files
<1>1. ASSUME NEW s \in Session, PressRun(s) PROVE ShellTypeOK'
  BY <1>1 DEF PressRun, Places
<1>2. CASE PressStop
  <2>1. Active \subseteq Session
    BY DEF Active
  <2>. QED
    BY <1>2, <2>1 DEF PressStop
<1>3. ASSUME NEW kind \in Kinds, WindowClosing(kind) PROVE ShellTypeOK'
  BY <1>3, ShellAssumption DEF WindowClosing
<1>4. ASSUME NEW kind \in Kinds, DeletePass(kind) PROVE ShellTypeOK'
  <2>1. disk' \subseteq disk /\ result' \in BOOLEAN
    BY <1>4 DEF DeletePass
  <2>2. refs' = {} /\ tries' \in 0..DeleteTries
    BY <1>4, ShellAssumption DEF DeletePass
  <2>. QED
    BY <1>4, <2>1, <2>2 DEF DeletePass
<1>5. ASSUME NEW kind \in Kinds, DeleteEnd(kind) \/ AfterClosing(kind) PROVE ShellTypeOK'
  BY <1>5 DEF DeleteEnd, AfterClosing
<1>6. ASSUME NEW s \in Session, DisableClose(s) PROVE ShellTypeOK'
  BY <1>6 DEF DisableClose, Step, Places
<1>7. ASSUME NEW s \in Session, DisableButtons(s) PROVE ShellTypeOK'
  BY <1>7 DEF DisableButtons, Step, Places
<1>8. ASSUME NEW s \in Session, Execute(s) PROVE ShellTypeOK'
  <2>1. session' \in [Session -> Places]
    BY <1>8 DEF Execute, Step, Places
  <2>2. /\ process' \in 0..MaxSessions
        /\ child' \in [Session -> {"none", "running", "dying", "over"}]
    BY <1>8, ShellAssumption DEF Execute, Session
  <2>. QED
    BY <1>8, <2>1, <2>2 DEF Execute
<1>9. ASSUME NEW s \in Session, AwaitAlive(s) \/ AwaitExit(s) PROVE ShellTypeOK'
  BY <1>9 DEF AwaitAlive, AwaitExit, Step, Places
<1>10. ASSUME NEW s \in Session, EnableClose(s) \/ EnableButtons(s) PROVE ShellTypeOK'
  BY <1>10 DEF EnableClose, EnableButtons, Step, Places
<1>11. ASSUME NEW s \in Session, ChildReports(s) PROVE ShellTypeOK'
  BY <1>11, Names DEF ChildReports
<1>12. ASSUME NEW s \in Session, ChildEnds(s) PROVE ShellTypeOK'
  BY <1>12 DEF ChildEnds
<1>13. CASE Rest \/ UNCHANGED shellVars
  BY <1>13 DEF Rest, shellVars
<1>. QED
  BY <1>1, <1>2, <1>3, <1>4, <1>5, <1>6, <1>7, <1>8, <1>9, <1>10, <1>11, <1>12, <1>13
     DEF ShellNext, Thread, Closing, Kinds

-----------------------------------------------------------------------------
(* One benchmark at a time.                                                *)

\* Pressing Run, with the buttons showing that no session is under way.
LEMMA PressRunStep ==
  ASSUME ShellTypeOK, TimelyInv, "press" \notin delays, NEW s \in Session, PressRun(s)
  PROVE  TimelyInv'
<1>. USE DEF PressRun, closeVars, files
<1>1. /\ session' = [session EXCEPT ![s] = "disableClose"] /\ session[s] = "off"
      /\ runStop /\ edt = Idle /\ edt' = Idle /\ runStop' = runStop /\ closeOp' = closeOp
      /\ process' = process /\ child' = child
      /\ session \in [Session -> Places]
  BY DEF UserActs, ShellTypeOK
<1>2. \A r \in Session : r \notin Active
  <2>1. ASSUME NEW r \in Session PROVE session[r] \notin Disabled /\ ~Changing(r)
    BY <1>1 DEF TimelyInv, TurnInv, UserActs
  <2>. QED
    BY <1>1, <2>1 DEF Active, Disabled, Changing, Places
<1>3. /\ session'[s] = "disableClose"
      /\ \A r \in Session : r # s => session'[r] = session[r] /\ session'[r] \in {"off", "done", "died"}
  BY <1>1, <1>2 DEF Active
<1>4. TurnInv'
  <2>1. \A r \in Session : session'[r] \notin Disabled /\ session'[r] \notin Held
    BY <1>3 DEF Disabled, Held
  <2>2. \A r \in Session : session[r] \notin Held
    BY <1>2 DEF Active, Held
  <2>3. \A r, t \in Active' : r = t
    BY <1>3 DEF Active
  <2>4. closeOp' = "exit"
    BY <1>1, <2>2 DEF TimelyInv, TurnInv
  <2>. QED
    BY <2>1, <2>3, <2>4 DEF TurnInv
<1>5. ChildInv'
  <2>1. \A r \in Session : session[r] \notin Waiting
    BY <1>2 DEF Active, Waiting
  <2>2. \A r \in Session : session'[r] \notin Waiting
    BY <1>3 DEF Waiting
  <2>3. \A r \in Session : ~IsAlive(r)'
    BY <1>1, <2>1 DEF TimelyInv, ChildInv, IsAlive
  <2>. QED
    BY <2>2, <2>3 DEF ChildInv
<1>6. ClosingInv'
  <2>1. edt'[1] # "delete"
    BY <1>1, IdleIsIdle
  <2>. QED
    BY <1>1, <2>1 DEF TimelyInv, ClosingInv
<1>. QED
  BY <1>4, <1>5, <1>6 DEF TimelyInv

\* What the event dispatch thread does otherwise leaves the sessions where they are.
LEMMA EventStep ==
  ASSUME ShellTypeOK, TimelyInv, "press" \notin delays,
         \/ PressStop
         \/ \E kind \in Kinds : WindowClosing(kind) \/ Closing(kind)
  PROVE  TimelyInv'
<1>. USE DEF closeVars, runVars, files
<1>1. UNCHANGED <<closeOp, runStop, session, process>>
  BY DEF PressStop, WindowClosing, Closing, DeletePass, DeleteEnd, AfterClosing
<1>2. Active' = Active /\ TurnInv'
  BY <1>1 DEF TimelyInv, TurnInv, Active
<1>3. \A s \in Session : Changing(s)' = Changing(s)
  BY <1>1 DEF Changing
<1>4. CASE PressStop
  <2>1. \A s \in Session : IsAlive(s)' => IsAlive(s)
    BY <1>4 DEF PressStop, IsAlive, ShellTypeOK
  <2>2. ChildInv'
    BY <1>1, <2>1 DEF TimelyInv, ChildInv
  <2>3. UNCHANGED <<edt, app, refs, unpacked>>
    BY <1>4 DEF PressStop
  <2>4. ClosingInv'
    BY <1>1, <1>3, <2>3 DEF TimelyInv, ClosingInv, FieldsAfter, First
  <2>. QED
    BY <1>2, <2>2, <2>4 DEF TimelyInv
<1>5. ASSUME UNCHANGED child PROVE ChildInv'
  BY <1>1, <1>5 DEF TimelyInv, ChildInv, IsAlive
<1>6. ASSUME NEW kind \in Kinds, WindowClosing(kind) PROVE TimelyInv'
  <2>1. /\ edt = Idle /\ \A s \in Session : ~Changing(s)
        /\ UNCHANGED <<app, child, refs, unpacked>>
    BY <1>6 DEF WindowClosing, UserActs
  <2>2. \/ edt' = <<"delete", kind>> /\ closeOp = "exit"
        \/ edt' = <<"after", kind>>
    BY <1>6 DEF WindowClosing
  <2>3. edt'[1] = "delete" => closeOp = "exit"
    BY <2>2, IdleIsIdle
  <2>4. app = "open" => refs = FieldsAfter(unpacked)
    BY <2>1 DEF TimelyInv, ClosingInv
  <2>5. ClosingInv'
    BY <1>1, <1>3, <2>1, <2>3, <2>4 DEF ClosingInv
  <2>. QED
    BY <1>2, <1>5, <2>1, <2>5 DEF TimelyInv
<1>7. ASSUME NEW kind \in Kinds, DeletePass(kind) PROVE TimelyInv'
  <2>1. edt = <<"delete", kind>> /\ UNCHANGED <<app, edt, child, unpacked>>
    BY <1>7 DEF DeletePass
  <2>2. edt # Idle /\ edt[1] = "delete"
    BY <2>1, IdleIsIdle
  <2>3. ClosingInv'
    BY <1>1, <1>3, <2>1, <2>2 DEF TimelyInv, ClosingInv
  <2>. QED
    BY <1>2, <1>5, <2>1, <2>3 DEF TimelyInv
<1>8. ASSUME NEW kind \in Kinds, DeleteEnd(kind) PROVE TimelyInv'
  <2>1. edt = <<"delete", kind>> /\ edt' = <<"after", kind>> /\ UNCHANGED <<app, child, refs, unpacked>>
    BY <1>8 DEF DeleteEnd
  <2>2. edt # Idle /\ edt[1] = "delete" /\ edt' # Idle /\ edt'[1] = "after"
    BY <2>1, IdleIsIdle
  <2>3. ClosingInv'
    BY <1>1, <1>3, <2>1, <2>2 DEF TimelyInv, ClosingInv
  <2>. QED
    BY <1>2, <1>5, <2>1, <2>3 DEF TimelyInv
<1>9. ASSUME NEW kind \in Kinds, AfterClosing(kind) PROVE TimelyInv'
  <2>1. /\ edt' = Idle /\ UNCHANGED <<child, refs, unpacked>>
        /\ app' = "open" => app = "open" /\ closeOp # "exit"
    BY <1>9 DEF AfterClosing
  <2>2. edt'[1] # "delete"
    BY <2>1, IdleIsIdle
  <2>3. app' = "open" => refs = FieldsAfter(unpacked)
    BY <2>1 DEF TimelyInv, ClosingInv
  <2>4. ClosingInv'
    BY <1>1, <1>3, <2>1, <2>2, <2>3 DEF ClosingInv
  <2>. QED
    BY <1>2, <1>5, <2>1, <2>4 DEF TimelyInv
<1>. QED
  BY <1>4, <1>6, <1>7, <1>8, <1>9 DEF Closing

\* The thread of a session. It is the only one that is active, so what it does to the
\* buttons, the close operation and `process' is about itself.
LEMMA ThreadStep ==
  ASSUME ShellTypeOK, TimelyInv, "press" \notin delays, NEW s \in Session, Thread(s)
  PROVE  TimelyInv'
<1>. USE DEF closeVars, runVars, files
<1>1. /\ app = "open" /\ UNCHANGED <<closeVars, files>>
      /\ session[s] \notin {"off", "done", "died"}
  BY DEF Thread, DisableClose, DisableButtons, Execute, AwaitAlive, AwaitExit,
         EnableClose, EnableButtons, Step
<1>2. session \in [Session -> Places] /\ s # 0 /\ process \in 0..MaxSessions
      /\ child \in [Session -> {"none", "running", "dying", "over"}]
  BY DEF ShellTypeOK, Session
<1>3. \A r \in Session : r # s => session[r] \in {"off", "done", "died"}
  BY <1>1 DEF TimelyInv, TurnInv, Active
<1>4. /\ session[s] \in Disabled => ~runStop
      /\ closeOp # "exit" <=> session[s] \in Held
  BY <1>3 DEF TimelyInv, TurnInv, Held
<1>5. /\ session[s] \in Waiting => process = s
      /\ \A r \in Session : r # s => ~IsAlive(r)
      /\ IsAlive(s) => session[s] \in Waiting
  BY <1>3 DEF TimelyInv, ChildInv, Waiting
<1>6. PICK p \in Places : session' = [session EXCEPT ![s] = p]
  BY DEF Thread, DisableClose, DisableButtons, Execute, AwaitAlive, AwaitExit,
         EnableClose, EnableButtons, Step, Places
<1>7. /\ session'[s] = p
      /\ \A r \in Session : r # s => session'[r] = session[r]
                                     /\ session'[r] \in {"off", "done", "died"}
  BY <1>2, <1>3, <1>6
\* Where the thread goes, and what it changes on the way.
<1>8. /\ p \in Disabled => ~runStop'
      /\ closeOp' # "exit" <=> p \in Held
      /\ Changing(s)' => Changing(s)
      /\ session[s] # "disableClose" /\ closeOp = "exit" => closeOp' = "exit"
  <2>1. CASE DisableClose(s)
    <3>1. session[s] = "disableClose" /\ p = "disableButtons" /\ closeOp' = "nothing"
      BY <1>2, <1>7, <2>1 DEF DisableClose, Step
    <3>. QED
      BY <1>7, <3>1 DEF Disabled, Held, Changing
  <2>2. CASE DisableButtons(s)
    <3>1. session[s] = "disableButtons" /\ p = "exec" /\ closeOp' = closeOp /\ ~runStop'
      BY <1>2, <1>7, <2>2 DEF DisableButtons, Step
    <3>. QED
      BY <1>4, <1>7, <3>1 DEF Disabled, Held, Changing
  <2>3. CASE Execute(s)
    <3>1. /\ session[s] = "exec" /\ p \in {"enableClose", "waitAlive"}
          /\ closeOp' = closeOp /\ runStop' = runStop
      BY <1>2, <1>7, <2>3 DEF Execute, Step
    <3>. QED
      BY <1>4, <1>7, <3>1 DEF Disabled, Held, Changing
  <2>4. CASE AwaitAlive(s)
    <3>1. /\ session[s] = "waitAlive" /\ closeOp' = closeOp /\ runStop' = runStop
          /\ p = "waitExit" \/ process = 0
      BY <1>2, <1>7, <2>4 DEF AwaitAlive, Step
    <3>2. process # 0
      BY <1>2, <1>5, <3>1 DEF Waiting
    <3>. QED
      BY <1>4, <1>7, <3>1, <3>2 DEF Disabled, Held, Changing
  <2>5. CASE AwaitExit(s)
    <3>1. /\ session[s] = "waitExit" /\ closeOp' = closeOp /\ runStop' = runStop
          /\ p = "enableClose" \/ process = 0
      BY <1>2, <1>7, <2>5 DEF AwaitExit, Step
    <3>2. process # 0
      BY <1>2, <1>5, <3>1 DEF Waiting
    <3>. QED
      BY <1>4, <1>7, <3>1, <3>2 DEF Disabled, Held, Changing
  <2>6. CASE EnableClose(s)
    <3>1. /\ session[s] = "enableClose" /\ p = "enableButtons"
          /\ closeOp' = "exit" /\ runStop' = runStop
      BY <1>2, <1>7, <2>6 DEF EnableClose, Step
    <3>. QED
      BY <1>4, <1>7, <3>1 DEF Disabled, Held, Changing
  <2>7. CASE EnableButtons(s)
    <3>1. session[s] = "enableButtons" /\ p = "done" /\ closeOp' = closeOp
      BY <1>2, <1>7, <2>7 DEF EnableButtons, Step
    <3>. QED
      BY <1>4, <1>7, <3>1 DEF Disabled, Held, Changing
  <2>. QED
    BY <2>1, <2>2, <2>3, <2>4, <2>5, <2>6, <2>7 DEF Thread
<1>9. TurnInv'
  <2>1. \A r, t \in Active' : r = t
    BY <1>7 DEF Active
  <2>2. \A r \in Session : r # s => session'[r] \notin Disabled /\ session'[r] \notin Held
    BY <1>7 DEF Disabled, Held
  <2>. QED
    BY <1>7, <1>8, <2>1, <2>2 DEF TurnInv
<1>10. ChildInv'
  <2>1. \A r \in Session : r # s => session'[r] \notin Waiting
    BY <1>7 DEF Waiting
  <2>2. CASE Execute(s)
    <3>1. session[s] = "exec"
      BY <2>2 DEF Execute, Step
    <3>2. ~IsAlive(s)
      BY <1>5, <3>1 DEF Waiting
    <3>3. CASE child' = child
      <4>1. \A r \in Session : ~IsAlive(r)'
        BY <1>5, <3>2, <3>3 DEF IsAlive
      <4>2. p = "waitAlive" => process' = s
        BY <1>2, <1>7, <2>2 DEF Execute, Step
      <4>3. p \in {"waitAlive", "enableClose"}
        BY <1>7, <2>2, <1>2 DEF Execute, Step
      <4>. QED
        BY <1>7, <2>1, <4>1, <4>2, <4>3 DEF ChildInv, Waiting
    <3>4. CASE process' = s /\ child' = [child EXCEPT ![s] = "running"] /\ p = "waitAlive"
      <4>1. \A r \in Session : r # s => ~IsAlive(r)'
        BY <1>2, <1>5, <3>4 DEF IsAlive
      <4>. QED
        BY <1>7, <2>1, <3>4, <4>1 DEF ChildInv, Waiting
    <3>. QED
      BY <1>2, <1>7, <2>2, <3>3, <3>4 DEF Execute, Step
  <2>3. CASE ~Execute(s)
    <3>1. UNCHANGED <<process, child>>
      BY <2>3 DEF Thread, DisableClose, DisableButtons, AwaitAlive, AwaitExit,
                  EnableClose, EnableButtons
    <3>2. \A r \in Session : r # s => ~IsAlive(r)'
      BY <1>5, <3>1 DEF IsAlive
    <3>3. IsAlive(s)' = IsAlive(s)
      BY <3>1 DEF IsAlive
    <3>4. p \in Waiting => session[s] \in Waiting
      BY <1>2, <1>7, <2>3
         DEF Thread, DisableClose, DisableButtons, AwaitAlive, AwaitExit,
             EnableClose, EnableButtons, Step, Waiting
    <3>5. IsAlive(s) => p \in Waiting
      <4>. SUFFICES ASSUME IsAlive(s) PROVE p \in Waiting
        OBVIOUS
      <4>1. session[s] \in Waiting /\ process = s
        BY <1>5
      <4>2. AwaitAlive(s) \/ AwaitExit(s)
        BY <2>3, <4>1 DEF Thread, DisableClose, DisableButtons, EnableClose, EnableButtons,
                          Step, Waiting
      <4>. QED
        BY <1>2, <1>7, <4>1, <4>2 DEF AwaitAlive, AwaitExit, Step, Waiting
    <3>. QED
      BY <1>5, <1>7, <2>1, <3>1, <3>2, <3>3, <3>4, <3>5 DEF ChildInv
  <2>. QED
    BY <2>2, <2>3
<1>11. ClosingInv'
  <2>1. edt # Idle => session[s] # "disableClose"
    BY DEF TimelyInv, ClosingInv, Changing
  <2>2. \A r \in Session : r # s => ~Changing(r)'
    BY <1>7 DEF Changing
  <2>3. edt[1] = "delete" => edt # Idle
    BY IdleIsIdle
  <2>. QED
    BY <1>1, <1>8, <2>1, <2>2, <2>3 DEF TimelyInv, ClosingInv, FieldsAfter, First
<1>. QED
  BY <1>9, <1>10, <1>11 DEF TimelyInv

\* The children only write and end.
LEMMA ChildStep ==
  ASSUME ShellTypeOK, TimelyInv, NEW s \in Session, ChildReports(s) \/ ChildEnds(s)
  PROVE  TimelyInv'
<1>. USE DEF closeVars, runVars, files
<1>1. UNCHANGED <<app, edt, closeOp, runStop, session, process, refs, unpacked>>
  BY DEF ChildReports, ChildEnds
<1>2. \A r \in Session : IsAlive(r)' => IsAlive(r)
  BY DEF ChildReports, ChildEnds, IsAlive, ShellTypeOK
<1>3. Active' = Active /\ \A r \in Session : Changing(r)' = Changing(r)
  BY <1>1 DEF Active, Changing
<1>4. TurnInv'
  BY <1>1, <1>3 DEF TimelyInv, TurnInv
<1>5. ChildInv'
  BY <1>1, <1>2 DEF TimelyInv, ChildInv
<1>6. ClosingInv'
  BY <1>1, <1>3 DEF TimelyInv, ClosingInv, FieldsAfter, First
<1>. QED
  BY <1>4, <1>5, <1>6 DEF TimelyInv

\* Every step of a shell whose user acts on what the window shows.
LEMMA TimelyStep ==
  ASSUME ShellTypeOK, TimelyInv, "press" \notin delays, [ShellNext]_shellVars
  PROVE  TimelyInv'
<1>1. CASE Rest \/ UNCHANGED shellVars
  BY <1>1 DEF Rest, shellVars, closeVars, runVars, files, TimelyInv, TurnInv, ChildInv,
              ClosingInv, Active, IsAlive, Changing, FieldsAfter, First
<1>. QED
  BY <1>1, PressRunStep, EventStep, ThreadStep, ChildStep DEF ShellNext, Kinds

-----------------------------------------------------------------------------
(* Leaving the shell.                                                      *)

\* No child is left, and none can start, once the close operation is "exit" again.
LEMMA NoneAlive ==
  ASSUME TimelyInv, closeOp = "exit"
  PROVE  \A s \in Session : ~IsAlive(s)
BY DEF TimelyInv, TurnInv, ChildInv, Held, Waiting

\* What the deletion meets while the window is open.
LEMMA DeletingMeans ==
  ASSUME ShellTypeOK, TimelyInv, LeavingInv, NEW kind \in Kinds, edt = <<"delete", kind>>
  PROVE  /\ edt # Idle /\ Deleting /\ edt[1] # "after" /\ closeOp = "exit" /\ app = "open"
         /\ \A s \in Session : ~IsAlive(s)
<1>1. edt # Idle /\ edt[1] = "delete"
  BY IdleIsIdle
<1>2. closeOp = "exit"
  BY <1>1 DEF TimelyInv, ClosingInv
<1>3. app = "open"
  BY <1>1 DEF LeavingInv, ShellTypeOK
<1>. QED
  BY <1>1, <1>2, <1>3, NoneAlive DEF Deleting

\* The listener goes on only when no session is under way: the user cannot cancel
\* while one is, and closing the window does nothing then.
LEMMA LeaveBegins ==
  ASSUME ShellTypeOK, TimelyInv, LeavingInv, delays \subseteq {"alive"},
         NEW kind \in Kinds, WindowClosing(kind)
  PROVE  LeavingInv'
<1>. USE DEF WindowClosing, runVars, files
<1>1. /\ app = "open" /\ app' = app /\ edt = Idle /\ \A s \in Session : ~Changing(s)
      /\ UNCHANGED <<closeOp, disk, refs, unpacked>> /\ tries' = DeleteTries
  BY DEF UserActs
<1>2. closeOp = "exit"
  <2>. SUFFICES ASSUME closeOp # "exit" PROVE FALSE
    OBVIOUS
  <2>1. kind = "cancel" /\ runStop
    BY DEF UserActs
  <2>2. \A s \in Session : session[s] \notin Held
    BY <1>1, <2>1 DEF TimelyInv, TurnInv, Changing, Disabled, Held
  <2>. QED
    BY <2>2 DEF TimelyInv, TurnInv
<1>3. edt' = <<"delete", kind>> /\ ~result'
  BY <1>2
<1>4. edt'[1] # "after" /\ edt'[1] = "delete"
  BY <1>3, IdleIsIdle
<1>5. edt[1] # "after" /\ ~Deleting
  BY <1>1, IdleIsIdle DEF Deleting
<1>6. unpacked = 5 => Unpacked
  BY <1>1, <1>5 DEF LeavingInv
<1>7. unpacked = 5 => Unpacked'
  BY <1>1, <1>6 DEF Unpacked, FieldsAfter, First
<1>. QED
  BY <1>1, <1>3, <1>4, <1>7 DEF LeavingInv, Deleting

\* One pass of deleteBinaries is enough when all the files could be unpacked and none
\* is in use; with the fields lost, further passes find nothing.
LEMMA DeletePassClears ==
  ASSUME ShellTypeOK, TimelyInv, LeavingInv, delays \subseteq {"alive"},
         NEW kind \in Kinds, DeletePass(kind)
  PROVE  LeavingInv'
<1>. USE DEF runVars
<1>0. edt = <<"delete", kind>> /\ UNCHANGED <<app, edt, closeOp, child, unpacked>>
      /\ tries > 0 /\ tries' = tries - 1
  BY DEF DeletePass
<1>1. /\ edt # Idle /\ Deleting /\ edt[1] # "after" /\ closeOp = "exit" /\ app = "open"
      /\ \A s \in Session : ~IsAlive(s)
  BY <1>0, DeletingMeans
<1>2. tries \in 0..DeleteTries /\ tries' # DeleteTries
  BY <1>0, ShellAssumption DEF ShellTypeOK
<1>3. Locks = {{}}
  BY <1>1 DEF Locks
<1>. DEFINE gone == ((refs \cap disk) \ {}) \ {"dir"}
            left == disk \ gone
            dirGone == "dir" \in refs \ {} /\ left = {"dir"}
<1>4. disk' = IF dirGone THEN {} ELSE left
  BY <1>3 DEF DeletePass
<1>5. CASE unpacked = 5 /\ tries = DeleteTries
  <2>1. /\ refs = FieldsAfter(5) /\ disk \subseteq FieldsAfter(5)
        /\ "dir" \in FieldsAfter(5) /\ "dir" \in disk
    BY <1>1, <1>5, Names DEF LeavingInv, Unpacked, FieldsAfter
  <2>2. left = {"dir"} /\ dirGone
    BY <2>1
  <2>3. disk' = {}
    BY <1>4, <2>2
  <2>. QED
    BY <1>0, <1>1, <1>2, <2>3 DEF LeavingInv, Deleting
<1>6. CASE unpacked = 5 /\ tries # DeleteTries
  <2>1. disk = {}
    BY <1>1, <1>6 DEF LeavingInv
  <2>2. disk' = {}
    BY <1>4, <2>1
  <2>. QED
    BY <1>0, <1>1, <1>2, <2>2 DEF LeavingInv, Deleting
<1>7. CASE unpacked # 5
  BY <1>0, <1>1, <1>2, <1>7 DEF LeavingInv, Deleting
<1>. QED
  BY <1>5, <1>6, <1>7

\* The end of closeSession, and the frame's or the listener's exit.
LEMMA LeaveEnds ==
  ASSUME ShellTypeOK, TimelyInv, LeavingInv, NEW kind \in Kinds,
         DeleteEnd(kind) \/ AfterClosing(kind)
  PROVE  LeavingInv'
<1>. USE DEF runVars, files
<1>1. UNCHANGED <<closeOp, child, disk, refs, unpacked>>
  BY DEF DeleteEnd, AfterClosing
<1>2. Unpacked' = Unpacked /\ \A s \in Session : IsAlive(s)' = IsAlive(s)
  BY <1>1 DEF Unpacked, FieldsAfter, First, IsAlive
<1>3. CASE DeleteEnd(kind)
  <2>1. /\ edt = <<"delete", kind>> /\ edt' = <<"after", kind>> /\ app' = app
        /\ result \/ tries = 0
    BY <1>3 DEF DeleteEnd
  <2>2. Deleting /\ closeOp = "exit" /\ app = "open"
    BY <2>1, DeletingMeans
  <2>3. edt'[1] = "after" /\ ~Deleting'
    BY <2>1, IdleIsIdle DEF Deleting
  <2>4. tries # DeleteTries
    BY <2>1, <2>2, ShellAssumption DEF LeavingInv
  <2>5. unpacked = 5 => disk = {}
    BY <2>2, <2>4 DEF LeavingInv
  <2>. QED
    BY <1>1, <2>1, <2>2, <2>3, <2>5 DEF LeavingInv
<1>4. CASE AfterClosing(kind)
  <2>1. edt = <<"after", kind>> /\ edt' = Idle
    BY <1>4 DEF AfterClosing
  <2>2. edt[1] = "after" /\ edt'[1] # "after" /\ ~Deleting'
    BY <2>1, IdleIsIdle DEF Deleting
  <2>3. closeOp = "exit" /\ (unpacked = 5 => disk = {})
    BY <2>2 DEF LeavingInv
  <2>4. app' = "exited"
    BY <1>4, <2>3 DEF AfterClosing
  <2>5. \A s \in Session : ~IsAlive(s)'
    BY <1>2, <2>3, NoneAlive
  <2>. QED
    BY <1>1, <2>1, <2>2, <2>3, <2>4, <2>5 DEF LeavingInv
<1>. QED
  BY <1>3, <1>4

\* Everything else happens while the window is open and nobody closes it.
LEMMA LeavingStep ==
  ASSUME ShellTypeOK, TimelyInv, LeavingInv, delays \subseteq {"alive"},
         [ShellNext]_shellVars
  PROVE  LeavingInv'
<1>. USE DEF closeVars, runVars, files
\* Nothing that the invariant speaks of changes, but for the close operation.
<1>1. ASSUME UNCHANGED <<closeVars, files>>, app = "open", closeOp' = closeOp \/ edt = Idle
      PROVE  LeavingInv'
  <2>1. Unpacked' = Unpacked /\ Deleting' = Deleting
    BY <1>1 DEF Unpacked, FieldsAfter, First, Deleting
  <2>2. edt = Idle => edt[1] # "after"
    BY IdleIsIdle
  <2>. QED
    BY <1>1, <2>1, <2>2 DEF LeavingInv
<1>2. ASSUME NEW s \in Session, PressRun(s) PROVE LeavingInv'
  BY <1>1, <1>2 DEF PressRun, UserActs
<1>3. CASE PressStop
  BY <1>1, <1>3 DEF PressStop, UserActs
<1>4. ASSUME NEW s \in Session, Thread(s) PROVE LeavingInv'
  <2>1. app = "open" /\ UNCHANGED <<closeVars, files>>
    BY <1>4 DEF Thread, DisableClose, DisableButtons, Execute, AwaitAlive, AwaitExit,
                EnableClose, EnableButtons, Step
  <2>2. edt # Idle => closeOp' = closeOp \/ closeOp' = "exit"
    BY <1>4 DEF Thread, DisableClose, DisableButtons, Execute, AwaitAlive, AwaitExit,
                EnableClose, EnableButtons, Step, TimelyInv, ClosingInv, Changing
  <2>3. Unpacked' = Unpacked /\ Deleting' = Deleting
    BY <2>1 DEF Unpacked, FieldsAfter, First, Deleting
  <2>4. edt = Idle => edt[1] # "after"
    BY IdleIsIdle
  <2>. QED
    BY <2>1, <2>2, <2>3, <2>4 DEF LeavingInv
<1>5. ASSUME NEW s \in Session, ChildReports(s) PROVE LeavingInv'
  <2>1. /\ IsAlive(s) /\ UNCHANGED <<closeVars, runVars, refs, unpacked>>
        /\ disk' = disk \cup {"txt"} /\ "dir" \in disk
    BY <1>5 DEF ChildReports, IsAlive
  <2>2. closeOp # "exit"
    BY <2>1, NoneAlive
  <2>3. app = "open" /\ edt[1] # "after" /\ ~Deleting
    BY <2>2 DEF LeavingInv, TimelyInv, ClosingInv, Deleting, ShellTypeOK
  <2>4. unpacked = 5 => Unpacked /\ "txt" \in FieldsAfter(5)
    BY <2>3 DEF LeavingInv, FieldsAfter
  <2>5. unpacked = 5 => Unpacked'
    BY <2>1, <2>4 DEF Unpacked, FieldsAfter, First
  <2>. QED
    BY <2>1, <2>3, <2>5 DEF LeavingInv, Deleting
<1>6. ASSUME NEW s \in Session, ChildEnds(s) PROVE LeavingInv'
  <2>1. UNCHANGED <<closeVars, closeOp, files>>
    BY <1>6 DEF ChildEnds
  <2>2. \A r \in Session : IsAlive(r)' => IsAlive(r)
    BY <1>6 DEF ChildEnds, IsAlive, ShellTypeOK
  <2>3. Unpacked' = Unpacked /\ Deleting' = Deleting
    BY <2>1 DEF Unpacked, FieldsAfter, First, Deleting
  <2>. QED
    BY <2>1, <2>2, <2>3 DEF LeavingInv
<1>7. CASE Rest \/ UNCHANGED shellVars
  BY <1>7 DEF Rest, shellVars, LeavingInv, Deleting, Unpacked, FieldsAfter, First, IsAlive
<1>. QED
  BY <1>2, <1>3, <1>4, <1>5, <1>6, <1>7, LeaveBegins, DeletePassClears, LeaveEnds
     DEF ShellNext, Closing, Kinds

-----------------------------------------------------------------------------
(* Theorems.                                                               *)

\* The inductive invariant: the types in every behaviour, the turns of the buttons when
\* the user acts on what is shown, and the clean exit when nothing else intervenes.
THEOREM ShellInvariance == ShellSpec => []ShellInv
<1>1. ShellInv /\ [ShellNext]_shellVars => ShellInv'
  <2>. SUFFICES ASSUME ShellInv, [ShellNext]_shellVars PROVE ShellInv'
    OBVIOUS
  <2>1. ShellTypeOK'
    BY ShellTypeStep DEF ShellInv
  <2>2. delays' = delays
    BY DEF ShellNext, PressRun, Thread, DisableClose, DisableButtons, Execute, AwaitAlive,
           AwaitExit, EnableClose, EnableButtons, ChildReports, ChildEnds, PressStop,
           WindowClosing, Closing, DeletePass, DeleteEnd, AfterClosing, Rest, shellVars, files
  <2>3. "press" \notin delays' => TimelyInv'
    BY <2>2, TimelyStep DEF ShellInv
  <2>4. delays' \subseteq {"alive"} => LeavingInv'
    BY <2>2, LeavingStep DEF ShellInv
  <2>. QED
    BY <2>1, <2>3, <2>4 DEF ShellInv
<1>. QED
  BY <1>1, ShellInitial, PTL DEF ShellSpec

\* disableGuiBeforeRun: two benchmarks never run at once, and executeTask waits for the
\* child it has started, although it asks a field that other threads write.
THEOREM OneBenchmarkRuns == ShellSpec => []OneChild
<1>1. ShellInv => OneChild
  <2>. SUFFICES ASSUME ShellInv, "press" \notin delays
                PROVE  /\ Cardinality({s \in Session : IsAlive(s)}) <= 1
                       /\ \A s \in Session : session[s] \in {"waitAlive", "waitExit"} => process = s
    BY DEF OneChild
  <2>1. \A s, r \in Session : IsAlive(s) /\ IsAlive(r) => s = r
    BY DEF ShellInv, TimelyInv, ChildInv
  <2>. DEFINE S == {s \in Session : IsAlive(s)}
  <2>2. \A s, r \in S : s = r
    BY <2>1
  <2>3. Cardinality(S) <= 1
    <3>. HIDE DEF S
    <3>1. CASE S = {}
      BY <3>1, FS_EmptySet
    <3>2. CASE S # {}
      <4>1. PICK s \in S : S = {s}
        BY <2>2, <3>2
      <4>2. Cardinality({s}) = 1
        BY FS_Singleton
      <4>. QED
        BY <4>1, <4>2
    <3>. QED
      BY <3>1, <3>2
  <2>. QED
    BY <2>3 DEF ShellInv, TimelyInv, ChildInv, Waiting
<1>. QED
  BY <1>1, ShellInvariance, PTL

\* windowClosing: the unpacked binaries are deleted only if the application really ends.
THEOREM OpenWindowKeepsFiles == ShellSpec => []OpenKeepsFiles
<1>1. ShellInv => OpenKeepsFiles
  BY DEF ShellInv, TimelyInv, ClosingInv, OpenKeepsFiles
<1>. QED
  BY <1>1, ShellInvariance, PTL

\* closeSession: leaving the shell leaves no benchmark running and, when everything
\* could be unpacked, exactly the files in the directory of ActionInit.
THEOREM ExitLeavesOneSet == ShellSpec => []ExitLeavesSpare
<1>1. ShellInv => ExitLeavesSpare
  <2>. SUFFICES ASSUME ShellInv, delays \subseteq {"alive"}, app = "exited"
                PROVE  /\ \A s \in Session : ~IsAlive(s)
                       /\ unpacked = 5 => LeftFiles = {"ActionInit"} \X spare
    BY DEF ExitLeavesSpare
  <2>1. unpacked = 5 => disk = {}
    BY DEF ShellInv, LeavingInv
  <2>2. disk = {} => LeftFiles = {"ActionInit"} \X spare
    BY DEF LeftFiles
  <2>. QED
    BY <2>1, <2>2 DEF ShellInv, LeavingInv
<1>. QED
  BY <1>1, ShellInvariance, PTL

=============================================================================
