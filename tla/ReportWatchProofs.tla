------------------------- MODULE ReportWatchProofs -------------------------
(***************************************************************************)
(* Proofs about ReportWatch and about the drawing on top of it, for every  *)
(* number of sessions, of parts and of extra polls, every place of the     *)
(* line ends and every length of the curve: the unlocked lists, counters   *)
(* and points of DirectoryMonitor, its two listeners and DrawModel are     *)
(* safe as long as no monitor thread starts after the child of its         *)
(* session.                                                                *)
(***************************************************************************)
EXTENDS Drawing, Integers, FiniteSetTheorems, WellFoundedInduction, TLAPS

-----------------------------------------------------------------------------
(* What is known of the two threads and the data between them.             *)

Lines    == {l \in [by : Nat, number : Nat \ {0}, whole : BOOLEAN] : l.whole => Parts # 0}
Places   == {"idle", "addData", "start", "exec", "wait", "removeFile", "removeData",
             "clear", "join"}
Before   == {"none", "start", "register"}
Handling == {"files", "data", "line"}
Locals   == [pc : Before \cup {"top", "poll"} \cup Handling \cup Over, extra : Nat,
             i : Nat, fcount : Nat, j : Nat, dcount : Nat,
             f : Nat, d : Nat, at : Nat, n : Nat]

WatchTypeOK ==
  /\ delays \in SUBSET AnyDelay
  /\ session \in 0..MaxSessions /\ client \in Places
  /\ client # "idle" => session # 0
  /\ child \in {"none", "running", "over"}
  /\ file \in [by : Nat, parts : Nat] /\ alive \in BOOLEAN
  /\ flst \in Seq(Session) /\ dlst \in Seq(Session)
  /\ monitor \in [Session -> Locals] /\ event \in [Session -> BOOLEAN]
  /\ report \in [Session -> Seq(Lines)] /\ shown \in [Session -> Seq(Lines)]
  /\ previous \in [Session -> Nat]

\* The indices of a handler are in use, and the listeners it has looked up exist.
LocalsInv ==
  \A s \in Session :
    /\ monitor[s].pc \in Handling => monitor[s].i >= 1
    /\ monitor[s].pc \in {"data", "line"} => monitor[s].j >= 1
    /\ monitor[s].pc = "line" => monitor[s].f \in Session /\ monitor[s].d \in Session

\* The lists hold the listeners of the current session, and only while it runs.
ListInv ==
  /\ flst = IF client \in {"addData", "start", "exec", "wait", "removeFile"}
            THEN <<session>> ELSE <<>>
  /\ dlst = IF client \in {"start", "exec", "wait", "removeFile", "removeData"}
            THEN <<session>> ELSE <<>>

\* The monitor threads take turns: the one that is alive belongs to the session that is
\* under way, and is past its start when the child runs.
TurnInv ==
  /\ \A s \in Session : IsAlive(s) => s = session /\ client \notin {"idle", "addData", "start"}
  /\ \A s \in Session : s > session \/ (s = session /\ client \in {"addData", "start"})
       => monitor[s].pc = "none"
  /\ \A s \in Session : monitor[s].pc \in {"start", "register"} => client = "exec"
  /\ client = "join" => ~alive
  /\ child = "running" => client = "wait"

\* What a monitor thread reads is the report of its own session, however far it is.
ReadInv ==
  /\ file.by <= session /\ (client \in {"addData", "start", "exec"} => file.by # session)
  /\ \A s \in Session : event[s] => s <= session
  /\ (session # 0 /\ event[session]) => file.by = session
  /\ \A s \in Session : monitor[s].pc \in Handling => file.by = s

Own(lines, s) == \A k \in DOMAIN lines : lines[k].by = s /\ lines[k].number = k

\* What a session has read and shown are lines of its own report in their order, and
\* `previous' counts those it has shown, or had before the loop it is in.
ShownInv ==
  \A s \in Session :
    /\ Own(report[s], s) /\ Own(shown[s], s)
    /\ monitor[s].pc \in Before => shown[s] = <<>>
    /\ monitor[s].pc \notin {"line", "died"} => previous[s] = Len(shown[s])
    /\ monitor[s].pc = "line" =>
         /\ monitor[s].f = s /\ monitor[s].d = s
         /\ monitor[s].at = Len(shown[s]) /\ monitor[s].n = Len(report[s])
         /\ previous[s] <= monitor[s].at
         /\ monitor[s].at <= monitor[s].n \/ monitor[s].at = previous[s]

\* Every line of the report that is on disk has been shown.
UpToDate == Len(shown[session]) = Len(LinesOf(file))

\* When nothing is late and nothing fails, what a session has not shown yet is behind an
\* event that waits or in the handler that is running.
CompleteInv ==
  (delays = {} /\ session # 0) =>
    LET m == monitor[session] IN
      /\ client \in {"exec", "wait", "removeFile", "removeData", "clear"} =>
           /\ IsAlive(session) /\ (m.pc # "start" => alive)
           /\ Watching(session) => m.extra # 0
      /\ event[session] \/ m.pc \in Handling => client \in {"wait", "removeFile"}
      /\ m.pc \in Handling => m.fcount = 1
      /\ m.pc \in {"data", "line"} => /\ m.dcount = 1 /\ m.i = 1
                                      /\ Len(shown[session]) <= Len(report[session])
                                      /\ Len(report[session]) <= Len(LinesOf(file))
      /\ file.by # session => shown[session] = <<>>
      /\ file.by = session => Len(shown[session]) <= Len(LinesOf(file))
      /\ (file.by = session /\ ~event[session]) =>
           /\ m.pc \in {"top", "poll"} => UpToDate
           /\ (m.pc = "files" /\ m.i > 1) => UpToDate
           /\ m.pc \in {"data", "line"} => Len(report[session]) = Len(LinesOf(file))
           /\ (m.pc = "data" /\ m.j > 1) => UpToDate
      /\ (client \in {"removeData", "clear", "join", "idle"} /\ file.by = session) => UpToDate

WatchInv ==
  /\ WatchTypeOK /\ LocalsInv /\ ListInv
  /\ "start" \notin delays => TurnInv /\ ReadInv /\ ShownInv /\ CompleteInv

-----------------------------------------------------------------------------
(* The lines of a report, and the lists.                                   *)

\* An element of a sequence is in the set of its elements.
LEMMA Elements ==
  ASSUME NEW S, NEW q \in Seq(S), NEW k \in 1..Len(q)
  PROVE  q[k] \in S
  OBVIOUS

\* A list with one listener is empty without it.
LEMMA OneListener ==
  ASSUME NEW s PROVE RemoveFirst(<<s>>, s) = <<>>
<1>. DEFINE I == {i \in 1..Len(<<s>>) : <<s>>[i] = s}
<1>1. I = {1}
  OBVIOUS
<1>2. Min(I) = 1
  BY <1>1 DEF Min
<1>3. SelectInSeq(<<s>>, LAMBDA v : v = s) = 1
  BY <1>1, <1>2 DEF SelectInSeq
<1>4. RemoveAt(<<s>>, 1) = <<>>
  BY DEF RemoveAt
<1>. QED
  BY <1>3, <1>4 DEF RemoveFirst

\* The whole lines among the first p parts, and the part of a line after them.
Ended(p) == Cardinality(LineEnds \cap 1..p)
Begun(p) == IF p \in LineEnds \cup {0} THEN 0 ELSE 1

\* A part ends a line or it does not.
LEMMA EndsBelow ==
  ASSUME NEW p \in Nat
  PROVE  /\ Ended(p) \in Nat
         /\ Ended(p + 1) = Ended(p) + (IF p + 1 \in LineEnds THEN 1 ELSE 0)
         /\ Ended(p) # 0 => Parts # 0
<1>1. IsFiniteSet(LineEnds \cap 1..p)
  <2>1. IsFiniteSet(1..p)
    BY FS_Interval
  <2>. QED
    BY <2>1, FS_Subset, Zenon
<1>2. Cardinality(LineEnds \cap 1..p) \in Nat
  BY <1>1, FS_CardinalityType
<1>3. p + 1 \notin LineEnds \cap 1..p
  OBVIOUS
<1>4. ASSUME p + 1 \in LineEnds PROVE Ended(p + 1) = Ended(p) + 1
  <2>1. LineEnds \cap 1..(p + 1) = (LineEnds \cap 1..p) \cup {p + 1}
    BY <1>4
  <2>. QED
    BY <1>1, <1>2, <1>3, <1>4, <2>1, FS_AddElement DEF Ended
<1>5. ASSUME p + 1 \notin LineEnds PROVE Ended(p + 1) = Ended(p)
  <2>1. LineEnds \cap 1..(p + 1) = LineEnds \cap 1..p
    BY <1>5
  <2>. QED
    BY <1>1, <1>2, <1>5, <2>1 DEF Ended
<1>6. ASSUME Parts = 0 PROVE Ended(p) = 0
  <2>1. LineEnds \cap 1..p = {}
    BY <1>6, WatchAssumption
  <2>. QED
    BY <2>1, FS_EmptySet DEF Ended
<1>. QED
  BY <1>2, <1>4, <1>5, <1>6 DEF Ended

\* What a reader of the file finds.
LEMMA ReportLines ==
  ASSUME NEW r \in [by : Nat, parts : Nat]
  PROVE  /\ LinesOf(r) \in Seq(Lines) /\ Own(LinesOf(r), r.by)
         /\ Len(LinesOf(r)) = Ended(r.parts) + Begun(r.parts) /\ Len(LinesOf(r)) \in Nat
<1>. DEFINE top == Ended(r.parts) + Begun(r.parts)
<1>1. r.parts \in Nat /\ r.by \in Nat
  OBVIOUS
<1>2. top \in Nat
  BY <1>1, EndsBelow DEF Begun
<1>3. LinesOf(r) = [k \in 1..top |-> [by |-> r.by, number |-> k, whole |-> k <= Ended(r.parts)]]
  BY DEF LinesOf, Ended, Begun
<1>. HIDE DEF top
<1>4. \A k \in 1..top : [by |-> r.by, number |-> k, whole |-> k <= Ended(r.parts)] \in Lines
  <2>1. Ended(r.parts) \in Nat /\ (Ended(r.parts) # 0 => Parts # 0)
    BY <1>1, EndsBelow, Zenon
  <2>. DEFINE e == Ended(r.parts)
  <2>. HIDE DEF e
  <2>2. ASSUME NEW k \in 1..top PROVE [by |-> r.by, number |-> k, whole |-> k <= e] \in Lines
    <3>1. r.by \in Nat /\ k \in Nat \ {0} /\ (k <= e) \in BOOLEAN
      BY <1>1, <1>2
    <3>2. k <= e => Parts # 0
      BY <1>2, <2>1 DEF e
    <3>. QED
      BY <3>1, <3>2 DEF Lines
  <2>. QED
    BY <2>2 DEF e
<1>5. LinesOf(r) \in Seq(Lines) /\ Len(LinesOf(r)) = top
  BY <1>2, <1>3, <1>4
<1>6. Own(LinesOf(r), r.by)
  BY <1>3 DEF Own
<1>. QED
  BY <1>2, <1>5, <1>6 DEF top

\* A report that is begun has no line, and it never gets shorter while its child writes it.
LEMMA ReportGrows ==
  /\ \A s \in Nat : Len(LinesOf([by |-> s, parts |-> 0])) = 0
  /\ \A r \in [by : Nat, parts : Nat] :
       Len(LinesOf(r)) <= Len(LinesOf([r EXCEPT !.parts = @ + 1]))
<1>1. Ended(0) = 0
  <2>1. LineEnds \cap 1..0 = {}
    OBVIOUS
  <2>. QED
    BY <2>1, FS_EmptySet DEF Ended
<1>2. ASSUME NEW s \in Nat PROVE Len(LinesOf([by |-> s, parts |-> 0])) = 0
  <2>. DEFINE r == [by |-> s, parts |-> 0]
  <2>1. r \in [by : Nat, parts : Nat] /\ r.parts = 0
    OBVIOUS
  <2>. HIDE DEF r
  <2>2. Len(LinesOf(r)) = 0
    BY <1>1, <2>1, ReportLines DEF Begun
  <2>. QED
    BY <2>2 DEF r
<1>3. ASSUME NEW r \in [by : Nat, parts : Nat]
      PROVE  Len(LinesOf(r)) <= Len(LinesOf([r EXCEPT !.parts = @ + 1]))
  <2>. DEFINE g == [r EXCEPT !.parts = @ + 1]
              p == r.parts
  <2>1. g \in [by : Nat, parts : Nat] /\ p \in Nat /\ g.parts = p + 1
    OBVIOUS
  <2>2. /\ Ended(p) \in Nat
        /\ Ended(p + 1) = Ended(p) + (IF p + 1 \in LineEnds THEN 1 ELSE 0)
    BY <2>1, EndsBelow, Zenon
  <2>3. Len(LinesOf(r)) = Ended(p) + Begun(p)
    BY ReportLines, Zenon
  <2>4. Len(LinesOf(g)) = Ended(p + 1) + Begun(p + 1)
    BY <2>1, ReportLines, Zenon
  <2>. HIDE DEF g, p
  <2>5. Begun(p) \in {0, 1} /\ (p + 1 \in LineEnds => Begun(p + 1) = 0)
        /\ (p + 1 \notin LineEnds => Begun(p + 1) = 1)
    BY <2>1 DEF Begun
  <2>6. Len(LinesOf(r)) <= Len(LinesOf(g))
    BY <2>2, <2>3, <2>4, <2>5
  <2>. QED
    BY <2>6 DEF g
<1>. QED
  BY <1>2, <1>3

-----------------------------------------------------------------------------
(* Types, indices and lists, whatever may be late.                          *)

KindInv == WatchTypeOK /\ LocalsInv /\ ListInv

\* At first there is no listener, no monitor thread and no line.
LEMMA KindInitial == WatchInit => KindInv
<1>. SUFFICES ASSUME WatchInit PROVE KindInv
  OBVIOUS
<1>. USE WatchAssumption DEF WatchInit
<1>1. Idle \in Locals /\ Idle.pc = "none"
  BY DEF Idle, Locals, Before, Handling, Over
<1>2. monitor \in [Session -> Locals] /\ \A s \in Session : monitor[s].pc = "none"
  BY <1>1
<1>3. LocalsInv
  BY <1>2 DEF LocalsInv, Handling
<1>4. WatchTypeOK
  <2>1. delays \in SUBSET AnyDelay
    OBVIOUS
  <2>2. flst \in Seq(Session) /\ dlst \in Seq(Session) /\ report \in [Session -> Seq(Lines)]
        /\ shown \in [Session -> Seq(Lines)]
    OBVIOUS
  <2>3. file \in [by : Nat, parts : Nat] /\ previous \in [Session -> Nat]
        /\ event \in [Session -> BOOLEAN]
    OBVIOUS
  <2>4. session \in 0..MaxSessions /\ child = "none"
    OBVIOUS
  <2>6. alive \in BOOLEAN
    BY Zenon
  <2>5. client \in Places /\ client = "idle"
    BY DEF Places
  <2>. QED
    BY <1>2, <2>1, <2>2, <2>3, <2>4, <2>5, <2>6 DEF WatchTypeOK
<1>5. ListInv
  BY DEF ListInv
<1>. QED
  BY <1>3, <1>4, <1>5 DEF KindInv

\* The thread of the benchmark and the child leave the locals of the monitors alone,
\* except for the start of one.
LEMMA KindOthers ==
  KindInv /\ (AddFile \/ ClientStep \/ ChildTruncates \/ ChildWrites \/ ChildEnds
              \/ UNCHANGED watchVars) => KindInv'
<1>. SUFFICES ASSUME KindInv, AddFile \/ ClientStep \/ ChildTruncates \/ ChildWrites
                              \/ ChildEnds \/ UNCHANGED watchVars
              PROVE  KindInv'
  OBVIOUS
<1>. USE WatchAssumption DEF KindInv, Places
<1>1. session \in Nat /\ session' \in 0..MaxSessions /\ client \in Places /\ session <= MaxSessions
      /\ (client' # "idle" => session' \in Session)
  BY DEF WatchTypeOK, AddFile, ClientStep, AddData, StartMonitor, Execute, AwaitChild,
         RemoveFile, RemoveData, ClearAlive, Join, ChildTruncates, ChildWrites, ChildEnds,
         watchVars, clientVars, Goto, Session
<1>2. ListInv'
  <2>1. CASE AddFile
    BY <1>1, <2>1 DEF ListInv, AddFile, Goto
  <2>2. CASE AddData
    BY <1>1, <2>2 DEF ListInv, AddData, Goto
  <2>3. CASE RemoveFile
    BY <1>1, <2>3, OneListener DEF ListInv, RemoveFile, Goto
  <2>4. CASE RemoveData
    BY <1>1, <2>4, OneListener DEF ListInv, RemoveData, Goto
  <2>5. CASE StartMonitor \/ Execute \/ AwaitChild \/ ClearAlive \/ Join
    BY <1>1, <2>5 DEF ListInv, StartMonitor, Execute, AwaitChild, ClearAlive, Join, Goto
  <2>6. CASE ChildTruncates \/ ChildWrites \/ ChildEnds \/ UNCHANGED watchVars
    BY <1>1, <2>6 DEF ListInv, ChildTruncates, ChildWrites, ChildEnds, watchVars, clientVars
  <2>. QED
    BY <2>1, <2>2, <2>3, <2>4, <2>5, <2>6 DEF ClientStep
<1>2a. flst' \in Seq(Session) /\ dlst' \in Seq(Session)
  <2>1. (client' # "idle" => <<session'>> \in Seq(Session)) /\ <<>> \in Seq(Session)
    BY <1>1
  <2>. QED
    BY <1>2, <2>1 DEF ListInv
<1>3. monitor' \in [Session -> Locals] /\ LocalsInv'
  <2>1. CASE StartMonitor
    <3>1. monitor' = [monitor EXCEPT ![session] = [monitor[session] EXCEPT !.pc = "start"]]
      BY <2>1 DEF StartMonitor
    <3>2. monitor \in [Session -> Locals]
      BY DEF WatchTypeOK
    <3>3. \A l \in Locals : [l EXCEPT !.pc = "start"] \in Locals /\ [l EXCEPT !.pc = "start"].pc = "start"
      BY DEF Locals, Before
    <3>4. monitor' \in [Session -> Locals]
          /\ \A s \in Session : monitor'[s] = monitor[s] \/ monitor'[s].pc = "start"
      BY <3>1, <3>2, <3>3
    <3>. QED
      BY <3>4 DEF LocalsInv, Handling
  <2>2. CASE monitor' = monitor
    BY <2>2 DEF LocalsInv, WatchTypeOK
  <2>. QED
    BY <2>1, <2>2 DEF AddFile, ClientStep, AddData, Execute, AwaitChild, RemoveFile, RemoveData,
         ClearAlive, Join, ChildTruncates, ChildWrites, ChildEnds, watchVars
<1>4. /\ delays' \in SUBSET AnyDelay /\ client' \in Places /\ child' \in {"none", "running", "over"}
      /\ alive' \in BOOLEAN /\ file' \in [by : Nat, parts : Nat]
      /\ event' \in [Session -> BOOLEAN] /\ report' \in [Session -> Seq(Lines)]
      /\ shown' \in [Session -> Seq(Lines)] /\ previous' \in [Session -> Nat]
  <2>1. CASE AddFile \/ AddData \/ StartMonitor \/ Execute \/ AwaitChild
    BY <2>1 DEF WatchTypeOK, AddFile, AddData, StartMonitor, Execute, AwaitChild, guiVars, Goto
  <2>2. CASE RemoveFile \/ RemoveData \/ ClearAlive \/ Join
    BY <2>2 DEF WatchTypeOK, RemoveFile, RemoveData, ClearAlive, Join, guiVars, Goto
  <2>3. CASE ChildTruncates \/ ChildWrites
    <3>1. file' \in [by : Nat, parts : Nat]
      BY <1>1, <2>3 DEF WatchTypeOK, ChildTruncates, ChildWrites
    <3>2. event' \in [Session -> BOOLEAN]
      BY <2>3 DEF ChildTruncates, ChildWrites, Notify
    <3>. QED
      BY <2>3, <3>1, <3>2 DEF WatchTypeOK, ChildTruncates, ChildWrites, clientVars, guiVars
  <2>4. CASE ChildEnds \/ UNCHANGED watchVars
    BY <2>4 DEF WatchTypeOK, ChildEnds, watchVars, guiVars
  <2>. QED
    BY <2>1, <2>2, <2>3, <2>4 DEF ClientStep
<1>5. WatchTypeOK'
  <2>1. client' # "idle" => session' # 0
    BY <1>1 DEF Session
  <2>. QED
    BY <2>1, <1>1, <1>2a, <1>3, <1>4 DEF WatchTypeOK
<1>. QED
  BY <1>2, <1>3, <1>5

\* The locals of a monitor thread, field by field.
With(pc, extra, i, fcount, j, dcount, f, d, at, n) ==
  [pc |-> pc, extra |-> extra, i |-> i, fcount |-> fcount, j |-> j, dcount |-> dcount,
   f |-> f, d |-> d, at |-> at, n |-> n]
Becomes(s, r) == monitor' = [monitor EXCEPT ![s] = r]

\* The changes to the locals that the steps make.

\* Only where the thread stands changes.
LEMMA PcChanges ==
  ASSUME NEW m \in Locals, NEW x
  PROVE  [m EXCEPT !.pc = x] = With(x, m.extra, m.i, m.fcount, m.j, m.dcount, m.f, m.d, m.at, m.n)
  BY DEF Locals, With

\* Only the index of the next line changes.
LEMMA AtChanges ==
  ASSUME NEW m \in Locals, NEW x
  PROVE  [m EXCEPT !.at = x] = With(m.pc, m.extra, m.i, m.fcount, m.j, m.dcount, m.f, m.d, x, m.n)
  BY DEF Locals, With

\* The thread goes on, with a number of extra polls.
LEMMA ExtraChanges ==
  ASSUME NEW m \in Locals, NEW x, NEW e
  PROVE  [[m EXCEPT !.pc = x] EXCEPT !.extra = e] =
           With(x, e, m.i, m.fcount, m.j, m.dcount, m.f, m.d, m.at, m.n)
<1>0. [m EXCEPT !.pc = x] = With(x, m.extra, m.i, m.fcount, m.j, m.dcount, m.f, m.d, m.at, m.n)
  BY PcChanges
<1>1. [With(x, m.extra, m.i, m.fcount, m.j, m.dcount, m.f, m.d, m.at, m.n) EXCEPT !.extra = e] =
       With(x, e, m.i, m.fcount, m.j, m.dcount, m.f, m.d, m.at, m.n)
  BY DEF With
<1>. QED
  BY <1>0, <1>1

\* The thread goes on, with another listener to the file.
LEMMA FileMoves ==
  ASSUME NEW m \in Locals, NEW x, NEW i
  PROVE  [[m EXCEPT !.pc = x] EXCEPT !.i = i] =
           With(x, m.extra, i, m.fcount, m.j, m.dcount, m.f, m.d, m.at, m.n)
<1>0. [m EXCEPT !.pc = x] = With(x, m.extra, m.i, m.fcount, m.j, m.dcount, m.f, m.d, m.at, m.n)
  BY PcChanges
<1>1. [With(x, m.extra, m.i, m.fcount, m.j, m.dcount, m.f, m.d, m.at, m.n) EXCEPT !.i = i] =
       With(x, m.extra, i, m.fcount, m.j, m.dcount, m.f, m.d, m.at, m.n)
  BY DEF With
<1>. QED
  BY <1>0, <1>1

\* The thread goes on, with another listener to the data.
LEMMA DataMoves ==
  ASSUME NEW m \in Locals, NEW x, NEW j
  PROVE  [[m EXCEPT !.pc = x] EXCEPT !.j = j] =
           With(x, m.extra, m.i, m.fcount, j, m.dcount, m.f, m.d, m.at, m.n)
<1>0. [m EXCEPT !.pc = x] = With(x, m.extra, m.i, m.fcount, m.j, m.dcount, m.f, m.d, m.at, m.n)
  BY PcChanges
<1>1. [With(x, m.extra, m.i, m.fcount, m.j, m.dcount, m.f, m.d, m.at, m.n) EXCEPT !.j = j] =
       With(x, m.extra, m.i, m.fcount, j, m.dcount, m.f, m.d, m.at, m.n)
  BY DEF With
<1>. QED
  BY <1>0, <1>1

\* The first step of monitorStart.
LEMMA BeginDoes ==
  ASSUME NEW s, NEW m \in Locals, m = monitor[s], MonitorBegin(s)
  PROVE  /\ m.pc = "start"
         /\ Becomes(s, With("register", m.extra, m.i, m.fcount, m.j, m.dcount, m.f, m.d, m.at, m.n))
  BY PcChanges, Zenon DEF MonitorBegin, Monitor, To, Becomes

\* The registration, which may fail.
LEMMA RegisterDoes ==
  ASSUME NEW s, NEW m \in Locals, m = monitor[s], MonitorRegister(s)
  PROVE  /\ m.pc = "register"
         /\ \/ Becomes(s, With("top", ExtraWait, m.i, m.fcount, m.j, m.dcount, m.f, m.d, m.at, m.n))
            \/ /\ "register" \in delays
               /\ Becomes(s, With("ended", m.extra, m.i, m.fcount, m.j, m.dcount, m.f, m.d, m.at, m.n))
<1>1. [To(s, "top") EXCEPT !.extra = ExtraWait] =
       With("top", ExtraWait, m.i, m.fcount, m.j, m.dcount, m.f, m.d, m.at, m.n)
  BY ExtraChanges DEF To
<1>2. To(s, "ended") =
       With("ended", m.extra, m.i, m.fcount, m.j, m.dcount, m.f, m.d, m.at, m.n)
  BY PcChanges DEF To
<1>. QED
  BY <1>1, <1>2 DEF MonitorRegister, Monitor, Becomes

\* The head of the loop, which ends it or counts the extra polls.
LEMMA TopDoes ==
  ASSUME NEW s, NEW m \in Locals, m = monitor[s], MonitorTop(s)
  PROVE  /\ m.pc = "top"
         /\ m.extra = 0 =>
              Becomes(s, With("ended", m.extra, m.i, m.fcount, m.j, m.dcount, m.f, m.d, m.at, m.n))
         /\ m.extra # 0 => \E e \in {m.extra, m.extra - 1} :
              /\ alive => e = m.extra
              /\ Becomes(s, With("poll", e, m.i, m.fcount, m.j, m.dcount, m.f, m.d, m.at, m.n))
<1>1. To(s, "ended") =
       With("ended", m.extra, m.i, m.fcount, m.j, m.dcount, m.f, m.d, m.at, m.n)
  BY PcChanges DEF To
<1>2. [To(s, "poll") EXCEPT !.extra = IF alive THEN m.extra ELSE m.extra - 1] =
       With("poll", IF alive THEN m.extra ELSE m.extra - 1, m.i, m.fcount, m.j, m.dcount, m.f, m.d, m.at, m.n)
  <2>1. PICK e : e = (IF alive THEN m.extra ELSE m.extra - 1)
    OBVIOUS
  <2>2. [[m EXCEPT !.pc = "poll"] EXCEPT !.extra = e] =
         With("poll", e, m.i, m.fcount, m.j, m.dcount, m.f, m.d, m.at, m.n)
    BY ExtraChanges
  <2>. QED
    BY <2>1, <2>2 DEF To
<1>. QED
  BY <1>1, <1>2 DEF MonitorTop, Monitor, Becomes

\* The poll, which takes the length of the list if there are events.
LEMMA PollDoes ==
  ASSUME NEW s, NEW m \in Locals, m = monitor[s], MonitorPoll(s)
  PROVE  /\ m.pc = "poll"
         /\ event[s] =>
              Becomes(s, With("files", m.extra, 1, Len(flst), m.j, m.dcount, m.f, m.d, m.at, m.n))
         /\ ~event[s] =>
              Becomes(s, With("top", m.extra, m.i, m.fcount, m.j, m.dcount, m.f, m.d, m.at, m.n))
<1>1. [To(s, "files") EXCEPT !.i = 1, !.fcount = Len(flst)] =
       With("files", m.extra, 1, Len(flst), m.j, m.dcount, m.f, m.d, m.at, m.n)
  <2>0. To(s, "files") = With("files", m.extra, m.i, m.fcount, m.j, m.dcount, m.f, m.d, m.at, m.n)
    BY PcChanges DEF To
  <2>1. [With("files", m.extra, m.i, m.fcount, m.j, m.dcount, m.f, m.d, m.at, m.n) EXCEPT !.i = 1] =
         With("files", m.extra, 1, m.fcount, m.j, m.dcount, m.f, m.d, m.at, m.n)
    BY DEF With
  <2>2. [To(s, "files") EXCEPT !.i = 1] =
         With("files", m.extra, 1, m.fcount, m.j, m.dcount, m.f, m.d, m.at, m.n)
    BY <2>0, <2>1
  <2>3. [With("files", m.extra, 1, m.fcount, m.j, m.dcount, m.f, m.d, m.at, m.n) EXCEPT !.fcount = Len(flst)] =
         With("files", m.extra, 1, Len(flst), m.j, m.dcount, m.f, m.d, m.at, m.n)
    BY DEF With
  <2>4. [[To(s, "files") EXCEPT !.i = 1] EXCEPT !.fcount = Len(flst)] =
         With("files", m.extra, 1, Len(flst), m.j, m.dcount, m.f, m.d, m.at, m.n)
    BY <2>2, <2>3
  <2>. QED
    BY <2>4
<1>2. To(s, "top") =
       With("top", m.extra, m.i, m.fcount, m.j, m.dcount, m.f, m.d, m.at, m.n)
  BY PcChanges DEF To
<1>. QED
  BY <1>1, <1>2 DEF MonitorPoll, Monitor, Becomes

\* The end of the calls of the listeners.
LEMMA ResetDoes ==
  ASSUME NEW s, NEW m \in Locals, m = monitor[s], MonitorReset(s)
  PROVE  /\ m.pc = "files" /\ m.i > m.fcount
         /\ Becomes(s, With("top", m.extra, m.i, m.fcount, m.j, m.dcount, m.f, m.d, m.at, m.n))
  BY PcChanges, Zenon DEF MonitorReset, Monitor, To, Becomes

\* A call of fileHandler, or the end of the thread when the list got shorter.
LEMMA FileDoes ==
  ASSUME NEW s, NEW m \in Locals, m = monitor[s], MonitorFile(s)
  PROVE  /\ m.pc = "files" /\ m.i <= m.fcount
         /\ \/ /\ m.i > Len(flst) /\ UNCHANGED report
               /\ Becomes(s, With("died", m.extra, m.i, m.fcount, m.j, m.dcount, m.f, m.d, m.at, m.n))
            \/ /\ m.i <= Len(flst)
               /\ Becomes(s, With("data", m.extra, m.i, m.fcount, 1, Len(dlst), m.f, m.d, m.at, m.n))
<1>1. To(s, "died") =
       With("died", m.extra, m.i, m.fcount, m.j, m.dcount, m.f, m.d, m.at, m.n)
  BY PcChanges DEF To
<1>2. [To(s, "data") EXCEPT !.j = 1, !.dcount = Len(dlst)] =
       With("data", m.extra, m.i, m.fcount, 1, Len(dlst), m.f, m.d, m.at, m.n)
  <2>0. To(s, "data") = With("data", m.extra, m.i, m.fcount, m.j, m.dcount, m.f, m.d, m.at, m.n)
    BY PcChanges DEF To
  <2>1. [With("data", m.extra, m.i, m.fcount, m.j, m.dcount, m.f, m.d, m.at, m.n) EXCEPT !.j = 1] =
         With("data", m.extra, m.i, m.fcount, 1, m.dcount, m.f, m.d, m.at, m.n)
    BY DEF With
  <2>2. [To(s, "data") EXCEPT !.j = 1] =
         With("data", m.extra, m.i, m.fcount, 1, m.dcount, m.f, m.d, m.at, m.n)
    BY <2>0, <2>1
  <2>3. [With("data", m.extra, m.i, m.fcount, 1, m.dcount, m.f, m.d, m.at, m.n) EXCEPT !.dcount = Len(dlst)] =
         With("data", m.extra, m.i, m.fcount, 1, Len(dlst), m.f, m.d, m.at, m.n)
    BY DEF With
  <2>4. [[To(s, "data") EXCEPT !.j = 1] EXCEPT !.dcount = Len(dlst)] =
         With("data", m.extra, m.i, m.fcount, 1, Len(dlst), m.f, m.d, m.at, m.n)
    BY <2>2, <2>3
  <2>. QED
    BY <2>4
<1>. QED
  BY <1>1, <1>2 DEF MonitorFile, Monitor, Die, Becomes

\* The look-up of the listeners, the next of them, or the end of the thread.
LEMMA DataDoes ==
  ASSUME NEW s, NEW m \in Locals, m = monitor[s], MonitorData(s)
  PROVE  /\ m.pc = "data"
         /\ \/ /\ m.j > m.dcount
               /\ Becomes(s, With("files", m.extra, m.i + 1, m.fcount, m.j, m.dcount, m.f, m.d, m.at, m.n))
            \/ /\ m.j <= m.dcount /\ (m.i > Len(flst) \/ m.j > Len(dlst))
               /\ Becomes(s, With("died", m.extra, m.i, m.fcount, m.j, m.dcount, m.f, m.d, m.at, m.n))
            \/ /\ m.j <= m.dcount /\ m.i <= Len(flst) /\ m.j <= Len(dlst)
               /\ Becomes(s, With("line", m.extra, m.i, m.fcount, m.j, m.dcount, flst[m.i], dlst[m.j],
                                  previous[dlst[m.j]], Len(report[flst[m.i]])))
<1>1. [To(s, "files") EXCEPT !.i = m.i + 1] =
       With("files", m.extra, m.i + 1, m.fcount, m.j, m.dcount, m.f, m.d, m.at, m.n)
  <2>1. PICK i : i = m.i + 1
    OBVIOUS
  <2>2. [[m EXCEPT !.pc = "files"] EXCEPT !.i = i] =
         With("files", m.extra, i, m.fcount, m.j, m.dcount, m.f, m.d, m.at, m.n)
    BY FileMoves
  <2>. QED
    BY <2>1, <2>2 DEF To
<1>2. To(s, "died") =
       With("died", m.extra, m.i, m.fcount, m.j, m.dcount, m.f, m.d, m.at, m.n)
  BY PcChanges DEF To
<1>3. [To(s, "line") EXCEPT !.f = flst[m.i], !.d = dlst[m.j], !.at = previous[dlst[m.j]],
         !.n = Len(report[flst[m.i]])] =
       With("line", m.extra, m.i, m.fcount, m.j, m.dcount, flst[m.i], dlst[m.j], previous[dlst[m.j]], Len(report[flst[m.i]]))
  <2>0. To(s, "line") = With("line", m.extra, m.i, m.fcount, m.j, m.dcount, m.f, m.d, m.at, m.n)
    BY PcChanges DEF To
  <2>1. [With("line", m.extra, m.i, m.fcount, m.j, m.dcount, m.f, m.d, m.at, m.n) EXCEPT !.f = flst[m.i]] =
         With("line", m.extra, m.i, m.fcount, m.j, m.dcount, flst[m.i], m.d, m.at, m.n)
    BY DEF With
  <2>2. [To(s, "line") EXCEPT !.f = flst[m.i]] =
         With("line", m.extra, m.i, m.fcount, m.j, m.dcount, flst[m.i], m.d, m.at, m.n)
    BY <2>0, <2>1
  <2>3. [With("line", m.extra, m.i, m.fcount, m.j, m.dcount, flst[m.i], m.d, m.at, m.n) EXCEPT !.d = dlst[m.j]] =
         With("line", m.extra, m.i, m.fcount, m.j, m.dcount, flst[m.i], dlst[m.j], m.at, m.n)
    BY DEF With
  <2>4. [[To(s, "line") EXCEPT !.f = flst[m.i]] EXCEPT !.d = dlst[m.j]] =
         With("line", m.extra, m.i, m.fcount, m.j, m.dcount, flst[m.i], dlst[m.j], m.at, m.n)
    BY <2>2, <2>3
  <2>5. [With("line", m.extra, m.i, m.fcount, m.j, m.dcount, flst[m.i], dlst[m.j], m.at, m.n) EXCEPT !.at = previous[dlst[m.j]]] =
         With("line", m.extra, m.i, m.fcount, m.j, m.dcount, flst[m.i], dlst[m.j], previous[dlst[m.j]], m.n)
    BY DEF With
  <2>6. [[[To(s, "line") EXCEPT !.f = flst[m.i]] EXCEPT !.d = dlst[m.j]] EXCEPT !.at = previous[dlst[m.j]]] =
         With("line", m.extra, m.i, m.fcount, m.j, m.dcount, flst[m.i], dlst[m.j], previous[dlst[m.j]], m.n)
    BY <2>4, <2>5
  <2>7. [With("line", m.extra, m.i, m.fcount, m.j, m.dcount, flst[m.i], dlst[m.j], previous[dlst[m.j]], m.n) EXCEPT !.n = Len(report[flst[m.i]])] =
         With("line", m.extra, m.i, m.fcount, m.j, m.dcount, flst[m.i], dlst[m.j], previous[dlst[m.j]], Len(report[flst[m.i]]))
    BY DEF With
  <2>8. [[[[To(s, "line") EXCEPT !.f = flst[m.i]] EXCEPT !.d = dlst[m.j]] EXCEPT !.at = previous[dlst[m.j]]] EXCEPT !.n = Len(report[flst[m.i]])] =
         With("line", m.extra, m.i, m.fcount, m.j, m.dcount, flst[m.i], dlst[m.j], previous[dlst[m.j]], Len(report[flst[m.i]]))
    BY <2>6, <2>7
  <2>. QED
    BY <2>8
<1>. QED
  BY <1>1, <1>2, <1>3 DEF MonitorData, Monitor, Die, Becomes

\* A turn of the loop of dataHandler, its end, or the end of the thread.
LEMMA LineDoes ==
  ASSUME NEW s, NEW m \in Locals, m = monitor[s], MonitorLine(s)
  PROVE  /\ m.pc = "line"
         /\ \/ /\ m.at < m.n /\ m.at < Len(report[m.f]) /\ UNCHANGED previous
               /\ shown' = [shown EXCEPT ![m.d] = Append(@, report[m.f][m.at + 1])]
               /\ Becomes(s, With("line", m.extra, m.i, m.fcount, m.j, m.dcount, m.f, m.d, m.at + 1, m.n))
            \/ /\ m.at < m.n /\ m.at >= Len(report[m.f]) /\ UNCHANGED <<shown, previous>>
               /\ Becomes(s, With("died", m.extra, m.i, m.fcount, m.j, m.dcount, m.f, m.d, m.at, m.n))
            \/ /\ m.at >= m.n /\ UNCHANGED shown
               /\ previous' = [previous EXCEPT ![m.d] = IF @ < m.n THEN m.n ELSE @]
               /\ Becomes(s, With("data", m.extra, m.i, m.fcount, m.j + 1, m.dcount, m.f, m.d, m.at, m.n))
<1>1. [m EXCEPT !.at = m.at + 1] =
       With(m.pc, m.extra, m.i, m.fcount, m.j, m.dcount, m.f, m.d, m.at + 1, m.n)
  <2>1. PICK x : x = m.at + 1
    OBVIOUS
  <2>2. [m EXCEPT !.at = x] =
         With(m.pc, m.extra, m.i, m.fcount, m.j, m.dcount, m.f, m.d, x, m.n)
    BY AtChanges
  <2>. QED
    BY <2>1, <2>2 DEF To
<1>2. To(s, "died") =
       With("died", m.extra, m.i, m.fcount, m.j, m.dcount, m.f, m.d, m.at, m.n)
  BY PcChanges DEF To
<1>3. [To(s, "data") EXCEPT !.j = m.j + 1] =
       With("data", m.extra, m.i, m.fcount, m.j + 1, m.dcount, m.f, m.d, m.at, m.n)
  <2>1. PICK j : j = m.j + 1
    OBVIOUS
  <2>2. [[m EXCEPT !.pc = "data"] EXCEPT !.j = j] =
         With("data", m.extra, m.i, m.fcount, j, m.dcount, m.f, m.d, m.at, m.n)
    BY DataMoves
  <2>. QED
    BY <2>1, <2>2 DEF To
<1>. QED
  BY <1>1, <1>2, <1>3 DEF MonitorLine, Monitor, Die, Becomes

\* Only the monitor that moves changes its locals.
LEMMA Becoming ==
  ASSUME monitor \in [Session -> Locals], NEW s \in Session, NEW r \in Locals, Becomes(s, r)
  PROVE  /\ monitor' \in [Session -> Locals] /\ monitor'[s] = r
         /\ \A q \in Session : q # s => monitor'[q] = monitor[q]
  BY DEF Becomes

\* What the steps of a monitor leave alone.
LEMMA MonitorLeaves ==
  ASSUME NEW s, MonitorStep(s)
  PROVE  /\ UNCHANGED <<clientVars, file, flst, dlst>>
         /\ (MonitorBegin(s) /\ alive' = TRUE) \/ UNCHANGED alive
         /\ (MonitorPoll(s) /\ event' = [event EXCEPT ![s] = FALSE]) \/ UNCHANGED event
         /\ MonitorFile(s) \/ UNCHANGED report
         /\ MonitorLine(s) \/ UNCHANGED <<shown, previous>>
<1>1. CASE MonitorBegin(s)
  BY <1>1 DEF MonitorBegin, guiVars
<1>2. CASE MonitorRegister(s)
  BY <1>2 DEF MonitorRegister, guiVars
<1>3. CASE MonitorTop(s)
  BY <1>3 DEF MonitorTop, guiVars
<1>4. CASE MonitorPoll(s)
  BY <1>4 DEF MonitorPoll, guiVars
<1>5. CASE MonitorReset(s)
  BY <1>5 DEF MonitorReset, guiVars
<1>6. CASE MonitorFile(s)
  BY <1>6 DEF MonitorFile, guiVars
<1>7. CASE MonitorData(s)
  BY <1>7 DEF MonitorData, guiVars
<1>8. CASE MonitorLine(s)
  BY <1>8 DEF MonitorLine, guiVars
<1>. QED
  BY <1>1, <1>2, <1>3, <1>4, <1>5, <1>6, <1>7, <1>8 DEF MonitorStep

\* A monitor changes its own locals, and the records of its own listeners.
LEMMA KindMonitors ==
  ASSUME KindInv, NEW s \in Session, MonitorStep(s)
  PROVE  KindInv'
<1>. DEFINE m == monitor[s]
<1>0. WatchTypeOK /\ LocalsInv /\ ListInv
  BY DEF KindInv
<1>1. m \in Locals /\ monitor \in [Session -> Locals] /\ flst \in Seq(Session) /\ dlst \in Seq(Session)
      /\ previous \in [Session -> Nat] /\ report \in [Session -> Seq(Lines)] /\ ExtraWait \in Nat
      /\ shown \in [Session -> Seq(Lines)]
  BY <1>0, WatchAssumption DEF WatchTypeOK
<1>2. /\ m.extra \in Nat /\ m.i \in Nat /\ m.fcount \in Nat /\ m.j \in Nat /\ m.dcount \in Nat
      /\ m.at \in Nat /\ m.n \in Nat /\ m.f \in Nat /\ m.d \in Nat
  BY <1>1 DEF Locals
<1>3. /\ m.pc \in Handling => m.i >= 1
      /\ m.pc \in {"data", "line"} => m.j >= 1
      /\ m.pc = "line" => m.f \in Session /\ m.d \in Session
  BY <1>0 DEF LocalsInv
<1>. DEFINE Fits(r) == /\ r \in Locals
                       /\ r.pc \in Handling => r.i >= 1
                       /\ r.pc \in {"data", "line"} => r.j >= 1
                       /\ r.pc = "line" => r.f \in Session /\ r.d \in Session
<1>4. \E r : Fits(r) /\ Becomes(s, r)
  <2>. USE DEF Locals, Before, Handling, Over
  <2>0. m.pc \in Before \cup {"top", "poll"} \cup Handling \cup Over
    BY <1>1
  <2>1. CASE MonitorBegin(s)
    <3>1. Fits(With("register", m.extra, m.i, m.fcount, m.j, m.dcount, m.f, m.d, m.at, m.n))
      BY <1>2 DEF With
    <3>. QED
      BY <1>1, <2>1, <3>1, BeginDoes
  <2>2. CASE MonitorRegister(s)
    <3>1. /\ Fits(With("top", ExtraWait, m.i, m.fcount, m.j, m.dcount, m.f, m.d, m.at, m.n))
          /\ Fits(With("ended", m.extra, m.i, m.fcount, m.j, m.dcount, m.f, m.d, m.at, m.n))
      BY <1>1, <1>2 DEF With
    <3>. QED
      BY <1>1, <2>2, <3>1, RegisterDoes
  <2>3. CASE MonitorTop(s)
    <3>1. Fits(With("ended", m.extra, m.i, m.fcount, m.j, m.dcount, m.f, m.d, m.at, m.n))
      BY <1>1, <1>2 DEF With
    <3>2. m.extra # 0 => \A e \in {m.extra, m.extra - 1} :
            Fits(With("poll", e, m.i, m.fcount, m.j, m.dcount, m.f, m.d, m.at, m.n))
      BY <1>1, <1>2 DEF With
    <3>3. CASE m.extra = 0
      BY <1>1, <2>3, <3>1, <3>3, TopDoes
    <3>4. CASE m.extra # 0
      <4>. HIDE DEF Fits
      <4>1. PICK e \in {m.extra, m.extra - 1} :
              Becomes(s, With("poll", e, m.i, m.fcount, m.j, m.dcount, m.f, m.d, m.at, m.n))
        BY <1>1, <2>3, <3>4, TopDoes
      <4>. QED
        BY <3>2, <3>4, <4>1
    <3>. QED
      BY <3>3, <3>4
  <2>4. CASE MonitorPoll(s)
    <3>1. /\ Fits(With("top", m.extra, m.i, m.fcount, m.j, m.dcount, m.f, m.d, m.at, m.n))
          /\ Fits(With("files", m.extra, 1, Len(flst), m.j, m.dcount, m.f, m.d, m.at, m.n))
      BY <1>1, <1>2 DEF With
    <3>. QED
      BY <1>1, <2>4, <3>1, PollDoes
  <2>5. CASE MonitorReset(s)
    <3>1. Fits(With("top", m.extra, m.i, m.fcount, m.j, m.dcount, m.f, m.d, m.at, m.n))
      BY <1>1, <1>2 DEF With
    <3>. QED
      BY <1>1, <2>5, <3>1, ResetDoes
  <2>6. CASE MonitorFile(s)
    <3>1. Fits(With("died", m.extra, m.i, m.fcount, m.j, m.dcount, m.f, m.d, m.at, m.n))
      BY <1>1, <1>2 DEF With
    <3>2. m.pc = "files" =>
            Fits(With("data", m.extra, m.i, m.fcount, 1, Len(dlst), m.f, m.d, m.at, m.n))
      BY <1>1, <1>2, <1>3 DEF With
    <3>. QED
      BY <1>1, <2>6, <3>1, <3>2, FileDoes
  <2>7. CASE MonitorData(s)
    <3>1. Fits(With("died", m.extra, m.i, m.fcount, m.j, m.dcount, m.f, m.d, m.at, m.n))
          /\ Fits(With("files", m.extra, m.i + 1, m.fcount, m.j, m.dcount, m.f, m.d, m.at, m.n))
      BY <1>1, <1>2 DEF With
    <3>2. m.pc = "data" /\ m.i <= Len(flst) /\ m.j <= Len(dlst) =>
            Fits(With("line", m.extra, m.i, m.fcount, m.j, m.dcount, flst[m.i], dlst[m.j],
                      previous[dlst[m.j]], Len(report[flst[m.i]])))
      <4>. SUFFICES ASSUME m.pc = "data", m.i <= Len(flst), m.j <= Len(dlst)
                    PROVE  Fits(With("line", m.extra, m.i, m.fcount, m.j, m.dcount, flst[m.i], dlst[m.j],
                                     previous[dlst[m.j]], Len(report[flst[m.i]])))
        OBVIOUS
      <4>1. m.i >= 1 /\ m.j >= 1
        BY <1>3
      <4>2. flst[m.i] \in Session /\ dlst[m.j] \in Session
        <5>1. m.i \in 1..Len(flst) /\ m.j \in 1..Len(dlst)
          BY <1>1, <1>2, <4>1
        <5>. QED
          BY <1>1, <5>1, Elements, Zenon
      <4>3. previous[dlst[m.j]] \in Nat
        BY <1>1, <4>2
      <4>4. Len(report[flst[m.i]]) \in Nat
        <5>1. report[flst[m.i]] \in Seq(Lines)
          BY <1>1, <4>2
        <5>. QED
          BY <5>1
      <4>5. flst[m.i] \in Nat /\ dlst[m.j] \in Nat
        BY <4>2 DEF Session
      <4>. QED
        BY <1>2, <4>1, <4>2, <4>3, <4>4, <4>5 DEF With
    <3>. QED
      BY <1>1, <2>7, <3>1, <3>2, DataDoes
  <2>8. CASE MonitorLine(s)
    <3>1. Fits(With("died", m.extra, m.i, m.fcount, m.j, m.dcount, m.f, m.d, m.at, m.n))
      BY <1>1, <1>2 DEF With
    <3>2. m.pc = "line" => m.i >= 1 /\ m.j >= 1 /\ m.f \in Session /\ m.d \in Session
      BY <1>3
    <3>3. m.pc = "line" =>
            Fits(With("line", m.extra, m.i, m.fcount, m.j, m.dcount, m.f, m.d, m.at + 1, m.n))
      BY <1>2, <3>2 DEF With
    <3>4. m.pc = "line" =>
            Fits(With("data", m.extra, m.i, m.fcount, m.j + 1, m.dcount, m.f, m.d, m.at, m.n))
      BY <1>2, <3>2 DEF With
    <3>. QED
      BY <1>1, <2>8, <3>1, <3>3, <3>4, LineDoes
  <2>. QED
    BY <2>1, <2>2, <2>3, <2>4, <2>5, <2>6, <2>7, <2>8 DEF MonitorStep
<1>5. PICK r \in Locals :
        /\ Becomes(s, r)
        /\ r.pc \in Handling => r.i >= 1
        /\ r.pc \in {"data", "line"} => r.j >= 1
        /\ r.pc = "line" => r.f \in Session /\ r.d \in Session
  BY <1>4
<1>. HIDE DEF Fits
<1>6. monitor' \in [Session -> Locals] /\ LocalsInv'
  <2>1. /\ monitor' \in [Session -> Locals] /\ monitor'[s] = r
        /\ \A q \in Session : q # s => monitor'[q] = monitor[q]
    BY <1>1, <1>5, Becoming
  <2>. QED
    BY <1>0, <1>5, <2>1 DEF LocalsInv
<1>7. report' \in [Session -> Seq(Lines)]
  <2>1. CASE MonitorFile(s) /\ report' # report
    <3>1. m.i <= Len(flst) /\ m.i >= 1
      BY <1>1, <1>3, <2>1, FileDoes DEF Handling
    <3>2. LinesOf(file) \in Seq(Lines)
      BY <1>0, ReportLines DEF WatchTypeOK
    <3>3. \A k \in 0..Len(LinesOf(file)) : SubSeq(LinesOf(file), 1, k) \in Seq(Lines)
      BY <3>2
    <3>4. PICK l \in Seq(Lines) : report' = [report EXCEPT ![flst[m.i]] = l]
      BY <2>1, <3>2, <3>3 DEF MonitorFile
    <3>. QED
      BY <1>1, <3>4
  <2>. QED
    BY <1>1, <2>1, MonitorLeaves
<1>8. shown' \in [Session -> Seq(Lines)] /\ previous' \in [Session -> Nat]
  <2>1. CASE MonitorLine(s)
    <3>1. m.f \in Session /\ m.d \in Session
      BY <1>1, <1>3, <2>1, LineDoes
    <3>2. CASE m.at < Len(report[m.f]) /\ UNCHANGED previous
               /\ shown' = [shown EXCEPT ![m.d] = Append(@, report[m.f][m.at + 1])]
      <4>1. report[m.f] \in Seq(Lines) /\ shown[m.d] \in Seq(Lines)
        BY <1>1, <3>1
      <4>2. report[m.f][m.at + 1] \in Lines
        BY <1>2, <3>2, <4>1
      <4>3. Append(shown[m.d], report[m.f][m.at + 1]) \in Seq(Lines)
        BY <4>1, <4>2
      <4>. QED
        BY <1>1, <3>2, <4>3
    <3>3. CASE UNCHANGED shown /\ previous' = [previous EXCEPT ![m.d] = IF @ < m.n THEN m.n ELSE @]
      BY <1>1, <1>2, <3>1, <3>3
    <3>4. CASE UNCHANGED <<shown, previous>>
      BY <1>1, <3>4
    <3>. QED
      BY <1>1, <2>1, <3>2, <3>3, <3>4, LineDoes
  <2>. QED
    BY <1>1, <2>1, MonitorLeaves
<1>9. event' \in [Session -> BOOLEAN] /\ alive' \in BOOLEAN
  <2>1. event \in [Session -> BOOLEAN] /\ alive \in BOOLEAN
    BY <1>0 DEF WatchTypeOK
  <2>. QED
    BY <2>1, MonitorLeaves
<1>10. WatchTypeOK'
  BY <1>0, <1>6, <1>7, <1>8, <1>9, MonitorLeaves DEF WatchTypeOK, clientVars
<1>11. ListInv'
  BY <1>0, MonitorLeaves DEF ListInv, clientVars
<1>. QED
  BY <1>6, <1>10, <1>11 DEF KindInv

\* Types, indices and lists hold, whatever may be late.
LEMMA KindStep == KindInv /\ [WatchNext]_watchVars => KindInv'
  BY KindOthers, KindMonitors DEF WatchNext, AllOver

-----------------------------------------------------------------------------
(* The monitor threads take turns, unless one may start late.              *)

Others == AddFile \/ ClientStep \/ ChildTruncates \/ ChildWrites \/ ChildEnds \/ UNCHANGED watchVars

\* How far a step takes a monitor thread.
LEMMA MonitorMoves ==
  ASSUME KindInv, NEW s \in Session, MonitorStep(s)
  PROVE  /\ IsAlive(s) /\ monitor'[s].pc \notin {"none", "start"}
         /\ monitor'[s].pc = "register" => monitor[s].pc = "start"
         /\ MonitorBegin(s) => monitor[s].pc = "start"
         /\ monitor'[s].pc \in Handling => monitor[s].pc \in Handling \/ (monitor[s].pc = "poll" /\ event[s])
         /\ \A q \in Session : q # s => monitor'[q] = monitor[q]
<1>. DEFINE m == monitor[s]
<1>1. m \in Locals /\ monitor \in [Session -> Locals]
  BY DEF KindInv, WatchTypeOK
<1>. USE <1>1 DEF IsAlive, Over, Handling, Becomes, With
<1>2. CASE MonitorBegin(s)
  BY <1>2, BeginDoes
<1>3. CASE MonitorRegister(s)
  BY <1>3, RegisterDoes DEF MonitorBegin, Monitor
<1>4. CASE MonitorTop(s)
  BY <1>4, TopDoes DEF MonitorBegin, Monitor
<1>5. CASE MonitorPoll(s)
  BY <1>5, PollDoes DEF MonitorBegin, Monitor
<1>6. CASE MonitorReset(s)
  BY <1>6, ResetDoes DEF MonitorBegin, Monitor
<1>7. CASE MonitorFile(s)
  BY <1>7, FileDoes DEF MonitorBegin, Monitor
<1>8. CASE MonitorData(s)
  BY <1>8, DataDoes DEF MonitorBegin, Monitor
<1>9. CASE MonitorLine(s)
  BY <1>9, LineDoes DEF MonitorBegin, Monitor
<1>. QED
  BY <1>2, <1>3, <1>4, <1>5, <1>6, <1>7, <1>8, <1>9 DEF MonitorStep

\* The thread of the benchmark lets a monitor end before it starts the next.
LEMMA TurnOthers ==
  ASSUME KindInv, TurnInv, "start" \notin delays, Others
  PROVE  TurnInv'
<1>1. /\ session \in 0..MaxSessions /\ monitor \in [Session -> Locals] /\ MaxSessions \in Nat
      /\ (client # "idle" => session \in Session) /\ session \in Nat
  BY WatchAssumption DEF KindInv, WatchTypeOK, Session
<1>. USE <1>1 DEF TurnInv, IsAlive, Over, Goto
<1>2. CASE AddFile
  BY <1>2 DEF AddFile, Session
<1>3. CASE AddData
  BY <1>3 DEF AddData
<1>4. CASE StartMonitor
  <2>1. /\ monitor'[session].pc = "start"
        /\ \A q \in Session : q # session => monitor'[q] = monitor[q]
    BY <1>4 DEF StartMonitor, Locals
  <2>2. /\ client = "start" /\ client' = "exec"
        /\ UNCHANGED <<delays, session, child, file, alive, flst, dlst, event>>
    BY <1>4 DEF StartMonitor
  <2>. QED
    BY <2>1, <2>2
<1>5. CASE Execute
  BY <1>5 DEF Execute
<1>6. CASE AwaitChild \/ RemoveFile \/ RemoveData \/ ClearAlive
  BY <1>6 DEF AwaitChild, RemoveFile, RemoveData, ClearAlive
<1>7. CASE Join
  BY <1>7 DEF Join
<1>8. CASE ChildTruncates \/ ChildWrites \/ ChildEnds \/ UNCHANGED watchVars
  BY <1>8 DEF ChildTruncates, ChildWrites, ChildEnds, watchVars, clientVars
<1>. QED
  BY <1>2, <1>3, <1>4, <1>5, <1>6, <1>7, <1>8 DEF Others, ClientStep

\* The steps of a monitor keep its turn.
LEMMA TurnMonitors ==
  ASSUME KindInv, TurnInv, NEW s \in Session, MonitorStep(s)
  PROVE  TurnInv'
<1>1. /\ IsAlive(s) /\ monitor'[s].pc \notin {"none", "start"}
      /\ monitor'[s].pc = "register" => monitor[s].pc = "start"
      /\ MonitorBegin(s) => monitor[s].pc = "start"
      /\ \A q \in Session : q # s => monitor'[q] = monitor[q]
  BY MonitorMoves
<1>2. UNCHANGED <<delays, session, client, child>> /\ (MonitorBegin(s) \/ UNCHANGED alive)
  BY MonitorLeaves DEF clientVars
<1>3. s = session /\ client \notin {"idle", "addData", "start"} /\ session \in Nat
  BY <1>1 DEF TurnInv, KindInv, WatchTypeOK
<1>4. \A q \in Session : IsAlive(q)' => q = s
  BY <1>1, <1>3 DEF TurnInv, IsAlive
<1>5. \A q \in Session : q > session => monitor'[q].pc = "none"
  BY <1>1, <1>3 DEF TurnInv, Session
<1>6. \A q \in Session : monitor'[q].pc \in {"start", "register"} => client = "exec"
  BY <1>1 DEF TurnInv
<1>7. client = "join" => ~alive'
  BY <1>1, <1>2, <1>3 DEF TurnInv
<1>. QED
  BY <1>2, <1>3, <1>4, <1>5, <1>6, <1>7 DEF TurnInv, IsAlive

-----------------------------------------------------------------------------
(* A monitor thread reads the report of its own session.                   *)

\* The file belongs to the session whenever its monitor has something to read.
LEMMA ReadOthers ==
  ASSUME KindInv, TurnInv, ReadInv, "start" \notin delays, Others
  PROVE  ReadInv'
<1>1. /\ session \in 0..MaxSessions /\ monitor \in [Session -> Locals] /\ MaxSessions \in Nat
      /\ (client # "idle" => session \in Session) /\ session \in Nat
      /\ file \in [by : Nat, parts : Nat] /\ event \in [Session -> BOOLEAN]
      /\ \A s \in Session : s \in Nat
  BY WatchAssumption DEF KindInv, WatchTypeOK, Session
<1>2. CASE AddFile
  BY <1>1, <1>2 DEF AddFile, Goto, ReadInv, Session
<1>3. CASE StartMonitor
  <2>1. /\ monitor'[session].pc = "start"
        /\ \A q \in Session : q # session => monitor'[q] = monitor[q]
    BY <1>1, <1>3 DEF StartMonitor, Locals, Goto
  <2>2. UNCHANGED <<session, file, event>> /\ client = "start"
    BY <1>3 DEF StartMonitor, Goto
  <2>. QED
    BY <2>1, <2>2 DEF ReadInv, Handling
<1>4. CASE AddData \/ Execute \/ AwaitChild \/ RemoveFile \/ RemoveData \/ ClearAlive \/ Join
  <2>1. UNCHANGED <<session, file, event, monitor>>
    BY <1>4 DEF AddData, Execute, AwaitChild, RemoveFile, RemoveData, ClearAlive, Join
  <2>2. client' \in {"addData", "start", "exec"} => client \in {"addData", "start", "exec"}
    BY <1>4 DEF AddData, Execute, AwaitChild, RemoveFile, RemoveData, ClearAlive, Join, Goto
  <2>. QED
    BY <2>1, <2>2 DEF ReadInv
<1>5. CASE ChildTruncates \/ ChildWrites
  <2>1. UNCHANGED <<session, monitor, client>> /\ file'.by = session /\ client = "wait"
    BY <1>1, <1>5 DEF ChildTruncates, ChildWrites, clientVars, TurnInv
  <2>2. \A s \in Session : event'[s] => event[s] \/ IsAlive(s)
    BY <1>5 DEF ChildTruncates, ChildWrites, Notify, Watching
  <2>3. \A s \in Session : IsAlive(s) => s = session
    BY DEF TurnInv
  <2>4. \A s \in Session : monitor[s].pc \in Handling => IsAlive(s)
    BY DEF IsAlive, Handling, Over
  <2>. QED
    BY <1>1, <2>1, <2>2, <2>3, <2>4 DEF ReadInv
<1>6. CASE ChildEnds \/ UNCHANGED watchVars
  BY <1>6 DEF ReadInv, ChildEnds, watchVars, clientVars
<1>. QED
  BY <1>2, <1>3, <1>4, <1>5, <1>6 DEF Others, ClientStep

\* A monitor begins to handle only what was written in its session.
LEMMA ReadMonitors ==
  ASSUME KindInv, TurnInv, ReadInv, NEW s \in Session, MonitorStep(s)
  PROVE  ReadInv'
<1>1. /\ IsAlive(s)
      /\ monitor'[s].pc \in Handling => monitor[s].pc \in Handling \/ (monitor[s].pc = "poll" /\ event[s])
      /\ \A q \in Session : q # s => monitor'[q] = monitor[q]
  BY MonitorMoves
<1>2. s = session
  BY <1>1 DEF TurnInv
<1>3. UNCHANGED <<session, client, file>> /\ (event' = [event EXCEPT ![s] = FALSE] \/ UNCHANGED event)
  BY MonitorLeaves DEF clientVars
<1>4. \A q \in Session : event'[q] => event[q]
  BY <1>3 DEF KindInv, WatchTypeOK
<1>5. session \in Session
  BY <1>2
<1>6. \A q \in Session : monitor'[q].pc \in Handling => file.by = q
  BY <1>1, <1>2 DEF ReadInv, Session
<1>. QED
  BY <1>3, <1>4, <1>5, <1>6 DEF ReadInv

-----------------------------------------------------------------------------
(* Each session shows its own lines in their order.                        *)

\* The only entry of a list is the listener of the session.
LEMMA OneEntry ==
  ASSUME KindInv, NEW k \in Nat, k >= 1
  PROVE  /\ k <= Len(flst) => k = 1 /\ flst[k] = session
         /\ k <= Len(dlst) => k = 1 /\ dlst[k] = session
<1>1. ListInv
  BY DEF KindInv
<1>2. ASSUME k <= Len(flst) PROVE k = 1 /\ flst[k] = session
  <2>1. CASE flst = <<session>>
    BY <1>2, <2>1
  <2>2. CASE flst = <<>>
    BY <1>2, <2>2
  <2>. QED
    BY <1>1, <2>1, <2>2 DEF ListInv
<1>3. ASSUME k <= Len(dlst) PROVE k = 1 /\ dlst[k] = session
  <2>1. CASE dlst = <<session>>
    BY <1>3, <2>1
  <2>2. CASE dlst = <<>>
    BY <1>3, <2>2
  <2>. QED
    BY <1>1, <2>1, <2>2 DEF ListInv
<1>. QED
  BY <1>2, <1>3

\* The thread of the benchmark and the child do not touch what is shown.
LEMMA ShownOthers ==
  ASSUME KindInv, TurnInv, ShownInv, Others
  PROVE  ShownInv'
<1>1. UNCHANGED <<report, shown, previous>>
  BY DEF Others, AddFile, ClientStep, AddData, StartMonitor, Execute, AwaitChild, RemoveFile, RemoveData,
         ClearAlive, Join, ChildTruncates, ChildWrites, ChildEnds, watchVars, guiVars
<1>2. CASE StartMonitor
  <2>1. session \in Session /\ monitor \in [Session -> Locals]
    BY <1>2 DEF KindInv, WatchTypeOK, StartMonitor, Goto, Session
  <2>2. /\ monitor'[session].pc = "start"
        /\ \A q \in Session : q # session => monitor'[q] = monitor[q]
    BY <1>2, <2>1 DEF StartMonitor, Locals, Goto
  <2>3. monitor[session].pc = "none"
    BY <1>2, <2>1 DEF TurnInv, StartMonitor, Goto
  <2>4. ASSUME NEW q \in Session
        PROVE  /\ monitor'[q].pc \in Before => monitor[q].pc \in Before
               /\ monitor'[q].pc \notin {"line", "died"} => monitor[q].pc \notin {"line", "died"}
               /\ monitor'[q].pc = "line" => monitor'[q] = monitor[q]
    BY <2>2, <2>3 DEF Before
  <2>. QED
    BY <1>1, <2>4 DEF ShownInv, Own
<1>3. CASE UNCHANGED monitor
  BY <1>1, <1>3 DEF ShownInv, Own
<1>. QED
  BY <1>2, <1>3 DEF Others, AddFile, ClientStep, AddData, Execute, AwaitChild, RemoveFile, RemoveData,
         ClearAlive, Join, ChildTruncates, ChildWrites, ChildEnds, watchVars

\* A step that changes neither list of lines leaves to show the loop as it is.
LEMMA ShownElsewhere ==
  ASSUME KindInv, ShownInv, NEW s \in Session,
         MonitorBegin(s) \/ MonitorRegister(s) \/ MonitorTop(s) \/ MonitorPoll(s) \/ MonitorReset(s)
  PROVE  /\ monitor'[s].pc \in Before => monitor[s].pc \in Before
         /\ {monitor[s].pc, monitor'[s].pc} \cap {"line", "died"} = {}
<1>1. monitor[s] \in Locals /\ monitor \in [Session -> Locals]
  BY DEF KindInv, WatchTypeOK
<1>. QED
  BY <1>1, BeginDoes, RegisterDoes, TopDoes, PollDoes, ResetDoes DEF Before, Becomes, With

\* The handlers show what follows, and count it.
LEMMA ShownMonitors ==
  ASSUME KindInv, TurnInv, ReadInv, ShownInv, NEW s \in Session, MonitorStep(s)
  PROVE  ShownInv'
<1>. DEFINE m == monitor[s]
            Mine == /\ Own(report[s], s) /\ Own(shown[s], s)
                    /\ m.pc \in Before => shown[s] = <<>>
                    /\ m.pc \notin {"line", "died"} => previous[s] = Len(shown[s])
                    /\ m.pc = "line" =>
                         /\ m.f = s /\ m.d = s
                         /\ m.at = Len(shown[s]) /\ m.n = Len(report[s])
                         /\ previous[s] <= m.at
                         /\ m.at <= m.n \/ m.at = previous[s]
<1>1. m \in Locals /\ monitor \in [Session -> Locals] /\ previous \in [Session -> Nat]
      /\ report \in [Session -> Seq(Lines)] /\ shown \in [Session -> Seq(Lines)]
      /\ file \in [by : Nat, parts : Nat]
  BY DEF KindInv, WatchTypeOK
<1>2. /\ m.i \in Nat /\ m.j \in Nat /\ m.at \in Nat /\ m.n \in Nat
  BY <1>1 DEF Locals
<1>3. /\ m.pc \in Handling => m.i >= 1
      /\ m.pc \in {"data", "line"} => m.j >= 1
  BY DEF KindInv, LocalsInv
<1>4. s = session /\ (m.pc \in Handling => file.by = s)
  BY MonitorMoves DEF TurnInv, ReadInv
<1>5. Mine
  BY DEF ShownInv
<1>6. /\ MonitorFile(s) \/ UNCHANGED report
      /\ MonitorLine(s) \/ UNCHANGED <<shown, previous>>
  BY MonitorLeaves
\* The other sessions.
<1>7. \A q \in Session : q # s => /\ monitor'[q] = monitor[q] /\ report'[q] = report[q]
                                  /\ shown'[q] = shown[q] /\ previous'[q] = previous[q]
  <2>1. \A q \in Session : q # s => monitor'[q] = monitor[q]
    BY MonitorMoves
  <2>2. \A q \in Session : q # s => report'[q] = report[q]
    <3>1. CASE MonitorFile(s) /\ report' # report
      <4>1. flst[m.i] = session
        BY <1>1, <1>2, <1>3, <3>1, FileDoes, OneEntry DEF Handling
      <4>2. \E l : report' = [report EXCEPT ![flst[m.i]] = l]
        BY <3>1 DEF MonitorFile
      <4>. QED
        BY <1>1, <1>4, <4>1, <4>2
    <3>. QED
      BY <1>6, <3>1
  <2>3. \A q \in Session : q # s => shown'[q] = shown[q] /\ previous'[q] = previous[q]
    <3>1. CASE MonitorLine(s)
      <4>1. m.d = s
        BY <1>1, <1>5, <3>1, LineDoes
      <4>2. /\ UNCHANGED shown \/ \E l : shown' = [shown EXCEPT ![m.d] = l]
            /\ UNCHANGED previous \/ \E n : previous' = [previous EXCEPT ![m.d] = n]
        BY <1>1, <3>1, LineDoes, Zenon
      <4>. QED
        BY <1>1, <4>1, <4>2
    <3>. QED
      BY <1>6, <3>1
  <2>. QED
    BY <2>1, <2>2, <2>3
<1>8. Mine'
  <2>1. CASE MonitorBegin(s) \/ MonitorRegister(s) \/ MonitorTop(s) \/ MonitorPoll(s) \/ MonitorReset(s)
    <3>1. UNCHANGED <<report, shown, previous>>
      BY <2>1 DEF MonitorBegin, MonitorRegister, MonitorTop, MonitorPoll, MonitorReset, guiVars
    <3>2. /\ monitor'[s].pc \in Before => monitor[s].pc \in Before
          /\ {monitor[s].pc, monitor'[s].pc} \cap {"line", "died"} = {}
      BY <2>1, ShownElsewhere
    <3>. QED
      BY <1>5, <3>1, <3>2 DEF Own
  <2>2. CASE MonitorFile(s)
    <3>1. Own(report'[s], s)
      <4>1. CASE UNCHANGED report
        BY <1>5, <4>1 DEF Own
      <4>2. CASE report' # report
        <5>1. flst[m.i] = s
          BY <1>1, <1>2, <1>3, <1>4, <2>2, <4>2, FileDoes, OneEntry DEF Handling
        <5>2. file.by = s
          BY <1>1, <1>4, <2>2, FileDoes DEF Handling
        <5>3. LinesOf(file) \in Seq(Lines) /\ Own(LinesOf(file), s)
          BY <1>1, <5>2, ReportLines
        <5>4. \A k \in 0..Len(LinesOf(file)) : Own(SubSeq(LinesOf(file), 1, k), s)
          BY <5>3 DEF Own
        <5>5. \E l : report' = [report EXCEPT ![flst[m.i]] = l] /\ Own(l, s)
          BY <2>2, <4>2, <5>3, <5>4 DEF MonitorFile
        <5>. QED
          BY <1>1, <5>1, <5>5
      <4>. QED
        BY <4>1, <4>2
    <3>2. m.pc = "files" /\ monitor'[s].pc \in {"died", "data"}
      BY <1>1, <2>2, FileDoes DEF Becomes, With
    <3>3. UNCHANGED <<shown, previous>>
      BY <2>2 DEF MonitorFile
    <3>. QED
      BY <1>5, <3>1, <3>2, <3>3 DEF Own, Before
  <2>3. CASE MonitorData(s)
    <3>1. UNCHANGED <<report, shown, previous>>
      BY <2>3 DEF MonitorData, guiVars
    <3>2. m.pc = "data"
      BY <1>1, <2>3, DataDoes
    <3>3. CASE monitor'[s].pc \in {"files", "died"}
      BY <1>5, <3>1, <3>2, <3>3 DEF Own, Before
    <3>4. CASE monitor'[s].pc = "line"
      <4>1. /\ m.i <= Len(flst) /\ m.j <= Len(dlst)
            /\ Becomes(s, With("line", m.extra, m.i, m.fcount, m.j, m.dcount, flst[m.i], dlst[m.j],
                               previous[dlst[m.j]], Len(report[flst[m.i]])))
        BY <1>1, <2>3, <3>4, DataDoes DEF Becomes, With
      <4>2. flst[m.i] = s /\ dlst[m.j] = s
        BY <1>2, <1>3, <1>4, <3>2, <4>1, OneEntry DEF Handling
      <4>3. /\ monitor'[s].f = s /\ monitor'[s].d = s /\ monitor'[s].at = previous[s]
            /\ monitor'[s].n = Len(report[s])
        BY <1>1, <4>1, <4>2 DEF Becomes, With
      <4>. QED
        BY <1>1, <1>5, <3>1, <3>2, <3>4, <4>3 DEF Own, Before
    <3>. QED
      BY <1>1, <2>3, <3>3, <3>4, DataDoes DEF Becomes, With
  <2>4. CASE MonitorLine(s)
    <3>1. UNCHANGED report /\ m.pc = "line"
      <4>1. m.pc = "line"
        BY <1>1, <2>4, LineDoes
      <4>. QED
        BY <2>4, <4>1 DEF MonitorLine
    <3>2. /\ m.f = s /\ m.d = s /\ m.at = Len(shown[s]) /\ m.n = Len(report[s])
          /\ previous[s] <= m.at /\ (m.at <= m.n \/ m.at = previous[s]) /\ previous[s] \in Nat
      BY <1>1, <1>5, <3>1
    <3>3. CASE /\ m.at < m.n /\ UNCHANGED previous
               /\ shown' = [shown EXCEPT ![m.d] = Append(@, report[m.f][m.at + 1])]
               /\ Becomes(s, With("line", m.extra, m.i, m.fcount, m.j, m.dcount, m.f, m.d, m.at + 1, m.n))
      <4>1. shown'[s] = Append(shown[s], report[s][m.at + 1])
        BY <1>1, <3>2, <3>3
      <4>2. report[s][m.at + 1].by = s /\ report[s][m.at + 1].number = m.at + 1
        BY <1>1, <1>2, <1>5, <3>2, <3>3 DEF Own
      <4>3. Own(shown'[s], s) /\ Len(shown'[s]) = m.at + 1
        BY <1>1, <1>5, <3>2, <4>1, <4>2 DEF Own
      <4>4. /\ monitor'[s].pc = "line" /\ monitor'[s].f = m.f /\ monitor'[s].d = m.d
            /\ monitor'[s].at = m.at + 1 /\ monitor'[s].n = m.n
        BY <1>1, <3>3 DEF Becomes, With
      <4>. QED
        BY <1>2, <1>5, <3>1, <3>2, <3>3, <4>3, <4>4 DEF Before
    <3>4. CASE /\ m.at < m.n /\ m.at >= Len(report[m.f])
      BY <1>2, <3>2, <3>4
    <3>5. CASE /\ m.at >= m.n /\ UNCHANGED shown
               /\ previous' = [previous EXCEPT ![m.d] = IF @ < m.n THEN m.n ELSE @]
               /\ Becomes(s, With("data", m.extra, m.i, m.fcount, m.j + 1, m.dcount, m.f, m.d, m.at, m.n))
      <4>1. previous'[s] = IF previous[s] < m.n THEN m.n ELSE previous[s]
        BY <1>1, <3>2, <3>5
      <4>2. previous'[s] = Len(shown[s])
        BY <1>2, <3>2, <3>5, <4>1
      <4>3. monitor'[s].pc = "data"
        BY <1>1, <3>5 DEF Becomes, With
      <4>. QED
        BY <1>5, <3>1, <3>5, <4>2, <4>3 DEF Own, Before
    <3>. QED
      BY <1>1, <2>4, <3>3, <3>4, <3>5, LineDoes
  <2>. QED
    BY <2>1, <2>2, <2>3, <2>4 DEF MonitorStep
<1>. QED
  BY <1>7, <1>8 DEF ShownInv, Own

-----------------------------------------------------------------------------
(* Nothing is missing when nothing is late and nothing fails.              *)

Under  == {"exec", "wait", "removeFile", "removeData", "clear"}
Behind == {"removeData", "clear", "join", "idle"}

\* The child leaves an event behind what it writes, and the list of listeners is
\* emptied only when none waits.
LEMMA CompleteOthers ==
  ASSUME KindInv, TurnInv, ReadInv, ShownInv, CompleteInv, delays = {}, Others
  PROVE  CompleteInv'
<1>. DEFINE m == monitor[session]
<1>1. /\ session \in 0..MaxSessions /\ monitor \in [Session -> Locals] /\ MaxSessions \in Nat
      /\ session \in Nat /\ file \in [by : Nat, parts : Nat] /\ event \in [Session -> BOOLEAN]
      /\ shown \in [Session -> Seq(Lines)] /\ report \in [Session -> Seq(Lines)]
      /\ (client # "idle" => session # 0) /\ Len(LinesOf(file)) \in Nat
  BY WatchAssumption, ReportLines DEF KindInv, WatchTypeOK
<1>2. session # 0 => session \in Session
  BY <1>1 DEF Session
<1>3. UNCHANGED <<shown, report>> /\ delays' = delays
  BY DEF Others, AddFile, ClientStep, AddData, StartMonitor, Execute, AwaitChild, RemoveFile, RemoveData,
         ClearAlive, Join, ChildTruncates, ChildWrites, ChildEnds, watchVars, clientVars, guiVars
<1>4. session # 0 =>
        /\ client \in Under => IsAlive(session) /\ (m.pc # "start" => alive) /\ (Watching(session) => m.extra # 0)
        /\ event[session] \/ m.pc \in Handling => client \in {"wait", "removeFile"}
        /\ m.pc \in Handling => m.fcount = 1
        /\ m.pc \in {"data", "line"} => /\ m.dcount = 1 /\ m.i = 1
                                        /\ Len(shown[session]) <= Len(report[session])
                                        /\ Len(report[session]) <= Len(LinesOf(file))
        /\ file.by # session => shown[session] = <<>>
        /\ file.by = session => Len(shown[session]) <= Len(LinesOf(file))
        /\ (file.by = session /\ ~event[session]) =>
             /\ m.pc \in {"top", "poll"} => UpToDate
             /\ (m.pc = "files" /\ m.i > 1) => UpToDate
             /\ m.pc \in {"data", "line"} => Len(report[session]) = Len(LinesOf(file))
             /\ (m.pc = "data" /\ m.j > 1) => UpToDate
        /\ (client \in Behind /\ file.by = session) => UpToDate
  BY DEF CompleteInv, Under, Behind
<1>5. session # 0 =>
        /\ m.pc \in {"start", "register"} => client = "exec"
        /\ client \in {"addData", "start"} => m.pc = "none"
        /\ m.pc \in Handling => file.by = session
        /\ client \in {"addData", "start", "exec"} => file.by # session
        /\ event[session] => file.by = session
  BY <1>2 DEF TurnInv, ReadInv
<1>6. CASE AddFile
  <2>1. /\ session' = session + 1 /\ session' \in Session /\ client' = "addData"
        /\ UNCHANGED <<file, event, monitor>>
    BY <1>1, <1>6 DEF AddFile, Goto, Session
  <2>2. monitor[session'].pc = "none" /\ ~event[session'] /\ file.by # session'
    BY <1>1, <2>1 DEF TurnInv, ReadInv
  <2>3. shown[session'] = <<>>
    BY <2>1, <2>2 DEF ShownInv, Before
  <2>. QED
    BY <1>3, <2>1, <2>2, <2>3 DEF CompleteInv, Handling
\* The steps of the client within a session.
<1>7. CASE StartMonitor
  <2>1. /\ client = "start" /\ client' = "exec" /\ monitor'[session].pc = "start"
        /\ UNCHANGED <<session, file, event, alive>> /\ session # 0
    BY <1>1, <1>2, <1>7 DEF StartMonitor, Goto, Locals
  <2>2. ~event[session]
    BY <1>4, <2>1
  <2>. QED
    BY <1>3, <1>4, <1>5, <2>1, <2>2 DEF CompleteInv, Handling, IsAlive, Watching, Over
<1>8. CASE AddData \/ Execute \/ AwaitChild \/ RemoveData \/ ClearAlive \/ Join
  <2>1. /\ UNCHANGED <<session, file, event, monitor>> /\ session # 0
        /\ client' = "join" \/ UNCHANGED alive
    BY <1>1, <1>8 DEF AddData, Execute, AwaitChild, RemoveData, ClearAlive, Join, Goto
  <2>2. \/ client = "addData" /\ client' = "start"
        \/ client = "exec" /\ client' \in {"wait", "removeFile"}
        \/ client = "wait" /\ client' = "removeFile"
        \/ client = "removeData" /\ client' = "clear"
        \/ client = "clear" /\ client' = "join"
        \/ client = "join" /\ client' = "idle"
    BY <1>8 DEF AddData, Execute, AwaitChild, RemoveData, ClearAlive, Join, Goto
  <2>3. client' \in Under => client \in Under /\ UNCHANGED alive
    BY <2>1, <2>2 DEF Under
  <2>4. event[session] \/ m.pc \in Handling => client' \in {"wait", "removeFile"}
    BY <1>4, <2>1, <2>2
  <2>5. client' \in Behind /\ file.by = session => client \in Behind
    BY <1>5, <2>1, <2>2 DEF Behind
  <2>. QED
    BY <1>3, <1>4, <2>1, <2>3, <2>4, <2>5 DEF CompleteInv, Under, Behind, IsAlive, Watching, UpToDate
<1>9. CASE RemoveFile
  <2>1. /\ UNCHANGED <<session, file, event, monitor, alive>> /\ session # 0 /\ Quiet(session)
        /\ client = "removeFile" /\ client' = "removeData"
    BY <1>1, <1>9 DEF RemoveFile, Goto
  <2>2. ~event[session] /\ m.pc \in {"top", "poll"}
    BY <1>4, <1>5, <2>1 DEF Quiet, Watching, Under
  <2>. QED
    BY <1>3, <1>4, <2>1, <2>2 DEF CompleteInv, Under, Handling, IsAlive, Watching, UpToDate
<1>10. CASE ChildTruncates \/ ChildWrites
  <2>1. /\ UNCHANGED <<session, client, alive, monitor>> /\ client = "wait" /\ session # 0
        /\ file' \in [by : Nat, parts : Nat] /\ file'.by = session
    BY <1>1, <1>10 DEF TurnInv, ChildTruncates, ChildWrites, clientVars
  <2>2. IsAlive(session) /\ Watching(session)
    BY <1>4, <1>5, <2>1 DEF Under, Watching
  <2>3. event'[session]
    BY <1>1, <1>2, <1>10, <2>1, <2>2 DEF ChildTruncates, ChildWrites, Notify
  <2>4. Len(shown[session]) <= Len(LinesOf(file'))
        /\ (m.pc \in Handling => Len(LinesOf(file)) <= Len(LinesOf(file')))
    <3>1. CASE ChildTruncates
      <4>1. file' = [by |-> session, parts |-> 0] /\ file.by # session
        BY <3>1 DEF ChildTruncates
      <4>2. Len(LinesOf(file')) = 0
        BY <1>1, <4>1, ReportGrows
      <4>3. shown[session] = <<>> /\ m.pc \notin Handling
        BY <1>4, <1>5, <2>1, <4>1
      <4>. QED
        BY <4>2, <4>3
    <3>2. CASE ChildWrites
      <4>1. file' = [file EXCEPT !.parts = @ + 1] /\ file.by = session
        BY <3>2 DEF ChildWrites
      <4>2. Len(LinesOf(file)) <= Len(LinesOf(file')) /\ Len(LinesOf(file')) \in Nat
        BY <1>1, <2>1, <4>1, ReportGrows, ReportLines
      <4>3. Len(shown[session]) \in Nat
        BY <1>1, <1>2, <2>1
      <4>. QED
        BY <1>1, <1>4, <2>1, <4>1, <4>2, <4>3
    <3>. QED
      BY <1>10, <3>1, <3>2
  <2>5. m.pc \in {"data", "line"} => Len(report[session]) <= Len(LinesOf(file'))
    <3>1. Len(report[session]) \in Nat /\ Len(LinesOf(file')) \in Nat
      BY <1>1, <1>2, <2>1, ReportLines
    <3>. QED
      BY <1>1, <1>4, <2>1, <2>4, <3>1 DEF Handling
  <2>. QED
    BY <1>3, <1>4, <2>1, <2>3, <2>4, <2>5 DEF CompleteInv, Under, IsAlive, Watching
<1>11. CASE ChildEnds \/ UNCHANGED watchVars
  BY <1>3, <1>11 DEF CompleteInv, ChildEnds, watchVars, IsAlive, Watching, UpToDate
<1>. QED
  BY <1>6, <1>7, <1>8, <1>9, <1>10, <1>11 DEF Others, ClientStep

\* The handlers catch up with the file before they stop.
LEMMA CompleteMonitors ==
  ASSUME KindInv, TurnInv, ReadInv, ShownInv, CompleteInv, delays = {}, NEW s \in Session, MonitorStep(s)
  PROVE  CompleteInv'
<1>. DEFINE m == monitor[s]
            L == Len(LinesOf(file))
<1>1. /\ m \in Locals /\ monitor \in [Session -> Locals] /\ event \in [Session -> BOOLEAN]
      /\ shown \in [Session -> Seq(Lines)] /\ report \in [Session -> Seq(Lines)]
      /\ file \in [by : Nat, parts : Nat] /\ L \in Nat /\ ExtraWait \in Nat \ {0}
      /\ Len(shown[s]) \in Nat /\ Len(report[s]) \in Nat
  BY WatchAssumption, ReportLines DEF KindInv, WatchTypeOK
<1>2. /\ m.i \in Nat /\ m.j \in Nat /\ m.at \in Nat /\ m.n \in Nat /\ m.extra \in Nat /\ m.fcount \in Nat
      /\ m.dcount \in Nat
  BY <1>1 DEF Locals
<1>3. s = session /\ s # 0 /\ client \notin {"idle", "addData", "start"} /\ client \in Places
  BY MonitorMoves DEF TurnInv, Session, KindInv, WatchTypeOK
<1>4. /\ UNCHANGED <<delays, session, client, file>>
      /\ (MonitorBegin(s) /\ alive' = TRUE) \/ UNCHANGED alive
      /\ (MonitorPoll(s) /\ event' = [event EXCEPT ![s] = FALSE]) \/ UNCHANGED event
      /\ MonitorFile(s) \/ UNCHANGED report
      /\ MonitorLine(s) \/ UNCHANGED <<shown, previous>>
  BY MonitorLeaves DEF clientVars
<1>5. /\ client \in Under => IsAlive(s) /\ (m.pc # "start" => alive) /\ (Watching(s) => m.extra # 0)
      /\ event[s] \/ m.pc \in Handling => client \in {"wait", "removeFile"}
      /\ m.pc \in Handling => m.fcount = 1
      /\ m.pc \in {"data", "line"} => /\ m.dcount = 1 /\ m.i = 1
                                      /\ Len(shown[s]) <= Len(report[s]) /\ Len(report[s]) <= L
      /\ file.by # s => shown[s] = <<>>
      /\ file.by = s => Len(shown[s]) <= L
      /\ (file.by = s /\ ~event[s]) =>
           /\ m.pc \in {"top", "poll"} => Len(shown[s]) = L
           /\ (m.pc = "files" /\ m.i > 1) => Len(shown[s]) = L
           /\ m.pc \in {"data", "line"} => Len(report[s]) = L
           /\ (m.pc = "data" /\ m.j > 1) => Len(shown[s]) = L
      /\ (client \in Behind /\ file.by = s) => Len(shown[s]) = L
  BY <1>3 DEF CompleteInv, Under, Behind, UpToDate
<1>6. /\ m.pc \in {"start", "register"} => client = "exec"
      /\ m.pc \in Handling => file.by = s
      /\ client = "exec" => file.by # s
      /\ event[s] => file.by = s
  BY <1>3 DEF TurnInv, ReadInv
<1>7. /\ m.pc \in Handling => m.i >= 1
      /\ m.pc \in {"data", "line"} => m.j >= 1
  BY DEF KindInv, LocalsInv
<1>8. client \in {"wait", "removeFile"} => flst = <<session>> /\ dlst = <<session>>
  BY DEF KindInv, ListInv
\* What has to hold after the step.
<1>9. SUFFICES
        LET n == monitor'[s] IN
        /\ client \in Under => /\ n.pc \notin {"none", "ended", "died"} /\ (n.pc # "start" => alive')
                               /\ n.pc \notin {"start", "register"} => n.extra # 0
        /\ event'[s] \/ n.pc \in Handling => client \in {"wait", "removeFile"}
        /\ n.pc \in Handling => n.fcount = 1
        /\ n.pc \in {"data", "line"} => /\ n.dcount = 1 /\ n.i = 1
                                        /\ Len(shown'[s]) <= Len(report'[s]) /\ Len(report'[s]) <= L
        /\ file.by # s => shown'[s] = <<>>
        /\ file.by = s => Len(shown'[s]) <= L
        /\ (file.by = s /\ ~event'[s]) =>
             /\ n.pc \in {"top", "poll"} => Len(shown'[s]) = L
             /\ (n.pc = "files" /\ n.i > 1) => Len(shown'[s]) = L
             /\ n.pc \in {"data", "line"} => Len(report'[s]) = L
             /\ (n.pc = "data" /\ n.j > 1) => Len(shown'[s]) = L
        /\ (client \in Behind /\ file.by = s) => Len(shown'[s]) = L
  BY <1>3, <1>4 DEF CompleteInv, Under, Behind, UpToDate, IsAlive, Watching, Over
<1>. USE DEF Becomes, With
<1>11. CASE MonitorBegin(s)
  <2>1. /\ monitor'[s].pc = "register" /\ alive' = TRUE
        /\ UNCHANGED <<event, report, shown>> /\ m.pc = "start"
    BY <1>1, <1>11, BeginDoes DEF MonitorBegin, guiVars
  <2>. QED
    BY <1>4, <1>5, <1>6, <2>1 DEF Handling
<1>12. CASE MonitorRegister(s)
  <2>1. /\ monitor'[s].pc = "top" /\ monitor'[s].extra = ExtraWait /\ m.pc = "register"
    BY <1>1, <1>12, RegisterDoes
  <2>2. UNCHANGED <<event, report, shown, alive>>
    BY <1>12 DEF MonitorRegister, guiVars
  <2>. QED
    BY <1>1, <1>4, <1>5, <1>6, <2>1, <2>2 DEF Handling, Under
<1>13. CASE MonitorTop(s)
  <2>1. UNCHANGED <<event, report, shown, alive>>
    BY <1>13 DEF MonitorTop, guiVars
  <2>2. m.pc = "top"
    BY <1>1, <1>13, TopDoes
  <2>3. CASE m.extra = 0
    <3>1. monitor'[s].pc = "ended"
      BY <1>1, <1>13, <2>3, TopDoes
    <3>2. client \notin Under
      BY <1>5, <2>2, <2>3 DEF Watching
    <3>. QED
      BY <1>5, <2>1, <3>1, <3>2 DEF Handling
  <2>4. CASE m.extra # 0
    <3>1. monitor'[s].pc = "poll" /\ (alive => monitor'[s].extra = m.extra)
      <4>1. PICK e \in {m.extra, m.extra - 1} :
              /\ alive => e = m.extra
              /\ Becomes(s, With("poll", e, m.i, m.fcount, m.j, m.dcount, m.f, m.d, m.at, m.n))
        BY <1>1, <1>13, <2>4, TopDoes
      <4>. QED
        BY <1>1, <4>1
    <3>. QED
      BY <1>5, <2>1, <2>2, <2>4, <3>1 DEF Handling
  <2>. QED
    BY <2>3, <2>4
<1>14. CASE MonitorPoll(s)
  <2>1. UNCHANGED <<report, shown, alive>> /\ ~event'[s]
    BY <1>1, <1>14 DEF MonitorPoll, guiVars
  <2>2. m.pc = "poll"
    BY <1>1, <1>14, PollDoes
  <2>3. CASE event[s]
    <3>1. /\ monitor'[s].pc = "files" /\ monitor'[s].i = 1 /\ monitor'[s].fcount = Len(flst)
          /\ monitor'[s].extra = m.extra
      BY <1>1, <1>14, <2>3, PollDoes
    <3>2. client \in {"wait", "removeFile"} /\ Len(flst) = 1
      BY <1>5, <1>8, <2>3
    <3>. QED
      BY <1>5, <2>1, <2>2, <3>1, <3>2 DEF Handling, Behind, Watching
  <2>4. CASE ~event[s]
    <3>1. monitor'[s].pc = "top" /\ monitor'[s].extra = m.extra
      BY <1>1, <1>14, <2>4, PollDoes
    <3>. QED
      BY <1>5, <2>1, <2>2, <2>4, <3>1 DEF Handling, Watching
  <2>. QED
    BY <2>3, <2>4
<1>15. CASE MonitorReset(s)
  <2>1. UNCHANGED <<event, report, shown, alive>>
    BY <1>15 DEF MonitorReset, guiVars
  <2>2. /\ m.pc = "files" /\ m.i > m.fcount
        /\ monitor'[s].pc = "top" /\ monitor'[s].extra = m.extra
    BY <1>1, <1>15, ResetDoes
  <2>. QED
    BY <1>2, <1>5, <2>1, <2>2 DEF Handling, Watching
<1>16. CASE MonitorFile(s)
  <2>1. UNCHANGED <<event, shown, alive>>
    BY <1>16 DEF MonitorFile
  <2>2. m.pc = "files" /\ m.i <= m.fcount
    BY <1>1, <1>16, FileDoes
  <2>3. m.i = 1 /\ client \in {"wait", "removeFile"} /\ file.by = s
    BY <1>2, <1>5, <1>6, <1>7, <2>2 DEF Handling
  <2>4. flst = <<s>> /\ dlst = <<s>> /\ flst[m.i] = s /\ Len(flst) = 1 /\ Len(dlst) = 1
    BY <1>3, <1>8, <2>3
  <2>5. report' = [report EXCEPT ![flst[m.i]] = LinesOf(file)]
    BY <1>16, <2>3, <2>4 DEF MonitorFile
  <2>6. Len(report'[s]) = L
    BY <1>1, <2>4, <2>5
  <2>7. /\ monitor'[s].pc = "data" /\ monitor'[s].j = 1 /\ monitor'[s].dcount = 1 /\ monitor'[s].i = 1
        /\ monitor'[s].fcount = m.fcount /\ monitor'[s].extra = m.extra
    BY <1>1, <1>16, <2>3, <2>4, FileDoes
  <2>. QED
    BY <1>1, <1>5, <2>1, <2>2, <2>3, <2>6, <2>7 DEF Handling, Behind, Watching
<1>17. CASE MonitorData(s)
  <2>1. UNCHANGED <<event, report, shown, alive>>
    BY <1>17 DEF MonitorData, guiVars
  <2>2. m.pc = "data" /\ client \in {"wait", "removeFile"} /\ m.i = 1 /\ m.dcount = 1
    BY <1>1, <1>5, <1>17, DataDoes DEF Handling
  <2>3. flst = <<s>> /\ dlst = <<s>> /\ Len(flst) = 1 /\ Len(dlst) = 1
    BY <1>3, <1>8, <2>2
  <2>4. CASE m.j > m.dcount
    <3>1. /\ monitor'[s].pc = "files" /\ monitor'[s].i = 2 /\ monitor'[s].fcount = m.fcount
          /\ monitor'[s].extra = m.extra
      BY <1>1, <1>2, <1>17, <2>2, <2>4, DataDoes
    <3>. QED
      BY <1>2, <1>5, <2>1, <2>2, <2>4, <3>1 DEF Handling, Behind, Watching
  <2>5. CASE m.j <= m.dcount
    <3>1. /\ monitor'[s].pc = "line" /\ monitor'[s].i = m.i /\ monitor'[s].fcount = m.fcount
          /\ monitor'[s].dcount = m.dcount /\ monitor'[s].extra = m.extra
      BY <1>1, <1>2, <1>17, <2>2, <2>3, <2>5, DataDoes
    <3>. QED
      BY <1>2, <1>5, <2>1, <2>2, <2>5, <3>1 DEF Handling, Behind, Watching
  <2>. QED
    BY <1>2, <2>4, <2>5
<1>18. CASE MonitorLine(s)
  <2>1. UNCHANGED <<event, report, alive>>
    BY <1>18 DEF MonitorLine
  <2>2. m.pc = "line" /\ client \in {"wait", "removeFile"} /\ m.i = 1 /\ m.dcount = 1
        /\ Len(shown[s]) <= Len(report[s]) /\ Len(report[s]) <= L /\ file.by = s
    BY <1>1, <1>5, <1>6, <1>18, LineDoes DEF Handling
  <2>3. m.f = s /\ m.d = s /\ m.at = Len(shown[s]) /\ m.n = Len(report[s])
    BY <2>2 DEF ShownInv
  <2>4. CASE /\ m.at < m.n
             /\ shown' = [shown EXCEPT ![m.d] = Append(@, report[m.f][m.at + 1])]
             /\ Becomes(s, With("line", m.extra, m.i, m.fcount, m.j, m.dcount, m.f, m.d, m.at + 1, m.n))
    <3>1. Len(shown'[s]) = m.at + 1
      BY <1>1, <2>3, <2>4
    <3>2. /\ monitor'[s].pc = "line" /\ monitor'[s].i = m.i /\ monitor'[s].fcount = m.fcount
          /\ monitor'[s].dcount = m.dcount /\ monitor'[s].extra = m.extra
      BY <1>1, <2>4
    <3>3. Len(shown'[s]) <= Len(report[s]) /\ Len(shown'[s]) <= L
      BY <1>1, <1>2, <2>2, <2>3, <2>4, <3>1
    <3>. QED
      BY <1>5, <2>1, <2>2, <3>2, <3>3 DEF Handling, Behind, Watching
  <2>5. CASE /\ m.at >= m.n /\ UNCHANGED shown
             /\ Becomes(s, With("data", m.extra, m.i, m.fcount, m.j + 1, m.dcount, m.f, m.d, m.at, m.n))
    <3>1. /\ monitor'[s].pc = "data" /\ monitor'[s].i = m.i /\ monitor'[s].fcount = m.fcount
          /\ monitor'[s].dcount = m.dcount /\ monitor'[s].extra = m.extra
      BY <1>1, <2>5
    <3>2. Len(shown[s]) = Len(report[s])
      BY <1>1, <1>2, <2>2, <2>3, <2>5
    <3>. QED
      BY <1>5, <2>1, <2>2, <2>5, <3>1, <3>2 DEF Handling, Behind, Watching
  <2>6. ~(m.at < m.n /\ m.at >= Len(report[m.f]))
    BY <1>1, <1>2, <2>3
  <2>. QED
    BY <1>1, <1>18, <2>4, <2>5, <2>6, LineDoes
<1>. QED
  BY <1>11, <1>12, <1>13, <1>14, <1>15, <1>16, <1>17, <1>18 DEF MonitorStep

-----------------------------------------------------------------------------
(* The theorems about the watch.                                           *)

\* The invariant holds before the first session.
LEMMA WatchInitial == WatchInit => WatchInv
<1>. SUFFICES ASSUME WatchInit PROVE WatchInv
  OBVIOUS
<1>1. KindInv
  BY KindInitial
<1>2. /\ session = 0 /\ client = "idle" /\ child = "none" /\ file = [by |-> 0, parts |-> 0]
      /\ \A s \in Session : /\ monitor[s] = Idle /\ event[s] = FALSE /\ report[s] = <<>>
                            /\ previous[s] = 0 /\ shown[s] = <<>>
  BY DEF WatchInit
<1>3. Idle.pc = "none"
  BY DEF Idle
<1>4. TurnInv
  BY <1>2, <1>3 DEF TurnInv, IsAlive
<1>5. ReadInv
  BY <1>2, <1>3 DEF ReadInv, Handling
<1>6. ShownInv
  BY <1>2, <1>3 DEF ShownInv, Own
<1>7. CompleteInv
  BY <1>2 DEF CompleteInv
<1>. QED
  BY <1>1, <1>4, <1>5, <1>6, <1>7 DEF WatchInv, KindInv

\* Every step of every thread and of the child keeps it.
LEMMA WatchStep == WatchInv /\ [WatchNext]_watchVars => WatchInv'
<1>. SUFFICES ASSUME WatchInv, [WatchNext]_watchVars PROVE WatchInv'
  OBVIOUS
<1>1. KindInv /\ KindInv'
  BY KindStep DEF WatchInv, KindInv
<1>2. CASE Others
  <2>1. delays' = delays
    BY <1>2 DEF Others, AddFile, ClientStep, AddData, StartMonitor, Execute, AwaitChild, RemoveFile,
         RemoveData, ClearAlive, Join, ChildTruncates, ChildWrites, ChildEnds, watchVars, clientVars
  <2>2. "start" \notin delays => TurnInv' /\ ReadInv' /\ ShownInv'
    BY <1>1, <1>2, TurnOthers, ReadOthers, ShownOthers DEF WatchInv
  <2>3. "start" \notin delays => CompleteInv'
    <3>1. CASE delays = {}
      BY <1>1, <1>2, <3>1, CompleteOthers DEF WatchInv
    <3>2. CASE delays # {}
      BY <2>1, <3>2 DEF CompleteInv
    <3>. QED
      BY <3>1, <3>2
  <2>. QED
    BY <1>1, <2>1, <2>2, <2>3 DEF WatchInv, KindInv
<1>3. ASSUME NEW s \in Session, MonitorStep(s) PROVE WatchInv'
  <2>1. delays' = delays
    BY <1>3, MonitorLeaves DEF clientVars
  <2>2. "start" \notin delays => TurnInv' /\ ReadInv' /\ ShownInv'
    BY <1>1, <1>3, TurnMonitors, ReadMonitors, ShownMonitors DEF WatchInv
  <2>3. "start" \notin delays => CompleteInv'
    <3>1. CASE delays = {}
      BY <1>1, <1>3, <3>1, CompleteMonitors DEF WatchInv
    <3>2. CASE delays # {}
      BY <2>1, <3>2 DEF CompleteInv
    <3>. QED
      BY <3>1, <3>2
  <2>. QED
    BY <1>1, <2>1, <2>2, <2>3 DEF WatchInv, KindInv
<1>. QED
  BY <1>2, <1>3 DEF WatchNext, AllOver, Others

\* The drawing takes the steps of the watch, and others that leave it alone.
LEMMA DrawingWatches ==
  DrawingInit /\ [][DrawingNext]_vars => WatchInit /\ [][WatchNext]_watchVars
<1>1. DrawingInit => WatchInit
  BY DEF DrawingInit
<1>2. [DrawingNext]_vars => [WatchNext]_watchVars
  <2>. SUFFICES ASSUME [DrawingNext]_vars PROVE [WatchNext]_watchVars
    OBVIOUS
  <2>1. CASE PressRun \/ OpenDrawing \/ Paint
    BY <2>1 DEF PressRun, OpenDrawing, Paint, PaintAxis, PaintPoints
  <2>2. CASE StartSession
    BY <2>2 DEF StartSession, WatchNext
  <2>3. CASE Watched
    BY <2>3 DEF Watched, WatchNext
  <2>4. ASSUME NEW s \in Session, ShowLine(s) PROVE WatchNext
    BY <2>4 DEF ShowLine, WatchNext
  <2>5. ASSUME NEW s \in Session, AddPoint(s) PROVE UNCHANGED watchVars
    BY <2>5 DEF AddPoint, UpdateValue, RescaleY, Repaint
  <2>6. CASE UNCHANGED vars
    BY <2>6 DEF vars
  <2>. QED
    BY <2>1, <2>2, <2>3, <2>4, <2>5, <2>6 DEF DrawingNext, MonitorThread
<1>. QED
  BY <1>1, <1>2, PTL

\* DirectoryMonitor and its listeners keep their data in order, with the drawing and
\* without it.
THEOREM WatchInvariance == (WatchSpec => []WatchInv) /\ (DrawingSpec => []WatchInv)
<1>1. WatchInit /\ [][WatchNext]_watchVars => []WatchInv
  BY WatchInitial, WatchStep, PTL
<1>2. WatchSpec => WatchInit /\ [][WatchNext]_watchVars
  BY PTL DEF WatchSpec
<1>3. DrawingSpec => DrawingInit /\ [][DrawingNext]_vars
  BY PTL DEF DrawingSpec
<1>. QED
  BY <1>1, <1>2, <1>3, DrawingWatches, PTL

\* monitorStop gives up waiting only for a monitor thread that started late: with the
\* others, no two monitor threads are ever alive, for any number of sessions.
THEOREM OneMonitorRuns == (WatchSpec => []OneMonitor) /\ (DrawingSpec => []OneMonitor)
<1>1. WatchInv => OneMonitor
  <2>. SUFFICES ASSUME WatchInv, "start" \notin delays
                PROVE  Cardinality({s \in Session : IsAlive(s)}) <= 1
    BY DEF OneMonitor
  <2>1. {s \in Session : IsAlive(s)} \subseteq {session}
    BY DEF WatchInv, TurnInv
  <2>2. IsFiniteSet({session}) /\ Cardinality({session}) = 1
    BY FS_Singleton
  <2>3. /\ Cardinality({s \in Session : IsAlive(s)}) <= Cardinality({session})
    BY <2>1, <2>2, FS_Subset, Zenon
  <2>. QED
    BY <2>2, <2>3
<1>. QED
  BY <1>1, WatchInvariance, PTL

\* ReportToGuiListener shows the lines of its own report, each once and without a gap,
\* however the report grows while it is read.
THEOREM LinesAreShownInOrder == (WatchSpec => []ShownInOrder) /\ (DrawingSpec => []ShownInOrder)
<1>1. WatchInv => ShownInOrder
  BY DEF WatchInv, ShownInv, Own, ShownInOrder
<1>. QED
  BY <1>1, WatchInvariance, PTL

\* No line of a report is lost at the end of a session, however the child ended: events
\* that come while the listeners are called are kept by the key.
THEOREM ReportIsShown == (WatchSpec => []ReportComplete) /\ (DrawingSpec => []ReportComplete)
<1>1. WatchInv => ReportComplete
  <2>. SUFFICES ASSUME WatchInv, delays = {}, client = "idle", session > 0, file.by = session
                PROVE  Len(shown[session]) = Len(LinesOf(file))
    BY DEF ReportComplete
  <2>1. session # 0
    BY DEF WatchInv, WatchTypeOK
  <2>. QED
    BY <2>1 DEF WatchInv, CompleteInv, UpToDate
<1>. QED
  BY <1>1, WatchInvariance, PTL
-----------------------------------------------------------------------------
(* The drawing: what is known of its model and of the picture.              *)

Points == {v \in Int : v <= Parts}

\* The rows among the first n lines of a log.
RowsIn(log, n) == {k \in 1..n : IsRow(log[k])}
Rows(log, n)   == Cardinality(RowsIn(log, n))

\* The points for the rows among the first n lines of the log.
PointsOf(log, n, c) ==
  /\ Len(c) = IF Rows(log, n) <= capacity THEN Rows(log, n) ELSE capacity
  /\ \A k \in RowsIn(log, n) : Rows(log, k) <= capacity => c[Rows(log, k)] = Value(log[k])

DrawTypeOK ==
  /\ opening \in {"no", "pressed", "open"} /\ capacity \in Nat \ {0} /\ scale \in Nat \ {0}
  /\ curve \in Seq(Points)
  /\ adding \in [Session -> {"no", "point", "scale", "repaint"}]
  /\ pending \in BOOLEAN /\ painting \in Nat

\* A press of Run comes when no benchmark is under way, and finds an empty curve.
OpeningInv ==
  opening # "no" => client = "idle" /\ curve = <<>> /\ scale = ScaleBase

\* A monitor thread that adds a point is in the loop of dataHandler, behind a row.
AddingInv ==
  \A s \in Session : adding[s] # "no" =>
    /\ monitor[s].pc = "line" /\ shown[s] # <<>> /\ Parts # 0
    /\ adding[s] = "point" => IsRow(Last(shown[s]))

\* The curve has the points of the rows shown, but for the one that is being added.
CurveInv ==
  (opening = "no" /\ session # 0) =>
    PointsOf(shown[session],
             IF adding[session] = "point" THEN Len(shown[session]) - 1 ELSE Len(shown[session]), curve)

\* The scale covers the curve, or is about to.
ScaleInv ==
  (\A s \in Session : adding[s] # "scale") => \A i \in DOMAIN curve : curve[i] <= scale

\* What is on the screen is the model, or a paint() is to come or under way that will
\* draw it.
FrameInv ==
  \/ pending
  \/ \E s \in Session : adding[s] \in {"scale", "repaint"}
  \/ painting = scale
  \/ painting = 0 /\ frame = [curve |-> curve, scale |-> scale]

DrawParts == DrawTypeOK /\ OpeningInv /\ AddingInv /\ CurveInv /\ ScaleInv /\ FrameInv

DrawInv ==
  /\ opening # "unseen" => delays \in Followed
  /\ (opening # "unseen" /\ "start" \notin delays) => DrawParts

-----------------------------------------------------------------------------
(* Counting rows, and choosing a scale.                                     *)

\* The number of rows grows by one with every row.
LEMMA RowsCount ==
  ASSUME NEW log, NEW n \in Nat
  PROVE  /\ IsFiniteSet(RowsIn(log, n)) /\ Rows(log, n) \in Nat
         /\ Rows(log, 0) = 0
         /\ IsRow(log[n + 1]) => Rows(log, n + 1) = Rows(log, n) + 1
         /\ ~IsRow(log[n + 1]) => RowsIn(log, n + 1) = RowsIn(log, n)
         /\ \A k \in RowsIn(log, n) : Rows(log, k) \in 1..Rows(log, n)
<1>1. ASSUME NEW m \in Nat PROVE IsFiniteSet(RowsIn(log, m)) /\ Rows(log, m) \in Nat
  <2>1. IsFiniteSet(1..m) /\ RowsIn(log, m) \subseteq 1..m
    BY FS_Interval DEF RowsIn
  <2>2. IsFiniteSet(RowsIn(log, m))
    BY <2>1, FS_Subset, Zenon
  <2>. QED
    BY <2>2, FS_CardinalityType DEF Rows
<1>2. Rows(log, 0) = 0
  <2>1. RowsIn(log, 0) = {}
    BY DEF RowsIn
  <2>. QED
    BY <2>1, FS_EmptySet DEF Rows
<1>3. ASSUME IsRow(log[n + 1]) PROVE Rows(log, n + 1) = Rows(log, n) + 1
  <2>1. RowsIn(log, n + 1) = RowsIn(log, n) \cup {n + 1} /\ n + 1 \notin RowsIn(log, n)
    BY <1>3 DEF RowsIn
  <2>. QED
    BY <1>1, <2>1, FS_AddElement DEF Rows
<1>4. ASSUME ~IsRow(log[n + 1]) PROVE RowsIn(log, n + 1) = RowsIn(log, n)
  BY <1>4 DEF RowsIn
<1>5. ASSUME NEW k \in RowsIn(log, n) PROVE Rows(log, k) \in 1..Rows(log, n)
  <2>1. k \in Nat /\ k >= 1 /\ k <= n /\ IsRow(log[k])
    BY <1>5 DEF RowsIn
  <2>2. RowsIn(log, k) \subseteq RowsIn(log, n)
    BY <2>1 DEF RowsIn
  <2>3. Rows(log, k) <= Rows(log, n)
    BY <1>1, <2>2, FS_Subset, Zenon DEF Rows
  <2>4. {k} \subseteq RowsIn(log, k)
    BY <2>1 DEF RowsIn
  <2>5. IsFiniteSet(RowsIn(log, k))
    BY <1>1, <2>1
  <2>6. Cardinality({k}) = 1 /\ Cardinality({k}) <= Rows(log, k)
    BY <2>4, <2>5, FS_Subset, FS_Singleton, Zenon DEF Rows
  <2>. QED
    BY <1>1, <2>1, <2>3, <2>6
<1>. QED
  BY <1>1, <1>2, <1>3, <1>4, <1>5

\* Only the lines that are counted matter.
LEMMA RowsOfPrefix ==
  ASSUME NEW log, NEW more, NEW n \in Nat, \A k \in 1..n : more[k] = log[k]
  PROVE  RowsIn(more, n) = RowsIn(log, n) /\ \A k \in 0..n : Rows(more, k) = Rows(log, k)
<1>1. ASSUME NEW m \in 0..n PROVE RowsIn(more, m) = RowsIn(log, m)
  BY DEF RowsIn
<1>. QED
  BY <1>1 DEF Rows

\* Every set of numbers that is not empty has a least one.
LEMMA NatMin ==
  ASSUME NEW T, T \subseteq Nat, T # {}
  PROVE  \E x \in T : \A y \in T : x <= y
<1>. DEFINE R == OpToRel(<, Nat)
<1>1. IsWellFoundedOn(R, Nat)
  BY NatLessThanWellFounded
<1>2. \A x, y \in Nat : x < y => <<x, y>> \in R
  BY DEF OpToRel
<1>. HIDE DEF R
<1>3. PICK x \in T : \A y \in T : ~ (<<y, x>> \in R)
  BY <1>1, WFMin
<1>4. ASSUME NEW y \in T PROVE x <= y
  <2>1. x \in Nat /\ y \in Nat
    OBVIOUS
  <2>2. ~(y < x)
    BY <1>2, <1>3, <2>1, Zenon
  <2>. QED
    BY <2>1, <2>2
<1>. QED
  BY <1>4

\* The scale that is chosen covers all the points: the largest multiple does.
LEMMA ScaleCovers ==
  ASSUME Parts # 0, NEW c \in Seq(Points)
  PROVE  Fitted(c) \in Nat \ {0} /\ \A i \in DOMAIN c : c[i] <= Fitted(c)
<1>. DEFINE S == {ScaleDelta * i : i \in 1..Parts}
            T == {n \in S : \A i \in DOMAIN c : n >= c[i]}
<1>1. Parts \in Nat /\ ScaleDelta \in Nat \ {0} /\ Parts \in 1..Parts
  BY WatchAssumption, DrawingAssumption
<1>2. \A i \in 1..Parts : ScaleDelta * i \in Nat \ {0}
  <2>. SUFFICES ASSUME NEW i \in 1..Parts PROVE ScaleDelta * i \in Nat /\ ScaleDelta * i >= 1
    OBVIOUS
  <2>1. i \in Nat /\ i >= 1 /\ ScaleDelta \in Nat /\ ScaleDelta >= 1
    BY <1>1
  <2>. QED
    BY <2>1
<1>3. T \subseteq Nat \ {0}
  BY <1>2
<1>4. ScaleDelta * Parts \in S /\ ScaleDelta * Parts >= Parts
  BY <1>1
<1>5. \A i \in DOMAIN c : c[i] \in Int /\ c[i] <= Parts
  BY DEF Points
<1>6. T # {}
  <2>1. \A i \in DOMAIN c : ScaleDelta * Parts >= c[i]
    BY <1>1, <1>4, <1>5
  <2>. QED
    BY <1>4, <2>1
<1>7. \A n \in T : \A i \in DOMAIN c : n >= c[i]
  OBVIOUS
<1>8. Fitted(c) = Min(T)
  BY DEF Fitted
<1>. HIDE DEF S, T
<1>9. Fitted(c) \in T
  <2>1. PICK x \in T : \A y \in T : x <= y
    <3>1. T \subseteq Nat
      BY <1>3
    <3>. QED
      BY <1>6, <3>1, NatMin
  <2>. QED
    BY <1>8, <2>1 DEF Min
<1>10. \A i \in DOMAIN c : c[i] <= Fitted(c)
  BY <1>3, <1>5, <1>7, <1>9
<1>. QED
  BY <1>3, <1>9, <1>10

-----------------------------------------------------------------------------
(* One step of the drawing.                                                 *)

\* The drawing of a behaviour that is not followed stays unseen, and what may be late
\* does not change.
LEMMA DrawFollows ==
  ASSUME [DrawingNext]_vars
  PROVE  (opening' # "unseen" => opening # "unseen") /\ UNCHANGED delays
<1>1. CASE PressRun
  BY <1>1 DEF PressRun, watchVars
<1>2. CASE OpenDrawing
  BY <1>2 DEF OpenDrawing, watchVars
<1>3. CASE StartSession
  BY <1>3 DEF StartSession, AddFile
<1>4. CASE Paint
  BY <1>4 DEF Paint, PaintAxis, PaintPoints, watchVars
<1>5. CASE Watched /\ UNCHANGED drawVars
  BY <1>5 DEF Watched, drawVars, ClientStep, AddData, StartMonitor, Execute, AwaitChild, RemoveFile,
              RemoveData, ClearAlive, Join, ChildTruncates, ChildWrites, ChildEnds, clientVars
<1>6. ASSUME NEW s \in Session, ShowLine(s)
      PROVE  (opening' # "unseen" => opening # "unseen") /\ UNCHANGED delays
  BY <1>6, MonitorLeaves DEF ShowLine, clientVars
<1>7. ASSUME NEW s \in Session, AddPoint(s)
      PROVE  (opening' # "unseen" => opening # "unseen") /\ UNCHANGED delays
  BY <1>7 DEF AddPoint, UpdateValue, RescaleY, Repaint, watchVars
<1>8. CASE UNCHANGED vars
  BY <1>8 DEF vars, drawVars, watchVars
<1>. QED
  BY <1>1, <1>2, <1>3, <1>4, <1>5, <1>6, <1>7, <1>8 DEF DrawingNext, MonitorThread

\* Before the first session the curve and the picture are blank.
LEMMA DrawInitial == DrawingInit => DrawInv
<1>. SUFFICES ASSUME DrawingInit, opening # "unseen" PROVE delays \in Followed /\ DrawParts
  BY DEF DrawInv
<1>1. delays \in Followed /\ opening = "no" /\ curve = <<>> /\ scale = ScaleBase /\ capacity = 1
      /\ adding = [s \in Session |-> "no"] /\ pending = FALSE /\ painting = 0 /\ frame = Blank
      /\ session = 0
  BY DEF DrawingInit, WatchInit
<1>2. DrawTypeOK
  <2>1. curve \in Seq(Points)
    BY <1>1
  <2>2. capacity \in Nat \ {0} /\ scale \in Nat \ {0} /\ painting \in Nat
    BY <1>1, DrawingAssumption
  <2>3. pending \in BOOLEAN /\ opening \in {"no", "pressed", "open"}
    BY <1>1, Zenon
  <2>4. adding \in [Session -> {"no", "point", "scale", "repaint"}]
    BY <1>1
  <2>. QED
    BY <2>1, <2>2, <2>3, <2>4 DEF DrawTypeOK
<1>3. OpeningInv /\ AddingInv /\ CurveInv
  BY <1>1 DEF OpeningInv, AddingInv, CurveInv
<1>4. ScaleInv
  BY <1>1 DEF ScaleInv
<1>5. FrameInv
  BY <1>1 DEF FrameInv, Blank
<1>. QED
  BY <1>1, <1>2, <1>3, <1>4, <1>5 DEF DrawParts

\* Nobody adds a point but the monitor thread of the session that is under way.
LEMMA OneAdds ==
  ASSUME WatchTypeOK, TurnInv, AddingInv, OpeningInv, DrawTypeOK, NEW s \in Session, adding[s] # "no"
  PROVE  s = session /\ opening = "no" /\ client \notin {"idle", "addData", "start"}
<1>1. IsAlive(s)
  BY DEF AddingInv, IsAlive, Over
<1>2. s = session /\ client \notin {"idle", "addData", "start"}
  BY <1>1 DEF TurnInv
<1>. QED
  BY <1>2 DEF OpeningInv

\* The start of a session.
LEMMA DrawStart ==
  ASSUME WatchInv, "start" \notin delays, opening # "unseen", DrawParts,
         PressRun \/ OpenDrawing \/ StartSession
  PROVE  DrawParts'
<1>. USE DEF DrawParts
<1>0. WatchTypeOK /\ TurnInv /\ ShownInv
  BY DEF WatchInv
<1>1. client = "idle" /\ \A s \in Session : adding[s] = "no"
  <2>1. client = "idle"
    BY DEF PressRun, OpenDrawing, StartSession, AddFile, Goto, OpeningInv
  <2>. QED
    BY <1>0, <2>1, OneAdds
<1>2. CASE PressRun
  <2>1. /\ curve' = <<>> /\ scale' = ScaleBase /\ pending' = TRUE /\ opening' = "pressed"
        /\ UNCHANGED <<watchVars, capacity, adding, painting, frame>>
    BY <1>2 DEF PressRun
  <2>2. DrawTypeOK'
    BY <2>1, DrawingAssumption DEF DrawTypeOK
  <2>3. OpeningInv' /\ AddingInv' /\ CurveInv'
    BY <1>1, <2>1 DEF OpeningInv, AddingInv, CurveInv, watchVars
  <2>4. ScaleInv' /\ FrameInv'
    BY <2>1 DEF ScaleInv, FrameInv
  <2>. QED
    BY <2>2, <2>3, <2>4
<1>3. CASE OpenDrawing
  <2>1. /\ capacity' \in Capacities /\ opening' = "open" /\ opening = "pressed"
        /\ curve' = <<>> /\ scale' = ScaleBase
        /\ UNCHANGED <<watchVars, adding, pending, painting, frame>>
    BY <1>3 DEF OpenDrawing
  <2>2. curve' = curve /\ scale' = scale
    BY <2>1 DEF OpeningInv
  <2>3. DrawTypeOK'
    BY <2>1, <2>2, DrawingAssumption DEF DrawTypeOK
  <2>4. OpeningInv' /\ AddingInv' /\ CurveInv'
    BY <1>1, <2>1 DEF OpeningInv, AddingInv, CurveInv, watchVars
  <2>5. ScaleInv' /\ FrameInv'
    BY <2>1, <2>2 DEF ScaleInv, FrameInv
  <2>. QED
    BY <2>3, <2>4, <2>5
<1>4. CASE StartSession
  <2>1. /\ opening = "open" /\ opening' = "no"
        /\ session' = session + 1 /\ session < MaxSessions /\ UNCHANGED <<monitor, shown>>
        /\ UNCHANGED <<capacity, curve, scale, adding, pending, painting, frame>>
    BY <1>4 DEF StartSession, AddFile, guiVars
  <2>2. curve = <<>>
    BY <2>1 DEF OpeningInv
  <2>3. DrawTypeOK' /\ OpeningInv'
    BY <2>1 DEF DrawTypeOK, OpeningInv
  <2>4. AddingInv' /\ ScaleInv' /\ FrameInv'
    BY <2>1 DEF AddingInv, ScaleInv, FrameInv
  <2>5. session' \in Session /\ shown'[session'] = <<>>
    <3>1. session' \in Session /\ session' > session
      BY <1>0, <2>1, WatchAssumption DEF WatchTypeOK, Session
    <3>2. monitor[session'].pc = "none"
      BY <1>0, <3>1 DEF TurnInv
    <3>. QED
      BY <1>0, <2>1, <3>1, <3>2 DEF ShownInv, Before
  <2>6. PointsOf(<<>>, 0, <<>>)'
    <3>1. Rows(<<>>, 0) = 0 /\ RowsIn(<<>>, 0) = {}
      <4>1. 0 \in Nat /\ RowsIn(<<>>, 0) = {}
        BY DEF RowsIn
      <4>. QED
        BY <4>1, FS_EmptySet DEF Rows
    <3>2. capacity' \in Nat
      BY <2>3 DEF DrawTypeOK
    <3>. QED
      BY <3>1, <3>2 DEF PointsOf
  <2>7. CurveInv'
    <3>1. adding'[session'] = "no"
      BY <1>1, <2>1, <2>5
    <3>. QED
      BY <2>1, <2>2, <2>5, <2>6, <3>1 DEF CurveInv
  <2>. QED
    BY <2>3, <2>4, <2>7
<1>. QED
  BY <1>2, <1>3, <1>4

\* A paint() reads the model and does not change it.
LEMMA DrawPaint ==
  ASSUME DrawParts, Paint \/ UNCHANGED vars PROVE DrawParts'
<1>. USE DEF DrawParts
<1>1. UNCHANGED <<watchVars, opening, capacity, curve, scale, adding>>
  BY DEF Paint, PaintAxis, PaintPoints, vars, drawVars
<1>2. OpeningInv' /\ AddingInv' /\ CurveInv' /\ ScaleInv'
  <2>1. CurveInv'
    BY <1>1 DEF CurveInv, PointsOf, watchVars
  <2>. QED
    BY <1>1, <2>1 DEF OpeningInv, AddingInv, ScaleInv, watchVars
<1>3. pending' \in BOOLEAN /\ painting' \in Nat
  <2>1. pending' = FALSE \/ UNCHANGED pending
    BY DEF Paint, PaintAxis, PaintPoints, vars, drawVars
  <2>2. painting' \in {0, scale, painting}
    BY DEF Paint, PaintAxis, PaintPoints, vars, drawVars
  <2>3. pending' \in BOOLEAN
    BY <2>1, Zenon DEF DrawTypeOK
  <2>. QED
    BY <2>2, <2>3 DEF DrawTypeOK
<1>4. FrameInv'
  <2>1. CASE PaintAxis
    BY <2>1 DEF PaintAxis, FrameInv
  <2>2. CASE PaintPoints
    BY <1>1, <2>2 DEF PaintPoints, FrameInv
  <2>3. CASE UNCHANGED vars
    BY <2>3 DEF FrameInv, vars, drawVars
  <2>. QED
    BY <2>1, <2>2, <2>3 DEF Paint
<1>. QED
  BY <1>1, <1>2, <1>3, <1>4 DEF DrawTypeOK

\* The rest of a session goes on under the drawing.
LEMMA DrawWatched ==
  ASSUME WatchInv, "start" \notin delays, DrawParts, Watched, UNCHANGED drawVars
  PROVE  DrawParts'
<1>. USE DEF DrawParts
<1>0. WatchTypeOK /\ TurnInv
  BY DEF WatchInv
<1>1. UNCHANGED <<opening, capacity, curve, scale, adding, pending, painting, frame>>
  BY DEF drawVars
<1>2. UNCHANGED <<session, shown>> /\ (client # "idle" \/ UNCHANGED client)
  BY DEF Watched, ClientStep, AddData, StartMonitor, Execute, AwaitChild, RemoveFile,
         RemoveData, ClearAlive, Join, ChildTruncates, ChildWrites, ChildEnds, clientVars, guiVars, Goto
<1>3. ASSUME NEW s \in Session, adding[s] # "no" PROVE monitor'[s] = monitor[s]
  <2>1. CASE StartMonitor
    <3>1. client = "start"
      BY <2>1 DEF StartMonitor, Goto
    <3>. QED
      BY <1>0, <1>3, <3>1, OneAdds
  <2>2. CASE UNCHANGED monitor
    BY <2>2
  <2>. QED
    BY <2>1, <2>2 DEF Watched, ClientStep, AddData, Execute, AwaitChild, RemoveFile,
         RemoveData, ClearAlive, Join, ChildTruncates, ChildWrites, ChildEnds, clientVars, guiVars
<1>4. DrawTypeOK' /\ ScaleInv' /\ FrameInv'
  BY <1>1 DEF DrawTypeOK, ScaleInv, FrameInv
<1>5. OpeningInv' /\ AddingInv'
  BY <1>1, <1>2, <1>3 DEF OpeningInv, AddingInv
<1>6. CurveInv'
  BY <1>1, <1>2 DEF CurveInv, PointsOf
<1>. QED
  BY <1>4, <1>5, <1>6

\* A line is shown: a row begins a point.
LEMMA DrawLine ==
  ASSUME WatchInv, WatchInv', "start" \notin delays, DrawParts, opening # "unseen",
         NEW s \in Session, ShowLine(s)
  PROVE  DrawParts'
<1>. USE DEF DrawParts
<1>. DEFINE m == monitor[s]
<1>0. WatchTypeOK /\ KindInv /\ TurnInv /\ ShownInv /\ m \in Locals
      /\ shown \in [Session -> Seq(Lines)] /\ report \in [Session -> Seq(Lines)]
      /\ adding \in [Session -> {"no", "point", "scale", "repaint"}]
  BY DEF WatchInv, WatchTypeOK, KindInv, DrawTypeOK
<1>1. adding[s] = "no" /\ MonitorStep(s) /\ UNCHANGED <<opening, capacity, curve, scale, pending, painting, frame>>
  BY DEF ShowLine
<1>2. s = session /\ client # "idle" /\ opening = "no"
  <2>1. IsAlive(s)
    BY <1>0, <1>1, MonitorMoves
  <2>. QED
    BY <1>0, <2>1 DEF TurnInv, OpeningInv
<1>3. UNCHANGED <<session, client>> /\ \A q \in Session : q # s => monitor'[q] = monitor[q]
  BY <1>0, <1>1, MonitorLeaves, MonitorMoves DEF clientVars
\* What is added is in none of the conjuncts but two.
<1>4. ASSUME adding' \in {adding, [adding EXCEPT ![s] = "point"]}
      PROVE  DrawTypeOK' /\ OpeningInv' /\ ScaleInv' /\ FrameInv'
  <2>1. \A q \in Session : adding'[q] = adding[q] \/ (adding'[q] = "point" /\ adding[q] = "no")
    BY <1>0, <1>1, <1>4
  <2>2. adding' \in [Session -> {"no", "point", "scale", "repaint"}]
    BY <1>0, <1>4
  <2>3. DrawTypeOK'
    BY <1>1, <2>2 DEF DrawTypeOK
  <2>4. OpeningInv'
    BY <1>1, <1>2 DEF OpeningInv
  <2>5. ScaleInv'
    BY <1>1, <2>1 DEF ScaleInv
  <2>6. FrameInv'
    <3>1. ASSUME NEW q \in Session, adding[q] \in {"scale", "repaint"}
          PROVE  adding'[q] \in {"scale", "repaint"}
      BY <2>1, <3>1
    <3>. QED
      BY <1>1, <3>1 DEF FrameInv
  <2>. QED
    BY <2>3, <2>4, <2>5, <2>6
<1>5. CASE UNCHANGED shown
  <2>1. UNCHANGED adding
    BY <1>5 DEF ShowLine
  <2>2. AddingInv'
    BY <1>1, <1>3, <1>5, <2>1 DEF AddingInv
  <2>3. CurveInv'
    BY <1>1, <1>3, <1>5, <2>1 DEF CurveInv, PointsOf
  <2>. QED
    BY <1>4, <2>1, <2>2, <2>3
<1>6. CASE shown' # shown
  <2>1. MonitorLine(s)
    BY <1>1, <1>6, MonitorLeaves
  <2>2. /\ m.d = s /\ m.f = s /\ m.pc = "line"
    BY <1>0, <2>1, LineDoes DEF ShownInv
  <2>3. /\ m.at < Len(report[s])
        /\ shown' = [shown EXCEPT ![s] = Append(@, report[s][m.at + 1])]
        /\ Becomes(s, With("line", m.extra, m.i, m.fcount, m.j, m.dcount, m.f, m.d, m.at + 1, m.n))
    BY <1>0, <1>6, <2>1, <2>2, LineDoes
  <2>4. PICK line : line = report[s][m.at + 1]
    OBVIOUS
  <2>5. line \in Lines
    <3>1. m.at \in Nat /\ report[s] \in Seq(Lines)
      BY <1>0 DEF Locals
    <3>2. m.at + 1 \in 1..Len(report[s])
      BY <2>3, <3>1
    <3>. QED
      BY <2>4, <3>1, <3>2, Elements
  <2>. PICK log : log = shown[s]
    OBVIOUS
  <2>. PICK n : n = Len(log)
    OBVIOUS
  <2>6. /\ log \in Seq(Lines) /\ shown'[s] = Append(log, line)
        /\ \A q \in Session : q # s => shown'[q] = shown[q]
    BY <1>0, <2>3, <2>4
  <2>7. monitor'[s].pc = "line"
    <3>1. monitor'[s] = With("line", m.extra, m.i, m.fcount, m.j, m.dcount, m.f, m.d, m.at + 1, m.n)
      BY <1>0, <2>3 DEF Becomes, WatchTypeOK
    <3>. QED
      BY <3>1 DEF With
  <2>8. /\ n \in Nat /\ Len(shown'[s]) = n + 1 /\ Last(shown'[s]) = line /\ shown'[s][n + 1] = line
        /\ shown'[s] # <<>> /\ \A k \in 1..n : shown'[s][k] = log[k]
    <3>1. n \in Nat /\ Len(Append(log, line)) = n + 1
      BY <2>6
    <3>2. Append(log, line)[n + 1] = line /\ \A k \in 1..n : Append(log, line)[k] = log[k]
      BY <2>6
    <3>3. Last(Append(log, line)) = line /\ Append(log, line) # <<>>
      <4>1. Last(Append(log, line)) = line
        BY <3>1, <3>2 DEF Last
      <4>2. Append(log, line) # <<>>
        BY <2>6
      <4>. QED
        BY <4>1, <4>2
    <3>. QED
      BY <2>6, <3>1, <3>2, <3>3
  <2>9. adding' = IF IsRow(line) THEN [adding EXCEPT ![s] = "point"] ELSE adding
    <3>1. \A d \in Session : shown'[d] # shown[d] => d = s
      BY <2>6
    <3>2. shown'[s] # shown[s]
      BY <2>6, <2>8
    <3>. QED
      BY <1>2, <2>8, <3>1, <3>2 DEF ShowLine
  <2>10. AddingInv'
    <3>1. ASSUME NEW q \in Session, q # s, adding'[q] # "no"
          PROVE  /\ monitor'[q].pc = "line" /\ shown'[q] # <<>> /\ Parts # 0
                 /\ adding'[q] = "point" => IsRow(Last(shown'[q]))
      <4>1. adding[q] = adding'[q]
        BY <1>0, <2>9, <3>1
      <4>. QED
        BY <1>3, <2>6, <3>1, <4>1 DEF AddingInv
    <3>2. IsRow(line) => Parts # 0
      BY <2>5 DEF Lines, IsRow
    <3>3. adding'[s] # "no" => IsRow(line)
      BY <1>1, <2>9
    <3>. QED
      BY <2>7, <2>8, <3>1, <3>2, <3>3 DEF AddingInv
  <2>11. PointsOf(log, n, curve)
    <3>1. session # 0 /\ adding[session] = "no"
      BY <1>1, <1>2 DEF Session
    <3>. QED
      BY <1>2, <3>1 DEF CurveInv
  <2>. PICK more : more = shown'[s]
    OBVIOUS
  <2>12. PointsOf(more, n, curve)'
    <3>2. RowsIn(more, n) = RowsIn(log, n) /\ \A k \in 0..n : Rows(more, k) = Rows(log, k)
      BY <2>8, RowsOfPrefix
    <3>3. \A k \in RowsIn(log, n) : k \in 1..n
      BY DEF RowsIn
    <3>4. Rows(more, n) = Rows(log, n)
      BY <2>8, <3>2
    <3>5. /\ Len(curve) = IF Rows(more, n) <= capacity THEN Rows(more, n) ELSE capacity
          /\ \A k \in RowsIn(more, n) : Rows(more, k) <= capacity => curve[Rows(more, k)] = Value(more[k])
      BY <2>8, <2>11, <3>2, <3>3, <3>4 DEF PointsOf
    <3>. QED
      BY <1>1, <3>5 DEF PointsOf
  <2>13. CurveInv'
    <3>1. CASE IsRow(line)
      <4>1. adding'[s] = "point" /\ (n + 1) - 1 = n
        BY <1>0, <2>8, <2>9, <3>1
      <4>. QED
        BY <1>2, <1>3, <2>8, <2>12, <4>1 DEF CurveInv
    <3>2. CASE ~IsRow(line)
      <4>1. adding'[s] = "no"
        BY <1>1, <2>9, <3>2
      <4>2. RowsIn(more, n + 1) = RowsIn(more, n)
        BY <2>8, <3>2, RowsCount
      <4>3. PointsOf(more, n + 1, curve)'
        BY <2>12, <4>2 DEF PointsOf, Rows
      <4>. QED
        BY <1>2, <1>3, <2>8, <4>1, <4>3 DEF CurveInv
    <3>. QED
      BY <3>1, <3>2
  <2>14. DrawTypeOK' /\ OpeningInv' /\ ScaleInv' /\ FrameInv'
    BY <1>4, <2>9
  <2>. QED
    BY <2>10, <2>13, <2>14
<1>. QED
  BY <1>5, <1>6

\* The point of the last line is added, the scale fitted, and a repaint asked for.
LEMMA DrawAddPoint ==
  ASSUME WatchInv, "start" \notin delays, DrawParts, NEW s \in Session, AddPoint(s)
  PROVE  DrawParts'
<1>. USE DEF DrawParts
<1>0. /\ WatchTypeOK /\ TurnInv /\ ShownInv
      /\ shown \in [Session -> Seq(Lines)] /\ curve \in Seq(Points) /\ capacity \in Nat \ {0}
      /\ adding \in [Session -> {"no", "point", "scale", "repaint"}]
  BY DEF WatchInv, WatchTypeOK, DrawTypeOK
<1>1. adding[s] # "no" /\ UNCHANGED <<watchVars, opening, capacity, painting, frame>>
  BY DEF AddPoint, UpdateValue, RescaleY, Repaint, At
<1>2. s = session /\ opening = "no" /\ session # 0 /\ UNCHANGED <<session, client, monitor, shown>>
  BY <1>0, <1>1, OneAdds DEF Session, watchVars
<1>3. /\ monitor[s].pc = "line" /\ shown[s] # <<>> /\ Parts # 0
      /\ adding[s] = "point" => IsRow(Last(shown[s]))
  BY <1>1 DEF AddingInv
<1>4. OpeningInv'
  BY <1>1, <1>2 DEF OpeningInv
<1>5. ASSUME NEW to \in {"no", "scale", "repaint"}, adding' = [adding EXCEPT ![s] = to]
      PROVE  /\ AddingInv' /\ adding'[s] = to
             /\ adding' \in [Session -> {"no", "point", "scale", "repaint"}]
             /\ \A q \in Session : q # s => adding'[q] = adding[q]
  <2>1. /\ adding'[s] = to /\ \A q \in Session : q # s => adding'[q] = adding[q]
        /\ adding' \in [Session -> {"no", "point", "scale", "repaint"}]
    BY <1>0, <1>5
  <2>2. AddingInv'
    BY <1>2, <1>3, <2>1 DEF AddingInv
  <2>. QED
    BY <2>1, <2>2
<1>6. CASE UpdateValue(s)
  <2>1. /\ adding[s] = "point" /\ adding' = [adding EXCEPT ![s] = "scale"]
        /\ curve' = IF Len(curve) < capacity
                    THEN Append(curve, Value(Last(shown[monitor[s].d]))) ELSE curve
        /\ UNCHANGED <<scale, pending>>
    BY <1>6 DEF UpdateValue, At
  <2>2. monitor[s].d = s
    BY <1>0, <1>3 DEF ShownInv
  <2>. PICK log : log = shown[s]
    OBVIOUS
  <2>. PICK n : n = Len(log) - 1
    OBVIOUS
  <2>3. /\ n \in Nat /\ Len(log) = n + 1 /\ Last(log) = log[n + 1] /\ log \in Seq(Lines)
        /\ n + 1 \in 1..Len(log)
    <3>1. log \in Seq(Lines) /\ log # <<>>
      BY <1>0, <1>3
    <3>2. Len(log) \in Nat /\ Len(log) # 0
      BY <3>1
    <3>. QED
      BY <3>1, <3>2 DEF Last
  <2>4. IsRow(log[n + 1]) /\ log[n + 1].number = n + 1
    <3>1. IsRow(log[n + 1])
      BY <1>3, <2>1, <2>3
    <3>2. Own(log, s)
      BY <1>0 DEF ShownInv
    <3>3. DOMAIN log = 1..Len(log)
      BY <2>3
    <3>. QED
      BY <2>3, <3>1, <3>2, <3>3 DEF Own
  <2>. PICK v : v = Value(log[n + 1])
    OBVIOUS
  <2>5. v \in Points
    BY <2>3, <2>4, WatchAssumption DEF Value, Points
  <2>6. curve' = IF Len(curve) < capacity THEN Append(curve, v) ELSE curve
    BY <2>1, <2>2, <2>3
  <2>7. curve' \in Seq(Points)
    BY <1>0, <2>5, <2>6
  <2>8. DrawTypeOK'
    BY <1>1, <1>5, <2>1, <2>7 DEF DrawTypeOK
  <2>9. adding'[s] = "scale" /\ AddingInv'
    BY <1>5, <2>1
  <2>10. ScaleInv' /\ FrameInv'
    BY <2>9 DEF ScaleInv, FrameInv
  <2>11. PointsOf(log, n, curve)
    BY <1>2, <2>1, <2>3 DEF CurveInv
  <2>. PICK r : r = Rows(log, n)
    OBVIOUS
  <2>12. /\ r \in Nat /\ Rows(log, n + 1) = r + 1
         /\ \A k \in RowsIn(log, n) : Rows(log, k) \in 1..r
    BY <2>3, <2>4, RowsCount
  <2>13. RowsIn(log, n + 1) = RowsIn(log, n) \cup {n + 1}
    BY <2>3, <2>4 DEF RowsIn
  <2>14. /\ Len(curve) = IF r <= capacity THEN r ELSE capacity
         /\ \A k \in RowsIn(log, n) : Rows(log, k) <= capacity => curve[Rows(log, k)] = Value(log[k])
    BY <2>11 DEF PointsOf
  <2>15. /\ Len(curve') = IF r + 1 <= capacity THEN r + 1 ELSE capacity
         /\ \A i \in 1..Len(curve) : curve'[i] = curve[i]
         /\ r + 1 <= capacity => curve'[r + 1] = v
    BY <1>0, <2>5, <2>6, <2>12, <2>14
  <2>16. \A k \in RowsIn(log, n + 1) : Rows(log, k) <= capacity => curve'[Rows(log, k)] = Value(log[k])
    <3>1. ASSUME NEW k \in RowsIn(log, n), Rows(log, k) <= capacity
          PROVE  curve'[Rows(log, k)] = Value(log[k])
      <4>1. Rows(log, k) \in 1..Len(curve)
        BY <1>0, <2>12, <2>14, <3>1
      <4>. QED
        BY <2>14, <2>15, <3>1, <4>1
    <3>2. Rows(log, n + 1) <= capacity => curve'[Rows(log, n + 1)] = Value(log[n + 1])
      BY <2>12, <2>15
    <3>. QED
      BY <2>13, <3>1, <3>2
  <2>17. PointsOf(log, n + 1, curve)'
    BY <1>1, <2>12, <2>15, <2>16 DEF PointsOf
  <2>18. CurveInv'
    BY <1>2, <2>3, <2>9, <2>17 DEF CurveInv
  <2>. QED
    BY <1>4, <2>8, <2>9, <2>10, <2>18
<1>7. CASE RescaleY(s)
  <2>1. /\ adding[s] = "scale" /\ adding' = [adding EXCEPT ![s] = "repaint"]
        /\ scale' = Fitted(curve) /\ UNCHANGED <<curve, pending>>
    BY <1>7 DEF RescaleY, At
  <2>2. adding'[s] = "repaint" /\ AddingInv'
    BY <1>5, <2>1
  <2>3. scale' \in Nat \ {0} /\ \A i \in DOMAIN curve : curve[i] <= scale'
    BY <1>0, <1>3, <2>1, ScaleCovers
  <2>4. DrawTypeOK'
    BY <1>1, <1>5, <2>1, <2>3 DEF DrawTypeOK
  <2>5. ScaleInv' /\ FrameInv'
    BY <2>1, <2>2, <2>3 DEF ScaleInv, FrameInv
  <2>6. CurveInv'
    BY <1>1, <1>2, <2>1, <2>2 DEF CurveInv, PointsOf
  <2>. QED
    BY <1>4, <2>2, <2>4, <2>5, <2>6
<1>8. CASE Repaint(s)
  <2>1. /\ adding[s] = "repaint" /\ adding' = [adding EXCEPT ![s] = "no"]
        /\ pending' = TRUE /\ UNCHANGED <<curve, scale>>
    BY <1>8 DEF Repaint, At
  <2>2. /\ adding'[s] = "no" /\ AddingInv'
        /\ adding' \in [Session -> {"no", "point", "scale", "repaint"}]
        /\ \A q \in Session : q # s => adding'[q] = adding[q]
    BY <1>5, <2>1
  <2>3. DrawTypeOK'
    BY <1>1, <2>1, <2>2 DEF DrawTypeOK
  <2>4. ScaleInv' /\ FrameInv'
    BY <2>1, <2>2 DEF ScaleInv, FrameInv
  <2>5. CurveInv'
    BY <1>1, <1>2, <2>1, <2>2 DEF CurveInv, PointsOf
  <2>. QED
    BY <1>4, <2>2, <2>3, <2>4, <2>5
<1>. QED
  BY <1>6, <1>7, <1>8 DEF AddPoint

\* Every step of the drawing keeps it in order.
LEMMA DrawStep == WatchInv /\ WatchInv' /\ DrawInv /\ [DrawingNext]_vars => DrawInv'
<1>. SUFFICES ASSUME WatchInv, WatchInv', DrawInv, [DrawingNext]_vars PROVE DrawInv'
  OBVIOUS
<1>1. (opening' # "unseen" => opening # "unseen") /\ UNCHANGED delays
  BY DrawFollows
<1>2. ASSUME opening # "unseen", "start" \notin delays PROVE DrawParts'
  <2>1. DrawParts
    BY <1>2 DEF DrawInv
  <2>2. CASE PressRun \/ OpenDrawing \/ StartSession
    BY <1>2, <2>1, <2>2, DrawStart
  <2>3. CASE Paint \/ UNCHANGED vars
    BY <2>1, <2>3, DrawPaint
  <2>4. CASE Watched /\ UNCHANGED drawVars
    BY <1>2, <2>1, <2>4, DrawWatched
  <2>5. ASSUME NEW s \in Session, ShowLine(s) PROVE DrawParts'
    BY <1>2, <2>1, <2>5, DrawLine
  <2>6. ASSUME NEW s \in Session, AddPoint(s) PROVE DrawParts'
    BY <1>2, <2>1, <2>6, DrawAddPoint
  <2>. QED
    BY <2>2, <2>3, <2>4, <2>5, <2>6 DEF DrawingNext, MonitorThread
<1>. QED
  BY <1>1, <1>2 DEF DrawInv

\* DrawModel and its picture follow the report, whichever thread moves.
THEOREM DrawingInvariance == DrawingSpec => []DrawInv
<1>1. DrawingSpec => DrawingInit /\ [][DrawingNext]_vars
  BY PTL DEF DrawingSpec
<1>. QED
  BY <1>1, WatchInvariance, DrawInitial, DrawStep, PTL

\* The smaller of the two lengths of CurveIsReport.
LEMMA MinOfTwo ==
  ASSUME NEW a \in Nat, NEW b \in Nat
  PROVE  Min({a, b}) = IF a <= b THEN a ELSE b
<1>1. \E x \in {a, b} : \A y \in {a, b} : x <= y
  OBVIOUS
<1>2. Min({a, b}) \in {a, b} /\ \A y \in {a, b} : Min({a, b}) <= y
  BY <1>1 DEF Min
<1>. QED
  BY <1>2

\* updateValue: between two points the curve has exactly the rows of the session's own
\* report, each at its place, however long the array is, whatever the reads of the
\* growing file met.
THEOREM CurveFollowsReport == DrawingSpec => []CurveIsReport
<1>1. WatchInv /\ DrawInv => CurveIsReport
  <2>. SUFFICES ASSUME WatchInv, DrawInv, Quiescent, "start" \notin delays, session > 0,
                       NEW log, log = shown[session],
                       NEW rows, rows = {k \in DOMAIN log : IsRow(log[k])}
                PROVE  /\ Len(curve) = Min({Cardinality(rows), capacity})
                       /\ \A k \in rows : Cardinality({j \in rows : j <= k}) <= capacity =>
                            curve[Cardinality({j \in rows : j <= k})] = Value(log[k])
    BY DEF CurveIsReport
  <2>1. opening = "no" /\ session # 0 /\ session \in Session /\ log \in Seq(Lines) /\ DrawParts
    BY DEF Quiescent, DrawInv, WatchInv, WatchTypeOK, Session
  <2>2. adding[session] = "no"
    BY <2>1 DEF Quiescent
  <2>3. PointsOf(log, Len(log), curve)
    BY <2>1, <2>2 DEF DrawParts, CurveInv
  <2>4. Len(log) \in Nat /\ rows = RowsIn(log, Len(log))
    BY <2>1 DEF RowsIn
  <2>5. \A k \in rows : {j \in rows : j <= k} = RowsIn(log, k)
    BY <2>4 DEF RowsIn
  <2>6. capacity \in Nat /\ Rows(log, Len(log)) \in Nat
    BY <2>1, <2>4, RowsCount DEF DrawParts, DrawTypeOK
  <2>7. Min({Cardinality(rows), capacity}) =
          IF Rows(log, Len(log)) <= capacity THEN Rows(log, Len(log)) ELSE capacity
    BY <2>4, <2>6, MinOfTwo DEF Rows
  <2>8. Len(curve) = Min({Cardinality(rows), capacity})
    BY <2>3, <2>7 DEF PointsOf
  <2>9. ASSUME NEW k \in rows, Cardinality({j \in rows : j <= k}) <= capacity
        PROVE  curve[Cardinality({j \in rows : j <= k})] = Value(log[k])
    <3>1. Cardinality({j \in rows : j <= k}) = Rows(log, k)
      BY <2>5 DEF Rows
    <3>. QED
      BY <2>3, <2>4, <2>9, <3>1 DEF PointsOf
  <2>. QED
    BY <2>8, <2>9
<1>. QED
  BY <1>1, WatchInvariance, DrawingInvariance, PTL

\* The picture that stays on the screen is the model's, under a scale that covers it,
\* although a paint() reads the scale and the points at two moments and no lock is held.
\* It needs the monitor thread to start in time: one that is late can add a point
\* between the two resets of a press of Run.
THEOREM PictureIsCurrent ==
  (\A d \in Followed : "start" \notin d) /\ DrawingSpec => []FrameIsCurrent
<1>1. ASSUME \A d \in Followed : "start" \notin d, DrawInv PROVE FrameIsCurrent
  <2>. SUFFICES ASSUME Quiescent, ~pending, painting = 0
                PROVE  /\ frame = [curve |-> curve, scale |-> scale]
                       /\ \A i \in DOMAIN curve : frame.curve[i] <= frame.scale
    BY DEF FrameIsCurrent
  <2>1. DrawParts /\ \A s \in Session : adding[s] = "no"
    BY <1>1 DEF Quiescent, DrawInv
  <2>2. frame = [curve |-> curve, scale |-> scale]
    BY <2>1 DEF DrawParts, DrawTypeOK, FrameInv
  <2>3. \A i \in DOMAIN curve : curve[i] <= scale
    BY <2>1 DEF DrawParts, ScaleInv
  <2>. QED
    BY <2>2, <2>3
<1>2. CASE \A d \in Followed : "start" \notin d
  <2>1. DrawInv => FrameIsCurrent
    BY <1>1, <1>2
  <2>. QED
    BY <2>1, DrawingInvariance, PTL
<1>. QED
  BY <1>2
=============================================================================
