---------------------------- MODULE OptionBoxes -----------------------------
(***************************************************************************)
(* The fourteen combo boxes of the shell (mpeshell), and the command line  *)
(* they become for the earlier console benchmark (mpe/cpp), whose parser   *)
(* is here too.                                                            *)
(*                                                                         *)
(* A box that is changed fires an event; its handler, changesMonitor,      *)
(* changes other boxes, whose events are handled before it goes on. All of *)
(* it runs on the event dispatch thread, so one step here is one act of    *)
(* the user with every event it causes. Swing's part: a box fires when an  *)
(* item is selected, also the same item again, when its items are removed  *)
(* (no item is selected then), and when the first item is added (that item *)
(* is selected, and the others follow in silence); not while it is already *)
(* firing. Selecting an item the box does not have is an exception, which  *)
(* ends every handler that is running.                                     *)
(***************************************************************************)
EXTENDS Integers, Sequences, SequencesExt

CONSTANT PickSets  \* kinds of users: for each box, the items such a user picks

VARIABLES
  picks,  \* the kind of user
  boxes,  \* the boxes and their descriptors: see Constructed
  run,    \* what mpe is run with, or Idle
  left    \* history: the selections when Benchmarks was left, or Idle

vars == <<picks, boxes, run, left>>

Idle == <<>>
Box  == 0..13

Application == 0   Action == 1    Test == 2    Memory == 3   Asm == 4
Numa        == 5   Page   == 6    Threads == 7 Ht == 8
Repeats     == 9   Adaptive == 10
StartSize   == 11  EndSize == 12  StepSize == 13

Benchmarks == 2    \* of Action
Custom     == 5    \* of Memory
Sizes      == {StartSize, EndSize, StepSize}
Options    == Memory..StepSize

\* How many values each box has to choose from.
Values == <<2, 3, 2, 6, 38, 3, 2, 13, 3, 7, 4, 22, 22, 22>>

ASSUME PicksAssumption ==
  \A p \in PickSets : /\ p \in [Box -> SUBSET Nat]
                      /\ \A i \in Box : \A k \in p[i] : k < Values[i + 1]

-----------------------------------------------------------------------------
(* The boxes and their events. What the event dispatch thread still has to   *)
(* do is a list of statements, the innermost handler's first; a statement is *)
(* a name, a box and, if it has one, an argument.                            *)

DefaultSelection(i) == CASE i = Application -> 1 [] i = Action -> 2 [] OTHER -> -1
DefaultItem(i) == IF DefaultSelection(i) >= 0 THEN DefaultSelection(i) ELSE 0

\* Filled from the descriptors, without listeners yet.
Constructed ==
  [sel       |-> [i \in Box |-> DefaultItem(i)],       \* getSelectedIndex, -1 for none
   count     |-> [i \in Box |-> Values[i + 1]],        \* items in the box; 1 is n/a
   enabled   |-> [i \in Box |-> i # Test],
   available |-> [i \in Box |-> TRUE],
   previous  |-> [i \in Box |-> DefaultSelection(i)],
   mode64    |-> TRUE,                                 \* of ComboAsm
   firing    |-> {},                                   \* boxes whose handler runs
   todo      |-> <<>>,                                 \* statements still to be done
   failed    |-> FALSE]                                \* an exception was thrown

Functional(s, i) == s.available[i] /\ i # Test

Do(s, statements) == [s EXCEPT !.todo = statements \o @]
Throw(s) == [s EXCEPT !.failed = TRUE, !.todo = <<>>]

Choose(i, k) == <<"select", i, k>>                  \* setSelectedIndex
Refill(i)    == <<<<"removeAllItems", i>>, <<"addFirst", i>>, <<"addOthers", i>>>>
Clear(items) == [n \in DOMAIN items |-> Choose(items[n], 0)]

\* A custom block without sizes gets 8 KB, 2 MB and 4 KB.
FillSizes ==
  <<<<"selectIfUnset", StartSize, 4>>, <<"selectIfUnset", EndSize, 12>>,
    <<"selectIfUnset", StepSize, 3>>>>

\* Mutant: a number of repeats leaves the adaptive repeats as they are.
ReactKeepingAdaptive(s, i) ==
  LET m == s.sel[i] IN
  CASE i = Application           -> Do([s EXCEPT !.mode64 = (m = 1)], Refill(Asm))
    [] i = Action                -> Do(s, [n \in 1..12 |-> <<"switch", n + 1, m = Benchmarks>>])
    [] i = Memory /\ m = Custom  -> Do(s, FillSizes)
    [] i = Memory /\ m \in 0..4  -> Do(s, Clear(<<StartSize, EndSize, StepSize>>))
    [] i = Adaptive /\ m > 0     -> Do(s, Clear(<<Repeats>>))
    [] i \in Sizes /\ m > 0      -> Do(s, <<Choose(Memory, Custom)>>)
    [] OTHER                     -> s

\* The switch of changesMonitor, for box i at its selection m.
React(s, i) ==
  LET m == s.sel[i] IN
  CASE i = Application           -> Do([s EXCEPT !.mode64 = (m = 1)], Refill(Asm))
    [] i = Action                -> Do(s, [n \in 1..12 |-> <<"switch", n + 1, m = Benchmarks>>])
    [] i = Memory /\ m = Custom  -> Do(s, FillSizes)
    [] i = Memory /\ m \in 0..4  -> Do(s, Clear(<<StartSize, EndSize, StepSize>>))
    [] i = Repeats /\ m > 0      -> Do(s, Clear(<<Adaptive>>))
    [] i = Adaptive /\ m > 0     -> Do(s, Clear(<<Repeats>>))
    [] i \in Sizes /\ m > 0      -> Do(s, <<Choose(Memory, Custom)>>)
    [] OTHER                     -> s

\* Mutant: the selection is remembered whether or not the box is enabled.
RememberAlways(s, i) ==
  IF s.sel[i] >= 0 THEN [s EXCEPT !.previous[i] = s.sel[i]] ELSE s

\* The end of changesMonitor.
Remember(s, i) ==
  IF s.enabled[i] /\ s.sel[i] >= 0 THEN [s EXCEPT !.previous[i] = s.sel[i]] ELSE s

\* The event of a box, to which its handler is called unless it is running.
Fire(s, i) ==
  IF i \in s.firing THEN s
  ELSE React([Do(s, <<<<"remember", i>>>>) EXCEPT !.firing = @ \cup {i}], i)

SelectItem(s, i, k) ==
  IF k < s.count[i] THEN Fire([s EXCEPT !.sel[i] = k], i) ELSE Throw(s)

\* The turn of the loop for box i when Action has become Benchmarks, or another:
\* what was selected is read before the box is filled with values or n/a, and selected
\* again if that has enabled it.
Switch(s, i, b) ==
  LET r == [s EXCEPT !.available[i] = b] IN
  Do([r EXCEPT !.enabled[i] = Functional(r, i)],
     Refill(i) \o (IF s.enabled[i] THEN <<>> ELSE <<<<"selectIfEnabled", i, s.previous[i]>>>>))

Execute(s, op) ==
  LET i == op[2] IN
  CASE op[1] = "select"          -> SelectItem(s, i, op[3])
    [] op[1] = "selectIfUnset"   -> IF s.sel[i] = 0 THEN SelectItem(s, i, op[3]) ELSE s
    [] op[1] = "selectIfEnabled" -> IF s.enabled[i] /\ op[3] >= 0
                                    THEN SelectItem(s, i, op[3]) ELSE s
    [] op[1] = "removeAllItems"  -> Fire([s EXCEPT !.sel[i] = -1, !.count[i] = 0], i)
    [] op[1] = "addFirst"        -> Fire([s EXCEPT !.sel[i] = 0, !.count[i] = 1], i)
    [] op[1] = "addOthers"       -> IF s.available[i] THEN [s EXCEPT !.count[i] = Values[i + 1]]
                                    ELSE s
    [] op[1] = "switch"          -> Switch(s, i, op[3])
    [] op[1] = "enable"          -> [s EXCEPT !.enabled[i] = op[3]]
    [] op[1] = "remember"        -> [Remember(s, i) EXCEPT !.firing = @ \ {i}]

\* One statement is done. No act of the user takes more than Most rounds of Most statements;
\* one that did would count as failed.
Most == 20
Turn(s) == IF s.todo = <<>> THEN s ELSE Execute([s EXCEPT !.todo = Tail(@)], Head(s.todo))
Turns(s) ==
  LET after[n \in 0..Most] == IF n = 0 THEN s ELSE Turn(after[n - 1]) IN after[Most]

\* The state the event dispatch thread leaves.
Round(s) == IF s.todo = <<>> THEN s ELSE Turns(s)
Done(s) ==
  LET after[n \in 0..Most] == IF n = 0 THEN s ELSE Round(after[n - 1])
      last == after[Most]
  IN IF last.todo = <<>> THEN last ELSE Throw(last)

\* The boxes are filled a second time, with their listeners, when the system
\* information is known.
FillAgain(i) ==
  Refill(i) \o
  (IF DefaultSelection(i) >= 0 THEN <<Choose(i, DefaultSelection(i))>> ELSE <<>>) \o
  (IF i = Test THEN <<<<"enable", i, FALSE>>>> ELSE <<>>)

Default(i) == <<Choose(i, DefaultItem(i)), <<"enable", i, i # Test>>>>

-----------------------------------------------------------------------------
(* From the boxes to the command line. An option is a pair of a name and a  *)
(* value: a word, a number, or a number with a unit. The names differ, so   *)
(* their order does not matter.                                             *)

Named(first) ==
  first \o
  <<"readmmx64", "writemmx64", "copymmx64", "readsse128", "writesse128", "copysse128",
    "readavx256", "writeavx256", "copyavx256", "readavx512", "writeavx512", "copyavx512",
    "dotfma256", "dotfma512", "ntwwritesse128", "ntwcopysse128", "ntwwriteavx256",
    "ntwcopyavx256", "ntwwriteavx512", "ntwcopyavx512", "ntrwreadsse128",
    "ntrwcopysse128", "ntrwreadavx256", "ntrwcopyavx256", "ntrwreadavx512",
    "ntrwcopyavx512", "ntprwreadsse128", "ntprwcopysse128", "ntprwreadavx256",
    "latencylcm", "latencyrdrand">>
AsmNames(mode64) ==
  IF mode64
  THEN Named(<<"readmov64", "writemov64", "copymov64", "modifynot64", "writestring64",
               "copystring64">>)
  ELSE Named(<<"readmov32", "writemov32", "copymov32", "modifynot32", "writestring32",
               "copystring32">>)

CmdName ==
  <<"memory", "asm", "numa", "page", "threads", "ht", "repeats", "adaptive",
    "start", "end", "step">>

ThreadNumbers == <<1, 2, 4, 8, 10, 12, 16, 20, 24, 32, 48, 64>>
RepeatNumbers == <<2000000, 500000, 10000, 1000, 200, 20>>
AdaptiveSizes == <<512, 256, 64>>  \* megabytes

\* printRoundSize of the k-th size, 2^(k-1) KB.
RoundSize(k) ==
  LET kb == 2^(k - 1) IN
  IF kb < 1024 THEN <<kb, "K">> ELSE IF kb < 1024 * 1024 THEN <<kb \div 1024, "M">>
  ELSE <<kb \div (1024 * 1024), "G">>

\* getCmdValues()[k] of box i, where it is not null.
CmdValue(s, i, k) ==
  CASE i = Memory -> <<"l1", "l2", "l3", "l4", "dram", "custom">>[k + 1]
    [] i = Numa   -> <<"unaware", "local", "remote">>[k + 1]
    [] i = Page   -> <<"default", "large">>[k + 1]
    [] i = Asm      -> AsmNames(s.mode64)[k]
    [] i = Threads  -> ThreadNumbers[k]
    [] i = Ht       -> <<"off", "on">>[k]
    [] i = Repeats  -> RepeatNumbers[k]
    [] i = Adaptive -> <<AdaptiveSizes[k], "M">>
    [] i \in Sizes  -> RoundSize(k)

\* The boxes whose first item leaves the option to mpe.
WithoutFirst == {Asm, Threads, Ht, Repeats, Adaptive}

\* optionHelper.
Option(s, i) ==
  IF i \in WithoutFirst /\ s.sel[i] = 0 THEN {}
  ELSE {<<CmdName[i - 2], CmdValue(s, i, s.sel[i])>>}

SizesSet(s) == \A i \in Sizes : s.sel[i] > 0

\* Mutant: the memory object stays beside the sizes.
CommandLineWithMemory(s) ==
  {<<"out", "file">>,
   <<<<"help", "full">>, <<"info", "all">>, <<"test", "memory">>>>[s.sel[Action] + 1]} \cup
  UNION {Option(s, i) : i \in (Memory..Adaptive) \cup (IF SizesSet(s) THEN Sizes ELSE {})}

\* The option string of extractParmsFromGui.
CommandLine(s) ==
  {<<"out", "file">>,
   <<<<"help", "full">>, <<"info", "all">>, <<"test", "memory">>>>[s.sel[Action] + 1]} \cup
  UNION {Option(s, i) : i \in (Asm..Adaptive) \cup
                              (IF SizesSet(s) THEN Sizes ELSE {Memory})}

\* Where the picture ends for a custom block, in KB.
CustomScale(s) ==
  LET k  == s.sel[EndSize]
      kb == 2^(k - 1)
  IN IF k = 0 THEN 80 ELSE IF kb < 40 THEN 40 ELSE IF kb < 80 THEN 80
     ELSE IF kb < 200 THEN 200 ELSE IF kb % 400 = 0 THEN kb ELSE (kb \div 400) * 400 + 400

\* askMode, for the Y axis.
AxisMode(k) == IF k <= 35 THEN "bandwidth" ELSE IF k <= 37 THEN "latency" ELSE "unknown"

-----------------------------------------------------------------------------
(* The parser of mpe, in the program of one of the two widths.              *)

NotSet == -1

\* The words an option may have, with its first word for 0.
Words(mode64) ==
  [help |-> <<"brief", "full">>,
   info |-> <<"cpu", "topology", "topologyex", "memory", "paging", "api", "domains",
              "threads", "all">>,
   test |-> <<"memory", "storage">>,
   out  |-> <<"screen", "file">>,
   asm  |-> (IF mode64
             THEN <<"readmov64", "writemov64", "copymov64", "modifynot64",
                    "writestring64", "copystring64">>
             ELSE <<"readmov32", "writemov32", "copymov32", "modifynot32",
                    "writestring32", "copystring32">>) \o
            <<"readmmx64", "writemmx64", "copymmx64",
              "readsse128", "writesse128", "copysse128",
              "readavx256", "writeavx256", "copyavx256",
              "readavx512", "writeavx512", "copyavx512", "dotfma256", "dotfma512",
              "ntwwritesse128", "ntwcopysse128", "ntwwriteavx256", "ntwcopyavx256",
              "ntwwriteavx512", "ntwcopyavx512", "ntrwreadsse128", "ntrwcopysse128",
              "ntrwreadavx256", "ntrwcopyavx256", "ntrwreadavx512", "ntrwcopyavx512",
              "ntprwreadsse128", "ntprwcopysse128", "ntprwreadavx256",
              "latencylcm", "latencyrdrand">>,
   memory |-> <<"l1", "l2", "l3", "l4", "dram">>,
   page |-> <<"default", "large">>,
   ht   |-> <<"off", "on">>,
   numa |-> <<"unaware", "local", "remote">>]
NumberOptions == {"threads", "repeats"}
SizeOptions   == {"adaptive", "start", "end", "step"}

\* resetBeforeParse, after the constructor; sizes in KB.
ParserDefaults ==
  [o \in DOMAIN Words(TRUE) \cup NumberOptions \cup SizeOptions |->
     CASE o \in {"page", "out"} -> 0 [] o \in {"start", "step"} -> 4 [] o = "end" -> 64
       [] OTHER -> NotSet]

Kilobytes(v) ==
  v[1] * (CASE v[2] = "K" -> 1 [] v[2] = "M" -> 1024 [] v[2] = "G" -> 1024 * 1024)

\* What an option becomes, or NotSet for a word that is not one of its own.
Parsed(mode64, o, v) ==
  CASE o \in NumberOptions -> v
    [] o \in SizeOptions   -> Kilobytes(v)
    [] OTHER               -> SelectInSeq(Words(mode64)[o], LAMBDA w : w = v) - 1

\* parseCommandLine returns 0, and the parameters are then these.
Accepted(r) == \A x \in r.line : Parsed(r.program64, x[1], x[2]) # NotSet
Parameters(r) ==
  [o \in DOMAIN ParserDefaults |->
     IF \E x \in r.line : x[1] = o
     THEN Parsed(r.program64, o, (CHOOSE x \in r.line : x[1] = o)[2])
     ELSE ParserDefaults[o]]

-----------------------------------------------------------------------------
Init ==
  /\ picks \in PickSets
  /\ boxes = Done(Do(Constructed, FlattenSeq([n \in 1..14 |-> FillAgain(n - 1)])))
  /\ run = Idle /\ left = Idle

AtRest == run = Idle /\ ~boxes.failed

Follow ==
  left' = IF boxes'.sel[Action] = Benchmarks THEN Idle
          ELSE IF left = Idle THEN boxes.sel ELSE left

\* The user picks item k of box i.
Pick(i, k) ==
  /\ AtRest /\ boxes.enabled[i] /\ k < boxes.count[i]
  /\ boxes' = Done(Do(boxes, <<Choose(i, k)>>))
  /\ Follow /\ UNCHANGED <<picks, run>>

PressDefaults ==
  /\ AtRest
  /\ boxes' = Done(Do(boxes, FlattenSeq([n \in 1..14 |-> Default(n - 1)])))
  /\ Follow /\ UNCHANGED <<picks, run>>

\* guiStateHelper, before and after a run.
Enable(s, flag) == [s EXCEPT !.enabled = [i \in Box |-> flag /\ Functional(s, i)]]

\* Run: the boxes are disabled, and their selections become what mpe is run with.
PressRun ==
  /\ AtRest
  /\ boxes' = Enable(boxes, FALSE)
  /\ run' = [program64 |-> boxes.sel[Application] = 1, line |-> CommandLine(boxes),
             scale |-> CustomScale(boxes), axis |-> AxisMode(boxes.sel[Asm])]
  /\ UNCHANGED <<picks, left>>

RunEnds ==
  /\ run # Idle
  /\ boxes' = Enable(boxes, TRUE) /\ run' = Idle
  /\ UNCHANGED <<picks, left>>

\* What the boxes do after an exception is not followed.
Failed == boxes.failed /\ UNCHANGED vars

Next ==
  \/ \E i \in Box : \E k \in picks[i] : Pick(i, k)
  \/ PressDefaults \/ PressRun \/ RunEnds \/ Failed

Spec == Init /\ [][Next]_vars

-----------------------------------------------------------------------------
\* When no handler runs, the boxes agree with each other: a block size is set only
\* with a custom block, never both kinds of repeats, the options can be changed under
\* Benchmarks only and are n/a otherwise, the methods are those of the application's width,
\* and what is remembered of an enabled box is what it shows. The code keeps this by
\* handlers that change other boxes and are called by them (MpeGuiList.java:70).
BoxesAgree ==
  ~boxes.failed =>
  LET on == boxes.sel[Action] = Benchmarks IN
  /\ (\E i \in Sizes : boxes.sel[i] > 0) => boxes.sel[Memory] = Custom
  /\ boxes.sel[Repeats] = 0 \/ boxes.sel[Adaptive] = 0
  /\ boxes.mode64 = (boxes.sel[Application] = 1)
  /\ boxes.firing = {}
  /\ \A i \in Box :
       /\ boxes.count[i] = (IF on \/ i \in {Application, Action} THEN Values[i + 1] ELSE 1)
       /\ boxes.sel[i] \in 0..(boxes.count[i] - 1)
       /\ boxes.enabled[i] = (run = Idle /\ (i \in {Application, Action} \/ (on /\ i # Test)))
       /\ boxes.enabled[i] => boxes.previous[i] = boxes.sel[i]

\* What mpe's parser makes of the command line is what the boxes show: scenario, method,
\* memory object, or the block sizes in its place, and every other option, in
\* the program of the chosen width. The picture has the axis of the method
\* and room for a block of the size of end, though not for a larger start. A custom
\* block that has a size on auto is what the shell lets the user ask for and mpe rejects
\* (MpeGuiList.java:263).
OptionsUnderstood ==
  run # Idle =>
  LET p == Parameters(run)  s == boxes.sel IN
  /\ Accepted(run) <=> (s[Memory] = Custom => SizesSet(boxes))
  /\ CASE s[Action] = 0 -> p.help = 1 /\ p.info = NotSet /\ p.test = NotSet
       [] s[Action] = 1 -> p.help = NotSet /\ p.info = 8 /\ p.test = NotSet
       [] s[Action] = 2 -> p.help = NotSet /\ p.info = NotSet /\ p.test = 0
  /\ p.out = 1
  /\ p.asm = s[Asm] - 1 /\ p.numa = s[Numa] /\ p.page = s[Page] /\ p.ht = s[Ht] - 1
  /\ p.threads  = (IF s[Threads] = 0 THEN NotSet ELSE ThreadNumbers[s[Threads]])
  /\ p.repeats  = (IF s[Repeats] = 0 THEN NotSet ELSE RepeatNumbers[s[Repeats]])
  /\ p.adaptive = (IF s[Adaptive] = 0 THEN NotSet ELSE AdaptiveSizes[s[Adaptive]] * 1024)
  /\ p.memory = (IF s[Memory] = Custom THEN NotSet ELSE s[Memory])
  /\ SizesSet(boxes) =>
       /\ p.start = 2^(s[StartSize] - 1) /\ p.end = 2^(s[EndSize] - 1)
       /\ p.step = 2^(s[StepSize] - 1)
       /\ run.scale >= p.end
  /\ run.axis = (IF p.asm \in {35, 36} THEN "latency" ELSE "bandwidth")

\* The selections survive a change of Action to Help or System information and back,
\* also when the application is changed in between: every option is again
\* what it was. (Benchmarks picked again while it is selected is no such return.) A custom block is the exception: the return to it, and only that, ends in
\* an exception, because Memory asks for sizes while their boxes still have n/a
\* alone (MpeGuiList.java:106). Defaults leads back to the state after the start.
OptionsRestored ==
  [][LET returns == left # Idle /\ boxes'.sel[Action] = Benchmarks IN
     /\ ~boxes.failed => boxes'.failed = (returns /\ left[Memory] = Custom)
     /\ (returns /\ ~boxes'.failed) =>
          (\A i \in Options : boxes'.sel[i] = left[i]) \/ PressDefaults
     /\ (PressDefaults /\ ~boxes'.failed) =>
          boxes'.sel = Constructed.sel /\ boxes'.enabled = Constructed.enabled
    ]_vars
=============================================================================
