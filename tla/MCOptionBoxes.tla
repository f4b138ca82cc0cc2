--------------------------- MODULE MCOptionBoxes ---------------------------
(* The instance of OptionBoxes for TLC: the kinds of users.                 *)
EXTENDS OptionBoxes

\* One who uses the boxes that depend on each other.
Interplay ==
  [i \in Box |->
     CASE i \in {Application, Action} -> 0..(Values[i + 1] - 1)
       [] i = Memory    -> {0, 4, Custom}
       [] i = Asm       -> {35, 36}
       [] i = Threads   -> {0, 2}
       [] i \in {Repeats, Adaptive} -> {0, 3}
       [] i = StartSize -> {0, 1}
       [] i = EndSize   -> {0, 21}
       [] i = StepSize  -> {0, 11}
       [] OTHER         -> {}]

\* One who tries every item of box i.
EveryItem(i) ==
  [j \in Box |->
     CASE j \in {i, Application, Action} -> 0..(Values[j + 1] - 1)
       [] j = Memory                     -> {1, Custom}
       [] OTHER                          -> {}]

Users == {Interplay} \cup {EveryItem(i) : i \in Options}
=============================================================================
