------------------------- MODULE OptionBoxesProofs --------------------------
(***************************************************************************)
(* Proofs about OptionBoxes, for every kind of user and every order in     *)
(* which the boxes are changed: what holds between two statements of the   *)
(* event dispatch thread, that every statement keeps it, and what it says  *)
(* of the boxes and of the command line when no statement is left.         *)
(***************************************************************************)
EXTENDS OptionBoxes, SequenceTheorems, WellFoundedInduction, TLAPS

-----------------------------------------------------------------------------
(* What holds between two statements of the event dispatch thread.          *)

\* The boxes that can always be changed, and those Action enables or fills with n/a.
Tabs     == {Application, Action}
Settings == Test..StepSize
\* What FillSizes selects.
Positive == Nat \ {0}

\* The statements without an argument.
Remembering(i) == <<"remember", i>>
Removing(i)    == <<"removeAllItems", i>>
AddingFirst(i) == <<"addFirst", i>>
AddingRest(i)  == <<"addOthers", i>>

\* Every statement there is.
Statements ==
  ({"select"} \X Box \X Nat) \cup ({"selectIfUnset"} \X Sizes \X Positive) \cup
  ({"selectIfEnabled"} \X Settings \X Int) \cup
  ({"removeAllItems", "addFirst", "addOthers", "remember"} \X Box) \cup
  ({"switch"} \X Settings \X BOOLEAN) \cup ({"enable"} \X Box \X BOOLEAN)

\* What may be done while the handler of box i runs.
Within(i) ==
  CASE i = Application -> {Removing(Asm), AddingFirst(Asm), AddingRest(Asm), Remembering(Asm)}
    [] i = Action      -> {op \in Statements : op[2] \in Settings /\ op[1] # "enable"}
    [] i = Memory      -> {Choose(Memory, Custom)} \cup {Choose(j, 0) : j \in Sizes} \cup
                          ({"selectIfUnset"} \X Sizes \X Positive) \cup
                          {Remembering(j) : j \in Sizes}
    [] i = Repeats     -> {Choose(Adaptive, 0), Remembering(Adaptive)}
    [] i = Adaptive    -> {Choose(Repeats, 0), Remembering(Repeats)}
    [] i \in Sizes     -> {Choose(Memory, Custom), Remembering(Memory)} \cup
                          ({"selectIfUnset"} \X Sizes \X Positive) \cup
                          {Remembering(j) : j \in Sizes \ {i}}
    [] OTHER           -> {}

\* What is still to be done.
Pending(t) == {t[n] : n \in DOMAIN t}

\* The types of the boxes' state.
StateType ==
  [sel : [Box -> Int], count : [Box -> Int], enabled : [Box -> BOOLEAN],
   available : [Box -> BOOLEAN], previous : [Box -> Int], mode64 : BOOLEAN,
   firing : SUBSET Box, todo : Seq(Statements), failed : BOOLEAN]

\* A box that is emptied is filled at once: nothing comes between the three statements.
Refills(t) ==
  \A n \in DOMAIN t : \A i \in Box :
    /\ t[n] = Removing(i) => n + 1 \in DOMAIN t /\ t[n + 1] = AddingFirst(i)
    /\ t[n] = AddingFirst(i) => n + 1 \in DOMAIN t /\ t[n + 1] = AddingRest(i)

\* What comes before the end of a handler was put there by that handler, or by one it called.
Nested(t) ==
  \A n, m \in DOMAIN t : \A i \in Box :
    n < m /\ t[m] = Remembering(i) => t[n] \in Within(i)

\* A box is switched by the handler of Action, a size is filled by the one of Memory.
Caused(t) ==
  \A n \in DOMAIN t :
    /\ t[n][1] = "switch" => \E m \in DOMAIN t : n < m /\ t[m] = Remembering(Action)
    /\ t[n][1] = "selectIfUnset" => \E m \in DOMAIN t : n < m /\ t[m] = Remembering(Memory)

\* The benchmarks are chosen, whose options can be changed.
On(s) == s.sel[Action] = Benchmarks

\* A box has its values, or n/a alone, and shows one of them, unless it is being filled.
Counted(s) == 
  LET P == Pending(s.todo) IN
  \A i \in Box :
    /\ s.count[i] \in 0..Values[i + 1]
    /\ \/ s.count[i] = (IF s.available[i] THEN Values[i + 1] ELSE 1)
       \/ AddingRest(i) \in P /\ (s.count[i] = 1 \/ AddingFirst(i) \in P)
    /\ s.sel[i] >= -1
    /\ AddingFirst(i) \in P \/ s.sel[i] \in 0..(s.count[i] - 1)

\* A box is available as Action says, unless it is still to be switched; what is still
\* to be switched will be as Action says. A box is enabled if it is functional.
Switched(s) ==
  LET P == Pending(s.todo) IN
  /\ \A i \in Tabs : s.available[i]
  /\ \A i \in Settings : \/ s.available[i] <=> On(s)
                         \/ \E b \in BOOLEAN : <<"switch", i, b>> \in P
  /\ \A i \in Settings : \A b \in BOOLEAN : <<"switch", i, b>> \in P => (b <=> On(s))
  /\ \A i \in Box : s.enabled[i] <=> Functional(s, i)

\* An enabled box remembers what it shows, unless its handler runs or it is being filled.
Remembered(s) ==
  \A i \in Box : s.enabled[i] =>
    s.previous[i] = s.sel[i] \/ i \in s.firing \/ AddingFirst(i) \in Pending(s.todo)

\* A box is enabled by Defaults when it is available, or when it will have been switched.
EnableOrder(t, on, available) ==
  \A n \in DOMAIN t : \A i \in Box : \A b \in BOOLEAN :
    t[n] = <<"enable", i, b>> =>
    /\ b = (i # Test)
    /\ i \in Memory..StepSize =>
         /\ \/ on /\ (available[i] \/ \E m \in DOMAIN t : m < n /\ t[m] = <<"switch", i, TRUE>>)
            \/ \E m \in DOMAIN t : m < n /\ t[m] = Choose(Action, Benchmarks)
         /\ \A op \in Pending(t) : op[2] = Action =>
              op \in {Choose(Action, Benchmarks), Remembering(Action), <<"enable", Action, TRUE>>}

\* The selections agree with each other, or what makes them agree is still to be done.
Agreeing(s) ==
  LET P == Pending(s.todo) IN
  /\ s.mode64 <=> (s.sel[Application] = 1)
  /\ \/ s.sel[Repeats] <= 0 \/ s.sel[Adaptive] <= 0
     \/ Choose(Repeats, 0) \in P \/ Choose(Adaptive, 0) \in P
  /\ \/ s.sel[Memory] = Custom \/ Choose(Memory, Custom) \in P \/ AddingFirst(Memory) \in P
     \/ \A i \in Sizes : s.sel[i] <= 0 \/ Choose(i, 0) \in P
  /\ \A op \in P : op[1] = "selectIfUnset" => s.sel[Memory] = Custom

\* What holds between two statements.
Good(s) ==
  /\ s \in StateType
  /\ s.firing = {i \in Box : Remembering(i) \in Pending(s.todo)}
  /\ Refills(s.todo) /\ Nested(s.todo) /\ Caused(s.todo)
  /\ Counted(s) /\ Switched(s) /\ Remembered(s) /\ EnableOrder(s.todo, On(s), s.available) /\ Agreeing(s)


-----------------------------------------------------------------------------
(* Lists of statements.                                                     *)

\* The positions of a list put before another.
LEMMA Concat ==
  ASSUME NEW new \in Seq(Statements), NEW rest \in Seq(Statements)
  PROVE  /\ new \o rest \in Seq(Statements)
         /\ Len(new \o rest) = Len(new) + Len(rest)
         /\ DOMAIN (new \o rest) = 1..(Len(new) + Len(rest))
         /\ \A n \in DOMAIN new : (new \o rest)[n] = new[n]
         /\ \A n \in DOMAIN rest : (new \o rest)[Len(new) + n] = rest[n]
         /\ DOMAIN new = 1..Len(new) /\ DOMAIN rest = 1..Len(rest)
         /\ Len(new) \in Nat /\ Len(rest) \in Nat
  OBVIOUS

\* Each of its statements is one of the two lists.
LEMMA Place ==
  ASSUME NEW new \in Seq(Statements), NEW rest \in Seq(Statements),
         NEW n \in DOMAIN (new \o rest)
  PROVE  \/ n \in DOMAIN new /\ (new \o rest)[n] = new[n]
         \/ /\ n > Len(new) /\ n - Len(new) \in DOMAIN rest
            /\ (new \o rest)[n] = rest[n - Len(new)]
  BY Concat

\* What is to be done is what one of the two says.
LEMMA ConcatPending ==
  ASSUME NEW new \in Seq(Statements), NEW rest \in Seq(Statements)
  PROVE  Pending(new \o rest) = Pending(new) \cup Pending(rest)
<1>1. ASSUME NEW x \in Pending(new \o rest) PROVE x \in Pending(new) \cup Pending(rest)
  BY Place DEF Pending
<1>2. ASSUME NEW x \in Pending(new) PROVE x \in Pending(new \o rest)
  BY Concat DEF Pending
<1>3. ASSUME NEW x \in Pending(rest) PROVE x \in Pending(new \o rest)
  <2>1. PICK n \in DOMAIN rest : x = rest[n]
    BY DEF Pending
  <2>2. Len(new) + n \in DOMAIN (new \o rest) /\ (new \o rest)[Len(new) + n] = x
    BY <2>1, Concat
  <2> QED BY <2>2 DEF Pending
<1> QED BY <1>1, <1>2, <1>3

\* Fillings stay together if both lists keep them so.
LEMMA ConcatRefills ==
  ASSUME NEW new \in Seq(Statements), NEW rest \in Seq(Statements),
         Refills(new), Refills(rest)
  PROVE  Refills(new \o rest)
<1> DEFINE t == new \o rest
<1>1. SUFFICES ASSUME NEW n \in DOMAIN t, NEW i \in Box
               PROVE  /\ t[n] = Removing(i) => n + 1 \in DOMAIN t /\ t[n + 1] = AddingFirst(i)
                      /\ t[n] = AddingFirst(i) => n + 1 \in DOMAIN t /\ t[n + 1] = AddingRest(i)
  BY DEF Refills
<1>2. CASE n \in DOMAIN new /\ t[n] = new[n]
  <2>1. ASSUME n + 1 \in DOMAIN new PROVE n + 1 \in DOMAIN t /\ t[n + 1] = new[n + 1]
    BY <2>1, Concat
  <2> HIDE DEF t
  <2> QED BY <1>2, <2>1 DEF Refills
<1>3. CASE /\ n > Len(new) /\ n - Len(new) \in DOMAIN rest
           /\ t[n] = rest[n - Len(new)]
  <2> DEFINE k == n - Len(new)
  <2>1. ASSUME k + 1 \in DOMAIN rest PROVE n + 1 \in DOMAIN t /\ t[n + 1] = rest[k + 1]
    <3>1. Len(new) + (k + 1) = n + 1
      BY Concat
    <3>2. t[Len(new) + (k + 1)] = rest[k + 1]
      BY <2>1, Concat
    <3>3. n + 1 \in DOMAIN t
      BY <2>1, Concat
    <3> QED BY <3>1, <3>2, <3>3
  <2> HIDE DEF t
  <2>2. k \in DOMAIN rest /\ t[n] = rest[k]
    BY <1>3
  <2> HIDE DEF k
  <2> QED BY <2>1, <2>2 DEF Refills
<1> QED BY <1>2, <1>3, Place

\* Handlers stay nested if what is new is done within every handler that runs.
LEMMA ConcatNested ==
  ASSUME NEW new \in Seq(Statements), NEW rest \in Seq(Statements),
         Nested(new), Nested(rest),
         \A i \in Box : Remembering(i) \in Pending(rest) => Pending(new) \subseteq Within(i)
  PROVE  Nested(new \o rest)
<1> DEFINE t == new \o rest
<1>1. SUFFICES ASSUME NEW n \in DOMAIN t, NEW m \in DOMAIN t, NEW i \in Box,
                      n < m, t[m] = Remembering(i)
               PROVE  t[n] \in Within(i)
  BY DEF Nested
<1>2. CASE m \in DOMAIN new /\ t[m] = new[m]
  <2>1. n \in DOMAIN new /\ t[n] = new[n]
    BY <1>1, <1>2, Concat
  <2> HIDE DEF t
  <2> QED BY <1>1, <1>2, <2>1 DEF Nested
<1>3. CASE /\ m > Len(new) /\ m - Len(new) \in DOMAIN rest
           /\ t[m] = rest[m - Len(new)]
  <2>1. CASE n \in DOMAIN new /\ t[n] = new[n]
    BY <1>1, <1>3, <2>1 DEF Pending
  <2>2. CASE /\ n > Len(new) /\ n - Len(new) \in DOMAIN rest
             /\ t[n] = rest[n - Len(new)]
    <3>1. n - Len(new) < m - Len(new)
      BY <1>1, <1>3, <2>2, Concat
    <3> HIDE DEF t
    <3> QED BY <1>1, <1>3, <2>2, <3>1 DEF Nested
  <2> QED BY <2>1, <2>2, Place
<1> QED BY <1>2, <1>3, Place

\* What handlers cause stays before their ends.
LEMMA ConcatCaused ==
  ASSUME NEW new \in Seq(Statements), NEW rest \in Seq(Statements),
         Caused(rest),
         \A op \in Pending(new) : op[1] = "switch" =>
           Remembering(Action) \in Pending(rest) \/ Caused(new),
         \A op \in Pending(new) : op[1] = "selectIfUnset" =>
           Remembering(Memory) \in Pending(rest) \/ Caused(new)
  PROVE  Caused(new \o rest)
<1> DEFINE t == new \o rest
<1>1. ASSUME NEW n \in DOMAIN new, NEW x, new[n][1] = x,
             NEW r, Caused(new) => (\E m \in DOMAIN new : n < m /\ new[m] = r),
             r \in Pending(rest) \/ Caused(new)
      PROVE  \E m \in DOMAIN t : n < m /\ t[m] = r
  <2>1. CASE r \in Pending(rest)
    <3>1. PICK k \in DOMAIN rest : rest[k] = r
      BY <2>1 DEF Pending
    <3>2. Len(new) + k \in DOMAIN t /\ t[Len(new) + k] = r /\ n < Len(new) + k
      BY <3>1, Concat
    <3> QED BY <3>2
  <2>2. CASE Caused(new)
    <3>1. PICK m \in DOMAIN new : n < m /\ new[m] = r
      BY <1>1, <2>2
    <3>2. m \in DOMAIN t /\ t[m] = r
      BY <3>1, Concat
    <3> QED BY <3>1, <3>2
  <2> QED BY <1>1, <2>1, <2>2
<1>2. ASSUME NEW n \in DOMAIN rest, NEW r, \E m \in DOMAIN rest : n < m /\ rest[m] = r
      PROVE  \E m \in DOMAIN t : Len(new) + n < m /\ t[m] = r
  <2>1. PICK m \in DOMAIN rest : n < m /\ rest[m] = r
    BY <1>2
  <2>2. Len(new) + m \in DOMAIN t /\ t[Len(new) + m] = r /\ Len(new) + n < Len(new) + m
    BY <2>1, Concat
  <2> QED BY <2>2
<1>3. ASSUME NEW n \in DOMAIN t
      PROVE  /\ t[n][1] = "switch" => \E m \in DOMAIN t : n < m /\ t[m] = Remembering(Action)
             /\ t[n][1] = "selectIfUnset" => \E m \in DOMAIN t : n < m /\ t[m] = Remembering(Memory)
  <2>1. CASE n \in DOMAIN new /\ t[n] = new[n]
    <3>1. t[n] \in Pending(new) /\ t[n][1] = new[n][1]
      BY <2>1 DEF Pending
    <3>2. CASE t[n][1] = "switch"
      <4>1. Caused(new) => (\E m \in DOMAIN new : n < m /\ new[m] = Remembering(Action))
        BY <2>1, <3>1, <3>2 DEF Caused
      <4>2. Remembering(Action) \in Pending(rest) \/ Caused(new)
        BY <3>1, <3>2
      <4>3. \E m \in DOMAIN t : n < m /\ t[m] = Remembering(Action)
        <5> HIDE DEF t
        <5> QED BY <1>1, <2>1, <4>1, <4>2
      <4> QED BY <3>2, <4>3
    <3>3. CASE t[n][1] = "selectIfUnset"
      <4>1. Caused(new) => (\E m \in DOMAIN new : n < m /\ new[m] = Remembering(Memory))
        BY <2>1, <3>1, <3>3 DEF Caused
      <4>2. Remembering(Memory) \in Pending(rest) \/ Caused(new)
        BY <3>1, <3>3
      <4>3. \E m \in DOMAIN t : n < m /\ t[m] = Remembering(Memory)
        <5> HIDE DEF t
        <5> QED BY <1>1, <2>1, <4>1, <4>2
      <4> QED BY <3>3, <4>3
    <3> QED BY <3>2, <3>3
  <2>2. CASE /\ n > Len(new) /\ n - Len(new) \in DOMAIN rest
             /\ t[n] = rest[n - Len(new)]
    <3> DEFINE k == n - Len(new)
    <3>1. k \in DOMAIN rest /\ t[n] = rest[k] /\ Len(new) + k = n
      BY <2>2, Concat
    <3> HIDE DEF t, k
    <3> QED BY <1>2, <3>1 DEF Caused
  <2> QED BY <2>1, <2>2, Place
<1> QED BY <1>3 DEF Caused

\* The first statement taken off the list.
LEMMA TakeOff ==
  ASSUME NEW t \in Seq(Statements), t # <<>>
  PROVE  /\ Tail(t) \in Seq(Statements) /\ Head(t) \in Statements
         /\ Pending(t) = {Head(t)} \cup Pending(Tail(t))
         /\ DOMAIN t = 1..Len(t) /\ Len(t) \in Nat /\ Len(t) > 0
         /\ DOMAIN Tail(t) = 1..(Len(t) - 1) /\ t[1] = Head(t)
         /\ \A n \in DOMAIN Tail(t) : n + 1 \in DOMAIN t /\ Tail(t)[n] = t[n + 1]
         /\ \A n \in DOMAIN t : n = 1 \/ (n - 1 \in DOMAIN Tail(t) /\ t[n] = Tail(t)[n - 1])
<1>1. /\ Tail(t) \in Seq(Statements) /\ Head(t) \in Statements
      /\ DOMAIN t = 1..Len(t) /\ Len(t) \in Nat /\ Len(t) > 0
      /\ DOMAIN Tail(t) = 1..(Len(t) - 1) /\ t[1] = Head(t)
      /\ \A n \in DOMAIN Tail(t) : n + 1 \in DOMAIN t /\ Tail(t)[n] = t[n + 1]
  OBVIOUS
<1>2. ASSUME NEW n \in DOMAIN t
      PROVE  n = 1 \/ (n - 1 \in DOMAIN Tail(t) /\ t[n] = Tail(t)[n - 1])
  BY <1>1
<1>3. Pending(t) = {Head(t)} \cup Pending(Tail(t))
  <2>1. PICK h, r : h = Head(t) /\ r = Tail(t)
    OBVIOUS
  <2>2. ASSUME NEW n \in DOMAIN t PROVE t[n] \in {h} \cup Pending(r)
    BY <1>1, <1>2, <2>1, <2>2 DEF Pending
  <2>3. h \in Pending(t)
    <3>1. 1 \in DOMAIN t
      BY <1>1
    <3> QED BY <1>1, <2>1, <3>1 DEF Pending
  <2>4. ASSUME NEW n \in DOMAIN r PROVE r[n] \in Pending(t)
    <3>1. n + 1 \in DOMAIN t /\ r[n] = t[n + 1]
      BY <1>1, <2>1, <2>4
    <3> QED BY <3>1 DEF Pending
  <2>5. Pending(r) \subseteq Pending(t)
    BY <2>4 DEF Pending
  <2>6. Pending(t) \subseteq {h} \cup Pending(r)
    BY <2>2 DEF Pending
  <2> QED BY <2>1, <2>3, <2>5, <2>6
<1> QED BY <1>1, <1>2, <1>3

\* What the three orders say of the first statement and of the others.
LEMMA TakeOffOrders ==
  ASSUME NEW t \in Seq(Statements), t # <<>>, Refills(t), Nested(t), Caused(t)
  PROVE  /\ Refills(Tail(t)) /\ Nested(Tail(t)) /\ Caused(Tail(t))
         /\ \A i \in Box :
              /\ Head(t) = Removing(i) => AddingFirst(i) \in Pending(Tail(t))
              /\ Head(t) = AddingFirst(i) => AddingRest(i) \in Pending(Tail(t))
              /\ AddingFirst(i) \in Pending(Tail(t)) => AddingRest(i) \in Pending(Tail(t))
              /\ Remembering(i) \in Pending(Tail(t)) => Head(t) \in Within(i)
         /\ \A op \in Pending(t) :
              /\ op[1] = "switch" => Remembering(Action) \in Pending(Tail(t))
              /\ op[1] = "selectIfUnset" => Remembering(Memory) \in Pending(Tail(t))
<1> DEFINE r == Tail(t)
<1>1. /\ r \in Seq(Statements) /\ DOMAIN t = 1..Len(t) /\ Len(t) \in Nat /\ Len(t) > 0
      /\ DOMAIN r = 1..(Len(t) - 1) /\ t[1] = Head(t)
      /\ \A n \in DOMAIN r : n + 1 \in DOMAIN t /\ r[n] = t[n + 1]
      /\ \A n \in DOMAIN t : n = 1 \/ (n - 1 \in DOMAIN r /\ t[n] = r[n - 1])
  BY TakeOff
<1> HIDE DEF r
<1>2. Refills(r)
  <2> SUFFICES ASSUME NEW n \in DOMAIN r, NEW i \in Box
               PROVE  /\ r[n] = Removing(i) => n + 1 \in DOMAIN r /\ r[n + 1] = AddingFirst(i)
                      /\ r[n] = AddingFirst(i) => n + 1 \in DOMAIN r /\ r[n + 1] = AddingRest(i)
    BY DEF Refills
  <2>1. n + 1 \in DOMAIN t /\ t[n + 1] = r[n]
    BY <1>1
  <2>2. ASSUME (n + 1) + 1 \in DOMAIN t PROVE n + 1 \in DOMAIN r /\ r[n + 1] = t[(n + 1) + 1]
    <3>1. n + 1 \in DOMAIN r
      BY <1>1, <2>2
    <3> QED BY <1>1, <3>1
  <2>3. /\ t[n + 1] = Removing(i) =>
             (n + 1) + 1 \in DOMAIN t /\ t[(n + 1) + 1] = AddingFirst(i)
        /\ t[n + 1] = AddingFirst(i) =>
             (n + 1) + 1 \in DOMAIN t /\ t[(n + 1) + 1] = AddingRest(i)
    BY <2>1 DEF Refills
  <2> QED BY <2>1, <2>2, <2>3
<1>3. Nested(r)
  <2> SUFFICES ASSUME NEW n \in DOMAIN r, NEW m \in DOMAIN r, NEW i \in Box,
                      n < m, r[m] = Remembering(i)
               PROVE  r[n] \in Within(i)
    BY DEF Nested
  <2>1. n + 1 \in DOMAIN t /\ m + 1 \in DOMAIN t /\ n + 1 < m + 1
        /\ t[n + 1] = r[n] /\ t[m + 1] = r[m]
    BY <1>1
  <2> QED BY <2>1 DEF Nested
<1>4. ASSUME NEW n \in DOMAIN t, NEW x, \E m \in DOMAIN t : n < m /\ t[m] = x
      PROVE  \E m \in DOMAIN r : n < m + 1 /\ r[m] = x
  <2>1. PICK m \in DOMAIN t : n < m /\ t[m] = x
    BY <1>4
  <2>2. m - 1 \in DOMAIN r /\ r[m - 1] = x /\ n < (m - 1) + 1
    BY <1>1, <2>1
  <2> QED BY <2>2
<1>5. ASSUME NEW n \in DOMAIN t, NEW x, \E m \in DOMAIN t : n < m /\ t[m] = x
      PROVE  x \in Pending(r)
  BY <1>4, <1>5 DEF Pending
<1>6. Caused(r)
  <2> SUFFICES ASSUME NEW n \in DOMAIN r
               PROVE  /\ r[n][1] = "switch" =>
                           \E m \in DOMAIN r : n < m /\ r[m] = Remembering(Action)
                      /\ r[n][1] = "selectIfUnset" =>
                           \E m \in DOMAIN r : n < m /\ r[m] = Remembering(Memory)
    BY DEF Caused
  <2>1. n + 1 \in DOMAIN t /\ t[n + 1] = r[n]
    BY <1>1
  <2>2. ASSUME NEW x, \E m \in DOMAIN t : n + 1 < m /\ t[m] = x
        PROVE  \E m \in DOMAIN r : n < m /\ r[m] = x
    <3>1. PICK m \in DOMAIN r : n + 1 < m + 1 /\ r[m] = x
      BY <1>4, <2>1, <2>2
    <3>2. n < m
      BY <1>1, <3>1
    <3> QED BY <3>1, <3>2
  <2>3. /\ t[n + 1][1] = "switch" =>
             \E m \in DOMAIN t : n + 1 < m /\ t[m] = Remembering(Action)
        /\ t[n + 1][1] = "selectIfUnset" =>
             \E m \in DOMAIN t : n + 1 < m /\ t[m] = Remembering(Memory)
    BY <2>1 DEF Caused
  <2> QED BY <2>1, <2>2, <2>3
<1>7. ASSUME NEW i \in Box
      PROVE  /\ Head(t) = Removing(i) => AddingFirst(i) \in Pending(r)
             /\ Head(t) = AddingFirst(i) => AddingRest(i) \in Pending(r)
             /\ AddingFirst(i) \in Pending(r) => AddingRest(i) \in Pending(r)
             /\ Remembering(i) \in Pending(r) => Head(t) \in Within(i)
  <2>1. 1 \in DOMAIN t /\ t[1] = Head(t) /\ \A n \in DOMAIN t : n + 1 \in DOMAIN t => 1 < n + 1
    BY <1>1
  <2>2. ASSUME 1 + 1 \in DOMAIN t PROVE t[1 + 1] \in Pending(r)
    <3>1. 1 \in DOMAIN r /\ t[1 + 1] = r[1]
      BY <1>1, <2>2
    <3> QED BY <3>1 DEF Pending
  <2>3. /\ t[1] = Removing(i) => 1 + 1 \in DOMAIN t /\ t[1 + 1] = AddingFirst(i)
        /\ t[1] = AddingFirst(i) => 1 + 1 \in DOMAIN t /\ t[1 + 1] = AddingRest(i)
    BY <2>1 DEF Refills
  <2>4. AddingFirst(i) \in Pending(r) => AddingRest(i) \in Pending(r)
    <3>1. ASSUME AddingFirst(i) \in Pending(r) PROVE AddingRest(i) \in Pending(r)
      <4>1. PICK n \in DOMAIN r : r[n] = AddingFirst(i)
        BY <3>1 DEF Pending
      <4>2. n + 1 \in DOMAIN r /\ r[n + 1] = AddingRest(i)
        BY <1>2, <4>1 DEF Refills
      <4> QED BY <4>2 DEF Pending
    <3> QED BY <3>1
  <2>5. ASSUME Remembering(i) \in Pending(r) PROVE Head(t) \in Within(i)
    <3>1. PICK m \in DOMAIN r : r[m] = Remembering(i)
      BY <2>5 DEF Pending
    <3>2. m + 1 \in DOMAIN t /\ t[m + 1] = Remembering(i) /\ 1 < m + 1
      BY <1>1, <3>1
    <3> QED BY <2>1, <3>2 DEF Nested
  <2> QED BY <2>1, <2>2, <2>3, <2>4, <2>5
<1>8. ASSUME NEW op \in Pending(t)
      PROVE  /\ op[1] = "switch" => Remembering(Action) \in Pending(r)
             /\ op[1] = "selectIfUnset" => Remembering(Memory) \in Pending(r)
  <2>1. PICK n \in DOMAIN t : t[n] = op
    BY DEF Pending
  <2>2. /\ op[1] = "switch" => \E m \in DOMAIN t : n < m /\ t[m] = Remembering(Action)
        /\ op[1] = "selectIfUnset" => \E m \in DOMAIN t : n < m /\ t[m] = Remembering(Memory)
    BY <2>1 DEF Caused
  <2> QED BY <1>5, <2>2
<1> QED BY <1>2, <1>3, <1>6, <1>7, <1>8 DEF r

\* What a first statement that becomes the list new may do about the boxes that are still to
\* be enabled.
OrderSafe(head, new, on, available, onAfter, availableAfter) ==
  /\ \A op \in Pending(new) :
       op[1] # "enable" /\ (op[2] = Action => op = Remembering(Action))
  /\ head = Choose(Action, Benchmarks) =>
       onAfter /\ \A i \in Memory..StepSize : <<"switch", i, TRUE>> \in Pending(new)
  /\ (/\ head[2] = Action => head \in {Choose(Action, Benchmarks), Remembering(Action),
                                       <<"enable", Action, TRUE>>}
      /\ head # Choose(Action, Benchmarks) /\ on) =>
       /\ onAfter
       /\ \A i \in Memory..StepSize :
            available[i] \/ head = <<"switch", i, TRUE>> => availableAfter[i]

\* A list of statements put in the place of the first one.
LEMMA OrderKept ==
  ASSUME NEW t \in Seq(Statements), t # <<>>, NEW new \in Seq(Statements),
         NEW on, NEW available, NEW onAfter, NEW availableAfter,
         EnableOrder(t, on, available),
         OrderSafe(Head(t), new, on, available, onAfter, availableAfter)
  PROVE  EnableOrder(new \o Tail(t), onAfter, availableAfter)
<1>0. /\ \A op \in Pending(new) :
           op[1] # "enable" /\ (op[2] = Action => op = Remembering(Action))
      /\ Head(t) = Choose(Action, Benchmarks) =>
           onAfter /\ \A i \in Memory..StepSize : <<"switch", i, TRUE>> \in Pending(new)
      /\ (/\ Head(t)[2] = Action => Head(t) \in {Choose(Action, Benchmarks), Remembering(Action),
                                                 <<"enable", Action, TRUE>>}
          /\ Head(t) # Choose(Action, Benchmarks) /\ on) =>
           /\ onAfter
           /\ \A i \in Memory..StepSize :
                available[i] \/ Head(t) = <<"switch", i, TRUE>> => availableAfter[i]
  BY Zenon DEF OrderSafe
<1> DEFINE r == Tail(t)  u == new \o r
<1>1. /\ r \in Seq(Statements) /\ DOMAIN t = 1..Len(t) /\ Len(t) \in Nat /\ Len(t) > 0
      /\ DOMAIN r = 1..(Len(t) - 1) /\ t[1] = Head(t)
      /\ \A n \in DOMAIN r : n + 1 \in DOMAIN t /\ r[n] = t[n + 1]
      /\ \A n \in DOMAIN t : n = 1 \/ (n - 1 \in DOMAIN r /\ t[n] = r[n - 1])
      /\ Pending(t) = {Head(t)} \cup Pending(r)
  BY TakeOff
<1>2. /\ DOMAIN new = 1..Len(new) /\ Len(new) \in Nat /\ DOMAIN u \subseteq Int
      /\ \A n \in DOMAIN new : n \in DOMAIN u /\ u[n] = new[n]
      /\ \A n \in DOMAIN r : Len(new) + n \in DOMAIN u /\ u[Len(new) + n] = r[n]
      /\ Pending(u) = Pending(new) \cup Pending(r)
      /\ \A n \in DOMAIN u : \/ n \in DOMAIN new /\ u[n] = new[n]
                             \/ /\ n > Len(new) /\ n - Len(new) \in DOMAIN r
                                /\ u[n] = r[n - Len(new)]
  <2>1. r \in Seq(Statements)
    BY <1>1
  <2> HIDE DEF r
  <2>2. /\ DOMAIN u = 1..(Len(new) + Len(r)) /\ DOMAIN r = 1..Len(r) /\ Len(r) \in Nat
        /\ DOMAIN new = 1..Len(new) /\ Len(new) \in Nat
        /\ \A n \in DOMAIN new : u[n] = new[n]
        /\ \A n \in DOMAIN r : u[Len(new) + n] = r[n]
    BY <2>1, Concat
  <2>3. Pending(u) = Pending(new) \cup Pending(r)
    BY <2>1, ConcatPending
  <2>4. \A n \in DOMAIN u :
          \/ n \in DOMAIN new /\ u[n] = new[n]
          \/ /\ n > Len(new) /\ n - Len(new) \in DOMAIN r
             /\ u[n] = r[n - Len(new)]
    BY <2>1, Place
  <2> HIDE DEF u
  <2>5. /\ \A n \in DOMAIN new : n \in DOMAIN u
        /\ \A n \in DOMAIN r : Len(new) + n \in DOMAIN u
        /\ DOMAIN u \subseteq Int
    BY <2>2
  <2> QED BY <2>2, <2>3, <2>4, <2>5
<1> SUFFICES EnableOrder(u, onAfter, availableAfter)
  OBVIOUS
<1> HIDE DEF u, r
<1>3. SUFFICES ASSUME NEW n \in DOMAIN u, NEW i \in Box, NEW b \in BOOLEAN,
                      u[n] = <<"enable", i, b>>
      PROVE  /\ b = (i # Test)
             /\ i \in Memory..StepSize =>
                /\ \/ onAfter /\ (availableAfter[i] \/
                                  \E m \in DOMAIN u : m < n /\ u[m] = <<"switch", i, TRUE>>)
                   \/ \E m \in DOMAIN u : m < n /\ u[m] = Choose(Action, Benchmarks)
                /\ \A op \in Pending(u) : op[2] = Action =>
                     op \in {Choose(Action, Benchmarks), Remembering(Action),
                             <<"enable", Action, TRUE>>}
  BY DEF EnableOrder
<1> DEFINE k == n - Len(new)
<1>4. k \in DOMAIN r /\ u[n] = r[k] /\ n = Len(new) + k /\ n > Len(new)
  <2>1. ASSUME n \in DOMAIN new, u[n] = new[n] PROVE FALSE
    <3>1. u[n] \in Pending(new) /\ u[n][1] = "enable"
      BY <1>3, <2>1 DEF Pending
    <3> QED BY <1>0, <3>1
  <2>2. n > Len(new) /\ k \in DOMAIN r /\ u[n] = r[k]
    BY <1>2, <2>1
  <2>3. n = Len(new) + k
    BY <1>2, <2>2
  <2> QED BY <2>2, <2>3
<1> HIDE DEF k
<1>5. k + 1 \in DOMAIN t /\ t[k + 1] = <<"enable", i, b>>
  BY <1>1, <1>3, <1>4
<1>6. /\ b = (i # Test)
      /\ i \in Memory..StepSize =>
         /\ \/ on /\ (available[i] \/
                      \E m \in DOMAIN t : m < k + 1 /\ t[m] = <<"switch", i, TRUE>>)
            \/ \E m \in DOMAIN t : m < k + 1 /\ t[m] = Choose(Action, Benchmarks)
         /\ \A op \in Pending(t) : op[2] = Action =>
              op \in {Choose(Action, Benchmarks), Remembering(Action),
                      <<"enable", Action, TRUE>>}
  BY <1>5 DEF EnableOrder
<1>7. ASSUME NEW m \in DOMAIN t, m < k + 1, m # 1
      PROVE  \E j \in DOMAIN u : j < n /\ u[j] = t[m]
  <2>1. m - 1 \in DOMAIN r /\ t[m] = r[m - 1]
    BY <1>1, <1>7
  <2>2. Len(new) + (m - 1) \in DOMAIN u /\ u[Len(new) + (m - 1)] = t[m]
    BY <1>2, <2>1
  <2>3. Len(new) + (m - 1) < n
    BY <1>1, <1>2, <1>4, <1>7
  <2> QED BY <2>2, <2>3
<1>8. ASSUME NEW x \in Pending(new) PROVE \E j \in DOMAIN u : j < n /\ u[j] = x
  <2>1. PICK j \in DOMAIN new : new[j] = x
    BY <1>8 DEF Pending
  <2>2. j \in DOMAIN u /\ u[j] = x /\ j < n
    BY <1>2, <1>4, <2>1
  <2> QED BY <2>2
<1>9. ASSUME i \in Memory..StepSize
      PROVE  /\ \/ onAfter /\ (availableAfter[i] \/
                               \E m \in DOMAIN u : m < n /\ u[m] = <<"switch", i, TRUE>>)
                \/ \E m \in DOMAIN u : m < n /\ u[m] = Choose(Action, Benchmarks)
             /\ \A op \in Pending(u) : op[2] = Action =>
                     op \in {Choose(Action, Benchmarks), Remembering(Action),
                             <<"enable", Action, TRUE>>}
  <2>1. \A op \in Pending(u) : op[2] = Action =>
          op \in {Choose(Action, Benchmarks), Remembering(Action), <<"enable", Action, TRUE>>}
    BY <1>0, <1>1, <1>2, <1>6, <1>9
  <2>2. Head(t)[2] = Action => Head(t) \in {Choose(Action, Benchmarks), Remembering(Action),
                                             <<"enable", Action, TRUE>>}
    BY <1>1, <1>6, <1>9
  <2>3. CASE Head(t) = Choose(Action, Benchmarks)
    BY <1>0, <1>8, <1>9, <2>1, <2>3
  <2>4. CASE Head(t) # Choose(Action, Benchmarks)
    <3>1. on => /\ onAfter
                /\ available[i] \/ Head(t) = <<"switch", i, TRUE>> => availableAfter[i]
      BY <1>0, <1>9, <2>2, <2>4
    <3>2. CASE on /\ available[i]
      BY <2>1, <3>1, <3>2
    <3>3. CASE on /\ \E m \in DOMAIN t : m < k + 1 /\ t[m] = <<"switch", i, TRUE>>
      <4>1. PICK m \in DOMAIN t : m < k + 1 /\ t[m] = <<"switch", i, TRUE>>
        BY <3>3
      <4>2. CASE m = 1
        BY <1>1, <2>1, <3>1, <3>3, <4>1, <4>2
      <4>3. CASE m # 1
        BY <1>7, <2>1, <3>1, <3>3, <4>1, <4>3
      <4> QED BY <4>2, <4>3
    <3>4. CASE \E m \in DOMAIN t : m < k + 1 /\ t[m] = Choose(Action, Benchmarks)
      <4>1. PICK m \in DOMAIN t : m < k + 1 /\ t[m] = Choose(Action, Benchmarks)
        BY <3>4
      <4>2. m # 1
        BY <1>1, <2>4, <4>1
      <4> QED BY <1>7, <2>1, <4>1, <4>2
    <3> QED BY <1>6, <1>9, <3>2, <3>3, <3>4
  <2> QED BY <2>1, <2>3, <2>4
<1> QED BY <1>6, <1>9

-----------------------------------------------------------------------------
(* What the event of a box adds to the list.                                *)

\* The statements of changesMonitor for box i at selection m.
Reaction(i, m) ==
  CASE i = Application           -> Refill(Asm)
    [] i = Action                -> [n \in 1..12 |-> <<"switch", n + 1, m = Benchmarks>>]
    [] i = Memory /\ m = Custom  -> FillSizes
    [] i = Memory /\ m \in 0..4  -> Clear(<<StartSize, EndSize, StepSize>>)
    [] i = Repeats /\ m > 0      -> Clear(<<Adaptive>>)
    [] i = Adaptive /\ m > 0     -> Clear(<<Repeats>>)
    [] i \in Sizes /\ m > 0      -> <<Choose(Memory, Custom)>>
    [] OTHER                     -> <<>>

\* The fourteen boxes have the numbers of their names.
LEMMA BoxNumbers ==
  /\ Application = 0 /\ Action = 1 /\ Test = 2 /\ Memory = 3 /\ Asm = 4
  /\ Repeats = 9 /\ Adaptive = 10 /\ StartSize = 11 /\ EndSize = 12 /\ StepSize = 13
  /\ Benchmarks = 2 /\ Custom = 5 /\ Sizes = {11, 12, 13} /\ Settings = 2..13 /\ Box = 0..13
  BY DEF Application, Action, Test, Memory, Asm, Repeats, Adaptive, StartSize, EndSize, StepSize,
         Benchmarks, Custom, Sizes, Settings, Box

\* The kinds of statements.
LEMMA StatementKinds ==
  /\ \A i \in Box, k \in Nat : Choose(i, k) \in Statements
  /\ \A i \in Sizes, k \in Positive : <<"selectIfUnset", i, k>> \in Statements
  /\ \A i \in Settings, k \in Int : <<"selectIfEnabled", i, k>> \in Statements
  /\ \A i \in Box : /\ Removing(i) \in Statements /\ AddingFirst(i) \in Statements
                    /\ AddingRest(i) \in Statements /\ Remembering(i) \in Statements
  /\ \A i \in Settings, b \in BOOLEAN : <<"switch", i, b>> \in Statements
  /\ \A i \in Box, b \in BOOLEAN : <<"enable", i, b>> \in Statements
<1>1. \A i \in Box, k \in Nat : Choose(i, k) \in Statements
  BY DEF Statements, Choose
<1>2. \A i \in Sizes, k \in Positive : <<"selectIfUnset", i, k>> \in Statements
  BY DEF Statements
<1>3. \A i \in Settings, k \in Int : <<"selectIfEnabled", i, k>> \in Statements
  BY DEF Statements
<1>4. \A i \in Box : /\ Removing(i) \in Statements /\ AddingFirst(i) \in Statements
                     /\ AddingRest(i) \in Statements /\ Remembering(i) \in Statements
  BY DEF Statements, Removing, AddingFirst, AddingRest, Remembering
<1>5. \A i \in Settings, b \in BOOLEAN : <<"switch", i, b>> \in Statements
  BY DEF Statements
<1>6. \A i \in Box, b \in BOOLEAN : <<"enable", i, b>> \in Statements
  BY DEF Statements
<1> QED BY <1>1, <1>2, <1>3, <1>4, <1>5, <1>6

\* What a statement of each kind is.
LEMMA StatementShape ==
  ASSUME NEW op \in Statements
  PROVE  /\ op[2] \in Box
         /\ \/ \E i \in Box, k \in Nat : op = Choose(i, k)
            \/ \E i \in Sizes, k \in Positive : op = <<"selectIfUnset", i, k>>
            \/ \E i \in Settings, k \in Int : op = <<"selectIfEnabled", i, k>>
            \/ \E i \in Box : op \in {Removing(i), AddingFirst(i), AddingRest(i), Remembering(i)}
            \/ \E i \in Settings, b \in BOOLEAN : op = <<"switch", i, b>>
            \/ \E i \in Box, b \in BOOLEAN : op = <<"enable", i, b>>
<1>1. Sizes \subseteq Box /\ Settings \subseteq Box
  BY BoxNumbers
<1>2. CASE op \in {"select"} \X Box \X Nat
  BY <1>2 DEF Choose
<1>3. CASE op \in {"selectIfUnset"} \X Sizes \X Positive
  BY <1>1, <1>3
<1>4. CASE op \in {"selectIfEnabled"} \X Settings \X Int
  BY <1>1, <1>4
<1>5. CASE op \in {"removeAllItems", "addFirst", "addOthers", "remember"} \X Box
  BY <1>5 DEF Removing, AddingFirst, AddingRest, Remembering
<1>6. CASE op \in {"switch"} \X Settings \X BOOLEAN
  BY <1>1, <1>6
<1>7. CASE op \in {"enable"} \X Box \X BOOLEAN
  BY <1>7
<1> QED BY <1>2, <1>3, <1>4, <1>5, <1>6, <1>7 DEF Statements

\* The statements in the handlers, box by box.
LEMMA WithinBoxes ==
  /\ Within(Application) = {Removing(Asm), AddingFirst(Asm), AddingRest(Asm), Remembering(Asm)}
  /\ Within(Action) = {op \in Statements : op[2] \in Settings /\ op[1] # "enable"}
  /\ Within(Memory) = {Choose(Memory, Custom)} \cup {Choose(j, 0) : j \in Sizes} \cup
                      ({"selectIfUnset"} \X Sizes \X Positive) \cup
                      {Remembering(j) : j \in Sizes}
  /\ Within(Repeats) = {Choose(Adaptive, 0), Remembering(Adaptive)}
  /\ Within(Adaptive) = {Choose(Repeats, 0), Remembering(Repeats)}
  /\ \A i \in Sizes : Within(i) = {Choose(Memory, Custom), Remembering(Memory)} \cup
                                  ({"selectIfUnset"} \X Sizes \X Positive) \cup
                                  {Remembering(j) : j \in Sizes \ {i}}
  /\ \A i \in Box : i \notin {Application, Action, Memory, Repeats, Adaptive} \cup Sizes =>
                      Within(i) = {}
<1> USE BoxNumbers
<1>1. Within(Application) = {Removing(Asm), AddingFirst(Asm), AddingRest(Asm), Remembering(Asm)}
  BY DEF Within
<1>2. Within(Action) = {op \in Statements : op[2] \in Settings /\ op[1] # "enable"}
  BY DEF Within
<1>3. Within(Memory) = {Choose(Memory, Custom)} \cup {Choose(j, 0) : j \in Sizes} \cup
                       ({"selectIfUnset"} \X Sizes \X Positive) \cup
                       {Remembering(j) : j \in Sizes}
  BY DEF Within
<1>4. Within(Repeats) = {Choose(Adaptive, 0), Remembering(Adaptive)}
  BY DEF Within
<1>5. Within(Adaptive) = {Choose(Repeats, 0), Remembering(Repeats)}
  BY DEF Within
<1>6. ASSUME NEW i \in Sizes
      PROVE  Within(i) = {Choose(Memory, Custom), Remembering(Memory)} \cup
                         ({"selectIfUnset"} \X Sizes \X Positive) \cup
                         {Remembering(j) : j \in Sizes \ {i}}
  BY <1>6 DEF Within
<1>7. ASSUME NEW i \in Box, i \notin {Application, Action, Memory, Repeats, Adaptive} \cup Sizes
      PROVE  Within(i) = {}
  BY <1>7 DEF Within
<1> QED BY <1>1, <1>2, <1>3, <1>4, <1>5, <1>6, <1>7

\* A list in which nothing is refilled and no handler ends is in any order.
LEMMA PlainList ==
  ASSUME NEW new \in Seq(Statements),
         \A x \in Pending(new) : x[1] \notin {"removeAllItems", "addFirst", "remember"}
  PROVE  Refills(new) /\ Nested(new)
<1>1. \A n \in DOMAIN new : new[n][1] \notin {"removeAllItems", "addFirst", "remember"}
  BY DEF Pending
<1>2. \A i : /\ Removing(i)[1] = "removeAllItems" /\ AddingFirst(i)[1] = "addFirst"
             /\ Remembering(i)[1] = "remember"
  BY DEF Removing, AddingFirst, Remembering
<1>3. ASSUME NEW n \in DOMAIN new, NEW i
      PROVE  new[n] # Removing(i) /\ new[n] # AddingFirst(i) /\ new[n] # Remembering(i)
  <2>1. ASSUME NEW x, new[n] = x
        PROVE  x[1] \notin {"removeAllItems", "addFirst", "remember"}
    BY <1>1, <2>1
  <2> QED BY <1>2, <2>1
<1> QED BY <1>3 DEF Refills, Nested

\* The lists a handler can add.
LEMMA ReactionLists ==
  ASSUME NEW i \in Box, NEW m \in Int
  PROVE  /\ Reaction(i, m) \in Seq(Statements)
         /\ Refills(Reaction(i, m)) /\ Nested(Reaction(i, m))
         /\ Pending(Reaction(i, m)) \subseteq Within(i)
         /\ \A x \in Pending(Reaction(i, m)) :
              /\ x[1] \notin {"remember", "enable", "selectIfEnabled"}
              /\ x[2] \notin {Application, Action}
              /\ x[1] = "switch" => i = Action /\ (x[3] <=> m = Benchmarks)
              /\ x[1] = "selectIfUnset" => i = Memory /\ m = Custom
         /\ i = Action => \A j \in Settings, b \in BOOLEAN :
              (b <=> m = Benchmarks) => <<"switch", j, b>> \in Pending(Reaction(i, m))
         /\ i = Repeats /\ m > 0 => Choose(Adaptive, 0) \in Pending(Reaction(i, m))
         /\ i = Adaptive /\ m > 0 => Choose(Repeats, 0) \in Pending(Reaction(i, m))
         /\ i = Memory /\ m \in 0..4 =>
              \A j \in Sizes : Choose(j, 0) \in Pending(Reaction(i, m))
         /\ i \in Sizes /\ m > 0 => Choose(Memory, Custom) \in Pending(Reaction(i, m))
<1> USE BoxNumbers
<1> DEFINE new == Reaction(i, m)
<1>1. CASE i = Application
  <2>1. new = <<Removing(Asm), AddingFirst(Asm), AddingRest(Asm)>>
    BY <1>1 DEF Reaction, Refill, Removing, AddingFirst, AddingRest
  <2> HIDE DEF new
  <2>2. Removing(Asm) \in Statements /\ AddingFirst(Asm) \in Statements
        /\ AddingRest(Asm) \in Statements
    BY StatementKinds
  <2>3. new \in Seq(Statements) /\ DOMAIN new = 1..3
        /\ Pending(new) = {Removing(Asm), AddingFirst(Asm), AddingRest(Asm)}
    BY <2>1, <2>2 DEF Pending
  <2>4. \A x \in Pending(new) : x[1] \in {"removeAllItems", "addFirst", "addOthers"} /\ x[2] = Asm
    BY <2>3 DEF Removing, AddingFirst, AddingRest
  <2>5. Refills(new)
    BY <2>1, <2>3 DEF Refills, Removing, AddingFirst, AddingRest
  <2>6. Nested(new)
    BY <2>1, <2>3 DEF Nested, Removing, AddingFirst, AddingRest, Remembering
  <2>7. Pending(new) \subseteq Within(i)
    BY <1>1, <2>3, WithinBoxes
  <2> QED BY <1>1, <2>3, <2>4, <2>5, <2>6, <2>7 DEF new
<1>2. CASE i = Action
  <2>1. PICK b \in BOOLEAN : b = (m = Benchmarks)
    OBVIOUS
  <2>2. new = [n \in 1..12 |-> <<"switch", n + 1, b>>]
    BY <1>2, <2>1 DEF Reaction
  <2> HIDE DEF new
  <2>3. \A n \in 1..12 : <<"switch", n + 1, b>> \in Statements
    BY StatementKinds
  <2>4. new \in Seq(Statements) /\ DOMAIN new = 1..12
    BY <2>2, <2>3
  <2>5. \A x \in Pending(new) : x[1] = "switch" /\ x[2] \in Settings /\ x[3] = b
                                /\ x \in Statements
    BY <2>2, <2>3, <2>4, SMTT(60) DEF Pending
  <2>6. \A j \in Settings : <<"switch", j, b>> \in Pending(new)
    <3> SUFFICES ASSUME NEW j \in Settings PROVE <<"switch", j, b>> \in Pending(new)
      OBVIOUS
    <3>1. j - 1 \in DOMAIN new /\ new[j - 1] = <<"switch", j, b>>
      BY <2>2, <2>4
    <3> QED BY <3>1 DEF Pending
  <2>7. Refills(new) /\ Nested(new)
    BY <2>4, <2>5, PlainList
  <2>8. Pending(new) \subseteq Within(i)
    BY <1>2, <2>5, WithinBoxes
  <2>9. \A x \in Pending(new) :
           /\ x[1] \notin {"remember", "enable", "selectIfEnabled", "selectIfUnset"}
           /\ x[2] \notin {Application, Action}
           /\ x[3] <=> m = Benchmarks
    <3> SUFFICES ASSUME NEW x \in Pending(new)
                 PROVE  /\ x[1] \notin {"remember", "enable", "selectIfEnabled", "selectIfUnset"}
                        /\ x[2] \notin {Application, Action}
                        /\ x[3] <=> m = Benchmarks
      OBVIOUS
    <3>1. x[1] \notin {"remember", "enable", "selectIfEnabled", "selectIfUnset"}
          /\ x[2] \notin {Application, Action}
      BY <2>5
    <3>2. x[3] = b
      BY <2>5
    <3>3. x[3] <=> m = Benchmarks
      BY <2>1, <3>2, Zenon
    <3> QED BY <3>1, <3>3
  <2>10. \A j \in Settings, c \in BOOLEAN : (c <=> m = Benchmarks) =>
           <<"switch", j, c>> \in Pending(new)
    <3> SUFFICES ASSUME NEW j \in Settings, NEW c \in BOOLEAN, c <=> m = Benchmarks
                 PROVE  <<"switch", j, c>> \in Pending(new)
      OBVIOUS
    <3>1. c = b
      BY <2>1, Zenon
    <3> QED BY <2>6, <3>1
  <2> QED BY <1>2, <2>4, <2>7, <2>8, <2>9, <2>10 DEF new
<1>3. CASE i = Memory /\ m = Custom
  <2>1. new = <<<<"selectIfUnset", StartSize, 4>>, <<"selectIfUnset", EndSize, 12>>,
                <<"selectIfUnset", StepSize, 3>>>>
    BY <1>3 DEF Reaction, FillSizes
  <2> HIDE DEF new
  <2>2. DOMAIN new = 1..3 /\ new \in Seq(Statements)
    BY <2>1, StatementKinds DEF Positive
  <2>3. \A x \in Pending(new) : /\ x[1] = "selectIfUnset" /\ x[2] \in Sizes
                                /\ x \in {"selectIfUnset"} \X Sizes \X Positive
    BY <2>1, <2>2 DEF Pending, Positive
  <2>4. Refills(new) /\ Nested(new)
    BY <2>2, <2>3, PlainList
  <2>5. Pending(new) \subseteq Within(i)
    BY <1>3, <2>3, WithinBoxes
  <2> QED BY <1>3, <2>2, <2>3, <2>4, <2>5 DEF new
<1>4. CASE i = Memory /\ m \in 0..4
  <2>1. new = <<Choose(StartSize, 0), Choose(EndSize, 0), Choose(StepSize, 0)>>
    BY <1>4 DEF Reaction, Clear
  <2> HIDE DEF new
  <2>2. DOMAIN new = 1..3 /\ new \in Seq(Statements)
    BY <2>1, StatementKinds
  <2>3. Pending(new) = {Choose(j, 0) : j \in Sizes}
    BY <2>1, <2>2 DEF Pending
  <2>4. \A x \in Pending(new) : x[1] = "select" /\ x[2] \in Sizes
    BY <2>3 DEF Choose
  <2>5. Refills(new) /\ Nested(new)
    BY <2>2, <2>4, PlainList
  <2>6. Pending(new) \subseteq Within(i)
    BY <1>4, <2>3, WithinBoxes
  <2> QED BY <1>4, <2>2, <2>3, <2>4, <2>5, <2>6 DEF new
<1>5. ASSUME NEW j \in Box, NEW k \in Nat, new = <<Choose(j, k)>>, Choose(j, k) \in Within(i),
             j \notin {Application, Action}, i \notin {Action, Memory}
      PROVE  /\ new \in Seq(Statements) /\ Refills(new) /\ Nested(new)
             /\ Pending(new) = {Choose(j, k)} /\ Pending(new) \subseteq Within(i)
             /\ \A x \in Pending(new) : x[1] = "select" /\ x[2] \notin {Application, Action}
  <2> HIDE DEF new
  <2>1. new \in Seq(Statements) /\ Pending(new) = {Choose(j, k)}
    BY <1>5, StatementKinds DEF Pending
  <2>2. \A x \in Pending(new) : x[1] = "select" /\ x[2] = j
    BY <2>1 DEF Choose
  <2> QED BY <1>5, <2>1, <2>2, PlainList
<1>6. CASE i = Repeats /\ m > 0
  <2>1. new = <<Choose(Adaptive, 0)>>
    BY <1>6 DEF Reaction, Clear
  <2>2. Choose(Adaptive, 0) \in Within(i)
    BY <1>6, WithinBoxes
  <2> HIDE DEF new
  <2> QED BY <1>5, <1>6, <2>1, <2>2 DEF new
<1>7. CASE i = Adaptive /\ m > 0
  <2>1. new = <<Choose(Repeats, 0)>>
    BY <1>7 DEF Reaction, Clear
  <2>2. Choose(Repeats, 0) \in Within(i)
    BY <1>7, WithinBoxes
  <2> HIDE DEF new
  <2> QED BY <1>5, <1>7, <2>1, <2>2 DEF new
<1>8. CASE i \in Sizes /\ m > 0
  <2>1. new = <<Choose(Memory, Custom)>>
    BY <1>8 DEF Reaction
  <2>2. Choose(Memory, Custom) \in Within(i)
    BY <1>8, WithinBoxes
  <2> HIDE DEF new
  <2> QED BY <1>5, <1>8, <2>1, <2>2 DEF new
<1>9. CASE /\ i # Application /\ i # Action /\ ~(i = Memory /\ m = Custom)
           /\ ~(i = Memory /\ m \in 0..4) /\ ~(i = Repeats /\ m > 0) /\ ~(i = Adaptive /\ m > 0)
           /\ ~(i \in Sizes /\ m > 0)
  <2>1. new = <<>>
    BY <1>9 DEF Reaction
  <2> HIDE DEF new
  <2>2. new \in Seq(Statements) /\ Pending(new) = {}
    BY <2>1 DEF Pending
  <2> QED BY <1>9, <2>2, PlainList DEF new
<1> QED BY <1>1, <1>2, <1>3, <1>4, <1>6, <1>7, <1>8, <1>9

\* What the handlers nested in a handler do stays within it.
LEMMA WithinClosed ==
  ASSUME NEW j \in Box, NEW i \in Box, i # j, NEW k \in Int, NEW op \in Statements,
         op \in Within(j),
         op \in {Choose(i, k), <<"selectIfUnset", i, k>>, <<"selectIfEnabled", i, k>>,
                 Removing(i), AddingFirst(i)}
  PROVE  Remembering(i) \in Within(j) /\ Pending(Reaction(i, k)) \subseteq Within(j)
<1> USE BoxNumbers
<1>1. op[2] = i /\ op[1] \in {"select", "selectIfUnset", "selectIfEnabled", "removeAllItems", "addFirst"}
      /\ (op[1] = "select" => op = Choose(i, k)) /\ (op[1] = "selectIfUnset" => op[3] = k)
  BY DEF Choose, Removing, AddingFirst
<1>2. /\ Reaction(i, k) \in Seq(Statements)
      /\ \A x \in Pending(Reaction(i, k)) :
           x[1] \notin {"remember", "enable", "selectIfEnabled"} /\ x[2] \notin {Application, Action}
  BY ReactionLists
<1>3. \A x, y : Remembering(x)[1] = "remember" /\ Remembering(x)[2] = x
                /\ AddingRest(x)[1] = "addOthers" /\ Removing(x)[1] = "removeAllItems"
                /\ Removing(x)[2] = x /\ AddingFirst(x)[2] = x
                /\ AddingFirst(x)[1] = "addFirst" /\ Choose(x, y)[1] = "select"
                /\ Choose(x, y)[2] = x /\ Choose(x, y)[3] = y
  BY DEF Remembering, AddingRest, Removing, AddingFirst, Choose
<1>4. ASSUME Reaction(i, k) = <<>> PROVE Pending(Reaction(i, k)) = {}
  BY <1>4 DEF Pending
<1>5. ASSUME NEW x, Reaction(i, k) = <<x>> PROVE Pending(Reaction(i, k)) = {x}
  BY <1>5 DEF Pending
<1>6. CASE j = Application
  <2>1. i = Asm
    BY <1>1, <1>3, <1>6, WithinBoxes
  <2>2. Reaction(i, k) = <<>>
    BY <2>1 DEF Reaction
  <2> QED BY <1>4, <1>6, <2>1, <2>2, WithinBoxes
<1>7. CASE j = Action
  <2>1. i \in Settings
    BY <1>1, <1>7, WithinBoxes
  <2>2. Remembering(i) \in Within(j)
    BY <1>3, <1>7, <2>1, StatementKinds, WithinBoxes
  <2>3. ASSUME NEW x \in Pending(Reaction(i, k)) PROVE x \in Within(j)
    <3>1. x \in Statements
      BY <1>2 DEF Pending
    <3>2. x[2] \in Settings
      BY <1>2, <3>1, StatementShape
    <3> QED BY <1>2, <1>7, <3>1, <3>2, WithinBoxes
  <2> QED BY <2>2, <2>3
<1>8. CASE j = Memory
  <2>1. CASE op[1] = "select"
    <3>1. i \in Sizes /\ k = 0
      <4>1. op = Choose(i, k) /\ op # Choose(Memory, Custom)
        BY <1>1, <1>3, <1>8, <2>1
      <4>2. op \in {Choose(n, 0) : n \in Sizes}
        BY <1>3, <1>8, <2>1, <4>1, WithinBoxes
      <4>3. PICK n \in Sizes : op = Choose(n, 0)
        BY <4>2
      <4>4. op[2] = n /\ op[3] = 0 /\ op[2] = i /\ op[3] = k
        BY <4>1, <4>3 DEF Choose
      <4> QED BY <4>4
    <3>2. Reaction(i, k) = <<>>
      BY <3>1 DEF Reaction
    <3> QED BY <1>4, <1>8, <3>1, <3>2, WithinBoxes
  <2>2. CASE op[1] = "selectIfUnset"
    <3>1. i \in Sizes /\ k > 0
      <4>1. op \in {"selectIfUnset"} \X Sizes \X Positive
        BY <1>3, <1>8, <2>2, WithinBoxes
      <4>2. op[2] \in Sizes /\ op[3] \in Positive
        BY <4>1
      <4> QED BY <1>1, <2>2, <4>2 DEF Positive
    <3>2. Reaction(i, k) = <<Choose(Memory, Custom)>>
      BY <3>1 DEF Reaction
    <3> QED BY <1>5, <1>8, <3>1, <3>2, WithinBoxes
  <2> QED BY <1>1, <1>3, <1>8, <2>1, <2>2, WithinBoxes
<1>9. CASE j \in {Repeats, Adaptive}
  <2>1. i \in {Repeats, Adaptive} /\ k = 0
    BY <1>1, <1>3, <1>9, WithinBoxes
  <2>2. Reaction(i, k) = <<>>
    BY <2>1 DEF Reaction
  <2> QED BY <1>4, <1>9, <2>1, <2>2, WithinBoxes
<1>10. CASE j \in Sizes
  <2>1. CASE op[1] = "select"
    <3>1. i = Memory /\ k = Custom
      <4>1. op = Choose(i, k)
        BY <1>1, <2>1
      <4>2. op = Choose(Memory, Custom)
        BY <1>3, <1>10, <2>1, WithinBoxes
      <4> QED BY <4>1, <4>2 DEF Choose
    <3>2. Reaction(i, k) = FillSizes
      BY <3>1 DEF Reaction
    <3>3. Pending(FillSizes) \subseteq {"selectIfUnset"} \X Sizes \X Positive
      BY DEF FillSizes, Pending, Positive
    <3> QED BY <1>10, <3>1, <3>2, <3>3, WithinBoxes
  <2>2. CASE op[1] = "selectIfUnset"
    <3>1. i \in Sizes /\ k > 0
      <4>1. op \in {"selectIfUnset"} \X Sizes \X Positive
        BY <1>3, <1>10, <2>2, WithinBoxes
      <4>2. op[2] \in Sizes /\ op[3] \in Positive
        BY <4>1
      <4> QED BY <1>1, <2>2, <4>2 DEF Positive
    <3>2. Reaction(i, k) = <<Choose(Memory, Custom)>>
      BY <3>1 DEF Reaction
    <3> QED BY <1>5, <1>10, <3>1, <3>2, WithinBoxes
  <2> QED BY <1>1, <1>3, <1>10, <2>1, <2>2, WithinBoxes
<1>11. CASE j \notin {Application, Action, Memory, Repeats, Adaptive} \cup Sizes
  BY <1>11, WithinBoxes
<1> QED BY <1>6, <1>7, <1>8, <1>9, <1>10, <1>11

\* What a handler that is running may do to its own box.
LEMMA WithinOwn ==
  ASSUME NEW i \in Box, NEW op \in Within(i), op[2] = i
  PROVE  \/ i = Memory /\ op = Choose(Memory, Custom)
         \/ i \in Sizes /\ op[1] = "selectIfUnset"
<1> USE BoxNumbers
<1>1. \A x, y : Remembering(x)[2] = x /\ AddingRest(x)[2] = x /\ Removing(x)[2] = x
                /\ AddingFirst(x)[2] = x /\ Choose(x, y)[2] = x
  BY DEF Remembering, AddingRest, Removing, AddingFirst, Choose
<1>2. CASE i \in {Application, Action, Repeats, Adaptive}
  BY <1>1, <1>2, WithinBoxes
<1>3. CASE i = Memory
  BY <1>1, <1>3, WithinBoxes
<1>4. CASE i \in Sizes
  BY <1>1, <1>4, WithinBoxes
<1>5. CASE i \notin {Application, Action, Memory, Repeats, Adaptive} \cup Sizes
  BY <1>5, WithinBoxes
<1> QED BY <1>2, <1>3, <1>4, <1>5

-----------------------------------------------------------------------------
(* The statements, one by one.                                              *)

\* Two states that have the same boxes.
SameBoxes(s, r) ==
  /\ r.sel = s.sel /\ r.count = s.count /\ r.enabled = s.enabled
  /\ r.available = s.available /\ r.previous = s.previous /\ r.failed = s.failed

\* Lists put before one another.
LEMMA PutBefore ==
  ASSUME NEW a \in Seq(Statements), NEW b \in Seq(Statements), NEW c \in Seq(Statements)
  PROVE  (a \o b) \o c = a \o (b \o c)
  BY ConcatAssociative

\* Statements put before those that are left.
LEMMA DoDoes ==
  ASSUME NEW s \in StateType, NEW list \in Seq(Statements)
  PROVE  /\ Do(s, list) \in StateType /\ SameBoxes(s, Do(s, list))
         /\ Do(s, list).mode64 = s.mode64 /\ Do(s, list).firing = s.firing
         /\ Do(s, list).todo = list \o s.todo
<1>1. list \o s.todo \in Seq(Statements)
  BY Concat DEF StateType
<1>2. Do(s, list) = [s EXCEPT !.todo = list \o s.todo]
  BY DEF Do, StateType
<1>3. PICK t \in Seq(Statements) : t = list \o s.todo
  BY <1>1
<1> QED BY <1>2, <1>3 DEF StateType, SameBoxes

\* An event calls the handler of its box, unless that is running.
LEMMA FireDoes ==
  ASSUME NEW s \in StateType, NEW i \in Box, i \notin s.firing
  PROVE  /\ Fire(s, i) \in StateType /\ SameBoxes(s, Fire(s, i))
         /\ Fire(s, i).todo = (Reaction(i, s.sel[i]) \o <<Remembering(i)>>) \o s.todo
         /\ Fire(s, i).firing = s.firing \cup {i}
         /\ Fire(s, i).mode64 = IF i = Application THEN s.sel[i] = 1 ELSE s.mode64
<1> USE BoxNumbers
<1>1. s.sel[i] \in Int /\ s.todo \in Seq(Statements) /\ i \in Box
  BY DEF StateType
<1>2. PICK m \in Int : m = s.sel[i]
  BY <1>1
<1> DEFINE d == Do(s, <<Remembering(i)>>)  e == [d EXCEPT !.firing = @ \cup {i}]
<1>3. <<Remembering(i)>> \in Seq(Statements)
  BY StatementKinds
<1>4. /\ d \in StateType /\ SameBoxes(s, d) /\ d.mode64 = s.mode64 /\ d.firing = s.firing
      /\ d.todo = <<Remembering(i)>> \o s.todo
  BY <1>3, DoDoes
<1> HIDE DEF d
<1>5. /\ e \in StateType /\ SameBoxes(s, e) /\ e.mode64 = s.mode64
      /\ e.firing = s.firing \cup {i} /\ e.todo = <<Remembering(i)>> \o s.todo
  BY <1>4 DEF StateType, SameBoxes
<1>6. Fire(s, i) = React(e, i)
  BY DEF Fire, d, Remembering
<1> HIDE DEF e
<1>7. e.sel[i] = m
  BY <1>2, <1>5 DEF SameBoxes
<1>8. Reaction(i, m) \in Seq(Statements)
  BY ReactionLists
<1>9. Reaction(i, m) \o e.todo = (Reaction(i, m) \o <<Remembering(i)>>) \o s.todo
  <2>1. (Reaction(i, m) \o <<Remembering(i)>>) \o s.todo =
          Reaction(i, m) \o (<<Remembering(i)>> \o s.todo)
    BY <1>1, <1>3, <1>8, PutBefore
  <2> QED BY <1>5, <2>1
<1>10. CASE i = Application
  <2> DEFINE f == [e EXCEPT !.mode64 = (m = 1)]
  <2>1. React(e, i) = Do(f, Reaction(i, m))
    BY <1>7, <1>10 DEF React, Reaction
  <2>2. f \in StateType /\ SameBoxes(s, f) /\ f.firing = e.firing /\ f.todo = e.todo
    BY <1>5 DEF StateType, SameBoxes
  <2>5. f.mode64 = (m = 1)
    BY <1>5 DEF StateType
  <2> HIDE DEF f
  <2>3. /\ Fire(s, i) \in StateType /\ SameBoxes(f, Fire(s, i))
        /\ Fire(s, i).mode64 = f.mode64 /\ Fire(s, i).firing = f.firing
        /\ Fire(s, i).todo = Reaction(i, m) \o f.todo
    <3>1. /\ Do(f, Reaction(i, m)) \in StateType /\ SameBoxes(f, Do(f, Reaction(i, m)))
          /\ Do(f, Reaction(i, m)).mode64 = f.mode64 /\ Do(f, Reaction(i, m)).firing = f.firing
          /\ Do(f, Reaction(i, m)).todo = Reaction(i, m) \o f.todo
      BY <1>8, <2>2, DoDoes
    <3>2. Fire(s, i) = Do(f, Reaction(i, m))
      BY <1>6, <2>1
    <3> QED BY <3>1, <3>2
  <2>4. SameBoxes(s, Fire(s, i))
    BY <2>2, <2>3 DEF SameBoxes
  <2> QED BY <1>2, <1>5, <1>9, <1>10, <2>2, <2>3, <2>4, <2>5
<1>11. CASE i # Application
  <2>1. React(e, i) = Do(e, Reaction(i, m)) \/ (React(e, i) = e /\ Reaction(i, m) = <<>>)
    BY <1>7, <1>11 DEF React, Reaction
  <2>2. Reaction(i, m) = <<>> => e.todo = Reaction(i, m) \o e.todo
    BY <1>5 DEF StateType
  <2>3. /\ Fire(s, i) \in StateType /\ SameBoxes(e, Fire(s, i))
        /\ Fire(s, i).mode64 = e.mode64 /\ Fire(s, i).firing = e.firing
        /\ Fire(s, i).todo = Reaction(i, m) \o e.todo
    <3>1. CASE React(e, i) = Do(e, Reaction(i, m))
      <4>1. PICK w : w = Do(e, Reaction(i, m))
        OBVIOUS
      <4>2. /\ w \in StateType /\ SameBoxes(e, w)
            /\ w.mode64 = e.mode64 /\ w.firing = e.firing
            /\ w.todo = Reaction(i, m) \o e.todo
        BY <1>5, <1>8, <4>1, DoDoes
      <4>3. Fire(s, i) = w
        BY <1>6, <3>1, <4>1
      <4> QED BY <4>2, <4>3
    <3>2. CASE React(e, i) = e /\ Reaction(i, m) = <<>>
      BY <1>5, <1>6, <2>2, <3>2 DEF SameBoxes
    <3> QED BY <2>1, <3>1, <3>2
  <2>4. SameBoxes(s, Fire(s, i))
    BY <1>5, <2>3 DEF SameBoxes
  <2> QED BY <1>2, <1>5, <1>9, <1>11, <2>3, <2>4
<1> QED BY <1>10, <1>11

\* The names and the boxes of the statements.
LEMMA StatementParts ==
  ASSUME NEW x, NEW y
  PROVE  /\ Remembering(x)[1] = "remember" /\ Remembering(x)[2] = x
         /\ Removing(x)[1] = "removeAllItems" /\ Removing(x)[2] = x
         /\ AddingFirst(x)[1] = "addFirst" /\ AddingFirst(x)[2] = x
         /\ AddingRest(x)[1] = "addOthers" /\ AddingRest(x)[2] = x
         /\ Choose(x, y)[1] = "select" /\ Choose(x, y)[2] = x /\ Choose(x, y)[3] = y
  BY DEF Remembering, Removing, AddingFirst, AddingRest, Choose

\* A size is filled while the handler of Memory runs.
LEMMA UnsetByMemory ==
  ASSUME NEW i \in Box, NEW k \in Int
  PROVE  \A x \in Pending(Reaction(i, k)) : x[1] = "selectIfUnset" => i = Memory /\ k = Custom
  BY ReactionLists

\* A handler: its statements, and the end of it.
LEMMA HandlerList ==
  ASSUME NEW i \in Box, NEW k \in Int, NEW new, new = Reaction(i, k) \o <<Remembering(i)>>
  PROVE  /\ new \in Seq(Statements) /\ Refills(new) /\ Nested(new) /\ Caused(new)
         /\ Pending(new) = Pending(Reaction(i, k)) \cup {Remembering(i)}
<1> DEFINE end == <<Remembering(i)>>  list == Reaction(i, k)
<1>1. /\ list \in Seq(Statements) /\ Refills(list) /\ Nested(list)
      /\ Pending(list) \subseteq Within(i)
      /\ \A x \in Pending(list) : /\ x[1] = "switch" => i = Action
                                  /\ x[1] = "selectIfUnset" => i = Memory
  BY ReactionLists
<1>2. end \in Seq(Statements) /\ Pending(end) = {Remembering(i)} /\ DOMAIN end = 1..1
      /\ end[1] = Remembering(i) /\ Len(end) = 1
  BY StatementKinds DEF Pending
<1>3. Refills(end)
  BY <1>2 DEF Refills, Remembering, Removing, AddingFirst
<1>4. Nested(end)
  BY <1>2 DEF Nested
<1>5. new = list \o end
  OBVIOUS
<1> HIDE DEF end, list
<1>6. \A j \in Box : Remembering(j) \in Pending(end) => j = i
  BY <1>2 DEF Remembering
<1>7. new \in Seq(Statements) /\ Pending(new) = Pending(list) \cup {Remembering(i)}
  BY <1>1, <1>2, <1>5, Concat, ConcatPending
<1>8. Refills(new)
  BY <1>1, <1>2, <1>3, <1>5, ConcatRefills
<1>9. Nested(new)
  BY <1>1, <1>2, <1>4, <1>5, <1>6, ConcatNested
<1>10. Caused(new)
  <2>1. /\ DOMAIN new = 1..(Len(list) + 1) /\ Len(list) \in Nat
        /\ \A n \in DOMAIN list : new[n] = list[n]
        /\ new[Len(list) + 1] = Remembering(i) /\ DOMAIN list = 1..Len(list)
    <3>1. /\ DOMAIN new = 1..(Len(list) + Len(end)) /\ Len(list) \in Nat
          /\ \A n \in DOMAIN list : new[n] = list[n]
          /\ \A n \in DOMAIN end : new[Len(list) + n] = end[n]
          /\ DOMAIN list = 1..Len(list)
      <4>1. list \in Seq(Statements) /\ end \in Seq(Statements)
        BY <1>1, <1>2
      <4>2. /\ DOMAIN (list \o end) = 1..(Len(list) + Len(end)) /\ Len(list) \in Nat
            /\ DOMAIN list = 1..Len(list)
        BY <4>1, Concat
      <4>3. \A n \in DOMAIN list : (list \o end)[n] = list[n]
        BY <4>1, Concat
      <4>4. \A n \in DOMAIN end : (list \o end)[Len(list) + n] = end[n]
        BY <4>1, Concat
      <4> QED BY <1>5, <4>2, <4>3, <4>4
    <3>2. 1 \in DOMAIN end
      BY <1>2
    <3> QED BY <1>2, <3>1, <3>2
  <2> SUFFICES ASSUME NEW n \in DOMAIN new
               PROVE  /\ new[n][1] = "switch" =>
                           \E m \in DOMAIN new : n < m /\ new[m] = Remembering(Action)
                      /\ new[n][1] = "selectIfUnset" =>
                           \E m \in DOMAIN new : n < m /\ new[m] = Remembering(Memory)
    BY DEF Caused
  <2>2. CASE n = Len(list) + 1
    <3>1. new[n][1] = "remember"
      BY <2>1, <2>2 DEF Remembering
    <3> QED BY <3>1
  <2>3. CASE n \in DOMAIN list
    <3>1. new[n] \in Pending(list) /\ n < Len(list) + 1 /\ Len(list) + 1 \in DOMAIN new
      BY <2>1, <2>3 DEF Pending
    <3> QED BY <1>1, <2>1, <3>1
  <2> QED BY <2>1, <2>2, <2>3
<1> QED BY <1>7, <1>8, <1>9, <1>10 DEF list

\* A statement that changes the selection of a box.
Selecting(s, op, i, k, c) ==
  \/ /\ op \in {Choose(i, k), <<"selectIfUnset", i, k>>, <<"selectIfEnabled", i, k>>}
     /\ c = s.count[i] /\ k \in 0..(c - 1)
  \/ op = Removing(i) /\ k = -1 /\ c = 0
  \/ op = AddingFirst(i) /\ k = 0 /\ c = 1

\* After such a statement, which calls the handler unless it is running,
\* everything that holds between two statements holds again.
LEMMA SelectingKeeps ==
  ASSUME NEW s, Good(s), s.todo # <<>>, NEW i \in Box, NEW k \in Int, NEW c \in Int,
         Selecting(s, Head(s.todo), i, k, c), NEW u \in StateType,
         u.todo = Tail(s.todo), u.sel = [s.sel EXCEPT ![i] = k],
         u.count = [s.count EXCEPT ![i] = c], u.enabled = s.enabled,
         u.available = s.available, u.previous = s.previous, u.mode64 = s.mode64,
         u.firing = s.firing
  PROVE  Good(Fire(u, i))
<1> USE BoxNumbers
<1> DEFINE op == Head(s.todo)  rest == Tail(s.todo)  r == Fire(u, i)
           new == IF i \in s.firing THEN <<>> ELSE Reaction(i, k) \o <<Remembering(i)>>
           P == Pending(s.todo)  Q == Pending(rest)  N == Pending(new)
<1>1. /\ s \in StateType /\ s.todo \in Seq(Statements)
      /\ s.firing = {j \in Box : Remembering(j) \in P}
      /\ Refills(s.todo) /\ Nested(s.todo) /\ Caused(s.todo)
      /\ Counted(s) /\ Switched(s) /\ Remembered(s) /\ Agreeing(s)
      /\ EnableOrder(s.todo, On(s), s.available)
  BY DEF Good, StateType
<1>2. /\ rest \in Seq(Statements) /\ op \in Statements /\ P = {op} \cup Q
  BY <1>1, TakeOff
<1>3. /\ Refills(rest) /\ Nested(rest) /\ Caused(rest)
      /\ \A j \in Box :
           /\ op = Removing(j) => AddingFirst(j) \in Q
           /\ op = AddingFirst(j) => AddingRest(j) \in Q
           /\ AddingFirst(j) \in Q => AddingRest(j) \in Q
           /\ Remembering(j) \in Q => op \in Within(j)
      /\ \A x \in P : /\ x[1] = "switch" => Remembering(Action) \in Q
                      /\ x[1] = "selectIfUnset" => Remembering(Memory) \in Q
  BY <1>1, TakeOffOrders
<1>4. /\ op[2] = i
      /\ op[1] \in {"select", "selectIfUnset", "selectIfEnabled", "removeAllItems", "addFirst"}
  BY StatementParts DEF Selecting
<1>5. \A j : Remembering(j) # op
  BY <1>4, StatementParts
<1>6. s.firing = {j \in Box : Remembering(j) \in Q}
  BY <1>1, <1>2, <1>5
<1>7. i \in s.firing => \/ i = Memory /\ op = Choose(Memory, Custom)
                        \/ i \in Sizes /\ op[1] = "selectIfUnset"
  BY <1>3, <1>4, <1>6, WithinOwn
<1>8. /\ new \in Seq(Statements) /\ Refills(new) /\ Nested(new) /\ Caused(new)
      /\ N = IF i \in s.firing THEN {} ELSE Pending(Reaction(i, k)) \cup {Remembering(i)}
  <2>1. CASE i \in s.firing
    <3>1. new = <<>>
      BY <2>1
    <3> HIDE DEF new
    <3> QED BY <2>1, <3>1 DEF Pending, Refills, Nested, Caused
  <2>2. CASE i \notin s.firing
    <3>1. new = Reaction(i, k) \o <<Remembering(i)>>
      BY <2>2
    <3> HIDE DEF new
    <3>2. /\ new \in Seq(Statements) /\ Refills(new) /\ Nested(new) /\ Caused(new)
          /\ Pending(new) = Pending(Reaction(i, k)) \cup {Remembering(i)}
      BY <3>1, HandlerList
    <3> QED BY <2>2, <3>2
  <2> QED BY <2>1, <2>2
<1>9. u.sel[i] = k
  BY <1>1 DEF StateType
<1>10. /\ r \in StateType /\ SameBoxes(u, r) /\ r.todo = new \o rest
       /\ r.firing = s.firing \cup {i}
       /\ r.mode64 = IF i = Application /\ i \notin s.firing THEN k = 1 ELSE s.mode64
  <2>1. CASE i \in s.firing
    <3>1. r = u
      BY <2>1 DEF Fire
    <3>2. new \o rest = rest
      BY <1>2, <2>1
    <3> QED BY <2>1, <3>1, <3>2 DEF SameBoxes
  <2>2. CASE i \notin s.firing
    <3>1. new = Reaction(i, k) \o <<Remembering(i)>>
      BY <2>2
    <3> HIDE DEF new
    <3>2. /\ r \in StateType /\ SameBoxes(u, r)
          /\ r.todo = (Reaction(i, k) \o <<Remembering(i)>>) \o u.todo
          /\ r.firing = u.firing \cup {i}
      BY <1>9, <2>2, FireDoes
    <3>3. r.mode64 = IF i = Application THEN u.sel[i] = 1 ELSE u.mode64
      BY <2>2, FireDoes
    <3>4. i = Application => r.mode64 = (k = 1)
      BY <1>9, <3>3
    <3>5. i # Application => r.mode64 = s.mode64
      BY <3>3
    <3>6. u.todo = rest /\ u.firing = s.firing
      OBVIOUS
    <3> HIDE DEF r
    <3>7. r.todo = new \o rest /\ r.firing = s.firing \cup {i}
      BY <3>1, <3>2, <3>6
    <3>8. r.mode64 = IF i = Application /\ i \notin s.firing THEN k = 1 ELSE s.mode64
      BY <2>2, <3>4, <3>5
    <3> QED BY <3>2, <3>7, <3>8
  <2> QED BY <2>1, <2>2
<1> SUFFICES Good(r)
  OBVIOUS
<1> HIDE DEF r, new, op, rest
<1>11. Pending(r.todo) = N \cup Q
  BY <1>2, <1>8, <1>10, ConcatPending
<1> HIDE DEF P, Q, N
<1>12. r.firing = {j \in Box : Remembering(j) \in Pending(r.todo)}
  <2>1. ASSUME NEW j \in Box, Remembering(j) \in N PROVE j = i /\ i \notin s.firing
    <3>1. /\ i \notin s.firing
          /\ Remembering(j) \in Pending(Reaction(i, k)) \/ Remembering(j) = Remembering(i)
      BY <1>8, <2>1
    <3>2. Remembering(j) \notin Pending(Reaction(i, k))
      <4>1. \A x \in Pending(Reaction(i, k)) :
              x[1] \notin {"remember", "enable", "selectIfEnabled"}
        BY ReactionLists, Zenon
      <4>2. Remembering(j)[1] = "remember"
        BY StatementParts
      <4> QED BY <4>1, <4>2
    <3> QED BY <3>1, <3>2 DEF Remembering
  <2>2. i \notin s.firing => Remembering(i) \in N
    BY <1>8
  <2> QED BY <1>6, <1>10, <1>11, <2>1, <2>2
<1>13. ASSUME NEW j \in Box, Remembering(j) \in Q PROVE N \subseteq Within(j)
  <2>1. j \in s.firing /\ op \in Within(j)
    BY <1>3, <1>6, <1>13
  <2>2. CASE i \in s.firing
    BY <1>8, <2>2
  <2>3. CASE i \notin s.firing
    <3>1. i # j
      BY <2>1, <2>3
    <3>2. op \in {Choose(i, k), <<"selectIfUnset", i, k>>, <<"selectIfEnabled", i, k>>,
                  Removing(i), AddingFirst(i)}
      BY DEF Selecting, op
    <3>3. Remembering(i) \in Within(j) /\ Pending(Reaction(i, k)) \subseteq Within(j)
      BY <1>2, <2>1, <3>1, <3>2, WithinClosed
    <3> QED BY <1>8, <2>3, <3>3
  <2> QED BY <2>2, <2>3
<1>14. Refills(r.todo) /\ Nested(r.todo) /\ Caused(r.todo)
  <2>1. Refills(r.todo)
    BY <1>2, <1>3, <1>8, <1>10, ConcatRefills
  <2>2. Nested(r.todo)
    <3>1. \A j \in Box : Remembering(j) \in Pending(rest) => Pending(new) \subseteq Within(j)
      BY <1>13 DEF N, Q
    <3> QED BY <1>2, <1>3, <1>8, <1>10, <3>1, ConcatNested, SMTT(60)
  <2>3. Caused(r.todo)
    BY <1>2, <1>3, <1>8, <1>10, ConcatCaused
  <2> QED BY <2>1, <2>2, <2>3

<1> DEFINE R == Pending(r.todo)
<1>15. /\ R = N \cup Q /\ P = {op} \cup Q
       /\ op \in {Choose(i, k), <<"selectIfUnset", i, k>>, <<"selectIfEnabled", i, k>>,
                  Removing(i), AddingFirst(i)}
       /\ Selecting(s, op, i, k, c)
  BY <1>2, <1>11 DEF Selecting, op
<1> HIDE DEF R
<1>16. /\ r.sel = [s.sel EXCEPT ![i] = k] /\ r.count = [s.count EXCEPT ![i] = c]
       /\ r.enabled = s.enabled /\ r.available = s.available /\ r.previous = s.previous
  BY <1>10 DEF SameBoxes
<1>17. /\ s.sel \in [Box -> Int] /\ s.count \in [Box -> Int]
       /\ s.enabled \in [Box -> BOOLEAN] /\ s.available \in [Box -> BOOLEAN]
  BY <1>1 DEF StateType
<1>18. /\ r.sel[i] = k /\ r.count[i] = c
       /\ \A j \in Box \ {i} : r.sel[j] = s.sel[j] /\ r.count[j] = s.count[j]
  BY <1>16, <1>17
<1>19. \A x, y : x \in P /\ x # op => x \in R
  BY <1>15
<1>20. Counted(r)
  <2> SUFFICES ASSUME NEW j \in Box
               PROVE  /\ r.count[j] \in 0..Values[j + 1]
                      /\ \/ r.count[j] = (IF r.available[j] THEN Values[j + 1] ELSE 1)
                         \/ AddingRest(j) \in R /\ (r.count[j] = 1 \/ AddingFirst(j) \in R)
                      /\ r.sel[j] >= -1
                      /\ AddingFirst(j) \in R \/ r.sel[j] \in 0..(r.count[j] - 1)
    BY DEF Counted, R
  <2>1. /\ s.count[j] \in 0..Values[j + 1]
        /\ \/ s.count[j] = (IF s.available[j] THEN Values[j + 1] ELSE 1)
           \/ AddingRest(j) \in P /\ (s.count[j] = 1 \/ AddingFirst(j) \in P)
        /\ s.sel[j] >= -1
        /\ AddingFirst(j) \in P \/ s.sel[j] \in 0..(s.count[j] - 1)
    BY <1>1 DEF Counted, P
  <2>2. AddingRest(j) # op
    BY <1>4, StatementParts
  <2>3. Values[j + 1] \in Nat /\ Values[j + 1] > 0
    BY SMTT(60) DEF Values
  <2>4. CASE j # i
    <3>1. AddingFirst(j) # op
      BY <1>4, <2>4, StatementParts
    <3> QED BY <1>16, <1>18, <1>19, <2>1, <2>2, <2>4, <3>1
  <2>5. CASE j = i /\ op = Removing(i)
    <3>1. k = -1 /\ c = 0
      <4>1. op[1] = "removeAllItems"
        BY <2>5, StatementParts
      <4>2. op # AddingFirst(i) /\ op # Choose(i, k)
        BY <4>1, StatementParts
      <4> QED BY <1>15, <4>1, <4>2 DEF Selecting
    <3>2. AddingFirst(j) \in R /\ AddingRest(j) \in R
      BY <1>3, <1>15, <2>5
    <3> QED BY <1>18, <2>3, <2>5, <3>1, <3>2
  <2>6. CASE j = i /\ op = AddingFirst(i)
    <3>1. k = 0 /\ c = 1
      <4>1. op[1] = "addFirst"
        BY <2>6, StatementParts
      <4>2. op # Removing(i) /\ op # Choose(i, k)
        BY <4>1, StatementParts
      <4> QED BY <1>15, <4>1, <4>2 DEF Selecting
    <3>2. AddingRest(j) \in R
      BY <1>3, <1>15, <2>6
    <3> QED BY <1>18, <2>3, <2>6, <3>1, <3>2
  <2>7. CASE j = i /\ op # Removing(i) /\ op # AddingFirst(i)
    <3>1. c = s.count[i] /\ k \in 0..(c - 1)
      BY <1>15, <2>7 DEF Selecting
    <3> QED BY <1>16, <1>18, <1>19, <2>1, <2>2, <2>7, <3>1
  <2> QED BY <2>4, <2>5, <2>6, <2>7
<1>21. i # Action => (On(r) <=> On(s))
  BY <1>18 DEF On
<1>22. i = Action => /\ i \notin s.firing /\ (On(r) <=> k = Benchmarks)
                     /\ \A x \in Q : x[1] # "switch"
  <2> SUFFICES ASSUME i = Action
               PROVE  /\ i \notin s.firing /\ (On(r) <=> k = Benchmarks)
                      /\ \A x \in Q : x[1] # "switch"
    OBVIOUS
  <2>1. i \notin s.firing
    BY <1>7
  <2>2. On(r) <=> k = Benchmarks
    BY <1>18 DEF On
  <2>3. Remembering(Action) \notin Q
    BY <1>6, <2>1
  <2>4. \A x \in Q : x \in P
    BY <1>15
  <2> QED BY <1>3, <2>1, <2>2, <2>3, <2>4
<1>23. \A x \in N : x[1] = "switch" => i = Action /\ (x[3] <=> k = Benchmarks)
  <2> SUFFICES ASSUME NEW x \in N, x[1] = "switch"
               PROVE  i = Action /\ (x[3] <=> k = Benchmarks)
    OBVIOUS
  <2>1. x # Remembering(i)
    <3>1. Remembering(i)[1] # "switch"
      BY StatementParts
    <3> QED BY <3>1
  <2>2. x \in Pending(Reaction(i, k))
    BY <1>8, <2>1
  <2>3. \A y \in Pending(Reaction(i, k)) : y[1] = "switch" => i = Action /\ (y[3] <=> k = Benchmarks)
    BY ReactionLists
  <2> QED BY <2>2, <2>3
<1>24. Switched(r)
  <2>1. ASSUME NEW j \in Settings, NEW b \in BOOLEAN, <<"switch", j, b>> \in R
        PROVE  b <=> On(r)
    <3> DEFINE x == <<"switch", j, b>>
    <3>1. x[1] = "switch" /\ x[3] = b
      OBVIOUS
    <3>2. x \in N \/ x \in Q
      BY <1>15, <2>1
    <3>3. x \in Q => (b <=> On(s))
      BY <1>1, <1>15 DEF Switched, P
    <3> HIDE DEF x
    <3>4. CASE x \in N
      <4>1. i = Action /\ (x[3] <=> k = Benchmarks)
        BY <1>23, <3>1, <3>4
      <4> QED BY <1>22, <3>1, <4>1
    <3>5. CASE x \in Q
      <4>1. i # Action
        BY <1>22, <3>1, <3>5
      <4> QED BY <1>21, <3>3, <3>5, <4>1
    <3> QED BY <3>2, <3>4, <3>5
  <2>2. ASSUME NEW j \in Settings
        PROVE  (r.available[j] <=> On(r)) \/ \E b \in BOOLEAN : <<"switch", j, b>> \in R
    <3>1. CASE i = Action
      <4>1. PICK b \in BOOLEAN : b <=> k = Benchmarks
        OBVIOUS
      <4>2. <<"switch", j, b>> \in Pending(Reaction(i, k))
        BY <3>1, <4>1, ReactionLists
      <4> QED BY <1>8, <1>15, <1>22, <3>1, <4>2
    <3>2. CASE i # Action
      <4>1. (s.available[j] <=> On(s)) \/ \E b \in BOOLEAN : <<"switch", j, b>> \in P
        BY <1>1 DEF Switched, P
      <4>2. \A b : <<"switch", j, b>> # op
        BY <1>4
      <4>3. (\E b \in BOOLEAN : <<"switch", j, b>> \in P) =>
              \E b \in BOOLEAN : <<"switch", j, b>> \in R
        BY <1>19, <4>2
      <4>4. r.available[j] = s.available[j]
        BY <1>16
      <4> QED BY <1>21, <3>2, <4>1, <4>3, <4>4
    <3> QED BY <3>1, <3>2
  <2>3. \A j \in Tabs : r.available[j]
    BY <1>1, <1>16 DEF Switched
  <2>4. \A j \in Box : r.enabled[j] <=> Functional(r, j)
    BY <1>1, <1>16 DEF Switched, Functional
  <2>5. \A j \in Settings : \A b \in BOOLEAN :
           <<"switch", j, b>> \in Pending(r.todo) => (b <=> On(r))
    BY <2>1 DEF R
  <2>6. \A j \in Settings : \/ r.available[j] <=> On(r)
                            \/ \E b \in BOOLEAN : <<"switch", j, b>> \in Pending(r.todo)
    BY <2>2 DEF R
  <2> QED BY <2>3, <2>4, <2>5, <2>6 DEF Switched
<1>25. Remembered(r)
  <2> SUFFICES ASSUME NEW j \in Box, r.enabled[j]
               PROVE  r.previous[j] = r.sel[j] \/ j \in r.firing \/ AddingFirst(j) \in R
    BY DEF Remembered, R
  <2>1. CASE j = i
    BY <1>10, <2>1
  <2>2. CASE j # i
    <3>1. s.previous[j] = s.sel[j] \/ j \in s.firing \/ AddingFirst(j) \in P
      BY <1>1, <1>16 DEF Remembered, P
    <3>2. AddingFirst(j) # op
      BY <1>4, <2>2, StatementParts, SMTT(60)
    <3> QED BY <1>10, <1>16, <1>18, <1>19, <2>2, <3>1, <3>2
  <2> QED BY <2>1, <2>2

<1>26. EnableOrder(r.todo, On(r), r.available)
  <2>1. \A x \in N : x[1] # "enable" /\ (x[2] = Action => x = Remembering(Action))
    <3> SUFFICES ASSUME NEW x \in N
                 PROVE  x[1] # "enable" /\ (x[2] = Action => x = Remembering(Action))
      OBVIOUS
    <3>1. CASE x = Remembering(i)
      BY <3>1, StatementParts
    <3>2. CASE x # Remembering(i)
      <4>1. x \in Pending(Reaction(i, k))
        BY <1>8, <3>2
      <4>2. \A y \in Pending(Reaction(i, k)) :
               y[1] \notin {"remember", "enable", "selectIfEnabled"} /\ y[2] \notin {Application, Action}
        BY ReactionLists
      <4> QED BY <4>1, <4>2
    <3> QED BY <3>1, <3>2
  <2>2. ASSUME op = Choose(Action, Benchmarks)
        PROVE  On(r) /\ \A j \in Memory..StepSize : <<"switch", j, TRUE>> \in N
    <3>1. op[1] = "select" /\ op[2] = Action /\ op[3] = Benchmarks
      BY <2>2, StatementParts
    <3>2. i = Action
      BY <1>4, <3>1
    <3>3. op = Choose(i, k)
      BY <1>15, <3>1, StatementParts
    <3>4. k = Benchmarks
      BY <2>2, <3>3 DEF Choose
    <3>5. \A j \in Settings : <<"switch", j, TRUE>> \in Pending(Reaction(i, k))
      BY <3>2, <3>4, ReactionLists
    <3>6. i \notin s.firing /\ On(r)
      BY <1>22, <3>2, <3>4
    <3>7. \A j \in Memory..StepSize : j \in Settings
      OBVIOUS
    <3>8. \A x \in Pending(Reaction(i, k)) : x \in N
      BY <1>8, <3>6
    <3> QED BY <3>5, <3>6, <3>7, <3>8
  <2>3. ASSUME op[2] = Action => op \in {Choose(Action, Benchmarks), Remembering(Action),
                                         <<"enable", Action, TRUE>>},
               op # Choose(Action, Benchmarks), On(s)
        PROVE  /\ On(r)
               /\ \A j \in Memory..StepSize :
                    s.available[j] \/ op = <<"switch", j, TRUE>> => r.available[j]
    <3>1. i # Action
      <4>1. ASSUME i = Action PROVE FALSE
        <5>1. op = Remembering(Action) \/ op = <<"enable", Action, TRUE>>
          BY <1>4, <2>3, <4>1
        <5>2. op = Remembering(Action) => op[1] = "remember"
          BY StatementParts
        <5>3. op = <<"enable", Action, TRUE>> => op[1] = "enable"
          OBVIOUS
        <5> QED BY <1>4, <5>1, <5>2, <5>3
      <4> QED BY <4>1
    <3>2. ASSUME NEW j, op = <<"switch", j, TRUE>> PROVE FALSE
      <4>1. op[1] = "switch"
        BY <3>2
      <4> QED BY <1>4, <4>1
    <3> QED BY <1>16, <1>21, <2>3, <3>1, <3>2
  <2>4. On(s) \in BOOLEAN /\ On(r) \in BOOLEAN
    BY DEF On
  <2>5. EnableOrder(new \o Tail(s.todo), On(r), r.available)
    <3>1. OrderSafe(op, new, On(s), s.available, On(r), r.available)
      BY <2>1, <2>2, <2>3, Zenon DEF OrderSafe, N
    <3>2. OrderSafe(Head(s.todo), new, On(s), s.available, On(r), r.available)
      BY <3>1 DEF op
    <3> QED BY <1>1, <1>8, <3>2, OrderKept
  <2> QED BY <1>10, <2>5 DEF rest
<1>27. r.mode64 <=> (r.sel[Application] = 1)
  <2>1. s.mode64 <=> (s.sel[Application] = 1)
    BY <1>1 DEF Agreeing
  <2>2. CASE i = Application
    <3>1. r.mode64 = (k = 1)
      BY <1>7, <1>10, <2>2
    <3> QED BY <1>18, <2>2, <3>1
  <2>3. CASE i # Application
    BY <1>10, <1>18, <2>1, <2>3
  <2> QED BY <2>2, <2>3
<1>28. \/ r.sel[Repeats] <= 0 \/ r.sel[Adaptive] <= 0
       \/ Choose(Repeats, 0) \in R \/ Choose(Adaptive, 0) \in R
  <2>1. CASE i = Repeats
    <3>1. i \notin s.firing
      BY <1>7, <2>1
    <3>2. k > 0 => Choose(Adaptive, 0) \in Pending(Reaction(i, k))
      BY <2>1, ReactionLists
    <3> QED BY <1>8, <1>15, <1>18, <2>1, <3>1, <3>2
  <2>2. CASE i = Adaptive
    <3>1. i \notin s.firing
      BY <1>7, <2>2
    <3>2. k > 0 => Choose(Repeats, 0) \in Pending(Reaction(i, k))
      BY <2>2, ReactionLists
    <3> QED BY <1>8, <1>15, <1>18, <2>2, <3>1, <3>2
  <2>3. CASE i \notin {Repeats, Adaptive}
    <3>1. \/ s.sel[Repeats] <= 0 \/ s.sel[Adaptive] <= 0
          \/ Choose(Repeats, 0) \in P \/ Choose(Adaptive, 0) \in P
      BY <1>1 DEF Agreeing, P
    <3>2. Choose(Repeats, 0) # op /\ Choose(Adaptive, 0) # op
      BY <1>4, <2>3, StatementParts
    <3> QED BY <1>18, <1>19, <2>3, <3>1, <3>2
  <2> QED BY <2>1, <2>2, <2>3
<1>29. \/ r.sel[Memory] = Custom \/ Choose(Memory, Custom) \in R \/ AddingFirst(Memory) \in R
       \/ \A j \in Sizes : r.sel[j] <= 0 \/ Choose(j, 0) \in R
  <2>1. CASE i = Memory
    <3>1. CASE k = Custom
      BY <1>18, <2>1, <3>1
    <3>2. CASE op = Removing(i)
      BY <1>3, <1>15, <2>1, <3>2
    <3>3. CASE k # Custom /\ op # Removing(i)
      <4>1. k \in 0..4
        <5>1. s.count[Memory] \in 0..Values[Memory + 1]
          BY <1>1 DEF Counted
        <5>2. Values[Memory + 1] = 6
          BY DEF Values
        <5> QED BY <1>15, <2>1, <3>3, <5>1, <5>2 DEF Selecting
      <4>2. i \notin s.firing
        <5>1. op = Choose(Memory, Custom) => k = Custom
          <6>1. ASSUME op = Choose(Memory, Custom) PROVE k = Custom
            <7>1. op[1] = "select" /\ op[3] = Custom
              BY <6>1, StatementParts
            <7>2. op = Choose(i, k)
              BY <1>15, <7>1, StatementParts
            <7> QED BY <7>1, <7>2, StatementParts
          <6> QED BY <6>1
        <5> QED BY <1>7, <2>1, <3>3, <5>1
      <4>3. \A j \in Sizes : Choose(j, 0) \in Pending(Reaction(i, k))
        BY <2>1, <4>1, ReactionLists
      <4> QED BY <1>8, <1>15, <4>2, <4>3
    <3> QED BY <3>1, <3>2, <3>3
  <2>2. CASE i \in Sizes /\ k > 0
    <3>1. CASE i \in s.firing
      <4>1. op[1] = "selectIfUnset" /\ op \in P
        BY <1>7, <1>15, <2>2, <3>1
      <4>2. s.sel[Memory] = Custom
        BY <1>1, <4>1 DEF Agreeing, P
      <4> QED BY <1>18, <2>2, <4>2
    <3>2. CASE i \notin s.firing
      <4>1. Choose(Memory, Custom) \in Pending(Reaction(i, k))
        BY <2>2, ReactionLists
      <4> QED BY <1>8, <1>15, <3>2, <4>1
    <3> QED BY <3>1, <3>2
  <2>3. CASE i # Memory /\ ~(i \in Sizes /\ k > 0)
    <3>1. \/ s.sel[Memory] = Custom \/ Choose(Memory, Custom) \in P \/ AddingFirst(Memory) \in P
          \/ \A j \in Sizes : s.sel[j] <= 0 \/ Choose(j, 0) \in P
      BY <1>1 DEF Agreeing, P
    <3>2. \A j \in Box \ {i} : \A y : Choose(j, y) # op /\ AddingFirst(j) # op
      BY <1>4, StatementParts
    <3>3. r.sel[Memory] = s.sel[Memory] /\ Choose(Memory, Custom) # op /\ AddingFirst(Memory) # op
      <4>1. Choose(Memory, Custom)[2] = Memory /\ AddingFirst(Memory)[2] = Memory
        BY StatementParts
      <4> QED BY <1>4, <1>18, <2>3, <4>1
    <3>4. ASSUME NEW j \in Sizes, s.sel[j] <= 0 \/ Choose(j, 0) \in P
          PROVE  r.sel[j] <= 0 \/ Choose(j, 0) \in R
      <4>1. CASE j = i
        BY <1>18, <2>3, <4>1
      <4>2. CASE j # i
        BY <1>18, <1>19, <3>2, <3>4, <4>2
      <4> QED BY <4>1, <4>2
    <3> QED BY <1>19, <3>1, <3>3, <3>4
  <2> QED BY <2>1, <2>2, <2>3
<1>30. \A x \in R : x[1] = "selectIfUnset" => r.sel[Memory] = Custom
  <2>0. SUFFICES ASSUME NEW x \in R, x[1] = "selectIfUnset" PROVE r.sel[Memory] = Custom
    OBVIOUS
  <2>1. CASE x \in N
    <3>1. x # Remembering(i)
      <4>1. Remembering(i)[1] # "selectIfUnset"
        BY StatementParts
      <4> QED BY <2>0, <4>1
    <3>2. x \in Pending(Reaction(i, k))
      BY <1>8, <2>1, <3>1
    <3>3. i = Memory /\ k = Custom
      <4>1. \A y \in Pending(Reaction(i, k)) : y[1] = "selectIfUnset" => i = Memory /\ k = Custom
        BY UnsetByMemory
      <4> QED BY <2>0, <3>2, <4>1
    <3> QED BY <1>18, <3>3
  <2>2. CASE x \in Q
    <3>1. s.sel[Memory] = Custom /\ Remembering(Memory) \in Q
      BY <1>1, <1>3, <1>15, <2>0, <2>2 DEF Agreeing, P
    <3>2. Memory \in s.firing
      BY <1>6, <3>1
    <3>3. CASE i = Memory
      <4>1. op = Choose(Memory, Custom)
        BY <1>7, <3>2, <3>3
      <4>2. op[1] = "select" /\ op[3] = Custom
        BY <4>1, StatementParts
      <4>3. op = Choose(i, k)
        BY <1>15, <4>2, StatementParts
      <4> QED BY <1>18, <3>3, <4>2, <4>3, StatementParts
    <3>4. CASE i # Memory
      BY <1>18, <3>1, <3>4
    <3> QED BY <3>3, <3>4
  <2> QED BY <1>15, <2>1, <2>2
<1>31. Agreeing(r)
  BY <1>27, <1>28, <1>29, <1>30 DEF Agreeing, R
<1> QED BY <1>10, <1>12, <1>14, <1>20, <1>24, <1>25, <1>26, <1>31 DEF Good

\* A statement that selects and switches nothing leaves what it does not change as it holds.
LEMMA SettlingKeeps ==
  ASSUME NEW s, Good(s), s.todo # <<>>, NEW op, op = Head(s.todo),
         op[1] \notin {"select", "removeAllItems", "addFirst", "switch"},
         NEW u \in StateType, u.todo = Tail(s.todo), u.sel = s.sel, u.enabled = s.enabled,
         u.available = s.available, u.mode64 = s.mode64,
         u.firing = {i \in Box : Remembering(i) \in Pending(u.todo)},
         Counted(u), Remembered(u)
  PROVE  Good(u)
<1> DEFINE P == Pending(s.todo)  Q == Pending(u.todo)
<1>1. /\ s.todo \in Seq(Statements) /\ Refills(s.todo) /\ Nested(s.todo) /\ Caused(s.todo)
      /\ EnableOrder(s.todo, On(s), s.available) /\ Switched(s) /\ Agreeing(s)
  BY DEF Good, StateType
<1>2. /\ u.todo \in Seq(Statements) /\ P = {op} \cup Q
      /\ Refills(u.todo) /\ Nested(u.todo) /\ Caused(u.todo)
  BY <1>1, TakeOff, TakeOffOrders
<1>3. On(u) <=> On(s)
  BY DEF On
<1>4. \A x, y : op # Choose(x, y)
  BY StatementParts
<1>5. \A x, y : op # <<"switch", x, y>>
  OBVIOUS
<1>6. EnableOrder(u.todo, On(u), u.available)
  <2>1. Pending(<<>>) = {}
    BY DEF Pending
  <2>2. ASSUME On(s) PROVE On(u)
    BY <1>3, <2>2
  <2>3. OrderSafe(op, <<>>, On(s), s.available, On(u), u.available)
    BY <1>4, <1>5, <2>1, <2>2, Zenon DEF OrderSafe
  <2>4. OrderSafe(Head(s.todo), <<>>, On(s), s.available, On(u), u.available)
    BY <2>3
  <2>5. <<>> \in Seq(Statements)
    OBVIOUS
  <2>6. EnableOrder(<<>> \o Tail(s.todo), On(u), u.available)
    BY <1>1, <2>4, <2>5, OrderKept
  <2>7. <<>> \o Tail(s.todo) = u.todo
    BY <1>2
  <2> QED BY <2>6, <2>7
<1>7. Switched(u)
  <2> HIDE DEF P, Q
  <2>1. /\ \A i \in Tabs : s.available[i]
        /\ \A i \in Settings : \/ s.available[i] <=> On(s)
                               \/ \E b \in BOOLEAN : <<"switch", i, b>> \in P
        /\ \A i \in Settings : \A b \in BOOLEAN : <<"switch", i, b>> \in P => (b <=> On(s))
        /\ \A i \in Box : s.enabled[i] <=> Functional(s, i)
    BY <1>1 DEF Switched, P
  <2>2. \A x, y : <<"switch", x, y>> \in P <=> <<"switch", x, y>> \in Q
    BY <1>2, <1>5 
  <2>3. \A i \in Box : u.enabled[i] <=> Functional(u, i)
    BY <2>1 DEF Functional
  <2>4. \A i \in Settings : \A b \in BOOLEAN : <<"switch", i, b>> \in Q => (b <=> On(u))
    BY <1>3, <2>1, <2>2
  <2>5. ASSUME NEW i \in Settings
        PROVE  (u.available[i] <=> On(u)) \/ \E b \in BOOLEAN : <<"switch", i, b>> \in Q
    <3>1. CASE \E b \in BOOLEAN : <<"switch", i, b>> \in P
      BY <2>2, <3>1
    <3>2. CASE s.available[i] <=> On(s)
      BY <1>3, <3>2
    <3> QED BY <2>1, <3>1, <3>2
  <2> QED BY <2>1, <2>3, <2>4, <2>5 DEF Switched, Q
<1>8. Agreeing(u)
  <2> HIDE DEF P, Q
  <2>1. \A x, y : Choose(x, y) \in P <=> Choose(x, y) \in Q
    BY <1>2, <1>4
  <2>2. AddingFirst(Memory) # op
    BY DEF AddingFirst
  <2>3. AddingFirst(Memory) \in P <=> AddingFirst(Memory) \in Q
    BY <1>2, <2>2
  <2>4. \A x \in Q : x \in P
    BY <1>2
  <2>5. Agreeing(s)
    BY <1>1
  <2> QED BY <2>1, <2>3, <2>4, <2>5 DEF Agreeing, P, Q
<1> QED BY <1>2, <1>6, <1>7, <1>8 DEF Good

\* A statement that does nothing: a size that is set, a box that is not enabled, a box that
\* is to be as it is.
LEMMA NothingKeeps ==
  ASSUME NEW s, Good(s), s.todo # <<>>, NEW op, op = Head(s.todo),
         op[1] \in {"selectIfUnset", "selectIfEnabled", "enable"},
         NEW u \in StateType, u = [s EXCEPT !.todo = Tail(@)]
  PROVE  Good(u)
<1> DEFINE P == Pending(s.todo)  Q == Pending(u.todo)
<1>1. /\ s \in StateType /\ s.firing = {i \in Box : Remembering(i) \in P}
      /\ Counted(s) /\ Remembered(s)
  BY DEF Good
<1>2. /\ u.todo = Tail(s.todo) /\ u.sel = s.sel /\ u.count = s.count /\ u.enabled = s.enabled
      /\ u.available = s.available /\ u.previous = s.previous /\ u.mode64 = s.mode64
      /\ u.firing = s.firing
  BY <1>1 DEF StateType
<1>3. P = {op} \cup Q
  BY <1>1, <1>2, TakeOff DEF StateType
<1>4. \A i \in Box : Remembering(i) # op /\ AddingFirst(i) # op /\ AddingRest(i) # op
  BY DEF Remembering, AddingFirst, AddingRest
<1> HIDE DEF P, Q
<1>5. Counted(u)
  BY <1>1, <1>2, <1>3, <1>4 DEF Counted, P, Q
<1>6. Remembered(u)
  BY <1>1, <1>2, <1>3, <1>4 DEF Remembered, P, Q
<1>7. u.firing = {i \in Box : Remembering(i) \in Q}
  BY <1>1, <1>2, <1>3, <1>4
<1>8. u.firing = {i \in Box : Remembering(i) \in Pending(u.todo)}
  BY <1>7 DEF Q
<1> QED BY <1>2, <1>5, <1>6, <1>8, SettlingKeeps

\* The other items of a box.
LEMMA AddingRestKeeps ==
  ASSUME NEW s, Good(s), s.todo # <<>>, NEW i \in Box, Head(s.todo) = AddingRest(i),
         NEW u \in StateType, u.todo = Tail(s.todo), u.sel = s.sel, u.enabled = s.enabled,
         u.available = s.available, u.previous = s.previous, u.mode64 = s.mode64,
         u.firing = s.firing,
         u.count = IF s.available[i] THEN [s.count EXCEPT ![i] = Values[i + 1]] ELSE s.count
  PROVE  Good(u)
<1> DEFINE P == Pending(s.todo)  Q == Pending(u.todo)  op == Head(s.todo)
<1>1. /\ s \in StateType /\ s.firing = {j \in Box : Remembering(j) \in P}
      /\ Counted(s) /\ Remembered(s) /\ Refills(s.todo) /\ Nested(s.todo) /\ Caused(s.todo)
  BY DEF Good
<1>2. /\ P = {op} \cup Q
      /\ \A j \in Box : AddingFirst(j) \in Q => AddingRest(j) \in Q
  BY <1>1, TakeOff, TakeOffOrders DEF StateType
<1>3. \A j \in Box : Remembering(j) # op /\ AddingFirst(j) # op
  BY DEF Remembering, AddingFirst, AddingRest
<1>4. op[1] = "addOthers" /\ \A j \in Box : j # i => AddingRest(j) # op
  BY DEF AddingRest
<1> HIDE DEF P, Q, op
<1>5. Counted(u)
  <2> SUFFICES ASSUME NEW j \in Box
               PROVE  /\ u.count[j] \in 0..Values[j + 1]
                      /\ \/ u.count[j] = (IF u.available[j] THEN Values[j + 1] ELSE 1)
                         \/ AddingRest(j) \in Q /\ (u.count[j] = 1 \/ AddingFirst(j) \in Q)
                      /\ u.sel[j] >= -1
                      /\ AddingFirst(j) \in Q \/ u.sel[j] \in 0..(u.count[j] - 1)
    BY DEF Counted, Q
  <2>1. /\ s.count[j] \in 0..Values[j + 1]
        /\ \/ s.count[j] = (IF s.available[j] THEN Values[j + 1] ELSE 1)
           \/ AddingRest(j) \in P /\ (s.count[j] = 1 \/ AddingFirst(j) \in P)
        /\ s.sel[j] >= -1
        /\ AddingFirst(j) \in P \/ s.sel[j] \in 0..(s.count[j] - 1)
    BY <1>1 DEF Counted, P
  <2>2. AddingFirst(j) \in P => AddingFirst(j) \in Q /\ AddingRest(j) \in Q
    BY <1>2, <1>3
  <2>3. Values[j + 1] \in Nat /\ Values[j + 1] > 0
    BY BoxNumbers, SMTT(60) DEF Values
  <2>4. s.count \in [Box -> Int] /\ s.count[j] \in Int /\ s.sel[j] \in Int
    BY <1>1 DEF StateType
  <2>5. CASE j # i
    <3>1. u.count[j] = s.count[j]
      BY <2>4, <2>5
    <3>2. AddingRest(j) \in P => AddingRest(j) \in Q
      BY <1>2, <1>4, <2>5
    <3> QED BY <2>1, <2>2, <3>1, <3>2
  <2>6. CASE j = i /\ s.available[i]
    <3>1. u.count[j] = Values[j + 1]
      BY <2>4, <2>6
    <3> QED BY <2>1, <2>2, <2>3, <2>4, <2>6, <3>1
  <2>7. CASE j = i /\ ~s.available[i]
    <3>1. u.count[j] = s.count[j]
      BY <2>7
    <3> QED BY <2>1, <2>2, <2>7, <3>1
  <2> QED BY <2>5, <2>6, <2>7
<1>6. Remembered(u)
  BY <1>1, <1>2, <1>3 DEF Remembered, P, Q
<1>7. u.firing = {j \in Box : Remembering(j) \in Q}
  BY <1>1, <1>2, <1>3
<1>8. u.firing = {j \in Box : Remembering(j) \in Pending(u.todo)}
  BY <1>7 DEF Q
<1>9. op = Head(s.todo)
  BY DEF op
<1> QED BY <1>4, <1>5, <1>6, <1>8, <1>9, SettlingKeeps

\* The end of a handler, which remembers the selection of its box.
LEMMA RememberingKeeps ==
  ASSUME NEW s, Good(s), s.todo # <<>>, NEW i \in Box, Head(s.todo) = Remembering(i),
         NEW u \in StateType, u.todo = Tail(s.todo), u.sel = s.sel, u.enabled = s.enabled,
         u.available = s.available, u.count = s.count, u.mode64 = s.mode64,
         u.firing = s.firing \ {i},
         u.previous = IF s.enabled[i] /\ s.sel[i] >= 0
                      THEN [s.previous EXCEPT ![i] = s.sel[i]] ELSE s.previous
  PROVE  Good(u)
<1> DEFINE P == Pending(s.todo)  Q == Pending(u.todo)  op == Head(s.todo)
<1>1. /\ s \in StateType /\ s.firing = {j \in Box : Remembering(j) \in P}
      /\ Counted(s) /\ Remembered(s) /\ Refills(s.todo) /\ Nested(s.todo) /\ Caused(s.todo)
  BY DEF Good
<1>2. /\ P = {op} \cup Q
      /\ \A j \in Box : Remembering(j) \in Q => op \in Within(j)
  BY <1>1, TakeOff, TakeOffOrders DEF StateType
<1>3. \A j \in Box : AddingRest(j) # op /\ AddingFirst(j) # op
  BY DEF Remembering, AddingFirst, AddingRest
<1>4. op[1] = "remember" /\ op[2] = i /\ \A j \in Box : j # i => Remembering(j) # op
  BY DEF Remembering
<1>5. Remembering(i) \notin Q
  <2>1. ASSUME Remembering(i) \in Q PROVE FALSE
    <3>1. op \in Within(i)
      BY <1>2, <2>1
    <3>2. op = Choose(Memory, Custom) \/ op[1] = "selectIfUnset"
      BY <1>4, <3>1, WithinOwn
    <3> QED BY <1>4, <3>2, StatementParts
  <2> QED BY <2>1
<1> HIDE DEF P, Q, op
<1>6. Counted(u)
  BY <1>1, <1>2, <1>3 DEF Counted, P, Q
<1>7. Remembered(u)
  <2> SUFFICES ASSUME NEW j \in Box, u.enabled[j]
               PROVE  u.previous[j] = u.sel[j] \/ j \in u.firing \/ AddingFirst(j) \in Q
    BY DEF Remembered, Q
  <2>1. s.previous[j] = s.sel[j] \/ j \in s.firing \/ AddingFirst(j) \in P
    BY <1>1 DEF Remembered, P
  <2>2. AddingFirst(j) \in P => AddingFirst(j) \in Q
    BY <1>2, <1>3
  <2>3. s.previous \in [Box -> Int] /\ s.sel[j] \in Int /\ s.count[j] \in Int
    BY <1>1 DEF StateType
  <2>4. CASE j # i
    <3>1. u.previous[j] = s.previous[j]
      BY <2>3, <2>4
    <3> QED BY <2>1, <2>2, <2>4, <3>1
  <2>5. CASE j = i
    <3>1. CASE s.sel[i] >= 0
      <4>1. u.previous = [s.previous EXCEPT ![i] = s.sel[i]]
        BY <2>5, <3>1
      <4> QED BY <2>3, <2>5, <4>1
    <3>2. CASE ~(s.sel[i] >= 0)
      <4>1. AddingFirst(j) \in P
        BY <1>1, <2>3, <2>5, <3>2 DEF Counted, P
      <4> QED BY <2>2, <4>1
    <3> QED BY <3>1, <3>2
  <2> QED BY <2>4, <2>5
<1>8. u.firing = {j \in Box : Remembering(j) \in Q}
  BY <1>1, <1>2, <1>4, <1>5
<1>9. u.firing = {j \in Box : Remembering(j) \in Pending(u.todo)}
  BY <1>8 DEF Q
<1>10. op = Head(s.todo)
  BY DEF op
<1> QED BY <1>4, <1>6, <1>7, <1>9, <1>10, SettlingKeeps

\* What a switch of box i adds to the list.
Switching(s, i) ==
  Refill(i) \o (IF s.enabled[i] THEN <<>> ELSE <<<<"selectIfEnabled", i, s.previous[i]>>>>)

\* The list of one turn of Action's loop.
LEMMA SwitchList ==
  ASSUME NEW s \in StateType, NEW i \in Settings, NEW new, new = Switching(s, i)
  PROVE  /\ new \in Seq(Statements) /\ Refills(new) /\ Nested(new) /\ Caused(new)
         /\ Removing(i) \in Pending(new) /\ AddingFirst(i) \in Pending(new)
         /\ AddingRest(i) \in Pending(new)
         /\ \A x \in Pending(new) :
              /\ x \in Statements /\ x[2] = i
              /\ x[1] \in {"removeAllItems", "addFirst", "addOthers", "selectIfEnabled"}
<1> USE BoxNumbers
<1> DEFINE p == <<"selectIfEnabled", i, s.previous[i]>>
<1>1. /\ Removing(i) \in Statements /\ AddingFirst(i) \in Statements
      /\ AddingRest(i) \in Statements /\ p \in Statements
  <2>1. i \in Box
    OBVIOUS
  <2>2. s.previous \in [Box -> Int]
    BY DEF StateType
  <2>3. s.previous[i] \in Int
    BY <2>1, <2>2
  <2> QED BY <2>1, <2>3, StatementKinds
<1>2. /\ Removing(i)[1] = "removeAllItems" /\ AddingFirst(i)[1] = "addFirst"
      /\ AddingRest(i)[1] = "addOthers" /\ p[1] = "selectIfEnabled"
      /\ Removing(i)[2] = i /\ AddingFirst(i)[2] = i /\ AddingRest(i)[2] = i /\ p[2] = i
  BY DEF Removing, AddingFirst, AddingRest
<1> HIDE DEF p
<1>3. /\ new \in Seq(Statements) /\ DOMAIN new \in {1..3, 1..4}
      /\ new[1] = Removing(i) /\ new[2] = AddingFirst(i) /\ new[3] = AddingRest(i)
      /\ 4 \in DOMAIN new => new[4] = p
  <2> DEFINE refill == <<Removing(i), AddingFirst(i), AddingRest(i)>>  end == <<p>>
  <2>1. Refill(i) = refill
    BY DEF Refill, Removing, AddingFirst, AddingRest
  <2>2. /\ refill \in Seq(Statements) /\ DOMAIN refill = 1..3 /\ Len(refill) = 3
        /\ refill[1] = Removing(i) /\ refill[2] = AddingFirst(i) /\ refill[3] = AddingRest(i)
    BY <1>1
  <2>3. end \in Seq(Statements) /\ DOMAIN end = 1..1 /\ Len(end) = 1 /\ end[1] = p
    BY <1>1
  <2>4. new = IF s.enabled[i] THEN refill \o <<>> ELSE refill \o end
    BY <2>1 DEF Switching, p
  <2> HIDE DEF refill, end
  <2>5. CASE s.enabled[i]
    <3>1. new = refill
      BY <2>2, <2>4, <2>5
    <3> QED BY <2>2, <3>1
  <2>6. CASE ~s.enabled[i]
    <3> DEFINE all == refill \o end
    <3>1. /\ all \in Seq(Statements)
          /\ DOMAIN all = 1..(Len(refill) + Len(end))
          /\ \A n \in DOMAIN refill : all[n] = refill[n]
          /\ \A n \in DOMAIN end : all[Len(refill) + n] = end[n]
      BY <2>2, <2>3, Concat
    <3>2. new = all
      BY <2>4, <2>6
    <3> HIDE DEF all
    <3>3. DOMAIN all = 1..4
      BY <2>2, <2>3, <3>1
    <3>4. all[1] = refill[1] /\ all[2] = refill[2] /\ all[3] = refill[3]
      BY <2>2, <3>1
    <3>5. all[4] = p
      <4>1. 1 \in DOMAIN end
        BY <2>3
      <4>2. all[Len(refill) + 1] = end[1]
        BY <3>1, <4>1
      <4> QED BY <2>2, <2>3, <4>2
    <3> QED BY <2>2, <3>1, <3>2, <3>3, <3>4, <3>5
  <2> QED BY <2>5, <2>6
<1>4. new \in Seq(Statements)
  BY <1>3
<1>5. /\ DOMAIN new \in {1..3, 1..4}
      /\ new[1] = Removing(i) /\ new[2] = AddingFirst(i) /\ new[3] = AddingRest(i)
      /\ 4 \in DOMAIN new => new[4] = p
  BY <1>3
<1>6. 1 \in DOMAIN new /\ 2 \in DOMAIN new /\ 3 \in DOMAIN new
      /\ \A n \in DOMAIN new : n \in 1..4
  BY <1>5
<1>7. /\ Removing(i) \in Pending(new) /\ AddingFirst(i) \in Pending(new)
      /\ AddingRest(i) \in Pending(new)
  BY <1>5, <1>6 DEF Pending
<1>8. \A x \in Pending(new) :
        /\ x \in Statements /\ x[2] = i
        /\ x[1] \in {"removeAllItems", "addFirst", "addOthers", "selectIfEnabled"}
  BY <1>1, <1>2, <1>5, <1>6 DEF Pending
<1>9. Refills(new)
  <2> SUFFICES ASSUME NEW n \in DOMAIN new, NEW j \in Box
               PROVE  /\ new[n] = Removing(j) => n + 1 \in DOMAIN new /\ new[n + 1] = AddingFirst(j)
                      /\ new[n] = AddingFirst(j) => n + 1 \in DOMAIN new /\ new[n + 1] = AddingRest(j)
    BY DEF Refills
  <2>1. /\ Removing(j)[1] = "removeAllItems" /\ AddingFirst(j)[1] = "addFirst"
        /\ Removing(j)[2] = j /\ AddingFirst(j)[2] = j
    BY DEF Removing, AddingFirst
  <2>2. n \in {1, 2, 3, 4}
    BY <1>6
  <2>3. CASE n = 1
    BY <1>2, <1>5, <1>6, <2>1, <2>3
  <2>4. CASE n = 2
    BY <1>2, <1>5, <1>6, <2>1, <2>4
  <2>5. CASE n = 3
    BY <1>2, <1>5, <2>1, <2>5
  <2>6. CASE n = 4
    BY <1>2, <1>5, <2>1, <2>6
  <2> QED BY <2>2, <2>3, <2>4, <2>5, <2>6
<1>10. \A n \in DOMAIN new : new[n][1] \notin {"remember", "switch", "selectIfUnset"}
  BY <1>8 DEF Pending
<1>11. Nested(new)
  BY <1>10 DEF Nested, Remembering
<1>12. Caused(new)
  BY <1>10 DEF Caused
<1> QED BY <1>4, <1>7, <1>8, <1>9, <1>11, <1>12

\* The turn of a box when Action has changed.
LEMMA SwitchKeeps ==
  ASSUME NEW s, Good(s), s.todo # <<>>, NEW i \in Settings, NEW b \in BOOLEAN,
         Head(s.todo) = <<"switch", i, b>>,
         NEW u \in StateType, u.todo = Switching(s, i) \o Tail(s.todo),
         u.sel = s.sel, u.count = s.count, u.previous = s.previous, u.mode64 = s.mode64,
         u.firing = s.firing, \A j \in Box : u.available[j] <=> IF j = i THEN b ELSE s.available[j],
         \A j \in Box : u.enabled[j] <=> IF j = i THEN Functional(u, j) ELSE s.enabled[j]
  PROVE  Good(u)
<1> DEFINE P == Pending(s.todo)  R == Pending(u.todo)  op == Head(s.todo)  rest == Tail(s.todo)
           Q == Pending(rest)  new == Switching(s, i)  N == Pending(new)
<1>1. /\ s \in StateType /\ s.todo \in Seq(Statements)
      /\ s.firing = {j \in Box : Remembering(j) \in P}
      /\ Counted(s) /\ Switched(s) /\ Remembered(s) /\ Agreeing(s)
      /\ Refills(s.todo) /\ Nested(s.todo) /\ Caused(s.todo)
      /\ EnableOrder(s.todo, On(s), s.available)
  BY DEF Good, StateType
<1>2. /\ P = {op} \cup Q /\ rest \in Seq(Statements)
      /\ Refills(rest) /\ Nested(rest) /\ Caused(rest)
      /\ \A j \in Box : Remembering(j) \in Q => op \in Within(j)
  BY <1>1, TakeOff, TakeOffOrders
<1>3. /\ new \in Seq(Statements) /\ Refills(new) /\ Nested(new) /\ Caused(new)
      /\ Removing(i) \in N /\ AddingFirst(i) \in N /\ AddingRest(i) \in N
      /\ \A x \in N :
           /\ x \in Statements /\ x[2] = i
           /\ x[1] \in {"removeAllItems", "addFirst", "addOthers", "selectIfEnabled"}
  BY <1>1, SwitchList
<1>4. i \in Box /\ i # Action /\ Settings \subseteq Box /\ i \notin Tabs
  BY BoxNumbers DEF Tabs
<1> HIDE DEF new, rest
<1>5. R = N \cup Q
  <2>1. u.todo = new \o rest
    BY DEF new, rest
  <2>2. Pending(new \o rest) = Pending(new) \cup Pending(rest)
    BY <1>2, <1>3, ConcatPending
  <2> QED BY <2>1, <2>2
<1> HIDE DEF P, Q, R, N
<1>6. op[1] = "switch" /\ op[2] = i
  OBVIOUS
<1>7. op = <<"switch", i, b>>
  OBVIOUS
<1> HIDE DEF op
<1>8. \A j \in Box : Remembering(j) \in Q => j = Action
  <2> SUFFICES ASSUME NEW j \in Box, Remembering(j) \in Q PROVE j = Action
    OBVIOUS
  <2>1. op \in Within(j)
    BY <1>2
  <2>2. \A x, y : /\ Remembering(x)[1] = "remember" /\ Choose(x, y)[1] = "select"
                  /\ Removing(x)[1] = "removeAllItems" /\ AddingFirst(x)[1] = "addFirst"
                  /\ AddingRest(x)[1] = "addOthers"
    BY StatementParts
  <2>3. j # Application
    BY <1>6, <2>1, <2>2, WithinBoxes
  <2>4. ASSUME NEW k, op \in {Choose(k, 0), Remembering(k)} PROVE FALSE
    BY <1>6, <2>2, <2>4
  <2>7. j # Repeats /\ j # Adaptive
    <3>1. ASSUME j = Repeats PROVE FALSE
      BY <2>1, <2>4, <3>1, WithinBoxes
    <3>2. ASSUME j = Adaptive PROVE FALSE
      BY <2>1, <2>4, <3>2, WithinBoxes
    <3> QED BY <3>1, <3>2
  <2>5. j # Memory
    BY <1>6, <2>1, <2>2, WithinBoxes
  <2>6. j \notin Sizes
    BY <1>6, <2>1, <2>2, WithinBoxes
  <2> QED BY <2>1, <2>3, <2>5, <2>6, <2>7, WithinBoxes
<1>9. Refills(u.todo) /\ Nested(u.todo) /\ Caused(u.todo)
  <2>1. u.todo = new \o rest
    BY DEF new, rest
  <2>2. Refills(u.todo)
    BY <1>2, <1>3, <2>1, ConcatRefills
  <2>3. \A j \in Box : Remembering(j) \in Pending(rest) => Pending(new) \subseteq Within(j)
    <3> SUFFICES ASSUME NEW j \in Box, Remembering(j) \in Q PROVE N \subseteq Within(j)
      BY DEF N, Q
    <3>1. j = Action
      BY <1>8
    <3>2. \A x \in N : x \in Statements /\ x[2] \in Settings /\ x[1] # "enable"
      BY <1>3
    <3> QED BY <3>1, <3>2, WithinBoxes
  <2>4. Nested(u.todo)
    BY <1>2, <1>3, <2>1, <2>3, ConcatNested
  <2>5. Caused(u.todo)
    BY <1>2, <1>3, <2>1, ConcatCaused
  <2> QED BY <2>2, <2>4, <2>5
<1>10. u.firing = {j \in Box : Remembering(j) \in R}
  <2>1. \A j : Remembering(j) \notin N
    <3>1. \A j, y : Remembering(j)[1] = "remember"
      BY StatementParts
    <3> QED BY <1>3, <3>1
  <2>2. \A j : Remembering(j) # op
    <3>1. \A j, y : Remembering(j)[1] = "remember"
      BY StatementParts
    <3> QED BY <1>6, <3>1
  <2> QED BY <1>1, <1>2, <1>5, <2>1, <2>2
<1>11. \A x \in P : x # op => x \in R
  BY <1>2, <1>5
<1>12. AddingFirst(i) \in R /\ AddingRest(i) \in R
  BY <1>3, <1>5
<1>13. \A j : AddingFirst(j) # op /\ AddingRest(j) # op
  BY <1>6 DEF AddingFirst, AddingRest
<1>14. Counted(u)
  <2> SUFFICES ASSUME NEW j \in Box
               PROVE  /\ u.count[j] \in 0..Values[j + 1]
                      /\ \/ u.count[j] = (IF u.available[j] THEN Values[j + 1] ELSE 1)
                         \/ AddingRest(j) \in R /\ (u.count[j] = 1 \/ AddingFirst(j) \in R)
                      /\ u.sel[j] >= -1
                      /\ AddingFirst(j) \in R \/ u.sel[j] \in 0..(u.count[j] - 1)
    BY DEF Counted, R
  <2>1. /\ s.count[j] \in 0..Values[j + 1]
        /\ \/ s.count[j] = (IF s.available[j] THEN Values[j + 1] ELSE 1)
           \/ AddingRest(j) \in P /\ (s.count[j] = 1 \/ AddingFirst(j) \in P)
        /\ s.sel[j] >= -1
        /\ AddingFirst(j) \in P \/ s.sel[j] \in 0..(s.count[j] - 1)
    BY <1>1 DEF Counted, P
  <2>2. CASE j = i
    BY <1>12, <2>1, <2>2
  <2>3. CASE j # i
    <3>1. u.available[j] <=> s.available[j]
      BY <2>3
    <3>2. (IF u.available[j] THEN Values[j + 1] ELSE 1) = IF s.available[j] THEN Values[j + 1] ELSE 1
      BY <3>1
    <3> QED BY <1>11, <1>13, <2>1, <3>2
  <2> QED BY <2>2, <2>3
<1>15. On(u) <=> On(s)
  BY DEF On
<1>16. b <=> On(s)
  <2>1. <<"switch", i, b>> \in P
    BY <1>2, <1>7
  <2> QED BY <1>1, <2>1 DEF Switched, P
<1>17. Switched(u)
  <2>1. /\ \A j \in Tabs : s.available[j]
        /\ \A j \in Settings : \/ s.available[j] <=> On(s)
                               \/ \E c \in BOOLEAN : <<"switch", j, c>> \in P
        /\ \A j \in Settings : \A c \in BOOLEAN : <<"switch", j, c>> \in P => (c <=> On(s))
        /\ \A j \in Box : s.enabled[j] <=> Functional(s, j)
    BY <1>1 DEF Switched, P
  <2>2. \A j, c : <<"switch", j, c>> \notin N
    BY <1>3
  <2>3. \A j, c : <<"switch", j, c>> \in R => <<"switch", j, c>> \in P
    BY <1>2, <1>5, <2>2
  <2>4. \A j \in Settings : \A c \in BOOLEAN : <<"switch", j, c>> \in R => (c <=> On(u))
    BY <1>15, <2>1, <2>3
  <2>5. ASSUME NEW j \in Settings
        PROVE  (u.available[j] <=> On(u)) \/ \E c \in BOOLEAN : <<"switch", j, c>> \in R
    <3>1. CASE j = i
      BY <1>4, <1>15, <1>16, <3>1
    <3>2. CASE j # i
      <4>1. u.available[j] <=> s.available[j]
        BY <1>4, <3>2
      <4>2. \A c : <<"switch", j, c>> # op
        BY <1>6, <3>2
      <4>3. CASE s.available[j] <=> On(s)
        BY <1>15, <4>1, <4>3
      <4>4. CASE \E c \in BOOLEAN : <<"switch", j, c>> \in P
        BY <1>11, <4>2, <4>4
      <4> QED BY <2>1, <4>3, <4>4
    <3> QED BY <3>1, <3>2
  <2>6. ASSUME NEW j \in Tabs PROVE u.available[j]
    <3>1. j # i /\ j \in Box
      BY <1>4, BoxNumbers DEF Tabs
    <3> QED BY <2>1, <3>1
  <2>7. ASSUME NEW j \in Box PROVE u.enabled[j] <=> Functional(u, j)
    <3>1. CASE j = i
      BY <3>1
    <3>2. CASE j # i
      <4>1. (u.available[j] <=> s.available[j]) /\ (u.enabled[j] <=> s.enabled[j])
        BY <3>2
      <4> QED BY <2>1, <4>1 DEF Functional
    <3> QED BY <3>1, <3>2
  <2> QED BY <2>4, <2>5, <2>6, <2>7 DEF Switched, R
<1>18. Remembered(u)
  <2> SUFFICES ASSUME NEW j \in Box, u.enabled[j]
               PROVE  u.previous[j] = u.sel[j] \/ j \in u.firing \/ AddingFirst(j) \in R
    BY DEF Remembered, R
  <2>1. CASE j = i
    BY <1>12, <2>1
  <2>2. CASE j # i
    <3>1. s.enabled[j]
      BY <2>2
    <3>2. s.previous[j] = s.sel[j] \/ j \in s.firing \/ AddingFirst(j) \in P
      BY <1>1, <3>1 DEF Remembered, P
    <3> QED BY <1>11, <1>13, <3>2
  <2> QED BY <2>1, <2>2
<1>19. EnableOrder(u.todo, On(u), u.available)
  <2>1. OrderSafe(op, new, On(s), s.available, On(u), u.available)
    <3>1. \A x \in N : x[1] # "enable" /\ (x[2] = Action => x = Remembering(Action))
      BY <1>3, <1>4
    <3>2. op # Choose(Action, Benchmarks)
      BY <1>6, StatementParts
    <3>3. ASSUME On(s)
          PROVE  /\ On(u)
                 /\ \A j \in Memory..StepSize :
                      s.available[j] \/ op = <<"switch", j, TRUE>> => u.available[j]
      <4>1. On(u) /\ b
        BY <1>15, <1>16, <3>3
      <4> SUFFICES ASSUME NEW j \in Memory..StepSize, s.available[j] \/ op = <<"switch", j, TRUE>>
                   PROVE  u.available[j]
        BY <4>1
      <4>2. j \in Box
        BY BoxNumbers
      <4>3. CASE j = i
        BY <4>1, <4>2, <4>3
      <4>4. CASE j # i
        <5>1. op # <<"switch", j, TRUE>>
          <6>1. ASSUME op = <<"switch", j, TRUE>> PROVE op[2] = j
            BY <6>1
          <6> QED BY <1>6, <4>4, <6>1
        <5> QED BY <4>2, <4>4, <5>1
      <4> QED BY <4>3, <4>4
    <3> QED BY <3>1, <3>2, <3>3, Zenon DEF OrderSafe, N
  <2>2. OrderSafe(Head(s.todo), new, On(s), s.available, On(u), u.available)
    BY <2>1 DEF op
  <2>3. EnableOrder(new \o Tail(s.todo), On(u), u.available)
    BY <1>1, <1>3, <2>2, OrderKept
  <2>4. u.todo = new \o Tail(s.todo)
    BY DEF new
  <2> QED BY <2>3, <2>4
<1>20. Agreeing(u)
  <2>1. \A x, y : Choose(x, y) \in P => Choose(x, y) \in R
    <3>1. \A x, y : Choose(x, y)[1] = "select"
      BY StatementParts
    <3> QED BY <1>6, <1>11, <3>1
  <2>2. AddingFirst(Memory) \in P => AddingFirst(Memory) \in R
    BY <1>11, <1>13
  <2>3. \A x \in R : x[1] = "selectIfUnset" => x \in P
    BY <1>2, <1>3, <1>5
  <2>4. Agreeing(s)
    BY <1>1
  <2> QED BY <2>1, <2>2, <2>3, <2>4 DEF Agreeing, P, R
<1>21. u.firing = {j \in Box : Remembering(j) \in Pending(u.todo)}
  BY <1>10 DEF R
<1> QED BY <1>9, <1>14, <1>17, <1>18, <1>19, <1>20, <1>21 DEF Good

-----------------------------------------------------------------------------
(* Every turn of the event dispatch thread.                                 *)

\* What a turn leads to: an exception, with nothing left to be done, or what holds between
\* two statements.
Followed(s) == (s.failed /\ s.todo = <<>>) \/ Good(s)

\* The first statement taken off.
LEMMA Popped ==
  ASSUME NEW s \in StateType, s.todo # <<>>, NEW v, v = [s EXCEPT !.todo = Tail(@)]
  PROVE  /\ v \in StateType /\ v.todo = Tail(s.todo) /\ v.sel = s.sel /\ v.count = s.count
         /\ v.enabled = s.enabled /\ v.available = s.available /\ v.previous = s.previous
         /\ v.mode64 = s.mode64 /\ v.firing = s.firing
<1>1. Tail(s.todo) \in Seq(Statements)
  BY DEF StateType
<1>2. PICK t \in Seq(Statements) : t = Tail(s.todo)
  BY <1>1
<1> QED BY <1>2 DEF StateType

\* An item of a box is selected, which fires the event, or is not there.
LEMMA SelectItemKeeps ==
  ASSUME NEW s, Good(s), s.todo # <<>>, NEW i \in Box, NEW k \in Nat,
         Head(s.todo) \in {Choose(i, k), <<"selectIfUnset", i, k>>, <<"selectIfEnabled", i, k>>},
         NEW v, v = [s EXCEPT !.todo = Tail(@)]
  PROVE  Followed(SelectItem(v, i, k))
<1>1. s \in StateType
  BY DEF Good
<1>2. /\ v \in StateType /\ v.todo = Tail(s.todo) /\ v.sel = s.sel /\ v.count = s.count
      /\ v.enabled = s.enabled /\ v.available = s.available /\ v.previous = s.previous
      /\ v.mode64 = s.mode64 /\ v.firing = s.firing
  BY <1>1, Popped
<1>3. CASE k < v.count[i]
  <2> DEFINE u == [v EXCEPT !.sel[i] = k]
  <2>1. SelectItem(v, i, k) = Fire(u, i)
    BY <1>3 DEF SelectItem
  <2>2. PICK c \in Int : c = s.count[i]
    BY <1>1 DEF StateType
  <2>3. s.count = [s.count EXCEPT ![i] = c]
    BY <1>1, <2>2 DEF StateType
  <2>4. /\ u \in StateType /\ u.todo = v.todo /\ u.sel = [v.sel EXCEPT ![i] = k]
        /\ u.count = v.count /\ u.enabled = v.enabled
        /\ u.available = v.available /\ u.previous = v.previous /\ u.mode64 = v.mode64
        /\ u.firing = v.firing
    <3>1. k \in Int
      OBVIOUS
    <3>2. u = [v EXCEPT !.sel = [v.sel EXCEPT ![i] = k]]
      OBVIOUS
    <3>3. [v.sel EXCEPT ![i] = k] \in [Box -> Int]
      BY <1>2, <3>1 DEF StateType
    <3>4. PICK sel \in [Box -> Int] : sel = [v.sel EXCEPT ![i] = k]
      BY <3>3
    <3> QED BY <1>2, <3>2, <3>4 DEF StateType
  <2>5. Selecting(s, Head(s.todo), i, k, c)
    BY <1>2, <1>3, <2>2 DEF Selecting
  <2> HIDE DEF u
  <2>6. /\ u.todo = Tail(s.todo) /\ u.sel = [s.sel EXCEPT ![i] = k]
        /\ u.count = [s.count EXCEPT ![i] = c] /\ u.enabled = s.enabled
        /\ u.available = s.available /\ u.previous = s.previous /\ u.mode64 = s.mode64
        /\ u.firing = s.firing
    BY <1>2, <2>3, <2>4
  <2>7. Good(Fire(u, i))
    BY <2>4, <2>5, <2>6, SelectingKeeps
  <2> QED BY <2>1, <2>7 DEF Followed
<1>4. CASE ~(k < v.count[i])
  <2>1. SelectItem(v, i, k) = Throw(v)
    BY <1>4 DEF SelectItem
  <2>2. Throw(v).failed /\ Throw(v).todo = <<>>
    BY <1>2 DEF Throw, StateType
  <2> QED BY <2>1, <2>2 DEF Followed
<1> QED BY <1>3, <1>4

\* The items of a box are removed, or its first item is added.
LEMMA RefillingKeeps ==
  ASSUME NEW s, Good(s), s.todo # <<>>, NEW i \in Box, NEW k \in Int, NEW c \in Int,
         \/ Head(s.todo) = Removing(i) /\ k = -1 /\ c = 0
         \/ Head(s.todo) = AddingFirst(i) /\ k = 0 /\ c = 1,
         NEW v, v = [s EXCEPT !.todo = Tail(@)]
  PROVE  Followed(Fire([v EXCEPT !.sel[i] = k, !.count[i] = c], i))
<1>1. s \in StateType
  BY DEF Good
<1>2. /\ v \in StateType /\ v.todo = Tail(s.todo) /\ v.sel = s.sel /\ v.count = s.count
      /\ v.enabled = s.enabled /\ v.available = s.available /\ v.previous = s.previous
      /\ v.mode64 = s.mode64 /\ v.firing = s.firing
  BY <1>1, Popped
<1> DEFINE u == [v EXCEPT !.sel[i] = k, !.count[i] = c]
<1>3. /\ u \in StateType /\ u.todo = v.todo /\ u.sel = [v.sel EXCEPT ![i] = k]
      /\ u.count = [v.count EXCEPT ![i] = c] /\ u.enabled = v.enabled
      /\ u.available = v.available /\ u.previous = v.previous /\ u.mode64 = v.mode64
      /\ u.firing = v.firing
  BY <1>2 DEF StateType
<1>4. Selecting(s, Head(s.todo), i, k, c)
  BY DEF Selecting
<1> SUFFICES Followed(Fire(u, i))
  OBVIOUS
<1> HIDE DEF u
<1>5. Good(Fire(u, i))
  BY <1>2, <1>3, <1>4, SelectingKeeps
<1> QED BY <1>5 DEF Followed

\* A box is enabled or disabled only as it is already.
LEMMA EnablingKeeps ==
  ASSUME NEW s, Good(s), s.todo # <<>>, NEW i \in Box, NEW b \in BOOLEAN,
         Head(s.todo) = <<"enable", i, b>>, NEW v, v = [s EXCEPT !.todo = Tail(@)]
  PROVE  Good([v EXCEPT !.enabled[i] = b])
<1>1. s \in StateType /\ s.todo \in Seq(Statements)
      /\ EnableOrder(s.todo, On(s), s.available) /\ Switched(s)
  BY DEF Good, StateType
<1>2. /\ v \in StateType /\ v.todo = Tail(s.todo) /\ v.sel = s.sel /\ v.count = s.count
      /\ v.enabled = s.enabled /\ v.available = s.available /\ v.previous = s.previous
      /\ v.mode64 = s.mode64 /\ v.firing = s.firing
  BY <1>1, Popped
<1>3. 1 \in DOMAIN s.todo /\ s.todo[1] = <<"enable", i, b>> /\ \A m \in DOMAIN s.todo : ~(m < 1)
  BY <1>1, TakeOff
<1>4. /\ b = (i # Test)
      /\ i \in Memory..StepSize => s.available[i]
  BY <1>1, <1>3 DEF EnableOrder
<1>5. b <=> Functional(s, i)
  <2>1. CASE i = Test
    <3>1. ~b
      BY <1>4, <2>1
    <3> QED BY <2>1, <3>1 DEF Functional
  <2>2. CASE i \in Tabs
    <3>1. s.available[i] /\ i # Test
      BY <1>1, <2>2, BoxNumbers DEF Switched, Tabs
    <3> QED BY <1>4, <3>1 DEF Functional
  <2>3. CASE i \in Memory..StepSize
    <3>1. s.available[i] /\ i # Test
      BY <1>4, <2>3, BoxNumbers
    <3> QED BY <1>4, <3>1 DEF Functional
  <2>4. i = Test \/ i \in Tabs \/ i \in Memory..StepSize
    BY BoxNumbers DEF Tabs
  <2> QED BY <2>1, <2>2, <2>3, <2>4
<1>6. s.enabled[i] <=> Functional(s, i)
  BY <1>1 DEF Switched
<1>7. v.enabled \in [Box -> BOOLEAN]
  BY <1>2 DEF StateType
<1>8. v.enabled[i] = b
  BY <1>2, <1>5, <1>6, <1>7
<1>9. [v.enabled EXCEPT ![i] = b] = v.enabled
  BY <1>7, <1>8
<1>10. [v EXCEPT !.enabled[i] = b] = v
  BY <1>2, <1>9 DEF StateType
<1>11. Good(v)
  <2>1. Head(s.todo)[1] = "enable"
    OBVIOUS
  <2> QED BY <1>2, <2>1, NothingKeeps
<1> QED BY <1>10, <1>11

\* A turn of the event dispatch thread.
LEMMA TurnKeeps ==
  ASSUME NEW s, Followed(s)
  PROVE  Followed(Turn(s))
<1>1. CASE s.todo = <<>>
  BY <1>1 DEF Turn
<1>2. CASE s.todo # <<>>
  <2> DEFINE op == Head(s.todo)  v == [s EXCEPT !.todo = Tail(@)]
  <2>1. Good(s) /\ s \in StateType /\ s.todo \in Seq(Statements)
    BY <1>2 DEF Followed, Good, StateType
  <2>2. Turn(s) = Execute(v, op)
    BY <1>2 DEF Turn
  <2>3. op \in Statements
    BY <1>2, <2>1, TakeOff
  <2>4. /\ v \in StateType /\ v.todo = Tail(s.todo) /\ v.sel = s.sel /\ v.count = s.count
        /\ v.enabled = s.enabled /\ v.available = s.available /\ v.previous = s.previous
        /\ v.mode64 = s.mode64 /\ v.firing = s.firing
    BY <1>2, <2>1, Popped
  <2>5. Settings \subseteq Box /\ Sizes \subseteq Box
    BY BoxNumbers
  <2>6. op = Head(s.todo) /\ v = [s EXCEPT !.todo = Tail(@)]
    OBVIOUS
  <2> HIDE DEF op, v
  <2>7. ASSUME op[1] \in {"selectIfUnset", "selectIfEnabled"} PROVE Followed(v)
    <3>1. Good(v)
      BY <1>2, <2>1, <2>4, <2>6, <2>7, NothingKeeps
    <3> QED BY <3>1 DEF Followed
  <2>8. CASE \E i \in Box, k \in Nat : op = Choose(i, k)
    <3>1. PICK i \in Box, k \in Nat : op = Choose(i, k)
      BY <2>8
    <3>2. Execute(v, op) = SelectItem(v, i, k)
      BY <3>1 DEF Execute, Choose
    <3>3. Followed(SelectItem(v, i, k))
      BY <1>2, <2>1, <2>6, <3>1, SelectItemKeeps
    <3> QED BY <2>2, <3>2, <3>3
  <2>9. CASE \E i \in Sizes, k \in Positive : op = <<"selectIfUnset", i, k>>
    <3>1. PICK i \in Sizes, k \in Positive : op = <<"selectIfUnset", i, k>>
      BY <2>9
    <3>2. i \in Box /\ k \in Nat
      BY <2>5 DEF Positive
    <3>3. Execute(v, op) = IF v.sel[i] = 0 THEN SelectItem(v, i, k) ELSE v
      BY <3>1 DEF Execute
    <3>4. Followed(SelectItem(v, i, k))
      BY <1>2, <2>1, <2>6, <3>1, <3>2, SelectItemKeeps
    <3>5. Followed(v)
      BY <2>7, <3>1
    <3> QED BY <2>2, <3>3, <3>4, <3>5
  <2>10. CASE \E i \in Settings, k \in Int : op = <<"selectIfEnabled", i, k>>
    <3>1. PICK i \in Settings, k \in Int : op = <<"selectIfEnabled", i, k>>
      BY <2>10
    <3>2. i \in Box
      BY <2>5
    <3>3. Execute(v, op) = IF v.enabled[i] /\ k >= 0 THEN SelectItem(v, i, k) ELSE v
      BY <3>1 DEF Execute
    <3>4. Followed(v)
      BY <2>7, <3>1
    <3>5. CASE k >= 0
      <4>1. k \in Nat
        BY <3>5
      <4>2. Followed(SelectItem(v, i, k))
        BY <1>2, <2>1, <2>6, <3>1, <3>2, <4>1, SelectItemKeeps
      <4> QED BY <2>2, <3>3, <3>4, <4>2
    <3>6. CASE ~(k >= 0)
      BY <2>2, <3>3, <3>4, <3>6
    <3> QED BY <3>5, <3>6
  <2>11. ASSUME NEW i \in Box, op = Removing(i) PROVE Followed(Execute(v, op))
    <3>1. Execute(v, op) = Fire([v EXCEPT !.sel[i] = -1, !.count[i] = 0], i)
      BY <2>11 DEF Execute, Removing
    <3>2. PICK k \in Int, c \in Int : k = -1 /\ c = 0
      OBVIOUS
    <3>3. Head(s.todo) = Removing(i) /\ k = -1 /\ c = 0
      BY <2>6, <2>11, <3>2
    <3>4. Followed(Fire([v EXCEPT !.sel[i] = k, !.count[i] = c], i))
      BY <1>2, <2>1, <2>6, <3>3, RefillingKeeps
    <3> QED BY <3>1, <3>2, <3>4
  <2>12. ASSUME NEW i \in Box, op = AddingFirst(i) PROVE Followed(Execute(v, op))
    <3>1. Execute(v, op) = Fire([v EXCEPT !.sel[i] = 0, !.count[i] = 1], i)
      BY <2>12 DEF Execute, AddingFirst
    <3>2. PICK k \in Int, c \in Int : k = 0 /\ c = 1
      OBVIOUS
    <3>3. Head(s.todo) = AddingFirst(i) /\ k = 0 /\ c = 1
      BY <2>6, <2>12, <3>2
    <3>4. Followed(Fire([v EXCEPT !.sel[i] = k, !.count[i] = c], i))
      BY <1>2, <2>1, <2>6, <3>3, RefillingKeeps
    <3> QED BY <3>1, <3>2, <3>4
  <2>13. ASSUME NEW i \in Box, op = AddingRest(i) PROVE Followed(Execute(v, op))
    <3> DEFINE u == Execute(v, op)
    <3>1. u = IF v.available[i] THEN [v EXCEPT !.count[i] = Values[i + 1]] ELSE v
      BY <2>13 DEF Execute, AddingRest
    <3>2. Values[i + 1] \in Int
      BY BoxNumbers DEF Values
    <3> HIDE DEF u
    <3>3. /\ u \in StateType /\ u.todo = v.todo /\ u.sel = v.sel /\ u.enabled = v.enabled
          /\ u.available = v.available /\ u.previous = v.previous /\ u.mode64 = v.mode64
          /\ u.firing = v.firing
          /\ u.count = IF v.available[i] THEN [v.count EXCEPT ![i] = Values[i + 1]] ELSE v.count
      <4>1. CASE v.available[i]
        <5>1. u = [v EXCEPT !.count = [v.count EXCEPT ![i] = Values[i + 1]]]
          BY <3>1, <4>1
        <5>2. PICK count \in [Box -> Int] : count = [v.count EXCEPT ![i] = Values[i + 1]]
          BY <2>4, <3>2 DEF StateType
        <5> QED BY <2>4, <4>1, <5>1, <5>2 DEF StateType
      <4>2. CASE ~v.available[i]
        BY <2>4, <3>1, <4>2
      <4> QED BY <4>1, <4>2
    <3>4. /\ u.todo = Tail(s.todo) /\ u.sel = s.sel /\ u.enabled = s.enabled
          /\ u.available = s.available /\ u.previous = s.previous /\ u.mode64 = s.mode64
          /\ u.firing = s.firing
          /\ u.count = IF s.available[i] THEN [s.count EXCEPT ![i] = Values[i + 1]] ELSE s.count
      BY <2>4, <3>3
    <3>5. Head(s.todo) = AddingRest(i)
      BY <2>6, <2>13
    <3>6. Good(u)
      BY <1>2, <2>1, <3>3, <3>4, <3>5, AddingRestKeeps
    <3> QED BY <3>6 DEF Followed, u
  <2>14. ASSUME NEW i \in Box, op = Remembering(i) PROVE Followed(Execute(v, op))
    <3> DEFINE u == Execute(v, op)  w == Remember(v, i)
    <3>1. u = [w EXCEPT !.firing = @ \ {i}]
      BY <2>14 DEF Execute, Remembering
    <3>2. w = IF v.enabled[i] /\ v.sel[i] >= 0 THEN [v EXCEPT !.previous[i] = v.sel[i]] ELSE v
      BY DEF Remember
    <3> HIDE DEF u, w
    <3>3. /\ w \in StateType /\ w.todo = v.todo /\ w.sel = v.sel /\ w.enabled = v.enabled
          /\ w.available = v.available /\ w.count = v.count /\ w.mode64 = v.mode64
          /\ w.firing = v.firing
          /\ w.previous = IF v.enabled[i] /\ v.sel[i] >= 0
                          THEN [v.previous EXCEPT ![i] = v.sel[i]] ELSE v.previous
      <4>1. CASE v.enabled[i] /\ v.sel[i] >= 0
        <5>1. w = [v EXCEPT !.previous = [v.previous EXCEPT ![i] = v.sel[i]]]
          BY <3>2, <4>1
        <5>2. PICK previous \in [Box -> Int] : previous = [v.previous EXCEPT ![i] = v.sel[i]]
          BY <2>4 DEF StateType
        <5> QED BY <2>4, <4>1, <5>1, <5>2 DEF StateType
      <4>2. CASE ~(v.enabled[i] /\ v.sel[i] >= 0)
        BY <2>4, <3>2, <4>2
      <4> QED BY <4>1, <4>2
    <3>4. /\ u \in StateType /\ u.todo = w.todo /\ u.sel = w.sel /\ u.enabled = w.enabled
          /\ u.available = w.available /\ u.count = w.count /\ u.mode64 = w.mode64
          /\ u.firing = w.firing \ {i} /\ u.previous = w.previous
      BY <3>1, <3>3 DEF StateType
    <3>5. /\ u.todo = Tail(s.todo) /\ u.sel = s.sel /\ u.enabled = s.enabled
          /\ u.available = s.available /\ u.count = s.count /\ u.mode64 = s.mode64
          /\ u.firing = s.firing \ {i}
          /\ u.previous = IF s.enabled[i] /\ s.sel[i] >= 0
                          THEN [s.previous EXCEPT ![i] = s.sel[i]] ELSE s.previous
      BY <2>4, <3>3, <3>4
    <3>6. Head(s.todo) = Remembering(i)
      BY <2>6, <2>14
    <3>7. Good(u)
      BY <1>2, <2>1, <3>4, <3>5, <3>6, RememberingKeeps
    <3> QED BY <3>7 DEF Followed, u
  <2>15. CASE \E i \in Settings, b \in BOOLEAN : op = <<"switch", i, b>>
    <3>1. PICK i \in Settings, b \in BOOLEAN : op = <<"switch", i, b>>
      BY <2>15
    <3> DEFINE u == Execute(v, op)  r == [v EXCEPT !.available[i] = b]
               list == Switching(s, i)
               q == [r EXCEPT !.enabled[i] = Functional(r, i)]
    <3>2. i \in Box
      BY <2>5
    <3>3. v.previous[i] = s.previous[i] /\ v.enabled[i] = s.enabled[i]
      BY <2>4
    <3>4. u = Do(q, list)
      <4>1. u = Switch(v, i, b)
        BY <3>1 DEF Execute
      <4> QED BY <3>3, <4>1 DEF Switch, Switching
    <3>5. /\ r \in StateType /\ r.todo = v.todo /\ r.sel = v.sel /\ r.enabled = v.enabled
          /\ r.available = [v.available EXCEPT ![i] = b] /\ r.count = v.count
          /\ r.mode64 = v.mode64 /\ r.firing = v.firing /\ r.previous = v.previous
      <4>1. PICK av \in [Box -> BOOLEAN] : av = [v.available EXCEPT ![i] = b]
        BY <2>4 DEF StateType
      <4>2. r = [v EXCEPT !.available = av]
        BY <4>1
      <4> QED BY <2>4, <4>1, <4>2 DEF StateType
    <3>6. PICK f \in BOOLEAN : f = Functional(r, i)
      <4>1. r.available[i] \in BOOLEAN
        BY <3>2, <3>5 DEF StateType
      <4>2. Functional(r, i) \in BOOLEAN
        BY <4>1, Zenon DEF Functional
      <4> QED BY <4>2
    <3> HIDE DEF r
    <3>7. /\ q \in StateType /\ q.todo = r.todo /\ q.sel = r.sel /\ q.available = r.available
          /\ q.enabled = [r.enabled EXCEPT ![i] = f] /\ q.count = r.count
          /\ q.mode64 = r.mode64 /\ q.firing = r.firing /\ q.previous = r.previous
      <4>1. PICK en \in [Box -> BOOLEAN] : en = [r.enabled EXCEPT ![i] = f]
        BY <3>5 DEF StateType
      <4>2. q = [r EXCEPT !.enabled = en]
        BY <3>6, <4>1
      <4> QED BY <3>5, <4>1, <4>2 DEF StateType
    <3> HIDE DEF q, list, u
    <3>8. list \in Seq(Statements)
      BY <2>1, SwitchList DEF list
    <3>9. /\ u \in StateType /\ SameBoxes(q, u) /\ u.mode64 = q.mode64
          /\ u.firing = q.firing /\ u.todo = list \o q.todo
      BY <3>4, <3>7, <3>8, DoDoes
    <3>10. /\ u.todo = Switching(s, i) \o Tail(s.todo) /\ u.sel = s.sel /\ u.count = s.count
           /\ u.previous = s.previous /\ u.mode64 = s.mode64 /\ u.firing = s.firing
      BY <2>4, <3>5, <3>7, <3>9 DEF SameBoxes, list
    <3>11. /\ u.available = [s.available EXCEPT ![i] = b]
           /\ u.enabled = [s.enabled EXCEPT ![i] = f]
      BY <2>4, <3>5, <3>7, <3>9 DEF SameBoxes
    <3>12. f <=> Functional(u, i)
      BY <3>6, <3>7, <3>9 DEF Functional, SameBoxes
    <3>13. ASSUME NEW j \in Box
           PROVE  /\ u.available[j] <=> IF j = i THEN b ELSE s.available[j]
                  /\ u.enabled[j] <=> IF j = i THEN Functional(u, j) ELSE s.enabled[j]
      <4>1. s.available \in [Box -> BOOLEAN] /\ s.enabled \in [Box -> BOOLEAN]
        BY <2>1 DEF StateType
      <4>2. CASE j = i
        <5>1. u.available[j] = b /\ u.enabled[j] = f
          BY <3>2, <3>11, <4>1, <4>2
        <5> QED BY <3>12, <4>2, <5>1
      <4>3. CASE j # i
        <5>1. u.available[j] = s.available[j] /\ u.enabled[j] = s.enabled[j]
          BY <3>11, <4>1, <4>3
        <5> QED BY <4>3, <5>1
      <4> QED BY <4>2, <4>3
    <3>14. Good(u)
      BY <1>2, <2>1, <2>6, <3>1, <3>9, <3>10, <3>13, SwitchKeeps
    <3> QED BY <2>2, <3>14 DEF Followed, u
  <2>16. CASE \E i \in Box, b \in BOOLEAN : op = <<"enable", i, b>>
    <3>1. PICK i \in Box, b \in BOOLEAN : op = <<"enable", i, b>>
      BY <2>16
    <3>2. Execute(v, op) = [v EXCEPT !.enabled[i] = b]
      BY <3>1 DEF Execute
    <3>3. Good([v EXCEPT !.enabled[i] = b])
      BY <1>2, <2>1, <2>6, <3>1, EnablingKeeps
    <3> QED BY <2>2, <3>2, <3>3 DEF Followed
  <2>17. CASE \E i \in Box : op \in {Removing(i), AddingFirst(i), AddingRest(i), Remembering(i)}
    BY <2>2, <2>11, <2>12, <2>13, <2>14, <2>17
  <2> QED BY <2>3, <2>8, <2>9, <2>10, <2>15, <2>16, <2>17, StatementShape
<1> QED BY <1>1, <1>2

\* Every non-empty set of numbers has a least one.
LEMMA NatMin ==
  ASSUME NEW T, T \subseteq Nat, T # {}
  PROVE  \E x \in T : \A y \in T : x <= y
<1> DEFINE R == OpToRel(<, Nat)
<1>1. IsWellFoundedOn(R, Nat)
  BY NatLessThanWellFounded
<1>2. \A x, y \in Nat : x < y => <<x, y>> \in R
  BY DEF OpToRel
<1> HIDE DEF R
<1>3. PICK x \in T : \A y \in T : ~ (<<y, x>> \in R)
  BY <1>1, WFMin
<1>4. ASSUME NEW y \in T PROVE x <= y
  <2>1. x \in Nat /\ y \in Nat
    OBVIOUS
  <2>2. ~(y < x)
    BY <1>2, <1>3, <2>1, Zenon
  <2> QED BY <2>1, <2>2
<1> QED BY <1>4

\* Induction over the numbers, for a set instead of a formula.
LEMMA SetInduction ==
  ASSUME NEW S, 0 \in S, \A n \in Nat : n \in S => n + 1 \in S
  PROVE  Nat \subseteq S
<1> DEFINE T == Nat \ S
<1>1. SUFFICES ASSUME T # {} PROVE FALSE
  OBVIOUS
<1>2. PICK x \in T : \A y \in T : x <= y
  <2>1. T \subseteq Nat
    OBVIOUS
  <2> HIDE DEF T
  <2> QED BY <1>1, <2>1, NatMin
<1>3. x - 1 \in Nat /\ (x - 1) + 1 = x
  <2>1. x \in Nat /\ x # 0
    OBVIOUS
  <2> QED BY <2>1
<1>4. x - 1 \in T
  BY <1>3
<1> QED BY <1>2, <1>3, <1>4

\* A round as a function, which exists.
LEMMA TurnsIsLoop ==
  ASSUME NEW s
  PROVE  \E f : /\ f = [n \in 0..Most |-> IF n = 0 THEN s ELSE Turn(f[n - 1])]
                /\ Turns(s) = f[Most]
<1> DEFINE Loop(m, f) == f = [n \in 0..m |-> IF n = 0 THEN s ELSE Turn(f[n - 1])]
           S == {m \in Nat : \E f : Loop(m, f)}
<1>1. 0 \in S
  <2>1. Loop(0, [n \in 0..0 |-> s])
    OBVIOUS
  <2> QED BY <2>1
<1>2. ASSUME NEW m \in Nat, m \in S PROVE m + 1 \in S
  <2>1. PICK f : Loop(m, f)
    BY <1>2
  <2> DEFINE g == [n \in 0..(m + 1) |-> IF n = m + 1 THEN Turn(f[m]) ELSE f[n]]
  <2>2. ASSUME NEW n \in 0..(m + 1)
        PROVE  g[n] = IF n = 0 THEN s ELSE Turn(g[n - 1])
    <3>1. CASE n = m + 1
      <4>1. g[m + 1] = Turn(f[m]) /\ g[m] = f[m]
        OBVIOUS
      <4> HIDE DEF g
      <4> QED BY <3>1, <4>1
    <3>2. CASE n = 0
      BY <2>1, <3>2
    <3>3. CASE n \in 1..m
      <4>1. g[n] = f[n] /\ g[n - 1] = f[n - 1] /\ n # 0
        BY <3>3
      <4>2. f[n] = Turn(f[n - 1])
        BY <2>1, <3>3
      <4> HIDE DEF g
      <4> QED BY <4>1, <4>2
    <3> QED BY <3>1, <3>2, <3>3
  <2>3. Loop(m + 1, g)
    <3>1. g = [n \in 0..(m + 1) |-> g[n]]
      OBVIOUS
    <3> HIDE DEF g
    <3> QED BY <2>2, <3>1
  <2>4. \E h : Loop(m + 1, h)
    <3> HIDE DEF g, Loop
    <3> QED BY <2>3
  <2>5. m + 1 \in Nat
    OBVIOUS
  <2> HIDE DEF Loop
  <2> QED BY <2>4, <2>5
<1>3. Nat \subseteq S
  <2> HIDE DEF S
  <2> QED BY <1>1, <1>2, SetInduction
<1>4. Most \in Nat
  BY DEF Most
<1>5. PICK f0 : Loop(Most, f0)
  BY <1>3, <1>4
<1> DEFINE F == CHOOSE f : f = [n \in 0..Most |-> IF n = 0 THEN s ELSE Turn(f[n - 1])]
<1>6. F = [n \in 0..Most |-> IF n = 0 THEN s ELSE Turn(F[n - 1])]
  <2>1. \E f : f = [n \in 0..Most |-> IF n = 0 THEN s ELSE Turn(f[n - 1])]
    BY <1>5
  <2> QED BY <2>1
<1>7. Turns(s) = F[Most]
  BY DEF Turns
<1> HIDE DEF F
<1> QED BY <1>6, <1>7

\* The rounds as a function, which exists.
LEMMA DoneIsLoop ==
  ASSUME NEW s
  PROVE  \E f : /\ f = [n \in 0..Most |-> IF n = 0 THEN s ELSE Round(f[n - 1])]
                /\ Done(s) = IF f[Most].todo = <<>> THEN f[Most] ELSE Throw(f[Most])
<1> DEFINE Loop(m, f) == f = [n \in 0..m |-> IF n = 0 THEN s ELSE Round(f[n - 1])]
           S == {m \in Nat : \E f : Loop(m, f)}
<1>1. 0 \in S
  <2>1. Loop(0, [n \in 0..0 |-> s])
    OBVIOUS
  <2> QED BY <2>1
<1>2. ASSUME NEW m \in Nat, m \in S PROVE m + 1 \in S
  <2>1. PICK f : Loop(m, f)
    BY <1>2
  <2> DEFINE g == [n \in 0..(m + 1) |-> IF n = m + 1 THEN Round(f[m]) ELSE f[n]]
  <2>2. ASSUME NEW n \in 0..(m + 1)
        PROVE  g[n] = IF n = 0 THEN s ELSE Round(g[n - 1])
    <3>1. CASE n = m + 1
      <4>1. g[m + 1] = Round(f[m]) /\ g[m] = f[m]
        OBVIOUS
      <4> HIDE DEF g
      <4> QED BY <3>1, <4>1
    <3>2. CASE n = 0
      BY <2>1, <3>2
    <3>3. CASE n \in 1..m
      <4>1. g[n] = f[n] /\ g[n - 1] = f[n - 1] /\ n # 0
        BY <3>3
      <4>2. f[n] = Round(f[n - 1])
        BY <2>1, <3>3
      <4> HIDE DEF g
      <4> QED BY <4>1, <4>2
    <3> QED BY <3>1, <3>2, <3>3
  <2>3. Loop(m + 1, g)
    <3>1. g = [n \in 0..(m + 1) |-> g[n]]
      OBVIOUS
    <3> HIDE DEF g
    <3> QED BY <2>2, <3>1
  <2>4. \E h : Loop(m + 1, h)
    <3> HIDE DEF g, Loop
    <3> QED BY <2>3
  <2>5. m + 1 \in Nat
    OBVIOUS
  <2> HIDE DEF Loop
  <2> QED BY <2>4, <2>5
<1>3. Nat \subseteq S
  <2> HIDE DEF S
  <2> QED BY <1>1, <1>2, SetInduction
<1>4. Most \in Nat
  BY DEF Most
<1>5. PICK f0 : Loop(Most, f0)
  BY <1>3, <1>4
<1> DEFINE F == CHOOSE f : f = [n \in 0..Most |-> IF n = 0 THEN s ELSE Round(f[n - 1])]
<1>6. F = [n \in 0..Most |-> IF n = 0 THEN s ELSE Round(F[n - 1])]
  <2>1. \E f : f = [n \in 0..Most |-> IF n = 0 THEN s ELSE Round(f[n - 1])]
    BY <1>5
  <2> QED BY <2>1
<1>7. Done(s) = IF F[Most].todo = <<>> THEN F[Most] ELSE Throw(F[Most])
  BY DEF Done
<1> HIDE DEF F
<1> QED BY <1>6, <1>7

\* A round of turns.
LEMMA TurnsKeep ==
  ASSUME NEW s, Followed(s)
  PROVE  Followed(Turns(s))
<1>1. PICK f : /\ f = [n \in 0..Most |-> IF n = 0 THEN s ELSE Turn(f[n - 1])]
               /\ Turns(s) = f[Most]
  BY TurnsIsLoop
<1>2. Most \in Nat
  BY DEF Most
<1> DEFINE S == {n \in Nat : n <= Most => Followed(f[n])}
<1>3. 0 \in S
  <2>1. f[0] = s
    BY <1>1, <1>2
  <2> QED BY <2>1
<1>4. ASSUME NEW n \in Nat, n \in S PROVE n + 1 \in S
  <2>1. CASE n + 1 <= Most
    <3>1. f[n + 1] = Turn(f[n])
      <4>1. n + 1 \in 0..Most /\ n + 1 # 0 /\ (n + 1) - 1 = n
        BY <1>2, <2>1
      <4> QED BY <1>1, <4>1
    <3>2. Followed(f[n])
      BY <1>2, <1>4, <2>1
    <3>3. PICK r : r = f[n]
      OBVIOUS
    <3>4. Followed(Turn(r))
      BY <3>2, <3>3, TurnKeeps
    <3> QED BY <3>1, <3>3, <3>4
  <2> QED BY <2>1
<1>5. Most \in S
  <2> HIDE DEF S
  <2> QED BY <1>2, <1>3, <1>4, SetInduction
<1> QED BY <1>1, <1>5

\* All that the event dispatch thread does at once: nothing is left to be done then.
LEMMA DoneKeeps ==
  ASSUME NEW s, Followed(s)
  PROVE  Followed(Done(s)) /\ Done(s).todo = <<>>
<1>1. PICK f : /\ f = [n \in 0..Most |-> IF n = 0 THEN s ELSE Round(f[n - 1])]
               /\ Done(s) = IF f[Most].todo = <<>> THEN f[Most] ELSE Throw(f[Most])
  BY DoneIsLoop
<1>2. Most \in Nat
  BY DEF Most
<1> DEFINE S == {n \in Nat : n <= Most => Followed(f[n])}
<1>3. 0 \in S
  <2>1. f[0] = s
    BY <1>1, <1>2
  <2> QED BY <2>1
<1>4. ASSUME NEW n \in Nat, n \in S PROVE n + 1 \in S
  <2>1. CASE n + 1 <= Most
    <3>1. f[n + 1] = Round(f[n])
      <4>1. n + 1 \in 0..Most /\ n + 1 # 0 /\ (n + 1) - 1 = n
        BY <1>2, <2>1
      <4> QED BY <1>1, <4>1
    <3>2. Followed(f[n])
      BY <1>2, <1>4, <2>1
    <3>3. PICK r : r = f[n]
      OBVIOUS
    <3>4. Followed(Round(r))
      BY <3>2, <3>3, TurnsKeep DEF Round
    <3> QED BY <3>1, <3>3, <3>4
  <2> QED BY <2>1
<1>5. Most \in S
  <2> HIDE DEF S
  <2> QED BY <1>2, <1>3, <1>4, SetInduction
<1>6. PICK t : t = f[Most] /\ Followed(t)
  BY <1>2, <1>5
<1>7. CASE t.todo = <<>>
  BY <1>1, <1>6, <1>7
<1>8. CASE t.todo # <<>>
  <2>1. t \in StateType
    BY <1>6, <1>8 DEF Followed, Good
  <2>2. Throw(t).failed /\ Throw(t).todo = <<>>
    BY <2>1 DEF Throw, StateType
  <2> QED BY <1>1, <1>6, <1>8, <2>2 DEF Followed
<1> QED BY <1>7, <1>8

-----------------------------------------------------------------------------
(* Where the event dispatch thread starts.                                  *)

\* A concatenation of lists as a function, which exists.
LEMMA FlattenIsLoop ==
  ASSUME NEW seqs, Len(seqs) \in Nat \ {0}
  PROVE  \E f : /\ f = [n \in 1..Len(seqs) |-> IF n = 1 THEN seqs[n] ELSE f[n - 1] \o seqs[n]]
                /\ FlattenSeq(seqs) = f[Len(seqs)]
<1> DEFINE Loop(m, f) == f = [n \in 1..m |-> IF n = 1 THEN seqs[n] ELSE f[n - 1] \o seqs[n]]
           S == {m \in Nat : \E f : Loop(m, f)}
<1>1. 0 \in S
  <2>1. Loop(0, [n \in 1..0 |-> seqs])
    OBVIOUS
  <2> QED BY <2>1
<1>2. ASSUME NEW m \in Nat, m \in S PROVE m + 1 \in S
  <2>1. PICK f : Loop(m, f)
    BY <1>2
  <2> DEFINE g == [n \in 1..(m + 1) |-> IF n = m + 1
                                        THEN IF n = 1 THEN seqs[n] ELSE f[m] \o seqs[m + 1]
                                        ELSE f[n]]
  <2>2. ASSUME NEW n \in 1..(m + 1)
        PROVE  g[n] = IF n = 1 THEN seqs[n] ELSE g[n - 1] \o seqs[n]
    <3>1. CASE n = m + 1 /\ n # 1
      <4>1. m \in 1..(m + 1) /\ m + 1 \in 1..(m + 1) /\ m # m + 1 /\ m + 1 # 1
        BY <3>1
      <4>2. g[m + 1] = f[m] \o seqs[m + 1]
        BY <4>1
      <4>3. g[m] = f[m]
        BY <4>1
      <4>4. n - 1 = m
        BY <3>1
      <4> HIDE DEF g
      <4> QED BY <3>1, <4>2, <4>3, <4>4
    <3>2. CASE n = 1 /\ m = 0
      BY <3>2
    <3>3. CASE n = 1 /\ m # 0
      <4>1. g[n] = f[n] /\ n \in 1..m
        BY <3>3
      <4> HIDE DEF g
      <4> QED BY <2>1, <3>3, <4>1
    <3>4. CASE n \in 2..m
      <4>1. g[n] = f[n] /\ g[n - 1] = f[n - 1] /\ n # 1 /\ n \in 1..m
        BY <3>4
      <4>2. f[n] = f[n - 1] \o seqs[n]
        BY <2>1, <4>1
      <4> HIDE DEF g
      <4> QED BY <4>1, <4>2
    <3> QED BY <3>1, <3>2, <3>3, <3>4
  <2>3. Loop(m + 1, g)
    <3>1. g = [n \in 1..(m + 1) |-> g[n]]
      OBVIOUS
    <3> HIDE DEF g
    <3> QED BY <2>2, <3>1
  <2>4. \E h : Loop(m + 1, h)
    <3> HIDE DEF g, Loop
    <3> QED BY <2>3
  <2>5. m + 1 \in Nat
    OBVIOUS
  <2> HIDE DEF Loop
  <2> QED BY <2>4, <2>5
<1>3. Nat \subseteq S
  <2> HIDE DEF S
  <2> QED BY <1>1, <1>2, SetInduction
<1>4. PICK f0 : Loop(Len(seqs), f0)
  BY <1>3
<1> DEFINE F == CHOOSE f : f = [n \in 1..Len(seqs) |->
                                IF n = 1 THEN seqs[n] ELSE f[n - 1] \o seqs[n]]
<1>5. F = [n \in 1..Len(seqs) |-> IF n = 1 THEN seqs[n] ELSE F[n - 1] \o seqs[n]]
  <2>1. \E f : f = [n \in 1..Len(seqs) |-> IF n = 1 THEN seqs[n] ELSE f[n - 1] \o seqs[n]]
    BY <1>4
  <2> QED BY <2>1
<1>6. FlattenSeq(seqs) = F[Len(seqs)]
  BY DEF FlattenSeq
<1> HIDE DEF F
<1> QED BY <1>5, <1>6

\* One list after the other, as the statements for the boxes are put together.
LEMMA FlattenSteps ==
  ASSUME NEW seqs, seqs \in [1..14 -> Seq(Statements)],
         NEW S, <<1, seqs[1]>> \in S,
         \A n \in 1..13 : \A l \in Seq(Statements) :
           <<n, l>> \in S => <<n + 1, l \o seqs[n + 1]>> \in S
  PROVE  FlattenSeq(seqs) \in Seq(Statements) /\ <<14, FlattenSeq(seqs)>> \in S
<1>1. Len(seqs) = 14
  <2>1. ASSUME NEW T, NEW q \in [1..14 -> T] PROVE Len(q) = 14
    <3>1. [1..14 -> T] \in {[1..n -> T] : n \in Nat}
      OBVIOUS
    <3>2. q \in Seq(T)
      BY <3>1, SeqDef
    <3>3. DOMAIN q = 1..Len(q) /\ Len(q) \in Nat
      BY <3>2, LenProperties
    <3>4. DOMAIN q = 1..14
      OBVIOUS
    <3> QED BY <3>3, <3>4
  <2> QED BY <2>1
<1>2. PICK f : /\ f = [n \in 1..14 |-> IF n = 1 THEN seqs[n] ELSE f[n - 1] \o seqs[n]]
               /\ FlattenSeq(seqs) = f[14]
  <2>1. Len(seqs) \in Nat \ {0}
    BY <1>1
  <2>2. PICK f : /\ f = [n \in 1..Len(seqs) |-> IF n = 1 THEN seqs[n] ELSE f[n - 1] \o seqs[n]]
                 /\ FlattenSeq(seqs) = f[Len(seqs)]
    BY <2>1, FlattenIsLoop
  <2> QED BY <1>1, <2>2
<1> DEFINE T == {n \in Nat : n < 14 => f[n + 1] \in Seq(Statements) /\ <<n + 1, f[n + 1]>> \in S}
<1>3. 0 \in T
  <2>1. f[1] = seqs[1]
    BY <1>2
  <2>2. seqs[1] \in Seq(Statements)
    OBVIOUS
  <2>3. f[1] \in Seq(Statements) /\ <<1, f[1]>> \in S
    BY <2>1, <2>2
  <2> QED BY <2>3
<1>4. ASSUME NEW n \in Nat, n \in T PROVE n + 1 \in T
  <2>1. CASE n + 1 < 14
    <3>1. PICK k \in 1..13 : k = n + 1
      BY <2>1
    <3>2. f[k + 1] = f[k] \o seqs[k + 1]
      <4>1. k + 1 \in 1..14 /\ k + 1 # 1 /\ (k + 1) - 1 = k
        BY <3>1
      <4> QED BY <1>2, <4>1
    <3>3. f[k] \in Seq(Statements) /\ <<k, f[k]>> \in S
      BY <1>4, <2>1, <3>1
    <3>4. seqs[k + 1] \in Seq(Statements)
      <4>1. k + 1 \in 1..14
        BY <3>1
      <4> QED BY <4>1
    <3>5. f[k] \o seqs[k + 1] \in Seq(Statements)
      BY <3>3, <3>4, Concat
    <3>6. <<k + 1, f[k] \o seqs[k + 1]>> \in S
      BY <3>3
    <3>7. f[(n + 1) + 1] \in Seq(Statements) /\ <<(n + 1) + 1, f[(n + 1) + 1]>> \in S
      BY <3>1, <3>2, <3>5, <3>6
    <3> QED BY <3>7
  <2> QED BY <2>1
<1>5. 13 \in T
  <2> HIDE DEF T
  <2>1. Nat \subseteq T
    BY <1>3, <1>4, SetInduction
  <2> QED BY <2>1
<1> QED BY <1>2, <1>5

\* Statements put before an empty list.
LEMMA DoAlone ==
  ASSUME NEW s \in StateType, s.todo = <<>>, NEW list \in Seq(Statements)
  PROVE  /\ Do(s, list) \in StateType /\ SameBoxes(s, Do(s, list))
         /\ Do(s, list).mode64 = s.mode64 /\ Do(s, list).firing = s.firing
         /\ Do(s, list).todo = list
<1>1. list \o <<>> = list
  OBVIOUS
<1> QED BY <1>1, DoDoes

\* Selections and enabled boxes, in their order, are an act of the user when no handler runs.
LEMMA ActStarts ==
  ASSUME NEW s, Good(s), s.todo = <<>>, NEW list \in Seq(Statements),
         \A x \in Pending(list) : x[1] \in {"select", "enable"},
         EnableOrder(list, On(s), s.available)
  PROVE  Good(Do(s, list))
<1> DEFINE u == Do(s, list)  Q == Pending(list)
<1>1. /\ s \in StateType /\ s.firing = {i \in Box : Remembering(i) \in Pending(<<>>)}
      /\ Counted(s) /\ Switched(s) /\ Remembered(s) /\ Agreeing(s)
  BY DEF Good
<1>2. /\ u \in StateType /\ SameBoxes(s, u) /\ u.mode64 = s.mode64 /\ u.firing = s.firing
      /\ u.todo = list
  BY <1>1, DoAlone
<1>3. Pending(<<>>) = {} /\ Pending(s.todo) = {}
  BY DEF Pending
<1>4. Refills(list) /\ Nested(list)
  BY PlainList
<1>5. Caused(list)
  <2>1. \A n \in DOMAIN list : list[n][1] \in {"select", "enable"}
    BY DEF Pending
  <2> QED BY <2>1 DEF Caused
<1>6. \A x, b : /\ Remembering(x) \notin Q /\ AddingFirst(x) \notin Q /\ AddingRest(x) \notin Q
                /\ <<"switch", x, b>> \notin Q
  <2>1. \A x, b : /\ Remembering(x)[1] = "remember" /\ AddingFirst(x)[1] = "addFirst"
                  /\ AddingRest(x)[1] = "addOthers" /\ <<"switch", x, b>>[1] = "switch"
    BY DEF Remembering, AddingFirst, AddingRest
  <2> QED BY <2>1
<1> HIDE DEF u, Q
<1>7. Counted(u)
  BY <1>1, <1>2, <1>3 DEF Counted, SameBoxes
<1>8. u.firing = {i \in Box : Remembering(i) \in Pending(u.todo)}
  BY <1>1, <1>2, <1>3, <1>6 DEF Q
<1>9. On(u) <=> On(s)
  BY <1>2 DEF On, SameBoxes
<1>10. Switched(u)
  <2>1. /\ \A i \in Tabs : s.available[i]
        /\ \A i \in Settings : s.available[i] <=> On(s)
        /\ \A i \in Box : s.enabled[i] <=> Functional(s, i)
    BY <1>1, <1>3 DEF Switched
  <2>2. \A i \in Box : u.enabled[i] <=> Functional(u, i)
    BY <1>2, <2>1 DEF Functional, SameBoxes
  <2>3. \A i \in Settings : u.available[i] <=> On(u)
    BY <1>2, <1>9, <2>1 DEF SameBoxes
  <2>4. \A i \in Tabs : u.available[i]
    BY <1>2, <2>1 DEF SameBoxes
  <2> QED BY <1>2, <1>6, <2>2, <2>3, <2>4 DEF Switched, Q
<1>11. Remembered(u)
  BY <1>1, <1>2, <1>3 DEF Remembered, SameBoxes
<1>12. EnableOrder(u.todo, On(u), u.available)
  <2>1. u.available = s.available
    BY <1>2 DEF SameBoxes
  <2>2. On(u) = On(s)
    BY <1>2 DEF On, SameBoxes
  <2> QED BY <1>2, <2>1, <2>2
<1>13. Agreeing(u)
  <2>1. \A x \in Pending(u.todo) : x[1] # "selectIfUnset"
    BY <1>2 DEF Q
  <2> QED BY <1>1, <1>2, <1>3, <2>1 DEF Agreeing, SameBoxes
<1>14. Refills(u.todo) /\ Nested(u.todo) /\ Caused(u.todo)
  BY <1>2, <1>4, <1>5
<1>15. Good(u)
  BY <1>2, <1>7, <1>8, <1>10, <1>11, <1>12, <1>13, <1>14 DEF Good
<1> QED BY <1>15 DEF u

\* Boxes enabled after Action has been set to Benchmarks.
LEMMA ConcatOrder ==
  ASSUME NEW a \in Seq(Statements), NEW b \in Seq(Statements), NEW on, NEW available,
         EnableOrder(a, on, available),
         \A op \in Pending(a) \cup Pending(b) : op[2] = Action =>
           op \in {Choose(Action, Benchmarks), Remembering(Action), <<"enable", Action, TRUE>>},
         \A i \in Box, c \in BOOLEAN : <<"enable", i, c>> \in Pending(b) =>
           /\ c = (i # Test)
           /\ i \in Memory..StepSize => Choose(Action, Benchmarks) \in Pending(a)
  PROVE  EnableOrder(a \o b, on, available)
<1> DEFINE t == a \o b
<1>1. /\ DOMAIN a = 1..Len(a) /\ Len(a) \in Nat /\ DOMAIN t \subseteq Int
      /\ \A n \in DOMAIN a : n \in DOMAIN t /\ t[n] = a[n]
      /\ Pending(t) = Pending(a) \cup Pending(b)
      /\ \A n \in DOMAIN t : \/ n \in DOMAIN a /\ t[n] = a[n]
                             \/ /\ n > Len(a) /\ n - Len(a) \in DOMAIN b
                                /\ t[n] = b[n - Len(a)]
  <2>1. /\ DOMAIN a = 1..Len(a) /\ Len(a) \in Nat /\ Len(b) \in Nat
        /\ DOMAIN t = 1..(Len(a) + Len(b))
        /\ \A n \in DOMAIN a : t[n] = a[n]
    BY Concat
  <2>2. Pending(t) = Pending(a) \cup Pending(b)
    BY ConcatPending
  <2>3. \A n \in DOMAIN t : \/ n \in DOMAIN a /\ t[n] = a[n]
                            \/ /\ n > Len(a) /\ n - Len(a) \in DOMAIN b
                               /\ t[n] = b[n - Len(a)]
    BY Place
  <2> HIDE DEF t
  <2>4. DOMAIN t \subseteq Int /\ \A n \in DOMAIN a : n \in DOMAIN t
    BY <2>1
  <2> QED BY <2>1, <2>2, <2>3, <2>4
<1> SUFFICES EnableOrder(t, on, available)
  OBVIOUS
<1> HIDE DEF t
<1>2. SUFFICES ASSUME NEW n \in DOMAIN t, NEW i \in Box, NEW c \in BOOLEAN,
                      t[n] = <<"enable", i, c>>
      PROVE  /\ c = (i # Test)
             /\ i \in Memory..StepSize =>
                /\ \/ on /\ (available[i] \/
                             \E m \in DOMAIN t : m < n /\ t[m] = <<"switch", i, TRUE>>)
                   \/ \E m \in DOMAIN t : m < n /\ t[m] = Choose(Action, Benchmarks)
                /\ \A op \in Pending(t) : op[2] = Action =>
                     op \in {Choose(Action, Benchmarks), Remembering(Action),
                             <<"enable", Action, TRUE>>}
  BY DEF EnableOrder
<1>3. CASE n \in DOMAIN a /\ t[n] = a[n]
  <2>1. a[n] = <<"enable", i, c>>
    BY <1>2, <1>3
  <2>2. /\ c = (i # Test)
        /\ i \in Memory..StepSize =>
           \/ on /\ (available[i] \/
                     \E m \in DOMAIN a : m < n /\ a[m] = <<"switch", i, TRUE>>)
           \/ \E m \in DOMAIN a : m < n /\ a[m] = Choose(Action, Benchmarks)
    BY <1>3, <2>1 DEF EnableOrder
  <2>3. ASSUME NEW x, \E m \in DOMAIN a : m < n /\ a[m] = x
        PROVE  \E m \in DOMAIN t : m < n /\ t[m] = x
    <3>1. PICK m \in DOMAIN a : m < n /\ a[m] = x
      BY <2>3
    <3>2. m \in DOMAIN t /\ t[m] = x
      BY <1>1, <3>1
    <3> QED BY <3>1, <3>2
  <2>4. (\E m \in DOMAIN a : m < n /\ a[m] = <<"switch", i, TRUE>>) =>
          \E m \in DOMAIN t : m < n /\ t[m] = <<"switch", i, TRUE>>
    BY <2>3
  <2>5. (\E m \in DOMAIN a : m < n /\ a[m] = Choose(Action, Benchmarks)) =>
          \E m \in DOMAIN t : m < n /\ t[m] = Choose(Action, Benchmarks)
    BY <2>3
  <2>6. \A op \in Pending(t) : op[2] = Action =>
          op \in {Choose(Action, Benchmarks), Remembering(Action), <<"enable", Action, TRUE>>}
    BY <1>1
  <2> QED BY <2>2, <2>4, <2>5, <2>6
<1>4. CASE /\ n > Len(a) /\ n - Len(a) \in DOMAIN b
           /\ t[n] = b[n - Len(a)]
  <2>1. <<"enable", i, c>> \in Pending(b)
    BY <1>2, <1>4 DEF Pending
  <2>2. Choose(Action, Benchmarks) \in Pending(a) =>
          \E m \in DOMAIN t : m < n /\ t[m] = Choose(Action, Benchmarks)
    <3> SUFFICES ASSUME Choose(Action, Benchmarks) \in Pending(a)
                 PROVE  \E m \in DOMAIN t : m < n /\ t[m] = Choose(Action, Benchmarks)
      OBVIOUS
    <3>1. PICK m \in DOMAIN a : a[m] = Choose(Action, Benchmarks)
      BY DEF Pending
    <3>2. m \in DOMAIN t /\ t[m] = a[m] /\ m < n
      BY <1>1, <1>4, <3>1
    <3> QED BY <3>1, <3>2
  <2>3. \A op \in Pending(t) : op[2] = Action =>
          op \in {Choose(Action, Benchmarks), Remembering(Action), <<"enable", Action, TRUE>>}
    BY <1>1
  <2> QED BY <2>1, <2>2, <2>3
<1> QED BY <1>1, <1>3, <1>4

\* The defaults of a box.
LEMMA DefaultList ==
  ASSUME NEW i \in Box
  PROVE  /\ Default(i) \in Seq(Statements)
         /\ Pending(Default(i)) = {Choose(i, DefaultItem(i)), <<"enable", i, i # Test>>}
         /\ DefaultItem(i) \in Nat /\ DefaultItem(i) < Values[i + 1]
         /\ i = Action => DefaultItem(i) = Benchmarks
<1> USE BoxNumbers
<1>1. /\ DefaultItem(i) \in Nat /\ DefaultItem(i) < Values[i + 1]
      /\ i = Action => DefaultItem(i) = Benchmarks
  BY DEF DefaultItem, DefaultSelection, Values
<1>2. PICK b \in BOOLEAN : b = (i # Test)
  OBVIOUS
<1>3. Default(i) = <<Choose(i, DefaultItem(i)), <<"enable", i, b>>>>
  BY <1>2 DEF Default
<1>4. Choose(i, DefaultItem(i)) \in Statements /\ <<"enable", i, b>> \in Statements
  BY <1>1, StatementKinds
<1>5. PICK x \in Statements, y \in Statements :
        x = Choose(i, DefaultItem(i)) /\ y = <<"enable", i, b>>
  BY <1>4
<1>6. Default(i) = <<x, y>>
  BY <1>3, <1>5
<1>7. <<x, y>> \in Seq(Statements) /\ Pending(<<x, y>>) = {x, y}
  BY DEF Pending
<1> QED BY <1>1, <1>2, <1>5, <1>6, <1>7

\* The list of the Defaults button.
Defaults == FlattenSeq([n \in 1..14 |-> Default(n - 1)])

\* Every box is given its first or its own item, and Action is set to Benchmarks
\* before a box is enabled that needs it.
LEMMA DefaultsList ==
  ASSUME NEW on, NEW available
  PROVE  /\ Defaults \in Seq(Statements)
         /\ \A x \in Pending(Defaults) : x[1] \in {"select", "enable"}
         /\ EnableOrder(Defaults, on, available)
<1> USE BoxNumbers
<1> DEFINE seqs == [n \in 1..14 |-> Default(n - 1)]
           Ready(n, l) ==
             /\ \A x \in Pending(l) : /\ x[1] \in {"select", "enable"}
                                      /\ x[2] = Action => x \in {Choose(Action, Benchmarks),
                                                                 <<"enable", Action, TRUE>>}
             /\ n >= 2 => Choose(Action, Benchmarks) \in Pending(l)
             /\ EnableOrder(l, on, available)
           S == {p \in (1..14) \X Seq(Statements) : Ready(p[1], p[2])}
<1>1. ASSUME NEW i \in Box
      PROVE  /\ \A x \in Pending(Default(i)) :
                  /\ x[1] \in {"select", "enable"} /\ x[2] = i
                  /\ i = Action => x \in {Choose(Action, Benchmarks), <<"enable", Action, TRUE>>}
             /\ \A j, c : <<"enable", j, c>> \in Pending(Default(i)) => j = i /\ c = (i # Test)
             /\ i = Action => Choose(Action, Benchmarks) \in Pending(Default(i))
  <2>1. /\ Pending(Default(i)) = {Choose(i, DefaultItem(i)), <<"enable", i, i # Test>>}
        /\ i = Action => DefaultItem(i) = Benchmarks
    BY DefaultList
  <2>2. \A y : Choose(i, y)[1] = "select" /\ Choose(i, y)[2] = i
    BY StatementParts
  <2>3. \A x \in Pending(Default(i)) : x[1] \in {"select", "enable"} /\ x[2] = i
    BY <2>1, <2>2
  <2>4. \A j, c : <<"enable", j, c>> # Choose(i, DefaultItem(i))
    BY DEF Choose
  <2>5. \A j, c : <<"enable", j, c>> \in Pending(Default(i)) => j = i /\ c = (i # Test)
    BY <2>1, <2>4
  <2>6. ASSUME i = Action
        PROVE  /\ \A x \in Pending(Default(i)) :
                    x \in {Choose(Action, Benchmarks), <<"enable", Action, TRUE>>}
               /\ Choose(Action, Benchmarks) \in Pending(Default(i))
    <3>1. (i # Test) = TRUE
      BY <2>6
    <3>2. Pending(Default(i)) = {Choose(Action, Benchmarks), <<"enable", Action, TRUE>>}
      BY <2>1, <2>6, <3>1
    <3> QED BY <3>2
  <2> QED BY <2>3, <2>5, <2>6
<1>2. seqs \in [1..14 -> Seq(Statements)]
  <2> SUFFICES ASSUME NEW n \in 1..14 PROVE Default(n - 1) \in Seq(Statements)
    OBVIOUS
  <2>1. n - 1 \in Box
    OBVIOUS
  <2> QED BY <2>1, DefaultList
<1>3. <<1, seqs[1]>> \in S
  <2>1. seqs[1] = Default(0) /\ 0 \in Box
    OBVIOUS
  <2>2. PICK l \in Seq(Statements) : l = Default(0)
    BY <2>1, DefaultList
  <2>3. \A x \in Pending(l) : /\ x[1] \in {"select", "enable"} /\ x[2] # Action
    BY <1>1, <2>1, <2>2
  <2>4. EnableOrder(l, on, available)
    <3>1. ASSUME NEW n \in DOMAIN l, NEW i \in Box, NEW b \in BOOLEAN, l[n] = <<"enable", i, b>>
          PROVE  b = (i # Test) /\ i \notin Memory..StepSize
      <4>1. <<"enable", i, b>> \in Pending(l)
        BY <3>1 DEF Pending
      <4>2. i = 0 /\ b = (0 # Test)
        BY <1>1, <2>1, <2>2, <4>1
      <4> QED BY <4>2
    <3> QED BY <3>1 DEF EnableOrder
  <2>5. Ready(1, l)
    <3>1. \A x \in Pending(l) : /\ x[1] \in {"select", "enable"}
                                /\ x[2] = Action => x \in {Choose(Action, Benchmarks),
                                                           <<"enable", Action, TRUE>>}
      BY <2>3
    <3>2. ~(1 >= 2)
      OBVIOUS
    <3> QED BY <2>4, <3>1, <3>2
  <2> HIDE DEF Ready
  <2> QED BY <2>1, <2>2, <2>5
<1>4. ASSUME NEW n \in 1..13, NEW l \in Seq(Statements), <<n, l>> \in S
      PROVE  <<n + 1, l \o seqs[n + 1]>> \in S
  <2>1. Ready(n, l)
    <3> HIDE DEF Ready
    <3> QED BY <1>4
  <2>2. n + 1 \in 1..14 /\ n \in Box /\ seqs[n + 1] = Default(n) /\ n # 0
    OBVIOUS
  <2>3. PICK d \in Seq(Statements) : d = Default(n)
    BY <2>2, DefaultList
  <2>4. l \o d \in Seq(Statements) /\ Pending(l \o d) = Pending(l) \cup Pending(d)
    BY Concat, ConcatPending
  <2>5. \A x \in Pending(d) : /\ x[1] \in {"select", "enable"}
                              /\ x[2] = Action => x \in {Choose(Action, Benchmarks),
                                                         <<"enable", Action, TRUE>>}
    BY <1>1, <2>2, <2>3
  <2>6. n + 1 >= 2 => Choose(Action, Benchmarks) \in Pending(l \o d)
    <3>1. CASE n = Action
      BY <1>1, <2>2, <2>3, <2>4, <3>1
    <3>2. CASE n # Action
      <4>1. n >= 2
        BY <3>2
      <4> QED BY <2>1, <2>4, <4>1
    <3> QED BY <3>1, <3>2
  <2>7. EnableOrder(l \o d, on, available)
    <3>1. \A op \in Pending(l) \cup Pending(d) : op[2] = Action =>
            op \in {Choose(Action, Benchmarks), Remembering(Action), <<"enable", Action, TRUE>>}
      BY <2>1, <2>5
    <3>2. ASSUME NEW i \in Box, NEW c \in BOOLEAN, <<"enable", i, c>> \in Pending(d)
          PROVE  /\ c = (i # Test)
                 /\ i \in Memory..StepSize => Choose(Action, Benchmarks) \in Pending(l)
      <4>1. i = n /\ c = (i # Test)
        BY <1>1, <2>2, <2>3, <3>2
      <4>2. i \in Memory..StepSize => n >= 2
        BY <4>1
      <4> QED BY <2>1, <4>1, <4>2
    <3>3. \A i \in Box, c \in BOOLEAN : <<"enable", i, c>> \in Pending(d) =>
             /\ c = (i # Test)
             /\ i \in Memory..StepSize => Choose(Action, Benchmarks) \in Pending(l)
      BY <3>2
    <3>4. EnableOrder(l, on, available)
      BY <2>1
    <3> QED BY <3>1, <3>3, <3>4, ConcatOrder
  <2>8. Ready(n + 1, l \o d)
    BY <2>1, <2>4, <2>5, <2>6, <2>7
  <2> HIDE DEF Ready, seqs
  <2> QED BY <2>2, <2>3, <2>4, <2>8
<1>5. FlattenSeq(seqs) \in Seq(Statements) /\ <<14, FlattenSeq(seqs)>> \in S
  <2> HIDE DEF seqs, S
  <2> QED BY <1>2, <1>3, <1>4, FlattenSteps
<1>6. Ready(14, FlattenSeq(seqs))
  <2> HIDE DEF Ready, seqs
  <2> QED BY <1>5
<1>7. Defaults = FlattenSeq(seqs)
  BY DEF Defaults
<1> HIDE DEF seqs
<1> QED BY <1>5, <1>6, <1>7

\* What fills a box again.
LEMMA FillAgainList ==
  ASSUME NEW i \in Box
  PROVE  /\ FillAgain(i) \in Seq(Statements) /\ Refills(FillAgain(i))
         /\ AddingFirst(i) \in Pending(FillAgain(i)) /\ AddingRest(i) \in Pending(FillAgain(i))
         /\ \A x \in Pending(FillAgain(i)) :
              /\ x[1] \in {"removeAllItems", "addFirst", "addOthers", "select", "enable"}
              /\ x[1] = "enable" => x = <<"enable", Test, FALSE>>
<1> USE BoxNumbers
<1> DEFINE a == Refill(i)
           b == IF DefaultSelection(i) >= 0 THEN <<Choose(i, DefaultSelection(i))>> ELSE <<>>
           c == IF i = Test THEN <<<<"enable", i, FALSE>>>> ELSE <<>>
<1>1. FillAgain(i) = (a \o b) \o c
  BY DEF FillAgain
<1>2. /\ Removing(i)[1] = "removeAllItems" /\ AddingFirst(i)[1] = "addFirst"
      /\ AddingRest(i)[1] = "addOthers"
  BY DEF Removing, AddingFirst, AddingRest
<1>3. /\ a \in Seq(Statements) /\ Refills(a)
      /\ Pending(a) = {Removing(i), AddingFirst(i), AddingRest(i)}
  <2>1. a = <<Removing(i), AddingFirst(i), AddingRest(i)>>
    BY DEF Refill, Removing, AddingFirst, AddingRest
  <2>2. /\ Removing(i) \in Statements /\ AddingFirst(i) \in Statements
        /\ AddingRest(i) \in Statements
    BY StatementKinds
  <2> HIDE DEF a
  <2>3. a \in Seq(Statements) /\ DOMAIN a = 1..3
        /\ Pending(a) = {Removing(i), AddingFirst(i), AddingRest(i)}
    BY <2>1, <2>2 DEF Pending
  <2>4. Refills(a)
    BY <2>1, <2>3 DEF Refills, Removing, AddingFirst, AddingRest
  <2> QED BY <2>3, <2>4
<1>4. /\ b \in Seq(Statements) /\ \A x \in Pending(b) : x[1] = "select"
  <2>1. CASE DefaultSelection(i) >= 0
    <3>1. DefaultSelection(i) \in Nat
      BY <2>1 DEF DefaultSelection
    <3>2. Choose(i, DefaultSelection(i)) \in Statements
      BY <3>1, StatementKinds
    <3>3. PICK x \in Statements : x = Choose(i, DefaultSelection(i))
      BY <3>2
    <3>4. b = <<x>> /\ x[1] = "select"
      BY <2>1, <3>3, StatementParts
    <3> HIDE DEF b
    <3> QED BY <3>4 DEF Pending
  <2>2. CASE ~(DefaultSelection(i) >= 0)
    BY <2>2 DEF Pending
  <2> QED BY <2>1, <2>2
<1>5. /\ c \in Seq(Statements) /\ \A x \in Pending(c) : x = <<"enable", Test, FALSE>>
  <2>1. CASE i = Test
    <3>1. PICK d \in BOOLEAN : d = FALSE
      OBVIOUS
    <3>2. PICK x \in Statements : x = <<"enable", Test, d>>
      <4>1. <<"enable", i, d>> \in Statements
        BY StatementKinds
      <4> QED BY <2>1, <4>1
    <3>3. c = <<x>>
      BY <2>1, <3>1, <3>2
    <3>4. <<x>> \in Seq(Statements) /\ Pending(<<x>>) = {x}
      BY DEF Pending
    <3> HIDE DEF c
    <3> QED BY <3>1, <3>2, <3>3, <3>4
  <2>2. CASE i # Test
    BY <2>2 DEF Pending
  <2> QED BY <2>1, <2>2
<1> HIDE DEF a, b, c
<1>6. ASSUME NEW l \in Seq(Statements),
             \A x \in Pending(l) : x[1] \notin {"removeAllItems", "addFirst", "remember"}
      PROVE  Refills(l)
  BY <1>6, PlainList
<1>7. Refills(b) /\ Refills(c)
  <2>1. Refills(b)
    BY <1>4, <1>6
  <2>2. <<"enable", Test, FALSE>>[1] = "enable"
    OBVIOUS
  <2>3. \A x \in Pending(c) : x[1] = "enable"
    BY <1>5, <2>2
  <2>4. Refills(c)
    BY <1>5, <1>6, <2>3
  <2> QED BY <2>1, <2>4
<1>8. /\ a \o b \in Seq(Statements) /\ Refills(a \o b)
      /\ Pending(a \o b) = Pending(a) \cup Pending(b)
  BY <1>3, <1>4, <1>7, Concat, ConcatPending, ConcatRefills
<1>9. PICK d \in Seq(Statements) : d = a \o b
  BY <1>8
<1>10. /\ d \o c \in Seq(Statements) /\ Refills(d \o c)
       /\ Pending(d \o c) = Pending(d) \cup Pending(c)
  BY <1>5, <1>7, <1>8, <1>9, Concat, ConcatPending, ConcatRefills
<1>11. /\ FillAgain(i) \in Seq(Statements) /\ Refills(FillAgain(i))
       /\ Pending(FillAgain(i)) = (Pending(a) \cup Pending(b)) \cup Pending(c)
  BY <1>1, <1>8, <1>9, <1>10
<1>12. ASSUME NEW x \in Pending(FillAgain(i))
       PROVE  /\ x[1] \in {"removeAllItems", "addFirst", "addOthers", "select", "enable"}
              /\ x[1] = "enable" => x = <<"enable", Test, FALSE>>
  <2>1. CASE x \in Pending(a)
    BY <1>2, <1>3, <2>1
  <2>2. CASE x \in Pending(b)
    BY <1>4, <2>2
  <2>3. CASE x \in Pending(c)
    <3>1. x = <<"enable", Test, FALSE>>
      BY <1>5, <2>3
    <3>2. <<"enable", Test, FALSE>>[1] = "enable"
      OBVIOUS
    <3>3. x[1] = "enable"
      BY <3>1, <3>2
    <3> QED BY <3>1, <3>3
  <2> QED BY <1>11, <2>1, <2>2, <2>3
<1> QED BY <1>3, <1>11, <1>12

\* The list of the second filling.
SecondFilling == FlattenSeq([n \in 1..14 |-> FillAgain(n - 1)])

\* It fills every box, and enables none.
LEMMA SecondFillingList ==
  /\ SecondFilling \in Seq(Statements) /\ Refills(SecondFilling)
  /\ \A i \in Box : AddingFirst(i) \in Pending(SecondFilling)
  /\ \A x \in Pending(SecondFilling) :
       /\ x[1] \in {"removeAllItems", "addFirst", "addOthers", "select", "enable"}
       /\ x[1] = "enable" => x = <<"enable", Test, FALSE>>
<1> USE BoxNumbers
<1> DEFINE seqs == [n \in 1..14 |-> FillAgain(n - 1)]
           Ready(n, l) ==
             /\ Refills(l)
             /\ \A i \in 0..(n - 1) : AddingFirst(i) \in Pending(l)
             /\ \A x \in Pending(l) :
                  /\ x[1] \in {"removeAllItems", "addFirst", "addOthers", "select", "enable"}
                  /\ x[1] = "enable" => x = <<"enable", Test, FALSE>>
           S == {p \in (1..14) \X Seq(Statements) : Ready(p[1], p[2])}
<1>2. seqs \in [1..14 -> Seq(Statements)]
  <2> SUFFICES ASSUME NEW n \in 1..14 PROVE FillAgain(n - 1) \in Seq(Statements)
    OBVIOUS
  <2>1. n - 1 \in Box
    OBVIOUS
  <2> QED BY <2>1, FillAgainList
<1>3. <<1, seqs[1]>> \in S
  <2>1. seqs[1] = FillAgain(0) /\ 0 \in Box
    OBVIOUS
  <2>2. PICK l \in Seq(Statements) : l = FillAgain(0)
    BY <2>1, FillAgainList
  <2>3. /\ Refills(l) /\ AddingFirst(0) \in Pending(l)
        /\ \A x \in Pending(l) :
             /\ x[1] \in {"removeAllItems", "addFirst", "addOthers", "select", "enable"}
             /\ x[1] = "enable" => x = <<"enable", Test, FALSE>>
    BY <2>1, <2>2, FillAgainList
  <2>4. \A i \in 0..(1 - 1) : AddingFirst(i) \in Pending(l)
    BY <2>3
  <2>5. Ready(1, l)
    BY <2>3, <2>4
  <2> HIDE DEF Ready
  <2> QED BY <2>1, <2>2, <2>5
<1>4. ASSUME NEW n \in 1..13, NEW l \in Seq(Statements), <<n, l>> \in S
      PROVE  <<n + 1, l \o seqs[n + 1]>> \in S
  <2>1. Ready(n, l)
    <3> HIDE DEF Ready
    <3> QED BY <1>4
  <2>2. n + 1 \in 1..14 /\ n \in Box /\ seqs[n + 1] = FillAgain(n)
    OBVIOUS
  <2>3. PICK d \in Seq(Statements) : d = FillAgain(n)
    BY <2>2, FillAgainList
  <2>4. /\ Refills(d) /\ AddingFirst(n) \in Pending(d)
        /\ \A x \in Pending(d) :
             /\ x[1] \in {"removeAllItems", "addFirst", "addOthers", "select", "enable"}
             /\ x[1] = "enable" => x = <<"enable", Test, FALSE>>
    BY <2>2, <2>3, FillAgainList
  <2>5. /\ l \o d \in Seq(Statements) /\ Pending(l \o d) = Pending(l) \cup Pending(d)
    BY Concat, ConcatPending
  <2>6. Refills(l \o d)
    BY <2>1, <2>4, ConcatRefills
  <2>7. \A i \in 0..((n + 1) - 1) : AddingFirst(i) \in Pending(l \o d)
    <3> SUFFICES ASSUME NEW i \in 0..((n + 1) - 1) PROVE AddingFirst(i) \in Pending(l \o d)
      OBVIOUS
    <3>1. i = n \/ i \in 0..(n - 1)
      OBVIOUS
    <3> QED BY <2>1, <2>4, <2>5, <3>1
  <2>8. Ready(n + 1, l \o d)
    BY <2>1, <2>4, <2>5, <2>6, <2>7
  <2> HIDE DEF Ready, seqs
  <2> QED BY <2>2, <2>3, <2>5, <2>8
<1>5. FlattenSeq(seqs) \in Seq(Statements) /\ <<14, FlattenSeq(seqs)>> \in S
  <2> HIDE DEF seqs, S
  <2> QED BY <1>2, <1>3, <1>4, FlattenSteps
<1>6. Ready(14, FlattenSeq(seqs))
  <2> HIDE DEF Ready, seqs
  <2> QED BY <1>5
<1>7. SecondFilling = FlattenSeq(seqs)
  BY DEF SecondFilling
<1>8. /\ Refills(FlattenSeq(seqs))
      /\ \A i \in 0..(14 - 1) : AddingFirst(i) \in Pending(FlattenSeq(seqs))
      /\ \A x \in Pending(FlattenSeq(seqs)) :
           /\ x[1] \in {"removeAllItems", "addFirst", "addOthers", "select", "enable"}
           /\ x[1] = "enable" => x = <<"enable", Test, FALSE>>
  <2> HIDE DEF seqs
  <2> QED BY <1>6
<1>9. Box = 0..(14 - 1)
  OBVIOUS
<1> HIDE DEF seqs
<1>10. \A i \in Box : AddingFirst(i) \in Pending(SecondFilling)
  BY <1>7, <1>8, <1>9
<1>11. /\ Refills(SecondFilling)
       /\ \A x \in Pending(SecondFilling) :
            /\ x[1] \in {"removeAllItems", "addFirst", "addOthers", "select", "enable"}
            /\ x[1] = "enable" => x = <<"enable", Test, FALSE>>
  BY <1>7, <1>8
<1> QED BY <1>5, <1>7, <1>10, <1>11

\* The boxes as they are constructed, about to be filled again.
LEMMA ConstructionStarts == Good(Do(Constructed, SecondFilling))
<1> USE BoxNumbers
<1> DEFINE c == Constructed  list == SecondFilling  u == Do(c, list)  Q == Pending(list)
<1>1. /\ c.sel = [i \in Box |-> DefaultItem(i)] /\ c.count = [i \in Box |-> Values[i + 1]]
      /\ c.enabled = [i \in Box |-> i # Test] /\ c.available = [i \in Box |-> TRUE]
      /\ c.previous = [i \in Box |-> DefaultSelection(i)] /\ c.mode64 = TRUE
      /\ c.firing = {} /\ c.todo = <<>>
  BY DEF Constructed
<1>2. \A i \in Box : /\ DefaultItem(i) \in Nat /\ DefaultItem(i) < Values[i + 1]
                     /\ DefaultSelection(i) \in Int /\ Values[i + 1] \in Nat
  <2> SUFFICES ASSUME NEW i \in Box
               PROVE  /\ DefaultItem(i) \in Nat /\ DefaultItem(i) < Values[i + 1]
                      /\ DefaultSelection(i) \in Int /\ Values[i + 1] \in Nat
    OBVIOUS
  <2>1. DefaultItem(i) \in Nat /\ DefaultItem(i) < Values[i + 1]
    BY DefaultList
  <2> QED BY <2>1 DEF DefaultSelection, Values
<1>3. c \in StateType
  <2>1. [i \in Box |-> DefaultItem(i)] \in [Box -> Int]
    BY <1>2
  <2>2. [i \in Box |-> Values[i + 1]] \in [Box -> Int]
    BY <1>2
  <2>3. [i \in Box |-> DefaultSelection(i)] \in [Box -> Int]
    BY <1>2
  <2>4. /\ [i \in Box |-> i # Test] \in [Box -> BOOLEAN]
        /\ [i \in Box |-> TRUE] \in [Box -> BOOLEAN]
    OBVIOUS
  <2>7. PICK sel \in [Box -> Int], count \in [Box -> Int], previous \in [Box -> Int] :
          /\ sel = [i \in Box |-> DefaultItem(i)] /\ count = [i \in Box |-> Values[i + 1]]
          /\ previous = [i \in Box |-> DefaultSelection(i)]
    BY <2>1, <2>2, <2>3
  <2>8. PICK enabled \in [Box -> BOOLEAN], available \in [Box -> BOOLEAN] :
          /\ enabled = [i \in Box |-> i # Test] /\ available = [i \in Box |-> TRUE]
    BY <2>4
  <2>6. c = [sel |-> sel, count |-> count, enabled |-> enabled, available |-> available,
             previous |-> previous, mode64 |-> TRUE, firing |-> {}, todo |-> <<>>,
             failed |-> FALSE]
    BY <2>7, <2>8 DEF Constructed
  <2> HIDE DEF c
  <2> QED BY <2>6 DEF StateType
<1>4. /\ list \in Seq(Statements) /\ Refills(list)
      /\ \A i \in Box : AddingFirst(i) \in Q
      /\ \A x \in Q :
           /\ x[1] \in {"removeAllItems", "addFirst", "addOthers", "select", "enable"}
           /\ x[1] = "enable" => x = <<"enable", Test, FALSE>>
  BY SecondFillingList
<1> HIDE DEF c, list
<1>5. /\ u \in StateType /\ SameBoxes(c, u) /\ u.mode64 = c.mode64 /\ u.firing = c.firing
      /\ u.todo = list
  BY <1>1, <1>3, <1>4, DoAlone
<1> HIDE DEF u, Q
<1>6. /\ u.sel = c.sel /\ u.count = c.count /\ u.enabled = c.enabled
      /\ u.available = c.available /\ u.previous = c.previous
  BY <1>5 DEF SameBoxes
<1>7. \A x, b : Remembering(x) \notin Q /\ <<"switch", x, b>> \notin Q
  <2>1. \A x, b : Remembering(x)[1] = "remember" /\ <<"switch", x, b>>[1] = "switch"
    BY DEF Remembering
  <2> QED BY <1>4, <2>1
<1>8. Nested(list)
  <2>1. \A n \in DOMAIN list : \A i : list[n] # Remembering(i)
    BY <1>7 DEF Q, Pending
  <2> QED BY <2>1 DEF Nested
<1>9. Caused(list)
  <2>1. \A n \in DOMAIN list : list[n] \in Q
    BY DEF Q, Pending
  <2> QED BY <1>4, <2>1 DEF Caused
<1>10. Counted(u)
  <2> SUFFICES ASSUME NEW i \in Box
               PROVE  /\ u.count[i] \in 0..Values[i + 1]
                      /\ u.count[i] = (IF u.available[i] THEN Values[i + 1] ELSE 1)
                      /\ u.sel[i] >= -1 /\ u.sel[i] \in 0..(u.count[i] - 1)
    BY DEF Counted
  <2>1. u.count[i] = Values[i + 1] /\ u.available[i] = TRUE /\ u.sel[i] = DefaultItem(i)
    BY <1>1, <1>6
  <2> QED BY <1>2, <2>1
<1>11. On(u)
  <2>1. DefaultItem(Action) = 2
    BY DEF DefaultItem, DefaultSelection
  <2> QED BY <1>1, <1>6, <2>1 DEF On
<1>12. Switched(u)
  <2>1. \A i \in Box : u.available[i] = TRUE /\ u.enabled[i] = (i # Test)
    BY <1>1, <1>6
  <2>2. \A i \in Box : u.enabled[i] <=> Functional(u, i)
    BY <2>1 DEF Functional
  <2>3. Tabs \subseteq Box /\ Settings \subseteq Box
    BY DEF Tabs
  <2>4. \A i \in Settings : \A b \in BOOLEAN : <<"switch", i, b>> \notin Pending(u.todo)
    BY <1>5, <1>7 DEF Q
  <2> QED BY <1>11, <2>1, <2>2, <2>3, <2>4 DEF Switched
<1>13. Remembered(u)
  BY <1>4, <1>5 DEF Remembered, Q
<1>14. EnableOrder(u.todo, On(u), u.available)
  <2> SUFFICES ASSUME NEW n \in DOMAIN u.todo, NEW i \in Box, NEW b \in BOOLEAN,
                      u.todo[n] = <<"enable", i, b>>
               PROVE  b = (i # Test) /\ i \notin Memory..StepSize
    BY DEF EnableOrder
  <2>1. <<"enable", i, b>> \in Q
    BY <1>5 DEF Q, Pending
  <2>2. <<"enable", i, b>> = <<"enable", Test, FALSE>>
    BY <1>4, <2>1
  <2>3. i = Test /\ b = FALSE
    BY <2>2
  <2> QED BY <2>3
<1>15. Agreeing(u)
  <2>1. u.mode64 = TRUE /\ u.sel[Application] = 1 /\ u.sel[Repeats] = 0
        /\ \A i \in Sizes : u.sel[i] = 0
    BY <1>1, <1>5, <1>6 DEF DefaultItem, DefaultSelection
  <2>2. \A x \in Pending(u.todo) : x[1] # "selectIfUnset"
    BY <1>4, <1>5 DEF Q
  <2> QED BY <2>1, <2>2 DEF Agreeing
<1>16. u.firing = {i \in Box : Remembering(i) \in Pending(u.todo)}
  BY <1>1, <1>5, <1>7 DEF Q
<1>17. Good(u)
  BY <1>4, <1>5, <1>8, <1>9, <1>10, <1>12, <1>13, <1>14, <1>15, <1>16 DEF Good
<1> QED BY <1>17 DEF u, c, list

-----------------------------------------------------------------------------
(* When no handler runs.                                                    *)

\* Nothing is left to be done.
Settled(s) == Good(s) /\ s.todo = <<>>

\* What holds between two statements says of the boxes when none is left.
LEMMA SettledAgrees ==
  ASSUME NEW s, Settled(s)
  PROVE  /\ (\E i \in Sizes : s.sel[i] > 0) => s.sel[Memory] = Custom
         /\ s.sel[Repeats] = 0 \/ s.sel[Adaptive] = 0
         /\ s.mode64 <=> (s.sel[Application] = 1)
         /\ s.firing = {} /\ s \in StateType
         /\ \A i \in Box :
              /\ s.count[i] = (IF On(s) \/ i \in {Application, Action} THEN Values[i + 1] ELSE 1)
              /\ s.sel[i] \in 0..(s.count[i] - 1)
              /\ s.available[i] <=> (i \in {Application, Action} \/ On(s))
              /\ s.enabled[i] <=> Functional(s, i)
              /\ s.enabled[i] => s.previous[i] = s.sel[i]
<1> USE BoxNumbers
<1>1. /\ s \in StateType /\ s.firing = {i \in Box : Remembering(i) \in Pending(s.todo)}
      /\ Counted(s) /\ Switched(s) /\ Remembered(s) /\ Agreeing(s)
  BY DEF Settled, Good
<1>2. Pending(s.todo) = {}
  BY DEF Settled, Pending
<1>3. s.firing = {}
  BY <1>1, <1>2
<1>4. /\ \A i \in Tabs : s.available[i]
      /\ \A i \in Settings : s.available[i] <=> On(s)
      /\ \A i \in Box : s.enabled[i] <=> Functional(s, i)
  BY <1>1, <1>2 DEF Switched
<1>5. ASSUME NEW i \in Box
      PROVE  s.available[i] <=> (i \in {Application, Action} \/ On(s))
  <2>1. CASE i \in Tabs
    BY <1>4, <2>1 DEF Tabs
  <2>2. CASE i \in Settings
    BY <1>4, <2>2
  <2>3. i \in Tabs \/ i \in Settings
    BY DEF Tabs
  <2> QED BY <2>1, <2>2, <2>3
<1>6. ASSUME NEW i \in Box
      PROVE  /\ s.count[i] = (IF s.available[i] THEN Values[i + 1] ELSE 1)
             /\ s.sel[i] \in 0..(s.count[i] - 1)
  BY <1>1, <1>2 DEF Counted
<1>7. ASSUME NEW i \in Box
      PROVE  s.count[i] = (IF On(s) \/ i \in {Application, Action} THEN Values[i + 1] ELSE 1)
  BY <1>5, <1>6
<1>8. ASSUME NEW i \in Box, s.enabled[i] PROVE s.previous[i] = s.sel[i]
  BY <1>1, <1>2, <1>3, <1>8 DEF Remembered
<1>9. \A i \in Box : s.sel[i] \in Nat
  <2> SUFFICES ASSUME NEW i \in Box PROVE s.sel[i] \in Nat
    OBVIOUS
  <2>1. s.sel[i] \in 0..(s.count[i] - 1) /\ s.count \in [Box -> Int]
    BY <1>1, <1>6 DEF StateType
  <2> QED BY <2>1
<1>10. /\ s.mode64 <=> (s.sel[Application] = 1)
       /\ s.sel[Repeats] <= 0 \/ s.sel[Adaptive] <= 0
       /\ s.sel[Memory] = Custom \/ \A i \in Sizes : s.sel[i] <= 0
  BY <1>1, <1>2 DEF Agreeing
<1>11. s.sel[Repeats] = 0 \/ s.sel[Adaptive] = 0
  BY <1>9, <1>10
<1>12. (\E i \in Sizes : s.sel[i] > 0) => s.sel[Memory] = Custom
  BY <1>9, <1>10
<1> QED BY <1>1, <1>3, <1>4, <1>5, <1>6, <1>7, <1>8, <1>10, <1>11, <1>12

\* Enabling and disabling all boxes.
LEMMA EnableDoes ==
  ASSUME NEW s, Settled(s)
  PROVE  /\ Enable(Enable(s, FALSE), TRUE) = s
         /\ \A i \in Box : ~Enable(s, FALSE).enabled[i]
         /\ Enable(s, FALSE).sel = s.sel /\ Enable(s, FALSE).mode64 = s.mode64
<1>1. s \in StateType /\ \A i \in Box : s.enabled[i] <=> Functional(s, i)
  BY SettledAgrees
<1>2. s.available \in [Box -> BOOLEAN] /\ s.enabled \in [Box -> BOOLEAN]
  BY <1>1 DEF StateType
<1> DEFINE off == [i \in Box |-> FALSE /\ Functional(s, i)]
           t == [s EXCEPT !.enabled = off]
<1>3. Enable(s, FALSE) = t
  BY DEF Enable
<1>4. off = [i \in Box |-> FALSE]
  OBVIOUS
<1>5. off \in [Box -> BOOLEAN] /\ \A i \in Box : ~off[i]
  BY <1>4
<1> HIDE DEF off
<1>6. /\ t \in StateType /\ t.enabled = off /\ t.available = s.available /\ t.sel = s.sel
      /\ t.mode64 = s.mode64
  BY <1>1, <1>5 DEF StateType
<1>7. Enable(t, TRUE) = [t EXCEPT !.enabled = [i \in Box |-> TRUE /\ Functional(t, i)]]
  BY DEF Enable
<1>8. [i \in Box |-> TRUE /\ Functional(t, i)] = s.enabled
  <2>1. ASSUME NEW i \in Box PROVE (TRUE /\ Functional(t, i)) = s.enabled[i]
    <3>1. Functional(t, i) <=> Functional(s, i)
      BY <1>6 DEF Functional
    <3>2. s.enabled[i] \in BOOLEAN
      BY <1>2
    <3>3. (TRUE /\ Functional(t, i)) <=> s.enabled[i]
      BY <1>1, <3>1
    <3> QED BY <3>2, <3>3, Zenon
  <2> HIDE DEF t
  <2>2. [i \in Box |-> TRUE /\ Functional(t, i)] = [i \in Box |-> s.enabled[i]]
    BY <2>1, Zenon
  <2>3. [i \in Box |-> s.enabled[i]] = s.enabled
    BY <1>2
  <2> QED BY <2>2, <2>3
<1>9. [t EXCEPT !.enabled = s.enabled] = s
  BY <1>1, <1>5 DEF StateType
<1> HIDE DEF t
<1> QED BY <1>3, <1>5, <1>6, <1>7, <1>8, <1>9

\* What mpe is run with.
RunWith(s) ==
  [program64 |-> s.sel[Application] = 1, line |-> CommandLine(s),
   scale |-> CustomScale(s), axis |-> AxisMode(s.sel[Asm])]

\* It depends on the selections and the width alone.
LEMMA RunWithSelections ==
  ASSUME NEW s, NEW t, t.sel = s.sel, t.mode64 = s.mode64
  PROVE  RunWith(t) = RunWith(s)
<1>1. \A i, k : CmdValue(t, i, k) = CmdValue(s, i, k)
  BY DEF CmdValue
<1>2. \A i : Option(t, i) = Option(s, i)
  BY <1>1 DEF Option
<1>3. SizesSet(t) = SizesSet(s)
  BY DEF SizesSet
<1>4. \A S : {Option(t, i) : i \in S} = {Option(s, i) : i \in S}
  BY <1>2
<1>5. CommandLine(t) = CommandLine(s)
  BY <1>3, <1>4 DEF CommandLine
<1>6. CustomScale(t) = CustomScale(s)
  BY DEF CustomScale
<1> QED BY <1>5, <1>6 DEF RunWith

\* A run is not the absence of one.
LEMMA RunIsNotIdle == \A s : RunWith(s) # Idle
<1> SUFFICES ASSUME NEW s, RunWith(s) = Idle PROVE FALSE
  OBVIOUS
<1>1. "line" \in DOMAIN RunWith(s)
  BY DEF RunWith
<1>2. DOMAIN Idle = {}
  BY DEF Idle
<1> QED BY <1>1, <1>2

\* Nothing is left to be done when the user acts; during a run the boxes are as they were
\* when it was pressed, but disabled.
BoxesInv ==
  /\ picks \in PickSets
  /\ run = Idle => boxes.failed \/ Settled(boxes)
  /\ run # Idle => /\ Settled(Enable(boxes, TRUE)) /\ boxes = Enable(Enable(boxes, TRUE), FALSE)
                   /\ run = RunWith(boxes)

\* What the event dispatch thread leaves is settled, or an exception.
LEMMA DoneSettles ==
  ASSUME NEW s, Good(s)
  PROVE  Done(s).failed \/ Settled(Done(s))
<1>1. PICK t : t = Done(s)
  OBVIOUS
<1>2. Followed(t) /\ t.todo = <<>>
  BY <1>1, DoneKeeps DEF Followed
<1> QED BY <1>1, <1>2 DEF Followed, Settled

\* The boxes after the start.
LEMMA InitBoxes == Init => BoxesInv
<1> SUFFICES ASSUME Init PROVE BoxesInv
  OBVIOUS
<1>1. boxes = Done(Do(Constructed, SecondFilling)) /\ run = Idle /\ picks \in PickSets
  BY DEF Init, SecondFilling
<1>2. PICK s : s = Do(Constructed, SecondFilling)
  OBVIOUS
<1>3. Good(s)
  BY <1>2, ConstructionStarts
<1>4. Done(s).failed \/ Settled(Done(s))
  BY <1>3, DoneSettles
<1> QED BY <1>1, <1>2, <1>4 DEF BoxesInv

\* One item picked.
LEMMA PickSettles ==
  ASSUME NEW s, Settled(s), NEW i \in Box, NEW k \in Nat
  PROVE  Done(Do(s, <<Choose(i, k)>>)).failed \/ Settled(Done(Do(s, <<Choose(i, k)>>)))
<1>1. PICK x \in Statements : x = Choose(i, k)
  BY StatementKinds
<1> DEFINE list == <<x>>
<1>2. list \in Seq(Statements) /\ Pending(list) = {x} /\ DOMAIN list = 1..1 /\ list[1] = x
  BY DEF Pending
<1>3. x[1] = "select"
  BY <1>1, StatementParts
<1> HIDE DEF list
<1>4. EnableOrder(list, On(s), s.available)
  BY <1>2, <1>3 DEF EnableOrder
<1>5. Good(s) /\ s.todo = <<>>
  BY DEF Settled
<1>6. PICK t : t = Do(s, list)
  OBVIOUS
<1>7. Good(t)
  BY <1>2, <1>3, <1>4, <1>5, <1>6, ActStarts
<1>8. Done(t).failed \/ Settled(Done(t))
  BY <1>7, DoneSettles
<1> QED BY <1>1, <1>6, <1>8 DEF list

\* All boxes given their defaults.
LEMMA DefaultsSettle ==
  ASSUME NEW s, Settled(s)
  PROVE  Done(Do(s, Defaults)).failed \/ Settled(Done(Do(s, Defaults)))
<1>1. Good(s) /\ s.todo = <<>>
  BY DEF Settled
<1>2. /\ Defaults \in Seq(Statements)
      /\ \A x \in Pending(Defaults) : x[1] \in {"select", "enable"}
      /\ EnableOrder(Defaults, On(s), s.available)
  BY DefaultsList
<1>3. PICK t : t = Do(s, Defaults)
  OBVIOUS
<1>4. Good(t)
  BY <1>1, <1>2, <1>3, ActStarts
<1>5. Done(t).failed \/ Settled(Done(t))
  BY <1>4, DoneSettles
<1> QED BY <1>3, <1>5

\* Every act of the user.
LEMMA NextBoxes == BoxesInv /\ [Next]_vars => BoxesInv'
<1> SUFFICES ASSUME BoxesInv, [Next]_vars PROVE BoxesInv'
  OBVIOUS
<1>1. ASSUME NEW i \in Box, NEW k \in picks[i], Pick(i, k) PROVE BoxesInv'
  <2>1. /\ run = Idle /\ Settled(boxes) /\ run' = Idle /\ picks' = picks
        /\ boxes' = Done(Do(boxes, <<Choose(i, k)>>))
    BY <1>1 DEF Pick, AtRest, BoxesInv
  <2>2. k \in Nat
    BY PicksAssumption DEF BoxesInv
  <2>3. PICK s : s = boxes
    OBVIOUS
  <2>4. Done(Do(s, <<Choose(i, k)>>)).failed \/ Settled(Done(Do(s, <<Choose(i, k)>>)))
    BY <2>1, <2>2, <2>3, PickSettles
  <2>5. PICK t : t = boxes'
    OBVIOUS
  <2>6. t.failed \/ Settled(t)
    BY <2>1, <2>3, <2>4, <2>5
  <2>7. boxes'.failed \/ Settled(boxes')
    BY <2>5, <2>6
  <2> QED BY <2>1, <2>7 DEF BoxesInv
<1>2. CASE PressDefaults
  <2>1. /\ run = Idle /\ Settled(boxes) /\ run' = Idle /\ picks' = picks
        /\ boxes' = Done(Do(boxes, Defaults))
    BY <1>2 DEF PressDefaults, AtRest, BoxesInv, Defaults
  <2>2. PICK s, t : s = boxes /\ t = boxes'
    OBVIOUS
  <2>3. t.failed \/ Settled(t)
    BY <2>1, <2>2, DefaultsSettle
  <2>4. boxes'.failed \/ Settled(boxes')
    BY <2>2, <2>3
  <2> QED BY <2>1, <2>4 DEF BoxesInv
<1>3. CASE PressRun
  <2>1. /\ run = Idle /\ Settled(boxes) /\ picks' = picks /\ boxes' = Enable(boxes, FALSE)
        /\ run' = RunWith(boxes)
    BY <1>3 DEF PressRun, AtRest, BoxesInv, RunWith
  <2>2. PICK s, t, r : s = boxes /\ t = boxes' /\ r = run'
    OBVIOUS
  <2>3. /\ Enable(Enable(s, FALSE), TRUE) = s /\ Enable(s, FALSE).sel = s.sel
        /\ Enable(s, FALSE).mode64 = s.mode64
    BY <2>1, <2>2, EnableDoes
  <2>4. t = Enable(s, FALSE) /\ Enable(t, TRUE) = s /\ t.sel = s.sel /\ t.mode64 = s.mode64
        /\ r = RunWith(s)
    BY <2>1, <2>2, <2>3
  <2>5. RunWith(t) = RunWith(s)
    BY <2>4, RunWithSelections
  <2>6. r # Idle /\ Settled(Enable(t, TRUE)) /\ t = Enable(Enable(t, TRUE), FALSE)
        /\ r = RunWith(t)
    BY <2>1, <2>2, <2>4, <2>5, RunIsNotIdle
  <2>7. /\ run' # Idle /\ Settled(Enable(boxes', TRUE))
        /\ boxes' = Enable(Enable(boxes', TRUE), FALSE) /\ run' = RunWith(boxes')
    BY <2>2, <2>6
  <2> QED BY <2>1, <2>7 DEF BoxesInv
<1>4. CASE RunEnds
  <2>1. Settled(Enable(boxes, TRUE)) /\ boxes' = Enable(boxes, TRUE) /\ run' = Idle /\ picks' = picks
    BY <1>4 DEF RunEnds, BoxesInv
  <2>2. Settled(boxes')
    <3>1. PICK t : t = Enable(boxes, TRUE)
      OBVIOUS
    <3> QED BY <2>1, <3>1
  <2> QED BY <2>1, <2>2 DEF BoxesInv
<1>5. CASE Failed \/ UNCHANGED vars
  <2>1. picks' = picks /\ boxes' = boxes /\ run' = run
    BY <1>5 DEF Failed, vars
  <2>2. PICK s, r : s = boxes /\ r = run
    OBVIOUS
  <2>3. /\ r = Idle => s.failed \/ Settled(s)
        /\ r # Idle => /\ Settled(Enable(s, TRUE)) /\ s = Enable(Enable(s, TRUE), FALSE)
                       /\ r = RunWith(s)
    BY <2>2 DEF BoxesInv
  <2>4. boxes' = s /\ run' = r /\ picks' \in PickSets
    BY <2>1, <2>2 DEF BoxesInv
  <2> QED BY <2>3, <2>4 DEF BoxesInv
<1> QED BY <1>1, <1>2, <1>3, <1>4, <1>5 DEF Next

\* BoxesInv is an invariant: after every act of the user the boxes are settled, or an
\* exception was thrown; while mpe runs they are those of its start, disabled.
THEOREM BoxesInvariant == Spec => []BoxesInv
BY InitBoxes, NextBoxes, PTL DEF Spec

\* Whatever the user does, the boxes agree with each other when no handler runs.
THEOREM BoxesDoAgree == Spec => []BoxesAgree
<1>1. BoxesInv => BoxesAgree
  <2> SUFFICES ASSUME BoxesInv, ~boxes.failed PROVE BoxesAgree
    BY DEF BoxesAgree
  <2>1. PICK s : s = IF run = Idle THEN boxes ELSE Enable(boxes, TRUE)
    OBVIOUS
  <2>2. Settled(s)
    BY <2>1 DEF BoxesInv
  <2>3. /\ (\E i \in Sizes : s.sel[i] > 0) => s.sel[Memory] = Custom
        /\ s.sel[Repeats] = 0 \/ s.sel[Adaptive] = 0
        /\ s.mode64 <=> (s.sel[Application] = 1)
        /\ s.firing = {} /\ s \in StateType
        /\ \A i \in Box :
             /\ s.count[i] = (IF On(s) \/ i \in {Application, Action} THEN Values[i + 1] ELSE 1)
             /\ s.sel[i] \in 0..(s.count[i] - 1)
             /\ s.available[i] <=> (i \in {Application, Action} \/ On(s))
             /\ s.enabled[i] <=> Functional(s, i)
             /\ s.enabled[i] => s.previous[i] = s.sel[i]
    BY <2>2, SettledAgrees
  <2>4. PICK t : t = boxes
    OBVIOUS
  <2>0. PICK idle \in BOOLEAN : idle = (run = Idle)
    <3>1. (run = Idle) \in BOOLEAN
      OBVIOUS
    <3> QED BY <3>1, Zenon
  <2>5. t = IF idle THEN s ELSE Enable(s, FALSE)
    <3>1. CASE run = Idle
      BY <3>1, <2>1, <2>4, <2>0
    <3>2. CASE run # Idle
      <4>1. s = Enable(boxes, TRUE)
        BY <3>2, <2>1
      <4>2. boxes = Enable(Enable(boxes, TRUE), FALSE)
        BY <3>2 DEF BoxesInv
      <4>3. PICK u : u = Enable(boxes, TRUE)
        OBVIOUS
      <4> QED BY <3>2, <4>1, <4>2, <4>3, <2>4, <2>0
    <3> QED BY <3>1, <3>2
  <2>6. /\ t.sel = s.sel /\ t.count = s.count /\ t.mode64 = s.mode64 /\ t.firing = s.firing
        /\ t.previous = s.previous /\ t \in StateType
    BY <2>3, <2>5 DEF Enable, StateType
  <2>7. ASSUME NEW i \in Box
        PROVE  t.enabled[i] <=> (idle /\ s.enabled[i])
    <3>1. CASE idle
      BY <2>5, <3>1
    <3>2. CASE ~idle
      BY <2>2, <2>5, <3>2, EnableDoes
    <3> QED BY <3>1, <3>2
  <2>8. ASSUME NEW i \in Box
        PROVE  s.enabled[i] <=> (i \in {Application, Action} \/ (On(s) /\ i # Test))
    BY <2>3, BoxNumbers DEF Functional
  <2>9. ASSUME NEW i \in Box
        PROVE  t.enabled[i] = (idle /\ (i \in {Application, Action} \/ (On(s) /\ i # Test)))
    <3>1. t.enabled[i] \in BOOLEAN
      BY <2>6 DEF StateType
    <3>2. t.enabled[i] <=> (idle /\ (i \in {Application, Action} \/ (On(s) /\ i # Test)))
      BY <2>7, <2>8
    <3> QED BY <3>1, <3>2, Zenon
  <2>10. t.mode64 = (t.sel[Application] = 1)
    <3>1. t.mode64 \in BOOLEAN
      BY <2>6 DEF StateType
    <3>2. t.mode64 <=> (t.sel[Application] = 1)
      BY <2>3, <2>6
    <3> QED BY <3>1, <3>2, Zenon
  <2>11. On(s) <=> t.sel[Action] = Benchmarks
    BY <2>6 DEF On
  <2>12. ASSUME NEW i \in Box
         PROVE  /\ boxes.count[i] = (IF boxes.sel[Action] = Benchmarks \/ i \in {Application, Action}
                                     THEN Values[i + 1] ELSE 1)
                /\ boxes.sel[i] \in 0..(boxes.count[i] - 1)
                /\ boxes.enabled[i] = (run = Idle /\ (i \in {Application, Action} \/
                                                      (boxes.sel[Action] = Benchmarks /\ i # Test)))
                /\ boxes.enabled[i] => boxes.previous[i] = boxes.sel[i]
    <3>1. /\ t.count[i] = (IF On(s) \/ i \in {Application, Action} THEN Values[i + 1] ELSE 1)
          /\ t.sel[i] \in 0..(t.count[i] - 1)
          /\ t.enabled[i] => t.previous[i] = t.sel[i]
      BY <2>3, <2>6, <2>7
    <3>2. boxes.enabled[i] = (run = Idle /\ (i \in {Application, Action} \/
                                             (boxes.sel[Action] = Benchmarks /\ i # Test)))
      BY <2>4, <2>0, <2>9, <2>11, Zenon
    <3> QED BY <2>4, <2>11, <3>1, <3>2
  <2>13. /\ (\E i \in Sizes : boxes.sel[i] > 0) => boxes.sel[Memory] = Custom
         /\ boxes.sel[Repeats] = 0 \/ boxes.sel[Adaptive] = 0
         /\ boxes.mode64 = (boxes.sel[Application] = 1) /\ boxes.firing = {}
    BY <2>3, <2>4, <2>6, <2>10
  <2> QED BY <2>12, <2>13, Zenon DEF BoxesAgree
<1> QED BY <1>1, BoxesInvariant, PTL
-----------------------------------------------------------------------------
(* The command line and its parser.                                         *)

\* 2^n as an operator of its own, and the sizes in KB.
Power(n) == 2^n
SmallPowers == {1, 2, 4, 8, 16, 32, 64, 128, 256, 512, 1024, 2048, 4096, 8192, 16384, 32768,
                65536, 131072, 262144, 524288, 1048576}
\* The sizes are powers of two.
LEMMA Powers ==
  /\ Power(0) = 1 /\ Power(1) = 2 /\ Power(2) = 4 /\ Power(3) = 8 /\ Power(4) = 16
  /\ Power(5) = 32 /\ Power(6) = 64 /\ Power(7) = 128 /\ Power(8) = 256 /\ Power(9) = 512
  /\ Power(10) = 1024 /\ Power(11) = 2048 /\ Power(12) = 4096 /\ Power(13) = 8192
  /\ Power(14) = 16384 /\ Power(15) = 32768 /\ Power(16) = 65536 /\ Power(17) = 131072
  /\ Power(18) = 262144 /\ Power(19) = 524288 /\ Power(20) = 1048576
BY DEF Power

\* The k-th size is one of them.
LEMMA SizePower ==
  ASSUME NEW k \in 1..21
  PROVE  2^(k - 1) \in SmallPowers
<1>1. k - 1 \in {0, 1, 2, 3, 4, 5, 6, 7, 8, 9, 10, 11, 12, 13, 14, 15, 16, 17, 18, 19, 20}
  OBVIOUS
<1>2. PICK j : j = k - 1
  OBVIOUS
<1>3. Power(j) \in SmallPowers
  BY Powers, <1>1, <1>2 DEF SmallPowers
<1>4. Power(k - 1) \in SmallPowers
  BY <1>2, <1>3
<1> QED BY <1>4 DEF Power

\* The unit and number printRoundSize makes of a size are read as that size.
LEMMA SizesUnderstood ==
  ASSUME NEW k \in 1..21
  PROVE  Kilobytes(RoundSize(k)) = 2^(k - 1) /\ 2^(k - 1) \in Nat /\ 2^(k - 1) > 0
<1>1. PICK kb : kb = 2^(k - 1)
  OBVIOUS
<1>2. kb \in SmallPowers
  BY <1>1, SizePower
<1>3. RoundSize(k) =   IF kb < 1024 THEN <<kb, "K">> ELSE IF kb < 1024 * 1024 THEN <<kb \div 1024, "M">>
  ELSE <<kb \div (1024 * 1024), "G">>
  BY <1>1 DEF RoundSize
<1>4. Kilobytes(RoundSize(k)) = kb
  BY <1>2, <1>3 DEF Kilobytes, SmallPowers
<1>5. kb \in Nat /\ kb > 0
  BY <1>2 DEF SmallPowers
<1> QED BY <1>1, <1>4, <1>5

\* The X axis of a custom block ends at its last size or after it.
LEMMA PictureHoldsTheBlock ==
  ASSUME NEW s, s.sel[EndSize] \in 1..21
  PROVE  CustomScale(s) >= 2^(s.sel[EndSize] - 1)
<1>1. PICK k \in 1..21 : k = s.sel[EndSize]
  OBVIOUS
<1>2. PICK kb \in Nat : kb = 2^(k - 1)
  BY SizesUnderstood
<1>3. CustomScale(s) = IF kb < 40 THEN 40 ELSE IF kb < 80 THEN 80
     ELSE IF kb < 200 THEN 200 ELSE IF kb % 400 = 0 THEN kb ELSE (kb \div 400) * 400 + 400
  BY <1>1, <1>2 DEF CustomScale
<1>4. CustomScale(s) >= kb
  BY <1>3
<1> QED BY <1>1, <1>2, <1>4

\* The place of a word among words that differ.
WordPlace(words, v) == SelectInSeq(words, LAMBDA w : w = v)

\* A word that comes once is found where it is.
LEMMA PlaceOf ==
  ASSUME NEW words, Len(words) \in Nat, NEW k \in 1..Len(words),
         \A j \in 1..Len(words) : words[j] = words[k] => j = k
  PROVE  WordPlace(words, words[k]) = k
<1>1. PICK v : v = words[k]
  OBVIOUS
<1>2. {i \in 1..Len(words) : words[i] = v} = {k}
  BY <1>1
<1>3. Min({k}) = k
  <2>1. \E x \in {k} : \A y \in {k} : x =< y
    OBVIOUS
  <2>2. (CHOOSE x \in {k} : \A y \in {k} : x =< y) \in {k}
    BY <2>1
  <2> QED BY <2>2 DEF Min
<1>4. WordPlace(words, v) = k
  BY <1>2, <1>3 DEF WordPlace, SelectInSeq
<1> QED BY <1>1, <1>4

\* A word that does not come is not found.
LEMMA NoPlace ==
  ASSUME NEW words, NEW v, \A j \in 1..Len(words) : words[j] # v
  PROVE  WordPlace(words, v) = 0
  BY DEF WordPlace, SelectInSeq

\* The 37 methods have different names.
LEMMA WordsDiffer ==
  ASSUME NEW m \in BOOLEAN, NEW k \in 1..37, NEW j \in 1..37, Words(m).asm[j] = Words(m).asm[k]
  PROVE  j = k
  BY DEF Words

\* The shell and the parser have the same names for the same methods.
LEMMA AsmWords ==
  ASSUME NEW m, NEW k \in 1..37
  PROVE  /\ AsmNames(m)[k] = Words(m).asm[k]
         /\ Len(Words(m).asm) = 37
 BY DEF AsmNames, Named, Words

\* The words of an option are looked up as the parser does.
LEMMA ParsedWord ==
  ASSUME NEW m, NEW o \in DOMAIN Words(m), NEW v
  PROVE  Parsed(m, o, v) = WordPlace(Words(m)[o], v) - 1
<1>1. o \notin NumberOptions /\ o \notin SizeOptions
  BY DEF Words, NumberOptions, SizeOptions
<1> QED BY <1>1 DEF Parsed, WordPlace

\* A word of the option's own is read as its number.
LEMMA ParsedKnownWord ==
  ASSUME NEW m, NEW o \in DOMAIN Words(m), NEW k \in 1..Len(Words(m)[o]),
         Len(Words(m)[o]) \in Nat,
         \A j \in 1..Len(Words(m)[o]) : Words(m)[o][j] = Words(m)[o][k] => j = k
  PROVE  Parsed(m, o, Words(m)[o][k]) = k - 1
<1>1. PICK words : words = Words(m)[o]
  OBVIOUS
<1>2. WordPlace(words, words[k]) = k
  BY <1>1, PlaceOf
<1> QED BY <1>1, <1>2, ParsedWord

\* What mpe is to understand by the k-th value of box i.
Meant(i, k) ==
  CASE i = Memory  -> (IF k = Custom THEN NotSet ELSE k)
    [] i \in {Numa, Page} -> k
    [] i \in {Asm, Ht} -> k - 1
    [] i = Threads -> ThreadNumbers[k]
    [] i = Repeats -> RepeatNumbers[k]
    [] i = Adaptive -> AdaptiveSizes[k] * 1024
    [] i \in Sizes -> 2^(k - 1)

\* mpe reads the value a box prints as what is meant by it.
LEMMA OptionParsed ==
  ASSUME NEW s, NEW m \in BOOLEAN, s.mode64 \in BOOLEAN, s.mode64 <=> m, NEW i \in Options,
         NEW k \in 0..(Values[i + 1] - 1), i \in WithoutFirst \cup Sizes => k > 0
  PROVE  Parsed(m, CmdName[i - 2], CmdValue(s, i, k)) = Meant(i, k)
<1> USE BoxNumbers DEF Numa, Page, Threads, Ht
<1>1. CASE i = Memory
  <2>1. /\ CmdName[i - 2] = "memory" /\ k \in 0..5 /\ "memory" \in DOMAIN Words(m)
        /\ Len(Words(m)["memory"]) = 5
    BY <1>1 DEF CmdName, Values, Words
  <2>2. CmdValue(s, i, k) = <<"l1", "l2", "l3", "l4", "dram", "custom">>[k + 1]
    BY <1>1 DEF CmdValue
  <2>3. CASE k = Custom
    <3>1. CmdValue(s, i, k) = "custom"
      BY <2>2, <2>3
    <3>2. \A j \in 1..Len(Words(m)["memory"]) : Words(m)["memory"][j] # "custom"
      BY DEF Words
    <3>3. PICK words : words = Words(m)["memory"]
      OBVIOUS
    <3>4. WordPlace(words, "custom") = 0
      BY <3>2, <3>3, NoPlace
    <3>5. Parsed(m, "memory", "custom") = -1
      <4>1. Parsed(m, "memory", "custom") = WordPlace(Words(m)["memory"], "custom") - 1
        BY <2>1, ParsedWord
      <4> QED BY <3>3, <3>4, <4>1
    <3> QED BY <1>1, <2>1, <2>3, <3>1, <3>5 DEF Meant, NotSet
  <2>4. CASE k # Custom
    <3>1. k + 1 \in 1..5 /\ CmdValue(s, i, k) = Words(m)["memory"][k + 1]
      BY <2>1, <2>2, <2>4 DEF Words
    <3>2. \A j \in 1..5 : Words(m)["memory"][j] = Words(m)["memory"][k + 1] => j = k + 1
      BY <3>1 DEF Words
    <3>3. Parsed(m, "memory", Words(m)["memory"][k + 1]) = k + 1 - 1
      BY <2>1, <3>1, <3>2, ParsedKnownWord, SMTT(60)
    <3> QED BY <1>1, <2>1, <2>4, <3>1, <3>3 DEF Meant
  <2> QED BY <2>3, <2>4
<1>2. CASE i = Asm
  <2>1. CmdName[i - 2] = "asm" /\ k \in 1..37 /\ "asm" \in DOMAIN Words(m)
    BY <1>2 DEF CmdName, Values, Words, WithoutFirst
  <2>2. CmdValue(s, i, k) = AsmNames(s.mode64)[k]
    BY <1>2 DEF CmdValue
  <2>3. AsmNames(s.mode64) = AsmNames(m)
    BY DEF AsmNames
  <2>4. /\ CmdValue(s, i, k) = Words(m)["asm"][k] /\ Len(Words(m)["asm"]) = 37
    BY <2>1, <2>2, <2>3, AsmWords
  <2>5. \A j \in 1..37 : Words(m)["asm"][j] = Words(m)["asm"][k] => j = k
    BY <2>1, WordsDiffer
  <2>7. PICK n \in Nat : n = 37 /\ n = Len(Words(m)["asm"])
    BY <2>4
  <2>8. /\ k \in 1..Len(Words(m)["asm"])
        /\ \A j \in 1..Len(Words(m)["asm"]) : Words(m)["asm"][j] = Words(m)["asm"][k] => j = k
    BY <2>1, <2>5, <2>7
  <2>6. Parsed(m, "asm", Words(m)["asm"][k]) = k - 1
    BY <2>1, <2>7, <2>8, ParsedKnownWord
  <2> QED BY <1>2, <2>1, <2>4, <2>6 DEF Meant
<1>3. CASE i = Numa
  <2>1. /\ CmdName[i - 2] = "numa" /\ k + 1 \in 1..3 /\ "numa" \in DOMAIN Words(m)
        /\ Len(Words(m)["numa"]) = 3
    BY <1>3 DEF CmdName, Values, Words
  <2>2. CmdValue(s, i, k) = Words(m)["numa"][k + 1]
    BY <1>3 DEF CmdValue, Words
  <2>3. \A j \in 1..3 : Words(m)["numa"][j] = Words(m)["numa"][k + 1] => j = k + 1
    BY <2>1 DEF Words
  <2>4. Parsed(m, "numa", Words(m)["numa"][k + 1]) = k + 1 - 1
    BY <2>1, <2>3, ParsedKnownWord, SMTT(60)
  <2> QED BY <1>3, <2>1, <2>2, <2>4 DEF Meant
<1>4. CASE i = Page
  <2>1. /\ CmdName[i - 2] = "page" /\ k + 1 \in 1..2 /\ "page" \in DOMAIN Words(m)
        /\ Len(Words(m)["page"]) = 2
    BY <1>4 DEF CmdName, Values, Words
  <2>2. CmdValue(s, i, k) = Words(m)["page"][k + 1]
    BY <1>4 DEF CmdValue, Words
  <2>3. \A j \in 1..2 : Words(m)["page"][j] = Words(m)["page"][k + 1] => j = k + 1
    BY <2>1 DEF Words
  <2>4. Parsed(m, "page", Words(m)["page"][k + 1]) = k + 1 - 1
    BY <2>1, <2>3, ParsedKnownWord
  <2> QED BY <1>4, <2>1, <2>2, <2>4 DEF Meant
<1>5. CASE i = Ht
  <2>1. /\ CmdName[i - 2] = "ht" /\ k \in 1..2 /\ "ht" \in DOMAIN Words(m)
        /\ Len(Words(m)["ht"]) = 2
    BY <1>5 DEF CmdName, Values, Words, WithoutFirst
  <2>2. CmdValue(s, i, k) = Words(m)["ht"][k]
    BY <1>5 DEF CmdValue, Words
  <2>3. \A j \in 1..2 : Words(m)["ht"][j] = Words(m)["ht"][k] => j = k
    BY <2>1 DEF Words
  <2>4. Parsed(m, "ht", Words(m)["ht"][k]) = k - 1
    BY <2>1, <2>3, ParsedKnownWord
  <2> QED BY <1>5, <2>1, <2>2, <2>4 DEF Meant
<1>6. CASE i = Threads
  <2>1. CmdName[i - 2] = "threads"
    BY <1>6 DEF CmdName
  <2>2. CmdValue(s, i, k) = ThreadNumbers[k]
    BY <1>6 DEF CmdValue
  <2>3. Meant(i, k) = ThreadNumbers[k]
    BY <1>6 DEF Meant
  <2>4. \A v : Parsed(m, "threads", v) = v
    BY DEF Parsed, NumberOptions, SizeOptions
  <2> QED BY <2>1, <2>2, <2>3, <2>4
<1>7. CASE i = Repeats
  <2>1. CmdName[i - 2] = "repeats"
    BY <1>7 DEF CmdName
  <2>2. CmdValue(s, i, k) = RepeatNumbers[k]
    BY <1>7 DEF CmdValue
  <2>3. Meant(i, k) = RepeatNumbers[k]
    BY <1>7 DEF Meant
  <2>4. \A v : Parsed(m, "repeats", v) = v
    BY DEF Parsed, NumberOptions, SizeOptions
  <2> QED BY <2>1, <2>2, <2>3, <2>4
<1>8. CASE i = Adaptive
  <2>1. CmdName[i - 2] = "adaptive" /\ k \in 1..3
    BY <1>8 DEF CmdName, Values, WithoutFirst
  <2>2. PICK v : v = CmdValue(s, i, k)
    OBVIOUS
  <2>3. v = <<AdaptiveSizes[k], "M">>
    BY <1>8, <2>2 DEF CmdValue
  <2>4. Kilobytes(v) = AdaptiveSizes[k] * 1024
    BY <2>1, <2>3 DEF Kilobytes, AdaptiveSizes
  <2>5. Parsed(m, "adaptive", v) = Kilobytes(v)
    BY DEF Parsed, NumberOptions, SizeOptions
  <2> QED BY <1>8, <2>1, <2>2, <2>4, <2>5 DEF Meant
<1>9. CASE i \in Sizes
  <2>1. CmdName[i - 2] \in {"start", "end", "step"} /\ k \in 1..21
    BY <1>9 DEF CmdName, Values
  <2>2. CmdValue(s, i, k) = RoundSize(k)
    BY <1>9 DEF CmdValue
  <2>3. \A v : Parsed(m, CmdName[i - 2], v) = Kilobytes(v)
    BY <2>1 DEF Parsed, NumberOptions, SizeOptions
  <2>4. Meant(i, k) = 2^(k - 1)
    BY <1>9 DEF Meant
  <2> QED BY <2>1, <2>2, <2>3, <2>4, SizesUnderstood
<1> QED BY <1>1, <1>2, <1>3, <1>4, <1>5, <1>6, <1>7, <1>8, <1>9 DEF Options

\* The boxes that become an option.
Shown(s) ==
  {i \in Options : /\ i \in WithoutFirst => s.sel[i] # 0
                   /\ i \in Sizes => SizesSet(s)
                   /\ i = Memory => ~SizesSet(s)}

\* The option that says the action.
ActionOption(k) == <<<<"help", "full">>, <<"info", "all">>, <<"test", "memory">>>>[k + 1]

\* No two options of the line have the same name.
LEMMA NamesDiffer ==
  /\ \A i, j \in Options : CmdName[i - 2] = CmdName[j - 2] => i = j
  /\ \A i \in Options : CmdName[i - 2] \notin {"out", "help", "info", "test"}
BY BoxNumbers DEF Options, CmdName

\* The command line: the file, the action, and one option for every box that shows one.
LEMMA LineShows ==
  ASSUME NEW s
  PROVE  CommandLine(s) = {<<"out", "file">>, ActionOption(s.sel[Action])} \cup
                          {<<CmdName[i - 2], CmdValue(s, i, s.sel[i])>> : i \in Shown(s)}
<1> USE BoxNumbers
<1>1. PICK B : B = (Asm..Adaptive) \cup (IF SizesSet(s) THEN Sizes ELSE {Memory})
  OBVIOUS
<1>2. CommandLine(s) = {<<"out", "file">>, ActionOption(s.sel[Action])} \cup
                       UNION {Option(s, i) : i \in B}
  BY <1>1, Zenon DEF CommandLine, ActionOption
<1>3. Shown(s) = {i \in B : i \in WithoutFirst => s.sel[i] # 0}
  BY <1>1 DEF Shown, Options, WithoutFirst, Threads, Ht
<1>4. \A i : i \notin WithoutFirst \/ s.sel[i] # 0 =>
        Option(s, i) = {<<CmdName[i - 2], CmdValue(s, i, s.sel[i])>>}
  BY DEF Option
<1>5. \A i : i \in WithoutFirst /\ s.sel[i] = 0 => Option(s, i) = {}
  BY DEF Option
<1>6. UNION {Option(s, i) : i \in B} =
      {<<CmdName[i - 2], CmdValue(s, i, s.sel[i])>> : i \in Shown(s)}
  <2> DEFINE D(i) == <<CmdName[i - 2], CmdValue(s, i, s.sel[i])>>
  <2>1. \A i \in Shown(s) : i \in B /\ Option(s, i) = {D(i)}
    BY <1>3, <1>4
  <2>2. \A i \in B : i \in Shown(s) \/ Option(s, i) = {}
    BY <1>3, <1>5
  <2> HIDE DEF D
  <2>3. UNION {Option(s, i) : i \in B} = {D(i) : i \in Shown(s)}
    BY <2>1, <2>2
  <2> QED BY <2>3 DEF D
<1> QED BY <1>2, <1>6

\* An option that is said once has the value said, any other its default.
LEMMA ParameterSaid ==
  ASSUME NEW r, NEW o \in DOMAIN ParserDefaults, NEW x \in r.line, x[1] = o,
         \A y \in r.line : y[1] = o => y = x
  PROVE  Parameters(r)[o] = Parsed(r.program64, o, x[2])
<1>1. (CHOOSE y \in r.line : y[1] = o) = x
  OBVIOUS
<1>2. \E y \in r.line : y[1] = o
  OBVIOUS
<1> QED BY <1>1, <1>2, Zenon DEF Parameters

\* An option that is not said has its default.
LEMMA ParameterUnsaid ==
  ASSUME NEW r, NEW o \in DOMAIN ParserDefaults, \A y \in r.line : y[1] # o
  PROVE  Parameters(r)[o] = ParserDefaults[o]
BY Zenon DEF Parameters

\* Boxes whose selections are values of theirs, and what mpe is run with.
Selected(s, r) ==
  /\ s.mode64 \in BOOLEAN /\ r = RunWith(s)
  /\ s.mode64 <=> (s.sel[Application] = 1)
  /\ \A i \in Box : s.sel[i] \in 0..(Values[i + 1] - 1)

\* The names the shell uses are options of mpe.
LEMMA OptionNames ==
  /\ \A i \in Options : CmdName[i - 2] \in DOMAIN ParserDefaults
  /\ {"out", "help", "info", "test"} \subseteq DOMAIN ParserDefaults
  /\ CmdName[Memory - 2] = "memory" /\ CmdName[Asm - 2] = "asm" /\ CmdName[Numa - 2] = "numa"
  /\ CmdName[Page - 2] = "page" /\ CmdName[Threads - 2] = "threads" /\ CmdName[Ht - 2] = "ht"
  /\ CmdName[Repeats - 2] = "repeats" /\ CmdName[Adaptive - 2] = "adaptive"
  /\ CmdName[StartSize - 2] = "start" /\ CmdName[EndSize - 2] = "end"
  /\ CmdName[StepSize - 2] = "step"
<1> USE BoxNumbers DEF Numa, Page, Threads, Ht
<1>1. DOMAIN ParserDefaults = DOMAIN Words(TRUE) \cup NumberOptions \cup SizeOptions
  BY DEF ParserDefaults
<1>2. DOMAIN Words(TRUE) = {"help", "info", "test", "out", "asm", "memory", "page", "ht", "numa"}
  BY DEF Words
<1>3. DOMAIN ParserDefaults = {"help", "info", "test", "out", "asm", "memory", "page", "ht", "numa",
                               "threads", "repeats", "adaptive", "start", "end", "step"}
  BY <1>1, <1>2 DEF NumberOptions, SizeOptions
<1>4. /\ CmdName[1] = "memory" /\ CmdName[2] = "asm" /\ CmdName[3] = "numa" /\ CmdName[4] = "page"
      /\ CmdName[5] = "threads" /\ CmdName[6] = "ht" /\ CmdName[7] = "repeats"
      /\ CmdName[8] = "adaptive" /\ CmdName[9] = "start" /\ CmdName[10] = "end"
      /\ CmdName[11] = "step"
  BY DEF CmdName
<1>5. \A i \in Options : i - 2 \in {1, 2, 3, 4, 5, 6, 7, 8, 9, 10, 11}
  BY DEF Options
<1>6. \A i \in Options : CmdName[i - 2] \in DOMAIN ParserDefaults
  BY <1>3, <1>4, <1>5
<1> QED BY <1>3, <1>4, <1>6

\* The options that are unset by default.
LEMMA DefaultNumbers ==
  /\ ParserDefaults["help"] = NotSet /\ ParserDefaults["info"] = NotSet
  /\ ParserDefaults["test"] = NotSet /\ ParserDefaults["asm"] = NotSet
  /\ ParserDefaults["ht"] = NotSet /\ ParserDefaults["threads"] = NotSet
  /\ ParserDefaults["repeats"] = NotSet /\ ParserDefaults["adaptive"] = NotSet
  /\ ParserDefaults["memory"] = NotSet
<1>1. DOMAIN Words(TRUE) = {"help", "info", "test", "out", "asm", "memory", "page", "ht", "numa"}
  BY DEF Words
<1> QED BY <1>1 DEF ParserDefaults, NumberOptions, SizeOptions

\* The line has the shell's file, its action, and the options shown; the program is the
\* one of the chosen width.
LEMMA LineAndWidth ==
  ASSUME NEW s, NEW r, Selected(s, r)
  PROVE  /\ r.line = {<<"out", "file">>, ActionOption(s.sel[Action])} \cup
                      {<<CmdName[j - 2], CmdValue(s, j, s.sel[j])>> : j \in Shown(s)}
         /\ r.program64 <=> s.mode64
         /\ r.program64 \in BOOLEAN
<1>1. PICK L : L = CommandLine(s)
  OBVIOUS
<1>2. r.line = L
  BY <1>1 DEF Selected, RunWith
<1>3. r.program64 = (s.sel[Application] = 1)
  BY Zenon DEF Selected, RunWith
<1>4. (s.sel[Application] = 1) \in BOOLEAN
  OBVIOUS
<1>5. r.program64 \in BOOLEAN
  BY <1>3, <1>4, Zenon
<1>6. r.program64 <=> s.mode64
  BY <1>3, Zenon DEF Selected
<1> QED BY <1>1, <1>2, <1>5, <1>6, LineShows

\* A box that becomes an option shows one of its values, and not the one left to mpe.
LEMMA ShownSelections ==
  ASSUME NEW s, NEW r, Selected(s, r), NEW i \in Shown(s)
  PROVE  /\ i \in Options /\ i \in Box
         /\ s.sel[i] \in 0..(Values[i + 1] - 1)
         /\ i \in WithoutFirst \cup Sizes => s.sel[i] > 0
<1>1. i \in Options /\ i \in Box
  BY BoxNumbers DEF Shown, Options
<1>2. s.sel[i] \in 0..(Values[i + 1] - 1)
  BY <1>1 DEF Selected
<1>3. i \in WithoutFirst \cup Sizes => s.sel[i] # 0
  BY DEF Shown, SizesSet
<1> QED BY <1>1, <1>2, <1>3

\* A box that becomes an option is read as what it shows.
LEMMA OptionRead ==
  ASSUME NEW s, NEW r, Selected(s, r), NEW i \in Shown(s)
  PROVE  Parameters(r)[CmdName[i - 2]] = Meant(i, s.sel[i])
<1>1. /\ r.line = {<<"out", "file">>, ActionOption(s.sel[Action])} \cup
                   {<<CmdName[j - 2], CmdValue(s, j, s.sel[j])>> : j \in Shown(s)}
      /\ r.program64 <=> s.mode64
      /\ r.program64 \in BOOLEAN
  BY LineAndWidth
<1>2. PICK x : x = <<CmdName[i - 2], CmdValue(s, i, s.sel[i])>>
  OBVIOUS
<1>3. i \in Options /\ i \in Box
  BY BoxNumbers DEF Shown, Options
<1>4. x \in r.line /\ x[1] = CmdName[i - 2]
  BY <1>1, <1>2
<1>5. ActionOption(s.sel[Action])[1] \in {"help", "info", "test"}
  BY BoxNumbers DEF Selected, ActionOption, Values
<1>6. ASSUME NEW y \in r.line, y[1] = CmdName[i - 2] PROVE y = x
  <2>1. CASE y \in {<<"out", "file">>, ActionOption(s.sel[Action])}
    BY <1>3, <1>5, <1>6, <2>1, NamesDiffer
  <2>2. CASE y \in {<<CmdName[j - 2], CmdValue(s, j, s.sel[j])>> : j \in Shown(s)}
    <3>1. PICK j \in Shown(s) : y = <<CmdName[j - 2], CmdValue(s, j, s.sel[j])>>
      BY <2>2
    <3>2. j \in Options /\ CmdName[j - 2] = CmdName[i - 2]
      BY <1>6, <3>1 DEF Shown
    <3>3. j = i
      BY <1>3, <3>2, NamesDiffer
    <3> QED BY <1>2, <3>1, <3>3
  <2> QED BY <1>1, <2>1, <2>2
<1>7. PICK k : k = s.sel[i]
  OBVIOUS
<1>8. k \in 0..(Values[i + 1] - 1) /\ (i \in WithoutFirst \cup Sizes => k > 0)
  BY <1>7, ShownSelections
<1>9. Parsed(r.program64, CmdName[i - 2], CmdValue(s, i, k)) = Meant(i, k)
  <2>1. PICK m \in BOOLEAN : m = r.program64
    BY <1>1
  <2>2. s.mode64 \in BOOLEAN /\ (s.mode64 <=> m)
    BY <1>1, <2>1 DEF Selected
  <2>3. Parsed(m, CmdName[i - 2], CmdValue(s, i, k)) = Meant(i, k)
    BY <1>3, <1>8, <2>2, OptionParsed
  <2> QED BY <2>1, <2>3
<1>10. Parameters(r)[CmdName[i - 2]] = Parsed(r.program64, CmdName[i - 2], x[2])
  BY <1>3, <1>4, <1>6, OptionNames, ParameterSaid
<1> QED BY <1>2, <1>7, <1>9, <1>10

\* A box that does not leaves its option at the default of mpe.
LEMMA OptionNotRead ==
  ASSUME NEW s, NEW r, Selected(s, r), NEW i \in Options \ Shown(s)
  PROVE  Parameters(r)[CmdName[i - 2]] = ParserDefaults[CmdName[i - 2]]
<1>1. r.line = {<<"out", "file">>, ActionOption(s.sel[Action])} \cup
               {<<CmdName[j - 2], CmdValue(s, j, s.sel[j])>> : j \in Shown(s)}
  BY LineAndWidth
<1>2. ActionOption(s.sel[Action])[1] \in {"help", "info", "test"}
  BY BoxNumbers DEF Selected, ActionOption, Values
<1>3. ASSUME NEW y \in r.line PROVE y[1] # CmdName[i - 2]
  <2>1. CASE y \in {<<"out", "file">>, ActionOption(s.sel[Action])}
    BY <1>2, <2>1, NamesDiffer
  <2>2. CASE y \in {<<CmdName[j - 2], CmdValue(s, j, s.sel[j])>> : j \in Shown(s)}
    <3>1. PICK j \in Shown(s) : y = <<CmdName[j - 2], CmdValue(s, j, s.sel[j])>>
      BY <2>2
    <3>2. j \in Options /\ j # i
      BY DEF Shown
    <3> QED BY <3>1, <3>2, NamesDiffer
  <2> QED BY <1>1, <2>1, <2>2
<1> QED BY <1>3, OptionNames, ParameterUnsaid

\* What the parser makes of the words of the file and the action.
LEMMA ScenarioParsed ==
  ASSUME NEW m
  PROVE  /\ Parsed(m, "out", "file") = 1 /\ Parsed(m, "help", "full") = 1
         /\ Parsed(m, "info", "all") = 8 /\ Parsed(m, "test", "memory") = 0
<1>0. PICK w : w = Words(m)
  OBVIOUS
<1>1. /\ w["out"] = <<"screen", "file">> /\ w["help"] = <<"brief", "full">>
      /\ w["info"] = <<"cpu", "topology", "topologyex", "memory", "paging", "api", "domains",
                        "threads", "all">>
      /\ w["test"] = <<"memory", "storage">>
      /\ {"out", "help", "info", "test"} \subseteq DOMAIN w
  BY <1>0 DEF Words
<1>2. ASSUME NEW o \in DOMAIN w, NEW words, words = w[o], NEW k \in 1..Len(words),
             Len(words) \in Nat, \A j \in 1..Len(words) : words[j] = words[k] => j = k
      PROVE  Parsed(m, o, words[k]) = k - 1
  BY <1>0, <1>2, ParsedKnownWord
<1>3. Parsed(m, "out", "file") = 1
  <2>1. PICK words : words = w["out"]
    OBVIOUS
  <2>2. PICK k \in 1..2 : k = 2
    OBVIOUS
  <2>3. /\ Len(words) = 2 /\ words[k] = "file"
        /\ \A j \in 1..2 : words[j] = words[k] => j = k
    BY <1>1, <2>1, <2>2
  <2>4. Parsed(m, "out", words[k]) = k - 1
    BY <1>1, <1>2, <2>1, <2>3
  <2> QED BY <2>2, <2>3, <2>4
<1>4. Parsed(m, "help", "full") = 1
  <2>1. PICK words : words = w["help"]
    OBVIOUS
  <2>2. PICK k \in 1..2 : k = 2
    OBVIOUS
  <2>3. /\ Len(words) = 2 /\ words[k] = "full"
        /\ \A j \in 1..2 : words[j] = words[k] => j = k
    BY <1>1, <2>1, <2>2
  <2>4. Parsed(m, "help", words[k]) = k - 1
    BY <1>1, <1>2, <2>1, <2>3
  <2> QED BY <2>2, <2>3, <2>4
<1>5. Parsed(m, "info", "all") = 8
  <2>1. PICK words : words = w["info"]
    OBVIOUS
  <2>2. PICK k \in 1..9 : k = 9
    OBVIOUS
  <2>3. /\ Len(words) = 9 /\ words[k] = "all"
        /\ \A j \in 1..9 : words[j] = words[k] => j = k
    BY <1>1, <2>1, <2>2
  <2>4. Parsed(m, "info", words[k]) = k - 1
    BY <1>1, <1>2, <2>1, <2>3
  <2> QED BY <2>2, <2>3, <2>4
<1>6. Parsed(m, "test", "memory") = 0
  <2>1. PICK words : words = w["test"]
    OBVIOUS
  <2>2. PICK k \in 1..2 : k = 1
    OBVIOUS
  <2>3. /\ Len(words) = 2 /\ words[k] = "memory"
        /\ \A j \in 1..2 : words[j] = words[k] => j = k
    BY <1>1, <2>1, <2>2
  <2>4. Parsed(m, "test", words[k]) = k - 1
    BY <1>1, <1>2, <2>1, <2>3
  <2> QED BY <2>2, <2>3, <2>4
<1> QED BY <1>1, <1>3, <1>4, <1>5, <1>6

\* mpe writes a file, and runs the scenario of Action alone.
LEMMA ScenarioRead ==
  ASSUME NEW s, NEW r, Selected(s, r)
  PROVE  /\ Parameters(r)["out"] = 1
         /\ s.sel[Action] \in 0..2
         /\ Parameters(r)["help"] = (IF s.sel[Action] = 0 THEN 1 ELSE NotSet)
         /\ Parameters(r)["info"] = (IF s.sel[Action] = 1 THEN 8 ELSE NotSet)
         /\ Parameters(r)["test"] = (IF s.sel[Action] = 2 THEN 0 ELSE NotSet)
<1>1. r.line = {<<"out", "file">>, ActionOption(s.sel[Action])} \cup
               {<<CmdName[j - 2], CmdValue(s, j, s.sel[j])>> : j \in Shown(s)}
  BY LineAndWidth
<1>2. PICK a : a = s.sel[Action]
  OBVIOUS
<1>3. a \in 0..2
  BY <1>2, BoxNumbers DEF Selected, Values
<1>4. PICK x : x = ActionOption(a)
  OBVIOUS
<1>5. /\ a = 0 => x = <<"help", "full">>
      /\ a = 1 => x = <<"info", "all">>
      /\ a = 2 => x = <<"test", "memory">>
  BY <1>3, <1>4 DEF ActionOption
<1>6. ASSUME NEW y \in r.line
      PROVE  y = <<"out", "file">> \/ y = x \/ y[1] \notin {"out", "help", "info", "test"}
  <2>1. CASE y \in {<<CmdName[j - 2], CmdValue(s, j, s.sel[j])>> : j \in Shown(s)}
    <3>1. PICK j \in Shown(s) : y = <<CmdName[j - 2], CmdValue(s, j, s.sel[j])>>
      BY <2>1
    <3> QED BY <3>1, NamesDiffer DEF Shown
  <2> QED BY <1>1, <1>2, <1>4, <2>1
<1>7. <<"out", "file">> \in r.line /\ x \in r.line
  BY <1>1, <1>2, <1>4
<1>9. Parameters(r)["out"] = 1
  <2>1. PICK z : z = <<"out", "file">>
    OBVIOUS
  <2>2. z \in r.line /\ z[1] = "out" /\ z[2] = "file" /\ \A y \in r.line : y[1] = "out" => y = z
    BY <2>1, <1>3, <1>5, <1>6, <1>7
  <2> QED BY <2>2, ScenarioParsed, OptionNames, ParameterSaid
<1>10. Parameters(r)["help"] = (IF a = 0 THEN 1 ELSE NotSet)
  <2>1. CASE a = 0
    <3>1. x[1] = "help" /\ x[2] = "full" /\ \A y \in r.line : y[1] = "help" => y = x
      BY <2>1, <1>5, <1>6
    <3> QED BY <2>1, <3>1, <1>7, ScenarioParsed, OptionNames, ParameterSaid
  <2>2. CASE a # 0
    <3>1. \A y \in r.line : y[1] # "help"
      BY <2>2, <1>3, <1>5, <1>6
    <3> QED BY <2>2, <3>1, DefaultNumbers, OptionNames, ParameterUnsaid
  <2> QED BY <2>1, <2>2
<1>11. Parameters(r)["info"] = (IF a = 1 THEN 8 ELSE NotSet)
  <2>1. CASE a = 1
    <3>1. x[1] = "info" /\ x[2] = "all" /\ \A y \in r.line : y[1] = "info" => y = x
      BY <2>1, <1>5, <1>6
    <3> QED BY <2>1, <3>1, <1>7, ScenarioParsed, OptionNames, ParameterSaid
  <2>2. CASE a # 1
    <3>1. \A y \in r.line : y[1] # "info"
      BY <2>2, <1>3, <1>5, <1>6
    <3> QED BY <2>2, <3>1, DefaultNumbers, OptionNames, ParameterUnsaid
  <2> QED BY <2>1, <2>2
<1>12. Parameters(r)["test"] = (IF a = 2 THEN 0 ELSE NotSet)
  <2>1. CASE a = 2
    <3>1. x[1] = "test" /\ x[2] = "memory" /\ \A y \in r.line : y[1] = "test" => y = x
      BY <2>1, <1>5, <1>6
    <3> QED BY <2>1, <3>1, <1>7, ScenarioParsed, OptionNames, ParameterSaid
  <2>2. CASE a # 2
    <3>1. \A y \in r.line : y[1] # "test"
      BY <2>2, <1>3, <1>5, <1>6
    <3> QED BY <2>2, <3>1, DefaultNumbers, OptionNames, ParameterUnsaid
  <2> QED BY <2>1, <2>2
<1> QED BY <1>2, <1>3, <1>9, <1>10, <1>11, <1>12

\* A value of a box is not the number of an unset option, except a custom block.
LEMMA MeantIsSet ==
  ASSUME NEW i \in Options, NEW k \in 0..(Values[i + 1] - 1), i \in WithoutFirst \cup Sizes => k > 0
  PROVE  Meant(i, k) # NotSet <=> ~(i = Memory /\ k = Custom)
<1> USE BoxNumbers DEF Numa, Page, Threads, Ht, NotSet
<1>1. CASE i = Memory
  BY <1>1 DEF Meant
<1>2. CASE i \in {Numa, Page}
  BY <1>2 DEF Meant
<1>3. CASE i \in {Asm, Ht}
  BY <1>3 DEF Meant, WithoutFirst
<1>4. CASE i = Threads
  <2>1. Meant(i, k) = ThreadNumbers[k] /\ k \in 1..12
    BY <1>4 DEF Meant, Values, WithoutFirst
  <2> QED BY <1>4, <2>1 DEF ThreadNumbers
<1>5. CASE i = Repeats
  <2>1. Meant(i, k) = RepeatNumbers[k] /\ k \in 1..6
    BY <1>5 DEF Meant, Values, WithoutFirst
  <2> QED BY <1>5, <2>1 DEF RepeatNumbers
<1>6. CASE i = Adaptive
  <2>1. Meant(i, k) = AdaptiveSizes[k] * 1024 /\ k \in 1..3
    BY <1>6 DEF Meant, Values, WithoutFirst
  <2> QED BY <1>6, <2>1 DEF AdaptiveSizes
<1>7. CASE i \in Sizes
  <2>1. PICK e : e = 2^(k - 1)
    OBVIOUS
  <2>2. k \in 1..21
    BY <1>7 DEF Values
  <2>3. e \in Nat
    BY <2>1, <2>2, SizesUnderstood
  <2>4. Meant(i, k) = e
    BY <1>7, <2>1 DEF Meant
  <2> QED BY <1>7, <2>3, <2>4
<1> QED BY <1>1, <1>2, <1>3, <1>4, <1>5, <1>6, <1>7 DEF Options

\* mpe accepts the line unless it names a custom block, which it does without the sizes.
LEMMA LineAccepted ==
  ASSUME NEW s, NEW r, Selected(s, r)
  PROVE  Accepted(r) <=> (s.sel[Memory] = Custom => SizesSet(s))
<1>1. /\ r.line = {<<"out", "file">>, ActionOption(s.sel[Action])} \cup
                   {<<CmdName[j - 2], CmdValue(s, j, s.sel[j])>> : j \in Shown(s)}
      /\ r.program64 <=> s.mode64
      /\ r.program64 \in BOOLEAN
  BY LineAndWidth
<1>2. \A j \in Shown(s) :
        /\ s.sel[j] \in 0..(Values[j + 1] - 1) /\ j \in Options
        /\ j \in WithoutFirst \cup Sizes => s.sel[j] > 0
  BY ShownSelections
<1>3. PICK m \in BOOLEAN : m = r.program64
  BY <1>1
<1>4. ASSUME NEW j \in Shown(s)
      PROVE  Parsed(m, CmdName[j - 2], CmdValue(s, j, s.sel[j])) # NotSet <=>
             ~(j = Memory /\ s.sel[j] = Custom)
  <2>1. PICK k : k = s.sel[j]
    OBVIOUS
  <2>2. Parsed(m, CmdName[j - 2], CmdValue(s, j, k)) = Meant(j, k)
    <3>1. s.mode64 \in BOOLEAN /\ (s.mode64 <=> m)
      BY <1>1, <1>3 DEF Selected
    <3> QED BY <1>2, <2>1, <3>1, OptionParsed
  <2>3. Meant(j, k) # NotSet <=> ~(j = Memory /\ k = Custom)
    BY <1>2, <2>1, MeantIsSet
  <2> QED BY <2>1, <2>2, <2>3
<1>5. /\ Parsed(m, "out", "file") # NotSet
      /\ Parsed(m, ActionOption(s.sel[Action])[1], ActionOption(s.sel[Action])[2]) # NotSet
  <2>1. PICK a \in 0..2 : a = s.sel[Action]
    BY BoxNumbers DEF Selected, Values
  <2>2. ActionOption(a) \in {<<"help", "full">>, <<"info", "all">>, <<"test", "memory">>}
    BY DEF ActionOption
  <2>3. PICK x : x = ActionOption(a)
    OBVIOUS
  <2>4. Parsed(m, x[1], x[2]) # NotSet
    BY <2>2, <2>3, ScenarioParsed DEF NotSet
  <2> QED BY <2>1, <2>3, <2>4, ScenarioParsed DEF NotSet
<1>6. Memory \in Shown(s) <=> ~SizesSet(s)
  BY BoxNumbers DEF Shown, Options, WithoutFirst, Threads, Ht
<1>7. CASE s.sel[Memory] = Custom /\ ~SizesSet(s)
  <2>1. PICK j \in Shown(s) : j = Memory
    BY <1>6, <1>7
  <2>2. PICK x : x = <<CmdName[j - 2], CmdValue(s, j, s.sel[j])>>
    OBVIOUS
  <2>3. x \in r.line
    BY <1>1, <2>2
  <2>4. Parsed(m, x[1], x[2]) = NotSet
    BY <1>4, <1>7, <2>1, <2>2
  <2> QED BY <1>3, <1>7, <2>3, <2>4 DEF Accepted
<1>8. CASE ~(s.sel[Memory] = Custom /\ ~SizesSet(s))
  <2>1. ASSUME NEW x \in r.line PROVE Parsed(m, x[1], x[2]) # NotSet
    <3>1. CASE x \in {<<"out", "file">>, ActionOption(s.sel[Action])}
      BY <1>5, <3>1
    <3>2. CASE x \in {<<CmdName[j - 2], CmdValue(s, j, s.sel[j])>> : j \in Shown(s)}
      <4>1. PICK j \in Shown(s) : x = <<CmdName[j - 2], CmdValue(s, j, s.sel[j])>>
        BY <3>2
      <4>2. ~(j = Memory /\ s.sel[j] = Custom)
        BY <1>6, <1>8
      <4>3. x[1] = CmdName[j - 2] /\ x[2] = CmdValue(s, j, s.sel[j])
        BY <4>1
      <4> QED BY <1>4, <4>2, <4>3
    <3> QED BY <1>1, <3>1, <3>2
  <2> QED BY <1>3, <1>8, <2>1 DEF Accepted
<1> QED BY <1>7, <1>8

\* What OptionsUnderstood says, of any boxes and what mpe is run with.
Understood(b, r) ==
  LET p == Parameters(r)  s == b.sel IN
  /\ Accepted(r) <=> (s[Memory] = Custom => SizesSet(b))
  /\ CASE s[Action] = 0 -> p.help = 1 /\ p.info = NotSet /\ p.test = NotSet
       [] s[Action] = 1 -> p.help = NotSet /\ p.info = 8 /\ p.test = NotSet
       [] s[Action] = 2 -> p.help = NotSet /\ p.info = NotSet /\ p.test = 0
  /\ p.out = 1
  /\ p.asm = s[Asm] - 1 /\ p.numa = s[Numa] /\ p.page = s[Page] /\ p.ht = s[Ht] - 1
  /\ p.threads  = (IF s[Threads] = 0 THEN NotSet ELSE ThreadNumbers[s[Threads]])
  /\ p.repeats  = (IF s[Repeats] = 0 THEN NotSet ELSE RepeatNumbers[s[Repeats]])
  /\ p.adaptive = (IF s[Adaptive] = 0 THEN NotSet ELSE AdaptiveSizes[s[Adaptive]] * 1024)
  /\ p.memory = (IF s[Memory] = Custom THEN NotSet ELSE s[Memory])
  /\ SizesSet(b) =>
       /\ p.start = 2^(s[StartSize] - 1) /\ p.end = 2^(s[EndSize] - 1)
       /\ p.step = 2^(s[StepSize] - 1)
       /\ r.scale >= p.end
  /\ r.axis = (IF p.asm \in {35, 36} THEN "latency" ELSE "bandwidth")

\* mpe understands every command line of boxes that show values of theirs.
LEMMA SelectedUnderstood ==
  ASSUME NEW b, NEW r, Selected(b, r), (\E i \in Sizes : b.sel[i] > 0) => b.sel[Memory] = Custom
  PROVE  Understood(b, r)
<1> USE BoxNumbers DEF Numa, Page, Threads, Ht
<1> DEFINE p == Parameters(r)
           s == b.sel
<1>2. \A i \in Shown(b) : p[CmdName[i - 2]] = Meant(i, s[i])
  BY OptionRead
<1>3. \A i \in Options : i \notin Shown(b) => p[CmdName[i - 2]] = ParserDefaults[CmdName[i - 2]]
  BY OptionNotRead
<1>4. ASSUME NEW i \in Options
      PROVE  i \in Shown(b) <=> ((i \in WithoutFirst => s[i] # 0) /\ (i \in Sizes => SizesSet(b))
                                 /\ (i = Memory => ~SizesSet(b)))
  BY Zenon DEF Shown
<1>5. \A i \in Box : s[i] \in 0..(Values[i + 1] - 1)
  BY DEF Selected
<1>6. p["asm"] = s[Asm] - 1
  <2>1. CASE s[Asm] = 0
    <3>1. p["asm"] = ParserDefaults["asm"]
      BY <1>3, <1>4, <2>1, OptionNames DEF Options, WithoutFirst
    <3> QED BY <2>1, <3>1, DefaultNumbers DEF NotSet
  <2>2. CASE s[Asm] # 0
    <3>1. p["asm"] = Meant(Asm, s[Asm])
      BY <1>2, <1>4, <2>2, OptionNames DEF Options
    <3> QED BY <3>1 DEF Meant
  <2> QED BY <2>1, <2>2
<1>7. p["ht"] = s[Ht] - 1
  <2>1. CASE s[Ht] = 0
    <3>1. p["ht"] = ParserDefaults["ht"]
      BY <1>3, <1>4, <2>1, OptionNames DEF Options, WithoutFirst
    <3> QED BY <2>1, <3>1, DefaultNumbers DEF NotSet
  <2>2. CASE s[Ht] # 0
    <3>1. p["ht"] = Meant(Ht, s[Ht])
      BY <1>2, <1>4, <2>2, OptionNames DEF Options
    <3> QED BY <3>1 DEF Meant
  <2> QED BY <2>1, <2>2
<1>8. p["numa"] = s[Numa] /\ p["page"] = s[Page]
  <2>1. Numa \in Shown(b) /\ Page \in Shown(b)
    BY <1>4 DEF Options, WithoutFirst
  <2>2. p["numa"] = Meant(Numa, s[Numa]) /\ p["page"] = Meant(Page, s[Page])
    BY <1>2, <2>1, OptionNames
  <2> QED BY <2>2 DEF Meant
<1>9. p["threads"] = (IF s[Threads] = 0 THEN NotSet ELSE ThreadNumbers[s[Threads]])
  <2>1. CASE s[Threads] = 0
    <3>1. p["threads"] = ParserDefaults["threads"]
      BY <1>3, <1>4, <2>1, OptionNames DEF Options, WithoutFirst
    <3> QED BY <2>1, <3>1, DefaultNumbers
  <2>2. CASE s[Threads] # 0
    <3>1. p["threads"] = Meant(Threads, s[Threads])
      BY <1>2, <1>4, <2>2, OptionNames DEF Options
    <3> QED BY <2>2, <3>1 DEF Meant
  <2> QED BY <2>1, <2>2
<1>10. p["repeats"] = (IF s[Repeats] = 0 THEN NotSet ELSE RepeatNumbers[s[Repeats]])
  <2>1. CASE s[Repeats] = 0
    <3>1. p["repeats"] = ParserDefaults["repeats"]
      BY <1>3, <1>4, <2>1, OptionNames DEF Options, WithoutFirst
    <3> QED BY <2>1, <3>1, DefaultNumbers
  <2>2. CASE s[Repeats] # 0
    <3>1. p["repeats"] = Meant(Repeats, s[Repeats])
      BY <1>2, <1>4, <2>2, OptionNames DEF Options
    <3> QED BY <2>2, <3>1 DEF Meant
  <2> QED BY <2>1, <2>2
<1>11. p["adaptive"] = (IF s[Adaptive] = 0 THEN NotSet ELSE AdaptiveSizes[s[Adaptive]] * 1024)
  <2>1. CASE s[Adaptive] = 0
    <3>1. p["adaptive"] = ParserDefaults["adaptive"]
      BY <1>3, <1>4, <2>1, OptionNames DEF Options, WithoutFirst
    <3> QED BY <2>1, <3>1, DefaultNumbers
  <2>2. CASE s[Adaptive] # 0
    <3>1. p["adaptive"] = Meant(Adaptive, s[Adaptive])
      BY <1>2, <1>4, <2>2, OptionNames DEF Options
    <3> QED BY <2>2, <3>1 DEF Meant
  <2> QED BY <2>1, <2>2
<1>12. p["memory"] = (IF s[Memory] = Custom THEN NotSet ELSE s[Memory])
  <2>1. CASE SizesSet(b)
    <3>1. p["memory"] = ParserDefaults["memory"]
      BY <1>3, <1>4, <2>1, OptionNames DEF Options
    <3>2. s[Memory] = Custom
      BY <2>1 DEF SizesSet
    <3> QED BY <3>1, <3>2, DefaultNumbers
  <2>2. CASE ~SizesSet(b)
    <3>1. p["memory"] = Meant(Memory, s[Memory])
      BY <1>2, <1>4, <2>2, OptionNames DEF Options, WithoutFirst
    <3> QED BY <3>1 DEF Meant
  <2> QED BY <2>1, <2>2
<1>13. ASSUME SizesSet(b)
       PROVE  /\ p["start"] = 2^(s[StartSize] - 1) /\ p["end"] = 2^(s[EndSize] - 1)
              /\ p["step"] = 2^(s[StepSize] - 1)
              /\ r.scale >= p["end"]
  <2>1. Sizes \subseteq Shown(b)
    BY <1>4, <1>13 DEF Options, WithoutFirst
  <2>2. /\ p["start"] = Meant(StartSize, s[StartSize]) /\ p["end"] = Meant(EndSize, s[EndSize])
        /\ p["step"] = Meant(StepSize, s[StepSize])
    BY <1>2, <2>1, OptionNames
  <2>3. \A i \in Sizes : \A k : Meant(i, k) = 2^(k - 1)
    BY DEF Meant
  <2>4. p["end"] = 2^(s[EndSize] - 1)
    BY <2>2, <2>3
  <2>5. b.sel[EndSize] \in 1..21
    BY <1>5, <1>13 DEF SizesSet, Values
  <2>6. CustomScale(b) >= 2^(b.sel[EndSize] - 1)
    BY <2>5, PictureHoldsTheBlock
  <2>7. r.scale = CustomScale(b)
    BY DEF Selected, RunWith
  <2>8. PICK e, c : e = 2^(b.sel[EndSize] - 1) /\ c = CustomScale(b)
    OBVIOUS
  <2>9. r.scale >= p["end"]
    BY <2>4, <2>6, <2>7, <2>8
  <2> QED BY <2>2, <2>3, <2>9
<1>14. r.axis = (IF p["asm"] \in {35, 36} THEN "latency" ELSE "bandwidth")
  <2>1. PICK k : k = s[Asm]
    OBVIOUS
  <2>2. k \in 0..37
    BY <1>5, <2>1 DEF Values
  <2>3. r.axis = AxisMode(k)
    BY <2>1 DEF Selected, RunWith
  <2> QED BY <1>6, <2>1, <2>2, <2>3 DEF AxisMode
<1>15. Accepted(r) <=> (s[Memory] = Custom => SizesSet(b))
  BY LineAccepted
<1>16. CASE s[Action] = 0
  <2>1. p["out"] = 1 /\ p["help"] = 1 /\ p["info"] = NotSet /\ p["test"] = NotSet
    BY <1>16, ScenarioRead
  <2>2. (CASE s[Action] = 0 -> p.help = 1 /\ p.info = NotSet /\ p.test = NotSet
           [] s[Action] = 1 -> p.help = NotSet /\ p.info = 8 /\ p.test = NotSet
           [] s[Action] = 2 -> p.help = NotSet /\ p.info = NotSet /\ p.test = 0)
    BY <1>16, <2>1
  <2> QED BY <1>6, <1>7, <1>8, <1>9, <1>10, <1>11, <1>12, <1>13, <1>14, <1>15, <2>1, <2>2, Zenon
          DEF Understood
<1>17. CASE s[Action] = 1
  <2>1. p["out"] = 1 /\ p["help"] = NotSet /\ p["info"] = 8 /\ p["test"] = NotSet
    BY <1>17, ScenarioRead
  <2>2. (CASE s[Action] = 0 -> p.help = 1 /\ p.info = NotSet /\ p.test = NotSet
           [] s[Action] = 1 -> p.help = NotSet /\ p.info = 8 /\ p.test = NotSet
           [] s[Action] = 2 -> p.help = NotSet /\ p.info = NotSet /\ p.test = 0)
    BY <1>17, <2>1
  <2> QED BY <1>6, <1>7, <1>8, <1>9, <1>10, <1>11, <1>12, <1>13, <1>14, <1>15, <2>1, <2>2, Zenon
          DEF Understood
<1>18. CASE s[Action] = 2
  <2>1. p["out"] = 1 /\ p["help"] = NotSet /\ p["info"] = NotSet /\ p["test"] = 0
    BY <1>18, ScenarioRead
  <2>2. (CASE s[Action] = 0 -> p.help = 1 /\ p.info = NotSet /\ p.test = NotSet
           [] s[Action] = 1 -> p.help = NotSet /\ p.info = 8 /\ p.test = NotSet
           [] s[Action] = 2 -> p.help = NotSet /\ p.info = NotSet /\ p.test = 0)
    BY <1>18, <2>1
  <2> QED BY <1>6, <1>7, <1>8, <1>9, <1>10, <1>11, <1>12, <1>13, <1>14, <1>15, <2>1, <2>2, Zenon
          DEF Understood
<1> QED BY <1>16, <1>17, <1>18, ScenarioRead

\* The command line says what the boxes show, and mpe reads it as it is meant, whatever the
\* user has done before Run.
THEOREM OptionsAreUnderstood == Spec => []OptionsUnderstood
<1>1. BoxesInv => OptionsUnderstood
  <2> SUFFICES ASSUME BoxesInv, run # Idle PROVE Understood(boxes, run)
    BY Zenon DEF OptionsUnderstood, Understood
  <2>1. PICK s, t : s = Enable(boxes, TRUE) /\ t = boxes
    OBVIOUS
  <2>2. Settled(s) /\ t = Enable(s, FALSE) /\ run = RunWith(t)
    BY <2>1 DEF BoxesInv
  <2>3. /\ (\E i \in Sizes : s.sel[i] > 0) => s.sel[Memory] = Custom
        /\ s.mode64 <=> (s.sel[Application] = 1)
        /\ s \in StateType
        /\ \A i \in Box :
             /\ s.count[i] = (IF On(s) \/ i \in {Application, Action} THEN Values[i + 1] ELSE 1)
             /\ s.sel[i] \in 0..(s.count[i] - 1)
    BY <2>2, SettledAgrees
  <2>4. t.sel = s.sel /\ t.mode64 = s.mode64
    BY <2>2, <2>3 DEF Enable, StateType
  <2>5. \A i \in Box : Values[i + 1] \in Nat \ {0}
    BY DEF Values, Box
  <2>6. \A i \in Box : s.sel[i] \in 0..(Values[i + 1] - 1)
    BY <2>3, <2>5
  <2>7. s.mode64 \in BOOLEAN
    BY <2>3 DEF StateType
  <2>8. PICK r : r = run
    OBVIOUS
  <2>9. Selected(t, r)
    BY <2>2, <2>3, <2>4, <2>6, <2>7, <2>8 DEF Selected
  <2>10. Understood(t, r)
    BY <2>3, <2>4, <2>9, SelectedUnderstood
  <2> QED BY <2>1, <2>8, <2>10
<1> QED BY <1>1, BoxesInvariant, PTL

=============================================================================
