------------------------------ MODULE Startup ------------------------------
(***************************************************************************)
(* From the command line to the first measured row: maintask               *)
(* (memory_performance_framework/cpp/MainTask.cpp) with CommandLine, the   *)
(* loader, the detectors, SysInfo and those parts of                       *)
(* BenchmarkMemory::execute that turn options and platform into the        *)
(* settings of a session. The rounds of a session are in BenchmarkMemory;  *)
(* here a round succeeds or fails.                                         *)
(*                                                                         *)
(* Numbers are those of the 64-bit build, except IntModulus and            *)
(* ThreadModulus, which stand for 2^32 and 2^16 scaled down.               *)
(***************************************************************************)
EXTENDS TopologyDetector, Integers, Functions, FiniteSetsExt

CONSTANTS
  CommandLines,    \* sequences of arguments <<name, value, long>>
  Processors,      \* [flags, xcr0]: CPUID bits and the states enabled in XCR0
  LargePages,      \* results of GetLargePageMinimum, 0 if the function is missing
  PassTimes,       \* milliseconds for one pass over the largest block
  MaximumThreads,  \* entries of the pool's list (256)
  MaxWaitObjects,  \* handles one wait takes (64)
  ThreadModulus,   \* 2^16: the width of INPUT_CONSTANTS.threadCount
  IntModulus       \* 2^32: the width of an int

\* A command line is a list of arguments; a number in it is written in digits, and an
\* argument is long if the buffer of SMAX characters has no room for it.
ASSUME LinesAssumption ==
  \A l \in CommandLines :
    /\ l \in Seq(Range(l))
    /\ \A i \in DOMAIN l :
         /\ l[i][2][1] \in {"num", "size"} => l[i][2][2] \in Nat
         /\ l[i][2][1] = "size" => l[i][2][3] \in {"K", "M", "G"}
         /\ l[i][3] \in BOOLEAN

\* No cache is smaller than 512 bytes. GetLogicalProcessorInformation lists the cores of
\* one group of at most 64 logical processors, so that the program's list has an entry
\* for two threads on each of them.
ASSUME PlatformAssumption ==
  /\ MaximumThreads \in Nat \ {0} /\ ThreadModulus \in Nat \ {0}
  /\ IntModulus \in Nat /\ IntModulus >= 512
  /\ PassTimes \subseteq Nat \ {0}
  /\ \A m \in Topologies :
       /\ \A i \in DOMAIN m : m[i].rel = "cache" => m[i].bytes >= 512
       /\ 2 * Number(m, "core") <= MaximumThreads

NotSet == -1
DramBlock == 32 * 1024 * 1024
ApproximationRepeats == <<2000000, 500000, 10000, 1000, 200>>   \* l1 .. dram
DRAM == 4

VARIABLES
  pc,        \* where maintask is
  args,      \* the arguments that are still to be parsed
  parms,     \* COMMAND_LINE_PARMS
  line,      \* history: the whole command line
  chip,      \* the processor
  cpuBits,   \* SYSTEM_PROCESSOR_DATA.cpuBitmap, as the set of its bits
  osBits,    \* SYSTEM_PROCESSOR_DATA.osBitmap
  clock,     \* deltaTsc is not 0
  paging,    \* SYSTEM_PAGING_DATA: the large page and the right to use it
  plan       \* the settings execute() has decided on

options   == <<args, parms, line>>
processor == <<chip, cpuBits, osBits>>
startVars == <<pc, options, processor, clock, paging, plan>>
vars      == <<startVars, topologyVars>>

-----------------------------------------------------------------------------
(* CommandLine. The value of an argument is <<"key", text>>, <<"num", n>>, *)
(* <<"size", n, unit>> or <<"bad">>; a key of asm is given by its position *)
(* in keysAsm, which is the number of its method.                          *)

Numbers  == {"threads", "repeats"}
Memories == {"adaptive", "start", "end", "step"}
Keys ==
  [help   |-> <<"brief", "full">>,
   info   |-> <<"cpu", "topology", "topologyex", "memory", "paging", "api", "domains",
                "threads", "all">>,
   test   |-> <<"memory", "storage", "cpu", "gpu", "timers", "sorting">>,
   out    |-> <<"screen", "file">>,
   asm    |-> [i \in 1..51 |-> i - 1],
   memory |-> <<"l1", "l2", "l3", "l4", "dram">>,
   page   |-> <<"default", "large">>,
   ht     |-> <<"off", "on">>,
   numa   |-> <<"unaware", "local", "remote">>]
Options == DOMAIN Keys \cup Numbers \cup Memories

\* resetBeforeParse, after the constructor has set the page size to 0.
Defaults ==
  [o \in Options |-> CASE o \in {"page", "out"} -> 0
                       [] o \in {"start", "step"} -> 4096
                       [] o = "end" -> 65536
                       [] OTHER -> NotSet]

Unit(u) == CASE u = "K" -> 1024 [] u = "M" -> 1024 * 1024
             [] u = "G" -> 1024 * 1024 * 1024

Accepted(o, v) ==
  CASE o \in Numbers     -> v[1] = "num"
    [] o \in Memories    -> v[1] \in {"num", "size"}
    [] o \in DOMAIN Keys -> v[1] = "key" /\ v[2] \in Range(Keys[o])
    [] OTHER             -> FALSE

\* The largest int, which atoi returns for every number beyond it.
MaxInt == IntModulus \div 2 - 1
AsciiToInt(n) == IF n > MaxInt THEN MaxInt ELSE n

\* The value an option takes: a number goes through an int, which is multiplied by
\* the unit in 64 bits.
Stored(o, v) ==
  CASE v[1] = "num"  -> AsciiToInt(v[2])
    [] v[1] = "size" -> AsciiToInt(v[2]) * Unit(v[3])
    [] v[1] = "key"  -> Min({i \in DOMAIN Keys[o] : Keys[o][i] = v[2]}) - 1

Goto(p) == pc' = p

\* Mutant: an option that has been set already is not set again.
ParseArgumentOnce ==
  /\ pc = "parse" /\ args # <<>>
  /\ LET o == Head(args)[1]  v == Head(args)[2] IN
     IF Accepted(o, v)
     THEN /\ parms' = [parms EXCEPT ![o] = IF @ = Defaults[o] THEN Stored(o, v) ELSE @]
          /\ args' = Tail(args) /\ UNCHANGED pc
     ELSE Goto("rejected") /\ UNCHANGED <<parms, args>>
  /\ UNCHANGED <<line, processor, clock, paging, plan, topologyVars>>

\* One turn of the loop of parseCommandLine. Its check for long arguments looks at the
\* wrong variable: strcpy writes them over the end of cmdName. Nothing but the unused
\* cmdValue is hit, or what makes the function crash when it returns.
ParseArgument ==
  /\ pc = "parse" /\ args # <<>>
  /\ LET o == Head(args)[1]  v == Head(args)[2]  long == Head(args)[3] IN
     \/ /\ Accepted(o, v)
        /\ parms' = [parms EXCEPT ![o] = Stored(o, v)]
        /\ args' = Tail(args) /\ UNCHANGED pc
     \/ ~Accepted(o, v) /\ Goto("rejected") /\ UNCHANGED <<parms, args>>
     \/ long /\ Goto("crashed") /\ UNCHANGED <<parms, args>>
  /\ UNCHANGED <<line, processor, clock, paging, plan, topologyVars>>

-----------------------------------------------------------------------------
(* ProcessorDetector. A bitmap is a set of method numbers.                 *)

Class ==
  [UNCONDITIONAL |-> 0..5 \cup {24, 25, 28, 29}, RDRAND |-> {26, 27}, MMX64 |-> 6..8,
   SSE128 |-> 9..11 \cup 31..35, AVX256 |-> 12..14 \cup 38..42,
   AVX512 |-> 15..17 \cup {21, 22} \cup 44..50, FMA256 |-> {18}, FMA512 |-> {19},
   SSE_4_1 |-> {30, 36}, AVX_2 |-> {20, 37, 43}, CLZERO |-> {23}]
BuildMethods == 24..27
WalkMethods  == {28, 29}

BytesPerInstruction(m) ==
  CASE m \in 0..8 \cup 24..29                  -> 8
    [] m \in 9..11 \cup 30..36                 -> 16
    [] m \in 12..14 \cup {18, 20} \cup 37..43  -> 32
    [] OTHER                                   -> 64

\* The states of XCR0.
YMM == {"avx"}
ZMM == {"avx", "opmask", "zmmHi256", "hi16zmm"}

\* What an instruction needs of the processor and of the states the system saves, as
\* the comments of ProcessorDetector.h say for each class.
Requirement ==
  [UNCONDITIONAL |-> {}, RDRAND |-> {"rdrand"}, MMX64 |-> {"mmx"}, SSE128 |-> {"sse"},
   AVX256 |-> {"avx", "osxsave"}, AVX512 |-> {"avx512f", "osxsave"},
   FMA256 |-> {"avx", "osxsave", "fma"}, FMA512 |-> {"avx512f", "fma", "osxsave"},
   SSE_4_1 |-> {"sse4.1"}, AVX_2 |-> {"avx2", "osxsave"}, CLZERO |-> {"clzero"}]
StatesOf(c) == CASE c \in {"AVX256", "FMA256", "AVX_2"} -> YMM
                 [] c \in {"AVX512", "FMA512"}          -> ZMM
                 [] OTHER                               -> {}
Executable ==
  UNION {Class[c] : c \in {d \in DOMAIN Class :
    Requirement[d] \subseteq chip.flags /\ StatesOf(d) \subseteq chip.xcr0}}

mapCpu == <<
  <<"or",  {},                        "UNCONDITIONAL">>,
  <<"or",  {"mmx"},                   "MMX64">>,
  <<"or",  {"sse"},                   "SSE128">>,
  <<"or",  {"osxsave", "avx"},        "AVX256">>,
  <<"or",  {"avx512f"},               "AVX512">>,
  <<"and", {"osxsave"},               "AVX512">>,
  <<"or",  {"osxsave", "avx", "fma"}, "FMA256">>,
  <<"or",  {"avx512f"},               "FMA512">>,
  <<"and", {"osxsave", "fma"},        "FMA512">>,
  <<"or",  {"sse4.1"},                "SSE_4_1">>,
  <<"or",  {"avx2"},                  "AVX_2">>,
  <<"and", {"osxsave"},               "AVX512">>,
  <<"or",  {"rdrand"},                "RDRAND">>,
  <<"or",  {"clzero"},                "CLZERO">> >>

mapOs == <<
  <<"uncond", {}, "UNCONDITIONAL">>, <<"uncond", {}, "MMX64">>, <<"uncond", {}, "SSE128">>,
  <<"uncond", {}, "SSE_4_1">>, <<"or", YMM, "AVX256">>, <<"or", ZMM, "AVX512">>,
  <<"or", YMM, "FMA256">>, <<"or", ZMM, "FMA512">>, <<"or", YMM, "AVX_2">>,
  <<"uncond", {}, "RDRAND">>, <<"uncond", {}, "CLZERO">> >>

\* Mutant: one of several bits is enough.
HasSomeFeature(have, test) == test = {} \/ test \cap have # {}

\* getCpuidFeature, getXgetbvFeature: all the bits of the test.
HasFeature(have, test) == test \subseteq have

\* One row of a table.
Patched(have, bits, row) ==
  CASE row[1] = "uncond" -> bits \cup Class[row[3]]
    [] row[1] = "or"     -> IF HasFeature(have, row[2]) THEN bits \cup Class[row[3]] ELSE bits
    [] row[1] = "and"    -> IF HasFeature(have, row[2]) THEN bits ELSE bits \ Class[row[3]]

\* buildCpuBitmap and buildOsBitmap over their tables.
BuildBitmap(map, have) ==
  LET bits[i \in 0..Len(map)] == IF i = 0 THEN {} ELSE Patched(have, bits[i - 1], map[i])
  IN bits[Len(map)]

\* FncLoader, with all three libraries or not, and ProcessorDetector. XGETBV is
\* executed only if CPUID shows OSXSAVE.
DetectProcessor ==
  /\ pc = "parse" /\ args = <<>>
  /\ \/ /\ Goto("topology")
        /\ chip' \in Processors
        /\ LET states == IF "osxsave" \in chip'.flags THEN chip'.xcr0 ELSE {}
           IN IF "cpuid" \in chip'.flags
              THEN cpuBits' = BuildBitmap(mapCpu, chip'.flags) /\ osBits' = BuildBitmap(mapOs, states)
              ELSE UNCHANGED <<cpuBits, osBits>>
     \/ Goto("delete") /\ UNCHANGED <<chip, cpuBits, osBits>>
  /\ UNCHANGED <<options, clock, paging, plan, topologyVars>>

-----------------------------------------------------------------------------
(* The other detectors, and the choice of the scenario.                    *)

DetectTopology ==
  /\ pc = "topology"
  /\ Detect
  /\ pc' = CASE tpc' = "detected" -> "paging"
             [] tpc' \in {"hung", "crashed"} -> tpc'
             [] OTHER -> pc
  /\ UNCHANGED <<options, processor, clock, paging, plan>>

\* PagingDetector, whose right needs six calls to succeed, and measureTSC. Of the
\* tests only test=memory goes on to BenchmarkMemory.
DetectPaging ==
  /\ pc = "paging"
  /\ \E large \in LargePages, rights \in BOOLEAN :
       /\ rights => large # 0
       /\ paging' = [large |-> large, rights |-> rights]
  /\ clock' \in BOOLEAN
  /\ Goto(IF parms.test = 0 THEN "resolve" ELSE "delete")
  /\ UNCHANGED <<options, processor, plan, topologyVars>>

-----------------------------------------------------------------------------
(* BenchmarkMemory::execute up to the first row.                           *)

platform == summary["std"]

\* findMaxMethodTemporal and findMaxMethodNonTemporal, by their list of candidates.
FindMax(candidates) ==
  LET fit == {i \in DOMAIN candidates : candidates[i] \in cpuBits \cap osBits}
  IN IF fit = {} THEN NotSet ELSE candidates[Min(fit)]

Method ==
  IF parms.asm # NotSet THEN parms.asm
  ELSE FindMax(IF parms.memory = DRAM THEN <<44, 38, 31, 6, 0>> ELSE <<15, 12, 9, 6, 0>>)

ObjectSize ==
  CASE parms.memory = NotSet -> 0
    [] parms.memory = DRAM   -> DramBlock
    [] OTHER                 -> platform.point[parms.memory + 1]

\* The error returns before the first allocation.
Refused ==
  \/ Method = NotSet
  \/ Method \notin cpuBits
  \/ parms.memory # NotSet /\ ObjectSize = 0
  \/ parms.page = 1 /\ (paging.large = 0 \/ ~paging.rights)

Repeats ==
  LET guess == IF parms.memory = NotSet THEN 2000000 ELSE ApproximationRepeats[parms.memory + 1]
  IN IF parms.repeats # NotSet THEN parms.repeats
     ELSE IF Method \in BuildMethods THEN guess \div 20 ELSE guess

Threads ==
  IF parms.threads # NotSet THEN parms.threads
  ELSE IF parms.memory = DRAM /\ Method \notin BuildMethods
       THEN platform.cores * (IF platform.ht /\ parms.ht = 1 THEN 2 ELSE 1)
       ELSE 1

NoPlan == [method |-> NotSet, start |-> 0, stop |-> 0, delta |-> 0,
           repeats |-> 0, threads |-> 0, counter |-> 0, rows |-> 0]

\* Mutant: the check of the detected size is left out.
ResolveUnchecked ==
  /\ pc = "resolve"
  /\ IF Method = NotSet \/ Method \notin cpuBits
     THEN Goto("delete") /\ UNCHANGED plan
     ELSE /\ plan' = [NoPlan EXCEPT
                 !.method = Method, !.repeats = Repeats, !.threads = Threads,
                 !.start  = IF parms.memory = NotSet THEN parms.start ELSE ObjectSize \div 8,
                 !.stop   = IF parms.memory = NotSet THEN parms.end   ELSE ObjectSize * 2,
                 !.delta  = IF parms.memory = NotSet THEN parms.step  ELSE ObjectSize \div 8]
          /\ Goto("run")
  /\ UNCHANGED <<options, processor, clock, paging, topologyVars>>

\* A number of threads out of range is reported here, and nothing more.
Resolve ==
  /\ pc = "resolve"
  /\ IF Refused
     THEN Goto("delete") /\ UNCHANGED plan
     ELSE /\ plan' = [NoPlan EXCEPT
                 !.method = Method, !.repeats = Repeats, !.threads = Threads,
                 !.start  = IF parms.memory = NotSet THEN parms.start ELSE ObjectSize \div 8,
                 !.stop   = IF parms.memory = NotSet THEN parms.end   ELSE ObjectSize * 2,
                 !.delta  = IF parms.memory = NotSet THEN parms.step  ELSE ObjectSize \div 8]
          /\ Goto("run")
  /\ UNCHANGED <<options, processor, clock, paging, topologyVars>>

Larger(a, b) == IF a < b THEN b ELSE a
Instructions(bytes) == bytes \div BytesPerInstruction(plan.method)

\* What a round of the pool can come to, or the calls before it. The kernels count
\* down to 0, so 0 repeats are 2^64 of them; of 0 instructions the latency kernels
\* write 2^64 as well, and the others execute none, except those that set registers
\* before. A walk follows the pointers it finds in the block, which is blank unless a
\* chain has been built. An instruction the system has not enabled is an illegal one.
Round(n, bytes, repeats, next) ==
  \/ Goto("delete")
  \/ /\ n \in 1..MaxWaitObjects /\ Larger(plan.start, plan.stop) > 0
     /\ repeats > 0 \/ plan.method \in BuildMethods
     /\ plan.method \notin WalkMethods
     /\ plan.method \in BuildMethods => Instructions(bytes) > 0
     /\ Instructions(bytes) > 0 => plan.method \in Executable
     /\ Goto(next)
  \/ /\ n > 0
     /\ \/ n > MaximumThreads
        \/ plan.method \in WalkMethods
        \/ plan.method \in BuildMethods /\ Instructions(bytes) = 0
        \/ plan.method \notin Executable
     /\ Goto("crashed")

\* The memory, buildThreadsList and runThreads. The list has room for MaximumThreads.
RunThreads ==
  /\ pc = "run"
  /\ Round(plan.threads % ThreadModulus, plan.start, plan.repeats, "rows")
  /\ UNCHANGED <<options, processor, clock, paging, plan, topologyVars>>

\* A number kept in an int.
AsInt(n) == LET r == n % IntModulus IN IF r < IntModulus \div 2 THEN r ELSE r - IntModulus

\* The number of rows and the arrays of their results: a division by the step, and a
\* length in an int. A negative length makes malloc fail, one that has wrapped gives
\* arrays that are too short for the loop that blanks them.
CountRows ==
  /\ pc = "rows"
  /\ IF plan.delta = 0
     THEN Goto("crashed") /\ UNCHANGED plan
     ELSE LET span == Larger(plan.start, plan.stop) - Min({plan.start, plan.stop})
              rows == AsInt(span \div plan.delta) + 1
              ma   == AsInt(8 * rows)
          IN /\ plan' = [plan EXCEPT !.rows = rows]
             /\ Goto(CASE ma < 0                 -> "delete"
                       [] ma \in 0..8 * rows - 1 -> "crashed"
                       [] OTHER                  -> "calibrate")
  /\ UNCHANGED <<options, processor, clock, paging, topologyVars>>

\* Without repeats= or adaptive= the counter is set to what fills one second: the
\* repeats by their time, as an int. The times are those of one repeat over the
\* largest block. Without a clock the period is infinite and the quotient 0.
Calibrate ==
  /\ pc = "calibrate"
  /\ IF parms.repeats = NotSet /\ parms.adaptive = NotSet
     THEN /\ Round(plan.threads % ThreadModulus, Larger(plan.start, plan.stop), plan.repeats,
                   "measure")
          /\ IF pc' = "measure"
             THEN \E ms \in PassTimes :
                    plan' = [plan EXCEPT !.counter = IF clock THEN 1000 \div ms ELSE 0]
             ELSE UNCHANGED plan
     ELSE Goto("measure") /\ plan' = [plan EXCEPT !.counter = plan.repeats]
  /\ UNCHANGED <<options, processor, clock, paging, topologyVars>>

\* The first turn of the loop over the sizes: adaptive= is divided by the number of
\* instructions, and no round ends in time with a counter of 0.
Measure ==
  /\ pc = "measure"
  /\ IF plan.rows <= 0 THEN Goto("delete") ELSE IF parms.adaptive # NotSet /\ Instructions(plan.start) = 0
     THEN Goto("crashed")
     ELSE LET counter == IF parms.adaptive = NotSet THEN plan.counter
                         ELSE Larger(1, parms.adaptive \div Instructions(plan.start))
          IN Goto("delete") \/ (counter > 0 /\ Goto("row"))
  /\ UNCHANGED <<options, processor, clock, paging, plan, topologyVars>>

\* The end of maintask: the detectors that were created are deleted.
Delete ==
  /\ pc \in {"row", "delete"}
  /\ Goto("exit")
  /\ IF tpc = "detected" THEN FreeTopology ELSE UNCHANGED topologyVars
  /\ UNCHANGED <<options, processor, clock, paging, plan>>

-----------------------------------------------------------------------------
StartInit ==
  /\ TopologyInit
  /\ line \in CommandLines /\ args = line /\ pc = "parse" /\ parms = Defaults
  /\ chip = [flags |-> {}, xcr0 |-> {}] /\ cpuBits = {} /\ osBits = {}
  /\ clock = FALSE /\ paging = [large |-> 0, rights |-> FALSE]
  /\ plan = NoPlan

Step ==
  \/ ParseArgument \/ DetectProcessor \/ DetectTopology \/ DetectPaging
  \/ Resolve \/ RunThreads \/ CountRows \/ Calibrate \/ Measure \/ Delete

MachineMoves == pc = "topology" /\ MachineChanges /\ UNCHANGED startVars
Stopped      == pc \in {"exit", "rejected", "crashed", "hung"} /\ UNCHANGED vars

StartNext == Step \/ MachineMoves \/ Stopped

\* One thread, which runs until it ends.
StartSpec == StartInit /\ [][StartNext]_vars /\ WF_vars(Step)

-----------------------------------------------------------------------------
\* The parser refuses a line only for an argument it cannot understand. Once it has read
\* a line, it has understood every argument, and each option has the value that is
\* written in the last argument that names it, or its default; but a number beyond the
\* largest int is taken for the largest int, without a word.
Naming(o)  == {i \in DOMAIN line : line[i][1] = o}
Written(o) == line[Max(Naming(o))][2]
Fits(v)    == v[1] \in {"num", "size"} => v[2] < IntModulus \div 2
ParseIsExact ==
  /\ pc = "rejected" => \E i \in DOMAIN line : ~Accepted(line[i][1], line[i][2])
  /\ args = <<>> =>
       /\ \A i \in DOMAIN line : Accepted(line[i][1], line[i][2])
       /\ \A o \in Options :
            IF Naming(o) = {} THEN parms[o] = Defaults[o]
            ELSE LET v == Written(o)
                     n == IF Fits(v) THEN v[2] ELSE IntModulus \div 2 - 1
                 IN CASE v[1] = "num"  -> parms[o] = n
                      [] v[1] = "size" -> parms[o] = n * Unit(v[3])
                      [] v[1] = "key"  -> Keys[o][parms[o] + 1] = v[2]

\* The two bitmaps together hold exactly the methods the processor can execute under
\* this system, although several rows of the tables patch the same class. So a method
\* that is chosen automatically can be executed; it is never a walk, whose chain nobody
\* has built. One the user names is at least known to the processor.
MethodsAreExact ==
  /\ (pc \notin {"parse", "rejected"} /\ "cpuid" \in chip.flags) => cpuBits \cap osBits = Executable
  /\ plan.method # NotSet =>
       /\ plan.method \in cpuBits
       /\ parms.asm = NotSet => plan.method \in Executable \ (WalkMethods \cup BuildMethods)

\* The sizes that execute() takes from a topology of the system make a session of
\* sixteen rows with at least one instruction in each, as BenchmarkMemory assumes. The
\* counter of repeats the workers count down from is not 0, unless the user says so or
\* the calibration gets there: without a clock, or when a repeat takes more than a second.
PlanIsLegal ==
  /\ (plan.method # NotSet /\ parms.memory # NotSet /\ ~failed) =>
       /\ 0 < plan.delta /\ plan.start <= plan.stop
       /\ Instructions(plan.start) >= 1
       /\ pc \in {"calibrate", "measure", "row"} => plan.rows = 16
  /\ (pc = "measure" /\ plan.counter = 0) =>
       \/ parms.repeats = 0
       \/ parms.repeats = NotSet /\ (~clock \/ \E ms \in PassTimes : ms > 1000)

\* The program crashes or hangs only after a failed call of the topology detector, or if
\* the command line has brought it there: by an argument too long for its buffer, by its
\* own block sizes, by more threads than the pool's list has room for, by a walk without
\* a chain, or by a method the system has not enabled, which the check of osBitmap would
\* have found (it tests cpuBitmap once more). No other platform and no other option do.
CrashIsAskedFor ==
  pc \in {"crashed", "hung"} =>
    \/ failed
    \/ \E i \in DOMAIN line : line[i][3]
    \/ parms.memory = NotSet /\ \E i \in DOMAIN line : line[i][1] \in {"start", "end", "step"}
    \/ parms.threads > MaximumThreads
    \/ parms.asm \in WalkMethods \cup (cpuBits \ osBits)

\* maintask ends: the queries terminate although the topology changes between them.
StartEnds == <>(pc \in {"exit", "rejected", "crashed", "hung"})
=============================================================================
