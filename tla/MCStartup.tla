----------------------------- MODULE MCStartup -----------------------------
(* Platforms and command lines for Startup. *)
EXTENDS Startup

Cache(level, type, bytes) == [rel |-> "cache", level |-> level, type |-> type, bytes |-> bytes, smt |-> FALSE]
Entry(rel, smt) == [rel |-> rel, level |-> 0, type |-> "unified", bytes |-> 0, smt |-> smt]

\* Two performance cores with threads; a hybrid machine with an efficient core whose
\* first level cache is listed last and has another size; a machine without level 4.
Plain ==
  <<Entry("core", TRUE), Cache(1, "data", 32768), Cache(1, "instruction", 65536),
    Cache(2, "unified", 262144), Entry("core", TRUE), Entry("node", FALSE), Entry("package", FALSE)>>
Hybrid ==
  <<Entry("core", TRUE), Cache(1, "data", 49152), Cache(1, "instruction", 32768),
    Entry("core", FALSE), Cache(1, "data", 32768), Cache(1, "instruction", 65536),
    Cache(3, "unified", 8388608), Cache(4, "unified", 16777216), Entry("group", FALSE)>>
Machines == {Plain, Hybrid}

\* A buffer whose sizes are below an instruction.
Rubbish == {[BlankSummary EXCEPT !.point = <<8, 0, 4096, 1000000>>, !.cores = 300]}

Base == {"cpuid", "mmx", "sse"}
Chips ==
  { [flags |-> {}, xcr0 |-> {}],
    [flags |-> Base \cup {"osxsave", "avx", "avx2", "fma", "sse4.1"}, xcr0 |-> YMM],
    [flags |-> Base \cup {"avx", "avx2", "avx512f", "fma"}, xcr0 |-> ZMM],
    [flags |-> Base \cup {"osxsave", "avx", "avx2", "avx512f"}, xcr0 |-> YMM],
    [flags |-> Base \cup {"osxsave", "avx", "avx2", "avx512f", "fma", "rdrand"}, xcr0 |-> ZMM] }

Test   == <<"test", <<"key", "memory">>, FALSE>>
Set(o, k)  == <<o, <<"key", k>>, FALSE>>
Num(o, n)  == <<o, <<"num", n>>, FALSE>>
Size(o, n, u) == <<o, <<"size", n, u>>, FALSE>>
Long(a) == [a EXCEPT ![3] = TRUE]

Crossed ==
  { <<Test>> \o a \o m :
      a \in {<<>>, <<Set("asm", 15)>>, <<Set("asm", 24)>>},
      m \in {<<>>, <<Set("memory", "l1")>>, <<Set("memory", "dram")>>} }
Curated ==
  { <<Set("info", "all")>>, <<Test, Num("colour", 1)>>, <<Test, Set("asm", 28)>>,
    <<Test, Num("threads", 2), Num("threads", 1), Set("memory", "dram"), Set("ht", "on")>>,
    <<Test, Set("memory", "dram"), Set("ht", "on"), Num("adaptive", 1000)>>,
    <<Set("test", "cpu"), Test, Set("page", "large"), Set("memory", "l2")>>,
    <<Test, Num("threads", 9)>>, <<Test, Num("threads", 16)>>, <<Test, Num("repeats", 0)>>,
    <<Test, Num("repeats", 3), Set("memory", "l3"), <<"memory", <<"bad">>, FALSE>>>>,
    <<Test, Num("start", 0), Num("end", 0)>>, <<Test, Num("step", 0)>>,
    <<Test, Num("start", 4), Size("end", 1, "K"), Num("step", 64), Num("adaptive", 8)>>,
    <<Test, Size("end", 4, "M")>>, <<Test, Size("end", 2, "M"), Size("step", 1, "K")>>,
    <<Test, Size("start", 1, "M"), Size("end", 8, "K")>>,
    <<Test, Num("repeats", 5000), Num("threads", 3000), Num("threads", 1)>>,
    <<Test, Size("end", 4000, "K"), Size("step", 1, "M")>>,
    <<Test, Long(Num("repeats", 1))>>, <<Long(<<"colour", <<"bad">>, FALSE>>)>>,
    <<Test, Set("asm", 15), Num("start", 4), Num("end", 4096)>>, <<Test, Set("asm", 19)>> }
Lines == Crossed \cup Curated

PageSizes == {0, 2097152}
Times     == {1000}
=============================================================================
