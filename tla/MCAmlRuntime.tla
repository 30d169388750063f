------------------------------ MODULE MCAmlRuntime ------------------------------
(* Parts of the AML runtime that a script uses one by one: threads and channels, pipes
   and the index, compiled modules, the field with its gamma slots and METHOD, what is
   kept of it, and the running of scripts. One moves and the others stay as they were
   started, so that the states of each are those it has alone.

   The scripts for AmlAsync are the README's example and those of test_aml.c (Phase 4),
   made to meet at the limits of small tables. Only the host's thread spawns, creates and
   awaits, as in every script of the repository.                                        *)
EXTENDS AmlAsync, AmlPipes, AmlBlood, AmlSoma, AmlScript

Spawn(n)      == [op |-> "spawn", name |-> n]
Await(n)      == [op |-> "await", name |-> n]
Create(c, k)  == [op |-> "create", name |-> c, cap |-> k]
Put(c, v)     == [op |-> "write", name |-> c, val |-> v]
Get(c)        == [op |-> "read", name |-> c]
CloseOne(c)   == [op |-> "close", name |-> c]
CloseEvery    == [op |-> "closeall"]
AwaitAll      == [op |-> "awaitall"]
AmInit        == [op |-> "init"]

(* README.md 475-489: two writers, one reader, on a channel smaller than what they write. *)
TwoWriters ==
  [main |-> <<Create("bus", 2), Spawn("earth"), Spawn("air"), Get("bus"), Await("earth"), Await("air"),
              Get("bus"), Get("bus")>>,
   body |-> [n \in {"earth", "air"} |-> IF n = "earth" THEN <<Put("bus", 1), Put("bus", 2)>>
                                        ELSE <<Put("bus", 3)>>]]

(* A full channel and an empty one, closed while a thread may be waiting; am_init
   while the other still runs, and a channel of another name in the same slot. *)
InitWhileWaiting ==
  [main |-> <<Create("full", 1), Spawn("w"), CloseOne("full"), AmInit, Create("next", 0),
              Put("next", 9), Get("next")>>,
   body |-> [n \in {"w"} |-> <<Put("full", 1), Put("full", 2), Get("none")>>]]

(* More spawns than slots, one name twice, and an unknown channel. *)
FullTable ==
  [main |-> <<Spawn("a"), Spawn("a"), Spawn("a"), Await("a"), Await("a"), Await("a"), AwaitAll,
              Create("x", 1), Create("y", 1), Create("z", 1), CloseEvery>>,
   body |-> [n \in {"a"} |-> <<>>]]

(* Each side waits for the other: only the time-out ends it. *)
Crossed ==
  [main |-> <<Create("p", 1), Create("q", 1), Spawn("b"), Get("p"), Put("q", 1), AwaitAll>>,
   body |-> [n \in {"b"} |-> <<Get("q"), Put("p", 2)>>]]

(* Two writers and two readers that overtake and time out. *)
Crowd ==
  [main |-> <<Create("c", 2), Spawn("w"), Spawn("r"), Put("c", 1), Get("c"), Put("c", 2), AwaitAll>>,
   body |-> [n \in {"w", "r"} |-> IF n = "w" THEN <<Put("c", 3), Put("c", 4), Put("c", 5)>>
                                  ELSE <<Get("c"), Get("c")>>]]

Idle == [main |-> <<>>, body |-> [n \in {} |-> <<>>]]

MCPrograms == {Crowd, TwoWriters, InitWhileWaiting, FullTable, Crossed, Idle}

-----------------------------------------------------------------------------
\* The voices' words.
MCVocabulary == [v \in Voices |-> IF v = "yent" THEN {1, 2} ELSE {7}]

\* What is loaded and saved with the soma: a field that differs from a fresh one in few parts.
FewChanges == /\ field.set = FreshField.set /\ ~field.pack /\ field.debt = 0 /\ field.season = 0
              /\ gamma.essence \in {0, Top} /\ gamma.blend = 0 /\ GammaAt(gamma, "c") = {}

-----------------------------------------------------------------------------
(* Scripts. Every well-formed script of five lines without calls, and a few with them. *)

Line(n, op, name, calls) == [indent |-> n, op |-> op, name |-> name, calls |-> calls]
IsHeader(l) == l.op \in {"if", "else", "while"}

WellFormed ==
  LET lines == [indent : 0..2, op : {"if", "else", "while", "step", "return"}, name : {"float"}, calls : {<<>>}]
  IN  {L \in [1..5 -> lines] :
         /\ L[1].indent = 0
         /\ \A i \in 2..5 : L[i].indent <= L[i - 1].indent + (IF IsHeader(L[i - 1]) THEN 1 ELSE 0)
         /\ \A i \in 1..5 : IsHeader(L[i]) => i < 5 /\ L[i + 1].indent > L[i].indent
         /\ \A i \in 1..5 : L[i].op = "else" =>
              \E h \in 1..(i - 1) : L[h].op = "if" /\ BlockEnd(L, h) = i /\ L[h].indent = L[i].indent}

Branches == << Line(0, "while", "", <<>>), Line(1, "if", "", <<>>), Line(2, "step", "", <<>>),
               Line(1, "else", "", <<>>), Line(2, "if", "", <<>>), Line(3, "assign", "", <<>>),
               Line(0, "direct", "", <<>>) >>

\* A recursive function, values nobody takes, and native functions.
WithCalls ==
  << Line(0, "def", "f", <<>>), Line(1, "if", "", <<>>), Line(2, "return", "float", <<"f">>),
     Line(1, "while", "", <<>>), Line(2, "return", "array", <<>>),
     Line(0, "assign", "", <<"f", "g">>), Line(0, "def", "g", <<>>), Line(1, "call", "f", <<>>),
     Line(1, "step", "", <<>>), Line(0, "step", "", <<"galvanize", "f">>), Line(0, "call", "g", <<"f">>) >>

\* A loop whose condition calls a function and whose body returns.
Searching ==
  << Line(0, "def", "more", <<>>), Line(1, "return", "float", <<>>), Line(0, "def", "find", <<>>),
     Line(1, "while", "", <<"more">>), Line(2, "if", "", <<>>), Line(3, "return", "float", <<>>),
     Line(1, "step", "", <<>>), Line(0, "assign", "", <<"find">>), Line(0, "if", "", <<"find">>),
     Line(1, "direct", "", <<>>), Line(0, "else", "", <<>>), Line(1, "step", "", <<>>) >>

\* Scripts within scripts; a block that is spawned.
Including ==
  << Line(0, "spawn", "s", <<>>), Line(1, "if", "", <<>>), Line(2, "step", "", <<>>), Line(1, "else", "", <<>>),
     Line(2, "include", "branches", <<>>), Line(0, "include", "calls", <<>>), Line(0, "macro", "plain", <<>>),
     Line(0, "include", "missing", <<>>), Line(0, "step", "", <<>>) >>

Plain == << Line(0, "assign", "", <<>>), Line(0, "direct", "", <<>>), Line(0, "macro", "none", <<>>), Line(0, "step", "", <<>>) >>
Again == << Line(0, "include", "again", <<>>), Line(0, "step", "", <<>>) >>

MCNamedScripts == [branches |-> Branches, calls |-> WithCalls, plain |-> Plain, again |-> Again]
MCHostScripts  == WellFormed \union {Branches, WithCalls, Searching, Including, Plain, Again}

-----------------------------------------------------------------------------
VARIABLE moving

\* How many calls of the field or of its files a session makes.
CallsOf == [physics |-> 3, method |-> 4, gamma |-> 3, words |-> 4, soma |-> 4, carried |-> 7, retold |-> 8]
Parts == {"async", "pipes", "blood", "scripts"} \union DOMAIN CallsOf

RuntimeInit ==
  /\ moving \in Parts /\ Init /\ PipesInit /\ BloodStart /\ FieldInit /\ SomaInit /\ ScriptsInit
  /\ (moving = "async") = (th[Main].code # <<>>)
  /\ moving # "blood" => cc
  /\ moving # "words" => voice = "yent"

FieldPart ==
  /\ fieldCalls < CallsOf[moving]
  /\ \/ moving = "physics" /\ (SetField \/ Native \/ OffPeak \/ FieldStep) /\ UNCHANGED somaVars
     \/ moving = "method" /\ (MethodGathers \/ MethodStep) /\ UNCHANGED somaVars
     \/ moving = "gamma" /\ (SetGamma \/ FieldStep) /\ UNCHANGED somaVars
     \/ moving = "soma" /\ (SetField \/ SetGamma) /\ UNCHANGED somaVars /\ FewChanges'
     \/ moving = "soma" /\ (SaveSoma \/ LoadSoma \/ Restart)
     \/ moving = "words" /\ SomaNext /\ soma'.cut = 0
     \* What is saved, loaded in part, saved again and loaded by a third process.
     \/ moving = "carried" /\ (SaveSoma \/ LoadSoma \/ Restart) /\ voice' = voice /\ soma'.cut = 0
     \/ moving = "carried" /\ SetField /\ UNCHANGED somaVars /\ field' \in {Moving(field, -1), Moving(field, 1)}
     \/ moving = "retold" /\ (SaveSidecar \/ LoadSidecar \/ Restart \/ Ingest) /\ voice' = voice
          /\ words'.ring \in {<<>>, <<1, 2>>, <<2, 1>>}

RuntimeNext ==
  /\ UNCHANGED moving
  /\ \/ moving = "async" /\ Next /\ UNCHANGED <<pipeVars, bloodVars, fieldVars, somaVars, scriptVars>>
     \/ moving = "pipes" /\ PipesNext /\ UNCHANGED <<vars, bloodVars, fieldVars, somaVars, scriptVars>>
     \/ moving = "blood" /\ BloodNext /\ UNCHANGED <<vars, pipeVars, fieldVars, somaVars, scriptVars>>
     \/ moving = "scripts" /\ ScriptNext /\ UNCHANGED <<vars, pipeVars, bloodVars, fieldVars, somaVars>>
     \/ moving \in DOMAIN CallsOf /\ FieldPart /\ UNCHANGED <<vars, pipeVars, bloodVars, scriptVars>>

runtimeVars == <<moving, vars, pipeVars, bloodVars, fieldVars, somaVars, scriptVars>>

(* The fairness of AmlAsync's FairSpec, for the threads that move; the rest promises
   nothing that needs any. *)
RuntimeSpec ==
  /\ RuntimeInit /\ [][RuntimeNext]_runtimeVars
  /\ \A t \in Threads : WF_vars(moving = "async" /\ Step(t))
=============================================================================
