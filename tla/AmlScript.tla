------------------------------- MODULE AmlScript -------------------------------
(* How the AML interpreter runs a script (bake/aml/core/ariannamethod.c): blocks by
   indentation, functions, returns, scripts run within scripts, and the loop over
   compiled lines. An expression stands for the functions it calls, in order, and a
   condition for either outcome. The values of variables are left out; what SPAWN starts
   is run after the rest, its concurrency being AmlAsync's.

   A line is [indent, op, name, calls]: what kind it is, what it defines, calls or runs,
   and the calls of its expression. "step" is any command or assignment that only sets
   something; "direct" one that am_compile turns into an operation of its own.        *)
EXTENDS Integers, Sequences, SequencesExt, FiniteSets, FiniteSetsExt, Functions

CONSTANTS
  HostScripts,   \* scripts a host runs
  NamedScripts,  \* name -> script: files of INCLUDE and bodies of macros
  Builtins,      \* names of native functions
  MaxFuncs,      \* AML_MAX_FUNCS
  MaxCallDepth,  \* AML_MAX_CALL_DEPTH
  MaxIterations, \* 10000
  MaxNesting     \* bound on scripts within scripts: the code has none

ASSUME ScriptLimits == {MaxFuncs, MaxCallDepth, MaxIterations, MaxNesting} \subseteq Nat \ {0}

VARIABLES
  ctxs,     \* the contexts of am_exec within am_exec, the running one last
  waiting,  \* scripts of SPAWN blocks, not yet begun
  gError,   \* g_error
  hop       \* the last move from one line to the next in a script or function; 0 is its end

scriptVars == <<ctxs, waiting, gError, hop>>

NoHop == [lines |-> <<>>, from |-> 0, to |-> 0, compiled |-> FALSE]

-----------------------------------------------------------------------------
(* aml_find_block_end and aml_register_funcs. *)

BlockEnd(L, i) == Min({j \in (i + 1)..(Len(L) + 1) : j > Len(L) \/ L[j].indent <= L[i].indent})

HasElse(L, i) == BlockEnd(L, i) <= Len(L) /\ L[BlockEnd(L, i)].op = "else"

(* A slip: after a taken branch the else block is run as well. *)
AfterIfOnly(L, i) == BlockEnd(L, i)

AfterIf(L, i) == IF HasElse(L, i) THEN BlockEnd(L, BlockEnd(L, i)) ELSE BlockEnd(L, i)

(* A body is skipped, so what is defined within another function is not found. Native ones
   come first, also in the search. *)
Registered(L) ==
  LET defs == {i \in DOMAIN L : L[i].op = "def" /\ \A h \in 1..(i - 1) : L[h].op = "def" => i >= BlockEnd(L, h)}
  IN  {i \in defs : Cardinality({h \in defs : h < i}) + Cardinality(Builtins) < MaxFuncs}
FunctionsNamed(L, f) == {i \in Registered(L) : L[i].name = f}

-----------------------------------------------------------------------------
(* The context c of a running script, and its frames, the current one last:
   "script" and "call" know the line run last; "block" the next line and its end;
   "eval" the calls still to make for a line, and how often the line was passed before;
   "while" its line and the number of rounds; "ops" the next operation.               *)

Block(i, e)     == [k |-> "block", at |-> i, end |-> e]
Eval(i, cs, n)  == [k |-> "eval", line |-> i, calls |-> cs, count |-> n]
Rounds(i, n)    == [k |-> "while", line |-> i, count |-> n]
Ops             == [k |-> "ops", at |-> 1]

Frame(c)     == Last(c.frames)
Popped(c)    == [c EXCEPT !.frames = Front(@)]
OnTop(c, f) == [c EXCEPT !.frames = Append(@, f)]
Activation(c) == Max({j \in DOMAIN c.frames : c.frames[j].k \in {"script", "call"}})
CallDepth(c) == Cardinality({j \in DOMAIN c.frames : c.frames[j].k = "call"})

Context(lines, compiled) ==
  [lines |-> lines, compiled |-> compiled, ret |-> "none", error |-> FALSE,
   frames |-> <<[k |-> "script", ran |-> 0], IF compiled THEN Ops ELSE Block(1, Len(lines) + 1)>>]

(* The line i is run next, or with 0 the script or function ends. *)
Moved(c, i)   == [c EXCEPT !.frames[Activation(c)].ran = i]
Hop(c, i)     == hop' = [lines |-> c.lines, from |-> c.frames[Activation(c)].ran, to |-> i, compiled |-> c.compiled]

(* aml_call_func, until its body is run. A bare call is a statement. A function that is not
   there, or a native one, sets nothing here. *)
Known(c, f)   == f \notin Builtins /\ FunctionsNamed(c.lines, f) # {}
TooDeep(c, f) == Known(c, f) /\ CallDepth(c) >= MaxCallDepth

Invoked(c, f, bare) ==
  LET i == Min(FunctionsNamed(c.lines, f))
      call == [k |-> "call", ran |-> -i, saved |-> c.ret, bare |-> bare]
  IN  CASE TooDeep(c, f) -> [c EXCEPT !.error = TRUE]
        [] ~Known(c, f)  -> c
        [] OTHER -> OnTop(OnTop([c EXCEPT !.ret = "none"], call), Block(i + 1, BlockEnd(c.lines, i)))

(* Its end: what it returned stays, or the caller's state comes back. An expression takes
   a number; an array stays for an assignment to take. *)
Returned(c) ==
  LET f == Frame(c)
      kept == IF c.ret = "none" THEN f.saved ELSE c.ret
  IN  [Popped(c) EXCEPT !.ret = IF ~f.bare /\ kept = "float" THEN "none" ELSE kept]

(* aml_exec_line up to its expression. *)
Begun(c, i) ==
  LET line == c.lines[i]
      past == [c EXCEPT !.frames[Len(c.frames)].at =
                 CASE c.compiled /\ Frame(c).k = "ops" -> i + 1
                   [] line.op \in {"def", "while", "spawn"} -> BlockEnd(c.lines, i)
                   [] line.op = "if" -> AfterIf(c.lines, i)
                   [] OTHER -> i + 1]
  IN  Moved(IF line.op \in {"def", "spawn", "include", "macro", "else", "direct"} THEN past
            ELSE OnTop(past, Eval(i, line.calls, 0)), i)

(* The rest of it, with the value v of the condition. *)
Done(c, v) ==
  LET e == Frame(c)
      L == c.lines
      line == L[e.line]
      body == Block(e.line + 1, BlockEnd(L, e.line))
      d == Popped(c)
  IN  CASE line.op = "assign" -> [d EXCEPT !.ret = "none"]
        [] line.op = "return" -> [d EXCEPT !.ret = IF @ = "array" THEN @ ELSE line.name]
        [] line.op = "call"   -> Invoked(d, line.name, TRUE)
        [] line.op = "if"     -> IF v THEN OnTop(d, body)
                                 ELSE IF HasElse(L, e.line)
                                      THEN OnTop(d, Block(BlockEnd(L, e.line) + 1, AfterIf(L, e.line))) ELSE d
        [] line.op = "while"  -> IF v /\ e.count < MaxIterations /\ c.ret = "none"
                                 THEN OnTop(OnTop(d, Rounds(e.line, e.count + 1)), body) ELSE d
        [] OTHER -> d

-----------------------------------------------------------------------------
ScriptsInit == ctxs = <<>> /\ waiting = <<>> /\ gError = "" /\ hop = NoHop

Current   == Last(ctxs)
Becomes(c) == ctxs' = [ctxs EXCEPT ![Len(ctxs)] = c]
Running(k) == ctxs # <<>> /\ Frame(Current).k = k

(* am_exec, am_exec_file, and am_exec_compiled of what am_compile made. *)
Exec == /\ ctxs = <<>> /\ waiting = <<>> /\ hop.from = 0
        /\ \E lines \in HostScripts, compiled \in BOOLEAN : ctxs' = <<Context(lines, compiled)>>
        /\ gError' = "" /\ UNCHANGED <<waiting, hop>>

(* The text of a SPAWN block's lines has lost its indentation. *)
Flattened(L, i) == [j \in 1..(BlockEnd(L, i) - i - 1) |-> [L[i + j] EXCEPT !.indent = 0]]
SpawnBegins == /\ ctxs = <<>> /\ waiting # <<>>
               /\ ctxs' = <<Context(Head(waiting), FALSE)>> /\ waiting' = Tail(waiting)
               /\ gError' = "" /\ UNCHANGED hop

(* A script within this one has a context, and an error, of its own; the error of the last
   one to fail stays. INCLUDE's limit counts within one context only. *)
Opens(line) == line.name \in DOMAIN NamedScripts
RunsAnother(c, line) ==
  IF Opens(line)
  THEN /\ Len(ctxs) < MaxNesting /\ gError' = ""
       /\ ctxs' = Append([ctxs EXCEPT ![Len(ctxs)] = c], Context(NamedScripts[line.name], FALSE))
  ELSE Becomes(c) /\ gError' = IF line.op = "include" THEN "cannot open" ELSE gError

ExecLine(i) ==
  /\ Hop(Current, i)
  /\ LET line == Current.lines[i]
         c == Begun(Current, i)
     IN  IF line.op \in {"include", "macro"} THEN RunsAnother(c, line) /\ UNCHANGED waiting
         ELSE /\ Becomes(c) /\ UNCHANGED gError
              /\ waiting' = IF line.op = "spawn" /\ BlockEnd(c.lines, i) > i + 1
                            THEN Append(waiting, Flattened(c.lines, i)) ELSE waiting

(* aml_exec_block *)
BlockRuns == /\ Running("block") /\ Frame(Current).at < Frame(Current).end /\ Current.ret = "none"
             /\ ExecLine(Frame(Current).at)
BlockEnds == /\ Running("block") /\ ~(Frame(Current).at < Frame(Current).end /\ Current.ret = "none")
             /\ Becomes(Popped(Current)) /\ UNCHANGED <<waiting, gError, hop>>

Calls == /\ Running("eval") /\ Frame(Current).calls # <<>>
         /\ LET f == Head(Frame(Current).calls)
                c == [Current EXCEPT !.frames[Len(Current.frames)].calls = Tail(@)]
            IN  Becomes(Invoked(c, f, FALSE)) /\ gError' = IF TooDeep(c, f) THEN "max call depth" ELSE gError
         /\ UNCHANGED <<waiting, hop>>

LineEnds ==
  /\ Running("eval") /\ Frame(Current).calls = <<>> /\ UNCHANGED <<waiting, hop>>
  /\ LET line == Current.lines[Frame(Current).line]
     IN  /\ \E v \in IF line.op \in {"if", "while"} THEN BOOLEAN ELSE {TRUE} : Becomes(Done(Current, v))
         /\ gError' = IF line.op = "call" /\ TooDeep(Current, line.name) THEN "max call depth" ELSE gError

(* The condition is computed again also after a return in the body. *)
LoopAgain ==
  /\ Running("while") /\ UNCHANGED <<waiting, gError>>
  /\ LET f == Frame(Current)
         calls == Current.lines[f.line].calls
         c == OnTop(Popped(Current), Eval(f.line, calls, f.count))
     IN  IF Current.ret = "none" \/ calls # <<>> THEN Hop(c, f.line) /\ Becomes(Moved(c, f.line))
         ELSE Becomes(c) /\ UNCHANGED hop

CallEnds == Running("call") /\ Hop(Current, 0) /\ Becomes(Returned(Current)) /\ UNCHANGED <<waiting, gError>>

(* The loop of am_exec_compiled. It goes from line to line, whatever the line says comes
   next; a return stops what the interpreter is asked for and not the direct operations. *)
OpRuns ==
  /\ Running("ops") /\ Frame(Current).at <= Len(Current.lines) /\ ~Current.error
  /\ LET i == Frame(Current).at
     IN  IF Current.ret # "none" /\ Current.lines[i].op # "direct"
         THEN Becomes([Current EXCEPT !.frames[Len(Current.frames)].at = i + 1]) /\ UNCHANGED <<waiting, gError, hop>>
         ELSE ExecLine(i)
OpsEnd == /\ Running("ops") /\ (Frame(Current).at > Len(Current.lines) \/ Current.error)
          /\ Becomes(Popped(Current)) /\ UNCHANGED <<waiting, gError, hop>>

ContextEnds == /\ Running("script") /\ Hop(Current, 0) /\ ctxs' = Front(ctxs) /\ UNCHANGED waiting
              /\ gError' = IF Current.error THEN "max call depth" ELSE gError

ScriptNext == \/ Exec \/ SpawnBegins \/ BlockRuns \/ BlockEnds \/ Calls \/ LineEnds \/ LoopAgain
              \/ CallEnds \/ OpRuns \/ OpsEnd \/ ContextEnds

-----------------------------------------------------------------------------
(* What the indentation of a script says of its order, with no block's end computed. *)

Inner(L, h)    == {i \in DOMAIN L : i > h /\ \A k \in (h + 1)..i : L[k].indent > L[h].indent}
Owner(L, i)    == Max({0} \union {h \in 1..(i - 1) : i \in Inner(L, h)})

(* The line after the statement at i is complete, its body included: the next one of its
   block, or what comes after the block: a loop's header again, what follows the if, or
   nothing at the end of a function or of the script.                                   *)
RECURSIVE After(_, _)
After(L, i) ==
  LET j == i + Cardinality(Inner(L, i)) + 1
      o == Owner(L, i)
  IN  IF j <= Len(L) /\ Owner(L, j) = o THEN IF L[i].op = "if" /\ L[j].op = "else" THEN After(L, j) ELSE j
      ELSE IF o = 0 \/ L[o].op = "def" THEN 0 ELSE IF L[o].op = "while" THEN o ELSE After(L, o)

Entered(L, h) == IF Inner(L, h) = {} THEN After(L, h) ELSE h + 1
Successors(L, i) ==
  LET e == i + Cardinality(Inner(L, i)) + 1
  IN  CASE i <= 0 -> {IF i = 0 \/ Inner(L, -i) # {} THEN 1 - i ELSE 0}
        [] L[i].op = "return" -> {0}
        [] L[i].op = "while"  -> {Entered(L, i), After(L, i)}
        [] L[i].op = "if"     -> {Entered(L, i), IF e <= Len(L) /\ L[e].op = "else" THEN Entered(L, e) ELSE After(L, i)}
        [] OTHER -> {After(L, i)}

(* Two ways the code departs from it. A value that a call returns and no assignment or
   expression takes is taken for the caller's own return; and the call in a loop's
   condition, made once more after a return in the loop's body, can undo that return.   *)
Untaken(L, i)   == i > 0 /\ (L[i].op = "call" \/ L[i].calls # <<>>)
Retracted(L, i) == i > 0 /\ L[i].op = "return" /\ \E h \in 1..i : i \in Inner(L, h) /\ L[h].op = "while" /\ L[h].calls # <<>>

(* The interpreter goes from line to line as the indentation says, through every nesting of
   blocks, loops, calls, returns and scripts within scripts: no body is run without its
   header, none is left early and nothing is run after a return. A compiled script does so
   when it has neither blocks nor returns nor calls.                                      *)
ScriptsRunAsWritten ==
  LET L == hop.lines
      plain == \A i \in DOMAIN L : L[i].op \in {"step", "assign", "direct", "include", "macro"} /\ L[i].calls = <<>>
  IN  /\ hop # NoHop /\ (hop.compiled => plain) =>
           \/ hop.to \in Successors(L, hop.from)
           \/ hop.to = 0 /\ Untaken(L, hop.from)
           \/ Retracted(L, hop.from)
      /\ \A n \in DOMAIN ctxs : CallDepth(ctxs[n]) <= MaxCallDepth
=============================================================================
