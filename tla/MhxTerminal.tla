----------------------------- MODULE MhxTerminal -----------------------------
(***************************************************************************)
(* The mhx terminal (src/mhx.c): a loop that reads a line, splits it into  *)
(* words, and runs a builtin, a child program or the host shell, which all *)
(* share standard input and output with it.                                *)
(*                                                                         *)
(* A line is a sequence of pieces, each as long as the line buffer of the  *)
(* loop; a piece is what it means as a command: a record with a verb, a    *)
(* subverb, an argument and the number of its words.  What a command       *)
(* prints is the command's number.                                         *)
(***************************************************************************)
EXTENDS Integers, Sequences, FiniteSets

CONSTANTS
  Scripts,     \* what may be typed: sequences of lines, each a sequence of pieces
  Manifest,    \* runtime/slots.tsv: a sequence of [name, target, fields]
  MaxSlots,    \* 32
  MaxArgv      \* MHX_MAX_ARGV

Programs == {"dario", "aml", "amlc", "notorch_test", "install", "nanollama",
             "infer_llama", "mesh-agent", "shell", "make"}

\* What can be there or not.
Installed == Programs \cup {"slots.tsv"}

\* What a first word may be: none, a builtin, a word after mhx that is no builtin,
\* or words for the host shell.
Verbs == {"", "help", "version", "info", "heart", "aml", "notorch", "install", "train",
          "infer", "slots", "mesh", "unknown", "exit", "host", "/quit"}

Commands == {c \in [verb : Verbs, sub : STRING, arg : STRING, words : Nat, help : BOOLEAN] :
               c.verb = "" => c.words = 0}

ASSUME TerminalAssumption ==
  /\ MaxSlots \in Nat /\ MaxArgv \in Nat \ {0}
  /\ Manifest \in Seq([name : STRING, target : Programs, fields : Nat])

\* A line is at least one piece, if only an empty one.
ASSUME SomethingIsTyped ==
  \A s \in Scripts : /\ s \in Seq(Seq(Commands)) /\ s # <<>>
                     /\ \A l \in DOMAIN s : s[l] # <<>>

VARIABLES
  mode,        \* how mhx was started: "repl", "line" (--line), "once" (-c), "exec"
  tty,         \* whether standard input and output are a terminal
  script,      \* what is being typed
  typed,       \* how many of its lines were
  input,       \* standard input: pieces nobody has read yet
  inputClosed, \* the writer of standard input is gone
  stdio,       \* pieces in the FILE buffer of mhx
  pc,          \* "loop", "read", "split", "dispatch", "make", "child", "exit" or "done"
  piece,       \* the command at work
  argc,        \* its words
  child,       \* the plan the child was started for
  built,       \* the programs that can be resolved, and the manifest if it can be opened
  cwd, startGone, \* the current directory, and whether the first one is gone
  status,      \* what the last command returned
  ran,         \* the pieces that were run as commands
  out, screen, \* output mhx has not flushed; output everybody can see
  heard,       \* whether the last piece the child read was /quit
  taken,       \* history: the pieces that mhx read
  lastChild    \* history: how the child of the last command ended

ioVars == <<typed, input, inputClosed, stdio>>
dirVars == <<built, cwd, startGone>>
screenVars == <<out, screen>>
fixedVars == <<mode, tty, script>>
terminalVars == <<mode, tty, script, typed, input, inputClosed, stdio, pc, piece,
                  argc, child, built, cwd, startGone, status, ran, out,
                  screen, heard, taken, lastChild>>

Nothing == [do |-> "none", status |-> "OK"]

----------------------------------------------------------------------------
(* What each builtin does with its arguments: return at once, or run a     *)
(* program, after building it where the builtin knows how.                 *)

Return(st) == [do |-> "none", status |-> st]

\* Run program p; the status when it cannot be started, when a signal ended
\* it, when it exits with an error, and when waitpid fails, so that nobody sees
\* how it ended.
Run(p, none, signalled, failed) ==
  [do |-> "run", prog |-> p, none |-> none, signalled |-> signalled,
   failed |-> failed, unseen |-> signalled, builds |-> FALSE]

\* spawn_with_passthrough
PassThrough(p) == Run(p, "HOST_FAIL", "HOST_FAIL", "BAD_ARGS")

\* builtin_heart: its status when it is not built, else its loop.
HeartPlan(c) ==
  IF argc < 3
  THEN IF "dario" \in built THEN Run("dario", "HOST_FAIL", "HOST_FAIL", "HOST_FAIL")
       ELSE Return("OK")
  ELSE PassThrough("dario")

AmlPlan(c) ==
  CASE argc < 3 -> Return("OK")
    [] argc >= 3 /\ c.sub = "run" -> PassThrough("aml")
    [] argc >= 3 /\ c.sub = "compile" -> PassThrough("amlc")
    [] argc >= 3 /\ c.sub = "version" -> Run("aml", "HOST_FAIL", "HOST_FAIL", "HOST_FAIL")
    [] OTHER -> Return("BAD_ARGS")

NotorchPlan(c) ==
  CASE argc < 3 \/ c.sub = "info" -> Return("OK")
    [] argc >= 3 /\ c.sub = "test" -> Run("notorch_test", "HOST_FAIL", "HOST_FAIL", "BAD_ARGS")
    [] OTHER -> Return("BAD_ARGS")

\* A script that is not executable and one that a signal ends differ here, and
\* waitpid is believed whatever it returns.
InstallPlan(c) ==
  IF argc >= 3 /\ c.sub \in {"clang", "python", "go", "rust", "lua"}
  THEN [Run("install", "HOST_FAIL", "BAD_ARGS", "BAD_ARGS") EXCEPT !.unseen = "OK"]
  ELSE Return("BAD_ARGS")

TrainPlan(c) ==
  CASE argc < 3 \/ c.sub # "nanollama" -> Return("BAD_ARGS")
    [] argc = 3 /\ c.sub = "nanollama" -> Return("BAD_ARGS")
    [] argc > 3 /\ c.sub = "nanollama" /\ c.arg = "--help" -> Return("OK")
    [] OTHER -> [PassThrough("nanollama") EXCEPT !.builds = TRUE]

InferPlan(c) ==
  CASE argc < 3 -> Return("BAD_ARGS")
    [] argc >= 3 /\ c.sub = "--help" -> Return("OK")
    [] OTHER -> [PassThrough("infer_llama") EXCEPT !.builds = TRUE]

\* mhx_load_slots: lines with all six fields, as many as the table holds.
LoadedSlots ==
  LET whole == {i \in DOMAIN Manifest : Manifest[i].fields = 6}
  IN {i \in whole : Cardinality({j \in whole : j < i}) < MaxSlots}

\* builtin_slots, with the manifest open.  Asking a slot for help does not need its
\* target.
SlotPlan(c) ==
  LET named == {i \in LoadedSlots : Manifest[i].name = c.arg}
      slot == Manifest[CHOOSE i \in named : \A j \in named : i <= j]
  IN CASE argc < 3 \/ c.sub = "list" -> Return("OK")
       [] argc >= 3 /\ c.sub \notin {"list", "show", "run"} -> Return("BAD_ARGS")
       [] argc = 3 /\ c.sub \in {"show", "run"} -> Return("BAD_ARGS")
       [] argc > 3 /\ c.sub = "show" -> Return(IF named = {} THEN "BAD_ARGS" ELSE "OK")
       [] OTHER -> IF named = {} THEN Return("BAD_ARGS")
                   ELSE IF c.arg = "nanollama" /\ argc >= 5 /\ c.help THEN Return("OK")
                   ELSE PassThrough(slot.target)

SlotsPlan(c) == IF "slots.tsv" \in built THEN SlotPlan(c) ELSE Return("HOST_FAIL")

MeshPlan(c) ==
  CASE argc < 3 -> Return("OK")
    [] argc >= 3 /\ c.sub \in {"peers", "listen", "status"} ->
         Run("mesh-agent", "HOST_FAIL", "HOST_FAIL", "HOST_FAIL")
    [] argc >= 5 /\ c.sub = "send" ->
         IF c.arg = "@tag" THEN Return("BAD_ARGS")
         ELSE Run("mesh-agent", "HOST_FAIL", "HOST_FAIL", "HOST_FAIL")
    [] OTHER -> Return("BAD_ARGS")

\* mhx_run_builtin: what a word after mhx stands for.
BuiltinPlan(c) ==
  CASE c.verb \in {"help", "version", "info"} -> Return("OK")
    [] c.verb = "heart" -> HeartPlan(c)
    [] c.verb = "aml" -> AmlPlan(c)
    [] c.verb = "notorch" -> NotorchPlan(c)
    [] c.verb = "install" -> InstallPlan(c)
    [] c.verb = "train" -> TrainPlan(c)
    [] c.verb = "infer" -> InferPlan(c)
    [] c.verb = "slots" -> SlotsPlan(c)
    [] c.verb = "mesh" -> MeshPlan(c)
    [] c.verb = "unknown" -> Return("BAD_ARGS")

HostVerbs == {"host", "/quit"}

\* mhx_dispatch and mhx_dispatch_argv: nothing, too much for the buffer of -c, a
\* builtin, or the host shell, which --exec refuses.
Plan(c) ==
  IF argc = 0 THEN Return("OK")
  ELSE IF mode = "once" /\ Len(script[1]) > 1 THEN Return("BAD_ARGS")
  ELSE IF c.verb = "exit" THEN Return("EXIT")
  ELSE IF c.verb \notin HostVerbs THEN BuiltinPlan(c)
  ELSE IF mode = "exec" THEN Return("BAD_ARGS")
  ELSE Run("shell", "HOST_FAIL", "HOST_FAIL", "HOST_FAIL")

----------------------------------------------------------------------------
\* Programs of ours that read standard input, and the shell's children.
Readers == {"dario", "shell"}

TerminalInit ==
  /\ mode \in {"repl", "line", "once", "exec"} /\ tty \in BOOLEAN
  /\ script \in Scripts /\ (tty => \A l \in DOMAIN script : Len(script[l]) = 1)
  /\ typed = IF mode \in {"once", "exec"} THEN 1 ELSE 0
  /\ pc = IF mode \in {"once", "exec"} THEN "split" ELSE "loop"
  /\ piece = [cmd |-> script[1][1], line |-> 1, part |-> 1] /\ argc = 0
  /\ input = <<>> /\ inputClosed = FALSE /\ stdio = <<>>
  /\ child = Nothing
  /\ built \in {{"shell", "install"}, {"shell", "install", "slots.tsv"},
               {"shell", "install", "dario", "mesh-agent", "slots.tsv"}}
  /\ cwd = "start" /\ startGone = FALSE
  /\ status = "OK" /\ ran = <<>> /\ out = <<>> /\ screen = <<>>
  /\ heard = FALSE /\ taken = <<>> /\ lastChild = "none"

\* What the user, or the program at the other end of the pipe, types.
Type ==
  /\ typed < Len(script)
  /\ typed' = typed + 1
  /\ input' = input \o [p \in DOMAIN script[typed'] |->
                          [cmd |-> script[typed'][p], line |-> typed', part |-> p]]
  /\ UNCHANGED <<fixedVars, inputClosed, stdio, pc, piece, argc, child, dirVars, status,
                 ran, screenVars, heard, taken, lastChild>>

Close ==
  /\ typed = Len(script) /\ ~inputClosed
  /\ inputClosed' = TRUE
  /\ UNCHANGED <<fixedVars, typed, input, stdio, pc, piece, argc, child, dirVars,
                 status, ran, screenVars, heard, taken, lastChild>>

\* Somebody removes the directory mhx was started in.
RemoveStart ==
  /\ pc = "make" /\ ~startGone
  /\ startGone' = TRUE
  /\ UNCHANGED <<fixedVars, ioVars, pc, piece, argc, child, built, cwd, status, ran,
                 screenVars, heard, taken, lastChild>>

----------------------------------------------------------------------------
(* The loop.                                                               *)

\* The prompt flushes all output; --line prints none.
ShowPrompt ==
  /\ pc = "loop" /\ pc' = "read"
  /\ IF mode = "repl" THEN screen' = screen \o out /\ out' = <<>> ELSE UNCHANGED screenVars
  /\ UNCHANGED <<fixedVars, ioVars, piece, argc, child, dirVars, status, ran, heard, taken,
                 lastChild>>

\* One line of a terminal, everything that is there of a pipe.
FirstLine(pieces) == {i \in DOMAIN pieces : pieces[i].line = pieces[1].line}
ReadFrom(pieces) == IF tty THEN SubSeq(pieces, 1, Cardinality(FirstLine(pieces))) ELSE pieces

Rest(pieces, part) == SubSeq(pieces, Len(part) + 1, Len(pieces))

Where(pieces) == [i \in DOMAIN pieces |-> <<pieces[i].line, pieces[i].part>>]

\* fgets finds its buffer empty.
FillStdio ==
  /\ pc = "read" /\ stdio = <<>> /\ input # <<>>
  /\ stdio' = ReadFrom(input)
  /\ input' = Rest(input, stdio')
  /\ taken' = taken \o Where(stdio')
  /\ UNCHANGED <<fixedVars, typed, inputClosed, pc, piece, argc, child, dirVars, status, ran,
                 screenVars, heard, lastChild>>

\* A slip: what does not fit in the line buffer is thrown away.
TakeLineOnly ==
  /\ pc = "read" /\ stdio # <<>>
  /\ piece' = Head(stdio)
  /\ stdio' = SelectSeq(stdio, LAMBDA x : x.line # stdio[1].line)
  /\ pc' = "split"
  /\ UNCHANGED <<fixedVars, typed, input, inputClosed, argc, child, dirVars, status, ran, screenVars,
                 heard, taken, lastChild>>

\* mhx_readline: a buffer's worth, at most a line; the rest of a long line
\* stays and is the next command.
Take ==
  /\ pc = "read" /\ stdio # <<>>
  /\ piece' = Head(stdio) /\ stdio' = Tail(stdio)
  /\ pc' = "split"
  /\ UNCHANGED <<fixedVars, typed, input, inputClosed, argc, child, dirVars, status, ran, screenVars,
                 heard, taken, lastChild>>

\* End of input; leaving main flushes.
Eof ==
  /\ pc = "read" /\ stdio = <<>> /\ input = <<>> /\ inputClosed
  /\ pc' = "done" /\ screen' = screen \o out /\ out' = <<>>
  /\ UNCHANGED <<fixedVars, ioVars, piece, argc, child, dirVars, status, ran, heard, taken,
                 lastChild>>

----------------------------------------------------------------------------
(* A command.                                                              *)

\* split_argv: the words beyond the limit are dropped.  With --exec the words
\* come from the command line, all of them.
Split ==
  /\ pc = "split" /\ pc' = "dispatch"
  /\ argc' = IF mode = "exec" \/ piece.cmd.words < MaxArgv THEN piece.cmd.words
             ELSE MaxArgv - 1
  /\ UNCHANGED <<fixedVars, ioVars, piece, child, dirVars, status, ran, screenVars, heard, taken,
                 lastChild>>

\* What mhx itself prints waits in its buffer unless it goes to a terminal;
\* complaints go to stderr, at once.
Prints(st) ==
  IF argc = 0 THEN UNCHANGED screenVars
  ELSE IF tty \/ st # "OK" THEN screen' = Append(screen, Len(ran')) /\ out' = out
  ELSE out' = Append(out, Len(ran')) /\ screen' = screen

\* Where the loop goes after a command that returned st.
After(st) == IF st = "EXIT" \/ mode \in {"once", "exec"} THEN "exit" ELSE "loop"

\* A builtin that returns at once, and one whose program cannot be started:
\* not found, nothing to make it from, or no process to be had.
Answer ==
  LET plan == Plan(piece.cmd)
      st == IF plan.do = "none" THEN plan.status ELSE plan.none
  IN /\ pc = "dispatch"
     /\ ran' = Append(ran, <<piece.line, piece.part>>)
     /\ status' = st /\ lastChild' = "none" /\ pc' = After(st)
     /\ Prints(st)
     /\ UNCHANGED <<fixedVars, ioVars, piece, argc, child, dirVars, heard, taken>>

\* fork and execv.
SpawnPath ==
  LET plan == Plan(piece.cmd)
  IN /\ pc = "dispatch" /\ plan.do = "run" /\ plan.prog \in built
     /\ ran' = Append(ran, <<piece.line, piece.part>>)
     /\ child' = plan /\ pc' = "child" /\ heard' = FALSE
     /\ UNCHANGED <<fixedVars, ioVars, piece, argc, dirVars, status, screenVars, taken,
                    lastChild>>

\* The program is not there: go to the root and make it.
MakeBegins ==
  LET plan == Plan(piece.cmd)
  IN /\ pc = "dispatch" /\ plan.do = "run" /\ plan.builds /\ plan.prog \notin built
     /\ ran' = Append(ran, <<piece.line, piece.part>>)
     /\ child' = plan /\ cwd' = "root" /\ pc' = "make" /\ lastChild' = "none"
     /\ UNCHANGED <<fixedVars, ioVars, piece, argc, built, startGone, status, screenVars, heard, taken>>

\* A slip: a build that fails returns before the directory is changed back.
MakeEndsThere(ok) ==
  /\ pc = "make"
  /\ cwd' = IF startGone \/ ~ok THEN "root" ELSE "start"
  /\ IF ok THEN /\ built' = built \cup {child.prog} /\ pc' = "child"
               /\ UNCHANGED <<child, status>>
     ELSE /\ status' = "HOST_FAIL" /\ pc' = After("HOST_FAIL") /\ child' = Nothing
          /\ UNCHANGED built
  /\ UNCHANGED <<fixedVars, ioVars, piece, argc, startGone, ran, screenVars, heard, taken, lastChild>>

\* system("make ...") returns; the way back may fail, which is not looked at.
MakeEnds(ok) ==
  /\ pc = "make"
  /\ cwd' = IF startGone THEN "root" ELSE "start"
  /\ IF ok THEN /\ built' = built \cup {child.prog} /\ pc' = "child"
               /\ UNCHANGED <<child, status>>
     ELSE /\ status' = "HOST_FAIL" /\ pc' = After("HOST_FAIL") /\ child' = Nothing
          /\ UNCHANGED built
  /\ UNCHANGED <<fixedVars, ioVars, piece, argc, startGone, ran, screenVars, heard, taken, lastChild>>

----------------------------------------------------------------------------
(* The child, while mhx waits for it.                                      *)

\* A program that reads standard input takes what is there.
ChildReads ==
  /\ pc = "child" /\ child.prog \in Readers /\ input # <<>>
  /\ LET got == ReadFrom(input)
     IN /\ input' = Rest(input, got)
        /\ heard' = (got[Len(got)].cmd.verb = "/quit")
  /\ UNCHANGED <<fixedVars, typed, inputClosed, stdio, pc, piece, argc, child, dirVars, status, ran,
                 screenVars, taken, lastChild>>

ChildPrints ==
  /\ pc = "child" /\ \A i \in DOMAIN screen : screen[i] # Len(ran)
  /\ screen' = Append(screen, Len(ran))
  /\ UNCHANGED <<fixedVars, ioVars, pc, piece, argc, child, dirVars, status, ran, out, heard, taken,
                 lastChild>>

Ends == {"ok", "error", "signal", "unseen"}

\* The heart goes on until it read /quit or the end of its input, unless it
\* crashes; any other program ends when it likes.
MayEnd(how) ==
  \/ child.prog # "dario" \/ how = "signal"
  \/ input = <<>> /\ inputClosed
  \/ heard

\* waitpid returns: a signal, an error, success, or nothing, as when the one who
\* started mhx left SIGCHLD ignored.
ChildEnds(how) ==
  LET st == CASE how = "ok" -> "OK" [] how = "error" -> child.failed
              [] how = "signal" -> child.signalled [] how = "unseen" -> child.unseen
  IN /\ pc = "child" /\ MayEnd(how)
     /\ status' = st /\ pc' = After(st) /\ child' = Nothing /\ lastChild' = how
     /\ UNCHANGED <<fixedVars, ioVars, piece, argc, dirVars, ran, screenVars, heard, taken>>

\* Leaving main flushes.
ExitMhx ==
  /\ pc = "exit" /\ pc' = "done"
  /\ screen' = screen \o out /\ out' = <<>>
  /\ UNCHANGED <<fixedVars, ioVars, piece, argc, child, dirVars, status, ran, heard, taken, lastChild>>

TerminalNext ==
  \/ Type \/ Close \/ RemoveStart
  \/ ShowPrompt \/ FillStdio \/ Take \/ Eof
  \/ Split \/ Answer \/ SpawnPath \/ MakeBegins
  \/ \E ok \in BOOLEAN : MakeEnds(ok)
  \/ ChildReads \/ ChildPrints
  \/ \E how \in Ends : ChildEnds(how)
  \/ ExitMhx

TerminalSpec == TerminalInit /\ [][TerminalNext]_terminalVars

----------------------------------------------------------------------------
(* Properties.                                                             *)

\* The type invariant; the words of a line fit in argv with the NULL behind them
\* (split_argv).
TerminalTypeOK ==
  /\ mode \in {"repl", "line", "once", "exec"} /\ tty \in BOOLEAN
  /\ typed \in 0 .. Len(script) /\ inputClosed \in BOOLEAN
  /\ pc \in {"loop", "read", "split", "dispatch", "make", "child", "exit", "done"}
  /\ argc \in Nat /\ (mode # "exec" => argc + 1 <= MaxArgv) /\ built \subseteq Installed
  /\ child.do \in {"none", "run"} /\ (child.do = "run" <=> pc \in {"make", "child"})
  /\ cwd \in {"start", "root"} /\ startGone \in BOOLEAN
  /\ status \in {"OK", "EXIT", "HOST_FAIL", "BAD_ARGS"}
  /\ lastChild \in {"none"} \cup Ends

\* A command leaves no trace but its effect.  After one that ran a child, its status
\* says success exactly if the child exited with success, whatever builtin,
\* program and mode (mhx_status), unless waitpid itself failed: then most builtins
\* say failure, and install says success (builtin_install); and a program runs, and the next line is read,
\* in the directory mhx was started in, on which relative names in arguments
\* count: a build in between comes back, unless that directory is gone
\* (builtin_train, builtin_infer).
CommandEndsClean ==
  /\ TerminalTypeOK
  /\ pc \in {"loop", "exit"} /\ lastChild \notin {"none", "unseen"}
       => (status = "OK" <=> lastChild = "ok")
  /\ pc \in {"loop", "read", "child"} => cwd = "start" \/ startGone

\* Of what mhx takes from its input every piece is run, once and in order; the
\* rest of a line that is longer than the buffer is commands of its own
\* (mhx_readline, mhx_repl_inner).  On a terminal nothing that was typed waits in
\* the buffer of mhx while a child runs: what the user types for the child is
\* there for it to read (builtin_heart); with a pipe this does not hold.
InputIsRunInOrder ==
  LET now == IF pc \in {"split", "dispatch"} THEN <<<<piece.line, piece.part>>>> ELSE <<>>
      given == IF mode \in {"once", "exec"} THEN <<<<1, 1>>>> ELSE <<>>
  IN /\ given \o taken = ran \o now \o Where(stdio)
     /\ tty /\ pc = "child" => stdio = <<>>

\* On a terminal, or with a prompt, what is shown appears in the order of the
\* commands, though mhx buffers its output and its children do not share the
\* buffer (mhx_repl_inner).  With --line on a pipe this does not hold.
OutputInOrder ==
  LET all == screen \o out
  IN tty \/ mode # "line" => \A i, j \in DOMAIN all : i < j => all[i] <= all[j]

\* A session is run and shown in the order it was given (mhx_repl_inner).
SessionInOrder == InputIsRunInOrder /\ OutputInOrder
=============================================================================
