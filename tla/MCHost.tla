-------------------------------- MODULE MCHost --------------------------------
(* Programs of a machine that share nothing: the terminal and the heart's kernel, and *)
(* of an agent its discovery loop, its slots and the output of one job. One moves and *)
(* the others stay as they were started.                                              *)
EXTENDS SartreKernel, MhxTerminal, MCMeshPeers, MeshSlots, MCJobStream

\* The kernel.
MCSizeOf == [n \in Names |-> IF n = "field" THEN 2 ELSE 1]
MCPaths == {"w.bin", "q.gguf"}
MCFormatOf == [p \in MCPaths |-> IF p = "w.bin" THEN "float32" ELSE "gguf"]
MCFileSizes == {-1, 45}

\* The terminal.
Cmd(verb, sub, arg, words) ==
  [verb |-> verb, sub |-> sub, arg |-> arg, words |-> words, help |-> FALSE]

M(verb, sub, words) == Cmd(verb, sub, "x", words)
Host == M("host", "", 1)

MCScripts == {
  << <<M("version", "", 2)>>, <<M("heart", "", 2)>>, <<Cmd("/quit", "", "", 1)>>,
     <<Host>>, <<M("exit", "", 1)>> >>,
  << <<Host, M("aml", "version", 3)>>, <<M("help", "", 2)>>, <<M("", "", 0)>>, <<M("unknown", "", 2)>> >>,
  << <<M("train", "nanollama", 4)>>, <<M("infer", "gguf", 3)>>, <<M("install", "go", 3)>> >>,
  << <<M("train", "nanollama", 3)>>, <<M("train", "zzz", 3)>>, <<Cmd("train", "nanollama", "--help", 4)>>,
     <<M("infer", "", 2)>>, <<M("infer", "--help", 3)>> >>,
  << <<M("aml", "", 2)>>, <<M("aml", "run", 7)>>, <<M("aml", "compile", 4)>>, <<M("aml", "zzz", 3)>> >>,
  << <<M("notorch", "", 2)>>, <<M("notorch", "test", 3)>>, <<M("notorch", "info", 3)>>, <<M("notorch", "zzz", 3)>> >>,
  << <<M("install", "", 2)>>, <<M("install", "zzz", 3)>>, <<M("mesh", "", 2)>>, <<M("mesh", "peers", 3)>> >>,
  << <<M("mesh", "send", 4)>>, <<M("mesh", "send", 5)>>, <<Cmd("mesh", "send", "@tag", 5)>>, <<M("mesh", "zzz", 3)>> >>,
  << <<M("slots", "", 2)>>, <<M("slots", "show", 3)>>, <<M("slots", "show", 4)>>, <<M("slots", "zzz", 3)>> >>,
  << <<Cmd("slots", "run", "dario", 4)>>, <<Cmd("slots", "run", "late", 4)>>, <<Cmd("slots", "run", "nanollama", 6)>>,
     <<[Cmd("slots", "run", "nanollama", 5) EXCEPT !.help = TRUE]>> >>,
  << <<M("heart", "--kernel", 3)>>, <<Host, Cmd("/quit", "", "", 1)>> >> }

MCManifest ==
  << [name |-> "short", target |-> "dario", fields |-> 4],
     [name |-> "dario", target |-> "dario", fields |-> 6],
     [name |-> "nanollama", target |-> "nanollama", fields |-> 6],
     [name |-> "late", target |-> "dario", fields |-> 6] >>

\* The slots: two ids share a file; one file was put there by hand.
MCFiles    == <<"a__b.toml", "hand.toml", "heart.toml">>
MCFile(id) == IF id = "heart" THEN "heart.toml" ELSE "a__b.toml"

\* Which of them moves; the others keep one of their initial states.
VARIABLE moving

HostInit ==
  /\ moving \in {"kernel", "terminal", "discovery", "slots", "stream"}
  /\ KernelInit /\ TerminalInit /\ PeersInit /\ SlotsInit /\ Init
  /\ moving # "kernel" => disk = [p \in Paths |-> -1]
  /\ moving # "terminal" => /\ mode = "repl" /\ ~tty /\ built = {"shell", "install"}
                            /\ script = << <<M("heart", "--kernel", 3)>>, <<Host, Cmd("/quit", "", "", 1)>> >>
  /\ moving # "slots" => manifests = [f \in FileNames |-> NoManifest]

HostNext ==
  /\ UNCHANGED moving
  /\ \/ moving = "kernel" /\ KernelNext /\ UNCHANGED <<terminalVars, peerVars, slotVars, vars>>
     \/ moving = "terminal" /\ TerminalNext /\ UNCHANGED <<kernelVars, peerVars, slotVars, vars>>
     \/ moving = "discovery" /\ PeersNext /\ UNCHANGED <<kernelVars, terminalVars, slotVars, vars>>
     \/ moving = "slots" /\ SlotsNext /\ UNCHANGED <<kernelVars, terminalVars, peerVars, vars>>
     \/ moving = "stream" /\ Next /\ UNCHANGED <<kernelVars, terminalVars, peerVars, slotVars>>

HostSpec == HostInit /\ [][HostNext]_<<moving, kernelVars, terminalVars, peerVars, slotVars, vars>>
=============================================================================
