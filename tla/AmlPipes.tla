-------------------------------- MODULE AmlPipes --------------------------------
(* PIPE and INDEX of the AML interpreter (bake/aml/core/ariannamethod.c): a table of
   named pipes over FIFOs of the file system, shared with an index node, another
   process that opens the same paths.

   A FIFO is what mkfifo made: it keeps its readers and writers when its path is
   unlinked, and what it holds while somebody has it open. A message stands for the
   first number in it, None when it has none. Writes are shorter than PIPE_BUF, so a
   message goes in whole or not at all; a read takes what fits its buffer.         *)
EXTENDS Integers, Sequences, SequencesExt, FiniteSets, FiniteSetsExt, Functions

CONSTANTS
  Nodes,        \* ids of INDEX commands
  OtherPipes,   \* further names a script opens
  Messages,     \* numbers
  MaxPipes,     \* AM_MAX_PIPES
  MaxFifos,     \* bound on the FIFOs ever made
  MaxPipeCalls, \* bound on the commands of a script
  FifoCap,      \* messages a FIFO takes
  ReadCap       \* messages a read's buffer takes

ASSUME PipeLimits == {MaxPipes, MaxFifos, MaxPipeCalls, FifoCap, ReadCap} \subseteq Nat \ {0} /\ Messages \subseteq Nat

None      == -1
Cmd(n)    == <<n, "cmd">>       \* the name of a node's pipe, and its path under /tmp
Rsp(n)    == <<n, "rsp">>
FifoPaths == {Cmd(n) : n \in Nodes} \union {Rsp(n) : n \in Nodes}
PipeNames == FifoPaths \union OtherPipes
PipeSlots == 0..(MaxPipes - 1)
PipeFds   == 3..(MaxPipes + 2)

VARIABLES
  io,     \* the host's side: g_pipes, g_pipe_count, its descriptors, g_pipe_last_value,
          \* and _pipe_value, the variable a script sees
  fifo,   \* the FIFOs in the order they were made: path, content
  named,  \* path -> the FIFO found there, 0 for none
  node,   \* the FIFOs the index node has open
  pipeCalls \* commands so far

pipeVars == <<io, fifo, named, node, pipeCalls>>

NoPipe == [name |-> <<>>, path |-> <<>>, fd |-> None, mode |-> "read", active |-> FALSE]

PipesInit ==
  /\ io = [pipes |-> [s \in PipeSlots |-> NoPipe], count |-> 0, fds |-> [f \in PipeFds |-> 0],
           last |-> 0, value |-> 0]
  /\ fifo = <<>> /\ named = [p \in FifoPaths |-> 0] /\ node = {}
  /\ pipeCalls = 0

-----------------------------------------------------------------------------
(* The calls, as functions of the host's side h and of the FIFOs f. *)

InUse(h)   == {s \in PipeSlots : s < h.count /\ h.pipes[s].active}
Holding(h, name) == {s \in InUse(h) : h.pipes[s].name = name}      \* pipe_find
Free(h)    == {s \in PipeSlots : s < h.count /\ ~h.pipes[s].active}

(* pipe_find_free raises the count, whether or not the pipe is opened then. *)
FreeSlot(h) == IF Free(h) # {} THEN Min(Free(h)) ELSE h.count

(* Already open under that name; no slot; no FIFO there; or the lowest free descriptor. *)
Opened(h, name, path, mode, at) ==
  LET s  == FreeSlot(h)
      up == [h EXCEPT !.count = IF s = h.count THEN s + 1 ELSE @]
      fd == Min({d \in PipeFds : h.fds[d] = 0})
  IN  IF Holding(h, name) # {} \/ s = MaxPipes THEN h
      ELSE IF at[path] = 0 THEN up
      ELSE [up EXCEPT !.fds[fd] = at[path],
                      !.pipes[s] = [name |-> name, path |-> path, fd |-> fd, mode |-> mode, active |-> TRUE]]

Unused(p) == [p EXCEPT !.fd = None, !.active = FALSE]
Closed(h, name) == IF Holding(h, name) = {} THEN h
                   ELSE LET s == Min(Holding(h, name))
                        IN  [h EXCEPT !.fds[h.pipes[s].fd] = 0, !.pipes[s] = [Unused(h.pipes[s]) EXCEPT !.name = <<>>]]

(* A slip: the table is emptied, the descriptors stay open. *)
AllForgotten(h) == [h EXCEPT !.pipes = [s \in PipeSlots |-> Unused(h.pipes[s])], !.count = 0]

AllClosed(h) == [h EXCEPT !.pipes = [s \in PipeSlots |-> Unused(h.pipes[s])],
                          !.fds = [d \in PipeFds |-> 0], !.count = 0]

(* What nobody has open is empty. *)
Kept(f, h, n) == [i \in DOMAIN f |-> IF i \in Range(h.fds) \union n THEN f[i] ELSE [f[i] EXCEPT !.content = <<>>]]

(* A pipe opened for reading refuses writes, a full FIFO loses the message: the caller
   sees -1 or 0, and goes on. One opened for writing is open for reading, too. *)
Takes(h, f, name) == /\ Holding(h, name) # {}
                     /\ LET p == h.pipes[Min(Holding(h, name))]
                        IN  p.mode = "write" /\ Len(f[h.fds[p.fd]].content) < FifoCap
Written(h, f, name, m) ==
  IF Takes(h, f, name)
  THEN [f EXCEPT ![h.fds[h.pipes[Min(Holding(h, name))].fd]].content = Append(@, m)] ELSE f

(* One read may take several messages, which are scanned as one text for its first number. *)
Reading(h, name) == h.fds[h.pipes[Min(Holding(h, name))].fd]
Got(h, f, name) == IF Holding(h, name) = {} THEN <<>>
                   ELSE LET c == f[Reading(h, name)].content IN SubSeq(c, 1, Min({Len(c), ReadCap}))
FirstNumber(ms, old) == LET k == {i \in DOMAIN ms : ms[i] # None} IN IF k = {} THEN old ELSE ms[Min(k)]
Noted(h, ms)    == [h EXCEPT !.last = FirstNumber(ms, @)]
Taken(h, f, name, ms) == IF ms = <<>> THEN f
                         ELSE [f EXCEPT ![Reading(h, name)].content = SubSeq(@, Len(ms) + 1, Len(@))]

-----------------------------------------------------------------------------
(* PIPE. *)

(* am_pipe_create: whatever is at the path is unlinked, then mkfifo, which may fail. *)
Made(f, at, path) == [fifo  |-> Append(f, [path |-> path, content |-> <<>>]),
                      named |-> [at EXCEPT ![path] = Len(f) + 1]]
Lost(f, at, path) == [fifo |-> f, named |-> [at EXCEPT ![path] = 0]]
Created(f, at, path) == {Lost(f, at, path)} \union (IF Len(f) < MaxFifos THEN {Made(f, at, path)} ELSE {})

PipeCreate(path) == /\ \E r \in Created(fifo, named, path) : fifo' = r.fifo /\ named' = r.named
                    /\ UNCHANGED <<io, node>>

PipeOpen(name, path, mode) == io' = Opened(io, name, path, mode, named) /\ UNCHANGED <<fifo, named, node>>

PipeWrite(name, m) == fifo' = Written(io, fifo, name, m) /\ UNCHANGED <<io, named, node>>

(* _pipe_value is set when something came, though it may have held no number. *)
PipeRead(name) ==
  LET ms == Got(io, fifo, name)
  IN  /\ ms # <<>> /\ fifo' = Taken(io, fifo, name, ms)
      /\ io' = [Noted(io, ms) EXCEPT !.value = FirstNumber(ms, io.last)]
      /\ UNCHANGED <<named, node>>

PipeClose(name) == /\ io' = Closed(io, name) /\ fifo' = Kept(fifo, io', node) /\ UNCHANGED <<named, node>>
PipeCloseAll    == /\ io' = AllClosed(io) /\ fifo' = Kept(fifo, io', node) /\ UNCHANGED <<named, node>>

(* am_init's part. *)
PipesReset == /\ io' = [AllClosed(io) EXCEPT !.last = 0] /\ fifo' = Kept(fifo, io', node)
              /\ UNCHANGED <<named, node>>

(* INDEX. *)

(* INIT makes two FIFOs and opens both, whether or not they could be made. *)
IndexInit(n) ==
  /\ \E c \in Created(fifo, named, Cmd(n)) : \E r \in Created(c.fifo, c.named, Rsp(n)) :
        fifo' = r.fifo /\ named' = r.named
  /\ io' = Opened(Opened(io, Cmd(n), Cmd(n), "write", named'), Rsp(n), Rsp(n), "read", named')
  /\ UNCHANGED node

IndexTell(n, m) == PipeWrite(Cmd(n), m)        \* FETCH, STOP

(* STATUS asks, and takes whatever answer is there already. *)
IndexStatus(n) ==
  LET f  == Written(io, fifo, Cmd(n), None)
      ms == Got(io, f, Rsp(n))
  IN  fifo' = Taken(io, f, Rsp(n), ms) /\ io' = Noted(io, ms) /\ UNCHANGED <<named, node>>

IndexClose(n) == /\ io' = Closed(Closed(io, Cmd(n)), Rsp(n)) /\ fifo' = Kept(fifo, io', node)
                 /\ UNCHANGED <<named, node>>

-----------------------------------------------------------------------------
(* The index node: it opens what is found at its paths, reads requests, writes answers. *)

NodeOpens(path)   == /\ named[path] # 0 /\ \A i \in node : fifo[i].path # path
                     /\ node' = node \union {named[path]} /\ UNCHANGED <<io, fifo, named>>
NodeReads(i)      == /\ i \in node /\ fifo[i].path[2] = "cmd" /\ fifo[i].content # <<>>
                     /\ fifo' = [fifo EXCEPT ![i].content = Tail(@)] /\ UNCHANGED <<io, named, node>>
NodeWrites(i, m)  == /\ i \in node /\ fifo[i].path[2] = "rsp" /\ Len(fifo[i].content) < FifoCap
                     /\ fifo' = [fifo EXCEPT ![i].content = Append(@, m)] /\ UNCHANGED <<io, named, node>>
NodeCloses(i)     == /\ i \in node /\ node' = node \ {i} /\ fifo' = Kept(fifo, io, node') /\ UNCHANGED <<io, named>>

ScriptCall ==
  \/ PipeCloseAll \/ PipesReset
  \/ \E path \in FifoPaths : PipeCreate(path) \/ \E name \in PipeNames, mode \in {"read", "write"} : PipeOpen(name, path, mode)
  \/ \E name \in PipeNames : PipeRead(name) \/ PipeClose(name) \/ \E m \in Messages \union {None} : PipeWrite(name, m)
  \/ \E n \in Nodes : IndexInit(n) \/ IndexStatus(n) \/ IndexClose(n) \/ \E m \in Messages \union {None} : IndexTell(n, m)

NodeCall == \/ \E path \in FifoPaths : NodeOpens(path)
            \/ \E i \in DOMAIN fifo : NodeReads(i) \/ NodeCloses(i) \/ \E m \in Messages \union {None} : NodeWrites(i, m)

PipesNext == \/ ScriptCall /\ pipeCalls < MaxPipeCalls /\ pipeCalls' = pipeCalls + 1
             \/ NodeCall /\ UNCHANGED pipeCalls

PipesSpec == PipesInit /\ [][PipesNext]_pipeVars

-----------------------------------------------------------------------------
(* The table and the descriptors tell the same: every open descriptor is one pipe's, the
   pipes in use have different names, and each leads to a FIFO made at its path: the one
   found there now unless the path was made again, or lost, after the pipe was opened. *)
PipesLeadToTheirPath ==
  /\ \A d \in PipeFds : io.fds[d] # 0 => Cardinality({s \in InUse(io) : io.pipes[s].fd = d}) = 1
  /\ \A s \in InUse(io) :
       LET p == io.pipes[s] IN
         /\ Holding(io, p.name) = {s} /\ io.fds[p.fd] # 0 /\ fifo[io.fds[p.fd]].path = p.path
         /\ named[p.path] \in {0, io.fds[p.fd]} \/ named[p.path] > io.fds[p.fd]
=============================================================================
