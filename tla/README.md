# A verification project for ariannamethod.cli

TLA+ modules, TLC configurations and TLAPS proofs kept beside the code of the
`mhx` terminal, the mesh agent and the baked runtimes. Line numbers are those of
the repository at the commit under `src/`; a file without a directory is found in
the row of its component.

## 1. The system

| Part | Source | State it keeps | Operations | Talks to |
|---|---|---|---|---|
| mhx terminal | `src/mhx.c`, `include/mhx.h` | line buffer, slot manifest, current directory, status | the loop in its modes (REPL, `--line`, `-c`, direct), builtins, `make`, AML and mesh passthrough | `am`, the dario heart, `mesh-agent`, `make`, the host shell |
| mesh-agent jobs | `bake/mesh-agent/job.go`, `server.go` (invoke, job) | per job: `State`, `ExitCode`, ring buffer, `subscribe` channel, `subMu`, `done` | invoke, pumpReader x2, reaper, kill, snapshot, subscribe, status | HTTP clients, a child process |
| mesh-agent messages | `server.go` handleMsg, `client.go` send / broadcast / listen | inbox directory | POST /msg, scan | other agents |
| mesh-agent peers | `peer.go`, `main.go` | `peers.txt`, `peers.json`, peer cache | load, poll, upsert, save, list | other agents' /presence |
| mesh-agent slots, client | `slot.go`, `client.go`, `main.go` | manifests, registry map | register, load, exec, send, listen | jobs, agents |
| AML scripts | `bake/aml/core/ariannamethod.c` 3000-6600 | context: lines, functions, variables, return flag, error | am_exec, am_exec_file, am_compile, am_exec_compiled | everything below |
| AML field | same, 499-1010, 6860-7130, 7741-8290 | `G`: debt, velocity, temperature, seasons, gamma slots, co-occurrence; soma and sidecar files | field commands, am_step, METHOD, am_field_save / load, am_cooc_* | host programs, files |
| AML arrays and tape | same, 1100-2600, array functions 3700-5500 | arrays with reference counts and device copies, `g_tape`, persistent globals | TAPE commands, array functions | the device |
| AML async | same, 2720-2915, 4508-4582, 5877-5913 | spawn slots, channels | SPAWN, AWAIT, CHANNEL | pthreads |
| AML pipes (Lilith) | same, 7537-7735 | pipe table, FIFOs | PIPE, INDEX | an index node |
| AML blood | same, 7253-7530 | module table, files, libraries | BLOOD COMPILE / LORA / EMOTION / UNLOAD | the C compiler, dlopen |
| notorch | `bake/notorch/notorch.c` | tensors with device copies, tape, optimizer slots, LoRA adapters, loader, schedule | operations, backward, step, save, tokenizer, nt_qmatvec | the device, threads |
| gguf | `bake/notorch/gguf.c` | header, tensor table, data | open, find, dequantize | notorch |
| sartre kernel | `vendor/dario/sartre_kernel.c` | event ring, modules, overlay, namespaces, packages, model registry, tongue tier | its C interface | the dario heart |
| dario heart, nanollama | `vendor/dario/dario.c`, `examples/nanollama` | a generator; weights | generate, train | mhx, notorch |
| amlc, am, installers, plugin, JavaScript edition, stb_image | - | - | - | - |

How the parts meet: `mhx` passes a command line to a child process, which shares its
input and output, and waits for it; the mesh agent runs a slot's command as a job, with
two pump goroutines and a reaper, and serves its output to any number of stream
handlers; a mesh client posts a message to several agents; AML scripts run further
scripts, start pthreads that run scripts over the same state, keep arrays from one
script to the next, and talk to an index node over FIFOs; a training program drives a
tape whose tensors live on the host, on the device, or on both.

What is hard here: goroutines of one job that share a record without a lock, a channel
of channels with a capacity of 4 that both requests and pumps send to, a reaper that
races the pumps it serves; pthreads over global tables; files that one process writes
while another scans them or while it may die; two flags per tensor that say which of two
copies is the latest, set by hand at every read and write; optimizer slots found by
counting; fixed-size tables at their limits; an interpreter whose return flag is saved
and restored in four places.

## 2. Modules

| Module | Models | State ↔ code | Actions ↔ code |
|---|---|---|---|
| `JobLifecycle` | one `Job` and everyone that touches it | `state` is `Job.State` as the two machine words of a Go string; `finished`, `exitCode`, `done` the fields; `store`, `seen`, `report` the locals of goroutines in the middle of a store or load | `invoke` statement by statement; `Wait` ... `CloseDone` the reaper; `Signal`, `KillReply` `kill`; `Subscribe`, `StateEvent` a stream handler; `Poll*` a status reply |
| `JobStream`, `StreamContract` | the output of one job; what a stream promises, with no queue, lock or goroutine | `ring` is `Job.buffer`; `subMu`; `subQ` the channel of channels with its blocked senders; `subs` the list a `fanOut` has drained; `chan`, `closed` the clients' channels | `pumpReader`, `appendBuffer`, `fanOut` (`Drain`, `Deliver`), the reaper, the handler. `JobStream` maps to the contract through `INSTANCE` |
| `MeshPeers` | the discovery goroutine and `peers.json` | `cache`, `line`, `answer`, `changed`; `tmp`, `file`; `unread` whether the file could not be read at the start of this process; `offered` what remote agents have now | `StartDiscovery`, `pollOnce`, `save`, `Tick`, `Crash` |
| `MeshInbox`, `MeshBroadcast` | `POST /msg` and `listen --watch`; `broadcast` on top | `inbox` the directories; `post`, `stamp` the handlers; `client` the senders; `watcher`, `shown`; `bcast`, `targets`, `rc` | `handleMsg`, `cmdSend`, `listenScan`, `cmdBroadcast` |
| `MeshSlots` | `register` beside the start of an agent | `manifests` the files of `~/.mesh/slots`, `writing` the registrations between the emptying of a file and its writing; `registry` the map and how far its load got; `touched` a history of the files written meanwhile | `RegisterEmpties`, `RegisterWrites` `cmdRegister`; `Load*` `loadFromDisk`; `Stops` |
| `SartreKernel` | the kernel's C interface | `events`, `modules`, `overlay`, `namespaces`, `packages`, `models`, `tongue` are the fields of `sys`; `disk` the model files | one action per function |
| `MhxTerminal` | the terminal and its children | `input`, `stdio`, `out`, `screen` what is before and behind the buffers of mhx; `built` the programs that are installed, and the manifest of slots; `child`; `cwd`, `status`; `heard` whether a child was told to quit; `taken` a history of the pieces mhx read | `Take` `mhx_readline`; `Split` `split_argv`; `Answer`, `SpawnPath` the builtins; `MakeBegins`, `MakeEnds` the build around a directory change |
| `AmlAsync` | SPAWN, AWAIT, CHANNEL, am_init | `spawns`, `rings`, `mutex`; `th` a thread's program counter and locals; `log` a history of each ring | the commands, one step per access to shared state |
| `AmlPipes` | PIPE and INDEX | `io` is `g_pipes` with the descriptors; `fifo`, `named` the FIFOs and what is found at each path; `node` what the index node holds open | the functions `am_pipe_*`, the INDEX commands; `Node*` the other process |
| `AmlBlood` | BLOOD | `built`, `files`, `mapped` | `am_blood_compile` and its failures, unload, cleanup, init |
| `AmlField`, `AmlSoma` | the field; what it remembers | `field`, `gamma`, `method`; `words` the co-occurrence; `soma`, `sidecar` files as the part that was written, of gamma word by word; `mixed` a history variable: of the base settings, of gamma's slots and of the edges, whether a load that stopped put two makings together | field commands and natives, `am_step`, `am_harmonic_forward`, METHOD; saves that stop anywhere, loads of what is there, restarts under another voice |
| `AmlScript` | blocks, loops, functions, scripts within scripts, compiled scripts | `ctxs` the contexts with their frames; `gError`; `hop` the last move from line to line | `aml_exec_block`, `aml_exec_line`, `aml_call_func`, `am_exec`, `am_exec_file`, `am_exec_compiled` |
| `AmlArrays`, `AmlOps`, `AmlTape` | arrays; the array functions and the cases of `am_tape_backward`; training over scripts | `heap`, `globals`, `kept`, `tape`, `slots`; `misread` the reads of this call that found an old value or a freed array | one action per TAPE command and kind of function |
| `NotorchMirror`, `NotorchOps`, `NotorchTape` | a tensor with its device copy; every operation with its case of `nt_tape_backward`; the training step | `mem` a mirror per tensor; `tape`, `slots`, `nParams`; `gpu`, `room` the device | operations, backward, optimizers, utilities, LoRA, save |
| `GgufFile`, `NotorchQuant` | how a GGUF file is walked; packed formats, the bounds of unpacking, threads of `nt_qmatvec` | values as the bits of the block they are made of; `call`, `jobs`, `inline`, `out` | `gguf_open`, `gguf_dequant`, the row kernels; `nt_qmatvec` with a thread that cannot be created |
| `NotorchImage` | convolution, group norm, attention, upsampling: which elements each result is made of | `image` the call in progress | `nt_conv2d` over `nt_im2col` and `nt_blas_mm*`, `nt_group_norm` element by element, `nt_attention`, `nt_upsample_nearest` |
| `NotorchData` | tokenizer, loader, schedules | `loader`, `given`, `schedule`, `rates` | `nt_bpe_*`, `nt_dataloader_*`, `nt_schedule_get_lr` (of which AML has a copy) |
| `JobLifecycleProofs`, `JobStreamProofs`, `MeshFilesProofs` (peers, slots, inboxes), `HostProofs` (kernel and terminal), `NotorchProofs` (packed weights and images), `AmlAsyncProofs`, `AmlStateProofs` (the field and what it remembers, blood, pipes), `NotorchTapeProofs` | theorems, section 5 | - | - |
| `MCJobLifecycle`, `MCJobStream`, `MCMesh`, `MCMeshPeers`, `MCHost`, `MCAmlRuntime`, `MCNotorchTape`, `MCNotorch`, `MCAmlTape` | instances for TLC | - | - |

`MCMesh`, `MCHost`, `MCAmlRuntime` and `MCNotorch` put modules side by
side that share no state, most of them parts of one program: a variable `moving` chooses at the start which of them takes all
the steps. The states are those each module has alone; nothing is claimed about their
interleaving, because they have nothing to interleave on.

Definitions whose comment begins "A slip" are wrong variants of the definition below
them: a dropped guard, a swapped order, a missing reset. No specification uses them; each
breaks a property when it takes the place of the real one, which shows that the property
can fail. (One wrong variant is the code's own: `Normed`, by which chuck's batch of norms counts,
in the place of `Stepping`, by which the loop counts.)

Granularity. A goroutine's or thread's step reaches from one access to shared state to the
next; what it does under a mutex, or on its own channel, is one step. Two accesses with no
lock between them are two steps, word by word for `Job.State`: the Go memory model calls
this a race, and the build can hand out any mixture of the words. Memory is otherwise
sequentially consistent. A call of a sequential component (kernel, field, pipes, blood,
tape) is one action, its failures included; a write of a file is a choice of how much of
it arrived.

Abstractions. A line of output is its source and number, a message its post, a remote
agent's slot list the number of times it changed. A file is missing, empty, whole, a
mixture of two writers, or whole up to some part. The value of a tensor is the latest one
or an older one; a gradient is the set of contributions summed in it; a moment the set of
parameters it was made of. A level of the field is a small integer, and what a step does
to it a move by one. An expression of a script is the calls it makes, a condition either
outcome. JSON, HTTP headers, logging and the time of day are left out; the time in a file
name is not, because names collide.

## 3. Runs

| Run | Instance | Distinct states | Shows |
|---|---|---|---|
| `mesh` | Job: one kill, one stream, one status handler. Inboxes: three agents, a broadcast and a `send`, 2 milliseconds | 424,305 | `QuietStateIsExact`, `StreamEndsWithVerdict`, `PollIsCoherent`, `SettledStateIsFrozen`, `StreamEnds`; `ExitMeansDelivered`, `SettledIsShownWhole`, `BroadcastEnds` |
| `killed_state` | one kill | violation | a job that died of an answered kill does not end `killed` |
| `stream_live` | one pump (2 lines), two clients, `SubCap` 2, `ChanCap` 1, `RingCap` 1 | 54,631 | `NoPanic`, `JobEnds`, `StreamsEnd`, `KeepsContract` |
| `stream_many` | one client more than `SubCap` | violation | `JobEnds` fails: the pump blocks in its re-queue |
| `stream_output` | one pump, four lines, buffers that hold them all | violation | output is lost when `Wait` closes the pipes |
| `host` | Kernel: six calls over tables of two, files that come and go. Terminal: eleven sessions that reach every builtin, lines of two pieces, each mode, terminal or pipe, any program or the manifest of slots missing. Discovery: three lines of `peers.txt`, two of one host, 3 polls, a crash, 2 changes of each agent. Slots: three files of any content, two ids of one file and one of another, 2 registrations. Stream: two pumps (3 + 1 lines), one client, `SubCap` 1, `ChanCap` 2, `RingCap` 3, pipes of 2 | 1,064,603 | `LogTellsTables`, `TierIsJudged`, `IdsAreStable`; `CommandEndsClean`, `SessionInOrder`; `LastKnownIsKept`; `SlotsAreServed`; `JoinedGetClosed`, `StreamIsWhole` |
| `peers_unread` | the discovery of `host` alone | violation | an agent that could not read `peers.json` loses the peers that time out |
| `async` | threads: five programs, 2 slots, 2 rings of at most 3, 2 tries. Pipes: 5 commands, 2 pipes, 3 FIFOs. Blood: 3 rows, 2 names, 2 texts and the generated ones. Field: 3 to 4 commands over levels 0..2. Soma: 4 saves, loads, restarts, 2 voices, 3 edges, files that end at any word of gamma (`soma`); 7 of one voice's soma (`carried`), 8 of its sidecar (`retold`). Scripts: every well-formed one of five lines, and six with calls, loops, includes and spawns | 610,405 | `ChannelsAreQueues`, `JoinsAreFinal`, `ScriptsEnd`; `PipesLeadToTheirPath`; `LibrariesFollowRows`; `RestoredFieldFollows`, `WordsAreOwnAndOnce`; `ScriptsRunAsWritten` |
| `notorch` | tape: two steps of two parameters and two adapters, graphs of two operations, on the host or on a device that may fill. Files: some thousands, of up to four keys or two tensors, which have up to five dimensions. Packed weights: up to five rows, three threads. Texts of up to seven bytes under up to three merges, loaders over two epochs, nine steps of every schedule. Image calls of every geometry of a small set, groups that do not divide the channels among them | 536,369 | `MirrorsAreTruthful`, `ReadsAreLatest`, `GradientsAreComplete`, `MomentsAreOwn`; `PackedProductsAreWhole`; `TextIsTrainedWhole`; `ImagesAreWhole` |
| `lora_slots` | one frozen tensor under two adapters | violation | the last adapter is never stepped |
| `aml_tape` | two scripts and two steps of two parameters, an input and a result, graphs of two functions, a tape of five entries | 1,113,640 | `RefsAreHeld`, `AmlReadsAreLatest`, `AmlGradientsAreComplete`, `AmlMomentsAreOwn` |
| `aml_add_gradient` | the instance of `aml_tape` | violation | an addition on the device gives its first operand the gradient twice |

Type invariants: `TypeOK` (`JobLifecycle`, `JobStream`), `PeersTypeOK` and those of
`SartreKernel`, `AmlAsync`, `AmlBlood`, `AmlPipes`, `MeshBroadcast` (`BroadcastTypeOK`), `MeshSlots` and
`MhxTerminal` are proved for every instance, the latter as conjuncts of the inductive
invariants in the proof modules. Runs evaluate them as conjuncts of `ChannelsAreQueues`,
`ExitMeansDelivered`, `LogTellsTables`, `CommandEndsClean` and `MirrorsAreTruthful`;
`RefsAreHeld` has that of the arrays.

What some of the properties are made of, where the name does not say it:
`StreamIsWhole` = lines in order, no gap once live, the ring holds the latest.
`ChannelsAreQueues` = each ring is a FIFO against a history of what was sent, and a waiting
thread's index still means its channel. `JoinsAreFinal` = no thread orphaned, none joined
twice, a joined slot does not change. `ExitMeansDelivered` = a post that was
acknowledged (an "ok" line of `broadcast`, or the answer that `send` prints) is stored, no post is
cut off, exit 0 of `broadcast` means somebody has it; the exit code of `send` is 0 after any answer
and is not spoken of. `LastKnownIsKept` = `peers.json` keeps every peer, no older, but for the
first save of an agent that could not read the file, which `peers_unread` is about.
`CommandEndsClean` = the status is that of the child, unless `waitpid` itself failed; `argv` fits;
mhx is back in its directory. `BroadcastEnds` = the broadcast ends and
what is stored is shown by a watcher that keeps scanning: again and again there is no broadcast
under way and nothing left to show, and either lasts once it holds of all posts. `SessionInOrder` = every piece mhx
reads is run once and in order, on a terminal nothing typed for a child waits in the
buffer of mhx, and output appears in the order of the commands. `SlotsAreServed` = a
started agent serves every slot whose manifest was left alone since it listed the
directory, or those before the manifest it gave up at. `RestoredFieldFollows` = what is derived (temperature, direction, motion under
debt) follows what it is derived from, no unloaded gamma slot speaks, and no face or number of
slots leads out of the table, wherever the files ended. Settings of two makings (`mixed.field`)
are excepted until the next step of the field; gamma slots of two makings, or under the number of
another making (`mixed.gamma`), from being settled: a soma that ends within `gamma[]`, or
before `n_gamma`, leaves active slots that no search finds, and nothing puts that right. `WordsAreOwnAndOnce` = the arrays of
the words fit, two words have one edge unless the edges are of two makings
(`mixed.words`), and a voice that was given back its own words has no other's.
`AmlGradientsAreComplete` = an entry's gradient is the sum of what all its uses owe it; that an
addition owes it once is `AdditionsAddOnce`, and false on the device.
`PackedProductsAreWhole` = a file is read as it was written (keys that are kept, tensors of at most
four dimensions), unpacking and every row kernel
agree bit by bit, nothing is read behind the data, every row has one writer.
`TextIsTrainedWhole` = encoding is reversible and greedy by rank, and an epoch hands out
every position once, and a rate stays between its bounds, rises to the base during the
warm-up and falls after it. `ImagesAreWhole` = every element of a result is made of exactly
the elements its operation is named for, padding contributes nothing, and group norm
may write where it reads.

Why the bounds are enough. *mesh*: every pair of goroutine kinds meets, and handlers
of one kind touch shared state only through `State`; the theorems cover any number; two clock values let two messages share a file or
not. *stream_live*: two clients reach `SubCap`, the largest number for
which the property is claimed; *stream_many* uses capacity 1 and two clients where the
code has 4 and five. *host*: two entries fill every table, six calls let a full
table meet every other call; two agents of one host take turns in one entry, three polls
let an entry be written, saved, lost by a crash and read back, or not be readable; two
registrations meet in one file, before, during and after a load; two pumps are all a job
has, and three lines on one source and a ring of three fill, wrap and drop. *async*: the programs are the README's example and those of
`test_aml.c`, made to reach every limit; `MaxTries` is 1000 in the code, and two already
let everything change between two of them; five commands fill the pipe table, re-create a
path and reopen it; three rows hold two copies of a name and one more; four saves and
loads let one voice save, crash, and another load; seven and eight let what a cut-off load
left be saved, loaded by a second process, saved and loaded by a third (`MaxFieldCalls` is the larger); five lines hold an `if` with an `else`
inside a loop, and nesting repeats. *notorch* and *aml_tape*: an operation's effect on a
mirror depends on its operands' states, which two operations in sequence bring about; the
last step of a graph plan explores any two of all the operations and ends at backward,
other steps only those that warm up a parameter (`Warmers`, `Feeders`); the device fills
up only in the former. A program whose slot counters part ways (`uneven`) takes no
other step and runs no other script. Shapes of matrices lie on both sides of the number of threads and
of the size gate, file texts on both sides of each buffer.

Deadlock checking is off everywhere: a job, a script, a session and a broadcast end, and
the bounds on lines, polls, calls, crashes and the clock stop the rest.

Fairness. Goroutines and threads that can step are scheduled: weak fairness of each one's
next step. `Drain` and `CloseSubscribers` take `subMu`, which other goroutines free and
take again; Go's mutex hands itself to a waiter that starved for a millisecond, so those
two have strong fairness. Nothing makes a request arrive, a client read or leave, a child
write or exit, a remote handler answer. A client of `broadcast` gives up after its time-out
(`Timeout` of its `http.Client`), so its own step is fair; the handler's is not.
`StreamsEnd` is about clients that read (`Prompt(c)`), next to others that need not.
A watcher that keeps scanning can read a file that is there again and again: reading
(`ReadOne`) has strong fairness, so that not every attempt fails (`ReadFails`), as while descriptors
run out; each file is read once, so this reaches every one that is tried again. A file that can
never be read would never be shown.
`AmlAsync` needs no strong fairness: the holder of the mutex frees it in its next step, and
the tries are bounded. The sequential parts promise nothing that needs fairness.

## 4. Findings

1. `job.go:124`. A child killed by a signal gives `Wait` an error, and the reaper
   stores `failed` over the `killed` that an answered `DELETE /job/{id}` stored
   (or `kill` stores it while the reaper is at work). `JobKilled` is hardly ever a
   job's last state. Run `killed_state`.
2. `job.go:201`. `fanOut` puts each drained channel back with a blocking send, holding
   `subMu`. With more streams than `cap(j.subscribe)` = 4, new subscribers fill the
   channel behind the drain, the pump blocks, the reaper and the other pump block on the
   mutex, and the child blocks on its full pipe. Run `stream_many`.
3. `job.go:117`. `Wait` closes the pipes of `StdoutPipe` as soon as the child has
   exited, though the pumps may still be reading: the end of the output is lost. (The Go
   documentation asks that all reads finish before `Wait`.) Run `stream_output`.
4. `notorch.c:2388`. The optimizers count frozen parameters in the loop they end after
   `n_params` entries: a frozen base shifts the slots of the adapters behind it, and the
   last adapter is never stepped, against `notorch.h:234-236`. Run `lora_slots`.
5. `peer.go:97`. The error of `load` is ignored: an agent that cannot read or parse
   `peers.json` starts with an empty cache, and its first successful poll renames that over the
   file. A peer that timed out in that poll is dropped, against `peer.go:129` ("keep
   last-known data; don't drop on a single timeout"). Run `peers_unread`.
6. `ariannamethod.c:1405`. The backward case of ADD gives the gradient to its first parent
   (1393) before it looks where the result is; on the device 1405 gives it again. 1392 says
   "da += dout, db += dout". Run `aml_add_gradient`.

Exceptions. Some properties except states in which the code does something else than one
would expect. Each is named in the comment of its property; they are, with others that
were met while modelling and have no run:

*mesh-agent.* A stream opened after the reaper's close, or for a job that did not start, is
ended by nobody (`late`, `stranded`). Two messages of one sender in one millisecond share a
file (`Alone`). The first bad manifest ends the load of the slots (`failed`), and a registration
that is under way while an agent starts is such a manifest for a moment. `send` ignores
the status of its answer: it prints a refusal and exits with 0 (`client.go:133`), so its exit code is
no acknowledgement; only `broadcast` tests it (187). A file whose `Info` or `ReadFile` fails waits
for the next scan.

*AML async.* A script that closes every channel and creates one without a wait in between
gives a sleeping thread another's channel (`HostWaits`). Nested SPAWNs count slots with no lock; the instances have one spawning thread,
as every script of the repository. Spawn slots are not used again before `am_init`.

*AML scripts* (`Untaken`, `Retracted`). A value returned by a function that is called as a
statement, or an array returned into a condition, ends the caller's block and function too.
`while f():` computes `f` again after a return in the body, and the value of that call
clears the return (5763 says "propagate return — if has_return is set, stop executing").
`while` stops silently after 10000 rounds. The depth limit of INCLUDE counts within one
context and every included file has a fresh one, so a file that includes itself recurses
without bound (`MaxNesting` is the model's); functions and variables of an included file are
not visible to the includer. SPAWN drops indentation, so blocks in a spawned script run
flat. `am_exec_compiled` goes line by line: bodies run again, or without their header
(the property is claimed for scripts without blocks, calls and returns).

*AML arrays and tape.* The second contribution of finding 6 is left out of
`AmlGradientsAreComplete` (`AddedAgain`), which says of such an addition that nothing else is added
or missing. ADAM_STEP, CHUCK_STEP, LOAD and element writes leave
`gpu_valid` set: the device does not see the update, or a later download reverts it
(`poked`). An argument nested in silu, gelu, dropout or relu keeps one reference for good
(`leaked`). Optimizers and ACCUM count parameters with a gradient, APPLY_ACCUM all of them,
so slots shift when a parameter had none (`uneven`; 1337 is positional). CLIP_GRADS,
LR_NEXT and NAN_CHECK leave their number in another context's variable
(`bake/aml/README.md:403` says "store current lr").

*AML field and soma* (`mixed`, `own`). A load that ends within its file has overwritten part
of the state: gamma slots, say, but not their number, and slots at or beyond the number are active
without being found. A voice without a sidecar keeps the words it found in the soma (957 says
"missing = fresh per-voice cooc") and saves them as its own. Motion that debt stopped is not
resumed when the debt is gone, and METHOD may set a slowed field moving. Unlike later loads
and the header's 0..1, the first load of a gamma does not clamp the strength of the essence.
Gamma slots are not used again. The window of co-occurrence reaches five back and four
forward (a comment says 5 both ways).

*AML pipes and blood.* A second INDEX INIT or PIPE CREATE unlinks the path, and pipes that
are open stay on the FIFO nobody can find (7558 calls it idempotent). A write to a full pipe
returns 0 and the message is lost. STATUS may show an earlier answer. A second UNLOAD of a
name hits the first row, already unloaded, and leaves the later module loaded and its files
gone (4008 says "unload module").

*notorch* (`poked`, `uneven`, `Aligned`, `room`). Several operations read the host copy
without pulling it (542-545 say every host reader pulls): `ReadsAreLatest` is claimed for
kernels and for those that pull (`Pullers`). apply_accum and the nan guard write the host
copy and set no flag. Contributions are dropped when the device has no memory left. `nt_save`
writes stale host data and ignores failed writes. `nt_lora_load` leaves the device's copy
marked as fresher. Slots leak when the tape is destroyed after a clear. A merge whose
expansion has 64 bytes or more decodes to nothing; the tail of a corpus that does not fill
a batch is never trained; a step schedule with a factor above 1 rises. `gguf_open` rounds
`data_size` up to a page, so a tensor cut off within the last page passes the bound check
(163); values of types 0 to 3 and 11 are not skipped, of a fifth dimension nothing is read (147), and
the reader is lost (`Readable`); the number of elements of a tensor wraps around (149).
Chuck on the device reads the norms of all gradients in one batch (2563-2572), whose places skip
parameters without a gradient, while the loop's counter does not (2581): behind such a parameter
every slot is dampened and frozen by the norm of a later one, and the last by a number never
written, though 2555-2556 says that the two align (`Normed` is that batch).
`nt_conv2d` takes a kernel that is larger than the padded image by less than the stride,
because C divides towards zero (5275 says "-1 on bad geometry").

*sartre kernel.* `:452` refuses an update of a model it holds when the table is full, `:466`
returns before the tongue tier follows a changed profile, namespaces are not used again
(`:187`), installing and removing a package both let the overlay grow.

*mhx.* `install` takes a `waitpid` that fails for a success (608), other builtins for a failure.
A heart fed from a pipe finds part of its lines in the buffer of mhx; with `--line` on
a pipe the output of a child precedes that of earlier builtins; the tail of a line that is
longer than the buffer is a command of its own.

## 5. Proofs

TLAPS proves, for every value of the constants:

| Theorem | Property | From |
|---|---|---|
| `JobLifecycleProofs!TypeCorrect` | `TypeOK` | `NamesDiffer` |
| `JobLifecycleProofs!VerdictLasts` | `SettledIsTerminal` | `NamesDiffer`, `RolesDiffer` |
| `JobLifecycleProofs!QuietStateExact` | `QuietStateIsExact` | same |
| `JobLifecycleProofs!StreamVerdict` | `StreamEndsWithVerdict` | same |
| `JobLifecycleProofs!PollCoherence` | `PollIsCoherent` | same |
| `JobLifecycleProofs!SettledFrozen` | `SettledStateIsFrozen` | same |
| `JobStreamProofs!TypeCorrect` | `TypeOK` | `CapacitiesAssumption`, `LinesAssumption`, `NamesAssumption` |
| `JobStreamProofs!NeverPanics` | `NoPanic` | same |
| `JobStreamProofs!Uniqueness` | `ChannelsAreUnique` | same |
| `JobStreamProofs!CloseMissesNobody` | `JoinedGetClosed` | same |
| `JobStreamProofs!OutputInvariant`, `StreamWhole` | `StreamIsWhole` | same |
| `JobStreamProofs!KeepsTheContract` | `KeepsContract`, the refinement of `StreamContract` | same |
| `MeshFilesProofs!TypeCorrect` | `PeersTypeOK` | `LinesAreAddresses`, `NoEmptyLine`, `Bounds` |
| `MeshFilesProofs!FileAlwaysWhole` | `PeersFileIsWhole` (no run of its own: it follows from one action) | same |
| `MeshFilesProofs!KnownIsKept` | `LastKnownIsKept`, with its exception | same |
| `MeshFilesProofs!LoadedAreServed` | `SlotsAreServed` | `SlotLimits` |
| `MeshFilesProofs!InboxInvariant`, `SuccessIsDelivery` | `ExitMeansDelivered` | `BroadcastPosts`, `ClockIsNat` |
| `MeshFilesProofs!ScansAreWhole` | `SettledIsShownWhole` | same |
| `HostProofs!KernelTypeCorrect` | `KernelTypeOK` | `KernelAssumption`, `LimitsAssumption` |
| `HostProofs!StableIds` | `IdsAreStable` | same |
| `HostProofs!TierJudged` | `TierIsJudged` | same |
| `HostProofs!BestModelJudges` | `TierIsOfTheBest`: what `sartre_model_best` means | same |
| `HostProofs!InductiveInvariant`, `LogTells` | `LogTellsTables` | same |
| `HostProofs!TerminalInvariant`, `EndsClean` | `CommandEndsClean` | `TerminalAssumption`, `SomethingIsTyped` |
| `HostProofs!RunsInOrder` | `SessionInOrder` | same |
| `AmlAsyncProofs!RingInvariant`, `RingsAreQueues` | `RingIsQueue` | `Limits`, `ScriptsAreCommands` |
| `AmlAsyncProofs!EveryThreadIsJoinedOnce` | `JoinsAreFinal` | these and `HostLaunches`, `HostWaits` |
| `AmlAsyncProofs!AsyncInvariant`, `ChannelsHold` | `ChannelsAreQueues` | same |
| `AmlStateProofs!BloodInvariant`, `LibrariesHeld` | `LibrariesFollowRows` | `BloodLimits` |
| `AmlStateProofs!PipesInvariant`, `PipesLead` | `PipesLeadToTheirPath` | `PipeLimits` |
| `AmlStateProofs!FieldInvariant`, `SomaInvariant` | the inductive invariants of the field, and of all that it remembers but words | `FieldLimits`, `SomaLimits` |
| `AmlStateProofs!RestoredFieldFollowsAlways` | `RestoredFieldFollows` | same |
| `AmlStateProofs!WordsInvariant`, `WordsAreOwnAndOnceAlways` | `WordsAreOwnAndOnce` | same |
| `NotorchProofs!RowsInvariant`, `EveryRowOnce` | `RowsAreWrittenOnce`, a part of `PackedProductsAreWhole` | `QuantLimits` |
| `NotorchProofs!UnpackingStaysInside` | what `DequantStaysInside`, another part, says, of every shape, offset and size | same |
| `NotorchProofs!ImageInvariant`, `ImagesAreWholeAlways` | `ImagesAreWhole`, for every geometry | `ImageLimits` |
| `NotorchTapeProofs!TapeInvariant`, `MirrorsAreTruthfulAlways` | `MirrorsAreTruthful` | `EntriesAssumption`, `TapeAssumption` |
| `NotorchTapeProofs!ReadsAreLatestAlways` | `ReadsAreLatest` | same |
| `NotorchTapeProofs!GradientsAreCompleteAlways` | `GradientsAreComplete` | same |
| `NotorchTapeProofs!MomentsAreOwnAlways` | `MomentsAreOwn` | same |

The assumptions say that goroutines have different names and one role, that capacities,
limits and sizes are numbers and where the code needs it positive, that `peers.txt` is a
sequence of non-empty addresses, that the ids of slots have file names, that files have
sizes and formats, that what is typed is lines of at least one piece, and that a training
program's parameters and its input fit on the tape (`TapeAssumption`: `MaxEntries` is what
`NT_TAPE_MAX_ENTRIES` is to the program; operations may still find the tape full, and so may
the adapters of `nt_lora_forward`). Three are about
AML scripts: `ScriptsAreCommands` gives them their form. `HostLaunches` says that spawned
scripts only read, write and close: `g_spawn_count` and `g_channel_count` have no lock, no
script of the repository does otherwise, and the theorem on rings needs neither this nor
the next. `HostWaits` says that a script which closes all its channels waits for its
threads before it creates another; one that does not is outside these theorems, because
what they state is false of it. TLC evaluates every assumption on every run of its module.

*Lifecycle.* None of the properties is inductive: that the reaper's verdict stays needs
that no other writer has an older constant still to store. `ControlInv` ties the program
counters of invoke and reaper to the child and to its exit; `StoreInv` says what each
writer is storing where; `TextInv` derives the text of `State` from the last writer that
got through; `ReportInv` and `QuietInv` add `FinishedAt`, `ExitCode` and the state when
no kill was accepted. Their conjunction `CoreInv` is kept by every step without looking at
the readers. `SeenInv`, proved on top of it, says what a reader that has loaded some words
may hold: once the reaper has settled, a loaded text is never an earlier constant. The
three reader properties follow from it.

*Stream.* The argument is lock discipline: only the holder of `subMu` has a drained list
(`LockInv`), a drained list and the queue share no channel and repeat none, what they hold
is joined and not closed (`HeldAreJoined`, `ClosedAreJoined`), and a joined client that is
neither closed nor late is in one of them. The reaper closes with the lock in hand, when
every list is empty: so it closes each channel once and misses none. Lemmas on the elements
of `Append`, `Tail` and of a sequence without repetition carry the bookkeeping.

*Output of a stream.* On top of that, `InputInv` numbers the lines between the child and
its pump, `RingInv` says that the ring holds what was appended last, `LiveInv` how far each
client has been served while a fan-out is under way (`Offered` differs between the channels
already served and those in the pump's hand), and `BackInv` that a backfill ends before the
first live line. `OutputInv` is inductive together with `IndInv` and gives `StreamIsWhole`.
The refinement maps the contract's state to the last line each client was sent; `ContractInv`
adds when the reaper closes, and each step of `JobStream` is shown to be a step of
`StreamContract` or a stutter, action by action.

*Messages.* `CellInv` follows one file from its creation, empty, to its content, for posts
that share it with nobody; `OkInv` and `CollectInv` carry that to the client that was told
(`Told`) and to the broadcast that counts answers. For the watcher, `ScanInv` keeps what a scan has read and
has yet to read apart from what was shown, and `SettledInv` says that a message answered
before the scan began is in one of the two, unless its file could not be read.

*Peers.* An entry cannot be compared with its successor when two agents of one host
take turns in it; the invariant therefore bounds every entry by what its agent has now
(`EntriesInv`), the fetched answer from below by the file (`AnswerInv`), and a running
agent's cache by the file it loaded (`CacheInv`). `SaveInv` says that what is renamed is
the cache, whole. Then `Rename` is the only step that touches the file, and makes it no
older. `CacheInv` is claimed of agents that have read the file or replaced it (`~unread`); of the
others it is false, which is finding 5.

*Slots.* What was left alone since the directory was listed is registered or still to be
read, and a load gave up at a file that was not left alone (`LoadInv`). It needs that the
file at hand is the first unread one, a choice of a least element.

*Kernel.* A table grows and keeps its names, so an id never changes its meaning. The log is
harder: `ToldInv` says that the newest event about a name tells the flag of its first entry,
and survives the ring's dropping its oldest event only because `RingInv` says that the ring
is the latest of a numbered history; `FirstInv` says that no later entry of a name is ever
installed. `BestModelJudges` states without folds what the loop of `sartre_model_best`
finds.

*Terminal.* `TakenInv` is the account of every piece: those read are those that ran, the one
at work, and those in the buffer of mhx, in this order. On a terminal that buffer is empty
but for the line about to be taken (`LineInv`), which is why a child finds its own input.
`ShownInv` says that what has been shown, followed by what is buffered, rises. `CleanInv`
follows the directory through a build and the status through a child that was seen to end.

*Threads and channels.* `CodeInv` keeps each thread within the command at the head of its
script, with the locals that command needs. `RingInv` says of every ring, as positions in a
circular buffer, what it holds; that it is a queue against its history is proved for any
scripts. `LaunchInv` ties a slot to its thread in both directions, and says where the host
is between the two stores of a launch or the test and the store of a join. `KeepInv` says
that a thread which waits is in a ring of the name it asked for, and that nobody creates
a ring in its place before it has ended: the half that `HostWaits` is needed for.

*Blood and pipes.* Blood: one row per loaded text (`OneRow`), a library open as often as
a row holds it, every file one of an open row. Pipes: `Leads` says that rows and open
descriptors are one to one and that a descriptor's FIFO was made at its path and is no
newer than the one found there. A free descriptor is found because there are as many as
rows, an argument by cardinality.

*Packed weights.* A row is unwritten exactly while it waits: for a thread, for the caller, or
beyond the frontier of what has been given out (`WrittenInv`). Shares follow each other, the
caller's rows are behind all of them (`SharesInv`), so nobody else waits for the same row; and
`nt` shares rounded up are all the rows (`SharesSuffice`), so nothing is left beyond the
frontier when every thread was created.

*Field and soma.* A load makes the next field of what some save left, so every part of the
invariant is stated of the process and of the files at once: `FieldInv` for what is derived,
`GammaInv` for the slots (that they are settled while their mark says so, and that no face leads
out of the table in any case), `MethodInv` for the ring of entropies as the latest of all,
`WordsInv` for the words. `MakingInv` are the marks (`mixed`) that say what is of two
makings. They have to travel with the files: the first form of the two properties, in which a mark was
lost when a process that had met a cut-off file saved and another loaded it, passed every run
of four calls, and its invariant could not be closed; the counterexample has six calls, and the parts
`carried` and `retold` of the run now go that far. Ingesting a text and consolidating are
recursive functions; `UpTo` gives the induction, once for the existence of each function
and once for what it keeps. That two words have one edge then needs that a search which
finds none has looked at every edge in use, and that weakening keeps places apart.

*Images.* Places in flat arrays are numbers in mixed radix: `RowAndColumn`, `PlaceInRow` and
`PlaceBelow` say that rows and columns are told by `\div` and `%`. So a place of the columns
tells its tap (`PlaceOfATap`), every place is of one (`PlaceIsATap`), the columns are written
exactly once (`ColumnsAreFull`, a bijection with `0..K*N-1`), and a product of matrices sums
the taps of one element (`ConvolutionSumsItsTaps`), which are the kernel laid over the
image (`TapsAreCovered`). Group norm is the part that takes steps: `NormAt` says that what
is written is a prefix of the channels, each by statistics of its group, and that these were
taken when nothing of the group was written, which is why it may write where it reads.

*Training tape.* `TapeInv` has eight parts. `Shaped` and `Underway` say how far a session
has come: while parameters are registered the tape holds nothing else, and until the backward
pass there is no gradient. `Settled` is what each call keeps: mirrors truthful but for the
tensors written behind the flags (`poked`), a tape whose entries stand behind their parents,
and parameters in the order of the program with their slots numbered in the same order (`Own`,
which counts the parameters before an entry by cardinality). `SlotsOwn`, `AppliedOwn`,
`FrozenBare` and `SteppedHere` say of the slots that lead (those before the first
parameter registered without one) that their moments and sums recall one weight, so that a counter over
gradients, in `adam`, `chuck` and `accum_grads`, and a counter over parameters, in
`apply_accum`, arrive at the same slot.

The operations need one lemma each for their shape and one for all: every operation launches a
kernel on operands that were uploaded, or a loop on operands that were pulled, and records an
entry (`LaunchGoes`), or stops at an operand that is missing, at a full tape, or at what an
operation inside it could not do. So do the cases of `nt_tape_backward`, of which there
are thirty-three: each gives to some of its parents through `tape_acc_grad` or
`tape_acc_grad_gpu` (`CaseBacked`, `OwnBacked` and the lemma of each case), the first never
losing a sum because the copy is fetched, the second never unless there is no memory.
The pass goes down from the loss, and an entry's gradient is complete when its turn comes
because its consumers stand behind it: after entry `i` every entry from `i` up has
given what it owes (`Down`). The pass is a recursive function, indexed by how many entries are done, and the
induction is again the least number for which the claim fails. What the entries owe is then
compared with the chain rule over the uses of an entry that the loss depends on (`PassSums`).

Least elements. The library proves that a non-empty set of numbers has a least one by an
induction that takes an operator, which no installed prover can instantiate. `MinIsLeast`
gets it from the well-founded order of finite sets: of the intervals `1..x` one contains no
other. An induction over a concrete recursive function is made from it: the least number
for which the claim fails (`UpTo`). What stays out of reach is an induction stated once for
every operator.

Only model-checked:

- Everything temporal (`StreamEnds`, `JobEnds`, `StreamsEnd`, `ScriptsEnd`,
  `BroadcastEnds`): the prover has no rule for fairness.
- `ScriptsRunAsWritten`: `AmlScript` is stated with a recursive operator, which takes the
  SMT backend from a module.
- `TextIsTrainedWhole`, and the walk through a file in `PackedProductsAreWhole`: folds of the
  community modules, whose definitions take an operator; each would have to be written as
  a function of its own first.
- `RefsAreHeld`, `AmlReadsAreLatest`, `AmlGradientsAreComplete` and `AmlMomentsAreOwn`: not
  proved; the last three are the twins of what is proved of notorch, and nothing is known to
  stand in the way.
- `KernelsReadWhatIsUnpacked`, of `PackedProductsAreWhole`: a comparison of tables of a fixed
  size, which TLC makes completely.

## 6. Not modelled

| Part | Why |
|---|---|
| the exit code of `exec` (which is 0 when a stream ends without a state event, `client.go:106`) | `JobStream` ends at what the client receives |
| presence, slot listing, routing; `listen` without `--watch`, `--since`, `resolvePeer` | they read constants, or pass once over a file, and keep nothing |
| edits of `peers.txt` while the agent runs | the file is a constant; a removed line leaves its entry, an added one starts unknown |
| two threads that save persistent globals at once (6163), EEXIST between unlink and mkfifo | undefined in C, or needs a third process |
| AML's logits overlay, live metrics, delta learning, tokens and expressions | numerics and text |
| resized optimizer slots (`min(output, m)` in the norms included), `no_decay`, chuck's dampening, loss scale, `nt_load` (an unfinished file is read into uninitialised locals) | shapes and numbers that the models do not keep |
| numeric kernels, SIMD, CUDA, vision, the nanollama example, the dario generator, the JavaScript edition, stb_image | their properties are about real numbers |
| `amlc`, `am`, installers, plugin | one pass, no state |

## 7. Plan

Done: the modules of section 2; proofs of the mesh agent (jobs, streams, peers, slots,
messages), of the kernel, the terminal, AML's threads, channels, pipes, blood, field and soma, of
notorch's training tape, of the threads and bounds of its packed weights, and of its images.
Next: `AmlTape`, along the argument for the training tape.
