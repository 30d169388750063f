-------------------------------- MODULE AmlAsync --------------------------------
(* SPAWN, AWAIT and CHANNEL of the AML interpreter
   (bake/aml/core/ariannamethod.c): a table of spawn slots and a table of ring
   buffers, shared by the host's thread and the threads it spawns. Slots are
   claimed, scanned and joined with no lock; rings are written and read under
   g_channel_mutex, which a full or empty ring gives up between two tries.

   What a script does is its list of commands; the rest of the interpreter is
   left out. Tables are indexed from 0 as in the code. Memory is sequentially
   consistent and a step is atomic; "g_spawn_count++" is a load and a store.   *)
EXTENDS Integers, Sequences, FiniteSets, Functions, FiniteSetsExt

CONSTANTS
  Programs,     \* records [main : a script, body : spawn name -> script]
  MaxThreads,   \* bound on the threads ever spawned
  MaxSpawns,    \* AM_MAX_SPAWNS
  MaxChannels,  \* AM_MAX_CHANNELS
  Buf,          \* AM_CHANNEL_BUF
  MaxTries      \* the 1000 tries of a read or write

ASSUME Limits == /\ {MaxThreads, MaxSpawns, MaxChannels, Buf} \subseteq Nat \ {0}
                 /\ MaxTries \in Nat

(* The commands of a script that touch threads and channels. *)
Commands == [op : {"spawn", "await", "close"}, name : STRING] \union [op : {"read"}, name : STRING]
              \union [op : {"write"}, name : STRING, val : Int]
              \union [op : {"create"}, name : STRING, cap : Int]
              \union [op : {"awaitall", "init", "closeall"}]

ASSUME ScriptsAreCommands ==
  \A p \in Programs :
    /\ p.main \in Seq(Commands) /\ \A n \in DOMAIN p.body : p.body[n] \in Seq(Commands)
    /\ \A s \in {p.main} \union {p.body[n] : n \in DOMAIN p.body} :
         \A k \in DOMAIN s : s[k].op = "spawn" => s[k].name \in DOMAIN p.body

(* Only the host's script spawns, awaits and creates, as in every script of the repository:
   g_spawn_count and g_channel_count have no lock. *)
ASSUME HostLaunches ==
  \A p \in Programs : \A n \in DOMAIN p.body : \A k \in DOMAIN p.body[n] :
    p.body[n][k].op \in {"write", "read", "close"}

(* A script that closes every channel and then creates one has waited for its threads in
   between: CHANNEL CLOSE does not wait, and a thread that slept meanwhile would go on in
   the channel that took the place of its own. *)
ASSUME HostWaits ==
  \A p \in Programs : \A j, k \in DOMAIN p.main :
    j < k /\ p.main[j].op = "closeall" /\ p.main[k].op = "create" =>
      \E m \in j..k : p.main[m].op \in {"awaitall", "init"}

Main     == 0
Threads  == 0..MaxThreads
Slots    == 0..(MaxSpawns - 1)
Rings    == 0..(MaxChannels - 1)
Nobody   == -1

VARIABLES
  body,       \* the script of each SPAWN block
  th,         \* per thread: where it is, what is left of its script, its locals
  spawns,     \* g_spawns and g_spawn_threads
  spawnCount, \* g_spawn_count
  rings,      \* g_channels
  ringCount,  \* g_channel_count
  mutex,      \* who holds g_channel_mutex
  log         \* per ring, since it was created: the values accepted and handed out

vars      == <<body, th, spawns, spawnCount, rings, ringCount, mutex, log>>
spawnVars == <<body, spawns, spawnCount>>
ringVars  == <<rings, ringCount, mutex, log>>

NoSlot == [name |-> "", active |-> FALSE, joined |-> FALSE, result |-> 0, thread |-> Nobody]
NoRing == [name |-> "", active |-> FALSE, cap |-> 0, head |-> 0, tail |-> 0, count |-> 0,
           data |-> [i \in 0..(Buf - 1) |-> 0]]
Unborn == [pc |-> "unborn", code |-> <<>>, i |-> 0, n |-> 0, slot |-> 0, rc |-> 0, joins |-> 0]

Init ==
  \E p \in Programs :
    /\ body = p.body
    /\ th = [t \in Threads |-> IF t = Main THEN [Unborn EXCEPT !.pc = "next", !.code = p.main]
                               ELSE Unborn]
    /\ spawns = [s \in Slots |-> NoSlot] /\ spawnCount = 0
    /\ rings = [r \in Rings |-> NoRing] /\ ringCount = 0
    /\ mutex = Nobody
    /\ log = [r \in Rings |-> [sent |-> <<>>, got |-> <<>>]]

-----------------------------------------------------------------------------
(* The command a thread is at. i and n are its loop variables. *)

At(t, label)  == th[t].pc = label
Op(t)         == Head(th[t].code)
Begins(t, op) == At(t, "next") /\ th[t].code # <<>> /\ Op(t).op = op
In(t, op)     == ~At(t, "next") /\ th[t].code # <<>> /\ Op(t).op = op

Goto(t, label, i, n) == th' = [th EXCEPT ![t].pc = label, ![t].i = i, ![t].n = n]
Return(t) == th' = [th EXCEPT ![t].pc = "next", ![t].i = 0, ![t].n = 0, ![t].code = Tail(@)]

-----------------------------------------------------------------------------
(* am_spawn_launch. *)

(* The table is full: the block is silently not run. *)
LaunchFull(t) == /\ Begins(t, "spawn") /\ spawnCount >= MaxSpawns
                 /\ Return(t) /\ UNCHANGED <<spawnVars, ringVars>>

LaunchClaim(t) ==
  /\ Begins(t, "spawn") /\ spawnCount < MaxSpawns
  /\ spawns' = [spawns EXCEPT ![spawnCount] =
                  [@ EXCEPT !.name = Op(t).name, !.active = TRUE, !.joined = FALSE, !.result = 0]]
  /\ Goto(t, "create", spawnCount, 0)
  /\ UNCHANGED <<body, spawnCount, ringVars>>

(* malloc, strdup or pthread_create fails. Only the last resets active. *)
LaunchFails(t) ==
  /\ At(t, "create") /\ Return(t)
  /\ \/ UNCHANGED spawns
     \/ spawns' = [spawns EXCEPT ![th[t].i].active = FALSE]
  /\ UNCHANGED <<body, spawnCount, ringVars>>

LaunchThread(t) ==
  /\ At(t, "create")
  /\ \E u \in Threads :
       /\ At(u, "unborn") /\ \A v \in Threads : At(v, "unborn") => u <= v
       /\ spawns' = [spawns EXCEPT ![th[t].i].thread = u]
       /\ th' = [th EXCEPT ![t].pc = "load",
                           ![u] = [@ EXCEPT !.pc = "next", !.slot = th[t].i, !.code = body[Op(t).name]]]
  /\ UNCHANGED <<body, spawnCount, ringVars>>

LaunchLoad(t)  == /\ At(t, "load") /\ Goto(t, "store", th[t].i, spawnCount)
                  /\ UNCHANGED <<spawnVars, ringVars>>

LaunchStore(t) == /\ At(t, "store") /\ spawnCount' = th[t].n + 1
                  /\ Return(t) /\ UNCHANGED <<body, spawns, ringVars>>

(* am_spawn_thread_fn: am_exec has returned 0 or an error code; the slot is marked
   under g_spawn_mutex, and the thread ends. *)
ScriptEnds(t) ==
  /\ t # Main /\ At(t, "next") /\ th[t].code = <<>>
  /\ \E rc \in {0, 1} :
       /\ th' = [th EXCEPT ![t].pc = "marked", ![t].rc = rc]
       /\ spawns' = [spawns EXCEPT ![th[t].slot].active = FALSE, ![th[t].slot].result = rc]
  /\ UNCHANGED <<body, spawnCount, ringVars>>

ThreadExits(t) == /\ At(t, "marked") /\ th' = [th EXCEPT ![t].pc = "exited"]
                  /\ UNCHANGED <<spawnVars, ringVars>>

-----------------------------------------------------------------------------
(* am_spawn_await, am_spawn_await_all and the reset of am_init. *)

Awaiting(t) == th[t].code # <<>> /\ Op(t).op \in {"await", "awaitall", "init"}

AwaitBegins(t) == /\ At(t, "next") /\ Awaiting(t) /\ Goto(t, "scan", 0, 0)
                  /\ UNCHANGED <<spawnVars, ringVars>>

Wanted(t, s) == /\ ~spawns[s].joined
                /\ Op(t).op = "await" => spawns[s].name = Op(t).name

AwaitScan(t) ==
  /\ At(t, "scan") /\ th[t].i < spawnCount
  /\ IF Wanted(t, th[t].i) THEN Goto(t, "join", th[t].i, 0) ELSE Goto(t, "scan", th[t].i + 1, 0)
  /\ UNCHANGED <<spawnVars, ringVars>>

(* pthread_join. *)
Join(t) ==
  /\ At(t, "join") /\ At(spawns[th[t].i].thread, "exited")
  /\ th' = [th EXCEPT ![t].pc = "joined", ![spawns[th[t].i].thread].joins = @ + 1]
  /\ UNCHANGED <<spawnVars, ringVars>>

(* A slip: joined is not recorded when one name is awaited. *)
ForgetJoined(t) ==
  /\ At(t, "joined")
  /\ IF Op(t).op = "await" THEN Return(t) /\ UNCHANGED spawns
     ELSE /\ spawns' = [spawns EXCEPT ![th[t].i].joined = TRUE]
          /\ Goto(t, "scan", th[t].i + 1, 0)
  /\ UNCHANGED <<body, spawnCount, ringVars>>

RecordJoined(t) ==
  /\ At(t, "joined")
  /\ spawns' = [spawns EXCEPT ![th[t].i].joined = TRUE]
  /\ IF Op(t).op = "await" THEN Return(t) ELSE Goto(t, "scan", th[t].i + 1, 0)
  /\ UNCHANGED <<body, spawnCount, ringVars>>

AwaitEnds(t) ==
  /\ At(t, "scan") /\ th[t].i >= spawnCount /\ Op(t).op # "init"
  /\ Return(t) /\ UNCHANGED <<spawnVars, ringVars>>

(* A slip: the table is cleared before the threads are joined. *)
ResetEarly(t) ==
  /\ At(t, "scan") /\ Op(t).op = "init"
  /\ spawnCount' = 0 /\ spawns' = [s \in Slots |-> NoSlot]
  /\ Goto(t, "close", 0, 0) /\ UNCHANGED <<body, ringVars>>

(* am_init: with every thread joined the table is cleared, then all channels closed. *)
ResetSpawns(t) ==
  /\ At(t, "scan") /\ th[t].i >= spawnCount /\ Op(t).op = "init"
  /\ spawnCount' = 0 /\ spawns' = [s \in Slots |-> NoSlot]
  /\ Goto(t, "close", 0, 0) /\ UNCHANGED <<body, ringVars>>

-----------------------------------------------------------------------------
(* CHANNEL CREATE and CLOSE. *)

Capacity(op) == IF op.cap <= 0 \/ op.cap > Buf THEN Buf ELSE op.cap

CreateFull(t) == /\ Begins(t, "create") /\ ringCount >= MaxChannels
                 /\ Return(t) /\ UNCHANGED <<spawnVars, ringVars>>

(* The slot is cleared and filled with no lock, then g_channel_count is raised. *)
CreateFill(t) ==
  /\ Begins(t, "create") /\ ringCount < MaxChannels
  /\ rings' = [rings EXCEPT ![ringCount] =
                 [NoRing EXCEPT !.name = Op(t).name, !.cap = Capacity(Op(t)), !.active = TRUE]]
  /\ log' = [log EXCEPT ![ringCount] = [sent |-> <<>>, got |-> <<>>]]
  /\ Goto(t, "count", ringCount, 0)
  /\ UNCHANGED <<spawnVars, ringCount, mutex>>

CreateCount(t) == /\ At(t, "count") /\ ringCount' = ringCount + 1 /\ Return(t)
                  /\ UNCHANGED <<spawnVars, rings, mutex, log>>

Found(name) == {r \in Rings : r < ringCount /\ rings[r].active /\ rings[r].name = name}

(* CHANNEL CLOSE name takes no lock: a thread between two tries goes on with the ring. *)
Close(t) ==
  /\ Begins(t, "close")
  /\ rings' = IF Found(Op(t).name) = {} THEN rings
              ELSE [rings EXCEPT ![Min(Found(Op(t).name))].active = FALSE]
  /\ Return(t) /\ UNCHANGED <<spawnVars, ringCount, mutex, log>>

(* am_channel_close_all, of CHANNEL CLOSE and of am_init. *)
CloseAll(t) ==
  /\ Begins(t, "closeall") \/ At(t, "close")
  /\ mutex = Nobody
  /\ rings' = [r \in Rings |-> IF r < ringCount THEN [rings[r] EXCEPT !.active = FALSE] ELSE rings[r]]
  /\ ringCount' = 0
  /\ Return(t) /\ UNCHANGED <<spawnVars, mutex, log>>

-----------------------------------------------------------------------------
(* am_channel_write and am_channel_read: lock and find; try; sleep unlocked. *)

Transfer(t) == th[t].code # <<>> /\ Op(t).op \in {"write", "read"}

(* No channel of that name: the command has no effect. *)
NoChannel(t) == /\ At(t, "next") /\ Transfer(t) /\ mutex = Nobody /\ Found(Op(t).name) = {}
                /\ Return(t) /\ UNCHANGED <<spawnVars, ringVars>>

Lock(t) == /\ At(t, "next") /\ Transfer(t) /\ mutex = Nobody /\ Found(Op(t).name) # {}
           /\ mutex' = t /\ Goto(t, "try", Min(Found(Op(t).name)), 0)
           /\ UNCHANGED <<spawnVars, rings, ringCount, log>>

Ready(t) == LET r == rings[th[t].i]
            IN  IF Op(t).op = "write" THEN r.count < r.cap ELSE r.count # 0

(* A slip: the tries are not counted. *)
SleepForEver(t) == /\ At(t, "try") /\ ~Ready(t)
                   /\ mutex' = Nobody /\ Goto(t, "sleep", th[t].i, th[t].n)
                   /\ UNCHANGED <<spawnVars, rings, ringCount, log>>

Sleep(t) == /\ At(t, "try") /\ ~Ready(t) /\ th[t].n < MaxTries
            /\ mutex' = Nobody /\ Goto(t, "sleep", th[t].i, th[t].n + 1)
            /\ UNCHANGED <<spawnVars, rings, ringCount, log>>

Wake(t) == /\ At(t, "sleep") /\ mutex = Nobody
           /\ mutex' = t /\ Goto(t, "try", th[t].i, th[t].n)
           /\ UNCHANGED <<spawnVars, rings, ringCount, log>>

TimesOut(t) == /\ At(t, "try") /\ ~Ready(t) /\ th[t].n >= MaxTries
               /\ mutex' = Nobody /\ Return(t)
               /\ UNCHANGED <<spawnVars, rings, ringCount, log>>

Write(t) ==
  /\ In(t, "write") /\ At(t, "try") /\ Ready(t)
  /\ LET r == th[t].i IN
       /\ rings' = [rings EXCEPT ![r].data[rings[r].tail] = Op(t).val,
                                 ![r].tail = (@ + 1) % rings[r].cap, ![r].count = @ + 1]
       /\ log' = [log EXCEPT ![r].sent = Append(@, Op(t).val)]
  /\ mutex' = Nobody /\ Return(t) /\ UNCHANGED <<spawnVars, ringCount>>

Read(t) ==
  /\ In(t, "read") /\ At(t, "try") /\ Ready(t)
  /\ LET r == th[t].i IN
       /\ rings' = [rings EXCEPT ![r].head = (@ + 1) % rings[r].cap, ![r].count = @ - 1]
       /\ log' = [log EXCEPT ![r].got = Append(@, rings[r].data[rings[r].head])]
  /\ mutex' = Nobody /\ Return(t) /\ UNCHANGED <<spawnVars, ringCount>>

-----------------------------------------------------------------------------
SpawnStep(t) == LaunchFull(t) \/ LaunchClaim(t) \/ LaunchFails(t) \/ LaunchThread(t)
                  \/ LaunchLoad(t) \/ LaunchStore(t) \/ ScriptEnds(t) \/ ThreadExits(t)
AwaitStep(t) == AwaitBegins(t) \/ AwaitScan(t) \/ Join(t) \/ RecordJoined(t)
                  \/ AwaitEnds(t) \/ ResetSpawns(t)
TableStep(t) == CreateFull(t) \/ CreateFill(t) \/ CreateCount(t) \/ Close(t) \/ CloseAll(t)
RingStep(t)  == NoChannel(t) \/ Lock(t) \/ Sleep(t) \/ Wake(t) \/ TimesOut(t)
                  \/ Write(t) \/ Read(t)

Step(t) == SpawnStep(t) \/ AwaitStep(t) \/ TableStep(t) \/ RingStep(t)
Next    == \E t \in Threads : Step(t)

Spec     == Init /\ [][Next]_vars
(* Every thread that can step is scheduled. The mutex needs no fairness of its own:
   each holder gives it up in its next step and each wait has a bounded number of tries. *)
FairSpec == Spec /\ \A t \in Threads : WF_vars(Step(t))

-----------------------------------------------------------------------------
(* Properties. *)

Labels == {"unborn", "next", "create", "load", "store", "marked", "exited", "scan", "join",
           "joined", "close", "count", "try", "sleep"}

(* Every variable has its type; in particular no index leaves its table. *)
TypeOK ==
  /\ \A t \in Threads : /\ th[t].pc \in Labels /\ th[t].n \in Nat /\ th[t].rc \in {0, 1}
                        /\ th[t].slot \in Slots /\ th[t].joins \in Nat
                        /\ At(t, "create") \/ At(t, "load") \/ At(t, "join") => th[t].i \in Slots
                        /\ At(t, "try") \/ At(t, "sleep") => th[t].i \in Rings
  /\ spawnCount \in 0..MaxSpawns /\ ringCount \in 0..MaxChannels
  /\ mutex \in Threads \union {Nobody}
  /\ \A s \in Slots : spawns[s].thread \in Threads \union {Nobody}
  /\ \A r \in Rings : rings[r].cap \in 0..Buf /\ {rings[r].head, rings[r].tail} \subseteq 0..(Buf - 1)

Content(r) == [k \in 1..r.count |-> r.data[(r.head + k - 1) % r.cap]]

(* A ring is a FIFO queue whatever is interleaved: what was accepted is what was
   handed out followed by what the ring holds, nothing lost, doubled or reordered,
   through wrap-around, waits, time-outs and CHANNEL CLOSE, and a wait ends with room,
   with a value or with an error, never past the capacity. *)
RingIsQueue ==
  \A r \in Rings : /\ rings[r].count \in 0..rings[r].cap
                   /\ log[r].sent = log[r].got \o Content(rings[r])

(* A thread between two tries, which has given up the lock and keeps only an index,
   comes back to the channel it asked for, though am_init clears and refills the
   table: am_init has joined every thread first. *)
WaitersKeepTheirRing ==
  \A t \in Threads : At(t, "try") \/ At(t, "sleep") => rings[th[t].i].name = Op(t).name

(* A channel is a queue for every thread that waits on it, until its slot is another's; and
   every index and position stays within its table. *)
ChannelsAreQueues == TypeOK /\ RingIsQueue /\ WaitersKeepTheirRing

(* A spawned thread that has not ended is in a slot that a bare AWAIT or am_init will
   join, or its launcher is about to count that slot. *)
NoOrphan ==
  \A t \in Threads \ {Main} : ~At(t, "unborn") /\ ~At(t, "exited") =>
    \E s \in Slots : /\ spawns[s].thread = t /\ ~spawns[s].joined
                     /\ \/ s < spawnCount
                        \/ \E u \in Threads : th[u].i = s /\ (At(u, "load") \/ At(u, "store"))

(* No spawned thread is left behind and none is joined twice (undefined in POSIX), also
   when a name is reused; a joined slot is final: its thread is gone, it no longer counts
   as active, and the result AWAIT returns is that of the script that ran. *)
JoinsAreFinal ==
  /\ NoOrphan /\ \A t \in Threads : th[t].joins <= 1
  /\ \A s \in Slots : s < spawnCount /\ spawns[s].joined =>
       /\ At(spawns[s].thread, "exited") /\ ~spawns[s].active
       /\ spawns[s].result = th[spawns[s].thread].rc

(* Every script ends: no cycle of full and empty channels holds a thread for ever. *)
ScriptsEnd ==
  <>(\A t \in Threads : At(t, "unborn") \/ At(t, "exited") \/ (t = Main /\ th[t].code = <<>>))
=============================================================================
