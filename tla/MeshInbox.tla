------------------------------- MODULE MeshInbox -------------------------------
(* Messages between agents: POST /msg (bake/mesh-agent/server.go), which stores a
   message as a file of the inbox, and "listen --watch" (client.go), another
   process, which scans the same directory every 2 s and shows each name once.

   A post is one request; posts of a client (send, broadcast) are abandoned by it
   after a time-out while the handler goes on. Time is counted in the milliseconds
   of the file names. Messages are all different.                              *)
EXTENDS Integers, Sequences, FiniteSets

CONSTANTS
  Posts,      \* requests, one message each
  Broadcast,  \* those of one broadcast; the others are sends
  FromOf(_),  \* the sanitized name of the sender of a post
  AddrOf(_),  \* the agent it is sent to
  Here,       \* the agent whose inbox is watched
  LastTick    \* bound on the clock

ASSUME ClockIsNat == LastTick \in Nat
ASSUME BroadcastPosts == Broadcast \subseteq Posts

VARIABLES
  now,      \* the clock, in milliseconds
  post,     \* per post: how far its handler is
  stamp,    \* per post: the time in its file name
  client,   \* per post: what its client made of it
  inbox,    \* per agent: file name -> content
  watcher,  \* the watcher's scan: the names left to read, what it has read
  shown,    \* the names it has shown, scan by scan
  settled   \* the posts answered before the scan began, but for files it could not read

inboxVars == <<now, post, stamp, client, inbox, watcher, shown, settled>>

Times   == 0..LastTick
Senders == {FromOf(p) : p \in Posts}
Agents  == {AddrOf(p) : p \in Posts} \union {Here}
File    == Times \X Senders
FileOf(p) == <<stamp[p], FromOf(p)>>

(* What a file holds: nothing there, created but not written, one message, or parts of
   several that wrote the same file at the same time. *)
Missing  == {}
Empty    == {"empty"}
Mixed    == {"mixed"}
Holds(p) == {p}

InboxInit ==
  /\ now = 0
  /\ post = [p \in Posts |-> "unsent"] /\ stamp = [p \in Posts |-> 0]
  /\ client = [p \in Posts |-> "idle"]
  /\ inbox = [a \in Agents |-> [f \in File |-> Missing]]
  /\ watcher = [todo |-> {}, read |-> {}, busy |-> FALSE]
  /\ shown = <<>> /\ settled = {}

-----------------------------------------------------------------------------
(* The client's side of a post. *)

Send(p) == /\ client[p] = "idle" /\ client' = [client EXCEPT ![p] = "waiting"]
           /\ UNCHANGED <<now, post, stamp, inbox, watcher, shown, settled>>

(* c.Post returns an error: the request or the answer was lost, or took too long. *)
GiveUp(p) == /\ client[p] = "waiting" /\ client' = [client EXCEPT ![p] = "err"]
             /\ UNCHANGED <<now, post, stamp, inbox, watcher, shown, settled>>

(* A slip: broadcast looks at the status no more than send does. *)
GetAnswerUnread(p) ==
  /\ client[p] = "waiting" /\ post[p] \in {"stored", "failed", "refused"}
  /\ client' = [client EXCEPT ![p] = "ok"]
  /\ UNCHANGED <<now, post, stamp, inbox, watcher, shown, settled>>

(* An answer of 300 and more is a failure to broadcast. send prints the body of whatever
   it gets and exits with 0. *)
GetAnswer(p) ==
  /\ client[p] = "waiting" /\ post[p] \in {"stored", "failed", "refused"}
  /\ client' = [client EXCEPT ![p] = IF p \in Broadcast /\ post[p] # "stored" THEN "err" ELSE "ok"]
  /\ UNCHANGED <<now, post, stamp, inbox, watcher, shown, settled>>

-----------------------------------------------------------------------------
(* handleMsg. *)

StampFile(p) ==
  /\ client[p] # "idle" /\ post[p] = "unsent"
  /\ post' = [post EXCEPT ![p] = "stamped"] /\ stamp' = [stamp EXCEPT ![p] = now]
  /\ UNCHANGED <<now, client, inbox, watcher, shown, settled>>

Store(p, content) == inbox' = [inbox EXCEPT ![AddrOf(p)][FileOf(p)] = content]

(* os.WriteFile creates the file, or truncates the one of that name, and then writes. *)
Open(p) == /\ post[p] = "stamped" /\ post' = [post EXCEPT ![p] = "open"] /\ Store(p, Empty)
           /\ UNCHANGED <<now, stamp, client, watcher, shown, settled>>

(* A slip: the answer does not wait for the write. *)
WriteLater(p) ==
  /\ post[p] = "open" /\ post' = [post EXCEPT ![p] = "stored"]
  /\ UNCHANGED <<now, stamp, client, inbox, watcher, shown, settled>>

(* The write, and the answer 202 after it. *)
Write(p) ==
  /\ post[p] = "open" /\ post' = [post EXCEPT ![p] = "stored"]
  /\ \/ Store(p, Holds(p))
     \/ inbox[AddrOf(p)][FileOf(p)] # Empty /\ Store(p, Mixed)
  /\ UNCHANGED <<now, stamp, client, watcher, shown, settled>>

(* The body is refused, or the file cannot be opened: 400 or 500. A write that fails
   leaves the file. *)
Refuse(p) == /\ client[p] # "idle" /\ post[p] \in {"unsent", "stamped", "open"}
             /\ IF post[p] = "open" THEN post' = [post EXCEPT ![p] = "failed"] /\ UNCHANGED stamp
                ELSE post' = [post EXCEPT ![p] = "refused"] /\ stamp' = [stamp EXCEPT ![p] = 0]
             /\ UNCHANGED <<now, client, inbox, watcher, shown, settled>>

Millisecond == /\ now < LastTick /\ now' = now + 1
               /\ UNCHANGED <<post, stamp, client, inbox, watcher, shown, settled>>

-----------------------------------------------------------------------------
(* cmdListen --watch: listenScan, print, sleep. *)

ShownFiles == UNION {shown[k] : k \in DOMAIN shown}

(* A slip: only files later than those shown are taken for new. *)
ScanOnlyLater ==
  /\ ~watcher.busy
  /\ LET new == {f \in File : inbox[Here][f] # Missing /\ \A g \in ShownFiles : g[1] < f[1]}
     IN  new # {} /\ watcher' = [todo |-> new, read |-> {}, busy |-> TRUE]
  /\ settled' = {p \in Posts : post[p] = "stored" /\ AddrOf(p) = Here}
  /\ UNCHANGED <<now, post, stamp, client, inbox, shown>>

(* ReadDir, leaving out what has been shown; a scan that finds nothing new does nothing. *)
ScanBegins ==
  /\ ~watcher.busy
  /\ LET new == {f \in File : inbox[Here][f] # Missing} \ ShownFiles
     IN  new # {} /\ watcher' = [todo |-> new, read |-> {}, busy |-> TRUE]
  /\ settled' = {p \in Posts : post[p] = "stored" /\ AddrOf(p) = Here}
  /\ UNCHANGED <<now, post, stamp, client, inbox, shown>>

ReadOne(f) ==
  /\ f \in watcher.todo
  /\ watcher' = [watcher EXCEPT !.todo = @ \ {f}, !.read = @ \union {<<f, inbox[Here][f]>>}]
  /\ UNCHANGED <<now, post, stamp, client, inbox, shown, settled>>

(* Info or ReadFile fails: the file is left for the next scan. *)
ReadFails(f) ==
  /\ f \in watcher.todo
  /\ watcher' = [watcher EXCEPT !.todo = @ \ {f}]
  /\ settled' = {p \in settled : FileOf(p) # f}
  /\ UNCHANGED <<now, post, stamp, client, inbox, shown>>

(* All that was read is printed and marked shown; the items of a scan are sorted by
   modification time, which is left out. *)
PrintAll == /\ watcher.busy /\ watcher.todo = {}
            /\ shown' = IF watcher.read = {} THEN shown ELSE Append(shown, {item[1] : item \in watcher.read})
            /\ watcher' = [watcher EXCEPT !.read = {}, !.busy = FALSE] /\ settled' = {}
            /\ UNCHANGED <<now, post, stamp, client, inbox>>

HandlerStep(p) == StampFile(p) \/ Open(p) \/ Write(p) \/ Refuse(p)
ClientStep(p)  == GiveUp(p) \/ GetAnswer(p)
WatcherStep    == ScanBegins \/ (\E f \in File : ReadOne(f) \/ ReadFails(f)) \/ PrintAll

-----------------------------------------------------------------------------
(* Properties. *)

InboxContents == {Missing, Empty, Mixed} \union {Holds(p) : p \in Posts}

(* Every variable of the inboxes has its type. *)
InboxTypeOK ==
  /\ now \in Times /\ stamp \in [Posts -> Times]
  /\ post \in [Posts -> {"unsent", "stamped", "open", "stored", "failed", "refused"}]
  /\ client \in [Posts -> {"idle", "waiting", "ok", "err"}]
  /\ inbox \in [Agents -> [File -> InboxContents]]
  /\ watcher \in [todo : SUBSET File, read : SUBSET (File \X InboxContents), busy : BOOLEAN]
  /\ shown \in Seq(SUBSET File) /\ settled \in SUBSET Posts

Alone(p) == \A q \in Posts \ {p} :
              post[q] \in {"unsent", "stamped", "refused"} \/ AddrOf(q) # AddrOf(p) \/ FileOf(q) # FileOf(p)

(* The user was told that the message is stored: by the "ok" line of a broadcast, or by the
   answer that send has printed, whatever its exit code. *)
Told(p) == client[p] = "ok" /\ (p \in Broadcast \/ post[p] = "stored")

(* A message a user was told is stored is in the inbox of the agent it was sent to,
   complete, unless another message of the same millisecond and sender took its file. *)
AnsweredIsStored ==
  \A p \in Posts : Told(p) /\ Alone(p) => inbox[AddrOf(p)][FileOf(p)] = Holds(p)

(* A message answered before a scan began and shown by no earlier one is shown whole by
   that scan, if it can read the file: only a file whose handler is still at work can be
   shown empty. No file is shown twice, though the directory is read again and again. *)
SettledIsShownWhole ==
  /\ \A k, l \in DOMAIN shown : k < l => shown[k] \cap shown[l] = {}
  /\ watcher.busy /\ watcher.todo = {} =>
       \A p \in settled : Alone(p) /\ FileOf(p) \notin ShownFiles => <<FileOf(p), Holds(p)>> \in watcher.read

(* No message that its user was told is stored waits to be shown, itself or another of its
   file. *)
NoneWaits ==
  \A p \in {q \in Posts : AddrOf(q) = Here} : Told(p) => FileOf(p) \in ShownFiles
=============================================================================
