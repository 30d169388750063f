------------------------------- MODULE MeshPeers -------------------------------
(* Peer discovery of one mesh agent (bake/mesh-agent/peer.go): the goroutine that
   polls the agents of peers.txt and saves what it learnt to peers.json, an agent
   that may crash and be started again, and other processes that read the file.

   An agent's slot list is abstracted to the number of times it has changed. A
   crash is that of the process: what it wrote stays written.                 *)
EXTENDS Integers, Sequences, SequencesExt

CONSTANTS
  PeersTxt,    \* the lines of peers.txt, host:port
  HostOf(_),   \* the part of a line before the first colon
  MaxPolls,    \* bound on polls
  MaxCrashes,  \* bound on crashes
  MaxChanges   \* bound on the changes of one remote slot list

Addrs   == ToSet(PeersTxt)
Hosts   == {HostOf(a) : a \in Addrs}
Unknown == [addr |-> "", slots |-> 0]   \* no entry of that name

ASSUME LinesAreAddresses == PeersTxt \in Seq(Addrs)
ASSUME NoEmptyLine == "" \notin Addrs   \* readPeersFile leaves them out
ASSUME Bounds == MaxPolls \in Nat /\ MaxCrashes \in Nat /\ MaxChanges \in Nat \ {0}

VARIABLES
  agent,    \* what the discovery goroutine does next; "down": no process
  cache,    \* PeerCache.peers, by name
  line,     \* the line of peers.txt it is at
  answer,   \* the slot list it has just fetched
  changed,  \* the local variable of that name
  unread,   \* peers.json was there when this process started, and could not be read; no
            \* save of this process has replaced it yet
  tmp,      \* peers.json.tmp: "absent", "torn" or whole
  file,     \* peers.json, likewise
  offered,  \* the current slot list of every remote agent
  polls, crashes

discovery == <<cache, line, answer, changed, unread>>
peerVars  == <<agent, discovery, tmp, file, offered, polls, crashes>>

Whole(peers) == [is |-> "whole", peers |-> peers]
NoPeers      == [n \in Hosts |-> Unknown]
Absent       == [is |-> "absent", peers |-> NoPeers]
Torn         == [is |-> "torn", peers |-> NoPeers]

PeersInit ==
  /\ agent = "down" /\ cache = NoPeers /\ line = 0 /\ answer = 0 /\ changed = FALSE /\ unread = FALSE
  /\ tmp = Absent /\ file = Absent
  /\ offered = [a \in Addrs |-> 1]
  /\ polls = 0 /\ crashes = 0

-----------------------------------------------------------------------------

(* startDiscovery: the error of load is ignored, so a file that cannot be read, or does
   not parse, leaves the cache empty like one that does not exist. *)
StartDiscovery ==
  /\ agent = "down"
  /\ \/ cache' = file.peers /\ unread' = FALSE
     \/ file.is # "absent" /\ cache' = NoPeers /\ unread' = TRUE
  /\ agent' = "poll" /\ line' = 0 /\ answer' = 0 /\ changed' = FALSE
  /\ UNCHANGED <<tmp, file, offered, polls, crashes>>

(* pollOnce returns at once when peers.txt cannot be read or names nobody. *)
PollUnread == /\ agent = "poll" /\ polls < MaxPolls
              /\ agent' = "idle" /\ polls' = polls + 1
              /\ UNCHANGED <<discovery, tmp, file, offered, crashes>>

PollBegins == /\ agent = "poll" /\ PeersTxt # <<>> /\ polls < MaxPolls
              /\ agent' = "fetch" /\ line' = 1 /\ changed' = FALSE /\ polls' = polls + 1
              /\ UNCHANGED <<cache, answer, unread, tmp, file, offered, crashes>>

Fetch == /\ agent = "fetch" /\ line <= Len(PeersTxt)
         /\ answer' = offered[PeersTxt[line]] /\ agent' = "upsert"
         /\ UNCHANGED <<cache, line, changed, unread, tmp, file, offered, polls, crashes>>

(* A slip: a peer that does not answer is recorded with no slots. *)
FetchFailsDrops == /\ agent = "fetch" /\ line <= Len(PeersTxt)
                   /\ answer' = 0 /\ agent' = "upsert"
                   /\ UNCHANGED <<cache, line, changed, unread, tmp, file, offered, polls, crashes>>

(* A time-out, a status other than 200 or a body that does not decode. *)
FetchFails == /\ agent = "fetch" /\ line <= Len(PeersTxt)
              /\ line' = line + 1
              /\ UNCHANGED <<agent, cache, answer, changed, unread, tmp, file, offered, polls, crashes>>

Upsert == /\ agent = "upsert"
          /\ cache' = [cache EXCEPT ![HostOf(PeersTxt[line])] =
                         [addr |-> PeersTxt[line], slots |-> answer]]
          /\ changed' = TRUE /\ line' = line + 1 /\ agent' = "fetch"
          /\ UNCHANGED <<answer, unread, tmp, file, offered, polls, crashes>>

PollEnds == /\ agent = "fetch" /\ line > Len(PeersTxt)
            /\ agent' = IF changed THEN "save" ELSE "idle"
            /\ UNCHANGED <<discovery, tmp, file, offered, polls, crashes>>

(* A slip: save writes peers.json itself. *)
WriteBeginsInPlace == /\ agent = "save" /\ file' = Torn /\ tmp' = Torn /\ agent' = "writing"
                      /\ UNCHANGED <<discovery, offered, polls, crashes>>

(* save: os.WriteFile truncates peers.json.tmp and then fills it. *)
WriteBegins == /\ agent = "save" /\ tmp' = Torn /\ agent' = "writing"
               /\ UNCHANGED <<discovery, file, offered, polls, crashes>>

WriteEnds == /\ agent = "writing" /\ tmp' = Whole(cache) /\ agent' = "rename"
             /\ UNCHANGED <<discovery, file, offered, polls, crashes>>

(* The file cannot be opened, the disk is full, or the rename is refused: the error is
   ignored. *)
SaveFails == /\ agent \in {"save", "writing", "rename"} /\ agent' = "idle"
             /\ UNCHANGED <<discovery, tmp, file, offered, polls, crashes>>

Rename == /\ agent = "rename" /\ file' = tmp /\ tmp' = Absent /\ agent' = "idle"
          /\ unread' = FALSE
          /\ UNCHANGED <<cache, line, answer, changed, offered, polls, crashes>>

Tick == /\ agent = "idle" /\ agent' = "poll"
        /\ UNCHANGED <<discovery, tmp, file, offered, polls, crashes>>

Crash == /\ agent # "down" /\ crashes < MaxCrashes
         /\ agent' = "down" /\ crashes' = crashes + 1
         /\ cache' = NoPeers /\ line' = 0 /\ answer' = 0 /\ changed' = FALSE /\ unread' = FALSE
         /\ UNCHANGED <<tmp, file, offered, polls>>

SlotsChange(a) == /\ offered[a] < MaxChanges /\ offered' = [offered EXCEPT ![a] = @ + 1]
                  /\ UNCHANGED <<agent, discovery, tmp, file, polls, crashes>>

PeersNext == \/ StartDiscovery \/ PollUnread \/ PollBegins \/ Fetch \/ FetchFails \/ Upsert \/ PollEnds
             \/ WriteBegins \/ WriteEnds \/ SaveFails \/ Rename \/ Tick \/ Crash
             \/ \E a \in Addrs : SlotsChange(a)

PeersSpec == PeersInit /\ [][PeersNext]_peerVars

-----------------------------------------------------------------------------
(* Properties. *)

Contents == [Hosts -> [addr : Addrs \union {""}, slots : 0..MaxChanges]]
Files    == [is : {"absent", "torn", "whole"}, peers : Contents]

(* Every variable has its type; line is at most one past the last of peers.txt. *)
PeersTypeOK ==
  /\ agent \in {"down", "poll", "fetch", "upsert", "save", "writing", "rename", "idle"}
  /\ cache \in Contents /\ tmp \in Files /\ file \in Files
  /\ line \in 0..(Len(PeersTxt) + 1) /\ answer \in 0..MaxChanges /\ changed \in BOOLEAN
  /\ unread \in BOOLEAN
  /\ offered \in [Addrs -> 1..MaxChanges]
  /\ polls \in 0..MaxPolls /\ crashes \in 0..MaxCrashes

(* Whatever moment the agent dies at, and whenever another process reads it,
   peers.json is missing or complete. *)
PeersFileIsWhole == file.is # "torn"

(* What a step makes of the entry e of a peer in peers.json: it stays, with a slot list
   that is no older for the same address. *)
KeepsEntry(e, f) == e # Unknown => f # Unknown /\ (f.addr = e.addr => f.slots >= e.slots)

(* A peer once saved stays in peers.json, with a slot list that never gets older for
   the same address: through time-outs, failed saves, crashes and restarts, which
   refill the cache from the file before the first poll. The exception is the first
   save of a process that could not read the file: it replaces the file by what that
   process has fetched itself.                                                      *)
LastKnownIsKept ==
  [][~unread => \A n \in Hosts : KeepsEntry(file.peers[n], file'.peers[n])]_peerVars

(* "keep last-known data; don't drop on a single timeout" (pollOnce): a peer in
   peers.json stays there whatever times out, also when the file could not be read. *)
TimeoutsDropNobody ==
  [][\A n \in Hosts : file.peers[n] # Unknown => file'.peers[n] # Unknown]_peerVars
=============================================================================
