----------------------------- MODULE MeshFilesProofs -----------------------------
(* What a mesh agent keeps in files. peers.json for any peers.txt, any number of polls,
   crashes and changes: never half-written, and never forgetting or ageing what it knew
   but where a process that could not read it replaces it.
   The slots for any manifests and registrations: an agent serves what was left alone.
   Inboxes for any posts and clock: what was answered with success is there, and shown. *)
EXTENDS MeshPeers, MeshSlots, MeshBroadcast, FiniteSetTheorems, WellFoundedInduction, TLAPS

-----------------------------------------------------------------------------
(* peers.json. *)

(* What one entry may become: known for good, and no older for the same address. *)
NotOlder(e, f) == e # Unknown => /\ f # Unknown
                                 /\ f.addr = e.addr => f.slots >= e.slots

(* An entry is unknown, or a slot list its agent had at some time: no entry is ahead
   of its agent. Two agents of one host take turns in an entry, so the entry of one
   that comes back is compared with what it has now. *)
Entry      == {Unknown} \union [addr : Addrs, slots : 1..MaxChanges]
Current(e) == e # Unknown => e.slots <= offered[e.addr]

EntriesInv == \A n \in Hosts : /\ cache[n] \in Entry /\ Current(cache[n])
                               /\ file.peers[n] \in Entry /\ Current(file.peers[n])

(* Where the agent is in peers.txt. *)
LineInv == /\ agent = "fetch"  => line \in 1..(Len(PeersTxt) + 1)
           /\ agent = "upsert" => line \in 1..Len(PeersTxt)

(* What it fetched is no newer than the agent it asked and no older than the file. *)
AnswerInv ==
  agent = "upsert" =>
    /\ answer \in 1..offered[PeersTxt[line]]
    /\ \A n \in Hosts : file.peers[n] # Unknown /\ file.peers[n].addr = PeersTxt[line]
                          => answer >= file.peers[n].slots

(* A running agent knows all that the file says, for it has loaded or written it. *)
CacheInv == agent # "down" /\ ~unread => \A n \in Hosts : NotOlder(file.peers[n], cache[n])

(* What will be renamed is complete and is the cache. *)
SaveInv == agent = "rename" => tmp = Whole(cache)

IndInv == /\ PeersTypeOK /\ PeersFileIsWhole
          /\ EntriesInv /\ LineInv /\ AnswerInv /\ CacheInv /\ SaveInv

-----------------------------------------------------------------------------
(* peers.txt. *)

(* A line of peers.txt is an address, and its host is a name. *)
LEMMA LineIsAddress == \A i \in 1..Len(PeersTxt) : PeersTxt[i] \in Addrs /\ HostOf(PeersTxt[i]) \in Hosts
  BY LinesAreAddresses DEF Hosts

(* peers.txt has so many lines. *)
LEMMA LenIsNat == Len(PeersTxt) \in Nat
  BY LinesAreAddresses

(* The empty cache, and a missing file, have their types. *)
LEMMA EmptyTypes == /\ NoPeers \in Contents /\ Absent \in Files /\ Torn \in Files
                    /\ NoPeers = [n \in Hosts |-> Unknown]
                    /\ Absent.peers = NoPeers /\ Absent.is = "absent"
<1>1. 0 \in 0..MaxChanges
  BY Bounds
<1>2. Unknown \in [addr : Addrs \union {""}, slots : 0..MaxChanges]
  BY <1>1 DEF Unknown
<1>3. NoPeers \in Contents
  BY <1>2 DEF NoPeers, Contents
<1> QED BY <1>3 DEF Absent, Torn, Files, NoPeers

(* The initial state satisfies the invariant. *)
LEMMA IndInit == PeersInit => IndInv
<1> SUFFICES ASSUME PeersInit PROVE IndInv
  OBVIOUS
<1> USE DEF PeersInit
<1>1. PeersTypeOK
  <2>1. 1 \in 1..MaxChanges /\ 0 \in 0..MaxChanges /\ 0 \in 0..MaxPolls /\ 0 \in 0..MaxCrashes
    BY Bounds
  <2>2. 0 \in 0..(Len(PeersTxt) + 1)
    BY LenIsNat
  <2>3. offered \in [Addrs -> 1..MaxChanges]
    BY <2>1
  <2>4. cache \in Contents /\ tmp \in Files /\ file \in Files
    BY EmptyTypes
  <2> QED BY <2>1, <2>2, <2>3, <2>4 DEF PeersTypeOK
<1>2. PeersFileIsWhole
  BY EmptyTypes DEF PeersFileIsWhole
<1>3. EntriesInv
  BY EmptyTypes DEF EntriesInv, Entry, Current
<1> QED BY <1>1, <1>2, <1>3 DEF IndInv, LineInv, AnswerInv, CacheInv, SaveInv

-----------------------------------------------------------------------------
(* Steps. *)

(* Types are kept by every step that knows where it is in peers.txt. *)
LEMMA TypeNext == PeersTypeOK /\ LineInv /\ [PeersNext]_peerVars => PeersTypeOK'
<1> SUFFICES ASSUME PeersTypeOK, LineInv, [PeersNext]_peerVars PROVE PeersTypeOK'
  OBVIOUS
<1> USE LenIsNat, Bounds DEF PeersTypeOK, discovery
<1>1. CASE StartDiscovery
  <2>1. file.peers \in Contents
    BY DEF Files
  <2>2. 0 \in 0..(Len(PeersTxt) + 1) /\ 0 \in 0..MaxChanges
    OBVIOUS
  <2> QED BY <1>1, <2>1, <2>2, EmptyTypes DEF StartDiscovery
<1>2. CASE PollUnread
  BY <1>2 DEF PollUnread
<1>3. CASE PollBegins
  <2>1. line' \in 0..(Len(PeersTxt) + 1) /\ polls' \in 0..MaxPolls
    BY <1>3 DEF PollBegins
  <2> QED BY <1>3, <2>1 DEF PollBegins
<1>4. CASE Fetch
  <2>1. line \in 1..Len(PeersTxt)
    BY <1>4 DEF Fetch, LineInv
  <2>2. offered[PeersTxt[line]] \in 0..MaxChanges
    BY <2>1, LineIsAddress
  <2> QED BY <1>4, <2>2 DEF Fetch
<1>5. CASE FetchFails
  BY <1>5 DEF FetchFails, LineInv
<1>6. CASE Upsert
  <2>1. line \in 1..Len(PeersTxt)
    BY <1>6 DEF Upsert, LineInv
  <2>2. PeersTxt[line] \in Addrs
    BY <2>1, LineIsAddress
  <2>3. [addr |-> PeersTxt[line], slots |-> answer] \in [addr : Addrs \union {""}, slots : 0..MaxChanges]
    BY <2>2
  <2>4. cache' \in Contents
    BY <1>6, <2>3 DEF Upsert, Contents
  <2>5. line' \in 0..(Len(PeersTxt) + 1)
    BY <1>6, <2>1 DEF Upsert
  <2> QED BY <1>6, <2>4, <2>5 DEF Upsert
<1>7. CASE PollEnds
  BY <1>7 DEF PollEnds
<1>8. CASE WriteBegins
  BY <1>8, EmptyTypes DEF WriteBegins
<1>9. CASE WriteEnds
  <2>1. Whole(cache) \in Files
    BY DEF Whole, Files
  <2> QED BY <1>9, <2>1 DEF WriteEnds
<1>10. CASE SaveFails
  BY <1>10 DEF SaveFails
<1>11. CASE Rename
  BY <1>11, EmptyTypes DEF Rename
<1>12. CASE Tick
  BY <1>12 DEF Tick
<1>13. CASE Crash
  <2>1. line' \in 0..(Len(PeersTxt) + 1) /\ crashes' \in 0..MaxCrashes /\ 0 \in 0..MaxChanges
    BY <1>13 DEF Crash
  <2> QED BY <1>13, <2>1, EmptyTypes DEF Crash
<1>14. CASE \E a \in Addrs : SlotsChange(a)
  BY <1>14 DEF SlotsChange
<1>15. CASE UNCHANGED peerVars
  <2>1. /\ agent' = agent /\ cache' = cache /\ line' = line /\ answer' = answer /\ changed' = changed
        /\ unread' = unread /\ tmp' = tmp /\ file' = file /\ offered' = offered /\ polls' = polls /\ crashes' = crashes
    BY <1>15 DEF peerVars
  <2>2. changed' \in BOOLEAN /\ unread' \in BOOLEAN
    BY <2>1, Zenon
  <2>3. cache' \in Contents /\ tmp' \in Files /\ file' \in Files
    BY <2>1, Zenon DEF Contents, Files
  <2> QED BY <2>1, <2>2, <2>3
<1> QED BY <1>1, <1>2, <1>3, <1>4, <1>5, <1>6, <1>7, <1>8, <1>9, <1>10, <1>11, <1>12, <1>13, <1>14, <1>15
     DEF PeersNext

-----------------------------------------------------------------------------
(* The rest of the invariant, step by step. *)

(* A step that leaves the cache, the file and the fetched answer alone and only moves
   the agent keeps what is said of them. *)
LEMMA QuietStep ==
  ASSUME IndInv, PeersTypeOK', UNCHANGED <<cache, unread, file, offered>>,
         agent' # "upsert", agent' # "rename", agent # "down",
         agent' = "fetch" => line' \in 1..(Len(PeersTxt) + 1)
  PROVE  IndInv'
<1> USE DEF IndInv
<1>1. PeersFileIsWhole' /\ EntriesInv'
  BY DEF PeersFileIsWhole, EntriesInv, Current
<1>2. LineInv' /\ AnswerInv' /\ SaveInv'
  BY DEF LineInv, AnswerInv, SaveInv
<1>3. CacheInv'
  BY DEF CacheInv, NotOlder
<1> QED BY <1>1, <1>2, <1>3

(* Loading the file makes the cache what the file says; a file that cannot be read
   leaves it empty, and then nothing is said of what it knows. *)
LEMMA StartStep == ASSUME IndInv, PeersTypeOK', StartDiscovery PROVE IndInv'
<1> USE DEF StartDiscovery, IndInv
<1>0. \A n \in Hosts : NoPeers[n] = Unknown
  BY EmptyTypes
<1>1. PeersFileIsWhole' /\ EntriesInv'
  BY <1>0 DEF PeersFileIsWhole, EntriesInv, Entry, Current
<1>2. LineInv' /\ AnswerInv' /\ SaveInv'
  BY DEF LineInv, AnswerInv, SaveInv
<1>3. CacheInv'
  <2> SUFFICES ASSUME ~unread', NEW n \in Hosts PROVE NotOlder(file'.peers[n], cache'[n])
    BY DEF CacheInv, NotOlder
  <2>1. cache' = file.peers /\ file' = file
    OBVIOUS
  <2>2. file.peers[n] # Unknown => file.peers[n].slots \in Nat
    BY Bounds DEF EntriesInv, Entry
  <2> QED BY <2>1, <2>2 DEF NotOlder
<1> QED BY <1>1, <1>2, <1>3

(* The answer is what the agent has now, and no entry is ahead of its agent. *)
LEMMA FetchStep == ASSUME IndInv, PeersTypeOK', Fetch PROVE IndInv'
<1> USE DEF Fetch, IndInv
<1>1. PeersFileIsWhole' /\ EntriesInv' /\ SaveInv'
  BY DEF PeersFileIsWhole, EntriesInv, Current, SaveInv
<1>2. line \in 1..Len(PeersTxt) /\ LineInv'
  BY LenIsNat DEF LineInv
<1>3. PeersTxt[line] \in Addrs
  BY <1>2, LineIsAddress
<1>4. AnswerInv'
  <2>1. offered[PeersTxt[line]] \in 1..MaxChanges
    BY <1>3 DEF PeersTypeOK
  <2>2. answer' \in 1..offered[PeersTxt[line]]
    BY <2>1, Bounds
  <2>3. ASSUME NEW n \in Hosts, file.peers[n] # Unknown, file.peers[n].addr = PeersTxt[line]
        PROVE  answer' >= file.peers[n].slots
    <3>1. file.peers[n].slots \in 1..MaxChanges /\ file.peers[n].slots <= offered[PeersTxt[line]]
      BY <2>3 DEF EntriesInv, Entry, Current
    <3> QED BY <2>1, <3>1, Bounds
  <2> QED BY <2>2, <2>3 DEF AnswerInv
<1>5. CacheInv'
  BY DEF CacheInv, NotOlder
<1> QED BY <1>1, <1>2, <1>4, <1>5

(* The entry of a name becomes what was fetched, which is no older than the file's. *)
LEMMA UpsertStep == ASSUME IndInv, PeersTypeOK', Upsert PROVE IndInv'
<1> USE DEF Upsert, IndInv
<1> DEFINE a == PeersTxt[line]
           e == [addr |-> a, slots |-> answer]
<1>1. line \in 1..Len(PeersTxt) /\ a \in Addrs /\ HostOf(a) \in Hosts
  BY LineIsAddress DEF LineInv
<1>2. offered[a] \in 1..MaxChanges /\ answer \in 1..offered[a]
  BY <1>1 DEF AnswerInv, PeersTypeOK
<1>3. answer \in 1..MaxChanges
  BY <1>2, Bounds
<1>4. e \in Entry /\ Current(e) /\ e # Unknown
  <2>1. e \in [addr : Addrs, slots : 1..MaxChanges]
    BY <1>1, <1>3
  <2>2. e.slots <= offered[e.addr]
    BY <1>2
  <2>3. e # Unknown
    BY <1>1, NoEmptyLine DEF Unknown
  <2> QED BY <2>1, <2>2, <2>3 DEF Entry, Current
<1>5. /\ cache'[HostOf(a)] = e
      /\ \A n \in Hosts \ {HostOf(a)} : cache'[n] = cache[n]
  BY <1>1 DEF PeersTypeOK, Contents
<1>6. EntriesInv'
  <2> SUFFICES ASSUME NEW n \in Hosts
               PROVE  cache'[n] \in Entry /\ Current(cache'[n])
    BY DEF EntriesInv, Current
  <2>1. CASE n = HostOf(a)
    BY <2>1, <1>4, <1>5
  <2>2. CASE n # HostOf(a)
    BY <2>2, <1>5 DEF EntriesInv
  <2> QED BY <2>1, <2>2
<1>7. CacheInv'
  <2> SUFFICES ASSUME ~unread, NEW n \in Hosts PROVE NotOlder(file.peers[n], cache'[n])
    BY DEF CacheInv
  <2>1. CASE n = HostOf(a)
    <3>1. file.peers[n] # Unknown /\ file.peers[n].addr = a => answer >= file.peers[n].slots
      BY DEF AnswerInv
    <3>2. cache'[n] = e /\ e.addr = a /\ e.slots = answer
      BY <2>1, <1>5
    <3> QED BY <3>1, <3>2, <1>4 DEF NotOlder
  <2>2. CASE n # HostOf(a)
    BY <2>2, <1>5 DEF CacheInv
  <2> QED BY <2>1, <2>2
<1>8. LineInv'
  BY <1>1, LenIsNat DEF LineInv
<1>9. PeersFileIsWhole' /\ AnswerInv' /\ SaveInv'
  BY DEF PeersFileIsWhole, AnswerInv, SaveInv
<1> QED BY <1>6, <1>7, <1>8, <1>9

(* The temporary file is the cache, whole. *)
LEMMA WriteEndsStep == ASSUME IndInv, PeersTypeOK', WriteEnds PROVE IndInv'
<1> USE DEF WriteEnds, IndInv, discovery
<1>1. PeersFileIsWhole' /\ EntriesInv'
  BY DEF PeersFileIsWhole, EntriesInv, Current
<1>2. LineInv' /\ AnswerInv' /\ SaveInv'
  BY DEF LineInv, AnswerInv, SaveInv
<1>3. CacheInv'
  BY DEF CacheInv, NotOlder
<1> QED BY <1>1, <1>2, <1>3

(* The file becomes the cache. *)
LEMMA RenameStep == ASSUME IndInv, PeersTypeOK', Rename PROVE IndInv'
<1> USE DEF Rename, IndInv, discovery
<1>1. file'.is = "whole" /\ file'.peers = cache /\ cache' = cache
  BY DEF SaveInv, Whole
<1>2. PeersFileIsWhole' /\ EntriesInv'
  BY <1>1 DEF PeersFileIsWhole, EntriesInv, Current
<1>3. LineInv' /\ AnswerInv' /\ SaveInv'
  BY DEF LineInv, AnswerInv, SaveInv
<1>4. CacheInv'
  <2> SUFFICES ASSUME NEW n \in Hosts PROVE NotOlder(cache[n], cache[n])
    BY <1>1 DEF CacheInv
  <2>1. cache[n] # Unknown => cache[n].slots \in Nat
    BY Bounds DEF EntriesInv, Entry
  <2> QED BY <2>1 DEF NotOlder
<1> QED BY <1>2, <1>3, <1>4

(* A crash loses the cache and leaves both files as they are. *)
LEMMA CrashStep == ASSUME IndInv, PeersTypeOK', Crash PROVE IndInv'
<1> USE DEF Crash, IndInv
<1>1. \A n \in Hosts : cache'[n] = Unknown
  BY EmptyTypes
<1>2. PeersFileIsWhole' /\ EntriesInv'
  BY <1>1 DEF PeersFileIsWhole, EntriesInv, Entry, Current
<1> QED BY <1>2 DEF LineInv, AnswerInv, SaveInv, CacheInv

(* A remote agent moves ahead of what is known of it. *)
LEMMA ChangeStep == ASSUME NEW b \in Addrs, IndInv, PeersTypeOK', SlotsChange(b) PROVE IndInv'
<1> USE DEF SlotsChange, IndInv, discovery
<1>1. \A c \in Addrs : offered'[c] \in Nat /\ offered[c] \in Nat /\ offered'[c] >= offered[c]
  BY Bounds DEF PeersTypeOK
<1>2. ASSUME NEW x \in Entry, Current(x) PROVE Current(x)'
  <2>1. CASE x = Unknown
    BY <2>1 DEF Current
  <2>2. CASE x # Unknown
    <3>1. x.addr \in Addrs /\ x.slots \in 1..MaxChanges /\ x.slots <= offered[x.addr]
      BY <1>2, <2>2 DEF Entry, Current
    <3> QED BY <3>1, <1>1, Bounds DEF Current
  <2> QED BY <2>1, <2>2
<1>3. PeersFileIsWhole' /\ EntriesInv'
  BY <1>2 DEF PeersFileIsWhole, EntriesInv, Current
<1>4. AnswerInv'
  <2> SUFFICES ASSUME agent = "upsert" PROVE AnswerInv'
    BY DEF AnswerInv
  <2>1. PeersTxt[line] \in Addrs
    BY LineIsAddress DEF LineInv
  <2>2. answer \in 1..offered[PeersTxt[line]]
    BY DEF AnswerInv
  <2>3. answer \in 1..offered'[PeersTxt[line]]
    BY <2>1, <2>2, <1>1
  <2> QED BY <2>3 DEF AnswerInv
<1>5. LineInv' /\ SaveInv' /\ CacheInv'
  BY DEF LineInv, SaveInv, CacheInv, NotOlder
<1> QED BY <1>3, <1>4, <1>5

(* The invariant is inductive. *)
LEMMA IndNext == IndInv /\ [PeersNext]_peerVars => IndInv'
<1> SUFFICES ASSUME IndInv, [PeersNext]_peerVars PROVE IndInv'
  OBVIOUS
<1>0. PeersTypeOK'
  BY TypeNext DEF IndInv
<1>1. CASE StartDiscovery
  BY <1>0, <1>1, StartStep
<1>2. CASE PollUnread
  BY <1>0, <1>2, QuietStep DEF PollUnread, discovery
<1>3. CASE PollBegins
  BY <1>0, <1>3, QuietStep, LenIsNat DEF PollBegins
<1>4. CASE Fetch
  BY <1>0, <1>4, FetchStep
<1>5. CASE FetchFails
  <2>1. line' \in 1..(Len(PeersTxt) + 1)
    BY <1>5, LenIsNat DEF FetchFails, IndInv, LineInv
  <2> QED BY <1>0, <1>5, <2>1, QuietStep DEF FetchFails
<1>6. CASE Upsert
  BY <1>0, <1>6, UpsertStep
<1>7. CASE PollEnds
  BY <1>0, <1>7, QuietStep DEF PollEnds, discovery
<1>8. CASE WriteBegins
  BY <1>0, <1>8, QuietStep DEF WriteBegins, discovery
<1>9. CASE WriteEnds
  BY <1>0, <1>9, WriteEndsStep DEF discovery
<1>10. CASE SaveFails
  BY <1>0, <1>10, QuietStep DEF SaveFails, discovery
<1>11. CASE Rename
  BY <1>0, <1>11, RenameStep
<1>12. CASE Tick
  BY <1>0, <1>12, QuietStep DEF Tick, discovery
<1>13. CASE Crash
  BY <1>0, <1>13, CrashStep
<1>14. CASE \E a \in Addrs : SlotsChange(a)
  BY <1>0, <1>14, ChangeStep
<1>15. CASE UNCHANGED peerVars
  BY <1>0, <1>15 DEF peerVars, discovery, IndInv, PeersFileIsWhole, EntriesInv, Current, LineInv, AnswerInv,
     CacheInv, NotOlder, SaveInv
<1> QED BY <1>1, <1>2, <1>3, <1>4, <1>5, <1>6, <1>7, <1>8, <1>9, <1>10, <1>11, <1>12, <1>13, <1>14, <1>15
     DEF PeersNext

-----------------------------------------------------------------------------
(* The results. *)

(* Entries, positions, the answer and the save are coherent in every reachable state. *)
THEOREM InductiveInvariant == PeersSpec => []IndInv
  BY IndInit, IndNext, PTL DEF PeersSpec

(* Every variable of the discovery loop keeps its type. *)
THEOREM TypeCorrect == PeersSpec => []PeersTypeOK
<1>1. IndInv => PeersTypeOK
  BY DEF IndInv
<1> QED BY <1>1, InductiveInvariant, PTL

(* A crash between the write and the rename, or a failed save, never leaves a torn
   peers.json. *)
THEOREM FileAlwaysWhole == PeersSpec => []PeersFileIsWhole
<1>1. IndInv => PeersFileIsWhole
  BY DEF IndInv
<1> QED BY <1>1, InductiveInvariant, PTL

(* Only Rename touches peers.json, and then it becomes the cache, which is nowhere older
   unless the process could not read the file. *)
LEMMA KnownStep ==
  IndInv /\ [PeersNext]_peerVars => (~unread => \A n \in Hosts : NotOlder(file.peers[n], file'.peers[n]))
<1> SUFFICES ASSUME IndInv, [PeersNext]_peerVars, ~unread, NEW n \in Hosts
             PROVE  NotOlder(file.peers[n], file'.peers[n])
  OBVIOUS
<1>1. CASE Rename
  <2>1. file'.peers = cache
    BY <1>1 DEF Rename, IndInv, SaveInv, Whole
  <2> QED BY <1>1, <2>1 DEF Rename, IndInv, CacheInv
<1>2. CASE file' = file
  <2>1. file.peers[n] # Unknown => file.peers[n].slots \in Nat
    BY Bounds DEF IndInv, EntriesInv, Entry
  <2> QED BY <1>2, <2>1 DEF NotOlder
<1>3. Rename \/ file' = file
  BY DEF PeersNext, StartDiscovery, PollUnread, PollBegins, Fetch, FetchFails, Upsert, PollEnds, WriteBegins, WriteEnds,
     SaveFails, Tick, Crash, SlotsChange, peerVars
<1> QED BY <1>1, <1>2, <1>3

(* What peers.json knows of a peer is neither lost nor aged, whatever times out, fails to
   be written or crashes, but by the first save of a process that could not read it. *)
THEOREM KnownIsKept == PeersSpec => LastKnownIsKept
<1>1. IndInv /\ [PeersNext]_peerVars =>
        [~unread => \A n \in Hosts : KeepsEntry(file.peers[n], file'.peers[n])]_peerVars
  BY KnownStep DEF NotOlder, KeepsEntry
<1> QED BY <1>1, InductiveInvariant, PTL DEF PeersSpec, LastKnownIsKept

-----------------------------------------------------------------------------
(* The slots. *)

(* A set of natural numbers that is not empty has a least element. *)
LEMMA MinIsLeast ==
  ASSUME NEW T, T \subseteq Nat, T # {}
  PROVE  \E x \in T : \A y \in T : x <= y
<1> DEFINE Below == {1 .. x : x \in T}
<1>1. Below \subseteq FiniteSubsetsOf(Nat)
  <2>1. \A x \in T : IsFiniteSet(1 .. x) /\ 1 .. x \subseteq Nat
    BY FS_Interval
  <2> QED BY <2>1 DEF FiniteSubsetsOf
<1>2. Below # {}
  OBVIOUS
<1>3. IsWellFoundedOn(StrictSubsetOrdering(Nat), FiniteSubsetsOf(Nat))
  BY FS_StrictSubsetOrderingWellFounded
<1>4. PICK b \in Below : \A c \in Below : ~ (<<c, b>> \in StrictSubsetOrdering(Nat))
  BY <1>1, <1>2, <1>3, WFMin
<1>5. PICK x \in T : b = 1 .. x
  OBVIOUS
<1>6. ASSUME NEW y \in T PROVE x <= y
  <2>1. ~ (<<1 .. y, 1 .. x>> \in StrictSubsetOrdering(Nat))
    BY <1>4, <1>5
  <2>2. <<1 .. y, 1 .. x>> \in (SUBSET Nat) \X (SUBSET Nat)
    OBVIOUS
  <2>3. SUFFICES ASSUME y < x PROVE FALSE
    OBVIOUS
  <2>4. x \in 1 .. x /\ x \notin 1 .. y
    BY <2>3
  <2>5. 1 .. y \subseteq 1 .. x
    BY <2>3
  <2> QED BY <2>1, <2>2, <2>4, <2>5 DEF StrictSubsetOrdering
<1> QED BY <1>6

(* The types of the slots; what is listed are places of the directory. *)
SlotsTypeInv ==
  /\ manifests \in [FileNames -> Ids \union {Bad, NoManifest}]
  /\ registry \in [phase : {"down", "loading", "serving"}, todo : SUBSET DOMAIN SlotFiles,
                   slots : SUBSET Ids, failed : BOOLEAN]
  /\ writing \subseteq Ids

(* What was left alone since the directory was listed is in the registry or still to be
   read; a load that gave up did so at a manifest that cannot be parsed, or could not. *)
LoadInv ==
  registry.phase # "down" =>
    /\ \A i \in DOMAIN SlotFiles :
         Untouched(SlotFiles[i]) => manifests[SlotFiles[i]] \in registry.slots \/ i \in registry.todo
    /\ registry.failed => registry.todo # {} /\ ~ Untouched(AtHand)
    /\ registry.phase = "serving" /\ ~ registry.failed => registry.todo = {}
    /\ registry.phase = "loading" => ~ registry.failed

SlotsInv == SlotsTypeInv /\ LoadInv

(* The places of SlotFiles are numbers, and its entries file names. *)
LEMMA PlacesAreNumbers ==
  /\ DOMAIN SlotFiles \subseteq Nat
  /\ \A i \in DOMAIN SlotFiles : SlotFiles[i] \in FileNames
  /\ \A id \in Ids : slotFilename(id) \in FileNames
BY SlotLimits DEF FileNames

(* The file at hand is one of those to be read, and none of those is before it. *)
LEMMA AtHandIsFirst ==
  ASSUME SlotsTypeInv, registry.todo # {}
  PROVE  NextPlace \in registry.todo /\ \A j \in registry.todo : NextPlace <= j
<1>1. registry.todo \subseteq Nat
  BY PlacesAreNumbers DEF SlotsTypeInv
<1>2. \E x \in registry.todo : \A y \in registry.todo : x <= y
  BY <1>1, MinIsLeast
<1> QED BY <1>2 DEF NextPlace

(* A registration touches what it changes: what is untouched afterwards was so before,
   with the same manifest. *)
LEMMA RegistrationTouches ==
  ASSUME SlotsInv, NEW f, f \in FileNames, NEW x \in Ids \union {Bad},
         manifests' = [manifests EXCEPT ![f] = x], touched' = touched \union {f},
         registry' = registry, writing' \subseteq Ids
  PROVE  SlotsInv'
<1>1. SlotsTypeInv'
  BY DEF SlotsInv, SlotsTypeInv
<1>2. \A g \in FileNames : Untouched(g)' => Untouched(g) /\ manifests'[g] = manifests[g]
  BY DEF SlotsInv, SlotsTypeInv, Untouched
<1>3. AtHand' = AtHand
  BY DEF AtHand, NextPlace
<1>4. registry.todo # {} => AtHand \in FileNames
  BY AtHandIsFirst, PlacesAreNumbers DEF SlotsInv, SlotsTypeInv, AtHand
<1>5. LoadInv'
  <2> SUFFICES ASSUME registry.phase # "down" PROVE LoadInv'
    BY DEF LoadInv
  <2>1. \A i \in DOMAIN SlotFiles :
          Untouched(SlotFiles[i])' => manifests'[SlotFiles[i]] \in registry.slots \/ i \in registry.todo
    BY <1>2, PlacesAreNumbers DEF SlotsInv, LoadInv
  <2>2. registry.failed => registry.todo # {} /\ ~ Untouched(AtHand)'
    BY <1>2, <1>3, <1>4 DEF SlotsInv, LoadInv
  <2> QED BY <2>1, <2>2 DEF SlotsInv, LoadInv
<1> QED BY <1>1, <1>5 DEF SlotsInv

(* Reading the file at hand moves it from those to be read to the registry. *)
LEMMA LoadOneKeeps ==
  ASSUME SlotsInv, LoadOne
  PROVE  SlotsInv'
<1>1. /\ registry.phase = "loading" /\ registry.todo # {} /\ manifests[AtHand] \in Ids
      /\ registry' = [registry EXCEPT !.slots = @ \union {manifests[AtHand]}, !.todo = @ \ {NextPlace}]
      /\ UNCHANGED <<manifests, writing, touched>>
  BY DEF LoadOne
<1>2. SlotsTypeInv'
  BY <1>1 DEF SlotsInv, SlotsTypeInv
<1>3. /\ registry'.phase = "loading" /\ registry'.failed = registry.failed
      /\ registry'.slots = registry.slots \union {manifests[AtHand]}
      /\ registry'.todo = registry.todo \ {NextPlace}
  BY <1>1 DEF SlotsInv, SlotsTypeInv
<1>4. ~ registry.failed
  BY <1>1 DEF SlotsInv, LoadInv
<1>5. ASSUME NEW i \in DOMAIN SlotFiles, Untouched(SlotFiles[i])
      PROVE  manifests[SlotFiles[i]] \in registry'.slots \/ i \in registry'.todo
  <2>1. manifests[SlotFiles[i]] \in registry.slots \/ i \in registry.todo
    BY <1>1, <1>5 DEF SlotsInv, LoadInv
  <2>2. i = NextPlace => manifests[SlotFiles[i]] = manifests[AtHand]
    BY DEF AtHand
  <2> QED BY <1>3, <2>1, <2>2
<1> QED BY <1>1, <1>2, <1>3, <1>4, <1>5 DEF SlotsInv, LoadInv, Untouched

\* Each action of a registration, of the load and of a restart keeps the invariant.
LEMMA SlotsStep == SlotsInv /\ [SlotsNext]_slotVars => SlotsInv'
<1> SUFFICES ASSUME SlotsInv, [SlotsNext]_slotVars PROVE SlotsInv'
  OBVIOUS
<1>1. ASSUME NEW id \in Ids, RegisterEmpties(id) PROVE SlotsInv'
  <2>1. writing' \subseteq Ids /\ slotFilename(id) \in FileNames
    BY <1>1, PlacesAreNumbers DEF RegisterEmpties, SlotsInv, SlotsTypeInv
  <2> QED BY <1>1, <2>1, RegistrationTouches DEF RegisterEmpties
<1>2. ASSUME NEW id \in Ids, RegisterWrites(id) PROVE SlotsInv'
  <2>1. writing' \subseteq Ids /\ slotFilename(id) \in FileNames
    BY <1>2, PlacesAreNumbers DEF RegisterWrites, SlotsInv, SlotsTypeInv
  <2> QED BY <1>2, <2>1, RegistrationTouches DEF RegisterWrites
<1>3. CASE LoadBegins
  <2>1. SlotsTypeInv'
    BY <1>3 DEF LoadBegins, SlotsInv, SlotsTypeInv, NotLoaded
  <2>2. /\ registry'.phase = "loading" /\ registry'.failed = FALSE /\ manifests' = manifests
        /\ registry'.todo = {i \in DOMAIN SlotFiles : manifests[SlotFiles[i]] # NoManifest}
    BY <1>3 DEF LoadBegins, NotLoaded
  <2>3. \A i \in DOMAIN SlotFiles : Untouched(SlotFiles[i])' => i \in registry'.todo
    BY <2>2, SlotLimits DEF Untouched
  <2> QED BY <2>1, <2>2, <2>3 DEF SlotsInv, LoadInv
<1>4. CASE LoadOne
  BY <1>4, LoadOneKeeps
<1>5. CASE LoadFails
  <2>1. SlotsTypeInv'
    BY <1>5 DEF LoadFails, SlotsInv, SlotsTypeInv
  <2>2. /\ registry.phase = "loading" /\ registry.todo # {} /\ manifests[AtHand] = Bad
        /\ registry'.phase = "serving" /\ registry'.failed = TRUE
        /\ registry'.todo = registry.todo /\ registry'.slots = registry.slots
        /\ UNCHANGED <<manifests, touched>>
    BY <1>5 DEF LoadFails, SlotsInv, SlotsTypeInv
  <2>3. AtHand' = AtHand
    BY <2>2 DEF AtHand, NextPlace
  <2>4. ~ Untouched(AtHand)
    BY <2>2, SlotLimits DEF Untouched
  <2> QED BY <2>1, <2>2, <2>3, <2>4 DEF SlotsInv, LoadInv, Untouched
<1>6. CASE LoadEnds
  <2>1. SlotsTypeInv'
    BY <1>6 DEF LoadEnds, SlotsInv, SlotsTypeInv
  <2>2. /\ registry.phase = "loading" /\ registry.todo = {}
        /\ registry'.phase = "serving" /\ registry'.failed = registry.failed
        /\ registry'.todo = registry.todo /\ registry'.slots = registry.slots
        /\ UNCHANGED <<manifests, touched>>
    BY <1>6 DEF LoadEnds, SlotsInv, SlotsTypeInv
  <2> QED BY <2>1, <2>2 DEF SlotsInv, LoadInv, Untouched
<1>7. CASE Stops
  <2>1. SlotsTypeInv'
    BY <1>7 DEF Stops, SlotsInv, SlotsTypeInv, NotLoaded
  <2>2. registry'.phase = "down"
    BY <1>7 DEF Stops, NotLoaded
  <2> QED BY <2>1, <2>2 DEF SlotsInv, LoadInv
<1>8. CASE UNCHANGED slotVars
  BY <1>8 DEF slotVars, SlotsInv, SlotsTypeInv, LoadInv, Untouched, AtHand, NextPlace
<1> QED
  BY <1>1, <1>2, <1>3, <1>4, <1>5, <1>6, <1>7, <1>8 DEF SlotsNext

(* The types of the slots, and what a load has yet to read, hold throughout. *)
THEOREM SlotsInvariant == SlotsSpec => []SlotsInv
<1>1. SlotsInit => SlotsInv
  BY DEF SlotsInit, SlotsInv, SlotsTypeInv, LoadInv, NotLoaded
<1> QED BY <1>1, SlotsStep, PTL DEF SlotsSpec

(* An agent that started without a warning serves every slot whose manifest was left
   alone since it listed the directory, whatever was registered meanwhile; one that
   warned serves those before the manifest it stopped at (loadFromDisk). *)
THEOREM LoadedAreServed == SlotsSpec => []SlotsAreServed
<1>1. SlotsInv => SlotsAreServed
  <2> SUFFICES ASSUME SlotsInv, registry.phase = "serving", NEW i \in DOMAIN SlotFiles,
                      Untouched(SlotFiles[i]), manifests[SlotFiles[i]] \notin registry.slots
               PROVE  registry.failed /\ NextPlace < i
    BY DEF SlotsAreServed
  <2>1. i \in registry.todo
    BY DEF SlotsInv, LoadInv
  <2>2. registry.failed /\ ~ Untouched(AtHand)
    BY <2>1 DEF SlotsInv, LoadInv, SlotsTypeInv
  <2>3. NextPlace \in registry.todo /\ NextPlace <= i
    BY <2>1, AtHandIsFirst DEF SlotsInv
  <2>4. NextPlace # i
    BY <2>2 DEF AtHand
  <2>5. NextPlace \in Nat /\ i \in Nat
    BY <2>3, PlacesAreNumbers DEF SlotsInv, SlotsTypeInv
  <2> QED BY <2>2, <2>3, <2>4, <2>5
<1> QED BY <1>1, SlotsInvariant, PTL

-----------------------------------------------------------------------------
(* Inboxes. What a client, a broadcast and the watcher may rely on, for any posts, senders,
   agents and clock: an answer of success means a message on disk, an exit of 0 a
   broadcast delivered, and a scan shows whole what was answered before it.      *)


(* The handler of a post has opened its file. *)
Opened(p) == post[p] \in {"open", "stored", "failed"}

(* What is in the file of a post. *)
Cell(p) == inbox[AddrOf(p)][FileOf(p)]

(* A file nobody else has opened is empty until its handler writes it, whole afterwards. *)
CellAt(p) == Alone(p) => /\ post[p] = "open"   => Cell(p) = Empty
                         /\ post[p] = "stored" => Cell(p) = Holds(p)

CellInv == \A p \in Posts : CellAt(p)

(* A broadcast counts as success only the answer of a handler that has stored. *)
OkInv == \A p \in Broadcast : client[p] = "ok" => post[p] = "stored"

(* A broadcast that is over has every answer, and one success when it exits with 0. *)
CollectInv ==
  /\ bcast = "start" => targets = {}
  /\ bcast = "done" =>
       /\ \A p \in targets : client[p] \in {"ok", "err"}
       /\ rc = 0 /\ targets # {} => \E p \in targets : client[p] = "ok"

(* What the scan that is under way has read, and what it has still to read, are new. *)
NamesRead == {item[1] : item \in watcher.read}

ScanInv == /\ ~watcher.busy => watcher.todo = {} /\ watcher.read = {} /\ settled = {}
           /\ watcher.todo \cap ShownFiles = {} /\ NamesRead \cap ShownFiles = {}

(* No file is shown by two scans. *)
ShownOnce == \A k, l \in DOMAIN shown : k < l => shown[k] \cap shown[l] = {}

(* A message answered before the scan began is one it has read whole or will read. *)
SettledAt(p) ==
  /\ post[p] = "stored" /\ AddrOf(p) = Here
  /\ Alone(p) /\ FileOf(p) \notin ShownFiles =>
       FileOf(p) \in watcher.todo \/ <<FileOf(p), Holds(p)>> \in watcher.read

SettledInv == \A p \in settled : SettledAt(p)

InboxInv == /\ BroadcastTypeOK /\ CellInv /\ OkInv /\ CollectInv
          /\ ScanInv /\ ShownOnce /\ SettledInv

-----------------------------------------------------------------------------
(* Type correctness. *)

(* The file of a post is a file of its agent. *)
LEMMA FileTypes ==
  ASSUME InboxTypeOK, NEW p \in Posts PROVE AddrOf(p) \in Agents /\ FileOf(p) \in File
BY DEF InboxTypeOK, Agents, Senders, File, FileOf

(* The types hold before the broadcast has sent. *)
LEMMA TypeInit == BroadcastInit => BroadcastTypeOK
<1> SUFFICES ASSUME BroadcastInit PROVE BroadcastTypeOK
  OBVIOUS
<1>1. 0 \in Times
  BY ClockIsNat DEF Times
<1>2. inbox \in [Agents -> [File -> InboxContents]]
  BY DEF BroadcastInit, InboxInit, InboxContents
<1> QED
  BY <1>1, <1>2 DEF BroadcastInit, InboxInit, BroadcastTypeOK, InboxTypeOK

(* A write changes one file of one inbox. *)
LEMMA StoreType ==
  ASSUME InboxTypeOK, NEW p \in Posts, NEW content \in InboxContents, Store(p, content)
  PROVE  /\ inbox' \in [Agents -> [File -> InboxContents]]
         /\ inbox'[AddrOf(p)][FileOf(p)] = content
         /\ \A a \in Agents, f \in File :
              a # AddrOf(p) \/ f # FileOf(p) => inbox'[a][f] = inbox[a][f]
<1>1. AddrOf(p) \in Agents /\ FileOf(p) \in File
  BY FileTypes
<1>2. inbox \in [Agents -> [File -> InboxContents]]
  BY DEF InboxTypeOK
<1>3. inbox' = [inbox EXCEPT ![AddrOf(p)][FileOf(p)] = content]
  BY DEF Store
<1> HIDE DEF InboxContents, File
<1> QED
  BY <1>1, <1>2, <1>3

(* Every step of the sender, the handlers and the watcher keeps the types. *)
LEMMA InboxTypeNext == BroadcastTypeOK /\ [BroadcastNext]_messageVars => BroadcastTypeOK'
<1> SUFFICES ASSUME BroadcastTypeOK, [BroadcastNext]_messageVars PROVE BroadcastTypeOK'
  OBVIOUS
<1>0. InboxTypeOK
  BY DEF BroadcastTypeOK
<1>1. CASE NoPeersKnown
  BY <1>1 DEF NoPeersKnown, BroadcastTypeOK, InboxTypeOK, inboxVars
<1>2. CASE FanOut
  BY <1>2 DEF FanOut, BroadcastTypeOK, InboxTypeOK
<1>3. CASE Collect
  BY <1>3 DEF Collect, BroadcastTypeOK, InboxTypeOK, inboxVars
<1>4. ASSUME UNCHANGED broadcastVars, InboxTypeOK' PROVE BroadcastTypeOK'
  BY <1>4 DEF broadcastVars, BroadcastTypeOK
<1>5. ASSUME Millisecond PROVE InboxTypeOK'
  <2>1. now' \in Times
    BY <1>0, <1>5, ClockIsNat DEF Millisecond, InboxTypeOK, Times
  <2> QED
    BY <1>0, <1>5, <2>1 DEF Millisecond, InboxTypeOK
<1>6. ASSUME NEW p \in Posts, Send(p) \/ ClientStep(p) PROVE InboxTypeOK'
  BY <1>0, <1>6 DEF Send, ClientStep, GiveUp, GetAnswer, InboxTypeOK
<1>7. ASSUME NEW p \in Posts, StampFile(p) PROVE InboxTypeOK'
  BY <1>0, <1>7 DEF StampFile, InboxTypeOK
<1>8. ASSUME NEW p \in Posts, Open(p) \/ Write(p) PROVE InboxTypeOK'
  <2>1. PICK content \in InboxContents : Store(p, content)
    BY <1>8 DEF Open, Write, InboxContents
  <2>2. inbox' \in [Agents -> [File -> InboxContents]]
    BY <1>0, <2>1, StoreType
  <2>3. post' \in [Posts -> {"unsent", "stamped", "open", "stored", "failed", "refused"}]
    BY <1>0, <1>8 DEF Open, Write, InboxTypeOK
  <2> QED
    BY <1>0, <1>8, <2>2, <2>3 DEF Open, Write, InboxTypeOK
<1>9. ASSUME NEW p \in Posts, Refuse(p) PROVE InboxTypeOK'
  <2>1. 0 \in Times
    BY ClockIsNat DEF Times
  <2> QED
    BY <1>0, <1>9, <2>1 DEF Refuse, InboxTypeOK
<1>10. ASSUME ScanBegins PROVE InboxTypeOK'
  BY <1>0, <1>10 DEF ScanBegins, InboxTypeOK
<1>11. ASSUME NEW f \in File, ReadOne(f) \/ ReadFails(f) PROVE InboxTypeOK'
  <2>1. Here \in Agents
    BY DEF Agents
  <2>2. <<f, inbox[Here][f]>> \in File \X InboxContents
    BY <1>0, <2>1 DEF InboxTypeOK
  <2>3. \/ watcher' = [watcher EXCEPT !.todo = @ \ {f}, !.read = @ \union {<<f, inbox[Here][f]>>}]
        \/ watcher' = [watcher EXCEPT !.todo = @ \ {f}]
    BY <1>11 DEF ReadOne, ReadFails
  <2>4. watcher' \in [todo : SUBSET File, read : SUBSET (File \X InboxContents), busy : BOOLEAN]
    <3>1. PICK item : item = <<f, inbox[Here][f]>>
      OBVIOUS
    <3>2. PICK Items : Items = File \X InboxContents
      OBVIOUS
    <3>3. PICK AllFiles : AllFiles = File
      OBVIOUS
    <3>4. /\ watcher \in [todo : SUBSET AllFiles, read : SUBSET Items, busy : BOOLEAN] /\ item \in Items
          /\ \/ watcher' = [watcher EXCEPT !.todo = @ \ {f}, !.read = @ \union {item}]
             \/ watcher' = [watcher EXCEPT !.todo = @ \ {f}]
      BY <1>0, <2>2, <2>3, <3>1, <3>2, <3>3 DEF InboxTypeOK
    <3>5. watcher' \in [todo : SUBSET AllFiles, read : SUBSET Items, busy : BOOLEAN]
      BY ONLY <3>4
    <3> QED BY <3>2, <3>3, <3>5
  <2>5. settled' \in SUBSET Posts
    BY <1>0, <1>11 DEF ReadOne, ReadFails, InboxTypeOK
  <2>6. UNCHANGED <<now, post, stamp, client, inbox, shown>>
    BY <1>11 DEF ReadOne, ReadFails
  <2> QED
    BY <1>0, <2>4, <2>5, <2>6 DEF InboxTypeOK
<1>12. ASSUME PrintAll PROVE InboxTypeOK'
  <2>1. {item[1] : item \in watcher.read} \in SUBSET File
    BY <1>0 DEF InboxTypeOK
  <2>2. shown' \in Seq(SUBSET File)
    BY <1>0, <1>12, <2>1 DEF PrintAll, InboxTypeOK
  <2> QED
    BY <1>0, <1>12, <2>2 DEF PrintAll, InboxTypeOK
<1>13. CASE UNCHANGED messageVars
  BY <1>13 DEF messageVars, inboxVars, broadcastVars, BroadcastTypeOK, InboxTypeOK
<1> QED
  BY <1>1, <1>2, <1>3, <1>4, <1>5, <1>6, <1>7, <1>8, <1>9, <1>10, <1>11, <1>12, <1>13
     DEF BroadcastNext, InboxStep, WatcherStep, HandlerStep

(* The variables of the inboxes and the broadcast keep their types. *)
THEOREM InboxTypeCorrect == BroadcastSpec => []BroadcastTypeOK
BY TypeInit, InboxTypeNext, PTL DEF BroadcastSpec

-----------------------------------------------------------------------------
(* Files. *)

(* A handler that has opened its file keeps its name, and one that has stored its message
   has nothing left to do. *)
LEMMA HandlerMoves ==
  ASSUME BroadcastTypeOK, [BroadcastNext]_messageVars, NEW q \in Posts
  PROVE  /\ Opened(q) => Opened(q)' /\ stamp'[q] = stamp[q]
         /\ post[q] = "stored" => post'[q] = "stored"
<1>1. ASSUME NEW p \in Posts, HandlerStep(p)
      PROVE  /\ Opened(q) => Opened(q)' /\ stamp'[q] = stamp[q]
             /\ post[q] = "stored" => post'[q] = "stored"
  BY <1>1 DEF HandlerStep, StampFile, Open, Write, Refuse, Opened, BroadcastTypeOK, InboxTypeOK
<1>2. CASE UNCHANGED <<post, stamp>>
  BY <1>2 DEF Opened
<1> QED
  BY <1>1, <1>2 DEF BroadcastNext, NoPeersKnown, FanOut, Collect, InboxStep, Millisecond, WatcherStep,
     ScanBegins, ReadOne, ReadFails, PrintAll, Send, ClientStep, GiveUp, GetAnswer, messageVars, inboxVars

(* Other handlers only come to a post's file, they do not leave it. *)
LEMMA AloneShrinks ==
  ASSUME BroadcastTypeOK, BroadcastTypeOK', [BroadcastNext]_messageVars, NEW p \in Posts, Opened(p), Alone(p)' PROVE Alone(p)
<1>1. FileOf(p)' = FileOf(p)
  BY HandlerMoves DEF FileOf
<1> SUFFICES ASSUME NEW q \in Posts \ {p}, Opened(q), AddrOf(q) = AddrOf(p), FileOf(q) = FileOf(p)
             PROVE  FALSE
  BY DEF Alone, Opened, BroadcastTypeOK, InboxTypeOK
<1>2. Opened(q)' /\ FileOf(q)' = FileOf(q)
  BY HandlerMoves DEF FileOf
<1>3. post'[q] \notin {"unsent", "stamped", "refused"} /\ AddrOf(q) = AddrOf(p) /\ FileOf(q)' = FileOf(p)'
  BY <1>1, <1>2 DEF Opened
<1> QED
  BY <1>3 DEF Alone

(* A file that only its own handler has opened stays as it is while that handler rests. *)
LEMMA CellFrame ==
  ASSUME BroadcastTypeOK, BroadcastTypeOK', [BroadcastNext]_messageVars, NEW p \in Posts, CellAt(p), post'[p] = post[p],
         Opened(p) /\ Alone(p)' => Cell(p)' = Cell(p)
  PROVE  CellAt(p)'
BY AloneShrinks DEF CellAt, Opened

(* Every step keeps what is in the file of a handler that is alone with it. *)
LEMMA CellNext == ASSUME BroadcastTypeOK, BroadcastTypeOK', CellInv, [BroadcastNext]_messageVars PROVE CellInv'
<1> SUFFICES ASSUME NEW q \in Posts PROVE CellAt(q)'
  BY DEF CellInv
<1>0. CellAt(q) /\ InboxTypeOK
  BY DEF CellInv, BroadcastTypeOK
<1>1. ASSUME NEW p \in Posts, Open(p) \/ Write(p) PROVE CellAt(q)'
  <2>1. PICK content \in InboxContents : Store(p, content)
    BY <1>1 DEF Open, Write, InboxContents
  <2>2. /\ inbox'[AddrOf(p)][FileOf(p)] = content /\ stamp' = stamp
        /\ Opened(p)' /\ post' = [post EXCEPT ![p] = post'[p]]
        /\ \A a \in Agents, f \in File :
             a # AddrOf(p) \/ f # FileOf(p) => inbox'[a][f] = inbox[a][f]
    BY <1>0, <1>1, <2>1, StoreType DEF Open, Write, Opened, InboxTypeOK
  <2>3. CASE q # p
    <3>1. post'[q] = post[q] /\ FileOf(q)' = FileOf(q) /\ FileOf(p)' = FileOf(p)
      BY <1>0, <2>2, <2>3 DEF FileOf, InboxTypeOK
    <3>2. ASSUME Alone(q)' PROVE Cell(q)' = Cell(q)
      <4>1. AddrOf(p) # AddrOf(q) \/ FileOf(p) # FileOf(q)
        BY <2>2, <2>3, <3>1, <3>2 DEF Alone, Opened
      <4>2. AddrOf(q) \in Agents /\ FileOf(q) \in File
        BY <1>0, FileTypes
      <4> QED
        BY <2>2, <3>1, <4>1, <4>2 DEF Cell
    <3> QED
      BY <1>0, <3>1, <3>2, CellFrame
  <2>4. CASE q = p /\ Open(p)
    <3>1. post'[p] = "open" /\ inbox'[AddrOf(p)][FileOf(p)] = Empty
      BY <1>0, <2>4, StoreType DEF Open, InboxContents, InboxTypeOK
    <3> QED
      BY <2>2, <2>4, <3>1 DEF CellAt, Cell, FileOf
  <2>5. CASE q = p /\ Write(p)
    <3>1. post[p] = "open" /\ post'[p] = "stored" /\ Opened(p)
      BY <1>0, <2>5 DEF Write, Opened, InboxTypeOK
    <3>2. ASSUME Alone(p)' PROVE Cell(p)' = Holds(p)
      <4>1. Cell(p) = Empty
        BY <1>0, <2>5, <3>1, <3>2, AloneShrinks DEF CellAt
      <4>2. Store(p, Holds(p)) /\ Holds(p) \in InboxContents
        BY <2>5, <4>1 DEF Write, Cell, InboxContents
      <4>3. inbox'[AddrOf(p)][FileOf(p)] = Holds(p)
        BY <1>0, <4>2, StoreType
      <4> QED
        BY <2>2, <4>3 DEF Cell, FileOf
    <3> QED
      BY <2>5, <3>1, <3>2 DEF CellAt
  <2> QED
    BY <1>1, <2>3, <2>4, <2>5
<1>2. ASSUME NEW p \in Posts, StampFile(p) \/ Refuse(p) PROVE CellAt(q)'
  <2>1. CASE q = p
    <3>1. post'[p] \in {"stamped", "failed", "refused"}
      BY <1>0, <1>2 DEF StampFile, Refuse, InboxTypeOK
    <3> QED
      BY <2>1, <3>1 DEF CellAt
  <2>2. CASE q # p
    <3>1. post'[q] = post[q] /\ stamp'[q] = stamp[q] /\ inbox' = inbox
      BY <1>0, <1>2, <2>2 DEF StampFile, Refuse, InboxTypeOK
    <3> QED
      BY <1>0, <3>1, CellFrame DEF Cell, FileOf
  <2> QED
    BY <2>1, <2>2
<1>3. CASE UNCHANGED <<post, stamp, inbox>>
  BY <1>0, <1>3, CellFrame DEF Cell, FileOf
<1> QED
  BY <1>1, <1>2, <1>3 DEF BroadcastNext, NoPeersKnown, FanOut, Collect, InboxStep, Millisecond, WatcherStep,
     HandlerStep, ScanBegins, ReadOne, ReadFails, PrintAll, Send, ClientStep, GiveUp, GetAnswer, messageVars, inboxVars

-----------------------------------------------------------------------------
(* Answers. *)

(* Every step keeps the answers true: one below 300 comes from a handler that has stored. *)
LEMMA OkNext == ASSUME BroadcastTypeOK, OkInv, [BroadcastNext]_messageVars PROVE OkInv'
<1> SUFFICES ASSUME NEW p \in Broadcast, client'[p] = "ok" PROVE post[p] = "stored"
  BY HandlerMoves, BroadcastPosts DEF OkInv
<1>0. p \in Posts
  BY BroadcastPosts
<1>1. CASE GetAnswer(p)
  BY <1>0, <1>1 DEF GetAnswer, BroadcastTypeOK, InboxTypeOK
<1>2. CASE client[p] = "ok"
  BY <1>2 DEF OkInv
<1>3. CASE ~GetAnswer(p)
  <2>1. CASE FanOut
    BY <1>0, <1>2, <2>1 DEF FanOut
  <2>2. ASSUME NEW q \in Posts, Send(q) \/ GiveUp(q) \/ GetAnswer(q) PROVE client[p] = "ok"
    BY <1>0, <1>3, <2>2 DEF Send, GiveUp, GetAnswer, BroadcastTypeOK, InboxTypeOK
  <2>3. CASE client' = client
    BY <1>2, <2>3
  <2> QED
    BY <1>2, <2>1, <2>2, <2>3 DEF BroadcastNext, NoPeersKnown, Collect, InboxStep, Millisecond, WatcherStep,
       HandlerStep, StampFile, Open, Write, Refuse, ScanBegins, ReadOne, ReadFails, PrintAll, ClientStep, messageVars, inboxVars
<1> QED
  BY <1>1, <1>3

(* No time-out, and no answer, changes what a client has made of its post. *)
LEMMA AnsweredStays ==
  ASSUME BroadcastTypeOK, [BroadcastNext]_messageVars, bcast # "start", NEW p \in Broadcast, client[p] \in {"ok", "err"}
  PROVE  client'[p] = client[p]
<1>1. p \in Posts
  BY BroadcastPosts
<1>2. ASSUME NEW q \in Posts, Send(q) \/ GiveUp(q) \/ GetAnswer(q) PROVE client'[p] = client[p]
  BY <1>1, <1>2 DEF Send, GiveUp, GetAnswer, BroadcastTypeOK, InboxTypeOK
<1>3. CASE client' = client
  BY <1>3
<1> QED
  BY <1>2, <1>3 DEF BroadcastNext, FanOut, NoPeersKnown, Collect, InboxStep, Millisecond, WatcherStep,
     HandlerStep, StampFile, Open, Write, Refuse, ScanBegins, ReadOne, ReadFails, PrintAll, ClientStep, messageVars, inboxVars

(* Every step keeps the sender's count of answers true. *)
LEMMA CollectNext == ASSUME BroadcastTypeOK, CollectInv, [BroadcastNext]_messageVars PROVE CollectInv'
<1>1. CASE NoPeersKnown
  BY <1>1 DEF NoPeersKnown, CollectInv
<1>2. CASE FanOut
  BY <1>2 DEF FanOut, CollectInv
<1>3. CASE Collect
  BY <1>3 DEF Collect, CollectInv, inboxVars
<1>4. CASE UNCHANGED broadcastVars
  <2>1. UNCHANGED <<bcast, targets, rc>>
    BY <1>4 DEF broadcastVars
  <2>2. bcast = "done" => \A p \in targets : client'[p] = client[p]
    BY AnsweredStays DEF CollectInv, BroadcastTypeOK
  <2> QED
    BY <2>1, <2>2 DEF CollectInv
<1> QED
  BY <1>1, <1>2, <1>3, <1>4 DEF BroadcastNext, InboxStep, messageVars

-----------------------------------------------------------------------------
(* Scans. *)

(* Marking what a scan has read as shown adds those names and no other. *)
LEMMA ShownGrows ==
  ASSUME BroadcastTypeOK, PrintAll, watcher.read # {}
  PROVE  /\ ShownFiles' = ShownFiles \union NamesRead
         /\ ScanInv /\ ShownOnce => ShownOnce'
<1> DEFINE n == Len(shown)
<1>1. /\ shown \in Seq(SUBSET File) /\ NamesRead \in SUBSET File /\ shown' = Append(shown, NamesRead)
  BY DEF PrintAll, BroadcastTypeOK, InboxTypeOK, NamesRead
<1>2. /\ n \in Nat /\ DOMAIN shown = 1..n /\ DOMAIN shown' = 1..(n + 1)
      /\ \A k \in 1..n : shown'[k] = shown[k] /\ k \in 1..(n + 1)
      /\ shown'[n + 1] = NamesRead /\ n + 1 \in 1..(n + 1)
  <2> HIDE DEF NamesRead, File
  <2> QED
    BY <1>1
<1> HIDE DEF n
<1>3. \A k \in 1..(n + 1) : k \in 1..n \/ k = n + 1
  BY <1>2
<1>4. ShownFiles' = ShownFiles \union NamesRead
  <2>1. \A f : f \in ShownFiles <=> \E k \in 1..n : f \in shown[k]
    BY <1>2 DEF ShownFiles
  <2>2. \A f : f \in ShownFiles' <=> \E k \in 1..(n + 1) : f \in shown'[k]
    BY <1>2 DEF ShownFiles
  <2> QED
    BY <1>2, <1>3, <2>1, <2>2
<1>5. ASSUME ScanInv, ShownOnce PROVE ShownOnce'
  <2> SUFFICES ASSUME NEW k \in 1..(n + 1), NEW l \in 1..(n + 1), k < l
               PROVE  shown'[k] \cap shown'[l] = {}
    BY <1>2 DEF ShownOnce
  <2>1. k \in 1..n
    BY <1>2
  <2>2. CASE l \in 1..n
    BY <1>2, <1>5, <2>1, <2>2 DEF ShownOnce
  <2>3. CASE l = n + 1
    <3>1. shown[k] \subseteq ShownFiles
      BY <1>2, <2>1 DEF ShownFiles
    <3> QED
      BY <1>2, <1>5, <2>1, <2>3, <3>1 DEF ScanInv
  <2> QED
    BY <1>3, <2>2, <2>3
<1> QED
  BY <1>4, <1>5

(* A scan that has begun has all names to read that were not shown before. *)
LEMMA BeginNext ==
  ASSUME InboxInv, BroadcastTypeOK', [BroadcastNext]_messageVars, ScanBegins PROVE ScanInv' /\ ShownOnce' /\ SettledInv'
<1> DEFINE new == {f \in File : inbox[Here][f] # Missing} \ ShownFiles
<1>1. /\ watcher' = [todo |-> new, read |-> {}, busy |-> TRUE] /\ shown' = shown
      /\ UNCHANGED <<post, stamp, inbox>>
      /\ settled' = {p \in Posts : post[p] = "stored" /\ AddrOf(p) = Here}
  BY DEF ScanBegins
<1>2. watcher'.todo = new /\ watcher'.read = {} /\ watcher'.busy = TRUE
  BY <1>1
<1>3. ShownFiles' = ShownFiles
  BY <1>1 DEF ShownFiles
<1>4. ShownOnce'
  BY <1>1 DEF InboxInv, ShownOnce
<1>5. ScanInv'
  BY <1>2, <1>3 DEF ScanInv, NamesRead
<1>6. ASSUME NEW p \in settled' PROVE SettledAt(p)'
  <2>1. p \in Posts /\ post'[p] = "stored" /\ post[p] = "stored" /\ AddrOf(p) = Here
    BY <1>1, <1>6
  <2>2. ASSUME Alone(p)', FileOf(p)' \notin ShownFiles' PROVE FileOf(p)' \in watcher'.todo
    <3>1. FileOf(p)' = FileOf(p) /\ FileOf(p) \in File
      BY <1>1, <2>1, FileTypes DEF FileOf, InboxInv, BroadcastTypeOK
    <3>2. Alone(p)
      BY <2>1, <2>2, AloneShrinks DEF InboxInv, Opened
    <3>3. inbox[Here][FileOf(p)] = Holds(p)
      BY <2>1, <3>2 DEF InboxInv, CellInv, CellAt, Cell
    <3>4. Holds(p) # Missing
      BY DEF Holds, Missing
    <3> QED
      BY <1>2, <1>3, <2>2, <3>1, <3>3, <3>4
  <2> QED
    BY <2>1, <2>2 DEF SettledAt
<1> QED
  BY <1>4, <1>5, <1>6 DEF SettledInv

(* Reading a file moves its name, with what the file holds, to what is read. *)
LEMMA ReadNext ==
  ASSUME InboxInv, BroadcastTypeOK', [BroadcastNext]_messageVars, NEW f, ReadOne(f) PROVE ScanInv' /\ ShownOnce' /\ SettledInv'
<1>1. /\ f \in watcher.todo
      /\ watcher' = [watcher EXCEPT !.todo = @ \ {f}, !.read = @ \union {<<f, inbox[Here][f]>>}]
  BY DEF ReadOne
<1>2. /\ watcher'.todo = watcher.todo \ {f} /\ watcher'.busy = watcher.busy
      /\ watcher'.read = watcher.read \union {<<f, inbox[Here][f]>>}
  BY <1>1 DEF InboxInv, BroadcastTypeOK, InboxTypeOK
<1>3. UNCHANGED <<post, stamp, inbox, shown, settled>> /\ ShownFiles' = ShownFiles
  BY DEF ReadOne, ShownFiles
<1>4. NamesRead' = NamesRead \union {f}
  <2>1. <<f, inbox[Here][f]>>[1] = f
    OBVIOUS
  <2> QED
    BY <1>2, <2>1 DEF NamesRead
<1>5. ScanInv' /\ ShownOnce'
  BY <1>1, <1>2, <1>3, <1>4 DEF InboxInv, ScanInv, ShownOnce
<1>6. ASSUME NEW p \in settled PROVE SettledAt(p)'
  <2>1. SettledAt(p) /\ p \in Posts
    BY <1>6 DEF InboxInv, SettledInv, BroadcastTypeOK, InboxTypeOK
  <2>2. FileOf(p)' = FileOf(p) /\ post' = post
    BY <1>3 DEF FileOf
  <2>3. ASSUME Alone(p)', FileOf(p)' \notin ShownFiles'
        PROVE  FileOf(p)' \in watcher'.todo \/ <<FileOf(p)', Holds(p)>> \in watcher'.read
    <3>1. Alone(p) /\ inbox[Here][FileOf(p)] = Holds(p)
      BY <2>1, <2>3, AloneShrinks DEF InboxInv, Opened, SettledAt, CellInv, CellAt, Cell
    <3>2. CASE f = FileOf(p)
      BY <1>2, <2>2, <3>1, <3>2
    <3>3. CASE f # FileOf(p)
      BY <1>2, <1>3, <2>1, <2>2, <2>3, <3>1, <3>3 DEF SettledAt
    <3> QED
      BY <3>2, <3>3
  <2> QED
    BY <2>1, <2>2, <2>3 DEF SettledAt
<1> QED
  BY <1>3, <1>5, <1>6 DEF SettledInv

(* A file that cannot be read is left to the next scan, with its post. *)
LEMMA MissNext ==
  ASSUME InboxInv, BroadcastTypeOK', [BroadcastNext]_messageVars, NEW f, ReadFails(f) PROVE ScanInv' /\ ShownOnce' /\ SettledInv'
<1>1. /\ f \in watcher.todo /\ watcher' = [watcher EXCEPT !.todo = @ \ {f}]
      /\ UNCHANGED <<post, stamp, inbox, shown>> /\ settled' = {p \in settled : FileOf(p) # f}
  BY DEF ReadFails
<1>2. /\ watcher'.todo = watcher.todo \ {f} /\ watcher'.busy = watcher.busy
      /\ watcher'.read = watcher.read
  BY <1>1 DEF InboxInv, BroadcastTypeOK, InboxTypeOK
<1>3. ShownFiles' = ShownFiles /\ NamesRead' = NamesRead
  BY <1>1, <1>2 DEF ShownFiles, NamesRead
<1>4. ScanInv' /\ ShownOnce'
  BY <1>1, <1>2, <1>3 DEF InboxInv, ScanInv, ShownOnce
<1>5. ASSUME NEW p \in settled' PROVE SettledAt(p)'
  <2>1. SettledAt(p) /\ p \in Posts /\ FileOf(p) # f
    BY <1>1, <1>5 DEF InboxInv, SettledInv, BroadcastTypeOK, InboxTypeOK
  <2>2. FileOf(p)' = FileOf(p) /\ post' = post
    BY <1>1 DEF FileOf
  <2>3. Alone(p)' => Alone(p)
    BY <2>1, AloneShrinks DEF InboxInv, Opened, SettledAt
  <2> QED
    BY <1>2, <1>3, <2>1, <2>2, <2>3 DEF SettledAt
<1> QED
  BY <1>4, <1>5 DEF SettledInv

(* Printing what the scan has read shows nothing twice. *)
LEMMA PrintNext ==
  ASSUME InboxInv, PrintAll PROVE ScanInv' /\ ShownOnce' /\ SettledInv'
<1>1. /\ watcher'.todo = {} /\ watcher'.read = {} /\ settled' = {}
  BY DEF PrintAll, InboxInv, BroadcastTypeOK, InboxTypeOK
<1>2. ScanInv' /\ SettledInv'
  BY <1>1 DEF ScanInv, SettledInv, NamesRead
<1>3. ShownOnce'
  <2>1. CASE watcher.read = {}
    BY <2>1 DEF PrintAll, InboxInv, ShownOnce
  <2>2. CASE watcher.read # {}
    BY <2>2, ShownGrows DEF InboxInv
  <2> QED
    BY <2>1, <2>2
<1> QED
  BY <1>2, <1>3

(* Other handlers can only come to a file of a message that was answered. *)
LEMMA ScanElsewhere ==
  ASSUME InboxInv, BroadcastTypeOK', [BroadcastNext]_messageVars, UNCHANGED <<watcher, shown, settled>>
  PROVE  ScanInv' /\ ShownOnce' /\ SettledInv'
<1>1. ShownFiles' = ShownFiles /\ NamesRead' = NamesRead
  BY DEF ShownFiles, NamesRead
<1>2. ScanInv' /\ ShownOnce'
  BY <1>1 DEF InboxInv, ScanInv, ShownOnce
<1>3. ASSUME NEW p \in settled PROVE SettledAt(p)'
  <2>1. SettledAt(p) /\ p \in Posts /\ Opened(p)
    BY <1>3 DEF InboxInv, SettledInv, SettledAt, Opened, BroadcastTypeOK, InboxTypeOK
  <2>2. FileOf(p)' = FileOf(p) /\ post'[p] = "stored"
    BY <2>1, HandlerMoves DEF FileOf, SettledAt, InboxInv
  <2>3. Alone(p)' => Alone(p)
    BY <2>1, AloneShrinks DEF InboxInv
  <2> QED
    BY <1>1, <2>1, <2>2, <2>3 DEF SettledAt
<1> QED
  BY <1>2, <1>3 DEF SettledInv

-----------------------------------------------------------------------------
(* The inductive invariant. *)

(* The inductive invariant holds before the broadcast has sent. *)
LEMMA InboxInvInit == BroadcastInit => InboxInv
<1> SUFFICES ASSUME BroadcastInit PROVE InboxInv
  OBVIOUS
<1>1. CellInv /\ OkInv /\ CollectInv
  BY BroadcastPosts DEF BroadcastInit, InboxInit, CellInv, CellAt, OkInv, CollectInv
<1>2. ShownFiles = {} /\ NamesRead = {} /\ DOMAIN shown = {}
  BY DEF BroadcastInit, InboxInit, ShownFiles, NamesRead
<1>3. ScanInv /\ ShownOnce /\ SettledInv
  BY <1>2 DEF BroadcastInit, InboxInit, ScanInv, ShownOnce, SettledInv
<1> QED
  BY <1>1, <1>3, TypeInit DEF InboxInv

(* Every step keeps the inductive invariant. *)
LEMMA InboxInvNext == InboxInv /\ [BroadcastNext]_messageVars => InboxInv'
<1> SUFFICES ASSUME InboxInv, [BroadcastNext]_messageVars PROVE InboxInv'
  OBVIOUS
<1>1. BroadcastTypeOK'
  BY InboxTypeNext DEF InboxInv
<1>2. CellInv' /\ OkInv' /\ CollectInv'
  BY <1>1, CellNext, OkNext, CollectNext DEF InboxInv
<1>3. ScanInv' /\ ShownOnce' /\ SettledInv'
  <2>1. CASE WatcherStep
    BY <1>1, <2>1, BeginNext, ReadNext, MissNext, PrintNext DEF WatcherStep
  <2>2. CASE UNCHANGED <<watcher, shown, settled>>
    BY <1>1, <2>2, ScanElsewhere
  <2> QED
    BY <2>1, <2>2 DEF BroadcastNext, NoPeersKnown, FanOut, Collect, InboxStep, Millisecond,
       HandlerStep, StampFile, Open, Write, Refuse, Send, ClientStep, GiveUp, GetAnswer, messageVars, inboxVars
<1> QED
  BY <1>1, <1>2, <1>3 DEF InboxInv

(* Files, answers, the broadcast and the scans as one inductive invariant. *)
THEOREM InboxInvariant == BroadcastSpec => []InboxInv
BY InboxInvInit, InboxInvNext, PTL DEF BroadcastSpec

(* Who was told that a message is stored, by a line of broadcast or by what send prints,
   has a whole message on disk, and an exit of 0 means a broadcast that reached somebody,
   whatever is lost or late and however the handlers overlap. *)
THEOREM SuccessIsDelivery == BroadcastSpec => []ExitMeansDelivered
<1>1. InboxInv => ExitMeansDelivered
  <2> SUFFICES ASSUME InboxInv PROVE ExitMeansDelivered
    OBVIOUS
  <2>1. BroadcastTypeOK /\ AnsweredIsStored
    BY DEF InboxInv, AnsweredIsStored, Told, OkInv, CellInv, CellAt, Cell
  <2>2. \A p \in targets : p \in Posts /\ p \in Broadcast
    BY BroadcastPosts DEF InboxInv, BroadcastTypeOK
  <2>3. ASSUME bcast = "done" PROVE \A p \in targets : client[p] # "waiting"
    BY <2>3 DEF InboxInv, CollectInv
  <2>4. ASSUME bcast = "done", rc = 0, targets # {}
        PROVE  \E p \in targets : ~Alone(p) \/ inbox[AddrOf(p)][FileOf(p)] = Holds(p)
    BY <2>1, <2>2, <2>4 DEF InboxInv, CollectInv, AnsweredIsStored, Told
  <2> QED
    BY <2>1, <2>3, <2>4 DEF ExitMeansDelivered
<1> QED
  BY <1>1, InboxInvariant, PTL

(* A scan shows whole every message answered before it began whose file it can read, and no
   file twice. *)
THEOREM ScansAreWhole == BroadcastSpec => []SettledIsShownWhole
<1>1. InboxInv => SettledIsShownWhole
  BY DEF InboxInv, SettledIsShownWhole, ShownOnce, SettledInv, SettledAt
<1> QED
  BY <1>1, InboxInvariant, PTL
=============================================================================
