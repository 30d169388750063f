----------------------------- MODULE MeshBroadcast -----------------------------
(* "mesh-agent broadcast" (bake/mesh-agent/client.go) on top of the inboxes: one post
   per known peer but the node itself, all at once, and an exit code from the
   answers; meanwhile "mesh-agent send" posts of the same node go their way.    *)
EXTENDS MeshInbox

CONSTANTS
  NameOf(_),   \* the name under which peers.json lists an agent
  Self         \* nodeName()

VARIABLES
  bcast,    \* "start", "collecting" or "done"
  targets,  \* the posts it has made
  rc        \* its exit code

broadcastVars == <<bcast, targets, rc>>
messageVars == <<inboxVars, broadcastVars>>

BroadcastInit == InboxInit /\ bcast = "start" /\ targets = {} /\ rc = 0

(* peers.json does not parse, or lists nobody. *)
NoPeersKnown == /\ bcast = "start" /\ bcast' = "done" /\ rc' = 1
                /\ UNCHANGED <<inboxVars, targets>>

(* A goroutine per peer listed under another name; with none there is nothing to wait for. *)
FanOut ==
  /\ bcast = "start" /\ bcast' = "collecting"
  /\ \E known \in (SUBSET Agents) \ {{}} :
       targets' = {p \in Broadcast : AddrOf(p) \in known /\ NameOf(AddrOf(p)) # Self}
  /\ client' = [p \in Posts |-> IF p \in targets' THEN "waiting" ELSE client[p]]
  /\ UNCHANGED <<now, post, stamp, inbox, watcher, shown, settled, rc>>

(* Every goroutine has reported; 1 when there were targets and no success. *)
Collect ==
  /\ bcast = "collecting" /\ \A p \in targets : client[p] \in {"ok", "err"}
  /\ bcast' = "done"
  /\ rc' = IF targets # {} /\ \A p \in targets : client[p] = "err" THEN 1 ELSE 0
  /\ UNCHANGED <<inboxVars, targets>>

InboxStep ==
  /\ \/ Millisecond \/ WatcherStep
     \/ \E p \in Posts \ Broadcast : Send(p)
     \/ \E p \in Posts : HandlerStep(p) \/ ClientStep(p)
  /\ UNCHANGED broadcastVars

BroadcastNext == NoPeersKnown \/ FanOut \/ Collect \/ InboxStep

BroadcastSpec == BroadcastInit /\ [][BroadcastNext]_messageVars

(* The watcher and the broadcast's goroutines are scheduled, and a client waits no longer
   than its time-out; it has one such step per post, so fairness of all posts together
   is fairness of each. Not every read of scan after scan fails; a file is read once, so
   that each that is tried again and again is read at last. A remote handler may stall for
   ever. *)
FairBroadcastSpec ==
  /\ BroadcastSpec
  /\ WF_messageVars(Collect)
  /\ WF_messageVars(WatcherStep /\ UNCHANGED broadcastVars)
  /\ SF_messageVars((\E f \in File : ReadOne(f)) /\ UNCHANGED broadcastVars)
  /\ WF_messageVars((\E p \in Posts : ClientStep(p)) /\ UNCHANGED broadcastVars)

-----------------------------------------------------------------------------
(* Properties. *)

(* Every variable has its type. *)
BroadcastTypeOK ==
  /\ InboxTypeOK /\ bcast \in {"start", "collecting", "done"}
  /\ targets \subseteq Broadcast /\ rc \in {0, 1}

(* No false success. A user who was told that a message is stored, by a line of broadcast
   or by the answer that send prints, finds it complete in the inbox of the agent it was
   sent to, unless another message of the same millisecond and sender took its file; of
   send's exit code nothing is said, it is 0 for a refusal too. A broadcast gives its exit
   code when the answer of every target is in, so that none of its posts is cut off by the
   end of the process; and one that exits with 0 after posting to somebody has left its
   message in an inbox: time-outs may turn a success into a failure, never a failure into
   a success. *)
ExitMeansDelivered ==
  /\ BroadcastTypeOK /\ AnsweredIsStored
  /\ bcast = "done" =>
       /\ \A p \in targets : client[p] # "waiting"
       /\ rc = 0 /\ targets # {} =>
            \E p \in targets : ~Alone(p) \/ inbox[AddrOf(p)][FileOf(p)] = Holds(p)

(* A broadcast ends whatever its peers do, and what they answered for is shown: again and
   again there is no broadcast under way and no message left to show, and of each of the
   few posts that is for good. *)
BroadcastEnds == []<>(bcast # "collecting" /\ NoneWaits)
=============================================================================
