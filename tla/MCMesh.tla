-------------------------------- MODULE MCMesh --------------------------------
(* Two parts of a mesh agent that share nothing: a job with all that touch its record,
   and the inboxes with the broadcast that posts to them. One moves and the other stays
   as it was started.

   Node m broadcasts to two peers and itself while it sends to one of them.      *)
EXTENDS MeshBroadcast, MCJobLifecycle

CONSTANTS here, there, mine

BroadcastSet == {"b-here", "b-there", "b-mine"}
PostSet      == BroadcastSet \union {"send"}
From(p)      == "m"
Addr(p)      == CASE p = "b-there" -> there [] p = "b-mine" -> mine [] OTHER -> here
Name(a)      == IF a = mine THEN "m" ELSE IF a = here THEN "h" ELSE "t"

VARIABLE moving

MeshInit == moving \in {"job", "inboxes"} /\ Init /\ BroadcastInit

MeshNext ==
  /\ UNCHANGED moving
  /\ \/ moving = "job" /\ Next /\ UNCHANGED messageVars
     \/ moving = "inboxes" /\ BroadcastNext /\ UNCHANGED vars

(* The fairness of JobLifecycle's FairSpec, for the job that moves. *)
InJob(Step) == moving = "job" /\ Step

JobFairness ==
  /\ WF_vars(InJob(Publish \/ Reject)) /\ WF_vars(InJob(StartWorks \/ StartFails))
  /\ WF_vars(InJob(Abort \/ SpawnReaper \/ InvokeReply))
  /\ WF_vars(InJob(ReaperStep))
  /\ \A w \in Writers  : WF_vars(InJob(StoreStep(w)))
  /\ \A r \in Readers  : WF_vars(InJob(LoadStep(r)))
  /\ \A k \in Killers  : WF_vars(InJob(KillReply(k)))
  /\ \A w \in Watchers : WF_vars(InJob(StateEvent(w)))
  /\ \A p \in Pollers  : WF_vars(InJob(PollFinished(p) \/ PollCode(p)))

(* And that of MeshBroadcast's FairBroadcastSpec. *)
InInboxes(Step) == moving = "inboxes" /\ Step /\ UNCHANGED broadcastVars

MessageFairness ==
  /\ WF_messageVars(moving = "inboxes" /\ Collect)
  /\ WF_messageVars(InInboxes(WatcherStep))
  /\ SF_messageVars(InInboxes(\E f \in File : ReadOne(f)))
  /\ WF_messageVars(InInboxes(\E p \in Posts : ClientStep(p)))

MeshSpec == /\ MeshInit /\ [][MeshNext]_<<moving, vars, messageVars>>
            /\ JobFairness /\ MessageFairness
=============================================================================
