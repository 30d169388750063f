------------------------------- MODULE MeshSlots -------------------------------
(* The slots of a mesh agent (slot.go, main.go): manifests in ~/.mesh/slots, put there by
   `mesh-agent register`, another process, or by hand, and the registry that an agent
   loads from them once, when it starts. os.WriteFile empties a file before it writes it,
   and nothing keeps a start and a registration apart.

   A manifest is the id it holds. ReadDir lists the files in the order of their names; a
   file of another extension is none of SlotFiles.                                       *)
EXTENDS Integers, Sequences, FiniteSets

CONSTANTS
  Ids,         \* slot ids that are registered or asked for
  SlotFiles,   \* the sequence of file names, in their order
  slotFilename(_),  \* two ids may have one file
  MaxInstalls  \* bound on the manifests written

Bad     == "bad"    \* no TOML, or a manifest without an id: an empty file, too
NoManifest == "missing"
FileNames == {SlotFiles[i] : i \in DOMAIN SlotFiles}

ASSUME SlotLimits == /\ SlotFiles \in Seq(STRING)
                     /\ \A id \in Ids : slotFilename(id) \in FileNames
                     /\ {Bad, NoManifest} \intersect Ids = {} /\ MaxInstalls \in Nat

VARIABLES
  manifests,   \* file -> the id it holds, Bad or NoManifest
  writing,     \* registrations between the emptying of their file and its writing
  registry,    \* phase, places of the files listed and not yet read, the registry, whether an error ended it
  touched,     \* files written since the directory was listed
  installs

slotVars == <<manifests, writing, registry, touched, installs>>

NotLoaded == [phase |-> "down", todo |-> {}, slots |-> {}, failed |-> FALSE]

\* The file at hand is the first of those that are listed and not yet read.
NextPlace == CHOOSE i \in registry.todo : \A j \in registry.todo : i <= j
AtHand    == SlotFiles[NextPlace]

SlotsInit == /\ manifests \in [FileNames -> Ids \union {Bad, NoManifest}]
             /\ writing = {} /\ registry = NotLoaded /\ touched = {} /\ installs = 0

-----------------------------------------------------------------------------
(* cmdRegister: a manifest that parses is written under the name of its id. *)
RegisterEmpties(id) ==
  /\ installs < MaxInstalls /\ installs' = installs + 1
  /\ manifests' = [manifests EXCEPT ![slotFilename(id)] = Bad]
  /\ writing' = writing \union {id} /\ touched' = touched \union {slotFilename(id)} /\ UNCHANGED registry

RegisterWrites(id) ==
  /\ id \in writing /\ writing' = writing \ {id}
  /\ manifests' = [manifests EXCEPT ![slotFilename(id)] = id]
  /\ touched' = touched \union {slotFilename(id)} /\ UNCHANGED <<registry, installs>>

-----------------------------------------------------------------------------
(* loadFromDisk, of serve: the registry is emptied and the directory listed. *)
LoadBegins ==
  /\ registry.phase = "down" /\ touched' = {}
  /\ registry' = [NotLoaded EXCEPT !.phase = "loading", !.todo = {i \in DOMAIN SlotFiles : manifests[SlotFiles[i]] # NoManifest}]
  /\ UNCHANGED <<manifests, writing, installs>>

(* A slip: what cannot be parsed ends the load as if nothing were left. *)
LoadGivesUp ==
  /\ registry.phase = "loading" /\ registry.todo # {} /\ manifests[AtHand] = Bad
  /\ registry' = [registry EXCEPT !.todo = {}] /\ UNCHANGED <<manifests, writing, touched, installs>>

(* The first manifest that cannot be parsed ends it: serve warns and goes on with what it has. *)
LoadFails ==
  /\ registry.phase = "loading" /\ registry.todo # {} /\ manifests[AtHand] = Bad
  /\ registry' = [registry EXCEPT !.phase = "serving", !.failed = TRUE]
  /\ UNCHANGED <<manifests, writing, touched, installs>>

LoadOne ==
  /\ registry.phase = "loading" /\ registry.todo # {} /\ manifests[AtHand] \in Ids
  /\ registry' = [registry EXCEPT !.slots = @ \union {manifests[AtHand]}, !.todo = @ \ {NextPlace}]
  /\ UNCHANGED <<manifests, writing, touched, installs>>

LoadEnds ==
  /\ registry.phase = "loading" /\ registry.todo = {}
  /\ registry' = [registry EXCEPT !.phase = "serving"] /\ UNCHANGED <<manifests, writing, touched, installs>>

Stops == registry.phase # "down" /\ registry' = NotLoaded /\ UNCHANGED <<manifests, writing, touched, installs>>

SlotsNext == LoadBegins \/ LoadOne \/ LoadFails \/ LoadEnds \/ Stops
               \/ \E id \in Ids : RegisterEmpties(id) \/ RegisterWrites(id)

SlotsSpec == SlotsInit /\ [][SlotsNext]_slotVars

-----------------------------------------------------------------------------
(* An agent that started without a warning serves every slot whose manifest was left alone
   since it listed the directory, whatever was registered meanwhile; one that warned serves
   those before the manifest it stopped at. *)
Untouched(f) == f \notin touched /\ manifests[f] \in Ids
SlotsAreServed ==
  registry.phase = "serving" =>
    \A i \in DOMAIN SlotFiles :
      /\ ~registry.failed /\ Untouched(SlotFiles[i]) => manifests[SlotFiles[i]] \in registry.slots
      /\ registry.failed /\ Untouched(SlotFiles[i]) /\ manifests[SlotFiles[i]] \notin registry.slots =>
           NextPlace < i
=============================================================================
