---------------------------- MODULE SartreKernel ----------------------------
(***************************************************************************)
(* The sartre kernel of the dario heart (vendor/dario/sartre_kernel.c):    *)
(* one global record, sys, behind a sequential interface of C functions.   *)
(* A call is an action.  Names stand for themselves (the code compares     *)
(* their first 63 bytes), loads, shares and times are left out, a file is  *)
(* its size.  Sizes of files and RAM are in units of 10^8 bytes, a count   *)
(* of parameters in units of 10^8.                                         *)
(***************************************************************************)
EXTENDS Integers, Sequences, FiniteSets

CONSTANTS
  Names,         \* names of modules, namespaces, packages and models
  KernelName,    \* the module the kernel registers for itself
  SizeOf,        \* size_kb of the package of a name
  Paths,         \* paths of model files
  FormatOf,      \* the format a path's extension announces
  FileSizes,     \* the sizes a file may have; -1 when it cannot be opened
  Ram,           \* what detect_total_ram_mb finds
  MaxEvents, MaxModules, MaxNamespaces, MaxPackages, MaxModels,
  MaxCalls       \* a bound of the model: how many calls are made

ASSUME KernelAssumption ==
  /\ KernelName \notin Names
  /\ SizeOf \in [Names -> Nat \ {0}]
  /\ FormatOf \in [Paths -> {"float32", "pt", "gguf", "not_gguf"}]
  /\ FileSizes \subseteq Nat \cup {-1}
  /\ Ram \in Nat \ {0}

ASSUME LimitsAssumption ==
  /\ MaxEvents \in Nat \ {0} /\ MaxModules \in Nat \ {0}
  /\ MaxNamespaces \in Nat /\ MaxPackages \in Nat /\ MaxModels \in Nat
  /\ MaxCalls \in Nat

VARIABLES
  ready,         \* sartre_ready
  events,        \* last_events[0 .. event_count-1]
  steps,         \* step_count
  modules,       \* modules[0 .. module_count-1]
  inner,         \* the metrics of the inner world, as one value
  overlay,       \* the overlay record
  namespaces,    \* namespaces[0 .. ns_count-1]; a namespace's id is its place
  packages,      \* packages[0 .. pkg_count-1]
  models,        \* models[0 .. model_count-1]
  tongue,        \* tongue_tier and tongue_override
  disk,          \* the size of the file at each path
  calls          \* how many calls were made

logVars == <<events, steps>>
tableVars == <<namespaces, packages>>
kernelVars == <<ready, events, steps, modules, inner, overlay, namespaces,
                packages, models, tongue, disk, calls>>

Tiers == {0, 1, 2}
Statuses == {"idle", "active", "error"}

ModuleInfo == [name : Names \cup {KernelName}, status : Statuses]
EventKinds == {"kernel_shutdown", "ns_create", "ns_destroy", "pkg_install", "pkg_remove",
               "model_register", "model_update", "model_load", "model_unload"}
Event == [no : Nat, what : EventKinds, of : Names \cup {KernelName}]
Overlay == [base : Nat, delta : Nat, writes : Nat]
Namespace == [name : Names, active : BOOLEAN]
Package == [name : Names, installed : BOOLEAN]
ModelProfile == [name : Names, path : Paths, size : Int, params : Nat,
                 runtime : Nat, fits : BOOLEAN, loaded : BOOLEAN]

----------------------------------------------------------------------------
(* What every call may use.                                                *)

\* The first entry of a table with a name; 0 when there is none.
FirstNamed(table, n) ==
  LET at == {i \in DOMAIN table : table[i].name = n}
  IN IF at = {} THEN 0 ELSE CHOOSE i \in at : \A j \in at : i <= j

\* sartre_notify_event: nothing before init or after shutdown.
Notify(what, of) ==
  LET e == [no |-> steps + 1, what |-> what, of |-> of]
  IN IF ~ready THEN UNCHANGED logVars
     ELSE /\ events' = Append(IF Len(events) < MaxEvents THEN events
                              ELSE Tail(events), e)
          /\ steps' = steps + 1

\* sartre_update_module: an unknown module is dropped when the table is full.
ModulesWith(table, n, s) ==
  LET i == FirstNamed(table, n)
      m == [name |-> n, status |-> s]
  IN IF ~ready' THEN table
     ELSE IF i # 0 THEN [table EXCEPT ![i] = m]
     ELSE IF Len(table) < MaxModules THEN Append(table, m) ELSE table

\* sartre_overlay_write.
OverlayWritten(bytes) == [overlay EXCEPT !.delta = @ + bytes, !.writes = @ + 1]

\* The tier the memory alone calls for.
RamTier == IF Ram >= 80 THEN 2 ELSE IF Ram >= 40 THEN 1 ELSE 0

\* sartre_detect_tongue_tier, with what it finds for an override o.
Detected(o) == [override |-> o, tier |-> IF o >= 0 THEN o ELSE RamTier]

----------------------------------------------------------------------------
(* Lifecycle.                                                              *)

EmptyOverlay(base) == [base |-> base, delta |-> 0, writes |-> 0]

KernelInit ==
  /\ ready = FALSE
  /\ events = <<>> /\ steps = 0 /\ inner = "zero" /\ modules = <<>>
  /\ overlay = EmptyOverlay(0)
  /\ namespaces = <<>> /\ packages = <<>> /\ models = <<>>
  /\ tongue = [override |-> 0, tier |-> 0]
  /\ disk \in [Paths -> FileSizes] /\ calls = 0

\* sartre_init: whatever was there is cleared, also when called again.
Boot ==
  /\ ready' = TRUE
  /\ events' = <<>> /\ steps' = 0 /\ inner' = "zero"
  /\ overlay' = EmptyOverlay(0)
  /\ namespaces' = <<>> /\ packages' = <<>> /\ models' = <<>>
  /\ modules' = ModulesWith(<<>>, KernelName, "active")
  /\ tongue' = Detected(-1)

\* sartre_shutdown posts its event while it still can.
Shutdown ==
  /\ ready
  /\ Notify("kernel_shutdown", KernelName)
  /\ ready' = FALSE
  /\ UNCHANGED <<modules, inner, overlay, tableVars, models, tongue>>

----------------------------------------------------------------------------
(* Metrics and modules.                                                    *)

UpdateInner(v) ==
  /\ inner' = IF ready THEN v ELSE inner
  /\ UNCHANGED <<ready, logVars, modules, overlay, tableVars, models, tongue>>

UpdateModule(n, s) ==
  /\ UNCHANGED <<ready, logVars, inner, overlay, tableVars, models, tongue>>
  /\ modules' = ModulesWith(modules, n, s)

----------------------------------------------------------------------------
(* The overlay: an immutable base and what was learned.                    *)

OverlayInit(base) ==
  /\ overlay' = EmptyOverlay(base)
  /\ UNCHANGED <<ready, logVars, modules, inner, namespaces, packages, models,
                 tongue>>

OverlayWrite(bytes) ==
  /\ overlay' = OverlayWritten(bytes)
  /\ UNCHANGED <<ready, logVars, modules, inner, tableVars, models, tongue>>

----------------------------------------------------------------------------
(* Namespaces.  Neither these calls nor the package calls ask whether the  *)
(* kernel is ready; only their events are lost when it is not.             *)

\* A slip: the place of a destroyed namespace is used again.
NsCreateReusing(n) ==
  LET dead == {i \in DOMAIN namespaces : ~namespaces[i].active}
  IN /\ dead # {} \/ Len(namespaces) < MaxNamespaces
     /\ namespaces' = IF dead = {}
                      THEN Append(namespaces, [name |-> n, active |-> TRUE])
                      ELSE [namespaces EXCEPT ![CHOOSE i \in dead : TRUE] =
                              [name |-> n, active |-> TRUE]]
     /\ Notify("ns_create", n)
     /\ UNCHANGED <<ready, modules, inner, overlay, packages, models,
                    tongue>>

NsCreate(n) ==
  /\ Len(namespaces) < MaxNamespaces
  /\ namespaces' = Append(namespaces, [name |-> n, active |-> TRUE])
  /\ Notify("ns_create", n)
  /\ UNCHANGED <<ready, modules, inner, overlay, packages, models, tongue>>

\* Destroying twice posts the event twice.
NsDestroy(id) ==
  /\ id \in DOMAIN namespaces
  /\ namespaces' = [namespaces EXCEPT ![id].active = FALSE]
  /\ Notify("ns_destroy", namespaces[id].name)
  /\ UNCHANGED <<ready, modules, inner, overlay, packages, models, tongue>>

----------------------------------------------------------------------------
(* Packages.  A name may be registered twice; the first entry is found.    *)

PkgRegister(n) ==
  /\ Len(packages) < MaxPackages
  /\ packages' = Append(packages, [name |-> n, installed |-> FALSE])
  /\ UNCHANGED <<ready, logVars, modules, inner, overlay, namespaces,
                 models, tongue>>

PkgInstall(n) ==
  LET id == FirstNamed(packages, n)
  IN /\ id # 0 /\ ~packages[id].installed
     /\ packages' = [packages EXCEPT ![id].installed = TRUE]
     /\ Notify("pkg_install", n)
     /\ overlay' = OverlayWritten(SizeOf[n])
     /\ UNCHANGED <<ready, modules, inner, namespaces, models, tongue>>

\* A slip: a removal posts the event of an install.
PkgRemoveMisnamed(n) ==
  LET id == FirstNamed(packages, n)
  IN /\ id # 0 /\ packages[id].installed
     /\ packages' = [packages EXCEPT ![id].installed = FALSE]
     /\ Notify("pkg_install", n)
     /\ UNCHANGED <<ready, modules, inner, overlay, namespaces, models,
                    tongue>>

\* The overlay keeps what the package wrote.
PkgRemove(n) ==
  LET id == FirstNamed(packages, n)
  IN /\ id # 0 /\ packages[id].installed
     /\ packages' = [packages EXCEPT ![id].installed = FALSE]
     /\ Notify("pkg_remove", n)
     /\ UNCHANGED <<ready, modules, inner, overlay, namespaces, models,
                    tongue>>

----------------------------------------------------------------------------
(* The tongue and the model registry.                                      *)

SetOverride(t) ==
  /\ tongue' = [override |-> t, tier |-> t]
  /\ UNCHANGED <<ready, logVars, modules, inner, overlay, tableVars, models>>

\* The tier is detected from the memory again, whatever models there are.
ClearOverride ==
  /\ tongue' = Detected(-1)
  /\ UNCHANGED <<ready, logVars, modules, inner, overlay, tableVars, models>>

\* sartre_detect_tongue_tier, called directly.
DetectTier ==
  /\ tongue' = Detected(tongue.override)
  /\ UNCHANGED <<ready, logVars, modules, inner, overlay, tableVars, models>>

\* detect_gguf_params: the tensors of a GGUF take about two bytes a
\* parameter, and half a gigabyte more at run time; a file that is no GGUF
\* changes nothing.
GgufProfile(p) ==
  IF FormatOf[p.path] = "gguf"
  THEN [p EXCEPT !.params = p.size \div 2, !.runtime = p.size + 5] ELSE p

\* profile_model_file on an entry p: a file that is missing or empty leaves
\* the rest of the entry as it was.
Profiled(p0) ==
  LET p == [p0 EXCEPT !.size = disk[p0.path]]
      q == CASE FormatOf[p.path] \in {"gguf", "not_gguf"} -> GgufProfile(p)
             [] FormatOf[p.path] = "float32" ->
                  [p EXCEPT !.params = p.size \div 4, !.runtime = (p.size * 12) \div 10]
             [] FormatOf[p.path] = "pt" ->
                  [p EXCEPT !.params = p.size \div 3, !.runtime = (p.size * 15) \div 10]
  IN IF p.size <= 0 THEN p ELSE [q EXCEPT !.fits = 10 * q.runtime < 8 * Ram]

\* sartre_model_best: the largest that fits, else the smallest; the first of
\* equals; 0 for no model.
BestOf(table) ==
  LET fit == {i \in DOMAIN table : table[i].fits}
  IN IF table = <<>> THEN 0
     ELSE IF fit # {}
     THEN CHOOSE i \in fit : \A j \in fit :
            \/ table[i].params > table[j].params
            \/ table[i].params = table[j].params /\ i <= j
     ELSE CHOOSE i \in DOMAIN table : \A j \in DOMAIN table :
            \/ table[i].params < table[j].params
            \/ table[i].params = table[j].params /\ i <= j

TierOf(p) == IF p.params >= 20 THEN 2 ELSE IF p.params >= 10 THEN 1 ELSE 0

\* A slip: the best model is taken before the new one is in the table.
ModelAddEarly(n, path) ==
  LET zero == [name |-> n, path |-> path, size |-> 0, params |-> 0,
               runtime |-> 0, fits |-> FALSE, loaded |-> FALSE]
      best == BestOf(models)
  IN /\ ready /\ Len(models) < MaxModels /\ FirstNamed(models, n) = 0
     /\ models' = Append(models, Profiled(zero))
     /\ Notify("model_register", n)
     /\ tongue' = IF tongue.override < 0 /\ best # 0
                  THEN [tongue EXCEPT !.tier = TierOf(models[best])] ELSE tongue
     /\ UNCHANGED <<ready, modules, inner, overlay, tableVars>>

\* sartre_model_register of a new name.
ModelAdd(n, path) ==
  LET zero == [name |-> n, path |-> path, size |-> 0, params |-> 0,
               runtime |-> 0, fits |-> FALSE, loaded |-> FALSE]
      table == Append(models, Profiled(zero))
  IN /\ ready /\ Len(models) < MaxModels /\ FirstNamed(models, n) = 0
     /\ models' = table
     /\ Notify("model_register", n)
     /\ tongue' = IF tongue.override < 0
                  THEN [tongue EXCEPT !.tier = TierOf(table[BestOf(table)])]
                  ELSE tongue
     /\ UNCHANGED <<ready, modules, inner, overlay, tableVars>>

\* sartre_model_register of a known name.  A full table refuses this too; the
\* tier does not follow.
ModelUpdate(n, path) ==
  LET i == FirstNamed(models, n)
  IN /\ ready /\ Len(models) < MaxModels /\ i # 0
     /\ models' = [models EXCEPT ![i] = Profiled([@ EXCEPT !.path = path])]
     /\ Notify("model_update", n)
     /\ UNCHANGED <<ready, modules, inner, overlay, tableVars, tongue>>

SetLoaded(n, on) ==
  LET i == FirstNamed(models, n)
  IN /\ i # 0
     /\ UNCHANGED <<ready, inner, overlay, tableVars, tongue>>
     /\ models' = [models EXCEPT ![i].loaded = on]
     /\ modules' = ModulesWith(modules, n, IF on THEN "active" ELSE "idle")
     /\ Notify(IF on THEN "model_load" ELSE "model_unload", n)

\* Another program writes or removes a model file.
FileChanges(path) ==
  /\ \E size \in FileSizes : disk' = [disk EXCEPT ![path] = size]
  /\ UNCHANGED <<ready, logVars, modules, inner, overlay, tableVars, models, tongue>>

----------------------------------------------------------------------------
PkgOrNsCall(n) ==
  \/ NsCreate(n) \/ PkgRegister(n) \/ PkgInstall(n) \/ PkgRemove(n)

ModelCall(n) ==
  \/ \E path \in Paths : ModelAdd(n, path) \/ ModelUpdate(n, path)
  \/ \E on \in BOOLEAN : SetLoaded(n, on)

Call ==
  \/ Boot \/ Shutdown
  \/ UpdateInner("set")
  \/ \E n \in Names : PkgOrNsCall(n) \/ ModelCall(n)
  \/ \E n \in Names \cup {KernelName}, s \in {"active", "error"} : UpdateModule(n, s)
  \/ \E id \in DOMAIN namespaces : NsDestroy(id)
  \/ OverlayInit(1) \/ OverlayWrite(1)
  \/ \E t \in {0, 2} : SetOverride(t)
  \/ ClearOverride \/ DetectTier

KernelNext ==
  /\ calls < MaxCalls /\ calls' = calls + 1
  /\ \/ Call /\ UNCHANGED disk
     \/ \E path \in Paths : FileChanges(path)

KernelSpec == KernelInit /\ [][KernelNext]_kernelVars

----------------------------------------------------------------------------
(* Properties.                                                             *)

\* The type invariant: every table within its limit, of entries of its type
\* (sys, sartre_kernel.h).
KernelTypeOK ==
  /\ ready \in BOOLEAN /\ steps \in Nat /\ calls \in Nat
  /\ inner \in {"zero", "set"}
  /\ events \in Seq(Event) /\ Len(events) <= MaxEvents
  /\ modules \in Seq(ModuleInfo) /\ Len(modules) <= MaxModules
  /\ overlay \in Overlay
  /\ namespaces \in Seq(Namespace) /\ Len(namespaces) <= MaxNamespaces
  /\ packages \in Seq(Package) /\ Len(packages) <= MaxPackages
  /\ models \in Seq(ModelProfile) /\ Len(models) <= MaxModels
  /\ tongue \in [override : Tiers \cup {-1}, tier : Tiers]
  /\ disk \in [Paths -> FileSizes]

\* The newest event of some kinds about a name; "none" without one.
NewestAbout(kinds, n) ==
  LET at == {i \in DOMAIN events : events[i].what \in kinds /\ events[i].of = n}
  IN IF at = {} THEN "none"
     ELSE events[CHOOSE i \in at : \A j \in at : j <= i].what

\* What sartre_state_to_json counts.
Report ==
  [installed |-> Cardinality({i \in DOMAIN packages : packages[i].installed}),
   nsActive |-> Cardinality({i \in DOMAIN namespaces : namespaces[i].active})]

\* What the kernel tells agrees with its tables.  The event ring holds the latest
\* events, in order, none twice and none missing (sartre_notify_event); while the
\* kernel is up the newest event about a package or a model says what its flag
\* says (sartre_pkg_install, sartre_pkg_remove, sartre_model_set_loaded); and the
\* report counts no package twice, although a name can be registered twice
\* (sartre_pkg_find, sartre_state_to_json).
LogTellsTables ==
  /\ KernelTypeOK
  /\ Len(events) = IF steps < MaxEvents THEN steps ELSE MaxEvents
  /\ \A i \in DOMAIN events : events[i].no = steps - Len(events) + i
  /\ ready => \A n \in Names :
       LET pkg == NewestAbout({"pkg_install", "pkg_remove"}, n)
           model == NewestAbout({"model_load", "model_unload"}, n)
       IN /\ pkg # "none" =>
               /\ FirstNamed(packages, n) # 0
               /\ packages[FirstNamed(packages, n)].installed = (pkg = "pkg_install")
          /\ model # "none" =>
               /\ FirstNamed(models, n) # 0
               /\ models[FirstNamed(models, n)].loaded = (model = "model_load")
  /\ Report.installed =
       Cardinality({packages[i].name : i \in {j \in DOMAIN packages : packages[j].installed}})

\* An override, once set, is the tier until it is cleared, whatever models are
\* registered and however often the memory is detected again; without one the
\* tier changes only to what the memory calls for, or what the best model of the
\* table, the new one included, calls for (sartre_set_tongue_override,
\* sartre_detect_tongue_tier, sartre_model_register).
TierIsJudged ==
  [][ /\ tongue'.override >= 0 => tongue'.tier = tongue'.override
      /\ tongue'.tier # tongue.tier /\ tongue'.override < 0 =>
           \/ tongue'.tier = RamTier
           \/ /\ models' # <<>>
              /\ tongue'.tier = TierOf(models'[BestOf(models')]) ]_kernelVars

Keeps(old, new) ==
  /\ Len(old) <= Len(new)
  /\ \A i \in DOMAIN old : new[i].name = old[i].name

Unique(table) ==
  \A i, j \in DOMAIN table : table[i].name = table[j].name => i = j

\* An id that was handed out means the same thing until the kernel is started
\* again: tables only grow, entries keep their names, and a destroyed namespace
\* stays destroyed; and no module and no model gets a second entry, so that an
\* update reaches the entry a lookup finds (sartre_ns_create, sartre_pkg_register,
\* sartre_model_register, sartre_update_module).
IdsAreStable ==
  [][ /\ Unique(modules') /\ Unique(models')
      /\ Boot \/ /\ Keeps(namespaces, namespaces')
                 /\ Keeps(packages, packages')
                 /\ Keeps(models, models')
                 /\ \A i \in DOMAIN namespaces :
                      ~namespaces[i].active => ~namespaces'[i].active ]_kernelVars

=============================================================================
