-------------------------------- MODULE HostProofs --------------------------------
(***************************************************************************)
(* Theorems of the two programs of the user's machine.                     *)
(*                                                                         *)
(* The sartre kernel: every table keeps its type and limit, what the event *)
(* ring and the report tell agrees with the tables, ids stay what they     *)
(* were, and the tongue's tier is judged.  The kernel looks a name up by   *)
(* its first entry, so that the proofs begin with the facts of that search.*)
(*                                                                         *)
(* The mhx terminal: a command leaves no trace but its effect, and a       *)
(* session is run and shown in the order it was given, whatever is typed,  *)
(* at a terminal or on a pipe, and whichever builtins, programs and builds *)
(* a command comes to.                                                     *)
(***************************************************************************)
EXTENDS SartreKernel, MhxTerminal, SequenceTheorems, FiniteSetTheorems, WellFoundedInduction, TLAPS

----------------------------------------------------------------------------
(* Sets of natural numbers.                                                *)

\* A set of natural numbers that is not empty has a least element.
LEMMA LeastOfNat ==
  ASSUME NEW T, T \subseteq Nat, T # {}
  PROVE  \E x \in T : \A y \in T : x <= y
<1> DEFINE Below == {1 .. x : x \in T}
<1>1. Below \subseteq FiniteSubsetsOf(Nat)
  <2>1. \A x \in T : IsFiniteSet(1 .. x) /\ 1 .. x \subseteq Nat
    BY FS_Interval
  <2> QED BY <2>1 DEF FiniteSubsetsOf
<1>2. Below # {}
  OBVIOUS
<1>3. IsWellFoundedOn(StrictSubsetOrdering(Nat), FiniteSubsetsOf(Nat))
  BY FS_StrictSubsetOrderingWellFounded
<1>4. PICK b \in Below : \A c \in Below : ~ (<<c, b>> \in StrictSubsetOrdering(Nat))
  BY <1>1, <1>2, <1>3, WFMin
<1>5. PICK x \in T : b = 1 .. x
  OBVIOUS
<1>6. ASSUME NEW y \in T PROVE x <= y
  <2>1. ~ (<<1 .. y, 1 .. x>> \in StrictSubsetOrdering(Nat))
    BY <1>4, <1>5
  <2>2. <<1 .. y, 1 .. x>> \in (SUBSET Nat) \X (SUBSET Nat)
    OBVIOUS
  <2>3. SUFFICES ASSUME y < x PROVE FALSE
    OBVIOUS
  <2>4. x \in 1 .. x /\ x \notin 1 .. y
    BY <2>3
  <2>5. 1 .. y \subseteq 1 .. x
    BY <2>3
  <2> QED BY <2>1, <2>2, <2>4, <2>5 DEF StrictSubsetOrdering
<1> QED BY <1>6

\* A set of natural numbers below a bound that is not empty has a greatest element.
LEMMA GreatestOfNat ==
  ASSUME NEW T, NEW b \in Nat, T \subseteq 0 .. b, T # {}
  PROVE  \E x \in T : \A y \in T : y <= x
<1> DEFINE Gaps == {b - x : x \in T}
<1>1. Gaps \subseteq Nat /\ Gaps # {}
  <2>1. \A x \in T : b - x \in Nat
    OBVIOUS
  <2>2. PICK x \in T : TRUE
    OBVIOUS
  <2>3. b - x \in Gaps
    OBVIOUS
  <2> QED BY <2>1, <2>3
<1>2. PICK g \in Gaps : \A h \in Gaps : g <= h
  BY <1>1, LeastOfNat
<1>3. PICK x \in T : g = b - x
  OBVIOUS
<1>4. ASSUME NEW y \in T PROVE y <= x
  <2>1. b - y \in Gaps
    OBVIOUS
  <2>2. b - x <= b - y
    BY <1>2, <1>3, <2>1
  <2>3. x \in Nat /\ y \in Nat
    OBVIOUS
  <2> QED BY <2>2, <2>3
<1> QED BY <1>4

----------------------------------------------------------------------------
(* The first entry of a name (sartre_pkg_find and the loops of             *)
(* sartre_update_module, sartre_model_register, sartre_model_set_loaded).  *)

\* FirstNamed returns 0 exactly for a name that no entry has, and else the least
\* place of an entry that has it.
LEMMA FirstNamedFinds ==
  ASSUME NEW S, NEW table \in Seq(S), NEW n
  PROVE  \/ /\ FirstNamed(table, n) = 0
            /\ \A j \in DOMAIN table : table[j].name # n
         \/ /\ FirstNamed(table, n) \in DOMAIN table
            /\ FirstNamed(table, n) \in Nat \ {0}
            /\ table[FirstNamed(table, n)].name = n
            /\ \A j \in DOMAIN table : table[j].name = n => FirstNamed(table, n) <= j
<1> DEFINE at == {i \in DOMAIN table : table[i].name = n}
<1>1. CASE at = {}
  BY <1>1 DEF FirstNamed
<1>2. CASE at # {}
  <2>1. DOMAIN table = 1 .. Len(table) /\ Len(table) \in Nat
    OBVIOUS
  <2>2. at \subseteq Nat
    BY <2>1
  <2>3. \E i \in at : \A j \in at : i <= j
    BY <1>2, <2>2, LeastOfNat
  <2>4. FirstNamed(table, n) \in at /\ \A j \in at : FirstNamed(table, n) <= j
    BY <1>2, <2>3 DEF FirstNamed
  <2> QED BY <2>1, <2>4
<1> QED BY <1>1, <1>2

\* The least place of a name is the one that FirstNamed returns.
LEMMA FirstNamedIs ==
  ASSUME NEW S, NEW table \in Seq(S), NEW i \in DOMAIN table,
         \A j \in DOMAIN table : table[j].name = table[i].name => i <= j
  PROVE  FirstNamed(table, table[i].name) = i
<1> DEFINE n == table[i].name
<1> DEFINE f == FirstNamed(table, n)
<1>1. f \in DOMAIN table /\ table[f].name = n
      /\ \A j \in DOMAIN table : table[j].name = n => f <= j
  BY FirstNamedFinds
<1>2. f <= i /\ i <= f
  BY <1>1
<1>3. f \in Nat /\ i \in Nat
  BY <1>1
<1> QED BY <1>2, <1>3

\* A table whose entries keep their names, longer or not, finds a known name where
\* it found it before.
LEMMA FirstNamedStays ==
  ASSUME NEW S, NEW old \in Seq(S), NEW new \in Seq(S), Keeps(old, new),
         NEW n, FirstNamed(old, n) # 0
  PROVE  FirstNamed(new, n) = FirstNamed(old, n)
<1> DEFINE f == FirstNamed(old, n)
<1> DEFINE g == FirstNamed(new, n)
<1>1. f \in DOMAIN old /\ f \in Nat /\ old[f].name = n
      /\ \A j \in DOMAIN old : old[j].name = n => f <= j
  BY FirstNamedFinds
<1>2. DOMAIN old = 1 .. Len(old) /\ DOMAIN new = 1 .. Len(new)
      /\ Len(old) \in Nat /\ Len(new) \in Nat /\ Len(old) <= Len(new)
  BY DEF Keeps
<1>3. f \in DOMAIN new /\ new[f].name = n
  BY <1>1, <1>2 DEF Keeps
<1>4. g \in DOMAIN new /\ g \in Nat /\ new[g].name = n
      /\ \A j \in DOMAIN new : new[j].name = n => g <= j
  BY <1>3, FirstNamedFinds
<1>5. g <= f
  BY <1>3, <1>4
<1>6. g \in DOMAIN old /\ old[g].name = n
  BY <1>1, <1>2, <1>4, <1>5 DEF Keeps
<1>7. f <= g
  BY <1>1, <1>6
<1> QED BY <1>1, <1>4, <1>5, <1>7

----------------------------------------------------------------------------
(* Types.                                                                  *)

\* What sartre_notify_event leaves in a ring that was within its limit.
Notified(ring, e) == Append(IF Len(ring) < MaxEvents THEN ring ELSE Tail(ring), e)

\* The ring after an event: the new event is the last, and the ones before it are
\* the ones that were there, the oldest left out when the ring was full.
LEMMA NotifiedRing ==
  ASSUME NEW S, NEW ring \in Seq(S), NEW e \in S, Len(ring) <= MaxEvents,
         NEW k, k = (IF Len(ring) < MaxEvents THEN 0 ELSE 1),
         NEW new, new = Notified(ring, e)
  PROVE  /\ new \in Seq(S) /\ Len(new) = Len(ring) + 1 - k /\ Len(new) <= MaxEvents
         /\ Len(new) \in Nat \ {0}
         /\ new[Len(new)] = e
         /\ \A i \in 1 .. Len(new) - 1 : i + k \in 1 .. Len(ring) /\ new[i] = ring[i + k]
<1> USE LimitsAssumption
<1>1. CASE Len(ring) < MaxEvents
  BY <1>1 DEF Notified
<1>2. CASE ~ (Len(ring) < MaxEvents)
  <2>1. Len(ring) = MaxEvents /\ ring # <<>>
    BY <1>2
  <2>2. Tail(ring) \in Seq(S) /\ Len(Tail(ring)) = MaxEvents - 1
        /\ \A i \in 1 .. MaxEvents - 1 : Tail(ring)[i] = ring[i + 1]
    BY <2>1
  <2> DEFINE rest == Tail(ring)
  <2>3. Notified(ring, e) = Append(rest, e)
    BY <1>2 DEF Notified
  <2> HIDE DEF rest
  <2>4. Append(rest, e) \in Seq(S) /\ Len(Append(rest, e)) = MaxEvents
        /\ Append(rest, e)[MaxEvents] = e
        /\ \A i \in 1 .. MaxEvents - 1 : Append(rest, e)[i] = rest[i]
    BY <2>2 DEF rest
  <2> QED BY <1>2, <2>1, <2>2, <2>3, <2>4 DEF rest
<1> QED BY <1>1, <1>2

\* The kernel's notification in terms of the ring.
LEMMA NotifyCases ==
  ASSUME NEW what, NEW of, Notify(what, of)
  PROVE  \/ ~ready /\ events' = events /\ steps' = steps
         \/ /\ ready /\ steps' = steps + 1
            /\ events' = Notified(events, [no |-> steps + 1, what |-> what, of |-> of])
BY DEF Notify, Notified, logVars

\* An event of a known name keeps the type of the ring and of the counter.
LEMMA NotifyType ==
  ASSUME KernelTypeOK, NEW what \in EventKinds, NEW of \in Names \cup {KernelName},
         Notify(what, of)
  PROVE  /\ steps' \in Nat /\ events' \in Seq(Event) /\ Len(events') <= MaxEvents
<1> DEFINE e == [no |-> steps + 1, what |-> what, of |-> of]
<1>1. e \in Event
  BY DEF KernelTypeOK, Event
<1>2. events \in Seq(Event) /\ Len(events) <= MaxEvents /\ steps \in Nat
  BY DEF KernelTypeOK
<1> HIDE DEF e
<1>3. Notified(events, e) \in Seq(Event) /\ Len(Notified(events, e)) <= MaxEvents
  BY <1>1, <1>2, NotifiedRing
<1>4. \/ events' = events /\ steps' = steps
      \/ steps' = steps + 1 /\ events' = Notified(events, e)
  BY NotifyCases DEF e
<1> QED BY <1>2, <1>3, <1>4

\* An entry written at a place of a table, or behind its end, keeps the type.
LEMMA PutType ==
  ASSUME NEW S, NEW table \in Seq(S), NEW e \in S
  PROVE  /\ Append(table, e) \in Seq(S) /\ Len(Append(table, e)) = Len(table) + 1
         /\ Len(table) \in Nat /\ DOMAIN table = 1 .. Len(table)
         /\ \A i \in DOMAIN table :
              [table EXCEPT ![i] = e] \in Seq(S) /\ Len([table EXCEPT ![i] = e]) = Len(table)
OBVIOUS

\* The table of modules keeps its type and its limit.
LEMMA ModulesType ==
  ASSUME NEW table \in Seq(ModuleInfo), Len(table) <= MaxModules,
         NEW n \in Names \cup {KernelName}, NEW s \in Statuses
  PROVE  /\ ModulesWith(table, n, s) \in Seq(ModuleInfo)
         /\ Len(ModulesWith(table, n, s)) <= MaxModules
<1> DEFINE e == [name |-> n, status |-> s]
<1> DEFINE i == FirstNamed(table, n)
<1>1. e \in ModuleInfo
  BY DEF ModuleInfo
<1>2. i = 0 \/ i \in DOMAIN table
  BY FirstNamedFinds
<1>3. CASE i # 0
  BY <1>1, <1>2, <1>3, PutType DEF ModulesWith
<1>4. CASE i = 0
  <2>1. ModulesWith(table, n, s) = IF ~ready' THEN table
           ELSE IF Len(table) < MaxModules THEN Append(table, e) ELSE table
    BY <1>4 DEF ModulesWith
  <2> HIDE DEF e
  <2> QED BY <1>1, <2>1, PutType, LimitsAssumption
<1> QED BY <1>3, <1>4

\* A profiled model is a model of the same name and path, as loaded as it was
\* (profile_model_file).
LEMMA ProfiledType ==
  ASSUME NEW p \in ModelProfile, disk \in [Paths -> FileSizes]
  PROVE  /\ Profiled(p) \in ModelProfile
         /\ Profiled(p).name = p.name
         /\ Profiled(p).loaded = p.loaded
<1> DEFINE d == [p EXCEPT !.size = disk[p.path]]
<1>1. p.path \in Paths /\ disk[p.path] \in Int
  <2>1. p.path \in Paths
    BY DEF ModelProfile
  <2>2. disk[p.path] \in FileSizes
    BY <2>1
  <2>3. FileSizes \subseteq Int
    BY KernelAssumption
  <2> QED BY <2>1, <2>2, <2>3
<1>2. d \in ModelProfile /\ d.path = p.path /\ d.name = p.name /\ d.loaded = p.loaded
      /\ d.size = disk[p.path]
  <2>1. d = [name |-> p.name, path |-> p.path, size |-> disk[p.path],
             params |-> p.params, runtime |-> p.runtime, fits |-> p.fits,
             loaded |-> p.loaded]
    BY DEF ModelProfile
  <2>2. p.name \in Names /\ p.params \in Nat /\ p.runtime \in Nat
        /\ p.fits \in BOOLEAN /\ p.loaded \in BOOLEAN
    BY DEF ModelProfile
  <2> HIDE DEF d
  <2> QED BY <1>1, <2>1, <2>2 DEF ModelProfile
<1> DEFINE q == CASE FormatOf[d.path] \in {"gguf", "not_gguf"} -> GgufProfile(d)
                  [] FormatOf[d.path] = "float32" ->
                       [d EXCEPT !.params = d.size \div 4, !.runtime = (d.size * 12) \div 10]
                  [] FormatOf[d.path] = "pt" ->
                       [d EXCEPT !.params = d.size \div 3, !.runtime = (d.size * 15) \div 10]
<1>3. Profiled(p) = IF d.size <= 0 THEN d ELSE [q EXCEPT !.fits = 10 * q.runtime < 8 * Ram]
  BY <1>2 DEF Profiled
<1>4. FormatOf[d.path] \in {"float32", "pt", "gguf", "not_gguf"}
  BY <1>2, <1>1, KernelAssumption
<1>5. ASSUME d.size > 0
      PROVE  q \in ModelProfile /\ q.name = p.name /\ q.loaded = p.loaded
  <2> HIDE DEF d
  <2>1. d.size \in Nat
    BY <1>1, <1>2, <1>5
  <2>2. d.size \div 2 \in Nat /\ d.size + 5 \in Nat /\ d.size \div 4 \in Nat
        /\ d.size \div 3 \in Nat /\ (d.size * 12) \div 10 \in Nat
        /\ (d.size * 15) \div 10 \in Nat
    BY <2>1
  <2>3. CASE FormatOf[d.path] \in {"gguf", "not_gguf"}
    BY <1>2, <2>2, <2>3 DEF GgufProfile, ModelProfile
  <2>4. CASE FormatOf[d.path] = "float32"
    BY <1>2, <2>2, <2>4 DEF ModelProfile
  <2>5. CASE FormatOf[d.path] = "pt"
    BY <1>2, <2>2, <2>5 DEF ModelProfile
  <2> QED BY <1>4, <2>3, <2>4, <2>5
<1> HIDE DEF d, q
<1>6. CASE d.size <= 0
  BY <1>2, <1>3, <1>6
<1>7. CASE d.size > 0
  <2>1. q \in ModelProfile /\ q.name = p.name /\ q.loaded = p.loaded
    BY <1>5, <1>7
  <2>2. (10 * q.runtime < 8 * Ram) \in BOOLEAN
    OBVIOUS
  <2>3. Profiled(p) = [q EXCEPT !.fits = 10 * q.runtime < 8 * Ram]
    BY <1>1, <1>2, <1>3, <1>7
  <2> QED BY <2>1, <2>2, <2>3 DEF ModelProfile
<1> QED BY <1>1, <1>2, <1>6, <1>7

\* The tiers that a detection and a model call for are tiers.
LEMMA TierTypes ==
  ASSUME TRUE
  PROVE  /\ RamTier \in Tiers
         /\ \A p : TierOf(p) \in Tiers
         /\ \A o \in Tiers \cup {-1} :
              Detected(o) \in [override : Tiers \cup {-1}, tier : Tiers]
BY DEF RamTier, TierOf, Detected, Tiers

\* The initial state has its types.
LEMMA TypeInit == KernelInit => KernelTypeOK
<1> SUFFICES ASSUME KernelInit PROVE KernelTypeOK
  OBVIOUS
<1>1. overlay \in Overlay
  BY DEF KernelInit, EmptyOverlay, Overlay
<1>2. tongue \in [override : Tiers \cup {-1}, tier : Tiers]
  BY DEF KernelInit, Tiers
<1>3. /\ events \in Seq(Event) /\ Len(events) <= MaxEvents
      /\ modules \in Seq(ModuleInfo) /\ Len(modules) <= MaxModules
      /\ namespaces \in Seq(Namespace) /\ Len(namespaces) <= MaxNamespaces
      /\ packages \in Seq(Package) /\ Len(packages) <= MaxPackages
      /\ models \in Seq(ModelProfile) /\ Len(models) <= MaxModels
  BY LimitsAssumption DEF KernelInit
<1> QED BY <1>1, <1>2, <1>3 DEF KernelInit, KernelTypeOK

\* A flag of an entry may be written without leaving the type of its table.
LEMMA FlagType ==
  ASSUME NEW b \in BOOLEAN
  PROVE  /\ packages \in Seq(Package) => \A i \in DOMAIN packages :
              /\ [packages EXCEPT ![i].installed = b] \in Seq(Package)
              /\ Len([packages EXCEPT ![i].installed = b]) = Len(packages)
         /\ namespaces \in Seq(Namespace) => \A i \in DOMAIN namespaces :
              /\ [namespaces EXCEPT ![i].active = b] \in Seq(Namespace)
              /\ Len([namespaces EXCEPT ![i].active = b]) = Len(namespaces)
         /\ models \in Seq(ModelProfile) => \A i \in DOMAIN models :
              /\ [models EXCEPT ![i].loaded = b] \in Seq(ModelProfile)
              /\ Len([models EXCEPT ![i].loaded = b]) = Len(models)
<1>1. ASSUME packages \in Seq(Package), NEW i \in DOMAIN packages
      PROVE  /\ [packages EXCEPT ![i].installed = b] \in Seq(Package)
             /\ Len([packages EXCEPT ![i].installed = b]) = Len(packages)
  <2>1. packages[i] \in Package
    BY <1>1
  <2>2. [packages[i] EXCEPT !.installed = b] \in Package
    BY <2>1 DEF Package
  <2> QED BY <1>1, <2>2
<1>2. ASSUME namespaces \in Seq(Namespace), NEW i \in DOMAIN namespaces
      PROVE  /\ [namespaces EXCEPT ![i].active = b] \in Seq(Namespace)
             /\ Len([namespaces EXCEPT ![i].active = b]) = Len(namespaces)
  <2>1. namespaces[i] \in Namespace
    BY <1>2
  <2>2. [namespaces[i] EXCEPT !.active = b] \in Namespace
    BY <2>1 DEF Namespace
  <2> QED BY <1>2, <2>2
<1>3. ASSUME models \in Seq(ModelProfile), NEW i \in DOMAIN models
      PROVE  /\ [models EXCEPT ![i].loaded = b] \in Seq(ModelProfile)
             /\ Len([models EXCEPT ![i].loaded = b]) = Len(models)
  <2>1. models[i] \in ModelProfile
    BY <1>3
  <2>2. [models[i] EXCEPT !.loaded = b] \in ModelProfile
    BY <2>1 DEF ModelProfile
  <2> QED BY <1>3, <2>2
<1> QED BY <1>1, <1>2, <1>3

\* The overlay stays an overlay, new or written to.
LEMMA OverlayType ==
  /\ \A base \in Nat : EmptyOverlay(base) \in Overlay
  /\ overlay \in Overlay => \A bytes \in Nat : OverlayWritten(bytes) \in Overlay
<1>1. \A base \in Nat : EmptyOverlay(base) \in Overlay
  BY DEF EmptyOverlay, Overlay
<1>2. ASSUME overlay \in Overlay, NEW bytes \in Nat
      PROVE  OverlayWritten(bytes) \in Overlay
  <2>1. overlay.delta \in Nat /\ overlay.writes \in Nat /\ overlay.base \in Nat
    BY <1>2 DEF Overlay
  <2>2. overlay.delta + bytes \in Nat /\ overlay.writes + 1 \in Nat
    BY <2>1
  <2> QED BY <1>2, <2>2 DEF OverlayWritten, Overlay
<1> QED BY <1>1, <1>2

\* Every call keeps the types: one step for each call.
LEMMA TypeCall ==
  ASSUME KernelTypeOK, Call, calls' = calls + 1, UNCHANGED disk
  PROVE  KernelTypeOK'
<1> USE LimitsAssumption
<1>0. /\ ready \in BOOLEAN /\ steps \in Nat /\ calls \in Nat /\ inner \in {"zero", "set"}
      /\ events \in Seq(Event) /\ Len(events) <= MaxEvents
      /\ modules \in Seq(ModuleInfo) /\ Len(modules) <= MaxModules
      /\ overlay \in Overlay
      /\ namespaces \in Seq(Namespace) /\ Len(namespaces) <= MaxNamespaces
      /\ packages \in Seq(Package) /\ Len(packages) <= MaxPackages
      /\ models \in Seq(ModelProfile) /\ Len(models) <= MaxModels
      /\ tongue \in [override : Tiers \cup {-1}, tier : Tiers]
      /\ disk \in [Paths -> FileSizes]
  BY DEF KernelTypeOK
<1>a. calls' \in Nat /\ disk' \in [Paths -> FileSizes]
  BY <1>0
<1>1. CASE Boot
  <2>1. modules' \in Seq(ModuleInfo) /\ Len(modules') <= MaxModules
    <3>1. <<>> \in Seq(ModuleInfo) /\ Len(<<>>) <= MaxModules /\ "active" \in Statuses
      BY DEF Statuses
    <3>2. modules' = ModulesWith(<<>>, KernelName, "active")
      BY <1>1 DEF Boot
    <3> QED BY <3>1, <3>2, ModulesType
  <2>2. overlay' \in Overlay
    BY <1>1 DEF Boot, EmptyOverlay, Overlay
  <2>3. tongue' \in [override : Tiers \cup {-1}, tier : Tiers]
    BY <1>1, TierTypes DEF Boot
  <2> QED BY <1>1, <1>a, <2>1, <2>2, <2>3 DEF Boot, KernelTypeOK
<1>2. CASE Shutdown
  <2>1. steps' \in Nat /\ events' \in Seq(Event) /\ Len(events') <= MaxEvents
    <3>1. Notify("kernel_shutdown", KernelName)
      BY <1>2 DEF Shutdown
    <3> QED BY <3>1, NotifyType DEF EventKinds
  <2> QED BY <1>0, <1>2, <1>a, <2>1 DEF Shutdown, tableVars, KernelTypeOK
<1>3. CASE UpdateInner("set")
  BY <1>0, <1>3, <1>a DEF UpdateInner, logVars, tableVars, KernelTypeOK
<1>4. ASSUME NEW n \in Names, NsCreate(n) PROVE KernelTypeOK'
  <2>1. steps' \in Nat /\ events' \in Seq(Event) /\ Len(events') <= MaxEvents
    <3>1. Notify("ns_create", n)
      BY <1>4 DEF NsCreate
    <3> QED BY <3>1, NotifyType DEF EventKinds
  <2>2. namespaces' \in Seq(Namespace) /\ Len(namespaces') <= MaxNamespaces
    BY <1>0, <1>4 DEF NsCreate, Namespace
  <2> QED BY <1>0, <1>4, <1>a, <2>1, <2>2 DEF NsCreate, KernelTypeOK
<1>5. ASSUME NEW n \in Names, PkgRegister(n) PROVE KernelTypeOK'
  <2>1. packages' \in Seq(Package) /\ Len(packages') <= MaxPackages
    BY <1>0, <1>5 DEF PkgRegister, Package
  <2> QED BY <1>0, <1>5, <1>a, <2>1 DEF PkgRegister, logVars, KernelTypeOK
<1>6. ASSUME NEW n \in Names, PkgInstall(n) PROVE KernelTypeOK'
  <2>1. steps' \in Nat /\ events' \in Seq(Event) /\ Len(events') <= MaxEvents
    <3>1. Notify("pkg_install", n)
      BY <1>6 DEF PkgInstall
    <3> QED BY <3>1, NotifyType DEF EventKinds
  <2>2. FirstNamed(packages, n) \in DOMAIN packages
    BY <1>0, <1>6, FirstNamedFinds DEF PkgInstall
  <2>3. packages' \in Seq(Package) /\ Len(packages') = Len(packages)
    <3>1. packages' = [packages EXCEPT ![FirstNamed(packages, n)].installed = TRUE]
      BY <1>6 DEF PkgInstall
    <3>2. TRUE \in BOOLEAN /\ FirstNamed(packages, n) \in DOMAIN packages /\ packages \in Seq(Package)
      BY <1>0, <2>2
    <3> QED BY <3>1, <3>2, FlagType
  <2>4. overlay' \in Overlay
    <3>1. SizeOf[n] \in Nat
      BY KernelAssumption
    <3> QED BY <1>0, <1>6, <3>1, OverlayType DEF PkgInstall
  <2> QED BY <1>0, <1>6, <1>a, <2>1, <2>3, <2>4 DEF PkgInstall, KernelTypeOK
<1>7. ASSUME NEW n \in Names, PkgRemove(n) PROVE KernelTypeOK'
  <2>1. steps' \in Nat /\ events' \in Seq(Event) /\ Len(events') <= MaxEvents
    <3>1. Notify("pkg_remove", n)
      BY <1>7 DEF PkgRemove
    <3> QED BY <3>1, NotifyType DEF EventKinds
  <2>2. FirstNamed(packages, n) \in DOMAIN packages
    BY <1>0, <1>7, FirstNamedFinds DEF PkgRemove
  <2>3. packages' \in Seq(Package) /\ Len(packages') = Len(packages)
    <3>1. packages' = [packages EXCEPT ![FirstNamed(packages, n)].installed = FALSE]
      BY <1>7 DEF PkgRemove
    <3>2. FALSE \in BOOLEAN /\ FirstNamed(packages, n) \in DOMAIN packages /\ packages \in Seq(Package)
      BY <1>0, <2>2
    <3> QED BY <3>1, <3>2, FlagType
  <2> QED BY <1>0, <1>7, <1>a, <2>1, <2>3 DEF PkgRemove, KernelTypeOK
<1>8. ASSUME NEW n \in Names, NEW path \in Paths, ModelAdd(n, path) PROVE KernelTypeOK'
  <2> DEFINE zero == [name |-> n, path |-> path, size |-> 0, params |-> 0,
                      runtime |-> 0, fits |-> FALSE, loaded |-> FALSE]
  <2>1. steps' \in Nat /\ events' \in Seq(Event) /\ Len(events') <= MaxEvents
    <3>1. Notify("model_register", n)
      BY <1>8 DEF ModelAdd
    <3> QED BY <3>1, NotifyType DEF EventKinds
  <2>2. zero \in ModelProfile
    BY DEF ModelProfile
  <2>3. Profiled(zero) \in ModelProfile
    BY <1>0, <2>2, ProfiledType
  <2>4. models' \in Seq(ModelProfile) /\ Len(models') <= MaxModels
    BY <1>0, <1>8, <2>3 DEF ModelAdd
  <2>5. tongue' \in [override : Tiers \cup {-1}, tier : Tiers]
    BY <1>0, <1>8, TierTypes DEF ModelAdd
  <2> QED BY <1>0, <1>8, <1>a, <2>1, <2>4, <2>5 DEF ModelAdd, tableVars, KernelTypeOK
<1>9. ASSUME NEW n \in Names, NEW path \in Paths, ModelUpdate(n, path) PROVE KernelTypeOK'
  <2> DEFINE i == FirstNamed(models, n)
  <2>1. steps' \in Nat /\ events' \in Seq(Event) /\ Len(events') <= MaxEvents
    <3>1. Notify("model_update", n)
      BY <1>9 DEF ModelUpdate
    <3> QED BY <3>1, NotifyType DEF EventKinds
  <2>2. i \in DOMAIN models
    BY <1>0, <1>9, FirstNamedFinds DEF ModelUpdate
  <2>3. models[i] \in ModelProfile
    BY <1>0, <2>2
  <2>4. [models[i] EXCEPT !.path = path] \in ModelProfile
    BY <2>3 DEF ModelProfile
  <2>5. Profiled([models[i] EXCEPT !.path = path]) \in ModelProfile
    BY <1>0, <2>4, ProfiledType
  <2>6. models' = [models EXCEPT ![i] = Profiled([models[i] EXCEPT !.path = path])]
    BY <1>9 DEF ModelUpdate
  <2>7. models' \in Seq(ModelProfile) /\ Len(models') = Len(models)
    BY <1>0, <2>2, <2>5, <2>6, PutType
  <2> QED BY <1>0, <1>9, <1>a, <2>1, <2>7 DEF ModelUpdate, tableVars, KernelTypeOK
<1>10. ASSUME NEW n \in Names, NEW on \in BOOLEAN, SetLoaded(n, on) PROVE KernelTypeOK'
  <2>1. steps' \in Nat /\ events' \in Seq(Event) /\ Len(events') <= MaxEvents
    <3>1. Notify(IF on THEN "model_load" ELSE "model_unload", n)
      BY <1>10 DEF SetLoaded
    <3> QED BY <3>1, NotifyType DEF EventKinds
  <2>2. FirstNamed(models, n) \in DOMAIN models
    BY <1>0, <1>10, FirstNamedFinds DEF SetLoaded
  <2>3. models' \in Seq(ModelProfile) /\ Len(models') = Len(models)
    <3>1. models' = [models EXCEPT ![FirstNamed(models, n)].loaded = on]
      BY <1>10 DEF SetLoaded
    <3>2. on \in BOOLEAN /\ FirstNamed(models, n) \in DOMAIN models /\ models \in Seq(ModelProfile)
      BY <1>0, <2>2
    <3> QED BY <3>1, <3>2, FlagType
  <2>4. modules' \in Seq(ModuleInfo) /\ Len(modules') <= MaxModules
    BY <1>0, <1>10, ModulesType DEF SetLoaded, Statuses
  <2> QED BY <1>0, <1>10, <1>a, <2>1, <2>3, <2>4 DEF SetLoaded, tableVars, KernelTypeOK
<1>11. ASSUME NEW n \in Names \cup {KernelName}, NEW s \in {"active", "error"},
              UpdateModule(n, s)
       PROVE  KernelTypeOK'
  <2>1. modules' \in Seq(ModuleInfo) /\ Len(modules') <= MaxModules
    BY <1>0, <1>11, ModulesType DEF UpdateModule, Statuses
  <2> QED BY <1>0, <1>11, <1>a, <2>1 DEF UpdateModule, logVars, tableVars, KernelTypeOK
<1>12. ASSUME NEW id \in DOMAIN namespaces, NsDestroy(id) PROVE KernelTypeOK'
  <2>1. namespaces[id].name \in Names
    <3>1. namespaces[id] \in Namespace
      BY <1>0, <1>12
    <3> QED BY <3>1 DEF Namespace
  <2>2. steps' \in Nat /\ events' \in Seq(Event) /\ Len(events') <= MaxEvents
    <3>1. Notify("ns_destroy", namespaces[id].name)
      BY <1>12 DEF NsDestroy
    <3> QED BY <3>1, <2>1, NotifyType DEF EventKinds
  <2>3. namespaces' \in Seq(Namespace) /\ Len(namespaces') = Len(namespaces)
    <3>1. namespaces' = [namespaces EXCEPT ![id].active = FALSE]
      BY <1>12 DEF NsDestroy
    <3>2. FALSE \in BOOLEAN /\ id \in DOMAIN namespaces /\ namespaces \in Seq(Namespace)
      BY <1>0, <1>12
    <3> QED BY <3>1, <3>2, FlagType
  <2> QED BY <1>0, <1>12, <1>a, <2>2, <2>3 DEF NsDestroy, KernelTypeOK
<1>13. CASE OverlayInit(1) \/ OverlayWrite(1)
  <2>1. overlay' \in Overlay
    BY <1>0, <1>13, OverlayType DEF OverlayInit, OverlayWrite
  <2> QED BY <1>0, <1>13, <1>a, <2>1
          DEF OverlayInit, OverlayWrite, logVars, tableVars, KernelTypeOK
<1>14. ASSUME NEW t \in {0, 2}, SetOverride(t) PROVE KernelTypeOK'
  <2>1. tongue' \in [override : Tiers \cup {-1}, tier : Tiers]
    BY <1>14 DEF SetOverride, Tiers
  <2> QED BY <1>0, <1>14, <1>a, <2>1 DEF SetOverride, logVars, tableVars, KernelTypeOK
<1>15. CASE ClearOverride \/ DetectTier
  <2>1. tongue' \in [override : Tiers \cup {-1}, tier : Tiers]
    BY <1>0, <1>15, TierTypes DEF ClearOverride, DetectTier
  <2> QED BY <1>0, <1>15, <1>a, <2>1
          DEF ClearOverride, DetectTier, logVars, tableVars, KernelTypeOK
<1> QED BY <1>1, <1>2, <1>3, <1>4, <1>5, <1>6, <1>7, <1>8, <1>9, <1>10, <1>11, <1>12,
           <1>13, <1>14, <1>15 DEF Call, PkgOrNsCall, ModelCall

\* Every step keeps the types, that of another program on the disk included.
LEMMA TypeNext == KernelTypeOK /\ [KernelNext]_kernelVars => KernelTypeOK'
<1> SUFFICES ASSUME KernelTypeOK, [KernelNext]_kernelVars PROVE KernelTypeOK'
  OBVIOUS
<1>1. CASE KernelNext /\ Call /\ UNCHANGED disk
  BY <1>1, TypeCall DEF KernelNext
<1>2. ASSUME KernelNext, NEW path \in Paths, FileChanges(path) PROVE KernelTypeOK'
  <2>1. disk' \in [Paths -> FileSizes] /\ calls' \in Nat
    BY <1>2 DEF FileChanges, KernelNext, KernelTypeOK
  <2> QED BY <1>2, <2>1 DEF FileChanges, logVars, tableVars, KernelTypeOK
<1>3. CASE UNCHANGED kernelVars
  BY <1>3 DEF kernelVars, KernelTypeOK
<1> QED BY <1>1, <1>2, <1>3 DEF KernelNext

\* Every table of the kernel stays within its limit and holds entries of its type.
THEOREM KernelTypeCorrect == KernelSpec => []KernelTypeOK
BY TypeInit, TypeNext, PTL DEF KernelSpec

----------------------------------------------------------------------------
(* Tables that grow and keep their names.                                  *)

\* An entry overwritten by one of the same name: the table keeps its names, and as
\* many entries of each name as it had.
LEMMA PutKeeps ==
  ASSUME NEW S, NEW table \in Seq(S), NEW i \in DOMAIN table, NEW e \in S,
         e.name = table[i].name
  PROVE  /\ Keeps(table, [table EXCEPT ![i] = e])
         /\ Unique(table) => Unique([table EXCEPT ![i] = e])
         /\ \A n : FirstNamed([table EXCEPT ![i] = e], n) = FirstNamed(table, n)
<1> DEFINE new == [table EXCEPT ![i] = e]
<1>1. /\ new \in Seq(S) /\ Len(new) = Len(table) /\ DOMAIN new = DOMAIN table
      /\ \A j \in DOMAIN table : new[j] = IF j = i THEN e ELSE table[j]
  OBVIOUS
<1> HIDE DEF new
<1>2. \A j \in DOMAIN table : new[j].name = table[j].name
  BY <1>1
<1>3. Keeps(table, new)
  BY <1>1, <1>2 DEF Keeps
<1>4. Unique(table) => Unique(new)
  BY <1>1, <1>2 DEF Unique
<1>5. ASSUME NEW n PROVE FirstNamed(new, n) = FirstNamed(table, n)
  <2>1. CASE FirstNamed(table, n) # 0
    BY <1>1, <1>3, <2>1, FirstNamedStays
  <2>2. CASE FirstNamed(table, n) = 0
    <3>1. \A j \in DOMAIN table : table[j].name # n
      BY <2>2, FirstNamedFinds
    <3>2. \A j \in DOMAIN new : new[j].name # n
      BY <1>1, <1>2, <3>1
    <3> QED BY <1>1, <2>2, <3>2, FirstNamedFinds
  <2> QED BY <2>1, <2>2
<1> QED BY <1>3, <1>4, <1>5 DEF new

\* An entry behind the end: the table keeps what it had, and stays without a second
\* entry of a name when the new name was not found in it.
LEMMA AppendKeeps ==
  ASSUME NEW S, NEW table \in Seq(S), NEW e \in S
  PROVE  /\ Keeps(table, Append(table, e))
         /\ Unique(table) /\ FirstNamed(table, e.name) = 0 => Unique(Append(table, e))
         /\ \A n : FirstNamed(table, n) # 0 =>
              FirstNamed(Append(table, e), n) = FirstNamed(table, n)
<1> DEFINE new == Append(table, e)
<1>1. /\ new \in Seq(S) /\ Len(new) = Len(table) + 1 /\ Len(table) \in Nat
      /\ DOMAIN table = 1 .. Len(table) /\ DOMAIN new = 1 .. Len(table) + 1
      /\ new[Len(table) + 1] = e
      /\ \A j \in DOMAIN table : new[j] = table[j]
  OBVIOUS
<1> HIDE DEF new
<1>2. Keeps(table, new)
  BY <1>1 DEF Keeps
<1>3. ASSUME Unique(table), FirstNamed(table, e.name) = 0 PROVE Unique(new)
  <2>1. \A j \in DOMAIN table : table[j].name # e.name
    BY <1>3, FirstNamedFinds
  <2>2. SUFFICES ASSUME NEW a \in DOMAIN new, NEW b \in DOMAIN new, new[a].name = new[b].name
                 PROVE  a = b
    BY DEF Unique
  <2>3. \A j \in DOMAIN new : j \in DOMAIN table \/ j = Len(table) + 1
    BY <1>1
  <2> QED BY <1>1, <1>3, <2>1, <2>2, <2>3 DEF Unique
<1>4. \A n : FirstNamed(table, n) # 0 => FirstNamed(new, n) = FirstNamed(table, n)
  BY <1>1, <1>2, FirstNamedStays
<1> QED BY <1>2, <1>3, <1>4 DEF new

\* A table without second entries stays one when a module is updated.
LEMMA ModulesUnique ==
  ASSUME NEW table \in Seq(ModuleInfo), Unique(table),
         NEW n \in Names \cup {KernelName}, NEW s \in Statuses
  PROVE  Unique(ModulesWith(table, n, s))
<1> DEFINE e == [name |-> n, status |-> s]
<1> DEFINE i == FirstNamed(table, n)
<1>1. e \in ModuleInfo /\ e.name = n
  BY DEF ModuleInfo
<1>2. \/ ModulesWith(table, n, s) = table
      \/ i # 0 /\ ModulesWith(table, n, s) = [table EXCEPT ![i] = e]
      \/ i = 0 /\ ModulesWith(table, n, s) = Append(table, e)
  BY DEF ModulesWith
<1>3. i # 0 => i \in DOMAIN table /\ table[i].name = n
  BY FirstNamedFinds
<1> HIDE DEF e, i
<1>4. CASE i # 0
  <2>1. Unique([table EXCEPT ![i] = e])
    BY <1>1, <1>3, <1>4, PutKeeps
  <2> QED BY <1>2, <1>4, <2>1
<1>5. CASE i = 0
  <2>1. Unique(Append(table, e))
    BY <1>1, <1>5, AppendKeeps DEF i
  <2> QED BY <1>2, <1>5, <2>1
<1> QED BY <1>4, <1>5

----------------------------------------------------------------------------
(* Ids.                                                                    *)

\* No module and no model has a second entry.
UniqueInv == Unique(modules) /\ Unique(models)

\* The three tables of ids grew or stayed, and no destroyed namespace woke up.
TablesGrow ==
  /\ Keeps(namespaces, namespaces') /\ Keeps(packages, packages') /\ Keeps(models, models')
  /\ \A i \in DOMAIN namespaces : ~namespaces[i].active => ~namespaces'[i].active

\* A table that is left alone keeps its entries.
LEMMA SameKeeps == ASSUME NEW S, NEW table \in Seq(S) PROVE Keeps(table, table)
BY DEF Keeps

\* An entry that is told to be active, installed or loaded keeps its name.
LEMMA FlagKeeps ==
  ASSUME KernelTypeOK, NEW b \in BOOLEAN
  PROVE  /\ \A i \in DOMAIN packages : Keeps(packages, [packages EXCEPT ![i].installed = b])
         /\ \A i \in DOMAIN namespaces : Keeps(namespaces, [namespaces EXCEPT ![i].active = b])
         /\ \A i \in DOMAIN models :
              /\ Keeps(models, [models EXCEPT ![i].loaded = b])
              /\ Unique(models) => Unique([models EXCEPT ![i].loaded = b])
<1>0. /\ namespaces \in Seq(Namespace) /\ packages \in Seq(Package)
      /\ models \in Seq(ModelProfile)
  BY DEF KernelTypeOK
<1>1. ASSUME NEW i \in DOMAIN packages
      PROVE  Keeps(packages, [packages EXCEPT ![i].installed = b])
  <2> DEFINE e == [packages[i] EXCEPT !.installed = b]
  <2>1. packages[i] \in Package
    BY <1>0
  <2>2. e \in Package /\ e.name = packages[i].name
    BY <2>1 DEF Package
  <2>3. [packages EXCEPT ![i].installed = b] = [packages EXCEPT ![i] = e]
    OBVIOUS
  <2> HIDE DEF e
  <2>4. Keeps(packages, [packages EXCEPT ![i] = e])
    BY <1>0, <2>2, PutKeeps
  <2> QED BY <2>3, <2>4
<1>2. ASSUME NEW i \in DOMAIN namespaces
      PROVE  Keeps(namespaces, [namespaces EXCEPT ![i].active = b])
  <2> DEFINE e == [namespaces[i] EXCEPT !.active = b]
  <2>1. namespaces[i] \in Namespace
    BY <1>0
  <2>2. e \in Namespace /\ e.name = namespaces[i].name
    BY <2>1 DEF Namespace
  <2>3. [namespaces EXCEPT ![i].active = b] = [namespaces EXCEPT ![i] = e]
    OBVIOUS
  <2> HIDE DEF e
  <2>4. Keeps(namespaces, [namespaces EXCEPT ![i] = e])
    BY <1>0, <2>2, PutKeeps
  <2> QED BY <2>3, <2>4
<1>3. ASSUME NEW i \in DOMAIN models
      PROVE  /\ Keeps(models, [models EXCEPT ![i].loaded = b])
             /\ Unique(models) => Unique([models EXCEPT ![i].loaded = b])
  <2> DEFINE e == [models[i] EXCEPT !.loaded = b]
  <2>1. models[i] \in ModelProfile
    BY <1>0
  <2>2. e \in ModelProfile /\ e.name = models[i].name
    BY <2>1 DEF ModelProfile
  <2>3. [models EXCEPT ![i].loaded = b] = [models EXCEPT ![i] = e]
    OBVIOUS
  <2> HIDE DEF e
  <2>4. /\ Keeps(models, [models EXCEPT ![i] = e])
        /\ Unique(models) => Unique([models EXCEPT ![i] = e])
    BY <1>0, <2>2, PutKeeps
  <2> QED BY <2>3, <2>4
<1> QED BY <1>1, <1>2, <1>3

\* Every call keeps the entries unique, and but for a boot it keeps the ids.
LEMMA GrowCall ==
  ASSUME KernelTypeOK, UniqueInv, Call
  PROVE  UniqueInv' /\ (Boot \/ TablesGrow)
<1>0. /\ namespaces \in Seq(Namespace) /\ packages \in Seq(Package)
      /\ models \in Seq(ModelProfile) /\ modules \in Seq(ModuleInfo)
      /\ disk \in [Paths -> FileSizes] /\ Unique(modules) /\ Unique(models)
  BY DEF KernelTypeOK, UniqueInv
<1>a. namespaces' = namespaces =>
        /\ Keeps(namespaces, namespaces')
        /\ \A i \in DOMAIN namespaces : ~namespaces[i].active => ~namespaces'[i].active
  BY <1>0, SameKeeps
<1>b. packages' = packages => Keeps(packages, packages')
  BY <1>0, SameKeeps
<1>c. models' = models => Keeps(models, models') /\ Unique(models')
  BY <1>0, SameKeeps
<1>d. modules' = modules => Unique(modules')
  BY <1>0
<1>e. Keeps(models, models') /\ Unique(models') /\ Unique(modules') /\ tableVars' = tableVars
        => UniqueInv' /\ TablesGrow
  BY <1>a, <1>b DEF UniqueInv, TablesGrow, tableVars
<1>1. CASE Boot
  <2>1. <<>> \in Seq(ModuleInfo) /\ Unique(<<>>) /\ "active" \in Statuses
    BY DEF Unique, Statuses
  <2>2. Unique(modules')
    BY <1>1, <2>1, ModulesUnique DEF Boot
  <2> QED BY <1>1, <2>1, <2>2 DEF Boot, UniqueInv
<1>2. CASE Shutdown
  BY <1>2, <1>c, <1>d, <1>e DEF Shutdown
<1>3. CASE UpdateInner("set")
  BY <1>3, <1>c, <1>d, <1>e DEF UpdateInner
<1>4. ASSUME NEW n \in Names, NsCreate(n) PROVE UniqueInv' /\ TablesGrow
  <2> DEFINE e == [name |-> n, active |-> TRUE]
  <2>1. e \in Namespace /\ namespaces' = Append(namespaces, e)
    BY <1>4 DEF NsCreate, Namespace
  <2> HIDE DEF e
  <2>2. Keeps(namespaces, namespaces')
    BY <1>0, <2>1, AppendKeeps
  <2>3. \A i \in DOMAIN namespaces : namespaces'[i] = namespaces[i]
    BY <1>0, <2>1
  <2>4. packages' = packages /\ models' = models /\ modules' = modules
    BY <1>4 DEF NsCreate
  <2> QED BY <2>2, <2>3, <2>4, <1>b, <1>c, <1>d DEF UniqueInv, TablesGrow
<1>5. ASSUME NEW n \in Names, PkgRegister(n) PROVE UniqueInv' /\ TablesGrow
  <2> DEFINE e == [name |-> n, installed |-> FALSE]
  <2>1. e \in Package /\ packages' = Append(packages, e)
    BY <1>5 DEF PkgRegister, Package
  <2> HIDE DEF e
  <2>2. Keeps(packages, packages')
    BY <1>0, <2>1, AppendKeeps
  <2>3. namespaces' = namespaces /\ models' = models /\ modules' = modules
    BY <1>5 DEF PkgRegister
  <2> QED BY <2>2, <2>3, <1>a, <1>c, <1>d DEF UniqueInv, TablesGrow
<1>6. ASSUME NEW n \in Names, PkgInstall(n) \/ PkgRemove(n) PROVE UniqueInv' /\ TablesGrow
  <2> DEFINE id == FirstNamed(packages, n)
  <2>1. id \in DOMAIN packages
    BY <1>0, <1>6, FirstNamedFinds DEF PkgInstall, PkgRemove
  <2>2. \E b \in BOOLEAN : packages' = [packages EXCEPT ![id].installed = b]
    BY <1>6 DEF PkgInstall, PkgRemove
  <2> HIDE DEF id
  <2>3. Keeps(packages, packages')
    BY <2>1, <2>2, FlagKeeps
  <2>4. namespaces' = namespaces /\ models' = models /\ modules' = modules
    BY <1>6 DEF PkgInstall, PkgRemove
  <2> QED BY <2>3, <2>4, <1>a, <1>c, <1>d DEF UniqueInv, TablesGrow
<1>7. ASSUME NEW n \in Names, NEW path \in Paths, ModelAdd(n, path)
      PROVE  UniqueInv' /\ TablesGrow
  <2> DEFINE zero == [name |-> n, path |-> path, size |-> 0, params |-> 0,
                      runtime |-> 0, fits |-> FALSE, loaded |-> FALSE]
  <2>1. zero \in ModelProfile /\ zero.name = n
    BY DEF ModelProfile
  <2> DEFINE e == Profiled(zero)
  <2>2. models' = Append(models, e) /\ FirstNamed(models, n) = 0
    BY <1>7 DEF ModelAdd
  <2> HIDE DEF zero
  <2>3. e \in ModelProfile /\ e.name = n
    BY <1>0, <2>1, ProfiledType
  <2> HIDE DEF e
  <2>4. Keeps(models, models') /\ Unique(models')
    BY <1>0, <2>2, <2>3, AppendKeeps
  <2> QED BY <1>7, <2>4, <1>d, <1>e DEF ModelAdd
<1>8. ASSUME NEW n \in Names, NEW path \in Paths, ModelUpdate(n, path)
      PROVE  UniqueInv' /\ TablesGrow
  <2> DEFINE i == FirstNamed(models, n)
  <2> DEFINE p == [models[i] EXCEPT !.path = path]
  <2> DEFINE e == Profiled(p)
  <2>1. models' = [models EXCEPT ![i] = e]
    BY <1>8 DEF ModelUpdate
  <2>2. i \in DOMAIN models
    BY <1>0, <1>8, FirstNamedFinds DEF ModelUpdate
  <2> HIDE DEF i
  <2>3. models[i] \in ModelProfile
    BY <1>0, <2>2
  <2>4. p \in ModelProfile /\ p.name = models[i].name
    BY <2>3 DEF ModelProfile
  <2> HIDE DEF p
  <2>5. e \in ModelProfile /\ e.name = models[i].name
    BY <1>0, <2>4, ProfiledType
  <2> HIDE DEF e
  <2>6. Keeps(models, models') /\ Unique(models')
    BY <1>0, <2>1, <2>2, <2>5, PutKeeps
  <2> QED BY <1>8, <2>6, <1>d, <1>e DEF ModelUpdate
<1>9. ASSUME NEW n \in Names, NEW on \in BOOLEAN, SetLoaded(n, on)
      PROVE  UniqueInv' /\ TablesGrow
  <2> DEFINE i == FirstNamed(models, n)
  <2>1. models' = [models EXCEPT ![i].loaded = on]
    BY <1>9 DEF SetLoaded
  <2>2. i \in DOMAIN models
    BY <1>0, <1>9, FirstNamedFinds DEF SetLoaded
  <2> HIDE DEF i
  <2>3. Keeps(models, models') /\ Unique(models')
    BY <1>0, <2>1, <2>2, FlagKeeps
  <2>4. modules' = ModulesWith(modules, n, IF on THEN "active" ELSE "idle")
        /\ tableVars' = tableVars
    BY <1>9 DEF SetLoaded
  <2>5. Unique(modules')
    BY <1>0, <2>4, ModulesUnique DEF Statuses
  <2> QED BY <2>3, <2>4, <2>5, <1>e
<1>10. ASSUME NEW n \in Names \cup {KernelName}, NEW s \in {"active", "error"},
              UpdateModule(n, s)
       PROVE  UniqueInv' /\ TablesGrow
  <2>1. modules' = ModulesWith(modules, n, s) /\ tableVars' = tableVars /\ models' = models
    BY <1>10 DEF UpdateModule
  <2>2. Unique(modules')
    BY <1>0, <2>1, ModulesUnique DEF Statuses
  <2> QED BY <2>1, <2>2, <1>c, <1>e
<1>11. ASSUME NEW id \in DOMAIN namespaces, NsDestroy(id) PROVE UniqueInv' /\ TablesGrow
  <2>1. namespaces' = [namespaces EXCEPT ![id].active = FALSE]
        /\ packages' = packages /\ models' = models /\ modules' = modules
    BY <1>11 DEF NsDestroy
  <2>2. Keeps(namespaces, namespaces')
    BY <2>1, FlagKeeps
  <2>3. \A i \in DOMAIN namespaces : ~namespaces[i].active => ~namespaces'[i].active
    <3>1. namespaces[id] \in Namespace
      BY <1>0
    <3>2. ~namespaces'[id].active
      BY <2>1, <3>1 DEF Namespace
    <3>3. \A i \in DOMAIN namespaces : i # id => namespaces'[i] = namespaces[i]
      BY <2>1
    <3> QED BY <3>2, <3>3
  <2> QED BY <2>1, <2>2, <2>3, <1>b, <1>c, <1>d DEF UniqueInv, TablesGrow
<1>12. CASE OverlayInit(1) \/ OverlayWrite(1)
  BY <1>12, <1>c, <1>d, <1>e DEF OverlayInit, OverlayWrite, tableVars
<1>13. ASSUME NEW t \in {0, 2}, SetOverride(t) PROVE UniqueInv' /\ TablesGrow
  BY <1>13, <1>c, <1>d, <1>e DEF SetOverride
<1>14. CASE ClearOverride \/ DetectTier
  BY <1>14, <1>c, <1>d, <1>e DEF ClearOverride, DetectTier
<1> QED BY <1>1, <1>2, <1>3, <1>4, <1>5, <1>6, <1>7, <1>8, <1>9, <1>10, <1>11, <1>12,
           <1>13, <1>14 DEF Call, PkgOrNsCall, ModelCall

\* A step, or none, keeps the entries unique and, but for a boot, the ids.
LEMMA GrowNext ==
  ASSUME KernelTypeOK, UniqueInv, [KernelNext]_kernelVars
  PROVE  UniqueInv' /\ (Boot \/ TablesGrow)
<1>1. CASE KernelNext /\ Call
  BY <1>1, GrowCall
<1>2. ASSUME namespaces' = namespaces, packages' = packages, models' = models,
             modules' = modules
      PROVE  UniqueInv' /\ TablesGrow
  BY <1>2, SameKeeps DEF KernelTypeOK, UniqueInv, TablesGrow
<1>3. CASE \E path \in Paths : FileChanges(path)
  BY <1>2, <1>3 DEF FileChanges, tableVars
<1>4. CASE UNCHANGED kernelVars
  BY <1>2, <1>4 DEF kernelVars
<1> QED BY <1>1, <1>3, <1>4 DEF KernelNext

\* An id that was handed out means the same entry until the kernel is started again,
\* and no module and no model gets a second entry.
THEOREM StableIds == KernelSpec => IdsAreStable
<1>1. KernelInit => UniqueInv
  BY DEF KernelInit, UniqueInv, Unique
<1>2. KernelTypeOK /\ UniqueInv /\ [KernelNext]_kernelVars =>
        UniqueInv' /\ (Boot \/ TablesGrow)
  BY GrowNext
<1>3. KernelTypeOK /\ UniqueInv /\ [KernelNext]_kernelVars =>
        [ /\ Unique(modules') /\ Unique(models')
          /\ Boot \/ /\ Keeps(namespaces, namespaces')
                     /\ Keeps(packages, packages')
                     /\ Keeps(models, models')
                     /\ \A i \in DOMAIN namespaces :
                          ~namespaces[i].active => ~namespaces'[i].active ]_kernelVars
  BY <1>2 DEF UniqueInv, TablesGrow
<1> QED BY <1>1, <1>2, <1>3, TypeInit, TypeNext, PTL DEF KernelSpec, IdsAreStable

----------------------------------------------------------------------------
(* The tongue.                                                             *)

\* An override is the tier.
TongueInv == tongue.override >= 0 => tongue.tier = tongue.override

\* What TierIsJudged says of a step.
Judged ==
  /\ tongue'.override >= 0 => tongue'.tier = tongue'.override
  /\ tongue'.tier # tongue.tier /\ tongue'.override < 0 =>
       \/ tongue'.tier = RamTier
       \/ /\ models' # <<>>
          /\ tongue'.tier = TierOf(models'[BestOf(models')])

\* What a detection finds obeys the override, and without one the memory.
LEMMA DetectedIsJudged ==
  ASSUME NEW o \in Tiers \cup {-1}
  PROVE  /\ Detected(o).override = o
         /\ o >= 0 => Detected(o).tier = o
         /\ o < 0 => Detected(o).tier = RamTier
BY DEF Detected, Tiers

\* Every step judges the tier, and keeps an override the tier.
LEMMA JudgedNext ==
  ASSUME KernelTypeOK, TongueInv, [KernelNext]_kernelVars
  PROVE  TongueInv' /\ Judged
<1>0. tongue \in [override : Tiers \cup {-1}, tier : Tiers] /\ models \in Seq(ModelProfile)
      /\ disk \in [Paths -> FileSizes]
  BY DEF KernelTypeOK
<1>1. ASSUME tongue' = tongue PROVE TongueInv' /\ Judged
  BY <1>1 DEF TongueInv, Judged
<1>2. ASSUME NEW o \in Tiers \cup {-1}, tongue' = Detected(o) PROVE TongueInv' /\ Judged
  <2>1. tongue'.override = o /\ (o >= 0 => tongue'.tier = o)
        /\ (o < 0 => tongue'.tier = RamTier)
    BY <1>2, DetectedIsJudged
  <2> QED BY <2>1 DEF TongueInv, Judged
<1>3. ASSUME NEW t \in {0, 2}, SetOverride(t) PROVE TongueInv' /\ Judged
  <2>1. tongue'.override = t /\ tongue'.tier = t
    BY <1>3 DEF SetOverride
  <2> QED BY <2>1 DEF TongueInv, Judged
<1>4. ASSUME NEW n \in Names, NEW path \in Paths, ModelAdd(n, path)
      PROVE  TongueInv' /\ Judged
  <2>1. CASE tongue.override < 0
    <3>1. tongue' = [tongue EXCEPT !.tier = TierOf(models'[BestOf(models')])]
      BY <1>4, <2>1 DEF ModelAdd
    <3>2. tongue'.override = tongue.override
          /\ tongue'.tier = TierOf(models'[BestOf(models')])
      BY <1>0, <3>1
    <3>3. models' # <<>>
      BY <1>0, <1>4 DEF ModelAdd
    <3>4. ~ (tongue'.override >= 0)
      BY <1>0, <2>1, <3>2 DEF Tiers
    <3> QED BY <3>2, <3>3, <3>4 DEF TongueInv, Judged
  <2>2. CASE ~ (tongue.override < 0)
    BY <1>1, <1>4, <2>2 DEF ModelAdd
  <2> QED BY <2>1, <2>2
<1>5. CASE Boot \/ ClearOverride \/ DetectTier
  <2>1. tongue.override \in Tiers \cup {-1} /\ -1 \in Tiers \cup {-1}
    BY <1>0
  <2> QED BY <1>2, <1>5, <2>1 DEF Boot, ClearOverride, DetectTier
<1>6. CASE UNCHANGED kernelVars \/ \E path \in Paths : FileChanges(path)
  BY <1>1, <1>6 DEF kernelVars, FileChanges
<1>7. ASSUME NEW n \in Names, PkgOrNsCall(n) PROVE TongueInv' /\ Judged
  BY <1>1, <1>7 DEF PkgOrNsCall, NsCreate, PkgRegister, PkgInstall, PkgRemove
<1>8. ASSUME NEW n \in Names, ModelCall(n) PROVE TongueInv' /\ Judged
  <2>1. ASSUME NEW path \in Paths, ModelUpdate(n, path) PROVE tongue' = tongue
    BY <2>1 DEF ModelUpdate
  <2>2. ASSUME NEW on \in BOOLEAN, SetLoaded(n, on) PROVE tongue' = tongue
    BY <2>2 DEF SetLoaded
  <2> QED BY <1>1, <1>4, <1>8, <2>1, <2>2 DEF ModelCall
<1>9. CASE \/ Shutdown \/ UpdateInner("set") \/ OverlayInit(1) \/ OverlayWrite(1)
           \/ \E n \in Names \cup {KernelName}, s \in {"active", "error"} : UpdateModule(n, s)
           \/ \E id \in DOMAIN namespaces : NsDestroy(id)
  <2>1. tongue' = tongue
    BY <1>9 DEF Shutdown, UpdateInner, OverlayInit, OverlayWrite, UpdateModule, NsDestroy
  <2> QED BY <1>1, <2>1
<1>10. CASE Call
  BY <1>3, <1>5, <1>7, <1>8, <1>9, <1>10 DEF Call
<1> QED BY <1>6, <1>10 DEF KernelNext

\* An override, once set, is the tier until it is cleared; without one the tier only
\* changes to what the memory or the best model calls for.
THEOREM TierJudged == KernelSpec => TierIsJudged
<1>1. KernelInit => TongueInv
  BY DEF KernelInit, TongueInv
<1>2. KernelTypeOK /\ TongueInv /\ [KernelNext]_kernelVars => TongueInv' /\ Judged
  BY JudgedNext
<1>3. KernelTypeOK /\ TongueInv /\ [KernelNext]_kernelVars =>
        [ /\ tongue'.override >= 0 => tongue'.tier = tongue'.override
          /\ tongue'.tier # tongue.tier /\ tongue'.override < 0 =>
               \/ tongue'.tier = RamTier
               \/ /\ models' # <<>>
                  /\ tongue'.tier = TierOf(models'[BestOf(models')]) ]_kernelVars
  BY <1>2 DEF Judged
<1> QED BY <1>1, <1>2, <1>3, TypeInit, TypeNext, PTL DEF KernelSpec, TierIsJudged

\* The largest of the parameter counts of some entries of a table: there is one.
LEMMA LargestParams ==
  ASSUME NEW table \in Seq(ModelProfile), NEW fit, fit \subseteq DOMAIN table, fit # {}
  PROVE  \E i \in fit : \A j \in fit : table[j].params <= table[i].params
<1>0. DOMAIN table = 1 .. Len(table) /\ Len(table) \in Nat
      /\ \A i \in DOMAIN table : table[i].params \in Nat
  <2>1. \A i \in DOMAIN table : table[i] \in ModelProfile
    OBVIOUS
  <2> QED BY <2>1 DEF ModelProfile
<1> DEFINE upTo == {k \in 0 .. Len(table) :
                      \E b \in Nat : \A i \in fit : i <= k => table[i].params <= b}
<1>1. 0 \in upTo
  <2>1. \A i \in fit : ~ (i <= 0)
    BY <1>0
  <2> QED BY <1>0, <2>1
<1>2. PICK k \in upTo : \A x \in upTo : x <= k
  <2>1. upTo # {} /\ upTo \subseteq 0 .. Len(table)
    BY <1>1
  <2> HIDE DEF upTo
  <2> QED BY <1>0, <2>1, GreatestOfNat
<1>3. k \in 0 .. Len(table)
  OBVIOUS
<1>4. PICK b \in Nat : \A i \in fit : i <= k => table[i].params <= b
  OBVIOUS
<1>5. k = Len(table)
  <2>1. SUFFICES ASSUME k # Len(table) PROVE FALSE
    OBVIOUS
  <2>2. k + 1 \in 0 .. Len(table) /\ k + 1 \in DOMAIN table
    <3>1. PICK n \in Nat : n = Len(table)
      BY <1>0
    <3>2. k \in Nat /\ k <= n /\ k # n
      BY <1>3, <2>1, <3>1
    <3>3. k + 1 \in 0 .. n /\ k + 1 \in 1 .. n
      BY <3>2
    <3> QED BY <1>0, <3>1, <3>3
  <2>3. PICK c \in Nat : b <= c /\ table[k + 1].params <= c
    <3>1. b + table[k + 1].params \in Nat /\ b <= b + table[k + 1].params
          /\ table[k + 1].params <= b + table[k + 1].params
      BY <1>0, <2>2
    <3> QED BY <3>1
  <2>4. ASSUME NEW i \in fit, i <= k + 1 PROVE table[i].params <= c
    <3>1. i \in Nat /\ k \in Nat
      BY <1>0, <1>3
    <3>2. i <= k \/ i = k + 1
      BY <2>4, <3>1
    <3>3. table[i].params \in Nat
      BY <1>0
    <3>4. i <= k => table[i].params <= b
      BY <1>4
    <3> QED BY <2>3, <3>2, <3>3, <3>4
  <2>5. k + 1 \in upTo
    BY <2>2, <2>4
  <2> HIDE DEF upTo
  <2>6. k + 1 <= k
    BY <1>2, <2>5
  <2> QED BY <1>3, <2>6
<1> HIDE DEF upTo
<1> DEFINE counts == {table[i].params : i \in fit}
<1>6. counts \subseteq 0 .. b /\ counts # {}
  <2>1. ASSUME NEW i \in fit PROVE table[i].params \in 0 .. b
    <3>1. i \in 1 .. Len(table) /\ table[i].params \in Nat
      BY <1>0
    <3> QED BY <1>4, <1>5, <3>1
  <2> QED BY <2>1
<1>7. PICK m \in counts : \A x \in counts : x <= m
  <2> HIDE DEF counts
  <2> QED BY <1>6, GreatestOfNat
<1> QED BY <1>7

\* The best model of a table (sartre_model_best) is in the table: one that fits when one
\* does, and then no other that fits has more parameters; else one of the fewest.
LEMMA BestIsBest ==
  ASSUME NEW table \in Seq(ModelProfile), table # <<>>
  PROVE  /\ BestOf(table) \in DOMAIN table
         /\ (\E i \in DOMAIN table : table[i].fits) =>
              /\ table[BestOf(table)].fits
              /\ \A i \in DOMAIN table : table[i].fits =>
                   table[i].params <= table[BestOf(table)].params
         /\ (\A i \in DOMAIN table : ~table[i].fits) =>
              \A i \in DOMAIN table : table[BestOf(table)].params <= table[i].params
<1>0. DOMAIN table = 1 .. Len(table) /\ Len(table) \in Nat /\ DOMAIN table # {}
      /\ \A i \in DOMAIN table : table[i].params \in Nat
  <2>1. \A i \in DOMAIN table : table[i] \in ModelProfile
    OBVIOUS
  <2> QED BY <2>1 DEF ModelProfile
<1> DEFINE fit == {i \in DOMAIN table : table[i].fits}
<1> DEFINE b == BestOf(table)
<1>1. CASE fit # {}
  <2>1. PICK m \in fit : \A j \in fit : table[j].params <= table[m].params
    BY <1>1, LargestParams
  <2> DEFINE tops == {i \in fit : table[i].params = table[m].params}
  <2>2. tops \subseteq Nat /\ tops # {}
    BY <1>0, <2>1
  <2>3. PICK k \in tops : \A j \in tops : k <= j
    BY <2>2, LeastOfNat
  <2>4. \A j \in fit : \/ table[k].params > table[j].params
                       \/ table[k].params = table[j].params /\ k <= j
    <3> TAKE j \in fit
    <3>1. table[j].params <= table[k].params
      BY <2>1
    <3>2. table[j].params = table[k].params => k <= j
      BY <2>3
    <3>3. table[j].params \in Nat /\ table[k].params \in Nat
      BY <1>0
    <3> QED BY <3>1, <3>2, <3>3
  <2>5. b = CHOOSE i \in fit : \A j \in fit :
              \/ table[i].params > table[j].params
              \/ table[i].params = table[j].params /\ i <= j
    BY <1>1 DEF BestOf
  <2>6. b \in fit /\ \A j \in fit : \/ table[b].params > table[j].params
                                    \/ table[b].params = table[j].params /\ b <= j
    BY <2>4, <2>5
  <2> HIDE DEF b
  <2>7. \A j \in fit : table[j].params <= table[b].params
    BY <1>0, <2>6
  <2> QED BY <2>6, <2>7 DEF b
<1>2. CASE fit = {}
  <2> DEFINE counts == {table[i].params : i \in DOMAIN table}
  <2>1. PICK least \in counts : \A x \in counts : least <= x
    <3>1. counts \subseteq Nat /\ counts # {}
      BY <1>0
    <3> QED BY <3>1, LeastOfNat
  <2> DEFINE lows == {i \in DOMAIN table : table[i].params = least}
  <2>2. lows \subseteq Nat /\ lows # {}
    BY <1>0, <2>1
  <2>3. PICK k \in lows : \A j \in lows : k <= j
    BY <2>2, LeastOfNat
  <2>4. \A j \in DOMAIN table : \/ table[k].params < table[j].params
                                \/ table[k].params = table[j].params /\ k <= j
    <3> TAKE j \in DOMAIN table
    <3>1. table[k].params <= table[j].params
      BY <2>1
    <3>2. table[j].params = table[k].params => k <= j
      BY <2>3
    <3>3. table[j].params \in Nat /\ table[k].params \in Nat
      BY <1>0
    <3> QED BY <3>1, <3>2, <3>3
  <2>5. b = CHOOSE i \in DOMAIN table : \A j \in DOMAIN table :
              \/ table[i].params < table[j].params
              \/ table[i].params = table[j].params /\ i <= j
    BY <1>2 DEF BestOf
  <2>6. b \in DOMAIN table
        /\ \A j \in DOMAIN table : \/ table[b].params < table[j].params
                                   \/ table[b].params = table[j].params /\ b <= j
    BY <2>4, <2>5
  <2> HIDE DEF b
  <2>7. \A j \in DOMAIN table : table[b].params <= table[j].params
    BY <1>0, <2>6
  <2> QED BY <1>2, <2>6, <2>7 DEF b
<1> QED BY <1>1, <1>2

\* The model whose tier a step takes is the one to take: it fits the memory when any
\* model of the table does, and then none that fits is larger; else it is the smallest.
TierIsOfTheBest ==
  [][ tongue'.tier # tongue.tier /\ tongue'.override < 0 /\ tongue'.tier # RamTier =>
        \E b \in DOMAIN models' :
          /\ tongue'.tier = TierOf(models'[b])
          /\ \A i \in DOMAIN models' : models'[i].fits =>
               models'[b].fits /\ models'[i].params <= models'[b].params
          /\ ~models'[b].fits =>
               \A i \in DOMAIN models' : models'[b].params <= models'[i].params ]_kernelVars

\* A tier that neither an override nor the memory gave is that of the best model, in
\* the sense of sartre_model_best, whatever the table holds.
THEOREM BestModelJudges == KernelSpec => TierIsOfTheBest
<1>1. KernelTypeOK /\ TongueInv /\ [KernelNext]_kernelVars => TongueInv'
  BY JudgedNext
<1>2. KernelTypeOK /\ TongueInv /\ [KernelNext]_kernelVars =>
      [ tongue'.tier # tongue.tier /\ tongue'.override < 0 /\ tongue'.tier # RamTier =>
        \E b \in DOMAIN models' :
          /\ tongue'.tier = TierOf(models'[b])
          /\ \A i \in DOMAIN models' : models'[i].fits =>
               models'[b].fits /\ models'[i].params <= models'[b].params
          /\ ~models'[b].fits =>
               \A i \in DOMAIN models' : models'[b].params <= models'[i].params ]_kernelVars
  <2>1. SUFFICES ASSUME KernelTypeOK, TongueInv, [KernelNext]_kernelVars,
                        tongue'.tier # tongue.tier, tongue'.override < 0,
                        tongue'.tier # RamTier
                 PROVE  \E b \in DOMAIN models' :
                          /\ tongue'.tier = TierOf(models'[b])
                          /\ \A i \in DOMAIN models' : models'[i].fits =>
                               models'[b].fits /\ models'[i].params <= models'[b].params
                          /\ ~models'[b].fits =>
                               \A i \in DOMAIN models' : models'[b].params <= models'[i].params
    OBVIOUS
  <2>2. models' # <<>> /\ tongue'.tier = TierOf(models'[BestOf(models')])
    BY <2>1, JudgedNext DEF Judged
  <2>3. models' \in Seq(ModelProfile)
    BY <2>1, TypeNext DEF KernelTypeOK
  <2>4. PICK t \in Seq(ModelProfile) : t = models'
    BY <2>3
  <2>5. /\ BestOf(t) \in DOMAIN t
        /\ (\E i \in DOMAIN t : t[i].fits) =>
             /\ t[BestOf(t)].fits
             /\ \A i \in DOMAIN t : t[i].fits => t[i].params <= t[BestOf(t)].params
        /\ (\A i \in DOMAIN t : ~t[i].fits) =>
             \A i \in DOMAIN t : t[BestOf(t)].params <= t[i].params
    BY <2>2, <2>4, BestIsBest
  <2>6. /\ \A i \in DOMAIN t : t[i].fits =>
             t[BestOf(t)].fits /\ t[i].params <= t[BestOf(t)].params
        /\ ~t[BestOf(t)].fits =>
             \A i \in DOMAIN t : t[BestOf(t)].params <= t[i].params
    BY <2>5
  <2> QED BY <2>2, <2>4, <2>5, <2>6
<1>3. KernelInit => TongueInv
  BY DEF KernelInit, TongueInv
<1> QED BY <1>1, <1>2, <1>3, TypeInit, TypeNext, PTL DEF KernelSpec, TierIsOfTheBest

----------------------------------------------------------------------------
(* The ring of events and what it tells.                                   *)

\* The ring holds the latest events, in order, none twice and none missing.
Latest(ring, count) ==
  /\ Len(ring) = IF count < MaxEvents THEN count ELSE MaxEvents
  /\ \A i \in DOMAIN ring : ring[i].no = count - Len(ring) + i

RingInv == Latest(events, steps)

\* The newest event of some kinds about each name says what the name's flag says: on is
\* the kind that raises the flag, flag[i] the flag of the i-th entry of the table.
ToldIn(ring, kinds, on, table, flag) ==
  \A i \in DOMAIN ring :
    /\ ring[i].what \in kinds
    /\ \A j \in DOMAIN ring : j > i => ~ (ring[j].what \in kinds /\ ring[j].of = ring[i].of)
    => /\ FirstNamed(table, ring[i].of) # 0
       /\ (flag[FirstNamed(table, ring[i].of)] <=> ring[i].what = on)

PkgKinds == {"pkg_install", "pkg_remove"}
ModelKinds == {"model_load", "model_unload"}
InstalledIn(table) == [i \in DOMAIN table |-> table[i].installed]
LoadedIn(table) == [i \in DOMAIN table |-> table[i].loaded]

\* Only the first entry of a name is ever installed.
FirstInv ==
  \A i, j \in DOMAIN packages :
    packages[i].installed /\ packages[j].name = packages[i].name => i <= j

ToldInv ==
  ready => /\ ToldIn(events, PkgKinds, "pkg_install", packages, InstalledIn(packages))
           /\ ToldIn(events, ModelKinds, "model_load", models, LoadedIn(models))

KernelInv == KernelTypeOK /\ RingInv /\ FirstInv /\ ToldInv

\* The entry that is found for a name, and its flag, are found again.
SameFound(n, t1, f1, t2, f2) ==
  FirstNamed(t1, n) # 0 =>
    /\ FirstNamed(t2, n) = FirstNamed(t1, n)
    /\ f2[FirstNamed(t1, n)] = f1[FirstNamed(t1, n)]

\* Without an event the ring goes on telling what is found unchanged.
LEMMA ToldStays ==
  ASSUME NEW ring, NEW kinds, NEW on, NEW t1, NEW f1, NEW t2, NEW f2,
         ToldIn(ring, kinds, on, t1, f1),
         \A n : SameFound(n, t1, f1, t2, f2)
  PROVE  ToldIn(ring, kinds, on, t2, f2)
BY DEF ToldIn, SameFound

\* After an event the ring tells what it told of the other names, and the event tells
\* of its own.
LEMMA ToldNotified ==
  ASSUME NEW ring \in Seq(Event), Len(ring) <= MaxEvents, NEW e \in Event,
         NEW kinds, NEW on, NEW t1, NEW f1, NEW t2, NEW f2,
         ToldIn(ring, kinds, on, t1, f1),
         \A n : ~ (e.what \in kinds /\ n = e.of) => SameFound(n, t1, f1, t2, f2),
         e.what \in kinds => /\ FirstNamed(t2, e.of) # 0
                             /\ (f2[FirstNamed(t2, e.of)] <=> e.what = on)
  PROVE  ToldIn(Notified(ring, e), kinds, on, t2, f2)
<1> DEFINE new == Notified(ring, e)
<1> DEFINE k == IF Len(ring) < MaxEvents THEN 0 ELSE 1
<1>0. new = Notified(ring, e) /\ k = (IF Len(ring) < MaxEvents THEN 0 ELSE 1)
      /\ k \in 0 .. 1
  OBVIOUS
<1> HIDE DEF new, k
<1>1. /\ new \in Seq(Event) /\ Len(new) = Len(ring) + 1 - k
      /\ Len(new) \in Nat \ {0} /\ new[Len(new)] = e
      /\ \A i \in 1 .. Len(new) - 1 : i + k \in 1 .. Len(ring) /\ new[i] = ring[i + k]
  BY <1>0, NotifiedRing
<1>2. k \in 0 .. 1 /\ Len(ring) \in Nat /\ DOMAIN ring = 1 .. Len(ring)
      /\ DOMAIN new = 1 .. Len(new)
  BY <1>0, <1>1
<1>3. SUFFICES ASSUME NEW i \in DOMAIN new, new[i].what \in kinds,
                      \A j \in DOMAIN new : j > i =>
                        ~ (new[j].what \in kinds /\ new[j].of = new[i].of)
               PROVE  /\ FirstNamed(t2, new[i].of) # 0
                      /\ (f2[FirstNamed(t2, new[i].of)] <=> new[i].what = on)
  BY DEF ToldIn, new
<1>4. CASE i = Len(new)
  BY <1>1, <1>3, <1>4
<1>5. CASE i # Len(new)
  <2>1. PICK m \in Nat \ {0} : m = Len(new)
    BY <1>1
  <2>2. i \in Nat /\ i \in 1 .. m - 1 /\ m > i /\ m \in 1 .. m
    BY <1>2, <1>5, <2>1
  <2>3. i + k \in DOMAIN ring /\ new[i] = ring[i + k]
    BY <1>1, <1>2, <2>1, <2>2
  <2>4. ~ (e.what \in kinds /\ e.of = new[i].of)
    BY <1>1, <1>2, <1>3, <2>1, <2>2
  <2>5. ASSUME NEW j \in DOMAIN ring, j > i + k
        PROVE  ~ (ring[j].what \in kinds /\ ring[j].of = ring[i + k].of)
    <3>1. PICK r \in Nat : r = Len(ring)
      BY <1>2
    <3>2. j \in 1 .. r /\ m = r + 1 - k
      BY <1>1, <1>2, <2>1, <3>1
    <3>3. j - k \in 1 .. m - 1 /\ j - k > i /\ (j - k) + k = j /\ j - k \in 1 .. m
      BY <1>2, <2>2, <2>5, <3>2
    <3>4. new[j - k] = ring[j]
      BY <1>1, <2>1, <3>3
    <3>5. ~ (new[j - k].what \in kinds /\ new[j - k].of = new[i].of)
      BY <1>2, <1>3, <2>1, <3>3
    <3> QED BY <2>3, <3>4, <3>5
  <2>6. /\ FirstNamed(t1, new[i].of) # 0
        /\ (f1[FirstNamed(t1, new[i].of)] <=> new[i].what = on)
    BY <1>3, <2>3, <2>5 DEF ToldIn
  <2>7. SameFound(new[i].of, t1, f1, t2, f2)
    BY <2>4
  <2> QED BY <2>6, <2>7 DEF SameFound
<1> QED BY <1>4, <1>5

\* The next event keeps the ring in order.
LEMMA LatestNotified ==
  ASSUME NEW ring \in Seq(Event), Len(ring) <= MaxEvents, NEW count \in Nat,
         Latest(ring, count), NEW e \in Event, e.no = count + 1
  PROVE  Latest(Notified(ring, e), count + 1)
<1> DEFINE new == Notified(ring, e)
<1> DEFINE k == IF Len(ring) < MaxEvents THEN 0 ELSE 1
<1>0. new = Notified(ring, e) /\ k = (IF Len(ring) < MaxEvents THEN 0 ELSE 1)
      /\ k \in 0 .. 1
  OBVIOUS
<1> HIDE DEF new, k
<1>1. /\ new \in Seq(Event) /\ Len(new) = Len(ring) + 1 - k
      /\ Len(new) \in Nat \ {0} /\ new[Len(new)] = e
      /\ \A i \in 1 .. Len(new) - 1 : i + k \in 1 .. Len(ring) /\ new[i] = ring[i + k]
  BY <1>0, NotifiedRing
<1>2. PICK a \in Nat, b \in Nat \ {0} : a = Len(ring) /\ b = Len(new)
  <2>1. Len(ring) \in Nat
    BY LenProperties
  <2> QED BY <1>1, <2>1
<1>3. DOMAIN ring = 1 .. a /\ DOMAIN new = 1 .. b
  BY <1>1, <1>2
<1>4. /\ k = (IF a < MaxEvents THEN 0 ELSE 1)
      /\ a <= MaxEvents
      /\ b = a + 1 - k
      /\ a = (IF count < MaxEvents THEN count ELSE MaxEvents)
  BY <1>0, <1>1, <1>2 DEF Latest
<1>5. b = IF count + 1 < MaxEvents THEN count + 1 ELSE MaxEvents
  BY <1>4, LimitsAssumption
<1>6. ASSUME NEW i \in 1 .. b PROVE new[i].no = (count + 1) - b + i
  <2>1. CASE i = b
    BY <1>1, <1>2, <2>1
  <2>2. CASE i # b
    <3>1. i \in 1 .. b - 1
      BY <2>2
    <3>2. i + k \in 1 .. a /\ new[i] = ring[i + k]
      BY <1>1, <1>2, <3>1
    <3>3. ring[i + k].no = count - a + (i + k)
      BY <1>2, <1>3, <3>2 DEF Latest
    <3>4. count - a + (i + k) = (count + 1) - b + i
      BY <1>4
    <3> QED BY <3>2, <3>3, <3>4
  <2> QED BY <2>1, <2>2
<1> QED BY <1>2, <1>3, <1>5, <1>6 DEF Latest, new

\* A call that posts an event, or none, or clears the ring keeps it in order.
LEMMA RingNotified ==
  ASSUME KernelTypeOK, RingInv,
         \/ events' = events /\ steps' = steps
         \/ events' = <<>> /\ steps' = 0
         \/ \E what \in EventKinds, of \in Names \cup {KernelName} : Notify(what, of)
  PROVE  RingInv'
<1>0. events \in Seq(Event) /\ Len(events) <= MaxEvents /\ steps \in Nat
  BY DEF KernelTypeOK
<1>1. CASE events' = events /\ steps' = steps
  BY <1>1 DEF RingInv
<1>2. CASE events' = <<>> /\ steps' = 0
  <2>1. Latest(<<>>, 0)
    BY LimitsAssumption DEF Latest
  <2> QED BY <1>2, <2>1 DEF RingInv
<1>3. ASSUME NEW what \in EventKinds, NEW of \in Names \cup {KernelName}, Notify(what, of)
      PROVE  RingInv'
  <2> DEFINE e == [no |-> steps + 1, what |-> what, of |-> of]
  <2>1. e \in Event /\ e.no = steps + 1
    BY <1>0 DEF Event
  <2>2. \/ events' = events /\ steps' = steps
        \/ events' = Notified(events, e) /\ steps' = steps + 1
    BY <1>3, NotifyCases
  <2> HIDE DEF e
  <2>3. Latest(Notified(events, e), steps + 1)
    BY <1>0, <2>1, LatestNotified DEF RingInv
  <2> QED BY <1>1, <2>2, <2>3 DEF RingInv
<1> QED BY <1>1, <1>2, <1>3

\* An entry overwritten by one of its name: every other name is found as it was, and
\* the name itself when the flag stays.
LEMMA FoundPut ==
  ASSUME NEW S, NEW table \in Seq(S), NEW i \in DOMAIN table, NEW e \in S,
         e.name = table[i].name, NEW f1, NEW f2,
         \A j \in DOMAIN table : j # i => f2[j] = f1[j]
  PROVE  \A n : n # table[i].name \/ f2[i] = f1[i] =>
           SameFound(n, table, f1, [table EXCEPT ![i] = e], f2)
<1> TAKE n
<1> HAVE n # table[i].name \/ f2[i] = f1[i]
<1>1. FirstNamed([table EXCEPT ![i] = e], n) = FirstNamed(table, n)
  BY PutKeeps
<1>2. FirstNamed(table, n) # 0 =>
        FirstNamed(table, n) \in DOMAIN table /\ table[FirstNamed(table, n)].name = n
  BY FirstNamedFinds
<1> QED BY <1>1, <1>2 DEF SameFound

\* An entry behind the end: every known name is found as it was.
LEMMA FoundAppend ==
  ASSUME NEW S, NEW table \in Seq(S), NEW e \in S, NEW f1, NEW f2,
         \A j \in DOMAIN table : f2[j] = f1[j]
  PROVE  \A n : SameFound(n, table, f1, Append(table, e), f2)
<1> TAKE n
<1>1. FirstNamed(table, n) # 0 => FirstNamed(Append(table, e), n) = FirstNamed(table, n)
  BY AppendKeeps
<1>2. FirstNamed(table, n) # 0 => FirstNamed(table, n) \in DOMAIN table
  BY FirstNamedFinds
<1> QED BY <1>1, <1>2 DEF SameFound

SamePkg(n) == SameFound(n, packages, InstalledIn(packages), packages', InstalledIn(packages'))
SameModel(n) == SameFound(n, models, LoadedIn(models), models', LoadedIn(models'))

\* Tables that are left alone are found as they were.
LEMMA FoundSame ==
  /\ packages' = packages => \A n : SamePkg(n)
  /\ models' = models => \A n : SameModel(n)
BY DEF SamePkg, SameModel, SameFound

\* The flags of a table by place.
LEMMA FlagAt ==
  /\ \A i \in DOMAIN packages : InstalledIn(packages)[i] = packages[i].installed
  /\ \A i \in DOMAIN models : LoadedIn(models)[i] = models[i].loaded
  /\ \A i \in DOMAIN packages' : InstalledIn(packages')[i] = packages'[i].installed
  /\ \A i \in DOMAIN models' : LoadedIn(models')[i] = models'[i].loaded
BY DEF InstalledIn, LoadedIn

\* A call without an event keeps what the ring tells when every name is found as it was.
LEMMA ToldQuiet ==
  ASSUME ToldInv, ready' => ready, events' = events,
         \A n : SamePkg(n), \A n : SameModel(n)
  PROVE  ToldInv'
<1> SUFFICES ASSUME ready'
             PROVE  /\ ToldIn(events', PkgKinds, "pkg_install", packages', InstalledIn(packages'))
                    /\ ToldIn(events', ModelKinds, "model_load", models', LoadedIn(models'))
  BY DEF ToldInv, InstalledIn, LoadedIn
<1>1. /\ ToldIn(events, PkgKinds, "pkg_install", packages, InstalledIn(packages))
      /\ ToldIn(events, ModelKinds, "model_load", models, LoadedIn(models))
  BY DEF ToldInv
<1>2. \A n : /\ SameFound(n, packages, InstalledIn(packages), packages', InstalledIn(packages'))
             /\ SameFound(n, models, LoadedIn(models), models', LoadedIn(models'))
  BY DEF SamePkg, SameModel
<1>3. ToldIn(events, PkgKinds, "pkg_install", packages', InstalledIn(packages'))
  BY <1>1, <1>2, ToldStays
<1>4. ToldIn(events, ModelKinds, "model_load", models', LoadedIn(models'))
  BY <1>1, <1>2, ToldStays
<1> QED BY <1>3, <1>4

\* A call with an event keeps what the ring tells when the event says what became of
\* its name and every other name is found as it was.
LEMMA ToldNotify ==
  ASSUME KernelTypeOK, ToldInv, ready' = ready,
         NEW what \in EventKinds, NEW of \in Names \cup {KernelName}, Notify(what, of),
         \A n : ~ (what \in PkgKinds /\ n = of) => SamePkg(n),
         \A n : ~ (what \in ModelKinds /\ n = of) => SameModel(n),
         what \in PkgKinds =>
           /\ FirstNamed(packages', of) # 0
           /\ (InstalledIn(packages')[FirstNamed(packages', of)] <=> what = "pkg_install"),
         what \in ModelKinds =>
           /\ FirstNamed(models', of) # 0
           /\ (LoadedIn(models')[FirstNamed(models', of)] <=> what = "model_load")
  PROVE  ToldInv'
<1> SUFFICES ASSUME ready
             PROVE  /\ ToldIn(events', PkgKinds, "pkg_install", packages', InstalledIn(packages'))
                    /\ ToldIn(events', ModelKinds, "model_load", models', LoadedIn(models'))
  BY DEF ToldInv, InstalledIn, LoadedIn
<1> DEFINE e == [no |-> steps + 1, what |-> what, of |-> of]
<1>1. events \in Seq(Event) /\ Len(events) <= MaxEvents /\ steps \in Nat
  BY DEF KernelTypeOK
<1>2. e \in Event /\ e.what = what /\ e.of = of
  BY <1>1 DEF Event
<1>3. events' = Notified(events, e)
  BY NotifyCases
<1> HIDE DEF e
<1>4. /\ ToldIn(events, PkgKinds, "pkg_install", packages, InstalledIn(packages))
      /\ ToldIn(events, ModelKinds, "model_load", models, LoadedIn(models))
  BY DEF ToldInv
<1>5. \A n : ~ (e.what \in PkgKinds /\ n = e.of) =>
        SameFound(n, packages, InstalledIn(packages), packages', InstalledIn(packages'))
  BY <1>2 DEF SamePkg
<1>6. \A n : ~ (e.what \in ModelKinds /\ n = e.of) =>
        SameFound(n, models, LoadedIn(models), models', LoadedIn(models'))
  BY <1>2 DEF SameModel
<1>7. ToldIn(Notified(events, e), PkgKinds, "pkg_install", packages', InstalledIn(packages'))
  <2>1. e.what \in PkgKinds =>
           /\ FirstNamed(packages', e.of) # 0
           /\ (InstalledIn(packages')[FirstNamed(packages', e.of)] <=> e.what = "pkg_install")
    BY <1>2
  <2> QED BY <1>1, <1>2, <1>4, <1>5, <2>1, ToldNotified
<1>8. ToldIn(Notified(events, e), ModelKinds, "model_load", models', LoadedIn(models'))
  <2>1. e.what \in ModelKinds =>
           /\ FirstNamed(models', e.of) # 0
           /\ (LoadedIn(models')[FirstNamed(models', e.of)] <=> e.what = "model_load")
    BY <1>2
  <2> QED BY <1>1, <1>2, <1>4, <1>6, <2>1, ToldNotified
<1> QED BY <1>3, <1>7, <1>8

\* A package's flag written at the place where its name is found.
LEMMA PkgFlag ==
  ASSUME KernelTypeOK, FirstInv, NEW n \in Names, NEW b \in BOOLEAN,
         FirstNamed(packages, n) # 0,
         packages' = [packages EXCEPT ![FirstNamed(packages, n)].installed = b]
  PROVE  /\ FirstInv'
         /\ \A m : m # n => SamePkg(m)
         /\ FirstNamed(packages', n) # 0
         /\ InstalledIn(packages')[FirstNamed(packages', n)] = b
<1> DEFINE i == FirstNamed(packages, n)
<1> DEFINE e == [packages[i] EXCEPT !.installed = b]
<1>0. packages \in Seq(Package)
  BY DEF KernelTypeOK
<1>1. i \in DOMAIN packages /\ packages[i].name = n
      /\ \A j \in DOMAIN packages : packages[j].name = n => i <= j
  BY <1>0, FirstNamedFinds
<1>2. packages[i] \in Package
  BY <1>0, <1>1
<1>3. e \in Package /\ e.name = packages[i].name /\ e.installed = b
  BY <1>2 DEF Package
<1>4. packages' = [packages EXCEPT ![i] = e]
  OBVIOUS
<1> HIDE DEF e, i
<1>5. DOMAIN packages' = DOMAIN packages
      /\ \A j \in DOMAIN packages : packages'[j] = IF j = i THEN e ELSE packages[j]
  BY <1>4
<1>6. \A j \in DOMAIN packages : packages'[j].name = packages[j].name
  BY <1>3, <1>5
<1>7. FirstInv'
  <2>1. SUFFICES ASSUME NEW k \in DOMAIN packages, NEW j \in DOMAIN packages,
                        packages'[k].installed, packages[j].name = packages[k].name
                 PROVE  k <= j
    BY <1>5, <1>6 DEF FirstInv
  <2>2. CASE k = i
    BY <1>1, <2>1, <2>2
  <2>3. CASE k # i
    BY <1>5, <2>1, <2>3 DEF FirstInv
  <2> QED BY <2>2, <2>3
<1>8. \A j \in DOMAIN packages : j # i => InstalledIn(packages')[j] = InstalledIn(packages)[j]
  <2>1. \A j \in DOMAIN packages :
          /\ InstalledIn(packages)[j] = packages[j].installed
          /\ InstalledIn(packages')[j] = packages'[j].installed
    BY <1>5 DEF InstalledIn
  <2> QED BY <1>5, <2>1
<1>9. \A m : m # n => SamePkg(m)
  <2>1. \A m : m # packages[i].name \/ InstalledIn(packages')[i] = InstalledIn(packages)[i] =>
          SameFound(m, packages, InstalledIn(packages), [packages EXCEPT ![i] = e],
                    InstalledIn(packages'))
    BY <1>0, <1>1, <1>3, <1>8, FoundPut
  <2> QED BY <1>1, <1>4, <2>1 DEF SamePkg
<1>10. FirstNamed(packages', n) = i
  <2>1. FirstNamed(packages, n) = i
    BY DEF i
  <2>2. Keeps(packages, [packages EXCEPT ![i] = e])
    BY <1>0, <1>1, <1>3, <1>4, PutKeeps
  <2>3. [packages EXCEPT ![i] = e] \in Seq(Package)
    BY <1>0, <1>1, <1>3, <1>4, PutType
  <2>4. Keeps(packages, packages') /\ packages' \in Seq(Package)
    BY <1>0, <1>1, <1>3, <1>4, <2>2, <2>3
  <2>5. FirstNamed(packages', n) = FirstNamed(packages, n)
    BY <1>0, <2>4, FirstNamedStays, Zenon
  <2> QED BY <2>1, <2>5
<1>11. InstalledIn(packages')[i] = b
  BY <1>1, <1>3, <1>5, FlagAt
<1> QED BY <1>7, <1>9, <1>10, <1>11 DEF i

\* A model's entry overwritten by one of its name, at the place where it is found.
LEMMA ModelPut ==
  ASSUME KernelTypeOK, NEW n \in Names, NEW e \in ModelProfile, e.name = n,
         FirstNamed(models, n) # 0,
         models' = [models EXCEPT ![FirstNamed(models, n)] = e]
  PROVE  /\ \A m : m # n => SameModel(m)
         /\ e.loaded = models[FirstNamed(models, n)].loaded => \A m : SameModel(m)
         /\ FirstNamed(models', n) # 0
         /\ LoadedIn(models')[FirstNamed(models', n)] = e.loaded
<1> DEFINE i == FirstNamed(models, n)
<1>0. models \in Seq(ModelProfile)
  BY DEF KernelTypeOK
<1>1. i \in DOMAIN models /\ models[i].name = n
  BY <1>0, FirstNamedFinds
<1>2. models' = [models EXCEPT ![i] = e]
  OBVIOUS
<1> HIDE DEF i
<1>3. DOMAIN models' = DOMAIN models
      /\ \A j \in DOMAIN models : models'[j] = IF j = i THEN e ELSE models[j]
  BY <1>2
<1>4. \A j \in DOMAIN models : j # i => LoadedIn(models')[j] = LoadedIn(models)[j]
  <2>1. \A j \in DOMAIN models : LoadedIn(models)[j] = models[j].loaded /\ LoadedIn(models')[j] = models'[j].loaded
    BY <1>3 DEF LoadedIn
  <2> QED BY <1>3, <2>1
<1>5. LoadedIn(models')[i] = e.loaded /\ LoadedIn(models)[i] = models[i].loaded
  BY <1>1, <1>3, FlagAt
<1>6. \A m : m # n \/ LoadedIn(models')[i] = LoadedIn(models)[i] => SameModel(m)
  <2>1. \A m : m # models[i].name \/ LoadedIn(models')[i] = LoadedIn(models)[i] =>
          SameFound(m, models, LoadedIn(models), [models EXCEPT ![i] = e], LoadedIn(models'))
    BY <1>0, <1>1, <1>4, FoundPut
  <2> QED BY <1>1, <1>2, <2>1 DEF SameModel
<1>7. FirstNamed(models', n) = i
  <2>1. FirstNamed(models, n) = i
    BY DEF i
  <2>2. Keeps(models, [models EXCEPT ![i] = e])
    BY <1>0, <1>1, <1>2, PutKeeps
  <2>3. [models EXCEPT ![i] = e] \in Seq(ModelProfile)
    BY <1>0, <1>1, <1>2, PutType
  <2>4. Keeps(models, models') /\ models' \in Seq(ModelProfile)
    BY <1>0, <1>1, <1>2, <2>2, <2>3
  <2> QED BY <1>0, <2>1, <2>4, FirstNamedStays
<1> QED BY <1>5, <1>6, <1>7 DEF i

\* Every call keeps what the ring tells.
LEMMA ToldCall ==
  ASSUME KernelInv, Call
  PROVE  RingInv' /\ FirstInv' /\ ToldInv'
<1>0. /\ namespaces \in Seq(Namespace) /\ packages \in Seq(Package)
      /\ models \in Seq(ModelProfile) /\ disk \in [Paths -> FileSizes]
      /\ KernelTypeOK /\ RingInv /\ FirstInv /\ ToldInv
  BY DEF KernelInv, KernelTypeOK
<1>a. packages' = packages => FirstInv' /\ \A n : SamePkg(n)
  BY <1>0, FoundSame DEF FirstInv
<1>b. models' = models => \A n : SameModel(n)
  BY FoundSame
<1>c. ASSUME events' = events, steps' = steps, ready' = ready, packages' = packages,
             models' = models
      PROVE  RingInv' /\ FirstInv' /\ ToldInv'
  BY <1>0, <1>a, <1>b, <1>c, RingNotified, ToldQuiet
<1>1. CASE Boot
  <2>1. events' = <<>> /\ steps' = 0 /\ packages' = <<>>
    BY <1>1 DEF Boot
  <2>2. RingInv'
    BY <1>0, <2>1, RingNotified
  <2>3. FirstInv'
    BY <2>1 DEF FirstInv
  <2>4. ToldInv'
    BY <2>1 DEF ToldInv, ToldIn
  <2> QED BY <2>2, <2>3, <2>4
<1>2. CASE Shutdown
  <2>1. Notify("kernel_shutdown", KernelName) /\ ~ready' /\ packages' = packages
    BY <1>2 DEF Shutdown, tableVars
  <2>2. RingInv'
    BY <1>0, <2>1, RingNotified DEF EventKinds
  <2> QED BY <1>a, <2>1, <2>2 DEF ToldInv
<1>3. ASSUME NEW n \in Names, NsCreate(n) PROVE RingInv' /\ FirstInv' /\ ToldInv'
  <2>1. Notify("ns_create", n) /\ ready' = ready /\ packages' = packages /\ models' = models
        /\ "ns_create" \in EventKinds /\ "ns_create" \notin PkgKinds \cup ModelKinds
    BY <1>3 DEF NsCreate, EventKinds, PkgKinds, ModelKinds
  <2>2. RingInv'
    BY <1>0, <2>1, RingNotified
  <2>3. ToldInv'
    BY <1>0, <1>a, <1>b, <2>1, ToldNotify
  <2> QED BY <1>a, <2>1, <2>2, <2>3
<1>4. ASSUME NEW id \in DOMAIN namespaces, NsDestroy(id)
      PROVE  RingInv' /\ FirstInv' /\ ToldInv'
  <2> DEFINE n == namespaces[id].name
  <2>1. Notify("ns_destroy", n) /\ ready' = ready /\ packages' = packages /\ models' = models
        /\ "ns_destroy" \in EventKinds /\ "ns_destroy" \notin PkgKinds \cup ModelKinds
    BY <1>4 DEF NsDestroy, EventKinds, PkgKinds, ModelKinds
  <2>2. n \in Names
    <3>1. namespaces[id] \in Namespace
      BY <1>0
    <3> QED BY <3>1 DEF Namespace
  <2> HIDE DEF n
  <2>3. RingInv'
    BY <1>0, <2>1, <2>2, RingNotified
  <2>4. ToldInv'
    BY <1>0, <1>a, <1>b, <2>1, <2>2, ToldNotify
  <2> QED BY <1>a, <2>1, <2>3, <2>4
<1>5. ASSUME NEW n \in Names, PkgRegister(n) PROVE RingInv' /\ FirstInv' /\ ToldInv'
  <2> DEFINE e == [name |-> n, installed |-> FALSE]
  <2>1. e \in Package /\ ~e.installed
    BY DEF Package
  <2>2. /\ packages' = Append(packages, e) /\ models' = models /\ ready' = ready
        /\ events' = events /\ steps' = steps
    BY <1>5 DEF PkgRegister, logVars
  <2> HIDE DEF e
  <2>3. PICK c \in Nat : c = Len(packages)
    BY <1>0
  <2>4. /\ DOMAIN packages = 1 .. c /\ DOMAIN packages' = 1 .. c + 1
        /\ \A j \in 1 .. c : packages'[j] = packages[j]
        /\ packages'[c + 1] = e
    BY <1>0, <2>1, <2>2, <2>3
  <2>5. FirstInv'
    <3>1. SUFFICES ASSUME NEW k \in 1 .. c + 1, NEW j \in 1 .. c + 1,
                          packages'[k].installed, packages'[j].name = packages'[k].name
                   PROVE  k <= j
      BY <2>4 DEF FirstInv
    <3>2. k \in 1 .. c
      BY <2>1, <2>4, <3>1
    <3>3. CASE j = c + 1
      BY <3>2, <3>3
    <3>4. CASE j # c + 1
      <4>1. j \in 1 .. c
        BY <3>4
      <4> QED BY <1>0, <2>4, <3>1, <3>2, <4>1 DEF FirstInv
    <3> QED BY <3>3, <3>4
  <2>6. \A n2 : SamePkg(n2)
    <3>1. \A j \in DOMAIN packages : InstalledIn(packages')[j] = InstalledIn(packages)[j]
      BY <2>4, FlagAt
    <3>2. \A m : SameFound(m, packages, InstalledIn(packages), Append(packages, e),
                           InstalledIn(packages'))
      BY <1>0, <2>1, <3>1, FoundAppend
    <3> QED BY <2>2, <3>2 DEF SamePkg
  <2>7. RingInv' /\ ToldInv'
    BY <1>0, <1>b, <2>2, <2>6, RingNotified, ToldQuiet
  <2> QED BY <2>5, <2>7
<1>6. ASSUME NEW n \in Names, PkgInstall(n) PROVE RingInv' /\ FirstInv' /\ ToldInv'
  <2>1. /\ Notify("pkg_install", n) /\ ready' = ready /\ models' = models
        /\ FirstNamed(packages, n) # 0
        /\ packages' = [packages EXCEPT ![FirstNamed(packages, n)].installed = TRUE]
        /\ "pkg_install" \in EventKinds /\ "pkg_install" \notin ModelKinds
    BY <1>6 DEF PkgInstall, EventKinds, ModelKinds
  <2>2. /\ FirstInv'
        /\ \A m : m # n => SamePkg(m)
        /\ FirstNamed(packages', n) # 0
        /\ InstalledIn(packages')[FirstNamed(packages', n)] = TRUE
    BY <1>0, <2>1, PkgFlag
  <2>3. RingInv'
    BY <1>0, <2>1, RingNotified
  <2>4. "pkg_install" \in PkgKinds =>
           /\ FirstNamed(packages', n) # 0
           /\ (InstalledIn(packages')[FirstNamed(packages', n)] <=> "pkg_install" = "pkg_install")
    BY <2>2
  <2>5. \A m : SameModel(m)
    BY <1>b, <2>1
  <2>6. \A m : ~ ("pkg_install" \in PkgKinds /\ m = n) => SamePkg(m)
    BY <2>2 DEF PkgKinds
  <2>7. KernelTypeOK /\ ToldInv /\ n \in Names \cup {KernelName}
    BY <1>0
  <2>8. ToldInv'
    BY <2>1, <2>4, <2>5, <2>6, <2>7, ToldNotify
  <2> QED BY <2>2, <2>3, <2>8
<1>7. ASSUME NEW n \in Names, PkgRemove(n) PROVE RingInv' /\ FirstInv' /\ ToldInv'
  <2>1. /\ Notify("pkg_remove", n) /\ ready' = ready /\ models' = models
        /\ FirstNamed(packages, n) # 0
        /\ packages' = [packages EXCEPT ![FirstNamed(packages, n)].installed = FALSE]
        /\ "pkg_remove" \in EventKinds /\ "pkg_remove" \notin ModelKinds
    BY <1>7 DEF PkgRemove, EventKinds, ModelKinds
  <2>2. /\ FirstInv'
        /\ \A m : m # n => SamePkg(m)
        /\ FirstNamed(packages', n) # 0
        /\ InstalledIn(packages')[FirstNamed(packages', n)] = FALSE
    BY <1>0, <2>1, PkgFlag
  <2>3. RingInv'
    BY <1>0, <2>1, RingNotified
  <2>4. "pkg_remove" \in PkgKinds =>
           /\ FirstNamed(packages', n) # 0
           /\ (InstalledIn(packages')[FirstNamed(packages', n)] <=> "pkg_remove" = "pkg_install")
    BY <2>2
  <2>5. \A m : SameModel(m)
    BY <1>b, <2>1
  <2>6. \A m : ~ ("pkg_remove" \in PkgKinds /\ m = n) => SamePkg(m)
    BY <2>2 DEF PkgKinds
  <2>7. KernelTypeOK /\ ToldInv /\ n \in Names \cup {KernelName}
    BY <1>0
  <2>8. ToldInv'
    BY <2>1, <2>4, <2>5, <2>6, <2>7, ToldNotify
  <2> QED BY <2>2, <2>3, <2>8
<1>8. ASSUME NEW n \in Names, NEW path \in Paths, ModelAdd(n, path)
      PROVE  RingInv' /\ FirstInv' /\ ToldInv'
  <2> DEFINE zero == [name |-> n, path |-> path, size |-> 0, params |-> 0,
                      runtime |-> 0, fits |-> FALSE, loaded |-> FALSE]
  <2> DEFINE e == Profiled(zero)
  <2>1. /\ Notify("model_register", n) /\ ready' = ready /\ packages' = packages
        /\ models' = Append(models, e)
        /\ "model_register" \in EventKinds /\ "model_register" \notin PkgKinds \cup ModelKinds
    BY <1>8 DEF ModelAdd, tableVars, EventKinds, PkgKinds, ModelKinds
  <2>2. zero \in ModelProfile
    BY DEF ModelProfile
  <2> HIDE DEF zero
  <2>3. e \in ModelProfile
    BY <1>0, <2>2, ProfiledType
  <2> HIDE DEF e
  <2>4. \A m : SameModel(m)
    <3>1. \A j \in DOMAIN models : j \in DOMAIN models' /\ models'[j] = models[j]
      BY <1>0, <2>1, <2>3
    <3>2. \A j \in DOMAIN models : LoadedIn(models')[j] = LoadedIn(models)[j]
      BY <3>1, FlagAt
    <3>3. \A m : SameFound(m, models, LoadedIn(models), Append(models, e), LoadedIn(models'))
      BY <1>0, <2>3, <3>2, FoundAppend
    <3> QED BY <2>1, <3>3 DEF SameModel
  <2>5. RingInv'
    BY <1>0, <2>1, RingNotified
  <2>6. ToldInv'
    BY <1>0, <1>a, <2>1, <2>4, ToldNotify
  <2> QED BY <1>a, <2>1, <2>5, <2>6
<1>9. ASSUME NEW n \in Names, NEW path \in Paths, ModelUpdate(n, path)
      PROVE  RingInv' /\ FirstInv' /\ ToldInv'
  <2> DEFINE i == FirstNamed(models, n)
  <2> DEFINE p == [models[i] EXCEPT !.path = path]
  <2> DEFINE e == Profiled(p)
  <2>1. /\ Notify("model_update", n) /\ ready' = ready /\ packages' = packages
        /\ i # 0 /\ models' = [models EXCEPT ![i] = e]
        /\ "model_update" \in EventKinds /\ "model_update" \notin PkgKinds \cup ModelKinds
    BY <1>9 DEF ModelUpdate, tableVars, EventKinds, PkgKinds, ModelKinds
  <2>2. i \in DOMAIN models /\ models[i].name = n
    BY <1>0, <2>1, FirstNamedFinds
  <2> HIDE DEF i
  <2>3. models[i] \in ModelProfile
    BY <1>0, <2>2
  <2>4. p \in ModelProfile /\ p.name = n /\ p.loaded = models[i].loaded
    BY <2>2, <2>3 DEF ModelProfile
  <2> HIDE DEF p
  <2>5. e \in ModelProfile /\ e.name = n /\ e.loaded = models[i].loaded
    BY <1>0, <2>4, ProfiledType
  <2> HIDE DEF e
  <2>6. \A m : SameModel(m)
    BY <1>0, <2>1, <2>5, ModelPut DEF i
  <2>7. RingInv'
    BY <1>0, <2>1, RingNotified
  <2>8. ToldInv'
    BY <1>0, <1>a, <2>1, <2>6, ToldNotify
  <2> QED BY <1>a, <2>1, <2>7, <2>8
<1>10. ASSUME NEW n \in Names, NEW on \in BOOLEAN, SetLoaded(n, on)
       PROVE  RingInv' /\ FirstInv' /\ ToldInv'
  <2> DEFINE i == FirstNamed(models, n)
  <2> DEFINE e == [models[i] EXCEPT !.loaded = on]
  <2> DEFINE what == IF on THEN "model_load" ELSE "model_unload"
  <2>1. /\ Notify(what, n) /\ ready' = ready /\ packages' = packages
        /\ i # 0 /\ models' = [models EXCEPT ![i] = e]
    BY <1>10 DEF SetLoaded, tableVars
  <2>2. what \in EventKinds /\ what \notin PkgKinds /\ on = (what = "model_load")
    BY DEF EventKinds, PkgKinds
  <2>3. i \in DOMAIN models /\ models[i].name = n
    BY <1>0, <2>1, FirstNamedFinds
  <2> HIDE DEF i, what
  <2>4. models[i] \in ModelProfile
    BY <1>0, <2>3
  <2>5. e \in ModelProfile /\ e.name = n /\ e.loaded = on
    BY <2>3, <2>4 DEF ModelProfile
  <2> HIDE DEF e
  <2>6. /\ \A m : m # n => SameModel(m)
        /\ FirstNamed(models', n) # 0
        /\ LoadedIn(models')[FirstNamed(models', n)] = e.loaded
    BY <1>0, <2>1, <2>5, ModelPut DEF i
  <2>7. RingInv'
    BY <1>0, <2>1, <2>2, RingNotified
  <2>8. what \in ModelKinds =>
           /\ FirstNamed(models', n) # 0
           /\ (LoadedIn(models')[FirstNamed(models', n)] <=> what = "model_load")
    BY <2>2, <2>5, <2>6
  <2>9. \A m : SamePkg(m)
    BY <1>a, <2>1
  <2>10. what \in ModelKinds
    BY DEF what, ModelKinds
  <2>11. \A m : ~ (what \in ModelKinds /\ m = n) => SameModel(m)
    BY <2>6, <2>10
  <2>12. KernelTypeOK /\ ToldInv /\ n \in Names \cup {KernelName}
    BY <1>0
  <2>13. ToldInv'
    BY <2>1, <2>2, <2>8, <2>9, <2>11, <2>12, ToldNotify
  <2> QED BY <1>a, <2>1, <2>7, <2>13
<1>11. CASE \/ UpdateInner("set") \/ OverlayInit(1) \/ OverlayWrite(1)
            \/ ClearOverride \/ DetectTier \/ \E t \in {0, 2} : SetOverride(t)
            \/ \E n \in Names \cup {KernelName}, s \in {"active", "error"} : UpdateModule(n, s)
  BY <1>c, <1>11 DEF UpdateInner, OverlayInit, OverlayWrite, ClearOverride, DetectTier,
                     SetOverride, UpdateModule, logVars, tableVars
<1> QED BY <1>1, <1>2, <1>3, <1>4, <1>5, <1>6, <1>7, <1>8, <1>9, <1>10, <1>11
        DEF Call, PkgOrNsCall, ModelCall

\* Every step keeps the invariant.
LEMMA KernelInvNext == KernelInv /\ [KernelNext]_kernelVars => KernelInv'
<1> SUFFICES ASSUME KernelInv, [KernelNext]_kernelVars PROVE KernelInv'
  OBVIOUS
<1>1. KernelTypeOK'
  BY TypeNext DEF KernelInv
<1>2. CASE KernelNext /\ Call
  BY <1>1, <1>2, ToldCall DEF KernelInv
<1>3. CASE UNCHANGED kernelVars \/ \E path \in Paths : FileChanges(path)
  <2>1. /\ events' = events /\ steps' = steps /\ ready' = ready
        /\ packages' = packages /\ models' = models
    BY <1>3 DEF kernelVars, FileChanges, logVars, tableVars
  <2>2. RingInv' /\ FirstInv'
    BY <2>1 DEF KernelInv, RingInv, FirstInv
  <2>3. ToldInv'
    BY <2>1, FoundSame, ToldQuiet DEF KernelInv
  <2> QED BY <1>1, <2>2, <2>3 DEF KernelInv
<1> QED BY <1>2, <1>3 DEF KernelNext

\* The ring, what it tells and the first entries of the packages are as they should be
\* in every state.
THEOREM InductiveInvariant == KernelSpec => []KernelInv
<1>1. ASSUME KernelInit PROVE KernelInv
  <2>1. KernelTypeOK
    BY <1>1, TypeInit
  <2>2. Latest(<<>>, 0)
    BY LimitsAssumption DEF Latest
  <2> QED BY <1>1, <2>1, <2>2 DEF KernelInit, KernelInv, RingInv, FirstInv, ToldInv
<1> QED BY <1>1, KernelInvNext, PTL DEF KernelSpec

\* The newest event about a name is an event of the ring, and no later one is about it.
LEMMA NewestIsLast ==
  ASSUME KernelTypeOK, NEW kinds, NEW n, "none" \notin EventKinds,
         NewestAbout(kinds, n) # "none"
  PROVE  \E i \in DOMAIN events :
           /\ events[i].what \in kinds /\ events[i].of = n
           /\ NewestAbout(kinds, n) = events[i].what
           /\ \A j \in DOMAIN events :
                j > i => ~ (events[j].what \in kinds /\ events[j].of = n)
<1> DEFINE at == {i \in DOMAIN events : events[i].what \in kinds /\ events[i].of = n}
<1>1. DOMAIN events = 1 .. Len(events) /\ Len(events) \in Nat
  BY DEF KernelTypeOK
<1>2. at # {}
  BY DEF NewestAbout
<1>3. at \subseteq 0 .. Len(events)
  BY <1>1
<1>4. \E i \in at : \A j \in at : j <= i
  BY <1>1, <1>2, <1>3, GreatestOfNat
<1> DEFINE last == CHOOSE i \in at : \A j \in at : j <= i
<1>5. last \in at /\ \A j \in at : j <= last
  BY <1>4
<1>6. NewestAbout(kinds, n) = events[last].what
  BY <1>2 DEF NewestAbout
<1> HIDE DEF last
<1>7. ASSUME NEW j \in DOMAIN events, j > last
      PROVE  ~ (events[j].what \in kinds /\ events[j].of = n)
  <2>1. j \in Nat /\ last \in Nat
    BY <1>1, <1>5
  <2>2. ~ (j <= last)
    BY <1>7, <2>1
  <2> QED BY <1>5, <2>2
<1> QED BY <1>5, <1>6, <1>7

\* As many packages are installed as names of installed packages.
LEMMA InstalledOnce ==
  ASSUME KernelTypeOK, FirstInv
  PROVE  Report.installed =
           Cardinality({packages[i].name : i \in {j \in DOMAIN packages : packages[j].installed}})
<1> DEFINE S == {i \in DOMAIN packages : packages[i].installed}
<1> DEFINE T == {packages[i].name : i \in S}
<1> DEFINE f == [i \in S |-> packages[i].name]
<1>1. DOMAIN packages = 1 .. Len(packages) /\ Len(packages) \in Nat
  BY DEF KernelTypeOK
<1>2. IsFiniteSet(S)
  <2>1. IsFiniteSet(1 .. Len(packages))
    BY <1>1, FS_Interval
  <2>2. S \subseteq 1 .. Len(packages)
    BY <1>1
  <2> QED BY <2>1, <2>2, FS_Subset
<1>3. f \in Bijection(S, T)
  <2>1. f \in [S -> T]
    OBVIOUS
  <2>2. ASSUME NEW i \in S, NEW j \in S, f[i] = f[j] PROVE i = j
    <3>1. packages[i].name = packages[j].name /\ packages[i].installed /\ packages[j].installed
      BY <2>2
    <3>2. i <= j /\ j <= i
      BY <3>1 DEF FirstInv
    <3>3. i \in Nat /\ j \in Nat
      BY <1>1
    <3> QED BY <3>2, <3>3
  <2>3. \A t \in T : \E i \in S : f[i] = t
    OBVIOUS
  <2> QED BY <2>1, <2>2, <2>3 DEF Bijection, Injection, Surjection, IsInjective
<1>4. Cardinality(T) = Cardinality(S)
  <2> HIDE DEF S, T, f
  <2> QED BY <1>2, <1>3, FS_Bijection DEF ExistsBijection
<1> QED BY <1>4 DEF Report

\* What the event ring and the report tell agrees with the tables.
THEOREM LogTells == KernelSpec => []LogTellsTables
<1>1. ASSUME KernelInv PROVE LogTellsTables
  <2>0. KernelTypeOK /\ RingInv /\ FirstInv /\ ToldInv
    BY <1>1 DEF KernelInv
  <2>1. "none" \notin EventKinds
    BY DEF EventKinds
  <2>2. ASSUME ready, NEW n \in Names, NewestAbout(PkgKinds, n) # "none"
        PROVE  /\ FirstNamed(packages, n) # 0
               /\ packages[FirstNamed(packages, n)].installed =
                    (NewestAbout(PkgKinds, n) = "pkg_install")
    <3>1. PICK i \in DOMAIN events :
            /\ events[i].what \in PkgKinds /\ events[i].of = n
            /\ NewestAbout(PkgKinds, n) = events[i].what
            /\ \A j \in DOMAIN events :
                 j > i => ~ (events[j].what \in PkgKinds /\ events[j].of = n)
      BY <2>0, <2>1, <2>2, NewestIsLast
    <3>2. /\ FirstNamed(packages, n) # 0
          /\ InstalledIn(packages)[FirstNamed(packages, n)] <=> events[i].what = "pkg_install"
      BY <2>0, <2>2, <3>1 DEF ToldInv, ToldIn
    <3>3. packages \in Seq(Package)
      BY <2>0 DEF KernelTypeOK
    <3>4. FirstNamed(packages, n) \in DOMAIN packages
      BY <3>2, <3>3, FirstNamedFinds
    <3>5. packages[FirstNamed(packages, n)].installed \in BOOLEAN
      <4>1. packages[FirstNamed(packages, n)] \in Package
        BY <3>3, <3>4
      <4> QED BY <4>1 DEF Package
    <3>6. packages[FirstNamed(packages, n)].installed <=> events[i].what = "pkg_install"
      BY <3>2, <3>4, FlagAt
    <3> QED BY <3>1, <3>2, <3>5, <3>6
  <2>3. ASSUME ready, NEW n \in Names, NewestAbout(ModelKinds, n) # "none"
        PROVE  /\ FirstNamed(models, n) # 0
               /\ models[FirstNamed(models, n)].loaded =
                    (NewestAbout(ModelKinds, n) = "model_load")
    <3>1. PICK i \in DOMAIN events :
            /\ events[i].what \in ModelKinds /\ events[i].of = n
            /\ NewestAbout(ModelKinds, n) = events[i].what
            /\ \A j \in DOMAIN events :
                 j > i => ~ (events[j].what \in ModelKinds /\ events[j].of = n)
      BY <2>0, <2>1, <2>3, NewestIsLast
    <3>2. /\ FirstNamed(models, n) # 0
          /\ LoadedIn(models)[FirstNamed(models, n)] <=> events[i].what = "model_load"
      BY <2>0, <2>3, <3>1 DEF ToldInv, ToldIn
    <3>3. models \in Seq(ModelProfile)
      BY <2>0 DEF KernelTypeOK
    <3>4. FirstNamed(models, n) \in DOMAIN models
      BY <3>2, <3>3, FirstNamedFinds
    <3>5. models[FirstNamed(models, n)].loaded \in BOOLEAN
      <4>1. models[FirstNamed(models, n)] \in ModelProfile
        BY <3>3, <3>4
      <4> QED BY <4>1 DEF ModelProfile
    <3>6. models[FirstNamed(models, n)].loaded <=> events[i].what = "model_load"
      BY <3>2, <3>4, FlagAt
    <3> QED BY <3>1, <3>2, <3>5, <3>6
  <2>4. /\ Len(events) = IF steps < MaxEvents THEN steps ELSE MaxEvents
        /\ \A i \in DOMAIN events : events[i].no = steps - Len(events) + i
    BY <2>0 DEF RingInv, Latest
  <2>5. Report.installed =
          Cardinality({packages[i].name : i \in {j \in DOMAIN packages : packages[j].installed}})
    BY <2>0, InstalledOnce
  <2> QED BY <2>0, <2>2, <2>3, <2>4, <2>5 DEF LogTellsTables, PkgKinds, ModelKinds
<1> QED BY <1>1, InductiveInvariant, PTL

----------------------------------------------------------------------------
(* The mhx terminal. *)

Modes    == {"repl", "line", "once", "exec"}
Pcs      == {"loop", "read", "split", "dispatch", "make", "child", "exit", "done"}
Reports == {"OK", "EXIT", "HOST_FAIL", "BAD_ARGS"}
Failures == {"HOST_FAIL", "BAD_ARGS"}
Pieces   == [cmd : Commands, line : Nat, part : Nat]
Places   == Nat \X Nat

\* What a command may come to: an answer of mhx itself, or a program to run.
Answers  == [do : {"none"}, status : Reports]
RunPlans == [do : {"run"}, prog : Programs, none : Failures, signalled : Failures,
             failed : Failures, unseen : Failures \cup {"OK"}, builds : BOOLEAN]

----------------------------------------------------------------------------
(* The inductive invariant.                                                *)

\* The types, the sequences among them; while a child or its build is at work, the
\* plan it was started for is a program's.
TypeInv ==
  /\ mode \in Modes /\ tty \in BOOLEAN /\ script \in Scripts
  /\ typed \in 0 .. Len(script) /\ inputClosed \in BOOLEAN
  /\ input \in Seq(Pieces) /\ stdio \in Seq(Pieces) /\ piece \in Pieces
  /\ pc \in Pcs /\ argc \in Nat /\ (mode # "exec" => argc + 1 <= MaxArgv)
  /\ built \subseteq Installed
  /\ IF pc \in {"make", "child"} THEN child \in RunPlans ELSE child = Nothing
  /\ cwd \in {"start", "root"} /\ startGone \in BOOLEAN
  /\ status \in Reports /\ lastChild \in {"none"} \cup Ends
  /\ ran \in Seq(Places) /\ taken \in Seq(Places) /\ heard \in BOOLEAN
  /\ out \in Seq(Nat) /\ screen \in Seq(Nat)

\* With -c and --exec there is one command, and no loop.
OnceInv == mode \in {"once", "exec"} => pc \notin {"loop", "read"}

\* A line without words is dispatched without words.
BlankInv == pc = "dispatch" /\ piece.cmd.words = 0 => argc = 0

\* CommandEndsClean, and what keeps it: a build begins with no child to report, and
\* only while it lasts is mhx elsewhere than where it was started.
CleanInv ==
  /\ pc = "make" => lastChild = "none"
  /\ pc \in {"loop", "exit"} /\ lastChild \notin {"none", "unseen"}
       => (status = "OK" <=> lastChild = "ok")
  /\ pc # "make" => cwd = "start" \/ startGone

\* The lines of a terminal come one at a time: a line is one piece, the lines that wait
\* were typed one after the other, and the buffer of mhx holds the line it is about to
\* take or nothing.
LineInv ==
  tty => /\ \A l \in DOMAIN script : Len(script[l]) = 1
         /\ \A i \in DOMAIN input : input[i].line <= typed
         /\ \A i, j \in DOMAIN input : i < j => input[i].line < input[j].line
         /\ Len(stdio) <= 1 /\ (stdio # <<>> => pc = "read")

\* The pieces that were taken are those that ran, the one at work and those that wait in
\* the buffer.
Given   == IF mode \in {"once", "exec"} THEN <<<<1, 1>>>> ELSE <<>>
AtWork  == IF pc \in {"split", "dispatch"} THEN <<<<piece.line, piece.part>>>> ELSE <<>>
TakenInv == Given \o taken = (ran \o AtWork) \o Where(stdio)

\* s rises, and nothing in it is beyond n.
RisesTo(s, n) == /\ \A i, j \in DOMAIN s : i < j => s[i] <= s[j]
                 /\ \A i \in DOMAIN s : s[i] <= n

\* With a prompt or a terminal nothing waits in the buffer of mhx while a command is
\* at work.
ShownInv ==
  tty \/ mode # "line" => /\ RisesTo(screen \o out, Len(ran))
                          /\ out # <<>> => ~tty /\ pc \in {"loop", "exit"}

TerminalInv == /\ TypeInv /\ OnceInv /\ BlankInv /\ CleanInv /\ LineInv /\ TakenInv /\ ShownInv

----------------------------------------------------------------------------
(* What a command comes to.                                                *)

\* A set of natural numbers that is not empty has a least element.
LEMMA MinIsLeast ==
  ASSUME NEW T, T \subseteq Nat, T # {}
  PROVE  \E x \in T : \A y \in T : x <= y
<1> DEFINE Below == {1 .. x : x \in T}
<1>1. Below \subseteq FiniteSubsetsOf(Nat)
  <2>1. \A x \in T : IsFiniteSet(1 .. x) /\ 1 .. x \subseteq Nat
    BY FS_Interval
  <2> QED BY <2>1 DEF FiniteSubsetsOf
<1>2. Below # {}
  OBVIOUS
<1>3. IsWellFoundedOn(StrictSubsetOrdering(Nat), FiniteSubsetsOf(Nat))
  BY FS_StrictSubsetOrderingWellFounded
<1>4. PICK b \in Below : \A c \in Below : ~ (<<c, b>> \in StrictSubsetOrdering(Nat))
  BY <1>1, <1>2, <1>3, WFMin
<1>5. PICK x \in T : b = 1 .. x
  OBVIOUS
<1>6. ASSUME NEW y \in T PROVE x <= y
  <2>1. ~ (<<1 .. y, 1 .. x>> \in StrictSubsetOrdering(Nat))
    BY <1>4, <1>5
  <2>2. <<1 .. y, 1 .. x>> \in (SUBSET Nat) \X (SUBSET Nat)
    OBVIOUS
  <2>3. SUFFICES ASSUME y < x PROVE FALSE
    OBVIOUS
  <2>4. x \in 1 .. x /\ x \notin 1 .. y
    BY <2>3
  <2>5. 1 .. y \subseteq 1 .. x
    BY <2>3
  <2> QED BY <2>1, <2>2, <2>4, <2>5 DEF StrictSubsetOrdering
<1> QED BY <1>6

\* The slot a name finds is a line of the manifest, and its target a program
\* (mhx_find_slot).
LEMMA SlotIsFound ==
  ASSUME TerminalAssumption, NEW c,
         {i \in LoadedSlots : Manifest[i].name = c.arg} # {}
  PROVE  LET named == {i \in LoadedSlots : Manifest[i].name = c.arg}
         IN Manifest[CHOOSE i \in named : \A j \in named : i <= j].target \in Programs
<1> DEFINE named == {i \in LoadedSlots : Manifest[i].name = c.arg}
<1>1. Manifest \in Seq([name : STRING, target : Programs, fields : Nat])
  BY DEF TerminalAssumption
<1>2. LoadedSlots \subseteq DOMAIN Manifest
  BY DEF LoadedSlots
<1>3. named \subseteq Nat /\ named # {} /\ named \subseteq DOMAIN Manifest
  BY <1>1, <1>2
<1>4. \E x \in named : \A y \in named : x <= y
  BY <1>3, MinIsLeast
<1> HIDE DEF named
<1>5. (CHOOSE i \in named : \A j \in named : i <= j) \in named
  BY <1>4
<1>6. (CHOOSE i \in named : \A j \in named : i <= j) \in DOMAIN Manifest
  BY <1>3, <1>5
<1>7. \A i \in DOMAIN Manifest : Manifest[i].target \in Programs
  <2> DEFINE Lines == [name : STRING, target : Programs, fields : Nat]
  <2>1. Manifest \in Seq(Lines)
    BY <1>1
  <2>2. \A x \in Lines : x.target \in Programs
    OBVIOUS
  <2> HIDE DEF Lines
  <2> QED BY <2>1, <2>2
<1>8. Manifest[CHOOSE i \in named : \A j \in named : i <= j].target \in Programs
  BY <1>6, <1>7
<1> QED BY <1>8 DEF named

\* A program that is run is known, and what is reported of its failure is a failure.
LEMMA RunIsPlan ==
  ASSUME NEW p \in Programs, NEW x \in Failures, NEW y \in Failures, NEW z \in Failures
  PROVE  /\ Run(p, x, y, z) \in RunPlans
         /\ [Run(p, x, y, z) EXCEPT !.builds = TRUE] \in RunPlans
         /\ [Run(p, x, y, z) EXCEPT !.unseen = "OK"] \in RunPlans
BY DEF Run, RunPlans

\* What passes its arguments through is a program of the same kind.
LEMMA PassThroughIsPlan ==
  ASSUME NEW p \in Programs
  PROVE  /\ PassThrough(p) \in RunPlans
         /\ [PassThrough(p) EXCEPT !.builds = TRUE] \in RunPlans
BY RunIsPlan DEF PassThrough, Failures

\* An answer is one of the statuses.
LEMMA ReturnIsAnswer ==
  ASSUME NEW st \in Reports
  PROVE  Return(st) \in Answers
BY DEF Return, Answers

\* Every builtin answers, or names a program to run (mhx_run_builtin and the builtins
\* it calls).
LEMMA BuiltinsArePlans ==
  ASSUME TerminalAssumption, argc \in Nat, NEW c \in Commands,
         c.verb \notin {"", "exit", "host", "/quit"}
  PROVE  BuiltinPlan(c) \in Answers \cup RunPlans
<1> DEFINE Plans == Answers \cup RunPlans
<1>0. /\ Return("OK") \in Plans /\ Return("BAD_ARGS") \in Plans /\ Return("HOST_FAIL") \in Plans
  BY ReturnIsAnswer DEF Reports
<1>1. \A p \in Programs : /\ PassThrough(p) \in Plans
                          /\ [PassThrough(p) EXCEPT !.builds = TRUE] \in Plans
                          /\ \A x, y, z \in Failures :
                               /\ Run(p, x, y, z) \in Plans
                               /\ [Run(p, x, y, z) EXCEPT !.unseen = "OK"] \in Plans
  BY RunIsPlan, PassThroughIsPlan
<1> HIDE DEF Plans
<1>2. /\ \A x, y, z \in Failures : /\ Run("dario", x, y, z) \in Plans /\ Run("aml", x, y, z) \in Plans
                                   /\ Run("notorch_test", x, y, z) \in Plans
                                   /\ [Run("install", x, y, z) EXCEPT !.unseen = "OK"] \in Plans
                                   /\ Run("mesh-agent", x, y, z) \in Plans
      /\ PassThrough("dario") \in Plans /\ PassThrough("aml") \in Plans /\ PassThrough("amlc") \in Plans
      /\ [PassThrough("nanollama") EXCEPT !.builds = TRUE] \in Plans
      /\ [PassThrough("infer_llama") EXCEPT !.builds = TRUE] \in Plans
  BY <1>1 DEF Programs
<1>3. "HOST_FAIL" \in Failures /\ "BAD_ARGS" \in Failures
  BY DEF Failures
<1>4. HeartPlan(c) \in Plans
  BY <1>0, <1>2, <1>3 DEF HeartPlan
<1>5. AmlPlan(c) \in Plans
  BY <1>0, <1>2, <1>3 DEF AmlPlan
<1>6. NotorchPlan(c) \in Plans
  BY <1>0, <1>2, <1>3 DEF NotorchPlan
<1>7. InstallPlan(c) \in Plans
  BY <1>0, <1>2, <1>3 DEF InstallPlan
<1>8. TrainPlan(c) \in Plans
  BY <1>0, <1>2, <1>3 DEF TrainPlan
<1>9. InferPlan(c) \in Plans
  BY <1>0, <1>2, <1>3 DEF InferPlan
<1>10. SlotsPlan(c) \in Plans
  <2> DEFINE named == {i \in LoadedSlots : Manifest[i].name = c.arg}
             slot == Manifest[CHOOSE i \in named : \A j \in named : i <= j]
  <2>1. named # {} => PassThrough(slot.target) \in Plans
    BY SlotIsFound, <1>1
  <2>2. SlotPlan(c) = CASE argc < 3 \/ c.sub = "list" -> Return("OK")
       [] argc >= 3 /\ c.sub \notin {"list", "show", "run"} -> Return("BAD_ARGS")
       [] argc = 3 /\ c.sub \in {"show", "run"} -> Return("BAD_ARGS")
       [] argc > 3 /\ c.sub = "show" -> Return(IF named = {} THEN "BAD_ARGS" ELSE "OK")
       [] OTHER -> IF named = {} THEN Return("BAD_ARGS")
                   ELSE IF c.arg = "nanollama" /\ argc >= 5 /\ c.help THEN Return("OK")
                   ELSE PassThrough(slot.target)
    BY DEF SlotPlan
  <2> HIDE DEF named, slot
  <2>3. SlotPlan(c) \in Plans
    BY <1>0, <2>1, <2>2
  <2> QED BY <1>0, <2>3 DEF SlotsPlan
<1>11. MeshPlan(c) \in Plans
  BY <1>0, <1>2, <1>3 DEF MeshPlan
<1>12. c.verb \in Verbs
  BY DEF Commands
<1>13. BuiltinPlan(c) \in Plans
  BY <1>0, <1>4, <1>5, <1>6, <1>7, <1>8, <1>9, <1>10, <1>11, <1>12 DEF BuiltinPlan, Verbs
<1> QED BY <1>13 DEF Plans

\* So does every command (mhx_dispatch, mhx_dispatch_argv).
LEMMA PlanIsTyped ==
  ASSUME TerminalAssumption, argc \in Nat, NEW c \in Commands,
         c.words = 0 => argc = 0
  PROVE  Plan(c) \in Answers \cup RunPlans
<1>1. Return("OK") \in Answers /\ Return("BAD_ARGS") \in Answers /\ Return("EXIT") \in Answers
  BY ReturnIsAnswer DEF Reports
<1>2. Run("shell", "HOST_FAIL", "HOST_FAIL", "HOST_FAIL") \in RunPlans
  BY RunIsPlan DEF Programs, Failures
<1>3. argc # 0 => c.verb # ""
  BY DEF Commands
<1>4. argc # 0 /\ c.verb # "exit" /\ c.verb \notin HostVerbs => BuiltinPlan(c) \in Answers \cup RunPlans
  BY <1>3, BuiltinsArePlans DEF HostVerbs
<1> QED BY <1>1, <1>2, <1>4 DEF Plan

----------------------------------------------------------------------------
(* Pieces that wait, and pieces that are read.                             *)

\* Where keeps the number and the order of the pieces.
LEMMA WhereIsSeq ==
  ASSUME NEW p \in Seq(Pieces)
  PROVE  /\ Where(p) \in Seq(Places) /\ Len(Where(p)) = Len(p)
         /\ \A i \in 1 .. Len(p) : Where(p)[i] = <<p[i].line, p[i].part>>
<1>1. DOMAIN p = 1 .. Len(p) /\ Len(p) \in Nat
  OBVIOUS
<1>2. \A i \in 1 .. Len(p) : p[i] \in Pieces
  OBVIOUS
<1>3. \A x \in Pieces : <<x.line, x.part>> \in Places
  BY DEF Pieces, Places
<1> HIDE DEF Pieces, Places
<1>4. \A i \in 1 .. Len(p) : <<p[i].line, p[i].part>> \in Places
  BY <1>2, <1>3
<1>5. Where(p) = [i \in 1 .. Len(p) |-> <<p[i].line, p[i].part>>]
  BY <1>1 DEF Where
<1>6. Where(p) \in [1 .. Len(p) -> Places]
  BY <1>4, <1>5
<1>7. Where(p) \in Seq(Places)
  BY <1>1, <1>6
<1>8. Len(Where(p)) = Len(p)
  BY <1>1, <1>6, <1>7
<1> QED BY <1>5, <1>7, <1>8

\* The piece that is taken first, and the rest.
LEMMA WhereSplits ==
  ASSUME NEW p \in Seq(Pieces), p # <<>>
  PROVE  /\ Head(p) \in Pieces /\ Tail(p) \in Seq(Pieces)
         /\ <<Head(p).line, Head(p).part>> \in Places
         /\ Where(p) = <<<<Head(p).line, Head(p).part>>>> \o Where(Tail(p))
<1> DEFINE w == <<Head(p).line, Head(p).part>>
<1>1. /\ Head(p) \in Pieces /\ Tail(p) \in Seq(Pieces) /\ Len(Tail(p)) = Len(p) - 1
      /\ \A i \in 1 .. Len(Tail(p)) : Tail(p)[i] = p[i + 1]
  BY HeadTailProperties
<1>2. \A x \in Pieces : <<x.line, x.part>> \in Places
  BY DEF Pieces, Places
<1>3. w \in Places
  BY <1>1, <1>2
<1>4. Len(p) \in Nat /\ Len(p) # 0 /\ Head(p) = p[1]
  OBVIOUS
<1>5. /\ Where(p) \in Seq(Places) /\ Len(Where(p)) = Len(p)
      /\ \A i \in 1 .. Len(p) : Where(p)[i] = <<p[i].line, p[i].part>>
  BY WhereIsSeq
<1>6. /\ Where(Tail(p)) \in Seq(Places) /\ Len(Where(Tail(p))) = Len(p) - 1
      /\ \A i \in 1 .. Len(p) - 1 : Where(Tail(p))[i] = <<p[i + 1].line, p[i + 1].part>>
  BY <1>1, WhereIsSeq
<1>7. <<w>> \in Seq(Places) /\ Len(<<w>>) = 1 /\ <<w>>[1] = w
  BY <1>3
<1> DEFINE W == Where(p)
           V == Where(Tail(p))
           u == <<w>>
<1>8. W[1] = w
  BY <1>4, <1>5
<1>9. \A i \in 2 .. Len(p) : W[i] = V[i - 1]
  <2> TAKE i \in 2 .. Len(p)
  <2>1. i - 1 \in 1 .. Len(p) - 1 /\ i \in 1 .. Len(p) /\ (i - 1) + 1 = i
    BY <1>4
  <2> QED BY <1>5, <1>6, <2>1
<1>10. W \in Seq(Places) /\ V \in Seq(Places) /\ u \in Seq(Places) /\ Len(u) = 1 /\ u[1] = w
       /\ Len(W) = Len(p) /\ Len(V) = Len(p) - 1
  BY <1>5, <1>6, <1>7
<1> HIDE DEF W, V, u, w
<1>11. u \o V \in Seq(Places) /\ Len(u \o V) = Len(p)
       /\ \A i \in 1 .. Len(p) : (u \o V)[i] = IF i <= 1 THEN u[i] ELSE V[i - 1]
  <2>1. /\ u \o V \in Seq(Places) /\ Len(u \o V) = Len(u) + Len(V)
        /\ \A i \in 1 .. Len(u) + Len(V) : (u \o V)[i] = IF i <= Len(u) THEN u[i] ELSE V[i - Len(u)]
    <3>1. u \in Seq(Places) /\ V \in Seq(Places)
      BY <1>10
    <3> QED BY ONLY <3>1, ConcatProperties
  <2>2. Len(u) + Len(V) = Len(p) /\ Len(u) = 1
    BY <1>4, <1>10
  <2> QED BY <2>1, <2>2
<1>12. \A i \in 1 .. Len(p) : W[i] = (u \o V)[i]
  BY <1>4, <1>8, <1>9, <1>10, <1>11
<1>13. W = u \o V
  BY <1>10, <1>11, <1>12, SeqEqual
<1> QED BY <1>1, <1>3, <1>13 DEF W, V, u, w

\* What has one element is not empty.
LEMMA NotEmpty ==
  ASSUME NEW s, Len(s) = 1
  PROVE  s # <<>>
<1>1. Len(<<>>) = 0
  OBVIOUS
<1> QED BY <1>1

\* Who reads takes something and leaves the rest as it was; from a terminal whose
\* lines are one piece each, one piece.
LEMMA ReadFromSplits ==
  ASSUME tty \in BOOLEAN, NEW p \in Seq(Pieces), p # <<>>,
         tty => \A i, j \in DOMAIN p : i < j => p[i].line < p[j].line
  PROVE  /\ ReadFrom(p) \in Seq(Pieces) /\ ReadFrom(p) # <<>>
         /\ Rest(p, ReadFrom(p)) \in Seq(Pieces)
         /\ tty => /\ Len(ReadFrom(p)) = 1
                   /\ Len(Rest(p, ReadFrom(p))) = Len(p) - 1
                   /\ \A i \in 1 .. Len(p) - 1 : Rest(p, ReadFrom(p))[i] = p[i + 1]
<1>0. Len(p) \in Nat /\ Len(p) # 0 /\ DOMAIN p = 1 .. Len(p) /\ \A i \in 1 .. Len(p) : p[i] \in Pieces
  OBVIOUS
<1>1. CASE ~tty
  <2>1. ReadFrom(p) = p
    BY <1>1 DEF ReadFrom
  <2>2. Rest(p, p) = <<>>
    <3>1. Len(p) + 1 \in Int /\ Len(p) \in Int /\ Len(p) < Len(p) + 1
      BY <1>0
    <3> QED BY <3>1, SubSeqEmpty DEF Rest
  <2> QED BY <1>1, <2>1, <2>2
<1>2. CASE tty
  <2>1. FirstLine(p) = {1}
    <3>1. 1 \in FirstLine(p)
      BY <1>0 DEF FirstLine
    <3>2. ASSUME NEW i \in FirstLine(p) PROVE i = 1
      <4>1. i \in 1 .. Len(p) /\ p[i].line = p[1].line
        BY <1>0 DEF FirstLine
      <4>2. p[1].line \in Nat
        BY <1>0 DEF Pieces
      <4>3. 1 < i => p[1].line < p[i].line
        BY <1>0, <1>2, <4>1
      <4> QED BY <4>1, <4>2, <4>3
    <3> QED BY <3>1, <3>2
  <2>2. ReadFrom(p) = SubSeq(p, 1, 1)
    BY <1>2, <2>1, FS_Singleton DEF ReadFrom
  <2>3. /\ ReadFrom(p) \in Seq(Pieces) /\ Len(ReadFrom(p)) = 1
    <3>1. 1 \in Int /\ \A i \in 1 .. 1 : p[i] \in Pieces
      BY <1>0
    <3>2. SubSeq(p, 1, 1) \in Seq(Pieces) /\ Len(SubSeq(p, 1, 1)) = IF 1 <= 1 THEN 1 - 1 + 1 ELSE 0
      BY <3>1, SubSeqProperties
    <3> QED BY <2>2, <3>2
  <2>4. Rest(p, ReadFrom(p)) = SubSeq(p, 2, Len(p))
    BY <2>3 DEF Rest
  <2>5. Tail(p) = SubSeq(p, 2, Len(p))
    BY TailIsSubSeq
  <2>6. /\ Tail(p) \in Seq(Pieces) /\ Len(Tail(p)) = Len(p) - 1
        /\ \A i \in 1 .. Len(Tail(p)) : Tail(p)[i] = p[i + 1]
    BY HeadTailProperties
  <2>7. ReadFrom(p) # <<>>
    BY <2>3, NotEmpty
  <2> QED BY <2>3, <2>4, <2>5, <2>6, <2>7
<1> QED BY <1>1, <1>2

\* What is typed are pieces of the line that was typed.
TypedPieces(l) == [p \in DOMAIN script[l] |-> [cmd |-> script[l][p], line |-> l, part |-> p]]

\* One line of the session is as many pieces as it has commands, all of that line.
LEMMA TypedIsSeq ==
  ASSUME SomethingIsTyped, script \in Scripts, NEW l \in 1 .. Len(script)
  PROVE  /\ TypedPieces(l) \in Seq(Pieces) /\ Len(TypedPieces(l)) = Len(script[l])
         /\ \A p \in 1 .. Len(script[l]) : TypedPieces(l)[p].line = l
         /\ l \in DOMAIN script
<1>1. script \in Seq(Seq(Commands))
  BY DEF SomethingIsTyped
<1>2. script[l] \in Seq(Commands) /\ l \in DOMAIN script /\ l \in Nat
  BY <1>1
<1>3. PICK s \in Seq(Commands) : s = script[l]
  BY <1>2
<1>4. DOMAIN s = 1 .. Len(s) /\ Len(s) \in Nat /\ \A p \in 1 .. Len(s) : s[p] \in Commands
  OBVIOUS
<1>5. TypedPieces(l) = [p \in 1 .. Len(s) |-> [cmd |-> s[p], line |-> l, part |-> p]]
  BY <1>3, <1>4 DEF TypedPieces
<1>6. \A p \in 1 .. Len(s) : [cmd |-> s[p], line |-> l, part |-> p] \in Pieces
  BY <1>2, <1>4 DEF Pieces
<1>7. \A p \in 1 .. Len(s) : TypedPieces(l)[p].line = l
  BY <1>5
<1>8. TypedPieces(l) \in [1 .. Len(s) -> Pieces]
  BY <1>5, <1>6
<1> HIDE DEF Pieces
<1>9. TypedPieces(l) \in Seq(Pieces)
  <2>1. PICK n \in Nat : n = Len(s)
    BY <1>4
  <2>2. TypedPieces(l) \in [1 .. n -> Pieces]
    BY <1>8, <2>1
  <2> QED BY <2>2, SeqDef
<1>10. Len(TypedPieces(l)) = Len(s)
  BY <1>4, <1>8, <1>9
<1> QED BY <1>2, <1>3, <1>7, <1>9, <1>10

----------------------------------------------------------------------------
(* The types.                                                              *)

\* A piece has a place in the session and a command.
LEMMA PieceIsTyped ==
  ASSUME NEW x \in Pieces
  PROVE  /\ <<x.line, x.part>> \in Places
         /\ x.cmd \in Commands /\ x.cmd.words \in Nat
BY DEF Pieces, Places, Commands

\* What mhx prints keeps its buffer and the screen sequences of numbers.
LEMMA PrintsTyped ==
  ASSUME NEW st, Prints(st), out \in Seq(Nat), screen \in Seq(Nat), ran' \in Seq(Places)
  PROVE  out' \in Seq(Nat) /\ screen' \in Seq(Nat)
<1>1. Len(ran') \in Nat
  OBVIOUS
<1>2. /\ out' = out \/ out' = Append(out, Len(ran'))
      /\ screen' = screen \/ screen' = Append(screen, Len(ran'))
  BY DEF Prints, screenVars
<1>3. \A s \in Seq(Nat) : \A n \in Nat : Append(s, n) \in Seq(Nat)
  OBVIOUS
<1> HIDE DEF Places
<1> QED BY <1>1, <1>2, <1>3

\* Every step of the terminal keeps the types.
LEMMA TypesKept ==
  ASSUME TerminalAssumption, SomethingIsTyped, TerminalInv, TerminalNext
  PROVE  TypeInv'
<1>0. TypeInv /\ BlankInv /\ LineInv
  BY DEF TerminalInv
<1> USE DEF fixedVars, ioVars, dirVars, screenVars, Nothing
<1>1. CASE Type
  <2>1. /\ typed' = typed + 1 /\ typed + 1 \in 1 .. Len(script)
        /\ input' = input \o TypedPieces(typed + 1)
    BY <1>0, <1>1 DEF TypeInv, Type, TypedPieces
  <2>2. TypedPieces(typed + 1) \in Seq(Pieces)
    BY <1>0, <2>1, TypedIsSeq DEF TypeInv
  <2>3. input' \in Seq(Pieces)
    BY <1>0, <2>1, <2>2, ConcatProperties DEF TypeInv
  <2> QED BY <1>0, <1>1, <2>1, <2>3 DEF TypeInv, Type
<1>2. CASE Close
  BY <1>0, <1>2 DEF TypeInv, Close
<1>3. CASE RemoveStart
  BY <1>0, <1>3 DEF TypeInv, RemoveStart
<1>4. CASE ShowPrompt
  <2>1. screen' \in Seq(Nat) /\ out' \in Seq(Nat)
    <3>1. screen \in Seq(Nat) /\ out \in Seq(Nat)
      BY <1>0 DEF TypeInv
    <3>2. screen \o out \in Seq(Nat) /\ <<>> \in Seq(Nat)
      BY <3>1, ConcatProperties
    <3> QED BY <1>4, <3>1, <3>2 DEF ShowPrompt
  <2> QED BY <1>0, <1>4, <2>1 DEF TypeInv, ShowPrompt, Pcs
<1>5. CASE FillStdio
  <2>1. /\ input # <<>> /\ stdio' = ReadFrom(input) /\ input' = Rest(input, ReadFrom(input))
        /\ taken' = taken \o Where(ReadFrom(input))
    BY <1>5 DEF FillStdio
  <2>2. ReadFrom(input) \in Seq(Pieces) /\ Rest(input, ReadFrom(input)) \in Seq(Pieces)
    BY <1>0, <2>1, ReadFromSplits DEF TypeInv, LineInv
  <2>3. Where(ReadFrom(input)) \in Seq(Places)
    BY <2>2, WhereIsSeq
  <2>4. taken' \in Seq(Places)
    <3>1. taken \in Seq(Places)
      BY <1>0 DEF TypeInv
    <3> QED BY <2>1, <2>3, <3>1, ConcatProperties
  <2>5. stdio' \in Seq(Pieces) /\ input' \in Seq(Pieces)
    BY <2>1, <2>2
  <2> QED BY <1>0, <1>5, <2>4, <2>5 DEF TypeInv, FillStdio
<1>6. CASE Take
  <2>1. Head(stdio) \in Pieces /\ Tail(stdio) \in Seq(Pieces)
    BY <1>0, <1>6, HeadTailProperties DEF TypeInv, Take
  <2> QED BY <1>0, <1>6, <2>1 DEF TypeInv, Take, Pcs
<1>7. CASE Eof
  <2>1. screen' \in Seq(Nat) /\ out' \in Seq(Nat)
    <3>1. screen \in Seq(Nat) /\ out \in Seq(Nat)
      BY <1>0 DEF TypeInv
    <3>2. screen \o out \in Seq(Nat) /\ <<>> \in Seq(Nat)
      BY <3>1, ConcatProperties
    <3> QED BY <1>7, <3>1, <3>2 DEF Eof
  <2> QED BY <1>0, <1>7, <2>1 DEF TypeInv, Eof, Pcs
<1>8. CASE Split
  <2>1. piece.cmd.words \in Nat /\ MaxArgv \in Nat \ {0}
    BY <1>0, PieceIsTyped DEF TypeInv, TerminalAssumption
  <2>2. argc' \in Nat /\ (mode # "exec" => argc' + 1 <= MaxArgv)
    BY <1>8, <2>1 DEF Split
  <2> QED BY <1>0, <1>8, <2>2 DEF TypeInv, Split, Pcs
<1>9. ASSUME pc = "dispatch"
      PROVE  /\ Plan(piece.cmd) \in Answers \cup RunPlans
             /\ Append(ran, <<piece.line, piece.part>>) \in Seq(Places)
  <2>1. <<piece.line, piece.part>> \in Places /\ piece.cmd \in Commands
    BY <1>0, PieceIsTyped DEF TypeInv
  <2>2. argc \in Nat /\ (piece.cmd.words = 0 => argc = 0) /\ ran \in Seq(Places)
    BY <1>0, <1>9 DEF TypeInv, BlankInv
  <2>3. Plan(piece.cmd) \in Answers \cup RunPlans
    BY <2>1, <2>2, PlanIsTyped
  <2>4. Append(ran, <<piece.line, piece.part>>) \in Seq(Places)
    BY <2>1, <2>2, AppendProperties
  <2> QED BY <2>3, <2>4
<1>10. CASE Answer
  <2>1. pc = "dispatch" /\ ran' = Append(ran, <<piece.line, piece.part>>)
    BY <1>10 DEF Answer
  <2>2. PICK plan \in Answers \cup RunPlans : plan = Plan(piece.cmd)
    BY <1>9, <2>1
  <2>3. ran' \in Seq(Places)
    BY <1>9, <2>1
  <2>4. status' = (IF plan.do = "none" THEN plan.status ELSE plan.none)
        /\ Prints(status')
    BY <1>10, <2>2 DEF Answer
  <2>5. status' \in Reports
    BY <2>4 DEF Answers, RunPlans, Reports, Failures
  <2>6. out' \in Seq(Nat) /\ screen' \in Seq(Nat)
    BY <1>0, <2>3, <2>4, PrintsTyped DEF TypeInv
  <2>7. pc' \in {"exit", "loop"} /\ lastChild' = "none"
    BY <1>10 DEF Answer, After
  <2>8. UNCHANGED <<fixedVars, ioVars, piece, argc, child, dirVars, heard, taken>>
    BY <1>10 DEF Answer
  <2> QED BY <1>0, <2>1, <2>3, <2>5, <2>6, <2>7, <2>8 DEF TypeInv, Pcs
<1>11. CASE SpawnPath
  <2>1. pc = "dispatch" /\ ran' = Append(ran, <<piece.line, piece.part>>)
    BY <1>11 DEF SpawnPath
  <2>2. PICK plan \in Answers \cup RunPlans : plan = Plan(piece.cmd)
    BY <1>9, <2>1
  <2>3. ran' \in Seq(Places)
    BY <1>9, <2>1
  <2>4. child' \in RunPlans /\ pc' = "child"
    BY <1>11, <2>2 DEF SpawnPath, Answers
  <2>5. heard' = FALSE
        /\ UNCHANGED <<fixedVars, ioVars, piece, argc, dirVars, status, screenVars, taken, lastChild>>
    BY <1>11 DEF SpawnPath
  <2> QED BY <1>0, <2>1, <2>3, <2>4, <2>5 DEF TypeInv, Pcs
<1>12. CASE MakeBegins
  <2>1. pc = "dispatch" /\ ran' = Append(ran, <<piece.line, piece.part>>)
    BY <1>12 DEF MakeBegins
  <2>2. PICK plan \in Answers \cup RunPlans : plan = Plan(piece.cmd)
    BY <1>9, <2>1
  <2>3. ran' \in Seq(Places)
    BY <1>9, <2>1
  <2>4. child' \in RunPlans /\ pc' = "make"
    BY <1>12, <2>2 DEF MakeBegins, Answers
  <2>5. cwd' = "root" /\ lastChild' = "none"
        /\ UNCHANGED <<fixedVars, ioVars, piece, argc, built, startGone, status, screenVars, heard, taken>>
    BY <1>12 DEF MakeBegins
  <2> QED BY <1>0, <2>1, <2>3, <2>4, <2>5 DEF TypeInv, Pcs
<1>13. CASE \E ok \in BOOLEAN : MakeEnds(ok)
  <2>1. PICK ok \in BOOLEAN : MakeEnds(ok)
    BY <1>13
  <2>2. child \in RunPlans /\ pc = "make"
    BY <1>0, <2>1 DEF TypeInv, MakeEnds
  <2>3. child.prog \in Installed
    BY <2>2 DEF RunPlans, Installed
  <2>4. CASE ok
    BY <1>0, <2>1, <2>2, <2>3, <2>4 DEF TypeInv, MakeEnds, Pcs
  <2>5. CASE ~ok
    BY <1>0, <2>1, <2>5 DEF TypeInv, MakeEnds, After, Pcs, Reports
  <2> QED BY <2>4, <2>5
<1>14. CASE ChildReads
  <2>1. /\ input # <<>> /\ input' = Rest(input, ReadFrom(input)) /\ heard' \in BOOLEAN
    BY <1>14 DEF ChildReads
  <2>2. input' \in Seq(Pieces)
    BY <1>0, <2>1, ReadFromSplits DEF TypeInv, LineInv
  <2> QED BY <1>0, <1>14, <2>1, <2>2 DEF TypeInv, ChildReads
<1>15. CASE ChildPrints
  <2>1. Len(ran) \in Nat /\ screen \in Seq(Nat) /\ screen' = Append(screen, Len(ran))
    BY <1>0, <1>15 DEF TypeInv, ChildPrints
  <2>2. screen' \in Seq(Nat)
    BY <2>1
  <2> QED BY <1>0, <1>15, <2>2 DEF TypeInv, ChildPrints
<1>16. CASE \E how \in Ends : ChildEnds(how)
  <2>1. PICK how \in Ends : ChildEnds(how)
    BY <1>16
  <2>2. child \in RunPlans /\ pc = "child"
    BY <1>0, <2>1 DEF TypeInv, ChildEnds
  <2>3. child.failed \in Failures /\ child.signalled \in Failures
        /\ child.unseen \in Failures \cup {"OK"}
    BY <2>2 DEF RunPlans
  <2>4. status' = CASE how = "ok" -> "OK" [] how = "error" -> child.failed
                    [] how = "signal" -> child.signalled [] how = "unseen" -> child.unseen
    BY <2>1 DEF ChildEnds
  <2>5. status' \in Reports
    BY <2>1, <2>3, <2>4 DEF Failures, Reports, Ends
  <2>6. pc' \in {"loop", "exit"} /\ child' = Nothing /\ lastChild' = how
        /\ UNCHANGED <<fixedVars, ioVars, piece, argc, dirVars, ran, screenVars, heard, taken>>
    BY <2>1 DEF ChildEnds, After
  <2> QED BY <1>0, <2>5, <2>6 DEF TypeInv, Pcs
<1>17. CASE ExitMhx
  <2>1. screen' \in Seq(Nat) /\ out' \in Seq(Nat)
    <3>1. screen \in Seq(Nat) /\ out \in Seq(Nat)
      BY <1>0 DEF TypeInv
    <3>2. screen \o out \in Seq(Nat) /\ <<>> \in Seq(Nat)
      BY <3>1, ConcatProperties
    <3> QED BY <1>17, <3>1, <3>2 DEF ExitMhx
  <2> QED BY <1>0, <1>17, <2>1 DEF TypeInv, ExitMhx, Pcs
<1> QED
  BY <1>1, <1>2, <1>3, <1>4, <1>5, <1>6, <1>7, <1>8, <1>10, <1>11, <1>12, <1>13, <1>14,
     <1>15, <1>16, <1>17 DEF TerminalNext

----------------------------------------------------------------------------
(* A command ends clean.                                                   *)

\* OnceInv, BlankInv and CleanInv are kept: the status is set from the end of the child, or
\* with no child to report; only a build leaves the first directory, and it comes
\* back unless that is gone (mhx_spawn_path, builtin_train, builtin_infer).
LEMMA CleanKept ==
  ASSUME TerminalAssumption, TerminalInv, TerminalNext
  PROVE  OnceInv' /\ BlankInv' /\ CleanInv'
<1>0. TypeInv /\ OnceInv /\ BlankInv /\ CleanInv
  BY DEF TerminalInv
<1> USE DEF fixedVars, ioVars, dirVars, screenVars, OnceInv, BlankInv, CleanInv
<1>1. CASE Type \/ Close \/ RemoveStart \/ ChildReads \/ ChildPrints
  BY <1>0, <1>1 DEF Type, Close, RemoveStart, ChildReads, ChildPrints
<1>2. CASE ShowPrompt \/ FillStdio \/ Take \/ Eof \/ ExitMhx
  BY <1>0, <1>2 DEF ShowPrompt, FillStdio, Take, Eof, ExitMhx
<1>3. CASE Split
  <2>1. piece.cmd.words \in Nat /\ MaxArgv \in Nat \ {0}
    BY <1>0, PieceIsTyped DEF TypeInv, TerminalAssumption
  <2> QED BY <1>0, <1>3, <2>1 DEF Split
<1>4. CASE Answer
  BY <1>0, <1>4 DEF Answer, After
<1>5. CASE SpawnPath
  BY <1>0, <1>5 DEF SpawnPath
<1>6. CASE MakeBegins
  BY <1>0, <1>6 DEF MakeBegins
<1>7. CASE \E ok \in BOOLEAN : MakeEnds(ok)
  BY <1>0, <1>7 DEF MakeEnds, After
<1>8. CASE \E how \in Ends : ChildEnds(how)
  <2>1. PICK how \in Ends : ChildEnds(how)
    BY <1>8
  <2>2. child.failed # "OK" /\ child.signalled # "OK"
    <3>1. child \in RunPlans
      BY <1>0, <2>1 DEF TypeInv, ChildEnds
    <3> QED BY <3>1 DEF RunPlans, Failures
  <2>3. status' = CASE how = "ok" -> "OK" [] how = "error" -> child.failed
                    [] how = "signal" -> child.signalled [] how = "unseen" -> child.unseen
    BY <2>1 DEF ChildEnds
  <2>4. how # "unseen" => (status' = "OK" <=> how = "ok")
    BY <2>1, <2>2, <2>3 DEF Ends
  <2> QED BY <1>0, <2>1, <2>4 DEF ChildEnds, After
<1> QED
  BY <1>1, <1>2, <1>3, <1>4, <1>5, <1>6, <1>7, <1>8 DEF TerminalNext

----------------------------------------------------------------------------
(* What is typed runs in its order.                                        *)

\* LineInv is kept: the terminal gives one line to a read, and nobody reads before the
\* one line is taken (mhx_readline).
LEMMA LinesKept ==
  ASSUME TerminalAssumption, SomethingIsTyped, TerminalInv, TerminalNext
  PROVE  LineInv'
<1>0. TypeInv /\ LineInv
  BY DEF TerminalInv
<1> USE DEF fixedVars, ioVars, dirVars, screenVars
<1>1. SUFFICES ASSUME tty PROVE LineInv'
  <2>1. tty' = tty
    BY DEF TerminalNext, Type, Close, RemoveStart, ShowPrompt, FillStdio, Take, Eof, Split, Answer, SpawnPath,
           MakeBegins, MakeEnds, ChildReads, ChildPrints, ChildEnds, ExitMhx
  <2> QED BY <2>1 DEF LineInv
<1>2. /\ \A l \in DOMAIN script : Len(script[l]) = 1
      /\ \A i \in DOMAIN input : input[i].line <= typed
      /\ \A i, j \in DOMAIN input : i < j => input[i].line < input[j].line
      /\ Len(stdio) <= 1 /\ (stdio # <<>> => pc = "read")
      /\ input \in Seq(Pieces) /\ stdio \in Seq(Pieces) /\ typed \in 0 .. Len(script)
  BY <1>0, <1>1 DEF LineInv, TypeInv
<1>3. CASE Type
  <2> DEFINE l == typed + 1
             new == TypedPieces(l)
  <2>1. /\ typed' = l /\ l \in 1 .. Len(script) /\ input' = input \o new
        /\ UNCHANGED <<tty, script, stdio, pc>>
    BY <1>2, <1>3 DEF Type, TypedPieces
  <2>2. new \in Seq(Pieces) /\ Len(new) = 1 /\ new[1].line = l
    <3>1. /\ new \in Seq(Pieces) /\ Len(new) = Len(script[l]) /\ l \in DOMAIN script
          /\ \A p \in 1 .. Len(script[l]) : new[p].line = l
      BY <1>0, <2>1, TypedIsSeq DEF TypeInv
    <3>2. Len(script[l]) = 1
      BY <1>2, <3>1
    <3> QED BY <3>1, <3>2
  <2>3. l = typed + 1 /\ typed \in Nat
    BY <1>2
  <2> HIDE DEF l, new
  <2>4. /\ Len(input) \in Nat /\ DOMAIN input = 1 .. Len(input)
        /\ \A i \in 1 .. Len(input) : input[i].line \in Nat
    <3>1. Len(input) \in Nat /\ DOMAIN input = 1 .. Len(input)
          /\ \A i \in 1 .. Len(input) : input[i] \in Pieces
      BY <1>2
    <3>2. \A x \in Pieces : x.line \in Nat
      BY DEF Pieces
    <3> QED BY <3>1, <3>2
  <2>5. /\ input' \in Seq(Pieces) /\ Len(input') = Len(input) + 1
        /\ \A i \in 1 .. Len(input) + 1 : input'[i] = IF i <= Len(input) THEN input[i] ELSE new[i - Len(input)]
    <3>1. /\ input \o new \in Seq(Pieces) /\ Len(input \o new) = Len(input) + Len(new)
          /\ \A i \in 1 .. Len(input) + Len(new) :
               (input \o new)[i] = IF i <= Len(input) THEN input[i] ELSE new[i - Len(input)]
      <4>1. input \in Seq(Pieces) /\ new \in Seq(Pieces)
        BY <1>2, <2>2
      <4> QED BY ONLY <4>1, ConcatProperties
    <3> QED BY <2>1, <2>2, <3>1
  <2>6. DOMAIN input' = 1 .. Len(input) + 1
    BY <2>5
  <2>7. \A i \in 1 .. Len(input) : input'[i] = input[i]
    BY <2>4, <2>5
  <2>8. input'[Len(input) + 1].line = l
    <3>1. (Len(input) + 1) - Len(input) = 1 /\ ~ (Len(input) + 1 <= Len(input))
          /\ Len(input) + 1 \in 1 .. Len(input) + 1
      BY <2>4
    <3> QED BY <2>2, <2>5, <3>1
  <2>9. \A i \in DOMAIN input' : i \in 1 .. Len(input) \/ i = Len(input) + 1
    BY <2>4, <2>6
  <2>10. \A i \in DOMAIN input' : input'[i].line <= typed'
    <3> TAKE i \in DOMAIN input'
    <3>1. CASE i \in 1 .. Len(input)
      BY <1>2, <2>1, <2>3, <2>4, <2>7, <3>1
    <3>2. CASE i = Len(input) + 1
      BY <2>1, <2>3, <2>8, <3>2
    <3> QED BY <2>9, <3>1, <3>2
  <2>11. \A i, j \in DOMAIN input' : i < j => input'[i].line < input'[j].line
    <3> TAKE i, j \in DOMAIN input'
    <3> HAVE i < j
    <3>1. i \in 1 .. Len(input)
      BY <2>4, <2>6
    <3>2. CASE j \in 1 .. Len(input)
      BY <1>2, <2>4, <2>7, <3>1, <3>2
    <3>3. CASE j = Len(input) + 1
      <4>1. input[i].line <= typed /\ input[i].line \in Nat
        BY <1>2, <2>4, <3>1
      <4> QED BY <2>3, <2>7, <2>8, <3>1, <3>3, <4>1
    <3> QED BY <2>9, <3>2, <3>3
  <2> QED BY <1>2, <2>1, <2>10, <2>11 DEF LineInv
<1>4. ASSUME input # <<>>, input' = Rest(input, ReadFrom(input)), typed' = typed
      PROVE  /\ \A i \in DOMAIN input' : input'[i].line <= typed'
             /\ \A i, j \in DOMAIN input' : i < j => input'[i].line < input'[j].line
             /\ Len(ReadFrom(input)) = 1
  <2>1. /\ input' \in Seq(Pieces) /\ Len(input') = Len(input) - 1 /\ Len(ReadFrom(input)) = 1
        /\ \A i \in 1 .. Len(input) - 1 : input'[i] = input[i + 1]
    BY <1>0, <1>1, <1>2, <1>4, ReadFromSplits DEF TypeInv
  <2>2. DOMAIN input' = 1 .. Len(input) - 1 /\ Len(input) \in Nat /\ DOMAIN input = 1 .. Len(input)
    BY <1>2, <2>1
  <2>3. \A i \in 1 .. Len(input) - 1 : i + 1 \in DOMAIN input
    BY <2>2
  <2>4. \A i \in DOMAIN input' : input'[i].line <= typed'
    BY <1>2, <1>4, <2>1, <2>2, <2>3
  <2>5. \A i, j \in DOMAIN input' : i < j => input'[i].line < input'[j].line
    <3> TAKE i, j \in DOMAIN input'
    <3> HAVE i < j
    <3>1. i + 1 \in DOMAIN input /\ j + 1 \in DOMAIN input /\ i + 1 < j + 1
          /\ input'[i] = input[i + 1] /\ input'[j] = input[j + 1]
      BY <2>1, <2>2, <2>3
    <3> QED BY <1>2, <3>1
  <2> QED BY <2>1, <2>4, <2>5
<1>5. CASE FillStdio
  <2>1. /\ input # <<>> /\ stdio' = ReadFrom(input) /\ input' = Rest(input, ReadFrom(input))
        /\ pc = "read" /\ UNCHANGED <<tty, script, typed, pc>>
    BY <1>5 DEF FillStdio
  <2>2. Len(stdio') <= 1
    <3>1. Len(ReadFrom(input)) = 1
      BY <1>4, <2>1
    <3>2. stdio' = ReadFrom(input)
      BY <2>1
    <3>3. Len(stdio') = 1
      BY ONLY <3>1, <3>2, Zenon
    <3> QED BY <3>3
  <2> QED BY <1>2, <1>4, <2>1, <2>2 DEF LineInv
<1>6. CASE ChildReads
  <2>1. /\ input # <<>> /\ input' = Rest(input, ReadFrom(input))
        /\ UNCHANGED <<tty, script, typed, stdio, pc>>
    BY <1>6 DEF ChildReads
  <2> QED BY <1>2, <1>4, <2>1 DEF LineInv
<1>7. CASE Take
  <2>1. /\ stdio # <<>> /\ stdio' = Tail(stdio) /\ UNCHANGED <<tty, script, typed, input>>
    BY <1>7 DEF Take
  <2>2. Tail(stdio) \in Seq(Pieces) /\ Len(Tail(stdio)) = Len(stdio) - 1
    BY <1>2, <2>1, HeadTailProperties
  <2>3. Len(stdio) \in Nat
    BY <1>2
  <2>4. Len(stdio') = 0 /\ stdio' \in Seq(Pieces)
    BY <1>2, <2>1, <2>2, <2>3
  <2>5. stdio' = <<>>
    BY <2>4, EmptySeq
  <2> QED BY <1>2, <2>1, <2>4, <2>5 DEF LineInv
<1>8. CASE Close \/ RemoveStart \/ ChildPrints
  BY <1>2, <1>8 DEF Close, RemoveStart, ChildPrints, LineInv
<1>9. CASE ShowPrompt \/ Eof \/ Split \/ ExitMhx
  BY <1>2, <1>9 DEF ShowPrompt, Eof, Split, ExitMhx, LineInv
<1>10. CASE Answer \/ SpawnPath \/ MakeBegins
  BY <1>2, <1>10 DEF Answer, SpawnPath, MakeBegins, LineInv
<1>11. CASE (\E ok \in BOOLEAN : MakeEnds(ok)) \/ \E how \in Ends : ChildEnds(how)
  BY <1>2, <1>11 DEF MakeEnds, ChildEnds, LineInv
<1> QED
  BY <1>3, <1>5, <1>6, <1>7, <1>8, <1>9, <1>10, <1>11 DEF TerminalNext

\* TakenInv is kept: what is read goes to the buffer's end, the piece at work comes from
\* its head, and what was at work is what ran (mhx_readline, mhx_repl_inner).
LEMMA OrderKept ==
  ASSUME TerminalAssumption, SomethingIsTyped, TerminalInv, TerminalNext
  PROVE  TakenInv'
<1>0. TypeInv /\ LineInv /\ TakenInv
  BY DEF TerminalInv
<1> USE DEF fixedVars, ioVars, dirVars, screenVars
<1> DEFINE x == <<piece.line, piece.part>>
<1>1. /\ Given \in Seq(Places) /\ taken \in Seq(Places) /\ ran \in Seq(Places) /\ x \in Places
      /\ stdio \in Seq(Pieces) /\ Where(stdio) \in Seq(Places) /\ pc \in Pcs /\ mode \in Modes
  <2>1. stdio \in Seq(Pieces) /\ x \in Places
    BY <1>0, PieceIsTyped DEF TypeInv
  <2>2. Given \in Seq(Places)
    <3>1. <<1, 1>> \in Places
      BY DEF Places
    <3>2. <<<<1, 1>>>> \in Seq(Places) /\ <<>> \in Seq(Places)
      BY <3>1
    <3> QED BY <3>2 DEF Given
  <2> QED BY <1>0, <2>1, <2>2, WhereIsSeq DEF TypeInv
<1>2. Given \o taken = (ran \o AtWork) \o Where(stdio)
  BY <1>0 DEF TakenInv
<1>3. Given' = Given
  BY DEF Given, TerminalNext, Type, Close, RemoveStart, ShowPrompt, FillStdio, Take, Eof, Split, Answer, SpawnPath,
         MakeBegins, MakeEnds, ChildReads, ChildPrints, ChildEnds, ExitMhx
<1>4. Where(<<>>) = <<>>
  BY DEF Where
<1> HIDE DEF x
<1>5. ASSUME UNCHANGED <<stdio, ran, taken>>, AtWork' = AtWork
      PROVE  TakenInv'
  BY <1>2, <1>3, <1>5 DEF TakenInv
<1>6. CASE Type \/ Close \/ RemoveStart \/ ChildReads \/ ChildPrints
  <2>1. UNCHANGED <<stdio, ran, taken>> /\ AtWork' = AtWork
    BY <1>6 DEF AtWork, Type, Close, RemoveStart, ChildReads, ChildPrints
  <2> QED BY <1>5, <2>1
<1>7. CASE ShowPrompt \/ Eof \/ Split \/ ExitMhx
  <2>1. UNCHANGED <<stdio, ran, taken>> /\ AtWork' = AtWork
    BY <1>7 DEF AtWork, ShowPrompt, Eof, Split, ExitMhx
  <2> QED BY <1>5, <2>1
<1>8. CASE (\E ok \in BOOLEAN : MakeEnds(ok)) \/ \E how \in Ends : ChildEnds(how)
  <2>1. UNCHANGED <<stdio, ran, taken>> /\ AtWork' = AtWork
    BY <1>8 DEF AtWork, MakeEnds, ChildEnds, After
  <2> QED BY <1>5, <2>1
<1>9. CASE FillStdio
  <2>1. /\ input # <<>> /\ stdio = <<>> /\ stdio' = ReadFrom(input)
        /\ taken' = taken \o Where(stdio') /\ pc = "read" /\ ran' = ran /\ pc' = pc
    BY <1>9 DEF FillStdio
  <2>2. AtWork = <<>> /\ AtWork' = <<>>
    BY <2>1 DEF AtWork
  <2>3. Where(stdio') \in Seq(Places)
    BY <1>0, <2>1, ReadFromSplits, WhereIsSeq DEF TypeInv, LineInv
  <2>4. Given \o taken = (ran \o <<>>) \o <<>>
    BY <1>2, <1>4, <2>1, <2>2
  <2>5. Given \o (taken \o Where(stdio')) = (ran \o <<>>) \o Where(stdio')
    <3>1. Given \in Seq(Places) /\ taken \in Seq(Places) /\ Where(stdio') \in Seq(Places)
      BY <1>1, <2>3
    <3>2. (Given \o taken) \o Where(stdio') = Given \o (taken \o Where(stdio'))
      BY ONLY <3>1, ConcatAssociative
    <3>3. (ran \o <<>>) \o <<>> = ran \o <<>>
      <4>1. ran \in Seq(Places)
        BY <1>1
      <4>2. ran \o <<>> = ran
        BY ONLY <4>1, ConcatEmptySeq
      <4> QED BY <4>2
    <3> QED BY <2>4, <3>2, <3>3
  <2> QED BY <1>3, <2>1, <2>2, <2>5 DEF TakenInv
<1>10. CASE Take
  <2>1. /\ stdio # <<>> /\ piece' = Head(stdio) /\ stdio' = Tail(stdio) /\ pc = "read" /\ pc' = "split"
        /\ ran' = ran /\ taken' = taken
    BY <1>10 DEF Take
  <2> DEFINE h == <<Head(stdio).line, Head(stdio).part>>
  <2>2. h \in Places /\ Where(stdio) = <<h>> \o Where(Tail(stdio)) /\ Tail(stdio) \in Seq(Pieces)
    BY <1>1, <2>1, WhereSplits
  <2>3. AtWork = <<>> /\ AtWork' = <<h>>
    BY <2>1 DEF AtWork
  <2>4. Where(Tail(stdio)) \in Seq(Places)
    BY <2>2, WhereIsSeq
  <2> HIDE DEF h
  <2>5. (ran \o <<>>) \o (<<h>> \o Where(Tail(stdio))) = (ran \o <<h>>) \o Where(Tail(stdio))
    <3>1. ran \in Seq(Places) /\ <<h>> \in Seq(Places) /\ Where(Tail(stdio)) \in Seq(Places)
      BY <1>1, <2>2, <2>4
    <3>2. (ran \o <<h>>) \o Where(Tail(stdio)) = ran \o (<<h>> \o Where(Tail(stdio)))
      BY ONLY <3>1, ConcatAssociative
    <3>3. ran \o <<>> = ran
      BY ONLY <3>1, ConcatEmptySeq
    <3> QED BY <3>2, <3>3
  <2>6. Given \o taken = (ran \o <<h>>) \o Where(Tail(stdio))
    BY <1>2, <2>2, <2>3, <2>5
  <2> QED BY <1>3, <2>1, <2>3, <2>6 DEF TakenInv
<1>11. CASE Answer \/ SpawnPath \/ MakeBegins
  <2>1. /\ pc = "dispatch" /\ pc' \in {"loop", "exit", "child", "make"} /\ ran' = Append(ran, x)
        /\ stdio' = stdio /\ taken' = taken
    BY <1>11 DEF Answer, SpawnPath, MakeBegins, After, x
  <2>2. AtWork = <<x>> /\ AtWork' = <<>>
    BY <2>1 DEF AtWork, x
  <2>3. (ran \o <<x>>) \o Where(stdio) = (Append(ran, x) \o <<>>) \o Where(stdio)
    <3>1. ran \in Seq(Places) /\ x \in Places
      BY <1>1
    <3>2. Append(ran, x) = ran \o <<x>> /\ Append(ran, x) \in Seq(Places)
      BY ONLY <3>1, AppendIsConcat, AppendProperties
    <3>3. Append(ran, x) \o <<>> = Append(ran, x)
      BY ONLY <3>2, ConcatEmptySeq
    <3> QED BY <3>2, <3>3
  <2>4. Given \o taken = (Append(ran, x) \o <<>>) \o Where(stdio)
    BY <1>2, <2>2, <2>3
  <2> QED BY <1>3, <2>1, <2>2, <2>4 DEF TakenInv
<1> QED
  BY <1>6, <1>7, <1>8, <1>9, <1>10, <1>11 DEF TerminalNext

----------------------------------------------------------------------------
(* What is shown appears in its order.                                     *)

\* What is printed last is of the last command.
LEMMA RisesOn ==
  ASSUME NEW s \in Seq(Nat), NEW n \in Nat, RisesTo(s, n)
  PROVE  RisesTo(Append(s, n), n) /\ RisesTo(s, n + 1) /\ RisesTo(Append(s, n + 1), n + 1)
<1> DEFINE m == Len(s)
<1>1. m \in Nat /\ DOMAIN s = 1 .. m /\ \A i \in 1 .. m : s[i] \in Nat
  OBVIOUS
<1>2. \A i \in 1 .. m : s[i] <= n
  BY <1>1 DEF RisesTo
<1>3. \A i, j \in 1 .. m : i < j => s[i] <= s[j]
  BY <1>1 DEF RisesTo
<1>4. RisesTo(s, n + 1)
  BY <1>1, <1>2, <1>3 DEF RisesTo
<1>5. ASSUME NEW k \in Nat, n <= k PROVE RisesTo(Append(s, k), k)
  <2> DEFINE a == Append(s, k)
  <2>1. /\ DOMAIN a = 1 .. m + 1 /\ a[m + 1] = k
        /\ \A i \in 1 .. m : a[i] = s[i]
    OBVIOUS
  <2> HIDE DEF a
  <2>2. \A i \in 1 .. m + 1 : i \in 1 .. m \/ i = m + 1
    BY <1>1
  <2>3. \A i \in 1 .. m + 1 : a[i] <= k
    BY <1>1, <1>2, <1>5, <2>1, <2>2
  <2>4. \A i, j \in 1 .. m + 1 : i < j => a[i] <= a[j]
    <3> TAKE i, j \in 1 .. m + 1
    <3> HAVE i < j
    <3>1. i \in 1 .. m
      BY <1>1
    <3> QED BY <1>1, <1>2, <1>3, <1>5, <2>1, <2>2, <2>3, <3>1
  <2>5. RisesTo(a, k)
    BY <2>1, <2>3, <2>4 DEF RisesTo
  <2> QED BY <2>5 DEF a
<1> QED BY <1>4, <1>5

\* ShownInv is kept: a command prints its own number, mhx its part only when its buffer
\* is empty, and what the buffer holds goes to the screen before the next child's output
\* (mhx_repl_inner).
LEMMA ShownKept ==
  ASSUME TerminalAssumption, TerminalInv, TerminalNext
  PROVE  ShownInv'
<1>0. TypeInv /\ OnceInv /\ ShownInv
  BY DEF TerminalInv
<1> USE DEF fixedVars, ioVars, dirVars, screenVars
<1>1. SUFFICES ASSUME tty \/ mode # "line" PROVE ShownInv'
  <2>1. tty' = tty /\ mode' = mode
    BY DEF TerminalNext, Type, Close, RemoveStart, ShowPrompt, FillStdio, Take, Eof, Split, Answer, SpawnPath,
           MakeBegins, MakeEnds, ChildReads, ChildPrints, ChildEnds, ExitMhx
  <2> QED BY <2>1 DEF ShownInv
<1>2. /\ RisesTo(screen \o out, Len(ran)) /\ (out # <<>> => ~tty /\ pc \in {"loop", "exit"})
      /\ screen \in Seq(Nat) /\ out \in Seq(Nat) /\ ran \in Seq(Places) /\ Len(ran) \in Nat
      /\ mode \in Modes /\ tty \in BOOLEAN
  BY <1>0, <1>1 DEF ShownInv, TypeInv
<1>3. screen \o out \in Seq(Nat)
  BY <1>2, ConcatProperties
<1>4. \A s \in Seq(Nat) : s \o <<>> = s
  BY ConcatEmptySeq
<1>5. CASE Type \/ Close \/ RemoveStart \/ ChildReads \/ FillStdio
  BY <1>2, <1>5 DEF Type, Close, RemoveStart, ChildReads, FillStdio, ShownInv
<1>6. CASE Take \/ Split \/ \E ok \in BOOLEAN : MakeEnds(ok)
  BY <1>2, <1>6 DEF Take, Split, MakeEnds, ShownInv
<1>7. CASE \E how \in Ends : ChildEnds(how)
  BY <1>2, <1>7 DEF ChildEnds, ShownInv
<1>8. ASSUME screen' = screen \o out, out' = <<>>, ran' = ran
      PROVE  ShownInv'
  <2>1. screen' \o out' = screen \o out
    BY <1>3, <1>4, <1>8
  <2> QED BY <1>2, <1>8, <2>1 DEF ShownInv
<1>9. CASE ShowPrompt
  <2>1. CASE mode = "repl"
    BY <1>8, <1>9, <2>1 DEF ShowPrompt
  <2>2. CASE mode # "repl" /\ out = <<>>
    BY <1>2, <1>9, <2>2 DEF ShowPrompt, ShownInv
  <2>3. CASE mode # "repl" /\ out # <<>>
    BY <1>0, <1>1, <1>2, <1>9, <2>3 DEF ShowPrompt, Modes, OnceInv
  <2> QED BY <2>1, <2>2, <2>3
<1>10. CASE Eof \/ ExitMhx
  BY <1>8, <1>10 DEF Eof, ExitMhx
<1>11. ASSUME pc = "dispatch", ran' = Append(ran, <<piece.line, piece.part>>)
      PROVE  /\ out = <<>> /\ Len(ran') = Len(ran) + 1
             /\ RisesTo(screen, Len(ran) + 1) /\ RisesTo(Append(screen, Len(ran) + 1), Len(ran) + 1)
  <2>1. out = <<>>
    BY <1>2, <1>11
  <2>2. RisesTo(screen, Len(ran))
    BY <1>2, <1>4, <2>1
  <2>3. Len(ran') = Len(ran) + 1
    BY <1>2, <1>11
  <2> QED BY <1>2, <2>1, <2>2, <2>3, RisesOn
<1>12. CASE SpawnPath \/ MakeBegins
  <2>1. out = <<>> /\ Len(ran') = Len(ran) + 1 /\ RisesTo(screen, Len(ran) + 1)
        /\ UNCHANGED <<tty, mode, screen, out>>
    BY <1>11, <1>12 DEF SpawnPath, MakeBegins
  <2>2. screen \o out = screen
    BY <1>2, <1>4, <2>1
  <2> QED BY <2>1, <2>2 DEF ShownInv
<1>13. CASE Answer
  <2>1. PICK st : Prints(st)
    BY <1>13 DEF Answer
  <2>2. /\ pc' \in {"loop", "exit"} /\ UNCHANGED <<tty, mode>>
    BY <1>13 DEF Answer, After
  <2>3. /\ out = <<>> /\ Len(ran') = Len(ran) + 1
        /\ RisesTo(screen, Len(ran) + 1) /\ RisesTo(Append(screen, Len(ran) + 1), Len(ran) + 1)
    BY <1>11, <1>13 DEF Answer
  <2>4. CASE out' = out /\ screen' = screen
    BY <1>2, <1>4, <2>2, <2>3, <2>4 DEF ShownInv
  <2>5. CASE out' = out /\ screen' = Append(screen, Len(ran'))
    <3>1. screen' \in Seq(Nat)
      BY <1>2, <2>3, <2>5
    <3> QED BY <1>4, <2>2, <2>3, <2>5, <3>1 DEF ShownInv
  <2>6. CASE ~tty /\ out' = Append(out, Len(ran')) /\ screen' = screen
    <3>1. out' = <<Len(ran) + 1>>
      BY <2>3, <2>6
    <3>2. screen' \o out' = Append(screen, Len(ran) + 1)
      BY <1>2, <2>6, <3>1, AppendIsConcat
    <3> QED BY <2>2, <2>3, <2>6, <3>2 DEF ShownInv
  <2> QED BY <1>2, <2>1, <2>4, <2>5, <2>6 DEF Prints
<1>14. CASE ChildPrints
  <2>1. /\ pc = "child" /\ screen' = Append(screen, Len(ran)) /\ UNCHANGED <<tty, mode, pc, out, ran>>
    BY <1>14 DEF ChildPrints
  <2>2. out = <<>>
    BY <1>2, <2>1
  <2>3. RisesTo(screen, Len(ran))
    BY <1>2, <1>4, <2>2
  <2>4. RisesTo(Append(screen, Len(ran)), Len(ran)) /\ Append(screen, Len(ran)) \in Seq(Nat)
    BY <1>2, <2>3, RisesOn
  <2> QED BY <1>4, <2>1, <2>2, <2>4 DEF ShownInv
<1> QED
  BY <1>5, <1>6, <1>7, <1>9, <1>10, <1>12, <1>13, <1>14 DEF TerminalNext

----------------------------------------------------------------------------
(* The theorems.                                                           *)

\* A terminal that has just been started satisfies the invariant.
LEMMA TerminalStarts ==
  ASSUME TerminalAssumption, SomethingIsTyped, TerminalInit
  PROVE  TerminalInv
<1> USE DEF TerminalInit
<1>1. script \in Seq(Seq(Commands)) /\ script # <<>> /\ \A l \in DOMAIN script : script[l] # <<>>
  BY DEF SomethingIsTyped
<1>2. Len(script) \in Nat /\ Len(script) # 0 /\ DOMAIN script = 1 .. Len(script)
  BY <1>1
<1>3. script[1] \in Seq(Commands) /\ script[1] # <<>>
  BY <1>1, <1>2
<1>4. script[1][1] \in Commands
  BY <1>3
<1>5. piece \in Pieces /\ piece.line = 1 /\ piece.part = 1
  BY <1>4 DEF Pieces
<1>6. /\ <<>> \in Seq(Pieces) /\ <<>> \in Seq(Places) /\ <<>> \in Seq(Nat)
  BY EmptySeq
<1>7. TypeInv
  <2>1. argc = 0 /\ MaxArgv \in Nat \ {0}
    BY DEF TerminalAssumption
  <2>2. typed \in 0 .. Len(script)
    BY <1>2
  <2>3. built \subseteq Installed
    BY DEF Programs, Installed
  <2>4. /\ mode \in Modes /\ tty \in BOOLEAN /\ inputClosed \in BOOLEAN /\ pc \in Pcs
        /\ cwd \in {"start", "root"} /\ startGone \in BOOLEAN
        /\ status \in Reports /\ lastChild \in {"none"} \cup Ends /\ heard \in BOOLEAN
    BY DEF Modes, Pcs, Reports
  <2>5. pc \notin {"make", "child"} /\ child = Nothing
    OBVIOUS
  <2>6. argc \in Nat /\ (mode # "exec" => argc + 1 <= MaxArgv)
    BY <2>1
  <2>7. /\ input \in Seq(Pieces) /\ stdio \in Seq(Pieces) /\ ran \in Seq(Places) /\ taken \in Seq(Places)
        /\ out \in Seq(Nat) /\ screen \in Seq(Nat) /\ script \in Scripts
    BY <1>6
  <2> QED BY <1>5, <2>2, <2>3, <2>4, <2>5, <2>6, <2>7 DEF TypeInv
<1>8. OnceInv /\ BlankInv /\ CleanInv
  BY DEF OnceInv, BlankInv, CleanInv
<1>9. LineInv
  <2>1. Len(stdio) = 0 /\ DOMAIN input = {}
    OBVIOUS
  <2> QED BY <2>1 DEF LineInv
<1>10. TakenInv
  <2>1. Where(stdio) = <<>>
    BY DEF Where
  <2>2. Given = AtWork /\ taken = <<>> /\ ran = <<>>
    BY <1>5 DEF Given, AtWork
  <2>3. Given \in Seq(Nat \X Nat)
    <3>1. <<1, 1>> \in Nat \X Nat
      OBVIOUS
    <3>2. <<<<1, 1>>>> \in Seq(Nat \X Nat) /\ <<>> \in Seq(Nat \X Nat)
      BY <3>1
    <3> QED BY <3>2 DEF Given
  <2>4. Given \o <<>> = Given /\ <<>> \o Given = Given
    BY ONLY <2>3, ConcatEmptySeq
  <2> QED BY <2>1, <2>2, <2>4 DEF TakenInv
<1>11. ShownInv
  <2>1. <<>> \o <<>> = <<>>
    OBVIOUS
  <2> QED BY <2>1 DEF ShownInv, RisesTo
<1> QED BY <1>7, <1>8, <1>9, <1>10, <1>11 DEF TerminalInv

\* The invariant holds of every state of the terminal.
THEOREM TerminalInvariant == TerminalSpec => []TerminalInv
<1>1. TerminalInit => TerminalInv
  BY TerminalStarts, TerminalAssumption, SomethingIsTyped
<1>2. TerminalInv /\ [TerminalNext]_terminalVars => TerminalInv'
  <2> SUFFICES ASSUME TerminalInv, [TerminalNext]_terminalVars PROVE TerminalInv'
    OBVIOUS
  <2>1. CASE TerminalNext
    BY <2>1, TypesKept, CleanKept, LinesKept, OrderKept, ShownKept, TerminalAssumption, SomethingIsTyped
       DEF TerminalInv
  <2>2. CASE UNCHANGED terminalVars
    <3>1. TypeInv' /\ OnceInv' /\ BlankInv' /\ CleanInv'
      BY <2>2 DEF terminalVars, TerminalInv, TypeInv, OnceInv, BlankInv, CleanInv
    <3>2. LineInv'
      BY <2>2 DEF terminalVars, TerminalInv, LineInv
    <3>3. TakenInv'
      BY <2>2 DEF terminalVars, TerminalInv, TakenInv, Given, AtWork
    <3>4. ShownInv'
      BY <2>2 DEF terminalVars, TerminalInv, ShownInv
    <3> QED BY <3>1, <3>2, <3>3, <3>4 DEF TerminalInv
  <2> QED BY <2>1, <2>2
<1> QED BY <1>1, <1>2, PTL DEF TerminalSpec

\* A command leaves no trace but its effect: after one that ran a child the status says
\* success exactly if the child exited with success, unless waitpid itself failed, and
\* programs run, and lines are read, in the directory mhx was started in, unless that is gone (mhx_spawn_path,
\* builtin_train, builtin_infer).
THEOREM EndsClean == TerminalSpec => []CommandEndsClean
<1>1. TerminalInv => CommandEndsClean
  <2> SUFFICES ASSUME TerminalInv PROVE CommandEndsClean
    OBVIOUS
  <2>1. TypeInv /\ CleanInv
    BY DEF TerminalInv
  <2>2. child.do \in {"none", "run"} /\ (child.do = "run" <=> pc \in {"make", "child"})
    BY <2>1 DEF TypeInv, RunPlans, Nothing
  <2>3. TerminalTypeOK
    BY <2>1, <2>2 DEF TypeInv, TerminalTypeOK, Modes, Pcs, Reports
  <2> QED BY <2>1, <2>3 DEF CleanInv, CommandEndsClean
<1> QED BY <1>1, TerminalInvariant, PTL

\* A session is run and shown in the order it was given: every piece that mhx reads runs
\* once and in its order, on a terminal nothing typed for a child waits in the buffer of
\* mhx, and with a prompt or a terminal the output appears in the order of the commands
\* (mhx_readline, mhx_repl_inner).
THEOREM RunsInOrder == TerminalSpec => []SessionInOrder
<1>1. TerminalInv => SessionInOrder
  <2> SUFFICES ASSUME TerminalInv PROVE SessionInOrder
    OBVIOUS
  <2>1. LineInv /\ TakenInv /\ ShownInv
    BY DEF TerminalInv
  <2>2. InputIsRunInOrder
    BY <2>1 DEF InputIsRunInOrder, LineInv, TakenInv, Given, AtWork
  <2>3. OutputInOrder
    BY <2>1 DEF OutputInOrder, ShownInv, RisesTo
  <2> QED BY <2>2, <2>3 DEF SessionInOrder
<1> QED BY <1>1, TerminalInvariant, PTL
=============================================================================
