-------------------------------- MODULE AmlBlood --------------------------------
(* BLOOD of the AML interpreter (bake/aml/core/ariannamethod.c): C code is written to a
   file, compiled to a shared library and loaded. The table of modules has one row per
   successful compilation, for ever: unloading a module leaves its row.

   A text of C stands for its hash. Only BLOOD COMPILE's text is the user's own; the
   generated ones hold the module's name. Files are <<kind, name, text>> in the one
   directory of the process; nobody else writes there.                               *)
EXTENDS Integers, FiniteSets, FiniteSetsExt

CONSTANTS
  BloodNames,   \* what is left of a module's name by blood_sanitize
  Texts,        \* texts a user gives
  Broken,       \* those that do not compile
  MaxModulesBuilt  \* AM_BLOOD_MAX_MODULES

ASSUME BloodLimits == MaxModulesBuilt \in Nat \ {0} /\ Broken \subseteq Texts /\ "" \notin BloodNames

BloodRows == 0..(MaxModulesBuilt - 1)
Generated == {"lora", "emotion"}

VARIABLES
  built,     \* g_blood_modules: row -> the name, the text and whether its handle is set
  builtN,    \* g_blood_count
  cc,        \* g_blood_cc: a compiler was found
  files,     \* the directory
  mapped     \* per text, how often its library is open in the process

bloodVars == <<built, builtN, cc, files, mapped>>

NoModule   == [name |-> "", text |-> <<>>, open |-> FALSE]
AllTexts   == {<<x, "">> : x \in Texts} \union (Generated \X BloodNames)
Source(n, x)  == <<"src", n, x>>
Library(n, x) == <<"lib", n, x>>

BloodStart == /\ built = [i \in BloodRows |-> NoModule] /\ builtN = 0 /\ cc \in BOOLEAN
              /\ files = {} /\ mapped = [x \in AllTexts |-> 0]

-----------------------------------------------------------------------------
(* am_blood_compile. No compiler, no room, or nothing left of the name: -1. *)
Refused(n) == ~cc \/ builtN >= MaxModulesBuilt \/ n = ""

(* The row, if any, that has the text loaded, under whatever name. *)
LoadedRows(x) == {i \in BloodRows : i < builtN /\ built[i].text = x /\ built[i].open}

(* A file that cannot be written; a compiler that cannot be started or reports an error; a
   library that cannot be opened: what was written by then is removed. *)
CompileFails(n, x) ==
  /\ ~Refused(n) /\ LoadedRows(x) = {} /\ UNCHANGED <<built, builtN, cc, mapped>>
  /\ \/ UNCHANGED files
     \/ files' = files \ {Source(n, x)}
     \/ files' = files \ {Source(n, x), Library(n, x)}

Compile(n, x) ==
  /\ ~Refused(n) /\ LoadedRows(x) = {} /\ x[1] \notin Broken
  /\ files' = files \union {Source(n, x), Library(n, x)}
  /\ built' = [built EXCEPT ![builtN] = [name |-> n, text |-> x, open |-> TRUE]]
  /\ builtN' = builtN + 1
  /\ mapped' = [mapped EXCEPT ![x] = @ + 1]
  /\ UNCHANGED cc

CompileNothing(n, x) == (Refused(n) \/ LoadedRows(x) # {}) /\ UNCHANGED bloodVars

(* BLOOD COMPILE, LORA, EMOTION. *)
Build(n, x) == CompileFails(n, x) \/ Compile(n, x) \/ CompileNothing(n, x)

-----------------------------------------------------------------------------
FilesOf(i)   == {Source(built[i].name, built[i].text), Library(built[i].name, built[i].text)}

(* A slip: the source is left behind. *)
UnloadedKeepingSource(rows) ==
  /\ built' = [i \in BloodRows |-> IF i \in rows THEN [built[i] EXCEPT !.open = FALSE] ELSE built[i]]
  /\ mapped' = [x \in AllTexts |-> mapped[x] - Cardinality(LoadedRows(x) \cap rows)]
  /\ files' = files \ {Library(built[i].name, built[i].text) : i \in rows}

(* am_blood_unload: the handle is closed once; the files are removed every time. *)
Unloaded(rows) ==
  /\ built' = [i \in BloodRows |-> IF i \in rows THEN [built[i] EXCEPT !.open = FALSE] ELSE built[i]]
  /\ mapped' = [x \in AllTexts |-> mapped[x] - Cardinality(LoadedRows(x) \cap rows)]
  /\ files' = files \ UNION {FilesOf(i) : i \in rows}

Unload(i) == i < builtN /\ Unloaded({i}) /\ UNCHANGED <<builtN, cc>>

(* BLOOD UNLOAD: the first row of that name, which may have been unloaded before. *)
UnloadNamed(n) == LET rows == {i \in BloodRows : i < builtN /\ built[i].name = n}
                  IN  rows # {} /\ Unload(Min(rows))

(* am_blood_cleanup, and am_blood_init, which also looks for a compiler anew. *)
Cleanup   == Unloaded({i \in BloodRows : i < builtN}) /\ builtN' = 0 /\ UNCHANGED cc
BloodInit == Unloaded({i \in BloodRows : i < builtN}) /\ builtN' = 0 /\ cc' \in BOOLEAN

BloodNext ==
  \/ \E n \in BloodNames \union {""} : \/ \E x \in Texts : Build(n, <<x, "">>)
                                       \/ \E k \in Generated : n # "" /\ Build(n, <<k, n>>)
  \/ \E i \in BloodRows : Unload(i)
  \/ \E n \in BloodNames : UnloadNamed(n)
  \/ Cleanup \/ BloodInit

BloodSpec == BloodStart /\ [][BloodNext]_bloodVars

-----------------------------------------------------------------------------
(* A library is open exactly while one row holds it and never twice, so that it is closed
   as often as it was opened and no function of a module is one of an older copy; and no
   file outlives its module, whatever failed and however often rows are unloaded or the
   same text is built again. (A module's files may be gone while it runs.) *)
LibrariesFollowRows ==
  /\ \A x \in AllTexts : mapped[x] = Cardinality(LoadedRows(x)) /\ mapped[x] <= 1
  /\ files \subseteq UNION {FilesOf(i) : i \in {j \in BloodRows : j < builtN /\ built[j].open}}
=============================================================================
