-------------------------------- MODULE AmlField --------------------------------
(* The field of the AML interpreter (bake/aml/core/ariannamethod.c): the commands that
   set it, am_step, which advances it, the gamma slots with the two faces of JANUS, and
   METHOD, which judges a group of organisms and steers the field.

   A float is a level 0..Top of its range, what a step does to it a move by one level;
   which way the learned controller moves the seasons' energies is left open. Settings
   that only the logits' overlay reads, and the live metrics (entropy, resonance,
   emergence), which every step computes anew, are not followed.                     *)
EXTENDS Integers, Sequences, SequencesExt, FiniteSets, FiniteSetsExt, Functions

CONSTANTS
  Top,          \* the highest level
  DebtTop,      \* 100: no debt is higher
  DebtLimit,    \* 5: the debt above which the field is slowed
  SeasonSteps,  \* steps in a season
  GammaNames,   \* names of essences; they differ in more than case
  MaxGamma,     \* AM_MAX_GAMMA
  HistoryLen,   \* AM_METHOD_HISTORY_LEN and AM_HARMONIC_MAX_HISTORY
  TrendWindow,  \* 4: entropies METHOD calls recent
  Harmonics,    \* 4: the entropies from which HARMONIC hears a wave
  MaxOrganisms, \* AM_METHOD_MAX_ORGANISMS and AM_HARMONIC_MAX_ORGANISMS
  MaxFieldCalls \* bound on the commands and calls of a session

ASSUME FieldLimits ==
  /\ {Top, DebtTop, SeasonSteps, MaxGamma, HistoryLen, TrendWindow, Harmonics, MaxOrganisms, MaxFieldCalls} \subseteq Nat \ {0}
  /\ DebtLimit \in 0..(DebtTop - 1) /\ "" \notin GammaNames

Level(x)   == IF x < 0 THEN 0 ELSE IF x > Top THEN Top ELSE x       \* clamp01, clampf, clampi
Given      == -1..(Top + 1)                                        \* what a script may write
Modes      == -1..2                                                \* BACKWARD, NOMOVE, WALK, RUN
GammaSlots == 0..(MaxGamma - 1)
Settings   == {"wormhole_gate", "calendar_phase", "calendar_drift", "pain", "destiny",
               "attend_focus", "tunnel_chance"}

VARIABLES
  field,      \* G, but for gamma and the words
  gamma,      \* G's gamma slots and faces
  byHand,     \* g_calendar_manual, which is not in G
  method,     \* M: the organisms of the moment and the ring of their entropies
  stepped,    \* the last call was an am_step of its own
  fieldCalls

fieldVars == <<field, gamma, byHand, method, stepped, fieldCalls>>

-----------------------------------------------------------------------------
(* The field, as functions of the record f. *)

(* A slip: the direction of time is turned by BACKWARD and never turned again. *)
RetempedOneWay(f) ==
  [f EXCEPT !.temp = [mode |-> f.mode, base |-> f.base, experts |-> f.experts, warm |-> f.warm],
            !.direction = IF f.mode = -1 THEN -1 ELSE @]

(* update_effective_temp: the temperature is known by what it was computed from. *)
Retemped(f) ==
  [f EXCEPT !.temp = [mode |-> f.mode, base |-> f.base, experts |-> f.experts, warm |-> f.warm],
            !.direction = IF f.mode = -1 THEN -1 ELSE 1]

FreshField == Retemped(
  [mode |-> 1, base |-> 1, experts |-> 1, warm |-> 0, harvest |-> FALSE, direction |-> 1, temp |-> <<>>,
   debt |-> 0, timeDebt |-> 0, season |-> 0, phase |-> 0, wormhole |-> FALSE, pack |-> FALSE, lock |-> FALSE,
   set |-> [s \in Settings |-> IF s \in {"pain", "calendar_phase"} THEN 0 ELSE 1]])

(* VELOCITY, by name or number, and BASE_TEMP. *)
Moving(f, v) == Retemped([f EXCEPT !.mode = IF v < -1 THEN -1 ELSE IF v > 2 THEN 2 ELSE v])
Based(f, x)  == Retemped([f EXCEPT !.base = Level(x)])

(* EXPERT_*: the temperature is not computed again. *)
Weighted(f, x)   == [f EXCEPT !.experts = Level(x)]
SetTo(f, s, x)   == [f EXCEPT !.set[s] = Level(x)]
Indebted(f, x)   == [f EXCEPT !.debt = IF x > DebtTop THEN DebtTop ELSE IF x < 0 THEN 0 ELSE x]
InSeason(f, s)   == [f EXCEPT !.season = s, !.phase = 0]
FieldReset(f)    == [f EXCEPT !.debt = 0, !.timeDebt = 0, !.set["pain"] = 0]
DebtReset(f)     == [f EXCEPT !.debt = 0, !.timeDebt = 0]

(* MODE, DISABLE; CODES.CHORDLOCK enables its pack, CHORDLOCK needs it. *)
Packed(f, on)    == [f EXCEPT !.pack = on]
LockedNs(f, on)  == [f EXCEPT !.pack = TRUE, !.lock = on]
Locked(f, on)    == IF f.pack THEN [f EXCEPT !.lock = on] ELSE f

-----------------------------------------------------------------------------
(* Gamma, as functions of the record g. *)

EmptyGamma == [slots |-> [i \in GammaSlots |-> [name |-> "", alpha |-> 0, active |-> FALSE]],
               n |-> 0, essence |-> 0, janus |-> "off", a |-> 0, b |-> 0, blend |-> 0]

GammaAt(g, name) == {i \in GammaSlots : i < g.n /\ g.slots[i].active /\ g.slots[i].name = name}
GammaIndex(g, name) == IF GammaAt(g, name) # {} THEN Min(GammaAt(g, name)) ELSE -1

(* am_gamma_load. Slots are never used again; the first sets the essence, unclamped. *)
GammaLoaded(g, name, alpha) ==
  LET i == GammaIndex(g, name)
      new == [g EXCEPT !.slots[g.n] = [name |-> name, alpha |-> Level(alpha), active |-> TRUE], !.n = @ + 1]
  IN  IF i >= 0 THEN [g EXCEPT !.slots[i].alpha = Level(alpha)]
      ELSE IF g.n >= MaxGamma THEN g
      ELSE IF g.n = 0 THEN [new EXCEPT !.a = 0, !.essence = alpha]
      ELSE new

GammaUnloaded(g, name) ==
  LET i == GammaIndex(g, name)
  IN  IF i < 0 THEN g ELSE [g EXCEPT !.slots[i] = [name |-> "", alpha |-> 0, active |-> FALSE]]

(* am_janus_set: what is missing is loaded; with no room for a face the mode stays. *)
Faced(g, x, y) ==
  LET i == GammaIndex(g, x)  \* both are looked for before either is loaded
      j == GammaIndex(g, y)
      h == IF i < 0 THEN GammaLoaded(g, x, Top) ELSE g
      k == IF j < 0 THEN GammaLoaded(h, y, Top) ELSE h
      a == GammaIndex(k, x)
      b == GammaIndex(k, y)
  IN  IF a < 0 \/ b < 0 THEN k ELSE [k EXCEPT !.a = a, !.b = b, !.janus = "dual", !.blend = 2]

(* am_gamma_active. Blends are quarters. *)
Speaking(g) ==
  LET live == {i \in GammaSlots : i < g.n /\ g.slots[i].active}
      loudest == {i \in live : \A j \in live : g.slots[j].alpha <= g.slots[i].alpha}
  IN  CASE g.janus = "cycle" -> IF g.blend < 2 THEN g.a ELSE g.b
        [] g.janus = "dual"  -> g.a
        [] OTHER -> IF live = {} THEN -1 ELSE Min(loudest)

(* The end of am_step. Summer leans to one face, winter to the other, the rest sways. *)
GammaStepped(g, f, sway) ==
  LET cycling == g.janus = "cycle" /\ g.n >= 2
      lean == g.blend + (CASE f.season = 1 -> -2 [] f.season = 3 -> 2 [] OTHER -> sway)
      h == IF cycling THEN [g EXCEPT !.blend = IF lean < 0 THEN 0 ELSE IF lean > 4 THEN 4 ELSE lean] ELSE g
      k == IF cycling /\ Speaking(h) \in 0..(h.n - 1) THEN [h EXCEPT !.essence = h.slots[Speaking(h)].alpha] ELSE h
  IN  IF g.n > 0 THEN [k EXCEPT !.essence = Level(@ + f.warm)] ELSE k

(* The native functions: which of them set something followed here. *)
Natives == {"bootstrap_self", "galvanize", "chaos_injection", "shatter_the_frame", "reflect_on_self",
            "forge_new_reality", "dissolve_boundaries", "rewind_experience", "ignite_singularity",
            "janus_gaze", "field_assemble"}
NativeField(f, name) ==
  CASE name = "bootstrap_self"       -> Moving(SetTo(FieldReset(f), "attend_focus", Top), 1)
    [] name \in {"galvanize", "chaos_injection"} -> Moving(f, 2)
    [] name = "shatter_the_frame"    -> SetTo(SetTo(f, "pain", Top), "tunnel_chance", 1)
    [] name = "reflect_on_self"      -> Moving(SetTo(f, "attend_focus", Top), 0)
    [] name = "forge_new_reality"    -> Weighted(SetTo(f, "destiny", 0), Top)
    [] name = "dissolve_boundaries"  -> Weighted(SetTo(f, "attend_focus", 0), 1)
    [] name = "rewind_experience"    -> Moving(f, -1)
    [] name = "ignite_singularity"   -> [Moving(Weighted(SetTo(SetTo(f, "destiny", Top), "tunnel_chance", Top), Top), 2)
                                           EXCEPT !.season = 1]
    [] name = "janus_gaze"           -> SetTo(f, "attend_focus", 1)
    [] OTHER -> f
NativeGamma(g, name) ==
  CASE name = "ignite_singularity" -> [g EXCEPT !.essence = Top]
    [] name = "janus_gaze" /\ g.n >= 2 -> [g EXCEPT !.janus = "dual", !.blend = 2]
    [] name = "field_assemble"     -> [g EXCEPT !.janus = "cycle", !.essence = Top]
    [] OTHER -> g

-----------------------------------------------------------------------------
(* am_step. *)

(* How much the calendars disagree: by the day, or by LAW CALENDAR_PHASE. *)
Dissonances == IF ~byHand THEN 0..Top
               ELSE LET p == field.set["calendar_phase"]
                        d == field.set["calendar_drift"]
                    IN  {IF d = 0 THEN 0 ELSE IF p >= d THEN Top ELSE p}

(* The wormhole, and the debt, which the calendar feeds and time wears off. *)
Calendared(f, c, debt) == [f EXCEPT !.wormhole = c > f.set["wormhole_gate"], !.debt = debt]
Debts(f, c) == {d \in 0..DebtTop : d >= f.debt - 1 /\ d <= f.debt + (IF c > 0 THEN 1 ELSE 0)}

(* Too much debt: the field is slowed, and nothing sets it moving again. *)
Slowed(f) == IF f.debt > DebtLimit /\ f.mode # 0 THEN Retemped([f EXCEPT !.mode = 0]) ELSE f

TimeOwed(f) == [f EXCEPT !.timeDebt = IF f.mode = -1 THEN Level(@ + 1) ELSE Level(@ - 1)]

(* The temperature is computed with the energies of the seasons before they move. *)
Seasoned(f, warm, harvest) ==
  [f EXCEPT !.phase = (@ + 1) % SeasonSteps, !.season = IF f.phase + 1 = SeasonSteps THEN (@ + 1) % 4 ELSE @,
            !.warm = warm, !.harvest = harvest]

Stepped(f) ==
  UNION {{Seasoned(Retemped(TimeOwed(Slowed(Calendared(f, c, d)))), w, h) :
           d \in Debts(f, c), w \in -1..1, h \in BOOLEAN} : c \in Dissonances}

-----------------------------------------------------------------------------
(* METHOD. The ring is also HARMONIC's: am_harmonic_push_entropy. *)

NoMethod == [organisms |-> <<>>, ring |-> [i \in 0..(HistoryLen - 1) |-> 0], pos |-> 0, len |-> 0, all |-> <<>>]

Joined(m, e) == IF Len(m.organisms) >= MaxOrganisms THEN m ELSE [m EXCEPT !.organisms = Append(@, e)]
Parted(m)    == [m EXCEPT !.organisms = <<>>]

Pushed(m, e) == [m EXCEPT !.ring[m.pos] = e, !.pos = (@ + 1) % HistoryLen,
                          !.len = Min({@ + 1, HistoryLen}), !.all = Append(@, e)]

(* The k-th entropy before the last. *)
Ago(m, k)   == m.ring[(m.pos - 1 - k + HistoryLen) % HistoryLen]
Entropy(m)  == FoldSeq(+, 0, m.organisms) \div Len(m.organisms)

(* The mean before the recent ones, less that of the recent ones, times both counts. *)
Trend(m) ==
  LET recent  == 0..(TrendWindow - 1)
      earlier == TrendWindow..(Min({m.len, 2 * TrendWindow}) - 1)
  IN  IF m.len <= TrendWindow THEN 0
      ELSE TrendWindow * MapThenSumSet(LAMBDA k : Ago(m, k), earlier)
             - Cardinality(earlier) * MapThenSumSet(LAMBDA k : Ago(m, k), recent)

(* am_harmonic_forward: the entropies a wave is sought in, from the oldest; whom each
   organism is compared with; the counts its confidence rests on. *)
am_harmonic_forward(m) ==
  IF m.organisms = <<>> THEN [wave |-> <<>>, compared |-> <<>>, sure |-> <<0, 0>>]
  ELSE [wave |-> IF m.len < Harmonics THEN <<>>
                 ELSE [t \in 1..m.len |-> m.ring[(m.pos - m.len + t - 1 + HistoryLen) % HistoryLen]],
        compared |-> [i \in DOMAIN m.organisms |-> DOMAIN m.organisms \ {i}],
        sure |-> <<Min({m.len, 4 * Harmonics}), Min({Len(m.organisms), 4})>>]

Verdict(m, coherent) ==
  IF ~coherent              THEN "realign"
  ELSE IF Trend(m) > 0      THEN "amplify"
  ELSE IF Trend(m) < 0      THEN "dampen"
  ELSE IF Entropy(m) = Top  THEN "ground"
  ELSE IF Entropy(m) = 0    THEN "explore"
  ELSE "sustain"

(* The commands METHOD runs after its step. *)
Steered(f, verdict) ==
  CASE verdict = "dampen"  -> Moving(SetTo(f, "pain", 1), 1)
    [] verdict = "amplify" -> SetTo(Moving(f, 2), "destiny", 1)
    [] verdict = "ground"  -> Moving(SetTo(f, "attend_focus", Top), 0)
    [] verdict = "explore" -> Moving(SetTo(f, "tunnel_chance", 1), 2)
    [] verdict = "realign" -> SetTo(SetTo(f, "pain", 1), "attend_focus", Top)
    [] OTHER -> f

-----------------------------------------------------------------------------
FieldInit == /\ field = FreshField /\ gamma = EmptyGamma /\ byHand = FALSE /\ method = NoMethod
             /\ stepped = FALSE /\ fieldCalls = 0

Counted == fieldCalls < MaxFieldCalls /\ fieldCalls' = fieldCalls + 1

(* A line that sets the field. *)
SetField ==
  /\ Counted /\ stepped' = FALSE /\ UNCHANGED <<gamma, method>>
  /\ \/ /\ \/ \E v \in -2..3 : field' = Moving(field, v)
           \/ \E x \in Given : field' \in {Based(field, x), Weighted(field, x)}
           \/ \E s \in Settings \ {"calendar_phase"}, x \in Given : field' = SetTo(field, s, x)
           \/ \E x \in 0..(DebtTop + 1) : field' = Indebted(field, x)
           \/ \E s \in 0..3 : field' = InSeason(field, s)
           \/ \E on \in BOOLEAN : field' \in {Packed(field, on), LockedNs(field, on), Locked(field, on)}
           \/ field' \in {FieldReset(field), DebtReset(field)}
        /\ UNCHANGED byHand
     \/ \E x \in Given : field' = SetTo(field, "calendar_phase", x) /\ byHand' = TRUE

(* am_register_prophecy_debt, of a host that has chosen a token. *)
OffPeak == /\ Counted /\ stepped' = FALSE /\ \E d \in 1..2 : field' = Indebted(field, field.debt + d)
           /\ UNCHANGED <<gamma, byHand, method>>

SetGamma ==
  /\ Counted /\ stepped' = FALSE /\ UNCHANGED <<field, byHand, method>>
  /\ \/ \E name \in GammaNames :
          \/ \E x \in Given : gamma' = GammaLoaded(gamma, name, x)
          \/ gamma' = GammaUnloaded(gamma, name)
          \/ \E other \in GammaNames : gamma' = Faced(gamma, name, other)
     \/ \E mode \in {"off", "dual", "cycle"} : gamma' = [gamma EXCEPT !.janus = mode]
     \/ \E x \in Given : gamma' = [gamma EXCEPT !.essence = Level(x)]
     \/ \E x \in {0, 4} : gamma' = [gamma EXCEPT !.blend = x]

Native == /\ Counted /\ stepped' = FALSE /\ UNCHANGED <<byHand, method>>
          /\ \E name \in Natives : field' = NativeField(field, name) /\ gamma' = NativeGamma(gamma, name)

FieldStep == /\ Counted /\ stepped' = TRUE
        /\ field' \in Stepped(field) /\ \E sway \in -1..1 : gamma' = GammaStepped(gamma, field', sway)
        /\ UNCHANGED <<byHand, method>>

MethodGathers == /\ Counted /\ stepped' = FALSE
                 /\ \/ \E e \in 0..Top : method' = Joined(method, e)
                    \/ method' = Parted(method)
                 /\ UNCHANGED <<field, gamma, byHand>>

(* am_method_step: with no organisms it waits, and the field is not stepped. *)
MethodStep ==
  /\ Counted /\ stepped' = FALSE /\ UNCHANGED byHand
  /\ IF method.organisms = <<>> THEN UNCHANGED <<field, gamma, method>>
     ELSE /\ method' = Pushed(method, Entropy(method))
          /\ \E verdict \in {Verdict(method', TRUE), Verdict(method', FALSE)} : \E f \in Stepped(field), sway \in -1..1 :
               /\ field' = Steered(f, verdict) /\ gamma' = GammaStepped(gamma, f, sway)

FieldNext == SetField \/ Native \/ OffPeak \/ SetGamma \/ FieldStep \/ MethodGathers \/ MethodStep

-----------------------------------------------------------------------------
(* What is derived follows what it is derived from, by whichever command, step or verdict
   that was set: the temperature that drives generation and the direction of time are those
   of the velocity and base temperature now in force, and no step leaves a field with too
   much debt in motion. *)
TemperatureFollows ==
  /\ field.temp.mode = field.mode /\ field.temp.base = field.base
  /\ field.direction = (IF field.mode = -1 THEN -1 ELSE 1)
  /\ stepped => (field.debt > DebtLimit => field.mode = 0) /\ field.temp.experts = field.experts

(* METHOD judges a trend by the latest entropies in their order, and HARMONIC hears the same
   ones the other way round. *)
MethodFollows ==
  /\ method.len = Min({Len(method.all), HistoryLen})
  /\ \A k \in 0..(method.len - 1) : Ago(method, k) = method.all[Len(method.all) - k]
  /\ LET wave == am_harmonic_forward(method).wave
     IN  wave # <<>> => wave = SubSeq(method.all, Len(method.all) - Len(wave) + 1, Len(method.all))

(* No more slots are in use than there are, and a face is a slot of the table. *)
GammaIsInTable == {gamma.a, gamma.b} \subseteq GammaSlots /\ gamma.n \in 0..MaxGamma

(* What is unloaded is silent: an empty slot has no name and no strength, so that neither a
   face of JANUS left on it nor the blend of two speaks with it; no two slots answer to a
   name; and what is active is found, being one of those in use. *)
GammaIsSettled ==
  /\ \A i \in GammaSlots : ~gamma.slots[i].active => gamma.slots[i].name = "" /\ gamma.slots[i].alpha = 0
  /\ \A i, j \in GammaSlots : i # j /\ gamma.slots[i].active => gamma.slots[i].name # gamma.slots[j].name
  /\ \A i \in GammaSlots : gamma.slots[i].active => i < gamma.n
=============================================================================
