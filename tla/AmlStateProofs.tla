------------------------------ MODULE AmlStateProofs ------------------------------
(* Theorems of what the AML interpreter keeps between commands: its field and memory, and
   its two tables of handles, for any sizes.

   The field restored from files that end anywhere is as coherent as one set by commands,
   and two words have one edge and a voice its own words.  FieldInv: what is derived in the
   field follows.  GammaInv: the slots are settled.  MethodInv: the ring holds the latest
   entropies.  WordsInv: the words have their shape.  Each is stated of the process and of
   every file at once, since a load makes the next field of what a save left; MakingInv are
   the marks that say which of them were made in one piece.

   BLOOD: each open library is held by one row, and no file is left of a module that is
   gone.  What a step does to the rows that hold a text decides what becomes of the count
   of its library, so that the proof begins with those rows.  PIPE and INDEX: each open
   descriptor is one pipe's, and each pipe leads to a FIFO made at its path, for any number
   of nodes, names, FIFOs and messages.  Every call of the interface keeps a relation
   between a table, the FIFOs and the paths (Leads), and the commands are made of those
   calls.                                                                              *)
EXTENDS AmlSoma, AmlBlood, AmlPipes, SequenceTheorems, FiniteSetTheorems, WellFoundedInduction, TLAPS

Temps == [mode : Modes, base : 0..Top, experts : 0..Top, warm : -1..1]
Field == [mode : Modes, base : 0..Top, experts : 0..Top, warm : -1..1, harvest : BOOLEAN,
          direction : {-1, 1}, temp : Temps, debt : 0..DebtTop, timeDebt : 0..Top, season : 0..3,
          phase : 0..(SeasonSteps - 1), wormhole : BOOLEAN, pack : BOOLEAN, lock : BOOLEAN,
          set : [Settings -> 0..Top]]

(* The temperature and the direction are those of the velocity and base in force. *)
Follows(f) == f.temp.mode = f.mode /\ f.temp.base = f.base /\ f.direction = (IF f.mode = -1 THEN -1 ELSE 1)

(* What a step leaves: no motion with too much debt, and a temperature of all that it is of. *)
Rests(f) == (f.debt > DebtLimit => f.mode = 0) /\ f.temp.experts = f.experts

-----------------------------------------------------------------------------
\* The limits the field is kept in, one by one.
LEMMA Limits ==
  /\ Top \in Nat /\ Top >= 1 /\ DebtTop \in Nat /\ DebtLimit \in Nat /\ DebtLimit < DebtTop
  /\ SeasonSteps \in Nat /\ SeasonSteps >= 1 /\ MaxGamma \in Nat /\ MaxGamma >= 1
  /\ HistoryLen \in Nat /\ HistoryLen >= 1 /\ Harmonics \in Nat
<1>1. {Top, DebtTop, SeasonSteps, MaxGamma, HistoryLen, Harmonics} \subseteq Nat \ {0}
  BY FieldLimits
<1>2. /\ Top \in Nat \ {0} /\ DebtTop \in Nat \ {0} /\ SeasonSteps \in Nat \ {0}
      /\ MaxGamma \in Nat \ {0} /\ HistoryLen \in Nat \ {0} /\ Harmonics \in Nat \ {0}
  BY <1>1
<1>3. DebtLimit \in 0..(DebtTop - 1)
  BY FieldLimits
<1>5. \A n \in Nat \ {0} : n \in Nat /\ n >= 1
  OBVIOUS
<1>6. DebtLimit \in Nat /\ DebtLimit < DebtTop
  BY <1>2, <1>3
<1> QED BY <1>2, <1>5, <1>6

(* A set of natural numbers that is not empty has the minimum that Min chooses. *)
LEMMA MinIsLeast ==
  ASSUME NEW T, T \subseteq Nat, T # {}
  PROVE  Min(T) \in T /\ \A y \in T : Min(T) <= y
<1> DEFINE Below == {1 .. x : x \in T}
<1>1. Below \subseteq FiniteSubsetsOf(Nat)
  <2>1. \A x \in T : IsFiniteSet(1 .. x) /\ 1 .. x \subseteq Nat
    BY FS_Interval
  <2> QED BY <2>1 DEF FiniteSubsetsOf
<1>2. Below # {}
  OBVIOUS
<1>3. IsWellFoundedOn(StrictSubsetOrdering(Nat), FiniteSubsetsOf(Nat))
  BY FS_StrictSubsetOrderingWellFounded
<1>4. PICK b \in Below : \A c \in Below : ~ (<<c, b>> \in StrictSubsetOrdering(Nat))
  BY <1>1, <1>2, <1>3, WFMin
<1>5. PICK x \in T : b = 1 .. x
  OBVIOUS
<1>6. ASSUME NEW y \in T PROVE x <= y
  <2>1. ~ (<<1 .. y, 1 .. x>> \in StrictSubsetOrdering(Nat))
    BY <1>4, <1>5
  <2>2. <<1 .. y, 1 .. x>> \in (SUBSET Nat) \X (SUBSET Nat)
    OBVIOUS
  <2>3. SUFFICES ASSUME y < x PROVE FALSE
    OBVIOUS
  <2>4. x \in 1 .. x /\ x \notin 1 .. y
    BY <2>3
  <2>5. 1 .. y \subseteq 1 .. x
    BY <2>3
  <2> QED BY <2>1, <2>2, <2>4, <2>5 DEF StrictSubsetOrdering
<1>7. \E m \in T : \A y \in T : m <= y
  BY <1>6
<1> QED BY <1>7 DEF Min

\* A level stays in its scale.
LEMMA LevelType == \A x \in Int : Level(x) \in 0..Top
<1>1. Top \in Nat
  BY Limits
<1> QED BY <1>1 DEF Level

\* The parts of a field.
LEMMA FieldFields ==
  ASSUME NEW f \in Field
  PROVE  /\ f.mode \in Modes /\ f.base \in 0..Top /\ f.experts \in 0..Top /\ f.warm \in -1..1
         /\ f.debt \in 0..DebtTop /\ f.timeDebt \in 0..Top /\ f.phase \in 0..(SeasonSteps - 1) /\ f.season \in 0..3
         /\ f.temp \in Temps /\ f.direction \in {-1, 1} /\ f.set \in [Settings -> 0..Top] /\ f.pack \in BOOLEAN
BY DEF Field

\* update_effective_temp: the temperature is of the velocity and base in force.
LEMMA RetempedFollows ==
  ASSUME NEW f \in Field
  PROVE  /\ Retemped(f) \in Field /\ Follows(Retemped(f))
         /\ Retemped(f).mode = f.mode /\ Retemped(f).debt = f.debt /\ Retemped(f).experts = f.experts
         /\ Retemped(f).temp.experts = f.experts
<1> DEFINE t == [mode |-> f.mode, base |-> f.base, experts |-> f.experts, warm |-> f.warm]
           d == IF f.mode = -1 THEN -1 ELSE 1
           g == [f EXCEPT !.temp = t, !.direction = d]
<1>1. t \in Temps /\ d \in {-1, 1} /\ t.mode = f.mode /\ t.base = f.base /\ t.experts = f.experts
  BY FieldFields DEF Temps
<1>2. Retemped(f) = g
  BY DEF Retemped
<1>3. d = IF f.mode = -1 THEN -1 ELSE 1
  OBVIOUS
<1> HIDE DEF t, d
<1>4. /\ g \in Field /\ g.temp = t /\ g.direction = d /\ g.mode = f.mode /\ g.base = f.base
      /\ g.debt = f.debt /\ g.experts = f.experts
  BY <1>1 DEF Field
<1> HIDE DEF g
<1> QED BY <1>1, <1>2, <1>3, <1>4 DEF Follows

\* VELOCITY: the velocity sets the direction of time, then the temperature.
LEMMA MovingFollows ==
  ASSUME NEW f \in Field, NEW v \in Int
  PROVE  Moving(f, v) \in Field /\ Follows(Moving(f, v))
<1> DEFINE m == IF v < -1 THEN -1 ELSE IF v > 2 THEN 2 ELSE v
           g == [f EXCEPT !.mode = m]
<1>1. m \in Modes
  BY DEF Modes
<1> HIDE DEF m
<1>2. g \in Field
  BY <1>1 DEF Field
<1> HIDE DEF g
<1> QED BY <1>2, RetempedFollows DEF Moving, m, g

\* BASE_TEMP: a base sets the temperature.
LEMMA BasedFollows ==
  ASSUME NEW f \in Field, NEW x \in Int
  PROVE  Based(f, x) \in Field /\ Follows(Based(f, x))
<1> DEFINE b == Level(x)
           g == [f EXCEPT !.base = b]
<1>1. b \in 0..Top
  BY LevelType
<1> HIDE DEF b
<1>2. g \in Field
  BY <1>1 DEF Field
<1> HIDE DEF g
<1> QED BY <1>2, RetempedFollows DEF Based, b, g

(* The commands that leave the velocity and the base as they are. *)
LEMMA OthersFollow ==
  ASSUME NEW f \in Field, NEW x \in Int, NEW s \in Settings, NEW on \in BOOLEAN, NEW z \in 0..3,
         NEW g \in {Weighted(f, x), SetTo(f, s, x), Indebted(f, x), InSeason(f, z), FieldReset(f), DebtReset(f),
                    Packed(f, on), LockedNs(f, on), Locked(f, on)}
  PROVE  g \in Field /\ (Follows(f) => Follows(g))
<1> DEFINE b == Level(x)
           c == IF x > DebtTop THEN DebtTop ELSE IF x < 0 THEN 0 ELSE x
<1>1. b \in 0..Top /\ 0 \in 0..Top /\ c \in 0..DebtTop /\ 0 \in 0..DebtTop /\ 0 \in 0..(SeasonSteps - 1)
      /\ "pain" \in Settings
  <2>1. Top \in Nat /\ DebtTop \in Nat /\ SeasonSteps \in Nat /\ SeasonSteps >= 1
    BY Limits
  <2>2. b \in 0..Top
    BY LevelType
  <2>3. c \in 0..DebtTop
    BY <2>1
  <2> QED BY <2>1, <2>2, <2>3 DEF Settings
<1> HIDE DEF b, c
<1>2. /\ g \in Field
      /\ g.temp = f.temp /\ g.direction = f.direction /\ g.mode = f.mode /\ g.base = f.base
  <2>1. CASE g = Weighted(f, x)
    BY <2>1, <1>1 DEF Weighted, Field, b
  <2>2. CASE g = SetTo(f, s, x)
    <3>1. g = [f EXCEPT !.set = [f.set EXCEPT ![s] = b]]
      BY <2>2 DEF SetTo, b, Field
    <3>2. [f.set EXCEPT ![s] = b] \in [Settings -> 0..Top]
      BY <1>1, FieldFields
    <3> QED BY <3>1, <3>2 DEF Field
  <2>3. CASE g = Indebted(f, x)
    BY <2>3, <1>1 DEF Indebted, Field, c
  <2>4. CASE g = InSeason(f, z)
    BY <2>4, <1>1 DEF InSeason, Field
  <2>5. CASE g = FieldReset(f)
    <3>1. g = [f EXCEPT !.debt = 0, !.timeDebt = 0, !.set = [f.set EXCEPT !["pain"] = 0]]
      BY <2>5 DEF FieldReset, Field
    <3>2. [f.set EXCEPT !["pain"] = 0] \in [Settings -> 0..Top]
      BY <1>1, FieldFields
    <3> QED BY <1>1, <3>1, <3>2 DEF Field
  <2>6. CASE g = DebtReset(f)
    BY <2>6, <1>1 DEF DebtReset, Field
  <2>7. CASE g \in {Packed(f, on), LockedNs(f, on), Locked(f, on)}
    <3>1. CASE g = Packed(f, on)
      BY <3>1 DEF Packed, Field
    <3>2. CASE g = LockedNs(f, on)
      BY <3>2 DEF LockedNs, Field
    <3>3. CASE g = Locked(f, on)
      BY <3>3 DEF Locked, Field
    <3> QED BY <2>7, <3>1, <3>2, <3>3, Zenon
  <2> QED BY <2>1, <2>2, <2>3, <2>4, <2>5, <2>6, <2>7
<1> QED BY <1>2 DEF Follows

(* What a command makes of a coherent field is one. *)
Carries(f, g) == g \in Field /\ (Follows(f) => Follows(g))

\* Every command of the field leaves what is derived following what it is derived from.
LEMMA CommandsFollow ==
  ASSUME NEW f \in Field
  PROVE  /\ \A x \in Int : /\ Carries(f, Moving(f, x)) /\ Carries(f, Based(f, x)) /\ Carries(f, Weighted(f, x))
                          /\ Carries(f, Indebted(f, x)) /\ \A s \in Settings : Carries(f, SetTo(f, s, x))
         /\ \A on \in BOOLEAN : Carries(f, Packed(f, on)) /\ Carries(f, LockedNs(f, on)) /\ Carries(f, Locked(f, on))
         /\ \A z \in 0..3 : Carries(f, InSeason(f, z))
         /\ Carries(f, FieldReset(f)) /\ Carries(f, DebtReset(f))
<1>0. "pain" \in Settings /\ TRUE \in BOOLEAN /\ 0 \in Int /\ 0 \in 0..3
  BY DEF Settings
<1>1. ASSUME NEW x \in Int, NEW s \in Settings
      PROVE  Carries(f, Moving(f, x)) /\ Carries(f, Based(f, x)) /\ Carries(f, Weighted(f, x)) /\ Carries(f, Indebted(f, x))
             /\ Carries(f, SetTo(f, s, x))
  <2>1. /\ Weighted(f, x) \in Field /\ (Follows(f) => Follows(Weighted(f, x)))
        /\ Indebted(f, x) \in Field /\ (Follows(f) => Follows(Indebted(f, x)))
        /\ SetTo(f, s, x) \in Field /\ (Follows(f) => Follows(SetTo(f, s, x)))
    BY <1>0, OthersFollow
  <2> QED BY <2>1, MovingFollows, BasedFollows DEF Carries
<1>2. ASSUME NEW on \in BOOLEAN
      PROVE  Carries(f, Packed(f, on)) /\ Carries(f, LockedNs(f, on)) /\ Carries(f, Locked(f, on))
  <2>1. /\ Packed(f, on) \in Field /\ (Follows(f) => Follows(Packed(f, on)))
        /\ LockedNs(f, on) \in Field /\ (Follows(f) => Follows(LockedNs(f, on)))
        /\ Locked(f, on) \in Field /\ (Follows(f) => Follows(Locked(f, on)))
    BY <1>0, OthersFollow
  <2> QED BY <2>1 DEF Carries
<1>3. ASSUME NEW z \in 0..3 PROVE Carries(f, InSeason(f, z))
  <2>1. InSeason(f, z) \in Field /\ (Follows(f) => Follows(InSeason(f, z)))
    BY <1>0, OthersFollow
  <2> QED BY <2>1 DEF Carries
<1>4. Carries(f, FieldReset(f)) /\ Carries(f, DebtReset(f))
  <2>1. /\ FieldReset(f) \in Field /\ (Follows(f) => Follows(FieldReset(f)))
        /\ DebtReset(f) \in Field /\ (Follows(f) => Follows(DebtReset(f)))
    BY <1>0, OthersFollow
  <2> QED BY <2>1 DEF Carries
<1> HIDE DEF Carries
<1>5. ASSUME NEW x \in Int
      PROVE  Carries(f, Moving(f, x)) /\ Carries(f, Based(f, x)) /\ Carries(f, Weighted(f, x)) /\ Carries(f, Indebted(f, x))
  BY <1>0, <1>1
<1> QED BY <1>1, <1>2, <1>3, <1>4, <1>5

(* A native function, and METHOD after its step, run a few commands in a row. *)
LEMMA NextCommandFollows ==
  ASSUME NEW f \in Field, NEW h, Carries(f, h)
  PROVE  /\ \A x \in Int : Carries(f, Moving(h, x)) /\ Carries(f, Weighted(h, x))
                         /\ \A s \in Settings : Carries(f, SetTo(h, s, x))
         /\ Carries(f, FieldReset(h)) /\ Carries(f, [h EXCEPT !.season = 1])
<1>1. h \in Field /\ (Follows(f) => Follows(h))
  BY DEF Carries
<1>2. \A g : Carries(h, g) => Carries(f, g)
  BY <1>1 DEF Carries
<1>3. Carries(f, [h EXCEPT !.season = 1])
  <2> DEFINE g == [h EXCEPT !.season = 1]
  <2>1. g \in Field /\ g.temp = h.temp /\ g.direction = h.direction /\ g.mode = h.mode /\ g.base = h.base
    BY <1>1 DEF Field
  <2>2. Follows(h) => Follows(g)
    BY <2>1 DEF Follows
  <2> QED BY <1>1, <2>1, <2>2 DEF Carries
<1>4. /\ \A x \in Int : Carries(h, Moving(h, x)) /\ Carries(h, Weighted(h, x))
                       /\ \A s \in Settings : Carries(h, SetTo(h, s, x))
      /\ Carries(h, FieldReset(h))
  BY <1>1, CommandsFollow
<1> QED BY <1>2, <1>3, <1>4

\* The numbers a verdict and a native come to.
LEMMA Numbers ==
  /\ Top \in Int /\ 0 \in Int /\ 1 \in Int /\ 2 \in Int /\ -1 \in Int
  /\ "attend_focus" \in Settings /\ "pain" \in Settings /\ "tunnel_chance" \in Settings /\ "destiny" \in Settings
<1>1. Top \in Int
  BY Limits
<1> QED BY <1>1 DEF Settings

\* A native function of the field does what its command does.
LEMMA NativeFollows ==
  ASSUME NEW f \in Field, NEW name
  PROVE  Carries(f, NativeField(f, name))
<1>1. Carries(f, f)
  BY DEF Carries
<1>2. /\ Carries(f, Moving(SetTo(FieldReset(f), "attend_focus", Top), 1)) /\ Carries(f, Moving(f, 2))
      /\ Carries(f, SetTo(SetTo(f, "pain", Top), "tunnel_chance", 1)) /\ Carries(f, Moving(SetTo(f, "attend_focus", Top), 0))
      /\ Carries(f, Weighted(SetTo(f, "destiny", 0), Top)) /\ Carries(f, Weighted(SetTo(f, "attend_focus", 0), 1))
      /\ Carries(f, Moving(f, -1)) /\ Carries(f, SetTo(f, "attend_focus", 1))
  BY <1>1, Numbers, NextCommandFollows
<1>3. Carries(f, [Moving(Weighted(SetTo(SetTo(f, "destiny", Top), "tunnel_chance", Top), Top), 2) EXCEPT !.season = 1])
  BY <1>1, Numbers, NextCommandFollows
<1> QED BY <1>1, <1>2, <1>3 DEF NativeField

\* am_method_step: a verdict is carried out by commands.
LEMMA SteeredFollows ==
  ASSUME NEW f \in Field, NEW verdict
  PROVE  Carries(f, Steered(f, verdict))
<1>1. Carries(f, f)
  BY DEF Carries
<1>2. /\ Carries(f, Moving(SetTo(f, "pain", 1), 1)) /\ Carries(f, SetTo(Moving(f, 2), "destiny", 1))
      /\ Carries(f, Moving(SetTo(f, "attend_focus", Top), 0)) /\ Carries(f, Moving(SetTo(f, "tunnel_chance", 1), 2))
      /\ Carries(f, SetTo(SetTo(f, "pain", 1), "attend_focus", Top))
  BY <1>1, Numbers, NextCommandFollows
<1> QED BY <1>1, <1>2 DEF Steered

(* Wherever the field was, one step leaves it coherent, and at rest if it owes too much. *)
LEMMA SteppedFollows ==
  ASSUME NEW f \in Field, NEW g \in Stepped(f)
  PROVE  g \in Field /\ Follows(g) /\ Rests(g)
<1>1. PICK c \in Dissonances : \E d \in Debts(f, c), w \in -1..1, h \in BOOLEAN :
        g = Seasoned(Retemped(TimeOwed(Slowed(Calendared(f, c, d)))), w, h)
  BY DEF Stepped
<1>2. PICK d \in Debts(f, c), w \in -1..1, h \in BOOLEAN :
        g = Seasoned(Retemped(TimeOwed(Slowed(Calendared(f, c, d)))), w, h)
  BY <1>1
<1> DEFINE a == Calendared(f, c, d)
           b == Slowed(a)
           t == TimeOwed(b)
           r == Retemped(t)
<1>3. a \in Field
  <2>1. d \in 0..DebtTop
    BY DEF Debts
  <2>2. (c > f.set["wormhole_gate"]) \in BOOLEAN
    OBVIOUS
  <2> QED BY <2>1, <2>2 DEF Calendared, Field
<1>4. b \in Field /\ (b.debt > DebtLimit => b.mode = 0)
  <2>1. CASE a.debt > DebtLimit /\ a.mode # 0
    <3> DEFINE m == [a EXCEPT !.mode = 0]
    <3>1. m \in Field /\ m.mode = 0
      BY <1>3 DEF Field, Modes
    <3>2. b = Retemped(m)
      BY <2>1 DEF Slowed
    <3> QED BY <3>1, <3>2, RetempedFollows
  <2>2. CASE ~ (a.debt > DebtLimit /\ a.mode # 0)
    BY <1>3, <2>2 DEF Slowed
  <2> QED BY <2>1, <2>2
<1>5. t \in Field /\ t.debt = b.debt /\ t.mode = b.mode
  <2> HIDE DEF b
  <2>1. b.timeDebt \in 0..Top
    BY <1>4, FieldFields
  <2>2. b.timeDebt + 1 \in Int /\ b.timeDebt - 1 \in Int
    BY <2>1
  <2>3. Level(b.timeDebt + 1) \in 0..Top /\ Level(b.timeDebt - 1) \in 0..Top
    BY <2>2, LevelType
  <2>4. PICK l \in 0..Top : t = [b EXCEPT !.timeDebt = l]
    BY <1>4, <2>3 DEF TimeOwed, Field
  <2> QED BY <1>4, <2>4 DEF Field
<1>6. /\ r \in Field /\ Follows(r) /\ r.mode = t.mode /\ r.debt = t.debt
      /\ r.experts = t.experts /\ r.temp.experts = t.experts
  BY <1>5, RetempedFollows
<1>7. g = Seasoned(r, w, h)
  BY <1>2
<1> HIDE DEF r
<1>8. PICK p : p = (r.phase + 1) % SeasonSteps
  OBVIOUS
<1>9. PICK s : s = IF r.phase + 1 = SeasonSteps THEN (r.season + 1) % 4 ELSE r.season
  OBVIOUS
<1>10. p \in 0..(SeasonSteps - 1)
  <2>1. r.phase \in Nat /\ SeasonSteps \in Nat /\ SeasonSteps >= 1
    BY <1>6, FieldFields, Limits
  <2>2. \A n, m \in Nat : m >= 1 => (n + 1) % m \in 0..(m - 1)
    OBVIOUS
  <2> QED BY <1>8, <2>1, <2>2
<1>11. s \in 0..3
  <2>1. r.season \in 0..3
    BY <1>6, FieldFields
  <2>2. (r.season + 1) % 4 \in 0..3
    BY <2>1
  <2> QED BY <1>9, <2>1, <2>2
<1>12. g = [r EXCEPT !.phase = p, !.season = s, !.warm = w, !.harvest = h]
  BY <1>6, <1>7, <1>8, <1>9 DEF Seasoned, Field
<1>13. /\ g \in Field /\ g.mode = r.mode /\ g.base = r.base /\ g.temp = r.temp /\ g.direction = r.direction
       /\ g.debt = r.debt /\ g.experts = r.experts
  BY <1>6, <1>10, <1>11, <1>12 DEF Field
<1>14. Follows(g)
  BY <1>6, <1>13 DEF Follows
<1>15. Rests(g)
  BY <1>4, <1>5, <1>6, <1>13 DEF Rests
<1> QED BY <1>13, <1>14, <1>15

-----------------------------------------------------------------------------
(* The field and the file it is kept in. *)

Makings == [field : BOOLEAN, gamma : BOOLEAN, words : BOOLEAN]

\* The marks of what is of two makings, and whose they are.
MakingInv == /\ mixed \in Makings /\ soma.mixed \in Makings /\ voice \in Voices
             /\ DOMAIN sidecar = Voices /\ \A v \in Voices : sidecar[v].mixed \in BOOLEAN

FieldInv == /\ field \in Field /\ soma.field \in Field
            /\ ~mixed.field \/ stepped => Follows(field)
            /\ stepped => Rests(field)
            /\ ~soma.mixed.field => Follows(soma.field)

SomaStep == (FieldNext /\ UNCHANGED somaVars) \/ SomaNext

\* At first every file and the field are of one making.
LEMMA MakingInit == ASSUME SomaInit PROVE MakingInv
BY DEF SomaInit, MakingInv, OneMaking, NoSoma, NoSidecar, Makings

\* What does not touch the memory does not touch the makings.
LEMMA MakingStays == ASSUME MakingInv, UNCHANGED somaVars PROVE MakingInv'
BY DEF MakingInv, somaVars

\* Every step keeps the marks of the makings marks.
LEMMA MakingNext == ASSUME MakingInv, [SomaStep]_SomaVars PROVE MakingInv'
<1>0. /\ mixed \in Makings /\ soma.mixed \in Makings /\ voice \in Voices
      /\ DOMAIN sidecar = Voices /\ \A v \in Voices : sidecar[v].mixed \in BOOLEAN
      /\ mixed.field \in BOOLEAN /\ mixed.gamma \in BOOLEAN /\ mixed.words \in BOOLEAN
      /\ soma.mixed.field \in BOOLEAN /\ soma.mixed.gamma \in BOOLEAN /\ soma.mixed.words \in BOOLEAN
  BY DEF MakingInv, Makings
<1>1. CASE UNCHANGED somaVars
  BY <1>1, MakingStays
<1>2. CASE LoadSoma
  <2>1. UNCHANGED <<voice, soma, sidecar>>
    BY <1>2 DEF LoadSoma
  <2>2. PICK a : a = CASE soma.part \in {"none", "head"} -> mixed.field
                       [] soma.part = "base" -> TRUE
                       [] OTHER -> soma.mixed.field
    OBVIOUS
  <2>3. PICK b : b = CASE soma.part = "all" -> soma.mixed.words
                       [] soma.part = "sources" -> TRUE
                       [] OTHER -> mixed.words
    OBVIOUS
  <2>4. PICK c : c = CASE soma.part \in {"none", "head", "base"} -> mixed.gamma
                       [] soma.part = "gamma" /\ soma.cut = 0 -> mixed.gamma
                       [] soma.part = "gamma" /\ soma.cut \in 1..SlotWords -> TRUE
                       [] OTHER -> soma.mixed.gamma
    OBVIOUS
  <2>5. a \in BOOLEAN /\ b \in BOOLEAN /\ c \in BOOLEAN
    BY <1>0, <2>2, <2>3, <2>4
  <2>6. mixed' = [field |-> a, gamma |-> c, words |-> b]
    BY <1>2, <2>2, <2>3, <2>4 DEF LoadSoma
  <2>7. mixed' \in Makings
    BY <2>5, <2>6 DEF Makings
  <2> QED BY <1>0, <2>1, <2>7 DEF MakingInv
<1>3. CASE SaveSoma
  BY <1>0, <1>3 DEF SaveSoma, MakingInv
<1>4. CASE LoadSidecar
  <2>1. UNCHANGED <<voice, soma, sidecar>>
    BY <1>4 DEF LoadSidecar
  <2>2. PICK b : b = IF sidecar[voice].part = "all" THEN sidecar[voice].mixed
                     ELSE mixed.words \/ sidecar[voice].part = "sources"
    OBVIOUS
  <2>3. b \in BOOLEAN
    BY <1>0, <2>2
  <2>4. mixed' = [mixed EXCEPT !.words = b]
    BY <1>0, <1>4, <2>2 DEF LoadSidecar, Makings
  <2>5. mixed' \in Makings
    BY <1>0, <2>3, <2>4 DEF Makings
  <2> QED BY <1>0, <2>1, <2>5 DEF MakingInv
<1>5. CASE SaveSidecar
  <2>1. UNCHANGED <<voice, soma, mixed>>
    BY <1>5 DEF SaveSidecar
  <2>2. PICK f : sidecar' = [sidecar EXCEPT ![voice] = f] /\ f.mixed = mixed.words
    <3>1. PICK p, w : sidecar' = [sidecar EXCEPT ![voice] = [part |-> p, words |-> w, own |-> own, mixed |-> mixed.words]]
      BY <1>5 DEF SaveSidecar
    <3> DEFINE f == [part |-> p, words |-> w, own |-> own, mixed |-> mixed.words]
    <3>2. sidecar' = [sidecar EXCEPT ![voice] = f] /\ f.mixed = mixed.words
      BY <3>1
    <3> QED BY <3>2
  <2> QED BY <1>0, <2>1, <2>2 DEF MakingInv
<1>6. CASE Restart
  <2>1. OneMaking \in Makings
    BY DEF OneMaking, Makings
  <2>2. UNCHANGED <<soma, sidecar>> /\ voice' \in Voices /\ mixed' = OneMaking
    BY <1>6 DEF Restart
  <2> QED BY <1>0, <2>1, <2>2 DEF MakingInv
<1>7. CASE Ingest \/ Consolidate
  BY <1>0, <1>7 DEF Ingest, Consolidate, MakingInv
<1>8. CASE FieldNext /\ UNCHANGED somaVars
  BY <1>1, <1>8
<1>9. CASE UNCHANGED SomaVars
  BY <1>1, <1>9 DEF SomaVars
<1> QED BY <1>2, <1>3, <1>4, <1>5, <1>6, <1>7, <1>8, <1>9 DEF SomaStep, SomaNext

\* am_init leaves a field that follows.
LEMMA FreshFieldFollows == FreshField \in Field /\ Follows(FreshField)
<1> DEFINE n == [s \in Settings |-> IF s \in {"pain", "calendar_phase"} THEN 0 ELSE 1]
           t == [mode |-> 1, base |-> 1, experts |-> 1, warm |-> 0]
           g == [mode |-> 1, base |-> 1, experts |-> 1, warm |-> 0, harvest |-> FALSE, direction |-> 1,
                 temp |-> <<>>, debt |-> 0, timeDebt |-> 0, season |-> 0, phase |-> 0, wormhole |-> FALSE,
                 pack |-> FALSE, lock |-> FALSE, set |-> n]
           Bare == [mode : Modes, base : 0..Top, experts : 0..Top, warm : -1..1, harvest : BOOLEAN,
                    direction : {-1, 1}, temp : {<<>>}, debt : 0..DebtTop, timeDebt : 0..Top, season : 0..3,
                    phase : 0..(SeasonSteps - 1), wormhole : BOOLEAN, pack : BOOLEAN, lock : BOOLEAN,
                    set : [Settings -> 0..Top]]
<1>1. 0 \in 0..Top /\ 1 \in 0..Top /\ 0 \in 0..DebtTop /\ 0 \in 0..(SeasonSteps - 1)
  BY Limits
<1>2. n \in [Settings -> 0..Top]
  BY <1>1
<1>3. t \in Temps /\ t.mode = 1 /\ t.base = 1
  BY <1>1 DEF Temps, Modes
<1>4. FreshField = Retemped(g)
  BY DEF FreshField
<1> HIDE DEF n
<1>5. g \in Bare /\ g.mode = 1 /\ g.base = 1 /\ g.experts = 1 /\ g.warm = 0
  BY <1>1, <1>2 DEF Modes
<1> HIDE DEF g
<1>6. Retemped(g) = [g EXCEPT !.temp = t, !.direction = 1]
  BY <1>5 DEF Retemped
<1> HIDE DEF t
<1> DEFINE r == [g EXCEPT !.temp = t, !.direction = 1]
<1>7. r \in Field /\ r.temp = t /\ r.direction = 1 /\ r.mode = g.mode /\ r.base = g.base
  BY <1>3, <1>5 DEF Field
<1> QED BY <1>3, <1>4, <1>5, <1>6, <1>7 DEF Follows

(* A session's calls, except am_step's. *)
LEMMA CommandKeepsField ==
  ASSUME FieldInv, MakingInv, Carries(field, field'), stepped' = FALSE, soma' = soma, mixed' = mixed
  PROVE  FieldInv'
<1>1. mixed.field \in BOOLEAN
  BY DEF MakingInv, Makings
<1>2. field' \in Field /\ (Follows(field) => Follows(field'))
  BY DEF Carries
<1>3. Follows(field)' <=> Follows(field')
  BY DEF Follows
<1> QED BY <1>1, <1>2, <1>3 DEF FieldInv

\* am_step leaves a field that follows and rests.
LEMMA StepKeepsField ==
  ASSUME FieldInv, NEW f \in Stepped(field), NEW verdict, soma' = soma, mixed' = mixed,
         \/ field' = f /\ stepped' = TRUE
         \/ field' = Steered(f, verdict) /\ stepped' = FALSE
  PROVE  FieldInv'
<1>1. f \in Field /\ Follows(f) /\ Rests(f)
  BY SteppedFollows DEF FieldInv
<1>2. Carries(f, Steered(f, verdict))
  BY <1>1, SteeredFollows
<1>3. field' \in Field /\ Follows(field') /\ (stepped' => Rests(field'))
  BY <1>1, <1>2 DEF Carries
<1>4. (Follows(field)' <=> Follows(field')) /\ (Rests(field)' <=> Rests(field'))
  BY DEF Follows, Rests
<1> QED BY <1>3, <1>4 DEF FieldInv

\* The invariant of the field holds at first.
LEMMA FieldInvInit == ASSUME FieldInit, SomaInit PROVE FieldInv
BY FreshFieldFollows DEF FieldInit, SomaInit, OneMaking, NoSoma, FieldInv

\* The parts of a loaded field are another's that was loaded whole, or were two fields' own.
LEMMA LoadKeepsField ==
  ASSUME FieldInv, MakingInv, LoadSoma
  PROVE  FieldInv'
<1>0. /\ field \in Field /\ soma.field \in Field /\ (~mixed.field => Follows(field))
      /\ (~soma.mixed.field => Follows(soma.field))
      /\ stepped' = FALSE /\ soma' = soma
  BY DEF FieldInv, LoadSoma
<1>1. CASE soma.part \in {"none", "head"}
  <2>1. field' = field /\ mixed'.field = mixed.field
    BY <1>1 DEF LoadSoma
  <2> QED BY <1>0, <2>1 DEF FieldInv, Follows
<1>2. CASE soma.part = "base"
  <2> DEFINE n == [s \in Settings |-> IF s \in {"wormhole_gate", "calendar_phase"} THEN field.set[s] ELSE soma.field.set[s]]
  <2>1. field' = [field EXCEPT !.mode = soma.field.mode, !.base = soma.field.base, !.debt = soma.field.debt, !.set = n]
        /\ mixed'.field = TRUE
    BY <1>0, <1>2 DEF LoadSoma, Field
  <2>2. n \in [Settings -> 0..Top] /\ soma.field.mode \in Modes /\ soma.field.base \in 0..Top /\ soma.field.debt \in 0..DebtTop
    BY <1>0, FieldFields
  <2> HIDE DEF n
  <2>3. PICK m \in Modes, b \in 0..Top, d \in 0..DebtTop : field' = [field EXCEPT !.mode = m, !.base = b, !.debt = d, !.set = n]
    BY <2>1, <2>2
  <2>4. field' \in Field
    BY <1>0, <2>2, <2>3 DEF Field
  <2> QED BY <1>0, <2>1, <2>4 DEF FieldInv
<1>3. CASE soma.part \notin {"none", "head", "base"}
  <2>1. field' = soma.field /\ mixed'.field = soma.mixed.field
    BY <1>3 DEF LoadSoma
  <2> QED BY <1>0, <2>1 DEF FieldInv, Follows
<1> QED BY <1>1, <1>2, <1>3

\* Every step, load and save keeps the invariant of the field.
LEMMA FieldInvNext ==
  ASSUME FieldInv, MakingInv, [SomaStep]_SomaVars
  PROVE  FieldInv'
<1>0. /\ field \in Field /\ soma.field \in Field /\ (~mixed.field => Follows(field))
      /\ (~soma.mixed.field => Follows(soma.field)) /\ mixed.field \in BOOLEAN
  BY DEF FieldInv, MakingInv, Makings
<1>1. ASSUME UNCHANGED somaVars PROVE soma' = soma /\ mixed' = mixed
  BY <1>1 DEF somaVars
<1>2. ASSUME field' = field, stepped' = FALSE, soma' = soma, mixed' = mixed PROVE FieldInv'
  BY <1>0, <1>2 DEF FieldInv, Follows
<1>3. CASE SetField /\ UNCHANGED somaVars
  <2>1. Given \subseteq Int /\ (\A v \in -2..3 : v \in Int) /\ (\A x \in 0..(DebtTop + 1) : x \in Int) /\ "calendar_phase" \in Settings
    BY Limits DEF Given, Settings
  <2>2. Carries(field, field')
    BY <1>0, <1>3, <2>1, CommandsFollow DEF SetField
  <2> QED BY <1>1, <1>3, <2>2, CommandKeepsField DEF SetField
<1>4. CASE OffPeak /\ UNCHANGED somaVars
  <2>1. \A d \in 1..2 : field.debt + d \in Int
    BY <1>0, FieldFields
  <2>2. Carries(field, field')
    BY <1>0, <1>4, <2>1, CommandsFollow DEF OffPeak
  <2> QED BY <1>1, <1>4, <2>2, CommandKeepsField DEF OffPeak
<1>5. CASE Native /\ UNCHANGED somaVars
  <2>1. Carries(field, field')
    BY <1>0, <1>5, NativeFollows DEF Native
  <2> QED BY <1>1, <1>5, <2>1, CommandKeepsField DEF Native
<1>6. CASE (SetGamma \/ MethodGathers) /\ UNCHANGED somaVars
  BY <1>1, <1>2, <1>6 DEF SetGamma, MethodGathers
<1>7. CASE FieldStep /\ UNCHANGED somaVars
  <2>1. field' \in Stepped(field) /\ stepped' = TRUE
    BY <1>7 DEF FieldStep
  <2> QED BY <1>1, <1>7, <2>1, StepKeepsField
<1>8. CASE MethodStep /\ UNCHANGED somaVars
  <2>1. CASE method.organisms = <<>>
    BY <1>1, <1>2, <1>8, <2>1 DEF MethodStep
  <2>2. CASE method.organisms # <<>>
    <3>1. PICK verdict : \E f \in Stepped(field), sway \in -1..1 :
                 field' = Steered(f, verdict) /\ gamma' = GammaStepped(gamma, f, sway)
      BY <1>8, <2>2 DEF MethodStep
    <3>2. PICK f \in Stepped(field) : field' = Steered(f, verdict)
      BY <3>1
    <3>3. stepped' = FALSE
      BY <1>8 DEF MethodStep
    <3> QED BY <1>1, <1>8, <3>2, <3>3, StepKeepsField
  <2> QED BY <2>1, <2>2
<1>9. CASE LoadSoma
  BY <1>9, LoadKeepsField
<1>10. CASE SaveSoma
  <2>1. PICK p, k : soma' = [part |-> p, cut |-> k, field |-> field, gamma |-> gamma, words |-> words, mixed |-> mixed]
    BY <1>10 DEF SaveSoma
  <2>2. soma'.field = field /\ soma'.mixed = mixed
    BY <2>1
  <2>3. field' = field /\ mixed' = mixed /\ stepped' = FALSE
    BY <1>10 DEF SaveSoma
  <2> QED BY <1>0, <2>2, <2>3 DEF FieldInv, Follows
<1>11. CASE LoadSidecar
  <2>1. mixed'.field = mixed.field
    BY <1>11 DEF LoadSidecar, MakingInv, Makings
  <2>2. field' = field /\ stepped' = FALSE /\ soma' = soma
    BY <1>11 DEF LoadSidecar
  <2> QED BY <1>0, <2>1, <2>2 DEF FieldInv, Follows
<1>12. CASE SaveSidecar \/ Ingest \/ Consolidate
  BY <1>2, <1>12 DEF SaveSidecar, Ingest, Consolidate
<1>13. CASE Restart
  <2>1. field' = FreshField /\ stepped' = FALSE /\ soma' = soma
    BY <1>13 DEF Restart
  <2> QED BY <1>0, <2>1, FreshFieldFollows DEF FieldInv, Follows
<1>14. CASE UNCHANGED SomaVars
  BY <1>0, <1>14 DEF SomaVars, fieldVars, somaVars, FieldInv, Follows, Rests
<1> QED BY <1>3, <1>4, <1>5, <1>6, <1>7, <1>8, <1>9, <1>10, <1>11, <1>12, <1>13, <1>14 DEF SomaStep, SomaNext, FieldNext

(* For every session, with any crash and any file cut off: the types of the field and of
   the one that is kept, and their coherence unless the base settings are of two makings. *)
THEOREM FieldInvariant == SomaSpec => [](MakingInv /\ FieldInv)
<1>1. FieldInit /\ SomaInit => MakingInv /\ FieldInv
  BY MakingInit, FieldInvInit
<1>2. MakingInv /\ FieldInv /\ [SomaStep]_SomaVars => (MakingInv /\ FieldInv)'
  BY MakingNext, FieldInvNext
<1> QED BY <1>1, <1>2, PTL DEF SomaSpec, SomaStep

-----------------------------------------------------------------------------
(* Gamma. *)

EmptySlot == [name |-> "", alpha |-> 0, active |-> FALSE]
Slot  == [name : GammaNames \union {""}, alpha : 0..Top, active : BOOLEAN]
Gamma == [slots : [GammaSlots -> Slot], n : 0..MaxGamma, essence : Int, janus : {"off", "dual", "cycle"},
          a : GammaSlots, b : GammaSlots, blend : 0..4]

\* Of n slots that were ever used, s are the contents: what is not active is empty, what is
\* has a name of its own.
SlotsSettled(s, n) ==
  /\ \A i \in GammaSlots : ~s[i].active => s[i].name = "" /\ s[i].alpha = 0
  /\ \A i \in GammaSlots : s[i].active => i < n /\ s[i].name \in GammaNames
  /\ \A i, j \in GammaSlots : s[i].active /\ s[j].active /\ s[i].name = s[j].name => i = j

\* Gamma, settled unless a load has left it loose.
SettledGamma(g, loose) == g \in Gamma /\ (~loose => SlotsSettled(g.slots, g.n))

GammaInv == /\ SettledGamma(gamma, mixed.gamma)
            /\ SettledGamma(soma.gamma, soma.mixed.gamma) /\ soma.cut \in 0..GammaWords

\* The name of an empty slot is no name.
LEMMA NoNameIsEmpty == "" \notin GammaNames
BY FieldLimits

\* The numbers of the slots.
LEMMA SlotNumbers == 0 \in GammaSlots /\ \A i \in GammaSlots : i \in Nat /\ i < MaxGamma
BY Limits DEF GammaSlots

\* The parts of gamma.
LEMMA GammaFields ==
  ASSUME NEW g \in Gamma
  PROVE  /\ g.slots \in [GammaSlots -> Slot] /\ g.n \in 0..MaxGamma /\ g.essence \in Int
         /\ g.janus \in {"off", "dual", "cycle"} /\ g.a \in GammaSlots /\ g.b \in GammaSlots /\ g.blend \in 0..4
BY DEF Gamma

\* The parts of a slot.
LEMMA SlotFields ==
  ASSUME NEW s \in [GammaSlots -> Slot], NEW i \in GammaSlots
  PROVE  s[i].name \in GammaNames \union {""} /\ s[i].alpha \in 0..Top /\ s[i].active \in BOOLEAN
BY DEF Slot

\* A table in which one slot is another.
LEMMA SlotPut ==
  ASSUME NEW loose \in BOOLEAN, NEW s \in [GammaSlots -> Slot], NEW n \in 0..MaxGamma, ~loose => SlotsSettled(s, n),
         NEW i \in GammaSlots, NEW v \in Slot, NEW m \in 0..MaxGamma, n <= m,
         \/ /\ v.active /\ i < m /\ v.name \in GammaNames
            /\ ~loose => \A j \in GammaSlots : j # i /\ s[j].active => s[j].name # v.name
         \/ v = EmptySlot
  PROVE  [s EXCEPT ![i] = v] \in [GammaSlots -> Slot] /\ (~loose => SlotsSettled([s EXCEPT ![i] = v], m))
<1> DEFINE t == [s EXCEPT ![i] = v]
<1>1. t \in [GammaSlots -> Slot] /\ t[i] = v /\ \A j \in GammaSlots : j # i => t[j] = s[j]
  OBVIOUS
<1>2. \A j \in GammaSlots : j \in Nat
  BY SlotNumbers
<1>3. EmptySlot.active = FALSE /\ EmptySlot.name = "" /\ EmptySlot.alpha = 0
  BY DEF EmptySlot
<1> HIDE DEF t
<1>4. ASSUME ~loose PROVE SlotsSettled(t, m)
  <2>0. SlotsSettled(s, n)
    BY <1>4
  <2>1. \A j \in GammaSlots : ~t[j].active => t[j].name = "" /\ t[j].alpha = 0
    BY <1>1, <1>3, <2>0 DEF SlotsSettled
  <2>2. \A j \in GammaSlots : t[j].active => j < m /\ t[j].name \in GammaNames
    <3> TAKE j \in GammaSlots
    <3>1. CASE j = i
      BY <1>1, <1>3, <3>1
    <3>2. CASE j # i
      <4>1. t[j] = s[j] /\ (s[j].active => j < n /\ s[j].name \in GammaNames)
        BY <1>1, <2>0, <3>2 DEF SlotsSettled
      <4>2. j \in Nat /\ n \in Nat /\ m \in Nat
        BY <1>2
      <4>3. j < n => j < m
        BY <4>2
      <4> QED BY <4>1, <4>3
    <3> QED BY <3>1, <3>2
  <2>3. \A j, k \in GammaSlots : t[j].active /\ t[k].active /\ t[j].name = t[k].name => j = k
    BY <1>1, <1>3, <1>4, <2>0 DEF SlotsSettled
  <2> QED BY <2>1, <2>2, <2>3 DEF SlotsSettled
<1> QED BY <1>1, <1>4 DEF t

\* gamma_find: the one slot of that name, or none.
LEMMA GammaIsFound ==
  ASSUME NEW loose \in BOOLEAN, NEW g, SettledGamma(g, loose), NEW name \in GammaNames
  PROVE  \/ /\ GammaIndex(g, name) = -1
            /\ ~loose => \A i \in GammaSlots : g.slots[i].active => g.slots[i].name # name
         \/ /\ GammaIndex(g, name) \in GammaSlots /\ GammaIndex(g, name) >= 0 /\ GammaIndex(g, name) < g.n
            /\ g.slots[GammaIndex(g, name)].active /\ g.slots[GammaIndex(g, name)].name = name
<1>0. g \in Gamma /\ (~loose => SlotsSettled(g.slots, g.n))
  BY DEF SettledGamma
<1>1. CASE GammaAt(g, name) = {}
  <2>1. ~loose => \A i \in GammaSlots : g.slots[i].active => i < g.n
    BY <1>0 DEF SlotsSettled
  <2> QED BY <1>1, <2>1 DEF GammaIndex, GammaAt
<1>2. CASE GammaAt(g, name) # {}
  <2>1. GammaAt(g, name) \subseteq Nat
    BY SlotNumbers DEF GammaAt
  <2>2. Min(GammaAt(g, name)) \in GammaAt(g, name)
    BY <1>2, <2>1, MinIsLeast
  <2>3. GammaIndex(g, name) \in GammaAt(g, name)
    BY <1>2, <2>2 DEF GammaIndex
  <2> QED BY <2>1, <2>3 DEF GammaAt
<1> QED BY <1>1, <1>2

\* am_gamma_load: into the slot of that name, else into a free one, else into none.
LEMMA LoadSettles ==
  ASSUME NEW loose \in BOOLEAN, NEW g, SettledGamma(g, loose), NEW name \in GammaNames, NEW x \in Int
  PROVE  SettledGamma(GammaLoaded(g, name, x), loose)
<1>0. /\ g \in Gamma /\ (~loose => SlotsSettled(g.slots, g.n)) /\ g.slots \in [GammaSlots -> Slot] /\ g.n \in 0..MaxGamma
      /\ Level(x) \in 0..Top /\ 0 \in GammaSlots
  BY GammaFields, LevelType, SlotNumbers DEF SettledGamma
<1> DEFINE i == GammaIndex(g, name)
           v == [name |-> name, alpha |-> Level(x), active |-> TRUE]
           new == [g EXCEPT !.slots[g.n] = v, !.n = @ + 1]
<1>1. v \in Slot /\ v.active /\ v.name = name
  BY <1>0 DEF Slot
<1>2. CASE i >= 0
  <2>1. i \in GammaSlots /\ i < g.n /\ g.slots[i].active /\ g.slots[i].name = name
    BY <1>2, GammaIsFound
  <2> DEFINE w == [g.slots[i] EXCEPT !.alpha = Level(x)]
             s == [g.slots EXCEPT ![i] = w]
  <2>2. GammaLoaded(g, name, x) = [g EXCEPT !.slots[i].alpha = Level(x)]
    BY <1>2 DEF GammaLoaded
  <2>3. GammaLoaded(g, name, x) = [g EXCEPT !.slots = s]
    BY <1>0, <2>1, <2>2 DEF Gamma
  <2>4. g.slots[i] \in Slot
    BY <1>0, <2>1
  <2>5. w \in Slot /\ w.active = g.slots[i].active /\ w.name = g.slots[i].name
    BY <1>0, <2>4 DEF Slot
  <2>6. ~loose => \A j \in GammaSlots : j # i /\ g.slots[j].active => g.slots[j].name # name
    BY <1>0, <2>1 DEF SlotsSettled
  <2> HIDE DEF w, i
  <2>7. s \in [GammaSlots -> Slot] /\ (~loose => SlotsSettled(s, g.n))
    <3>1. PICK m \in 0..MaxGamma : m = g.n
      BY <1>0
    <3>2. m <= m /\ (~loose => SlotsSettled(g.slots, m)) /\ i < m /\ w.active /\ w.name \in GammaNames
      BY <1>0, <2>1, <2>5, <3>1
    <3>3. ~loose => \A j \in GammaSlots : j # i /\ g.slots[j].active => g.slots[j].name # w.name
      BY <2>1, <2>5, <2>6
    <3> QED BY <1>0, <2>1, <2>5, <3>1, <3>2, <3>3, SlotPut
  <2> HIDE DEF s
  <2>8. [g EXCEPT !.slots = s] \in Gamma /\ [g EXCEPT !.slots = s].slots = s /\ [g EXCEPT !.slots = s].n = g.n
    BY <1>0, <2>7 DEF Gamma
  <2> QED BY <2>3, <2>7, <2>8 DEF SettledGamma
<1>3. CASE ~ (i >= 0) /\ g.n >= MaxGamma
  BY <1>3 DEF GammaLoaded
<1>4. CASE ~ (i >= 0) /\ ~ (g.n >= MaxGamma)
  <2>1. g.n \in GammaSlots /\ g.n + 1 \in 0..MaxGamma
    <3>1. MaxGamma \in Nat
      BY Limits
    <3> QED BY <1>0, <1>4, <3>1 DEF GammaSlots
  <2>2. ~loose => \A j \in GammaSlots : g.slots[j].active => g.slots[j].name # name
    BY <1>4, GammaIsFound
  <2> DEFINE s == [g.slots EXCEPT ![g.n] = v]
  <2>3. s \in [GammaSlots -> Slot] /\ (~loose => SlotsSettled(s, g.n + 1))
    <3>1. \A n \in Nat : n <= n + 1 /\ n < n + 1
      OBVIOUS
    <3>2. g.n <= g.n + 1 /\ g.n < g.n + 1
      BY <1>0, <3>1
    <3> HIDE DEF v
    <3> QED BY <1>0, <1>1, <2>1, <2>2, <3>2, SlotPut
  <2>4. new = [g EXCEPT !.slots = s, !.n = g.n + 1]
    BY <1>0 DEF Gamma
  <2> HIDE DEF s, v
  <2>5. new \in Gamma /\ new.slots = s /\ new.n = g.n + 1
    <3> HIDE DEF new
    <3>1. PICK m \in 0..MaxGamma : m = g.n + 1
      BY <2>1
    <3>2. new = [g EXCEPT !.slots = s, !.n = m]
      BY <2>4, <3>1
    <3> QED BY <1>0, <2>3, <3>1, <3>2 DEF Gamma
  <2> HIDE DEF new
  <2>6. /\ [new EXCEPT !.a = 0, !.essence = x] \in Gamma
        /\ [new EXCEPT !.a = 0, !.essence = x].slots = s /\ [new EXCEPT !.a = 0, !.essence = x].n = g.n + 1
    BY <1>0, <2>5 DEF Gamma
  <2>7. GammaLoaded(g, name, x) \in {new, [new EXCEPT !.a = 0, !.essence = x]}
    BY <1>4 DEF GammaLoaded, new, v
  <2> QED BY <2>3, <2>5, <2>6, <2>7 DEF SettledGamma
<1> QED BY <1>2, <1>3, <1>4

\* am_gamma_unload: the slot is emptied, and its faces with it.
LEMMA UnloadSettles ==
  ASSUME NEW loose \in BOOLEAN, NEW g, SettledGamma(g, loose), NEW name \in GammaNames
  PROVE  SettledGamma(GammaUnloaded(g, name), loose)
<1>0. /\ g \in Gamma /\ (~loose => SlotsSettled(g.slots, g.n)) /\ g.slots \in [GammaSlots -> Slot] /\ g.n \in 0..MaxGamma
  BY GammaFields DEF SettledGamma
<1> DEFINE i == GammaIndex(g, name)
<1>1. CASE i < 0
  BY <1>1 DEF GammaUnloaded
<1>2. CASE ~ (i < 0)
  <2>1. i \in GammaSlots
    BY <1>2, GammaIsFound
  <2> DEFINE s == [g.slots EXCEPT ![i] = EmptySlot]
  <2>2. GammaUnloaded(g, name) = [g EXCEPT !.slots[i] = EmptySlot]
    BY <1>2 DEF GammaUnloaded, EmptySlot
  <2>3. GammaUnloaded(g, name) = [g EXCEPT !.slots = s]
    BY <1>0, <2>1, <2>2 DEF Gamma
  <2>4. EmptySlot \in Slot
    BY Limits DEF EmptySlot, Slot
  <2> HIDE DEF i
  <2>5. s \in [GammaSlots -> Slot] /\ (~loose => SlotsSettled(s, g.n))
    <3>1. g.n <= g.n
      BY <1>0
    <3> QED BY <1>0, <2>1, <2>4, <3>1, SlotPut
  <2> HIDE DEF s
  <2>6. [g EXCEPT !.slots = s] \in Gamma /\ [g EXCEPT !.slots = s].slots = s /\ [g EXCEPT !.slots = s].n = g.n
    BY <1>0, <2>5 DEF Gamma
  <2> QED BY <2>3, <2>5, <2>6 DEF SettledGamma
<1> QED BY <1>1, <1>2

\* am_janus_set_gamma: a face is a slot that answers to its name.
LEMMA FacesSettle ==
  ASSUME NEW loose \in BOOLEAN, NEW g, SettledGamma(g, loose), NEW x \in GammaNames, NEW y \in GammaNames
  PROVE  SettledGamma(Faced(g, x, y), loose)
<1> DEFINE i == GammaIndex(g, x)
           j == GammaIndex(g, y)
           h == IF i < 0 THEN GammaLoaded(g, x, Top) ELSE g
           k == IF j < 0 THEN GammaLoaded(h, y, Top) ELSE h
           a == GammaIndex(k, x)
           b == GammaIndex(k, y)
<1>1. Top \in Int
  BY Limits
<1>2. SettledGamma(h, loose)
  BY <1>1, LoadSettles
<1> HIDE DEF h
<1>3. SettledGamma(k, loose)
  BY <1>1, <1>2, LoadSettles
<1> HIDE DEF k
<1>4. (a < 0 \/ a \in GammaSlots) /\ (b < 0 \/ b \in GammaSlots)
  BY <1>3, GammaIsFound
<1>5. Faced(g, x, y) = IF a < 0 \/ b < 0 THEN k ELSE [k EXCEPT !.a = a, !.b = b, !.janus = "dual", !.blend = 2]
  BY DEF Faced, k, h
<1>6. CASE a < 0 \/ b < 0
  BY <1>3, <1>5, <1>6
<1>7. CASE ~ (a < 0 \/ b < 0)
  <2>1. a \in GammaSlots /\ b \in GammaSlots
    BY <1>4, <1>7
  <2> HIDE DEF a, b
  <2> DEFINE f == [k EXCEPT !.a = a, !.b = b, !.janus = "dual", !.blend = 2]
  <2>2. k \in Gamma /\ 2 \in 0..4
    BY <1>3 DEF SettledGamma
  <2>3. f \in Gamma /\ f.slots = k.slots /\ f.n = k.n
    BY <2>1, <2>2 DEF Gamma
  <2> HIDE DEF f
  <2>4. SettledGamma(f, loose)
    BY <1>3, <2>3 DEF SettledGamma
  <2> QED BY <1>5, <1>7, <2>4 DEF f
<1> QED BY <1>6, <1>7

\* What leaves the slots and their number as they are.
LEMMA OtherPartsSettle ==
  ASSUME NEW loose \in BOOLEAN, NEW g, SettledGamma(g, loose), NEW h \in Gamma, h.slots = g.slots, h.n = g.n
  PROVE  SettledGamma(h, loose)
BY DEF SettledGamma

\* Each command of gamma keeps it settled.
LEMMA GammaPartSettles ==
  ASSUME NEW loose \in BOOLEAN, NEW g, SettledGamma(g, loose)
  PROVE  /\ \A e \in Int : SettledGamma([g EXCEPT !.essence = e], loose)
         /\ \A j \in {"off", "dual", "cycle"} : SettledGamma([g EXCEPT !.janus = j], loose)
         /\ \A x \in 0..4 : SettledGamma([g EXCEPT !.blend = x], loose)
<1>0. g \in Gamma
  BY DEF SettledGamma
<1>1. ASSUME NEW e \in Int PROVE SettledGamma([g EXCEPT !.essence = e], loose)
  <2> DEFINE h == [g EXCEPT !.essence = e]
  <2>1. h \in Gamma /\ h.slots = g.slots /\ h.n = g.n
    BY <1>0 DEF Gamma
  <2> HIDE DEF h
  <2> QED BY <2>1, OtherPartsSettle DEF h
<1>2. ASSUME NEW j \in {"off", "dual", "cycle"} PROVE SettledGamma([g EXCEPT !.janus = j], loose)
  <2> DEFINE h == [g EXCEPT !.janus = j]
  <2>1. h \in Gamma /\ h.slots = g.slots /\ h.n = g.n
    BY <1>0 DEF Gamma
  <2> HIDE DEF h
  <2> QED BY <2>1, OtherPartsSettle DEF h
<1>3. ASSUME NEW x \in 0..4 PROVE SettledGamma([g EXCEPT !.blend = x], loose)
  <2> DEFINE h == [g EXCEPT !.blend = x]
  <2>1. h \in Gamma /\ h.slots = g.slots /\ h.n = g.n
    BY <1>0 DEF Gamma
  <2> HIDE DEF h
  <2> QED BY <2>1, OtherPartsSettle DEF h
<1> QED BY <1>1, <1>2, <1>3

\* A native function keeps gamma settled.
LEMMA NativeSettles ==
  ASSUME NEW loose \in BOOLEAN, NEW g, SettledGamma(g, loose), NEW name
  PROVE  SettledGamma(NativeGamma(g, name), loose)
<1>0. g \in Gamma /\ Top \in Int /\ 2 \in 0..4
  BY Limits DEF SettledGamma
<1>1. SettledGamma([g EXCEPT !.essence = Top], loose)
  BY <1>0, GammaPartSettles
<1>2. SettledGamma([g EXCEPT !.janus = "dual", !.blend = 2], loose)
  <2> DEFINE h == [g EXCEPT !.janus = "dual", !.blend = 2]
  <2>1. h \in Gamma /\ h.slots = g.slots /\ h.n = g.n
    BY <1>0 DEF Gamma
  <2> HIDE DEF h
  <2> QED BY <2>1, OtherPartsSettle DEF h
<1>3. SettledGamma([g EXCEPT !.janus = "cycle", !.essence = Top], loose)
  <2> DEFINE h == [g EXCEPT !.janus = "cycle", !.essence = Top]
  <2>1. h \in Gamma /\ h.slots = g.slots /\ h.n = g.n
    BY <1>0 DEF Gamma
  <2> HIDE DEF h
  <2> QED BY <2>1, OtherPartsSettle DEF h
<1> QED BY <1>1, <1>2, <1>3 DEF NativeGamma

\* am_step moves the essence and the blend, not the slots.
LEMMA GammaStepSettles ==
  ASSUME NEW loose \in BOOLEAN, NEW g, SettledGamma(g, loose), NEW f \in Field, NEW sway \in -1..1
  PROVE  SettledGamma(GammaStepped(g, f, sway), loose)
<1> DEFINE cycling == g.janus = "cycle" /\ g.n >= 2
           lean == g.blend + (CASE f.season = 1 -> -2 [] f.season = 3 -> 2 [] OTHER -> sway)
           x == IF lean < 0 THEN 0 ELSE IF lean > 4 THEN 4 ELSE lean
           h == IF cycling THEN [g EXCEPT !.blend = x] ELSE g
           k == IF cycling /\ Speaking(h) \in 0..(h.n - 1) THEN [h EXCEPT !.essence = h.slots[Speaking(h)].alpha] ELSE h
<1>1. x \in 0..4
  <2>1. g.blend \in 0..4
    BY GammaFields DEF SettledGamma
  <2>2. PICK y \in -2..2 : lean = g.blend + y
    OBVIOUS
  <2> QED BY <2>1, <2>2
<1> HIDE DEF x
<1>2. SettledGamma(h, loose)
  BY <1>1, GammaPartSettles
<1>3. SettledGamma(k, loose)
  <2>1. CASE cycling /\ Speaking(h) \in 0..(h.n - 1)
    <3> HIDE DEF h
    <3>1. h \in Gamma /\ h.n \in 0..MaxGamma /\ h.slots \in [GammaSlots -> Slot]
      BY <1>2, GammaFields DEF SettledGamma
    <3>2. Speaking(h) \in GammaSlots
      <4>1. MaxGamma \in Nat
        BY Limits
      <4> QED BY <2>1, <3>1, <4>1 DEF GammaSlots
    <3>3. h.slots[Speaking(h)].alpha \in 0..Top
      BY <3>1, <3>2, SlotFields
    <3>4. h.slots[Speaking(h)].alpha \in Int
      BY <3>3
    <3>5. SettledGamma([h EXCEPT !.essence = h.slots[Speaking(h)].alpha], loose)
      BY <1>2, <3>4, GammaPartSettles
    <3> QED BY <2>1, <3>5
  <2>2. CASE ~ (cycling /\ Speaking(h) \in 0..(h.n - 1))
    BY <1>2, <2>2
  <2> QED BY <2>1, <2>2
<1>4. GammaStepped(g, f, sway) = IF g.n > 0 THEN [k EXCEPT !.essence = Level(@ + f.warm)] ELSE k
  BY DEF GammaStepped, x
<1> HIDE DEF k
<1>5. SettledGamma([k EXCEPT !.essence = Level(k.essence + f.warm)], loose)
  <2>1. k.essence \in Int /\ f.warm \in Int
    BY <1>3, GammaFields, FieldFields DEF SettledGamma
  <2>2. k.essence + f.warm \in Int
    BY <2>1
  <2>3. Level(k.essence + f.warm) \in 0..Top
    BY <2>2, LevelType
  <2>4. Level(k.essence + f.warm) \in Int
    BY <2>3
  <2> QED BY <1>3, <2>4, GammaPartSettles
<1>6. [k EXCEPT !.essence = Level(@ + f.warm)] = [k EXCEPT !.essence = Level(k.essence + f.warm)]
  BY <1>3 DEF SettledGamma, Gamma
<1> QED BY <1>3, <1>4, <1>5, <1>6

\* am_init leaves gamma settled.
LEMMA EmptyGammaSettles == \A loose \in BOOLEAN : SettledGamma(EmptyGamma, loose)
<1> DEFINE s == [i \in GammaSlots |-> EmptySlot]
<1>1. EmptySlot \in Slot /\ EmptySlot.active = FALSE /\ EmptySlot.name = "" /\ EmptySlot.alpha = 0
  BY Limits DEF EmptySlot, Slot
<1>2. EmptyGamma = [slots |-> s, n |-> 0, essence |-> 0, janus |-> "off", a |-> 0, b |-> 0, blend |-> 0]
  BY DEF EmptyGamma, EmptySlot
<1>3. s \in [GammaSlots -> Slot] /\ SlotsSettled(s, 0)
  BY <1>1 DEF SlotsSettled
<1>4. 0 \in GammaSlots /\ 0 \in 0..MaxGamma
  BY Limits, SlotNumbers
<1> HIDE DEF s
<1> QED BY <1>2, <1>3, <1>4 DEF SettledGamma, Gamma

\* A load of gamma leaves a gamma, and a settled one if its slots and their number are of one
\* that was settled: none of the file's, or all of them.
LEMMA LoadsSettle ==
  ASSUME NEW loose \in BOOLEAN, NEW other \in BOOLEAN, NEW g, SettledGamma(g, loose), NEW new, SettledGamma(new, other),
         NEW cut
  PROVE  /\ SettledGamma(GammaOver(new, g, cut), TRUE)
         /\ cut = 0 => SettledGamma(GammaOver(new, g, cut), loose)
         /\ cut \in 0..GammaWords /\ cut \notin 0..SlotWords => SettledGamma(GammaOver(new, g, cut), other)
<1> DEFINE h == GammaOver(new, g, cut)
<1>0. /\ g \in Gamma /\ (~loose => SlotsSettled(g.slots, g.n))
      /\ new \in Gamma /\ (~other => SlotsSettled(new.slots, new.n))
  BY DEF SettledGamma
<1>1. PICK r, s : r = g.slots /\ s = new.slots
  OBVIOUS
<1>2. r \in [GammaSlots -> Slot] /\ s \in [GammaSlots -> Slot]
  BY <1>0, <1>1, GammaFields
<1>3. \A i \in GammaSlots : SlotOver(s[i], r[i], 3 * i, cut) \in Slot
  <2> TAKE i \in GammaSlots
  <2>1. PICK x, y, z : /\ x = IF 3 * i + 1 <= cut THEN s[i].name ELSE r[i].name
                       /\ y = IF 3 * i + 2 <= cut THEN s[i].alpha ELSE r[i].alpha
                       /\ z = IF 3 * i + 3 <= cut THEN s[i].active ELSE r[i].active
    OBVIOUS
  <2>2. SlotOver(s[i], r[i], 3 * i, cut) = [name |-> x, alpha |-> y, active |-> z]
    BY <2>1 DEF SlotOver
  <2>3. x \in GammaNames \union {""} /\ y \in 0..Top /\ z \in BOOLEAN
    BY <1>2, <2>1, SlotFields
  <2>4. \A c \in GammaNames \union {""}, d \in 0..Top, f \in BOOLEAN : [name |-> c, alpha |-> d, active |-> f] \in Slot
    BY DEF Slot
  <2>5. [name |-> x, alpha |-> y, active |-> z] \in Slot
    BY ONLY <2>3, <2>4, Zenon
  <2> QED BY <2>2, <2>5
<1> DEFINE u == [i \in GammaSlots |-> SlotOver(s[i], r[i], 3 * i, cut)]
<1>4. u \in [GammaSlots -> Slot]
  BY <1>3
<1> HIDE DEF u
<1>5. PICK n, e, m, a, b, x :
             /\ n = (IF SlotWords + 1 <= cut THEN new.n ELSE g.n)
             /\ e = IF SlotWords + 2 <= cut THEN new.essence ELSE g.essence
             /\ m = IF SlotWords + 3 <= cut THEN new.janus ELSE g.janus
             /\ a = IF SlotWords + 4 <= cut THEN new.a ELSE g.a
             /\ b = IF SlotWords + 5 <= cut THEN new.b ELSE g.b
             /\ x = IF SlotWords + 6 <= cut THEN new.blend ELSE g.blend
  OBVIOUS
<1>6. h \in Gamma /\ h.slots = u /\ h.n = n
  <2>1. /\ g.n \in 0..MaxGamma /\ g.essence \in Int /\ g.janus \in {"off", "dual", "cycle"}
        /\ g.a \in GammaSlots /\ g.b \in GammaSlots /\ g.blend \in 0..4
    BY <1>0, GammaFields
  <2>2. /\ new.n \in 0..MaxGamma /\ new.essence \in Int /\ new.janus \in {"off", "dual", "cycle"}
        /\ new.a \in GammaSlots /\ new.b \in GammaSlots /\ new.blend \in 0..4
    BY <1>0, GammaFields
  <2>3. /\ n \in 0..MaxGamma /\ e \in Int /\ m \in {"off", "dual", "cycle"}
        /\ a \in GammaSlots /\ b \in GammaSlots /\ x \in 0..4
    BY ONLY <1>5, <2>1, <2>2
  <2>4. h = [slots |-> u, n |-> n, essence |-> e, janus |-> m, a |-> a, b |-> b, blend |-> x]
    BY <1>1, <1>5 DEF GammaOver, u
  <2> HIDE DEF h
  <2> QED BY <1>4, <2>3, <2>4 DEF Gamma
<1> HIDE DEF h
<1>7. \A i \in GammaSlots : u[i] = SlotOver(s[i], r[i], 3 * i, cut)
  BY DEF u
<1>8. \A i \in GammaSlots : i \in Nat /\ i < MaxGamma
  BY SlotNumbers
<1>9. MaxGamma \in Nat /\ SlotWords \in Nat /\ SlotWords = 3 * MaxGamma
  BY Limits DEF SlotWords
<1>10. ASSUME cut = 0 PROVE u = r /\ n = g.n
  <2>1. \A i \in GammaSlots : SlotOver(s[i], r[i], 3 * i, cut) = r[i]
    <3> TAKE i \in GammaSlots
    <3>1. ~(3 * i + 1 <= cut) /\ ~(3 * i + 2 <= cut) /\ ~(3 * i + 3 <= cut)
      BY <1>8, <1>10
    <3>2. r[i] \in Slot
      BY <1>2
    <3> QED BY <3>1, <3>2 DEF SlotOver, Slot
  <2> QED BY <1>2, <1>4, <1>5, <1>7, <1>9, <1>10, <2>1
<1>11. ASSUME cut \in 0..GammaWords, cut \notin 0..SlotWords PROVE u = s /\ n = new.n
  <2>0. cut \in Int /\ SlotWords + 1 <= cut
    BY <1>9, <1>11 DEF GammaWords
  <2>1. \A i \in GammaSlots : SlotOver(s[i], r[i], 3 * i, cut) = s[i]
    <3> TAKE i \in GammaSlots
    <3>1. 3 * i + 1 <= cut /\ 3 * i + 2 <= cut /\ 3 * i + 3 <= cut
      BY <1>8, <1>9, <2>0
    <3>2. s[i] \in Slot
      BY <1>2
    <3> QED BY <3>1, <3>2 DEF SlotOver, Slot
  <2> QED BY <1>2, <1>4, <1>5, <1>7, <2>0, <2>1
<1> QED BY <1>0, <1>1, <1>6, <1>10, <1>11 DEF SettledGamma, h

\* Every step, load and save keeps gamma settled, unless loose, and what was saved of it.
LEMMA GammaInvNext ==
  ASSUME GammaInv, MakingInv, MakingInv', FieldInv, FieldInv', [SomaStep]_SomaVars
  PROVE  GammaInv'
<1> PICK loose, other : loose = mixed.gamma /\ other = soma.mixed.gamma
  OBVIOUS
<1>0. /\ SettledGamma(gamma, loose) /\ SettledGamma(soma.gamma, other) /\ field \in Field /\ field' \in Field
      /\ loose \in BOOLEAN /\ other \in BOOLEAN /\ mixed'.gamma \in BOOLEAN /\ soma.cut \in 0..GammaWords
  BY DEF GammaInv, FieldInv, MakingInv, Makings
<1>1. SUFFICES /\ SettledGamma(gamma', mixed'.gamma)
               /\ SettledGamma(soma'.gamma, soma'.mixed.gamma) /\ soma'.cut \in 0..GammaWords
  BY DEF GammaInv, SettledGamma, SlotsSettled
<1>2. ASSUME UNCHANGED somaVars, SettledGamma(gamma', loose)
      PROVE  /\ SettledGamma(gamma', mixed'.gamma)
             /\ SettledGamma(soma'.gamma, soma'.mixed.gamma) /\ soma'.cut \in 0..GammaWords
  BY <1>0, <1>2 DEF somaVars
<1>3. CASE SetGamma /\ UNCHANGED somaVars
  <2>1. Given \subseteq Int /\ \A x \in Given : Level(x) \in Int
    <3>1. Given \subseteq Int
      BY Limits DEF Given
    <3>2. \A x \in Int : Level(x) \in 0..Top
      BY LevelType
    <3> QED BY <3>1, <3>2
  <2>2. CASE \E name \in GammaNames : \/ \E x \in Given : gamma' = GammaLoaded(gamma, name, x)
                                      \/ gamma' = GammaUnloaded(gamma, name)
                                      \/ \E face \in GammaNames : gamma' = Faced(gamma, name, face)
    BY <1>0, <1>2, <1>3, <2>1, <2>2, LoadSettles, UnloadSettles, FacesSettle
  <2>3. CASE \/ \E m \in {"off", "dual", "cycle"} : gamma' = [gamma EXCEPT !.janus = m]
             \/ \E x \in Given : gamma' = [gamma EXCEPT !.essence = Level(x)]
             \/ \E x \in {0, 4} : gamma' = [gamma EXCEPT !.blend = x]
    <3>1. CASE \E m \in {"off", "dual", "cycle"} : gamma' = [gamma EXCEPT !.janus = m]
      <4>1. PICK m \in {"off", "dual", "cycle"} : gamma' = [gamma EXCEPT !.janus = m]
        BY <3>1
      <4>2. SettledGamma([gamma EXCEPT !.janus = m], loose)
        BY <1>0, GammaPartSettles
      <4> QED BY <1>2, <1>3, <4>1, <4>2
    <3>2. CASE \E x \in Given : gamma' = [gamma EXCEPT !.essence = Level(x)]
      <4>1. PICK x \in Given : gamma' = [gamma EXCEPT !.essence = Level(x)]
        BY <3>2
      <4>2. PICK e \in Int : gamma' = [gamma EXCEPT !.essence = e]
        BY <2>1, <4>1
      <4> QED BY <1>0, <1>2, <1>3, <4>2, GammaPartSettles
    <3>3. CASE \E x \in {0, 4} : gamma' = [gamma EXCEPT !.blend = x]
      <4>1. PICK x \in 0..4 : gamma' = [gamma EXCEPT !.blend = x]
        BY <3>3
      <4> QED BY <1>0, <1>2, <1>3, <4>1, GammaPartSettles
    <3> QED BY <2>3, <3>1, <3>2, <3>3
  <2> QED BY <1>3, <2>2, <2>3 DEF SetGamma
<1>4. CASE Native /\ UNCHANGED somaVars
  BY <1>0, <1>2, <1>4, NativeSettles DEF Native
<1>5. CASE FieldStep /\ UNCHANGED somaVars
  BY <1>0, <1>2, <1>5, GammaStepSettles DEF FieldStep
<1>6. CASE MethodStep /\ UNCHANGED somaVars
  <2>1. CASE method.organisms = <<>>
    BY <1>0, <1>2, <1>6, <2>1 DEF MethodStep
  <2>2. CASE method.organisms # <<>>
    <3>1. PICK verdict : \E f \in Stepped(field), sway \in -1..1 :
                 field' = Steered(f, verdict) /\ gamma' = GammaStepped(gamma, f, sway)
      BY <1>6, <2>2 DEF MethodStep
    <3>2. PICK f \in Stepped(field), sway \in -1..1 : gamma' = GammaStepped(gamma, f, sway)
      BY <3>1
    <3>3. f \in Field
      BY <1>0, SteppedFollows
    <3> QED BY <1>0, <1>2, <1>6, <3>2, <3>3, GammaStepSettles
  <2> QED BY <2>1, <2>2
<1>7. CASE (SetField \/ OffPeak \/ MethodGathers) /\ UNCHANGED somaVars
  BY <1>0, <1>2, <1>7 DEF SetField, OffPeak, MethodGathers
<1>8. CASE LoadSoma
  <2>1. soma' = soma
    BY <1>8 DEF LoadSoma
  <2>2. CASE soma.part \in {"none", "head", "base"}
    <3>1. gamma' = gamma /\ mixed'.gamma = mixed.gamma
      BY <1>8, <2>2 DEF LoadSoma
    <3> QED BY <1>0, <2>1, <3>1
  <2>3. CASE soma.part = "gamma"
    <3>1. gamma' = GammaOver(soma.gamma, gamma, soma.cut)
      BY <1>8, <2>3 DEF LoadSoma
    <3>2. mixed'.gamma = CASE soma.cut = 0 -> mixed.gamma [] soma.cut \in 1..SlotWords -> TRUE [] OTHER -> soma.mixed.gamma
      BY <1>8, <2>3 DEF LoadSoma
    <3>3. CASE soma.cut = 0
      <4>1. mixed'.gamma = loose
        BY <1>0, <3>2, <3>3
      <4> QED BY <1>0, <2>1, <3>1, <3>3, <4>1, LoadsSettle
    <3>4. CASE soma.cut \in 1..SlotWords
      <4>1. mixed'.gamma = TRUE
        BY <3>2, <3>4
      <4> QED BY <1>0, <2>1, <3>1, <4>1, LoadsSettle
    <3>5. CASE soma.cut \notin 0..SlotWords
      <4>1. mixed'.gamma = other
        <5>1. 0 \in 0..SlotWords /\ \A k \in 1..SlotWords : k \in 0..SlotWords
          BY Limits DEF SlotWords
        <5>2. soma.cut # 0 /\ soma.cut \notin 1..SlotWords
          BY <3>5, <5>1
        <5> QED BY <1>0, <3>2, <5>2
      <4> QED BY <1>0, <2>1, <3>1, <3>5, <4>1, LoadsSettle
    <3> QED BY <3>3, <3>4, <3>5
  <2>4. CASE soma.part \notin {"none", "head", "base", "gamma"}
    <3>1. gamma' = soma.gamma /\ mixed'.gamma = soma.mixed.gamma
      BY <1>8, <2>4 DEF LoadSoma
    <3> QED BY <1>0, <2>1, <3>1
  <2> QED BY <2>2, <2>3, <2>4
<1>9. CASE SaveSoma
  <2>1. PICK p \in SomaParts, k \in 0..GammaWords :
               soma' = [part |-> p, cut |-> k, field |-> field, gamma |-> gamma, words |-> words, mixed |-> mixed]
    BY <1>9 DEF SaveSoma
  <2>2. soma'.gamma = gamma /\ soma'.mixed = mixed /\ soma'.cut \in 0..GammaWords
    BY <2>1
  <2>3. gamma' = gamma /\ mixed' = mixed
    BY <1>9 DEF SaveSoma
  <2> QED BY <1>0, <2>2, <2>3
<1>10. CASE LoadSidecar
  <2>1. mixed'.gamma = mixed.gamma
    BY <1>10 DEF LoadSidecar, MakingInv, Makings
  <2>2. gamma' = gamma /\ soma' = soma
    BY <1>10 DEF LoadSidecar
  <2> QED BY <1>0, <2>1, <2>2
<1>11. CASE SaveSidecar \/ Ingest \/ Consolidate
  BY <1>0, <1>11 DEF SaveSidecar, Ingest, Consolidate
<1>12. CASE Restart
  <2>1. gamma' = EmptyGamma /\ soma' = soma
    BY <1>12 DEF Restart
  <2> QED BY <1>0, <2>1, EmptyGammaSettles
<1>13. CASE UNCHANGED SomaVars
  BY <1>0, <1>2, <1>13 DEF SomaVars, fieldVars
<1> QED BY <1>3, <1>4, <1>5, <1>6, <1>7, <1>8, <1>9, <1>10, <1>11, <1>12, <1>13 DEF SomaStep, SomaNext, FieldNext

-----------------------------------------------------------------------------
(* METHOD and HARMONIC. *)

Turns == 0..(HistoryLen - 1)
Methods(S) == [organisms : Seq(0..Top), ring : [Turns -> S], pos : Turns, len : Nat, all : Seq(S)]

\* The place k before p in a ring of H.
Before(p, k, H) == (p - 1 - k + H) % H

\* The ring r, written up to p, holds the n latest of all.
Remembers(r, p, n, all) ==
  \A k \in 0..(n - 1) : r[Before(p, k, HistoryLen)] = all[Len(all) - k]

MethodInv ==
  /\ \E S : method \in Methods(S)
  /\ method.len = (IF Len(method.all) < HistoryLen THEN Len(method.all) ELSE HistoryLen)
  /\ Remembers(method.ring, method.pos, method.len, method.all)

\* A turn that has not come round.
LEMMA TurnsBelow == \A a, c \in Nat : a < c => a % c = a
OBVIOUS

\* A turn that has come round once.
LEMMA TurnsPast == \A a, c \in Nat : c > 0 /\ c <= a /\ a < 2 * c => a % c = a - c
OBVIOUS

\* The place k before p: as far back, or round the end.
LEMMA PlaceBefore ==
  ASSUME NEW H \in Nat, H >= 1, NEW p \in 0..(H - 1), NEW k \in 0..(H - 1)
  PROVE  Before(p, k, H) = IF p - 1 - k >= 0 THEN p - 1 - k ELSE p - 1 - k + H
<1> DEFINE a == p - 1 - k + H
<1>1. a \in Nat /\ a < 2 * H /\ (a < H <=> ~ (p - 1 - k >= 0))
  OBVIOUS
<1>2. a - H = p - 1 - k
  OBVIOUS
<1> HIDE DEF a
<1>3. CASE a < H
  <2>1. a % H = a
    BY <1>1, <1>3, TurnsBelow
  <2> QED BY <1>1, <1>3, <2>1 DEF a, Before
<1>4. CASE ~ (a < H)
  <2>1. a % H = a - H
    BY <1>1, <1>4, TurnsPast
  <2> QED BY <1>1, <1>2, <1>4, <2>1 DEF a, Before
<1> QED BY <1>3, <1>4

\* The place after p is the next, or the first.
LEMMA NextTurn ==
  ASSUME NEW H \in Nat, H >= 1, NEW p \in 0..(H - 1)
  PROVE  (p + 1) % H = (IF p + 1 = H THEN 0 ELSE p + 1) /\ (p + 1) % H \in 0..(H - 1)
<1>1. CASE p + 1 = H
  <2>1. (p + 1) % H = (p + 1) - H
    BY <1>1, TurnsPast
  <2> QED BY <1>1, <2>1
<1>2. CASE p + 1 # H
  <2>1. (p + 1) % H = p + 1
    BY <1>2, TurnsBelow
  <2> QED BY <1>2, <2>1
<1> QED BY <1>1, <1>2

\* The place before q is p, and the others before q are as far before p, less one.
NextPlace(H, p, q) ==
  /\ q \in 0..(H - 1) /\ Before(q, 0, H) = p
  /\ \A k \in 1..(H - 1) : /\ Before(q, k, H) = Before(p, k - 1, H)
                           /\ Before(q, k, H) # p
                           /\ Before(q, k, H) \in 0..(H - 1)

\* The place before the next one is this one, and the others keep their distance.
LEMMA PlacesMove ==
  ASSUME NEW H \in Nat, H >= 1, NEW p \in 0..(H - 1), NEW q, q = (p + 1) % H
  PROVE  NextPlace(H, p, q)
<1>1. q = (IF p + 1 = H THEN 0 ELSE p + 1) /\ q \in 0..(H - 1)
  BY NextTurn
<1>2. Before(q, 0, H) = p
  <2>1. 0 \in 0..(H - 1)
    OBVIOUS
  <2>2. Before(q, 0, H) = IF q - 1 - 0 >= 0 THEN q - 1 - 0 ELSE q - 1 - 0 + H
    BY <1>1, <2>1, PlaceBefore
  <2> QED BY <1>1, <2>2
<1>3. ASSUME NEW k \in 1..(H - 1)
      PROVE  /\ Before(q, k, H) = Before(p, k - 1, H)
             /\ Before(q, k, H) # p
             /\ Before(q, k, H) \in 0..(H - 1)
  <2>1. Before(q, k, H) = IF q - 1 - k >= 0 THEN q - 1 - k ELSE q - 1 - k + H
    BY <1>1, PlaceBefore
  <2>2. Before(p, k - 1, H) = IF p - 1 - (k - 1) >= 0 THEN p - 1 - (k - 1) ELSE p - 1 - (k - 1) + H
    <3>1. PICK j \in 0..(H - 1) : j = k - 1
      OBVIOUS
    <3> QED BY <3>1, PlaceBefore
  <2> QED BY <1>1, <2>1, <2>2
<1> QED BY <1>1, <1>2, <1>3 DEF NextPlace

\* What is pushed on the ring is the latest, and each before it is one further back.
LEMMA RingRemembers ==
  ASSUME NEW S, NEW r \in [Turns -> S], NEW p \in Turns, NEW all \in Seq(S), NEW n,
         n = (IF Len(all) < HistoryLen THEN Len(all) ELSE HistoryLen), Remembers(r, p, n, all),
         NEW e, NEW q, q = (p + 1) % HistoryLen,
         NEW m, m = (IF Len(all) + 1 < HistoryLen THEN Len(all) + 1 ELSE HistoryLen)
  PROVE  Remembers([r EXCEPT ![p] = e], q, m, Append(all, e))
<1> DEFINE rr == [r EXCEPT ![p] = e]
           aa == Append(all, e)
<1>0. HistoryLen \in Nat /\ HistoryLen >= 1
  BY Limits
<1>1. PICK H : H = HistoryLen
  OBVIOUS
<1>11. H \in Nat /\ H >= 1
  BY <1>0, <1>1
<1>2. PICK l \in Nat : l = Len(all)
  BY LenProperties
<1>3. /\ Len(aa) = l + 1 /\ aa[l + 1] = e
      /\ \A i \in 1..l : aa[i] = all[i]
  BY <1>2, AppendProperties
<1>4. rr[p] = e /\ \A i \in Turns : i # p => rr[i] = r[i]
  OBVIOUS
<1>5. Turns = 0..(H - 1) /\ n = (IF l < H THEN l ELSE H) /\ m = (IF l + 1 < H THEN l + 1 ELSE H)
  BY <1>1, <1>2 DEF Turns
<1>6. /\ q \in 0..(H - 1) /\ Before(q, 0, H) = p
      /\ \A k \in 1..(H - 1) : /\ Before(q, k, H) = Before(p, k - 1, H)
                               /\ Before(q, k, H) # p
                               /\ Before(q, k, H) \in 0..(H - 1)
  <2>1. p \in 0..(H - 1)
    BY <1>5
  <2>2. q = (p + 1) % H
    BY <1>1, Zenon
  <2>3. NextPlace(H, p, q)
    BY ONLY <1>11, <2>1, <2>2, PlacesMove, Zenon
  <2> QED BY <2>3 DEF NextPlace
<1>7. \A k \in 0..(n - 1) : r[Before(p, k, H)] = all[l - k]
  BY <1>1, <1>2 DEF Remembers
<1> HIDE DEF rr, aa
<1>8. ASSUME NEW k \in 0..(m - 1) PROVE rr[Before(q, k, H)] = aa[(l + 1) - k]
  <2>1. CASE k = 0
    BY <1>3, <1>4, <1>6, <2>1
  <2>2. CASE k # 0
    <3>1. k \in 1..(H - 1) /\ k - 1 \in 0..(n - 1) /\ (l + 1) - k \in 1..l /\ l - (k - 1) = (l + 1) - k
      BY <1>11, <1>5, <2>2
    <3>2. PICK x : x = Before(q, k, H)
      OBVIOUS
    <3>3. x # p /\ x \in Turns /\ x = Before(p, k - 1, H)
      BY <1>5, <1>6, <3>1, <3>2
    <3>4. rr[x] = r[x]
      BY <1>4, <3>3
    <3>5. r[x] = all[l - (k - 1)]
      BY <1>7, <3>1, <3>3
    <3>6. all[(l + 1) - k] = aa[(l + 1) - k]
      BY <1>3, <3>1
    <3> QED BY <3>1, <3>2, <3>4, <3>5, <3>6
  <2> QED BY <2>1, <2>2
<1>9. Remembers(rr, q, m, aa)
  BY <1>1, <1>3, <1>8 DEF Remembers
<1> QED BY <1>9 DEF rr, aa

\* w is m with e pushed.
PushedOf(w, m, e, S) ==
  /\ w \in Methods(S \union {e})
  /\ w.ring = [m.ring EXCEPT ![m.pos] = e] /\ w.pos = (m.pos + 1) % HistoryLen
  /\ w.len = (IF m.len + 1 < HistoryLen THEN m.len + 1 ELSE HistoryLen)
  /\ w.all = Append(m.all, e)

\* am_method_step pushes an entropy on the ring.
LEMMA PushedFields ==
  ASSUME NEW S, NEW m \in Methods(S), NEW e
  PROVE  PushedOf(Pushed(m, e), m, e, S)
<1>0. HistoryLen \in Nat /\ HistoryLen >= 1
  BY Limits
<1>1. m.organisms \in Seq(0..Top) /\ m.ring \in [Turns -> S] /\ m.pos \in Turns /\ m.len \in Nat /\ m.all \in Seq(S)
  BY DEF Methods
<1>2. PICK r : r = [m.ring EXCEPT ![m.pos] = e]
  OBVIOUS
<1>3. PICK p : p = (m.pos + 1) % HistoryLen
  OBVIOUS
<1>4. PICK n : n = IF m.len + 1 < HistoryLen THEN m.len + 1 ELSE HistoryLen
  OBVIOUS
<1>5. PICK all : all = Append(m.all, e)
  OBVIOUS
<1>6. Min({m.len + 1, HistoryLen}) = n
  <2> DEFINE T == {m.len + 1, HistoryLen}
  <2>1. T \subseteq Nat /\ T # {}
    BY <1>0, <1>1
  <2>2. Min(T) \in T /\ \A y \in T : Min(T) <= y
    BY <2>1, MinIsLeast
  <2> QED BY <1>0, <1>1, <1>4, <2>2
<1>7. r \in [Turns -> S \union {e}]
  BY <1>1, <1>2
<1>8. p \in Turns
  <2>1. m.pos \in 0..(HistoryLen - 1)
    BY <1>1 DEF Turns
  <2> QED BY <1>0, <1>3, <2>1, NextTurn DEF Turns
<1>9. n \in Nat
  BY <1>0, <1>1, <1>4
<1>10. all \in Seq(S \union {e})
  <2>1. m.all \in Seq(S \union {e})
    <3>1. PICK l \in Nat : m.all \in [1..l -> S]
      BY <1>1, SeqDef
    <3>2. m.all \in [1..l -> S \union {e}]
      BY <3>1
    <3> QED BY <3>2, SeqDef
  <2> QED BY <1>5, <2>1, AppendProperties
<1>11. Pushed(m, e) = [m EXCEPT !.ring = r, !.pos = p, !.len = n, !.all = all]
  BY <1>2, <1>3, <1>5, <1>6 DEF Pushed, Methods
<1> DEFINE w == [m EXCEPT !.ring = r, !.pos = p, !.len = n, !.all = all]
<1>12. w.ring = r /\ w.pos = p /\ w.len = n /\ w.all = all /\ w.organisms = m.organisms
  BY DEF Methods
<1>13. w \in Methods(S \union {e})
  BY <1>1, <1>7, <1>8, <1>9, <1>10 DEF Methods
<1> HIDE DEF w
<1> QED BY <1>2, <1>3, <1>4, <1>5, <1>11, <1>12, <1>13 DEF w, PushedOf

\* A method whose ring is the same.
LEMMA SameRing ==
  ASSUME MethodInv, NEW m, \A S : method \in Methods(S) => m \in Methods(S),
         m.ring = method.ring, m.pos = method.pos, m.len = method.len, m.all = method.all, method' = m
  PROVE  MethodInv'
<1>1. (\E S : method \in Methods(S)) => \E S : m \in Methods(S)
  OBVIOUS
<1>2. \E S : method' \in Methods(S)
  BY <1>1 DEF MethodInv
<1>4. Remembers(m.ring, m.pos, m.len, m.all)
  BY DEF MethodInv
<1>5. m.len = (IF Len(m.all) < HistoryLen THEN Len(m.all) ELSE HistoryLen)
  BY DEF MethodInv
<1> QED BY <1>2, <1>4, <1>5 DEF MethodInv, Remembers

\* An empty history remembers nothing.
LEMMA NothingIsRemembered ==
  /\ NoMethod \in Methods({0}) /\ NoMethod.len = 0
  /\ NoMethod.len = (IF Len(NoMethod.all) < HistoryLen THEN Len(NoMethod.all) ELSE HistoryLen)
  /\ Remembers(NoMethod.ring, NoMethod.pos, NoMethod.len, NoMethod.all)
<1>1. NoMethod \in Methods({0})
  <2>1. 0 \in Turns
    BY Limits DEF Turns
  <2>2. [i \in 0..(HistoryLen - 1) |-> 0] \in [Turns -> {0}]
    BY DEF Turns
  <2>3. <<>> \in Seq({0}) /\ <<>> \in Seq(0..Top)
    BY EmptySeq
  <2> QED BY <2>1, <2>2, <2>3 DEF NoMethod, Methods
<1>2. NoMethod.all = <<>> /\ NoMethod.len = 0 /\ Len(<<>>) = 0 /\ HistoryLen >= 1 /\ HistoryLen \in Nat
  BY Limits DEF NoMethod
<1> HIDE DEF NoMethod
<1>3. Remembers(NoMethod.ring, NoMethod.pos, NoMethod.len, NoMethod.all)
  BY <1>2 DEF Remembers
<1> QED BY <1>1, <1>2, <1>3

\* A new process has an empty history.
LEMMA MethodInvInit == ASSUME method = NoMethod PROVE MethodInv
BY NothingIsRemembered DEF MethodInv

\* Every step keeps the ring the latest of all entropies.
LEMMA MethodInvNext ==
  ASSUME MethodInv, [SomaStep]_SomaVars
  PROVE  MethodInv'
<1>1. ASSUME method' = method PROVE MethodInv'
  BY <1>1, SameRing
<1>2. CASE MethodGathers
  <2>1. PICK S : method \in Methods(S)
    BY DEF MethodInv
  <2>2. ASSUME NEW o \in Seq(0..Top), method' = [method EXCEPT !.organisms = o] PROVE MethodInv'
    <3> DEFINE m == [method EXCEPT !.organisms = o]
    <3>1. m.ring = method.ring /\ m.pos = method.pos /\ m.len = method.len /\ m.all = method.all
      BY <2>1 DEF Methods
    <3>2. \A T : method \in Methods(T) => m \in Methods(T)
      BY DEF Methods
    <3>3. method' = m
      BY <2>2
    <3> HIDE DEF m
    <3> QED BY <3>1, <3>2, <3>3, SameRing
  <2>3. method.organisms \in Seq(0..Top)
    BY <2>1 DEF Methods
  <2>4. ASSUME NEW e \in 0..Top, method' = Joined(method, e) PROVE MethodInv'
    <3>1. CASE Len(method.organisms) >= MaxOrganisms
      BY <1>1, <2>4, <3>1 DEF Joined
    <3>2. CASE ~ (Len(method.organisms) >= MaxOrganisms)
      <4>1. PICK o : o = Append(method.organisms, e)
        OBVIOUS
      <4>2. o \in Seq(0..Top)
        BY <2>3, <4>1, AppendProperties
      <4>3. method' = [method EXCEPT !.organisms = o]
        BY <2>1, <2>4, <3>2, <4>1 DEF Joined, Methods
      <4> QED BY <2>2, <4>2, <4>3
    <3> QED BY <3>1, <3>2
  <2>5. ASSUME method' = Parted(method) PROVE MethodInv'
    <3>1. <<>> \in Seq(0..Top)
      BY EmptySeq
    <3> QED BY <2>2, <2>5, <3>1 DEF Parted
  <2> QED BY <1>2, <2>4, <2>5 DEF MethodGathers
<1>3. CASE MethodStep
  <2>1. CASE method.organisms = <<>>
    BY <1>1, <1>3, <2>1 DEF MethodStep
  <2>2. CASE method.organisms # <<>>
    <3>1. PICK e : method' = Pushed(method, e)
      BY <1>3, <2>2 DEF MethodStep
    <3>2. PICK S : method \in Methods(S)
      BY DEF MethodInv
    <3>3. PICK r, p, n, all : r = method.ring /\ p = method.pos /\ n = method.len /\ all = method.all
      OBVIOUS
    <3>4. /\ r \in [Turns -> S] /\ p \in Turns /\ all \in Seq(S)
          /\ n = (IF Len(all) < HistoryLen THEN Len(all) ELSE HistoryLen) /\ Remembers(r, p, n, all)
      BY <3>2, <3>3 DEF Methods, MethodInv
    <3>5. PICK l \in Nat, H \in Nat : l = Len(all) /\ H = HistoryLen /\ H >= 1
      BY <3>4, Limits, LenProperties
    <3>6. PICK q : q = (p + 1) % HistoryLen
      OBVIOUS
    <3>7. PICK k : k = (IF l + 1 < H THEN l + 1 ELSE H)
      OBVIOUS
    <3>8. Remembers([r EXCEPT ![p] = e], q, k, Append(all, e))
      BY <3>4, <3>5, <3>6, <3>7, RingRemembers
    <3>9. (IF n + 1 < H THEN n + 1 ELSE H) = k
      BY <3>4, <3>5, <3>7
    <3>10. /\ method' \in Methods(S \union {e})
           /\ method'.ring = [r EXCEPT ![p] = e] /\ method'.pos = q /\ method'.len = k /\ method'.all = Append(all, e)
      <4>1. PushedOf(method', method, e, S)
        BY <3>1, <3>2, PushedFields, Zenon
      <4>2. (IF method.len + 1 < HistoryLen THEN method.len + 1 ELSE HistoryLen) = k
        BY <3>3, <3>5, <3>9
      <4>3. (method.pos + 1) % HistoryLen = q
        BY <3>3, <3>6, Zenon
      <4> QED BY <3>3, <4>1, <4>2, <4>3, Zenon DEF PushedOf
    <3>11. Len(Append(all, e)) = l + 1
      BY <3>4, <3>5, AppendProperties
    <3>12. method'.len = IF Len(method'.all) < HistoryLen THEN Len(method'.all) ELSE HistoryLen
      BY <3>5, <3>7, <3>10, <3>11
    <3>13. Remembers(method'.ring, method'.pos, method'.len, method'.all)
      BY <3>8, <3>10
    <3> QED BY <3>10, <3>12, <3>13 DEF MethodInv, Remembers
  <2> QED BY <2>1, <2>2
<1>4. CASE Restart
  <2>1. method' = NoMethod
    BY <1>4 DEF Restart
  <2> QED BY <2>1, NothingIsRemembered DEF MethodInv, Remembers
<1>5. CASE SetField \/ Native \/ OffPeak \/ SetGamma \/ FieldStep
  BY <1>1, <1>5 DEF SetField, Native, OffPeak, SetGamma, FieldStep
<1>6. CASE LoadSoma \/ SaveSoma \/ LoadSidecar \/ SaveSidecar \/ Ingest \/ Consolidate
  BY <1>1, <1>6 DEF LoadSoma, SaveSoma, LoadSidecar, SaveSidecar, Ingest, Consolidate
<1>7. CASE UNCHANGED SomaVars
  BY <1>1, <1>7 DEF SomaVars, fieldVars
<1> QED BY <1>2, <1>3, <1>4, <1>5, <1>6, <1>7 DEF SomaStep, SomaNext, FieldNext

-----------------------------------------------------------------------------
(* What the invariants come to. *)

(* The shape of gamma, and that it is settled unless it is loose, give what the run checks of it. *)
LEMMA GammaSettles == GammaInv => GammaIsInTable /\ (~mixed.gamma => GammaIsSettled)
<1>0. SUFFICES ASSUME GammaInv, ~mixed.gamma PROVE GammaIsSettled
  BY DEF GammaInv, SettledGamma, Gamma, GammaIsInTable
<1>1. GammaInv /\ SlotsSettled(gamma.slots, gamma.n)
  BY <1>0 DEF GammaInv, SettledGamma
<1>2. PICK s, n : s = gamma.slots /\ n = gamma.n
  OBVIOUS
<1>3. /\ s \in [GammaSlots -> Slot] /\ n \in 0..MaxGamma /\ gamma.a \in GammaSlots /\ gamma.b \in GammaSlots
      /\ SlotsSettled(s, n)
  BY <1>1, <1>2 DEF GammaInv, SettledGamma, Gamma
<1>4. /\ \A i \in GammaSlots : ~s[i].active => s[i].name = "" /\ s[i].alpha = 0
      /\ \A i \in GammaSlots : s[i].active => i < n /\ s[i].name \in GammaNames
      /\ \A i, j \in GammaSlots : s[i].active /\ s[j].active /\ s[i].name = s[j].name => i = j
  BY <1>3 DEF SlotsSettled
<1>5. ASSUME NEW i \in GammaSlots, NEW j \in GammaSlots, i # j, s[i].active PROVE s[i].name # s[j].name
  <2>1. s[i].name # ""
    BY <1>4, <1>5, NoNameIsEmpty
  <2>2. CASE s[j].active
    BY <1>4, <1>5, <2>2
  <2>3. CASE ~s[j].active
    BY <1>4, <2>1, <2>3
  <2> QED BY <2>2, <2>3
<1> QED BY <1>2, <1>3, <1>4, <1>5 DEF GammaIsSettled

(* What a ring remembers is what its readers read: Trend by Ago, and the wave of HARMONIC
   from the oldest entropy on. *)
LEMMA MethodReads == MethodInv => MethodFollows
<1>1. SUFFICES ASSUME MethodInv PROVE MethodFollows
  OBVIOUS
<1>2. PICK S : method \in Methods(S)
  BY <1>1 DEF MethodInv
<1>3. PICK r, p, n, all : r = method.ring /\ p = method.pos /\ n = method.len /\ all = method.all
  OBVIOUS
<1>4. HistoryLen \in Nat /\ HistoryLen >= 1
  BY Limits
<1>5. PICK H : H = HistoryLen
  OBVIOUS
<1>6. PICK l : l = Len(all)
  OBVIOUS
<1>7. /\ p \in Nat /\ all \in Seq(S) /\ n = (IF l < H THEN l ELSE H)
      /\ Remembers(r, p, n, all)
  BY <1>1, <1>2, <1>3, <1>4, <1>5, <1>6 DEF Methods, MethodInv, Turns
<1>8. l \in Nat /\ n \in 0..l /\ H \in Nat
  BY <1>4, <1>5, <1>6, <1>7, LenProperties
<1>9. \A k \in 0..(n - 1) : r[(p - 1 - k + H) % H] = all[l - k]
  BY <1>5, <1>6, <1>7, Zenon DEF Remembers, Before
<1>10. method.len = Min({Len(method.all), HistoryLen})
  <2> DEFINE T == {l, H}
  <2>1. T \subseteq Nat /\ T # {}
    BY <1>8
  <2>2. Min(T) \in T /\ \A y \in T : Min(T) <= y
    BY <2>1, MinIsLeast
  <2>3. Min({l, H}) = n
    BY <1>7, <1>8, <2>2
  <2> QED BY <1>3, <1>5, <1>6, <2>3
<1>11. \A k \in 0..(method.len - 1) : Ago(method, k) = method.all[Len(method.all) - k]
  BY <1>3, <1>5, <1>6, <1>9, Zenon DEF Ago
<1>12. PICK w : w = am_harmonic_forward(method).wave
  OBVIOUS
<1>13. ASSUME w # <<>> PROVE w = SubSeq(all, l - Len(w) + 1, l)
  <2>1. w = [t \in 1..n |-> r[(p - n + t - 1 + H) % H]]
    BY <1>3, <1>5, <1>12, <1>13 DEF am_harmonic_forward
  <2>2. ASSUME NEW t \in 1..n PROVE w[t] = all[l - n + t]
    <3>1. PICK k : k = n - t
      OBVIOUS
    <3>2. k \in 0..(n - 1) /\ p - n + t - 1 + H = p - 1 - k + H /\ l - k = l - n + t
      BY <1>7, <1>8, <3>1
    <3>3. r[(p - 1 - k + H) % H] = all[l - k]
      BY <1>9, <3>2
    <3>4. w[t] = r[(p - n + t - 1 + H) % H]
      BY <2>1, <2>2
    <3> QED BY <3>2, <3>3, <3>4, Zenon
  <2>3. Len(w) = n
    <3>1. w \in [1..n -> Range(w)]
      BY <2>1 DEF Range
    <3> QED BY <1>8, <2>1
  <2>4. w = [t \in 1..n |-> all[l - n + t]]
    BY <2>1, <2>2
  <2>5. SubSeq(all, l - n + 1, l) = [t \in 1..n |-> all[l - n + t]]
    <3>1. PICK q : q = SubSeq(all, l - n + 1, l)
      OBVIOUS
    <3>2. /\ q \in Seq(S) /\ Len(q) = n
          /\ \A t \in 1..n : q[t] = all[l - n + t]
      <4>1. PICK m : m = l - n + 1
        OBVIOUS
      <4>2. m \in Int /\ l \in Int /\ m <= l + 1 /\ (\A i \in m..l : all[i] \in S)
        <5>1. m \in 1..(l + 1)
          BY ONLY <1>8, <4>1
        <5>2. m..l \subseteq 1..Len(all)
          BY ONLY <1>6, <1>8, <5>1
        <5>3. \A i \in 1..Len(all) : all[i] \in S
          BY ONLY <1>7
        <5> QED BY ONLY <1>8, <5>1, <5>2, <5>3
      <4>3. /\ q \in Seq(S) /\ Len(q) = (IF m <= l THEN l - m + 1 ELSE 0)
            /\ \A t \in 1..(l - m + 1) : q[t] = all[m + t - 1]
        BY ONLY <3>1, <4>1, <4>2, SubSeqProperties
      <4>4. l - m + 1 = n /\ (~(m <= l) => n = 0) /\ \A t \in 1..n : m + t - 1 = l - n + t
        BY ONLY <1>8, <4>1, <4>2
      <4>5. Len(q) = n
        BY ONLY <4>3, <4>4
      <4> QED BY ONLY <4>3, <4>4, <4>5
    <3>3. q \in [1..n -> S]
      BY <3>2, LenProperties
    <3>4. q = [t \in 1..n |-> all[l - n + t]]
      BY <3>2, <3>3
    <3> QED BY <3>1, <3>4
  <2> QED BY <2>3, <2>4, <2>5
<1> QED BY <1>3, <1>6, <1>10, <1>11, <1>12, <1>13 DEF MethodFollows

SomaInv == MakingInv /\ FieldInv /\ GammaInv /\ MethodInv

\* Gamma is settled at first.
LEMMA GammaInvInit == ASSUME FieldInit, SomaInit PROVE GammaInv
<1>1. 0 \in 0..GammaWords
  BY Limits DEF GammaWords, SlotWords
<1>2. gamma = EmptyGamma /\ soma = NoSoma /\ mixed = OneMaking
  BY DEF FieldInit, SomaInit
<1>3. NoSoma.gamma = EmptyGamma /\ NoSoma.mixed = OneMaking /\ NoSoma.cut = 0 /\ OneMaking.gamma = FALSE
  BY DEF NoSoma, OneMaking
<1> QED BY <1>1, <1>2, <1>3, EmptyGammaSettles DEF GammaInv

(* The inductive invariant of what the field remembers, words apart. *)
THEOREM SomaInvariant == SomaSpec => []SomaInv
<1>1. FieldInit /\ SomaInit => SomaInv
  BY MakingInit, FieldInvInit, GammaInvInit, MethodInvInit DEF SomaInv, FieldInit
<1>2. SomaInv /\ [SomaStep]_SomaVars => SomaInv'
  BY MakingNext, FieldInvNext, GammaInvNext, MethodInvNext DEF SomaInv
<1> QED BY <1>1, <1>2, PTL DEF SomaSpec, SomaStep

(* A field that was carried over a restart is as coherent as one that was set by commands:
   am_field_load and am_field_save, with every command and step. Wherever a file ended, but
   for the two cases in which the parts of the field are of two makings: among the base
   settings until the next step, and among gamma's slots, or before their number, for as
   long as they are there. Even then the faces and the number stay within the table. *)
THEOREM RestoredFieldFollowsAlways == SomaSpec => []RestoredFieldFollows
<1>1. SomaInv => RestoredFieldFollows
  <2>1. SUFFICES ASSUME SomaInv PROVE RestoredFieldFollows
    OBVIOUS
  <2>2. GammaIsInTable /\ (~mixed.gamma => GammaIsSettled) /\ MethodFollows
    BY <2>1, GammaSettles, MethodReads DEF SomaInv
  <2>3. ~mixed.field \/ stepped => TemperatureFollows
    BY <2>1 DEF SomaInv, FieldInv, Follows, Rests, TemperatureFollows
  <2> QED BY <2>2, <2>3 DEF RestoredFieldFollows
<1> QED BY <1>1, SomaInvariant, PTL

-----------------------------------------------------------------------------
(* The words. *)
Tokens == UNION {Vocabulary[v] : v \in Voices}
Words  == [src : Seq(Tokens), dst : Seq(Tokens), cnt : Seq(Int), n : Nat, ring : Seq(Tokens)]

\* An array that holds the n edges in use, and no more than there is room for.
Holds(s, n) == n <= Len(s) /\ Len(s) <= MaxEdges

Shaped(w) == /\ w \in Words /\ w.n <= MaxEdges /\ Len(w.ring) <= RingLen
             /\ Holds(w.src, w.n) /\ Holds(w.dst, w.n) /\ Holds(w.cnt, w.n)
Once(w)   == \A i, j \in 1..w.n : w.src[i] = w.src[j] /\ w.dst[i] = w.dst[j] => i = j
Own(w, V) == \A i \in 1..w.n : w.src[i] \in V /\ w.dst[i] \in V

\* u has the shape of words, once and of one voice as far as w is.
AsGood(w, u, V) == Shaped(u) /\ (Once(w) => Once(u)) /\ (Own(w, V) => Own(u, V))

\* The limits the words are kept in.
LEMMA WordLimits ==
  /\ MaxEdges \in Nat /\ RingLen \in Nat /\ Window \in Nat /\ Window >= 1
  /\ CntCap \in Nat /\ MaxText \in Nat /\ PruneFloor \in Nat
<1>1. {MaxEdges, RingLen, Window, MaxText, CntCap, PruneFloor} \subseteq Nat \ {0}
  BY SomaLimits
<1>2. /\ MaxEdges \in Nat \ {0} /\ RingLen \in Nat \ {0} /\ Window \in Nat \ {0}
      /\ CntCap \in Nat \ {0} /\ MaxText \in Nat \ {0} /\ PruneFloor \in Nat \ {0}
  BY <1>1
<1>3. \A n \in Nat \ {0} : n \in Nat /\ n >= 1
  OBVIOUS
<1> QED BY <1>2, <1>3

\* What holds of zero, and of m + 1 if of m, holds up to N: the least number it does not hold of is none.
LEMMA UpTo ==
  ASSUME NEW N \in Nat, NEW S, 0 \in S, \A m \in 0..(N - 1) : m \in S => m + 1 \in S
  PROVE  0..N \subseteq S
<1> DEFINE T == {m \in 0..N : m \notin S}
<1>1. SUFFICES ASSUME T # {} PROVE FALSE
  OBVIOUS
<1>2. T \subseteq Nat
  OBVIOUS
<1>3. PICK x \in T : \A y \in T : x <= y
  BY <1>1, <1>2, MinIsLeast
<1> HIDE DEF T
<1>4. x \in 0..N /\ x \notin S
  BY <1>3 DEF T
<1>5. x # 0
  BY <1>4
<1>6. PICK m : m = x - 1
  OBVIOUS
<1>7. m \in 0..(N - 1) /\ m \in 0..N /\ x = m + 1 /\ ~(x <= m)
  BY <1>4, <1>5, <1>6
<1>8. m \in S
  BY <1>3, <1>7 DEF T
<1> QED BY <1>4, <1>7, <1>8

\* t is s with x in place n + 1.
PutAt(t, s, n, x, S) == t \in Seq(S) /\ Holds(t, n + 1) /\ t[n + 1] = x /\ \A i \in 1..n : t[i] = s[i]

\* The element that is put in place n + 1 of an array, over what was there or behind the last.
LEMMA PlacedAt ==
  ASSUME NEW S, NEW s \in Seq(S), NEW n \in Nat, Holds(s, n), n < MaxEdges, NEW x \in S
  PROVE  PutAt(Placed(s, n + 1, x), s, n, x, S)
<1> DEFINE t == Placed(s, n + 1, x)
<1> SUFFICES PutAt(t, s, n, x, S)
  OBVIOUS
<1>0. MaxEdges \in Nat
  BY WordLimits
<1>1. PICK l \in Nat : l = Len(s)
  BY LenProperties
<1>2. n <= l /\ l <= MaxEdges
  BY <1>1 DEF Holds
<1>3. CASE n + 1 <= l
  <2>1. t = [s EXCEPT ![n + 1] = x] /\ n + 1 \in 1..Len(s)
    BY <1>1, <1>3 DEF Placed
  <2>2. t \in Seq(S) /\ Len(t) = Len(s) /\ \A j \in 1..Len(s) : t[j] = IF j = n + 1 THEN x ELSE s[j]
    BY <2>1, ExceptSeq
  <2> HIDE DEF t
  <2> QED BY <1>1, <1>2, <1>3, <2>2 DEF Holds, PutAt
<1>4. CASE ~(n + 1 <= l)
  <2>1. t = Append(s, x) /\ l = n
    BY <1>1, <1>2, <1>4 DEF Placed
  <2>2. /\ Append(s, x) \in Seq(S) /\ Len(Append(s, x)) = Len(s) + 1 /\ Append(s, x)[Len(s) + 1] = x
        /\ \A i \in 1..Len(s) : Append(s, x)[i] = s[i]
    BY AppendProperties
  <2> HIDE DEF t
  <2>3. t \in Seq(S) /\ Len(t) = n + 1 /\ t[n + 1] = x /\ \A i \in 1..n : t[i] = s[i]
    BY <1>1, <2>1, <2>2
  <2> QED BY <1>0, <2>3 DEF Holds, PutAt
<1> QED BY <1>3, <1>4

\* A new edge of words that have no such edge yet.
LEMMA AppendedIsGood ==
  ASSUME NEW w, Shaped(w), NEW V, V \subseteq Tokens, NEW x \in V, NEW y \in V, NEW k \in Int, EdgeAt(w, x, y) = {}
  PROVE  AsGood(w, AppendedEdge(w, x, y, k), V) /\ AppendedEdge(w, x, y, k).ring = w.ring
<1>0. MaxEdges \in Nat
  BY WordLimits
<1>1. /\ w \in Words /\ w.src \in Seq(Tokens) /\ w.dst \in Seq(Tokens) /\ w.cnt \in Seq(Int) /\ w.n \in Nat
      /\ Holds(w.src, w.n) /\ Holds(w.dst, w.n) /\ Holds(w.cnt, w.n) /\ Len(w.ring) <= RingLen
  BY DEF Shaped, Words
<1>2. CASE w.n >= MaxEdges
  BY <1>2 DEF AppendedEdge, AsGood
<1>3. CASE ~(w.n >= MaxEdges)
  <2>1. PICK a, b, c : a = Placed(w.src, w.n + 1, x) /\ b = Placed(w.dst, w.n + 1, y) /\ c = Placed(w.cnt, w.n + 1, k)
    OBVIOUS
  <2>2. w.n < MaxEdges /\ x \in Tokens /\ y \in Tokens
    BY <1>0, <1>1, <1>3
  <2>3. a \in Seq(Tokens) /\ Holds(a, w.n + 1) /\ a[w.n + 1] = x /\ \A i \in 1..w.n : a[i] = w.src[i]
    <3>1. PutAt(a, w.src, w.n, x, Tokens)
      BY <1>1, <2>1, <2>2, PlacedAt, Zenon
    <3> QED BY <3>1 DEF PutAt
  <2>4. b \in Seq(Tokens) /\ Holds(b, w.n + 1) /\ b[w.n + 1] = y /\ \A i \in 1..w.n : b[i] = w.dst[i]
    <3>1. PutAt(b, w.dst, w.n, y, Tokens)
      BY <1>1, <2>1, <2>2, PlacedAt, Zenon
    <3> QED BY <3>1 DEF PutAt
  <2>5. c \in Seq(Int) /\ Holds(c, w.n + 1) /\ w.n + 1 \in Nat
    <3>1. PutAt(c, w.cnt, w.n, k, Int)
      BY <1>1, <2>1, <2>2, PlacedAt, Zenon
    <3> QED BY <1>1, <3>1 DEF PutAt
  <2>6. PICK u : u = [w EXCEPT !.src = a, !.dst = b, !.cnt = c, !.n = w.n + 1]
    OBVIOUS
  <2>7. AppendedEdge(w, x, y, k) = u
    BY <1>3, <2>1, <2>6 DEF AppendedEdge
  <2>8. u \in Words /\ u.src = a /\ u.dst = b /\ u.cnt = c /\ u.n = w.n + 1 /\ u.ring = w.ring
    <3>1. PICK m : m = w.n + 1
      OBVIOUS
    <3>2. a \in Seq(Tokens) /\ b \in Seq(Tokens) /\ c \in Seq(Int) /\ m \in Nat /\ w \in Words
      BY <1>1, <2>3, <2>4, <2>5, <3>1
    <3>3. u = [w EXCEPT !.src = a, !.dst = b, !.cnt = c, !.n = m]
      BY <2>6, <3>1, Zenon
    <3>4. u \in Words /\ u.src = a /\ u.dst = b /\ u.cnt = c /\ u.n = m /\ u.ring = w.ring
      BY ONLY <3>2, <3>3 DEF Words
    <3> QED BY <3>1, <3>4
  <2>9. Shaped(u)
    BY <1>0, <1>1, <2>2, <2>3, <2>4, <2>5, <2>8 DEF Shaped
  <2>10. ASSUME NEW i \in 1..w.n PROVE ~(w.src[i] = x /\ w.dst[i] = y)
    BY DEF EdgeAt, Edges
  <2>11. \A i \in 1..u.n : i \in 1..w.n \/ i = w.n + 1
    BY <1>1, <2>8
  <2>12. Once(w) => Once(u)
    <3>1. SUFFICES ASSUME Once(w), NEW i \in 1..u.n, NEW j \in 1..u.n, a[i] = a[j], b[i] = b[j] PROVE i = j
      BY <2>8 DEF Once
    <3>2. CASE i \in 1..w.n /\ j \in 1..w.n
      BY <2>3, <2>4, <3>1, <3>2 DEF Once
    <3>3. CASE i \in 1..w.n /\ j = w.n + 1
      BY <2>3, <2>4, <2>10, <3>1, <3>3
    <3>4. CASE i = w.n + 1 /\ j \in 1..w.n
      BY <2>3, <2>4, <2>10, <3>1, <3>4
    <3> QED BY <2>11, <3>2, <3>3, <3>4
  <2>13. Own(w, V) => Own(u, V)
    BY <2>3, <2>4, <2>8, <2>11 DEF Own
  <2> QED BY <2>7, <2>8, <2>9, <2>12, <2>13 DEF AsGood
<1> QED BY <1>2, <1>3

\* am_cooc_update: an edge is strengthened, or there was none and one is added.
LEMMA OccurredIsGood ==
  ASSUME NEW w, Shaped(w), NEW V, V \subseteq Tokens, NEW x \in V, NEW y \in V, NEW k \in Int
  PROVE  AsGood(w, Occurred(w, x, y, k), V) /\ Occurred(w, x, y, k).ring = w.ring
<1>1. CASE EdgeAt(w, x, y) = {}
  BY <1>1, AppendedIsGood DEF Occurred
<1>2. CASE EdgeAt(w, x, y) # {}
  <2>0. CntCap \in Nat
    BY WordLimits
  <2>1. /\ w \in Words /\ w.src \in Seq(Tokens) /\ w.dst \in Seq(Tokens) /\ w.cnt \in Seq(Int) /\ w.n \in Nat
        /\ Holds(w.src, w.n) /\ Holds(w.dst, w.n) /\ Holds(w.cnt, w.n) /\ Len(w.ring) <= RingLen /\ w.n <= MaxEdges
    BY DEF Shaped, Words
  <2>2. PICK m : m = Min(EdgeAt(w, x, y))
    OBVIOUS
  <2>3. m \in 1..w.n
    <3> DEFINE T == EdgeAt(w, x, y)
    <3>1. T \subseteq 1..w.n /\ T \subseteq Nat
      BY <2>1 DEF EdgeAt, Edges
    <3> HIDE DEF T
    <3>2. Min(T) \in T
      BY <1>2, <3>1, MinIsLeast DEF T
    <3> QED BY <2>2, <3>1, <3>2 DEF T
  <2>4. PICK e : e = Strong(w.cnt[m] + k)
    OBVIOUS
  <2>5. m \in 1..Len(w.cnt) /\ w.cnt[m] \in Int
    <3>1. Len(w.cnt) \in Nat
      BY <2>1, LenProperties
    <3>2. m \in 1..Len(w.cnt)
      BY <2>1, <2>3, <3>1 DEF Holds
    <3> QED BY <2>1, <3>2, ElementOfSeq
  <2>6. e \in Int
    BY <2>0, <2>4, <2>5 DEF Strong
  <2>7. PICK c : c = [w.cnt EXCEPT ![m] = e]
    OBVIOUS
  <2>8. c \in Seq(Int) /\ Len(c) = Len(w.cnt)
    BY <2>1, <2>5, <2>6, <2>7, ExceptSeq
  <2>9. PICK u : u = [w EXCEPT !.cnt = c]
    OBVIOUS
  <2>10. Occurred(w, x, y, k) = u
    BY <1>2, <2>2, <2>4, <2>7, <2>9 DEF Occurred
  <2>11. u \in Words /\ u.src = w.src /\ u.dst = w.dst /\ u.cnt = c /\ u.n = w.n /\ u.ring = w.ring
    BY <2>1, <2>8, <2>9 DEF Words
  <2>12. Shaped(u)
    BY <2>1, <2>8, <2>11 DEF Shaped, Holds
  <2>13. (Once(w) => Once(u)) /\ (Own(w, V) => Own(u, V))
    BY <2>11 DEF Once, Own
  <2> QED BY <2>10, <2>11, <2>12, <2>13 DEF AsGood
<1> QED BY <1>1, <1>2

\* A voice's sequences of tokens are sequences of tokens.
LEMMA WiderSeq == ASSUME NEW V, NEW T, V \subseteq T, NEW s \in Seq(V) PROVE s \in Seq(T)
<1>1. PICK l \in Nat : s \in [1..l -> V]
  BY SeqDef
<1>2. s \in [1..l -> T]
  BY <1>1
<1> QED BY <1>2, SeqDef

\* What is as good as what is as good as w is as good as w.
LEMMA GoodIsTransitive ==
  ASSUME NEW w, NEW u, NEW v, NEW V, AsGood(w, u, V), AsGood(u, v, V)
  PROVE  AsGood(w, v, V)
BY DEF AsGood

\* Words are as good as themselves.
LEMMA GoodIsReflexive == ASSUME NEW w, NEW V, Shaped(w) PROVE AsGood(w, w, V)
BY DEF AsGood

\* A quotient of less than n times D is less than n.
LEMMA QuotientBelow ==
  ASSUME NEW a \in Nat, NEW D \in Nat, D >= 1, NEW n \in Nat, a < D * n
  PROVE  a \div D \in 0..(n - 1)
<1>1. PICK q : q = a \div D
  OBVIOUS
<1>2. q \in Int /\ D * q <= a
  BY <1>1
<1>3. q >= 0
  BY <1>1
<1>4. q < n
  BY <1>2
<1> QED BY <1>1, <1>2, <1>3, <1>4

\* The k-th pair that is looked at is at a word of the text.
LEMMA WordIsInText ==
  ASSUME NEW n \in Nat, NEW k \in 1..(2 * Window * n)
  PROVE  WordAt(k) \in 1..n
<1>1. PICK D : D = 2 * Window
  OBVIOUS
<1>2. D \in Nat /\ D >= 1
  BY <1>1, WordLimits
<1>3. PICK a : a = k - 1
  OBVIOUS
<1>4. k \in 1..(D * n)
  BY <1>1
<1>5. D * n \in Int
  BY <1>2
<1>6. a \in Nat /\ a < D * n
  BY <1>3, <1>4, <1>5
<1>7. PICK q : q = a \div D
  OBVIOUS
<1>8. q \in 0..(n - 1)
  BY <1>2, <1>6, <1>7, QuotientBelow
<1>9. WordAt(k) = q + 1
  BY <1>1, <1>3, <1>7, Zenon DEF WordAt
<1> QED BY <1>8, <1>9

\* One pair of am_ingest_tokens.
LEMMA ToldIsGood ==
  ASSUME NEW w, Shaped(w), NEW V, V \subseteq Tokens, NEW ids \in Seq(V), NEW k \in 1..(2 * Window * Len(ids))
  PROVE  AsGood(w, Told(w, ids, k), V) /\ Told(w, ids, k).ring = w.ring
<1>1. PICK b, a : b = Beside(k) /\ a = WordAt(k)
  OBVIOUS
<1>2. CASE b \in DOMAIN ids \ {a}
  <2>1. PICK l : l = Len(ids)
    OBVIOUS
  <2>2. l \in Nat /\ DOMAIN ids = 1..l
    BY <2>1, LenProperties
  <2>3. a \in 1..l
    <3>1. k \in 1..(2 * Window * l)
      BY <2>1, Zenon
    <3> QED BY <1>1, <2>2, <3>1, WordIsInText, Zenon
  <2>4. ids[a] \in V /\ ids[b] \in V
    BY <1>2, <2>1, <2>2, <2>3, ElementOfSeq
  <2>5. PICK m : m = IF a - b \in {-1, 1} THEN 2 ELSE 1
    OBVIOUS
  <2>6. m \in Int
    BY <2>5
  <2>7. Told(w, ids, k) = Occurred(w, ids[a], ids[b], m)
    BY <1>1, <1>2, <2>5, Zenon DEF Told
  <2>8. AsGood(w, Occurred(w, ids[a], ids[b], m), V) /\ Occurred(w, ids[a], ids[b], m).ring = w.ring
    BY <2>4, <2>6, OccurredIsGood
  <2> QED BY <2>7, <2>8
<1>3. CASE ~(b \in DOMAIN ids \ {a})
  <2>1. Told(w, ids, k) = w
    BY <1>1, <1>3, Zenon DEF Told
  <2> QED BY <2>1, GoodIsReflexive
<1> QED BY <1>2, <1>3

\* t is what the pairs up to m have made of w.
ToldUpTo(t, w, ids, m) == t = [k \in 0..m |-> IF k = 0 THEN w ELSE Told(t[k - 1], ids, k)]

\* The recursion has a solution: one for m + 1 is one for m with a step more.
LEMMA ToldExists ==
  ASSUME NEW w, NEW ids, NEW N \in Nat
  PROVE  \E t : ToldUpTo(t, w, ids, N)
<1> DEFINE S == {m \in 0..N : \E t : ToldUpTo(t, w, ids, m)}
<1>1. 0 \in S
  <2>1. PICK t : t = [k \in 0..0 |-> w]
    OBVIOUS
  <2>2. t = [k \in 0..0 |-> IF k = 0 THEN w ELSE Told(t[k - 1], ids, k)]
    BY <2>1
  <2> QED BY <2>2 DEF ToldUpTo
<1>2. ASSUME NEW m \in 0..(N - 1), m \in S PROVE m + 1 \in S
  <2>1. PICK t : ToldUpTo(t, w, ids, m)
    BY <1>2
  <2>2. /\ t[0] = w
        /\ \A k \in 1..m : t[k] = Told(t[k - 1], ids, k)
    <3>1. t = [k \in 0..m |-> IF k = 0 THEN w ELSE Told(t[k - 1], ids, k)]
      BY <2>1 DEF ToldUpTo
    <3> QED BY <3>1
  <2>3. PICK e : e = Told(t[m], ids, m + 1)
    OBVIOUS
  <2>4. PICK u : u = [k \in 0..(m + 1) |-> IF k = m + 1 THEN e ELSE t[k]]
    OBVIOUS
  <2>5. u[m + 1] = e /\ \A k \in 0..m : u[k] = t[k]
    BY <2>4
  <2>6. ASSUME NEW k \in 0..(m + 1) PROVE u[k] = IF k = 0 THEN w ELSE Told(u[k - 1], ids, k)
    <3>1. CASE k = 0
      BY <2>2, <2>5, <3>1
    <3>2. CASE k \in 1..m
      <4>1. u[k - 1] = t[k - 1] /\ u[k] = t[k]
        BY <2>5, <3>2
      <4> QED BY <2>2, <3>2, <4>1
    <3>3. CASE k = m + 1
      <4>1. u[k - 1] = t[m]
        BY <2>5, <3>3
      <4>2. k # 0
        BY <3>3
      <4> QED BY <2>3, <2>5, <3>3, <4>1, <4>2
    <3> QED BY <3>1, <3>2, <3>3
  <2>7. u = [k \in 0..(m + 1) |-> IF k = 0 THEN w ELSE Told(u[k - 1], ids, k)]
    BY <2>4, <2>6
  <2>8. ToldUpTo(u, w, ids, m + 1)
    BY <2>7, Zenon DEF ToldUpTo
  <2> QED BY <2>8
<1> HIDE DEF S
<1>3. N \in S
  BY <1>1, <1>2, UpTo
<1> QED BY <1>3 DEF S

\* am_ingest_tokens: every pair keeps the words good.
LEMMA IngestedIsGood ==
  ASSUME NEW w, Shaped(w), NEW V, V \subseteq Tokens, NEW ids \in Seq(V)
  PROVE  AsGood(w, Ingested(w, ids), V)
<1>0. RingLen \in Nat /\ Window \in Nat
  BY WordLimits
<1>1. PICK n : n = Len(ids)
  OBVIOUS
<1>2. n \in Nat
  BY <1>1, LenProperties
<1>3. PICK N : N = 2 * Window * n
  OBVIOUS
<1>4. N \in Nat
  BY <1>0, <1>2, <1>3
<1> DEFINE t == CHOOSE t : t = [k \in 0..N |-> IF k = 0 THEN w ELSE Told(t[k - 1], ids, k)]
<1>5. t = [k \in 0..N |-> IF k = 0 THEN w ELSE Told(t[k - 1], ids, k)]
  <2>1. PICK s : ToldUpTo(s, w, ids, N)
    BY <1>4, ToldExists
  <2>2. s = [k \in 0..N |-> IF k = 0 THEN w ELSE Told(s[k - 1], ids, k)]
    BY <2>1, Zenon DEF ToldUpTo
  <2> QED BY <2>2
<1>6. PICK r : r = SubSeq(ids, IF n > RingLen THEN n - RingLen + 1 ELSE 1, n)
  OBVIOUS
<1>7. Ingested(w, ids) = [t[N] EXCEPT !.ring = r]
  BY <1>1, <1>3, <1>6, Zenon DEF Ingested
<1> HIDE DEF t
<1> DEFINE S == {m \in 0..N : AsGood(w, t[m], V)}
<1>8. 0 \in S
  BY <1>4, <1>5, GoodIsReflexive
<1>9. ASSUME NEW m \in 0..(N - 1), m \in S PROVE m + 1 \in S
  <2>1. PICK u : u = t[m]
    OBVIOUS
  <2>2. AsGood(w, u, V) /\ Shaped(u)
    BY <1>9, <2>1 DEF AsGood
  <2>3. m + 1 \in 1..N /\ m + 1 \in 0..N /\ m + 1 # 0 /\ (m + 1) - 1 = m
    BY <1>4
  <2>4. t[m + 1] = Told(u, ids, m + 1)
    BY <1>5, <2>1, <2>3
  <2>5. m + 1 \in 1..(2 * Window * Len(ids))
    BY <1>1, <1>3, <2>3, Zenon
  <2>6. AsGood(u, Told(u, ids, m + 1), V)
    BY <2>2, <2>5, ToldIsGood, Zenon
  <2>7. AsGood(w, t[m + 1], V)
    BY <2>2, <2>4, <2>6, GoodIsTransitive
  <2> QED BY <2>3, <2>7
<1> HIDE DEF S
<1>10. N \in S
  <2>1. 0..N \subseteq S
    BY ONLY <1>4, <1>8, <1>9, UpTo
  <2> QED BY <1>4, <2>1
<1>11. PICK u : u = t[N]
  OBVIOUS
<1>12. AsGood(w, u, V)
  BY <1>10, <1>11 DEF S
<1>13. r \in Seq(Tokens) /\ Len(r) <= RingLen
  <2>1. PICK a : a = IF n > RingLen THEN n - RingLen + 1 ELSE 1
    OBVIOUS
  <2>2. a \in Int /\ a >= 1
    BY <1>0, <1>2, <2>1
  <2>3. ids \in Seq(Tokens)
    BY WiderSeq
  <2>4. \A i \in a..n : ids[i] \in Tokens
    BY <1>1, <1>2, <2>2, <2>3, ElementOfSeq
  <2>5. r = SubSeq(ids, a, n)
    BY <1>6, <2>1
  <2>6. r \in Seq(Tokens) /\ Len(r) = IF a <= n THEN n - a + 1 ELSE 0
    BY <1>2, <2>2, <2>4, <2>5, SubSeqProperties
  <2> QED BY <1>0, <1>2, <2>1, <2>6
<1>14. PICK v : v = [u EXCEPT !.ring = r]
  OBVIOUS
<1>15. u \in Words
  BY <1>12 DEF AsGood, Shaped
<1>16. v \in Words /\ v.src = u.src /\ v.dst = u.dst /\ v.cnt = u.cnt /\ v.n = u.n /\ v.ring = r
  BY <1>13, <1>14, <1>15 DEF Words
<1>17. AsGood(w, v, V)
  BY <1>12, <1>13, <1>16 DEF AsGood, Shaped, Once, Own
<1> QED BY <1>7, <1>11, <1>14, <1>17

\* k picks some of the first r edges of n, each once.
Picks(k, r, n) ==
  /\ k \in Seq(1..n) /\ Len(k) <= r
  /\ \A i \in 1..Len(k) : k[i] <= r
  /\ \A i, j \in 1..Len(k) : k[i] = k[j] => i = j

\* A pick of the first r is one of the first r + 1, with or without the last of them.
LEMMA PicksOn ==
  ASSUME NEW n \in Nat, NEW r \in 0..(n - 1), NEW k, Picks(k, r, n)
  PROVE  Picks(k, r + 1, n) /\ Picks(Append(k, r + 1), r + 1, n)
<1>1. PICK l \in Nat : l = Len(k)
  BY LenProperties DEF Picks
<1>2. /\ k \in Seq(1..n) /\ l <= r /\ \A i \in 1..l : k[i] <= r
      /\ \A i, j \in 1..l : k[i] = k[j] => i = j
  BY <1>1 DEF Picks
<1>3. r + 1 \in 1..n /\ l \in 0..(r + 1) /\ l + 1 <= r + 1 /\ l <= r + 1
  BY <1>2
<1>4. \A i \in 1..l : k[i] \in 1..n
  BY <1>1, <1>2, ElementOfSeq
<1>5. Picks(k, r + 1, n)
  <2>1. \A i \in 1..l : k[i] <= r + 1
    BY <1>2, <1>4
  <2> QED BY <1>1, <1>2, <1>3, <2>1 DEF Picks
<1>6. PICK q : q = Append(k, r + 1)
  OBVIOUS
<1>7. q \in Seq(1..n) /\ Len(q) = l + 1 /\ q[l + 1] = r + 1 /\ \A i \in 1..l : q[i] = k[i]
  <2>1. /\ Append(k, r + 1) \in Seq(1..n) /\ Len(Append(k, r + 1)) = Len(k) + 1
        /\ Append(k, r + 1)[Len(k) + 1] = r + 1 /\ \A i \in 1..Len(k) : Append(k, r + 1)[i] = k[i]
    BY <1>2, <1>3, AppendProperties
  <2> QED BY <1>1, <1>6, <2>1
<1>8. \A i \in 1..(l + 1) : i \in 1..l \/ i = l + 1
  OBVIOUS
<1>9. \A i \in 1..(l + 1) : q[i] <= r + 1
  BY <1>2, <1>4, <1>7, <1>8
<1>10. ASSUME NEW i \in 1..(l + 1), NEW j \in 1..(l + 1), q[i] = q[j] PROVE i = j
  <2>1. CASE i \in 1..l /\ j \in 1..l
    BY <1>2, <1>7, <1>10, <2>1
  <2>2. CASE i \in 1..l /\ j = l + 1
    <3>1. k[i] = r + 1 /\ k[i] <= r
      BY <1>2, <1>7, <1>10, <2>2
    <3> QED BY <3>1
  <2>3. CASE i = l + 1 /\ j \in 1..l
    <3>1. k[j] = r + 1 /\ k[j] <= r
      BY <1>2, <1>7, <1>10, <2>3
    <3> QED BY <3>1
  <2> QED BY <1>8, <2>1, <2>2, <2>3
<1>11. Picks(q, r + 1, n)
  BY <1>3, <1>7, <1>9, <1>10 DEF Picks
<1> QED BY <1>5, <1>6, <1>11

\* The edges that are kept of the first r, and the next: what the scan of am_cooc_consolidate does.
Scanned(k, w, r) == IF Aged(w, r) >= PruneFloor THEN Append(k, r) ELSE k
KeptUpTo(k, w, m) == k = [r \in 0..m |-> IF r = 0 THEN <<>> ELSE Scanned(k[r - 1], w, r)]

\* The recursion has a solution, as that of the pairs has.
LEMMA KeptExists ==
  ASSUME NEW w, NEW N \in Nat
  PROVE  \E k : KeptUpTo(k, w, N)
<1> DEFINE S == {m \in 0..N : \E k : KeptUpTo(k, w, m)}
<1>1. 0 \in S
  <2>1. PICK k : k = [r \in 0..0 |-> <<>>]
    OBVIOUS
  <2>2. k = [r \in 0..0 |-> IF r = 0 THEN <<>> ELSE Scanned(k[r - 1], w, r)]
    BY <2>1
  <2> QED BY <2>2 DEF KeptUpTo
<1>2. ASSUME NEW m \in 0..(N - 1), m \in S PROVE m + 1 \in S
  <2>1. PICK t : KeptUpTo(t, w, m)
    BY <1>2
  <2>2. /\ t[0] = <<>>
        /\ \A r \in 1..m : t[r] = Scanned(t[r - 1], w, r)
    <3>1. t = [r \in 0..m |-> IF r = 0 THEN <<>> ELSE Scanned(t[r - 1], w, r)]
      BY <2>1 DEF KeptUpTo
    <3> QED BY <3>1
  <2>3. PICK e : e = Scanned(t[m], w, m + 1)
    OBVIOUS
  <2>4. PICK u : u = [r \in 0..(m + 1) |-> IF r = m + 1 THEN e ELSE t[r]]
    OBVIOUS
  <2>5. u[m + 1] = e /\ \A r \in 0..m : u[r] = t[r]
    BY <2>4
  <2>6. ASSUME NEW r \in 0..(m + 1) PROVE u[r] = IF r = 0 THEN <<>> ELSE Scanned(u[r - 1], w, r)
    <3>1. CASE r = 0
      BY <2>2, <2>5, <3>1
    <3>2. CASE r \in 1..m
      <4>1. u[r - 1] = t[r - 1] /\ u[r] = t[r]
        BY <2>5, <3>2
      <4> QED BY <2>2, <3>2, <4>1
    <3>3. CASE r = m + 1
      <4>1. u[r - 1] = t[m]
        BY <2>5, <3>3
      <4>2. r # 0
        BY <3>3
      <4> QED BY <2>3, <2>5, <3>3, <4>1, <4>2
    <3> QED BY <3>1, <3>2, <3>3
  <2>7. u = [r \in 0..(m + 1) |-> IF r = 0 THEN <<>> ELSE Scanned(u[r - 1], w, r)]
    BY <2>4, <2>6
  <2>8. KeptUpTo(u, w, m + 1)
    BY <2>7, Zenon DEF KeptUpTo
  <2> QED BY <2>8
<1> HIDE DEF S
<1>3. N \in S
  <2>1. 0..N \subseteq S
    BY ONLY <1>1, <1>2, UpTo
  <2> QED BY <2>1
<1> QED BY <1>3 DEF S

\* What is kept of all of them is a pick of them.
LEMMA KeptPicks ==
  ASSUME NEW w, NEW n \in Nat, NEW k, KeptUpTo(k, w, n)
  PROVE  Picks(k[n], n, n)
<1>1. k[0] = <<>> /\ \A r \in 1..n : k[r] = Scanned(k[r - 1], w, r)
  <2>1. k = [r \in 0..n |-> IF r = 0 THEN <<>> ELSE Scanned(k[r - 1], w, r)]
    BY DEF KeptUpTo
  <2> QED BY <2>1
<1> DEFINE S == {m \in 0..n : Picks(k[m], m, n)}
<1>2. 0 \in S
  <2>1. <<>> \in Seq(1..n) /\ Len(<<>>) = 0
    BY EmptySeq
  <2>2. Picks(<<>>, 0, n)
    BY <2>1 DEF Picks
  <2> QED BY <1>1, <2>2
<1>3. ASSUME NEW m \in 0..(n - 1), m \in S PROVE m + 1 \in S
  <2>1. PICK q : q = k[m]
    OBVIOUS
  <2>2. Picks(q, m, n)
    BY <1>3, <2>1
  <2>3. Picks(q, m + 1, n) /\ Picks(Append(q, m + 1), m + 1, n)
    BY <2>2, PicksOn
  <2>4. m + 1 \in 1..n /\ m + 1 \in 0..n /\ (m + 1) - 1 = m
    OBVIOUS
  <2>5. k[m + 1] = Scanned(q, w, m + 1)
    BY <1>1, <2>1, <2>4
  <2>6. Picks(k[m + 1], m + 1, n)
    <3>1. CASE Aged(w, m + 1) >= PruneFloor
      <4>1. k[m + 1] = Append(q, m + 1)
        BY <2>5, <3>1, Zenon DEF Scanned
      <4> QED BY <2>3, <4>1
    <3>2. CASE ~(Aged(w, m + 1) >= PruneFloor)
      <4>1. k[m + 1] = q
        BY <2>5, <3>2, Zenon DEF Scanned
      <4> QED BY <2>3, <4>1
    <3> QED BY <3>1, <3>2
  <2> QED BY <2>4, <2>6
<1> HIDE DEF S
<1>4. n \in S
  <2>1. 0..n \subseteq S
    BY ONLY <1>2, <1>3, UpTo
  <2> QED BY <2>1
<1> QED BY <1>4 DEF S

\* am_cooc_consolidate: what is kept keeps its words, and closes up.
LEMMA ConsolidatedIsGood ==
  ASSUME NEW w, Shaped(w), NEW V
  PROVE  AsGood(w, Consolidated(w), V)
<1>0. MaxEdges \in Nat /\ CntCap \in Nat
  BY WordLimits
<1>1. /\ w \in Words /\ w.src \in Seq(Tokens) /\ w.dst \in Seq(Tokens) /\ w.cnt \in Seq(Int) /\ w.n \in Nat
      /\ Holds(w.src, w.n) /\ Holds(w.dst, w.n) /\ Holds(w.cnt, w.n) /\ Len(w.ring) <= RingLen /\ w.n <= MaxEdges
  BY DEF Shaped, Words
<1>2. CASE w.n = 0
  <2>1. Consolidated(w) = w
    BY <1>2 DEF Consolidated
  <2> QED BY <2>1, GoodIsReflexive
<1>3. CASE w.n # 0
  <2>1. PICK n : n = w.n
    OBVIOUS
  <2> DEFINE kept == CHOOSE kept : kept = [r \in 0..w.n |->
                IF r = 0 THEN <<>> ELSE IF Aged(w, r) >= PruneFloor THEN Append(kept[r - 1], r) ELSE kept[r - 1]]
  <2>2. kept = [r \in 0..w.n |->
                IF r = 0 THEN <<>> ELSE IF Aged(w, r) >= PruneFloor THEN Append(kept[r - 1], r) ELSE kept[r - 1]]
    <3>1. PICK s : KeptUpTo(s, w, w.n)
      BY <1>1, KeptExists
    <3>2. s = [r \in 0..w.n |->
                IF r = 0 THEN <<>> ELSE IF Aged(w, r) >= PruneFloor THEN Append(s[r - 1], r) ELSE s[r - 1]]
      BY <3>1, Zenon DEF KeptUpTo, Scanned
    <3> QED BY <3>2, Zenon
  <2>3. PICK k : k = kept[w.n]
    OBVIOUS
  <2>4. PICK a, b, c : /\ a = [i \in DOMAIN k |-> w.src[k[i]]] /\ b = [i \in DOMAIN k |-> w.dst[k[i]]]
                       /\ c = [i \in DOMAIN k |-> Aged(w, k[i])]
    OBVIOUS
  <2>5. PICK u : u = [w EXCEPT !.src = a, !.dst = b, !.cnt = c, !.n = Len(k)]
    OBVIOUS
  <2>6. Consolidated(w) = u
    <3>1. Consolidated(w) = [w EXCEPT !.src = [i \in DOMAIN kept[w.n] |-> w.src[kept[w.n][i]]],
                                       !.dst = [i \in DOMAIN kept[w.n] |-> w.dst[kept[w.n][i]]],
                                       !.cnt = [i \in DOMAIN kept[w.n] |-> Aged(w, kept[w.n][i])],
                                       !.n = Len(kept[w.n])]
      BY <1>3, Zenon DEF Consolidated
    <3> HIDE DEF kept
    <3> QED BY <2>3, <2>4, <2>5, <3>1
  <2> HIDE DEF kept
  <2>7. KeptUpTo(kept, w, w.n)
    BY <2>2, Zenon DEF KeptUpTo, Scanned
  <2>8. Picks(k, n, n)
    BY <1>1, <2>1, <2>3, <2>7, KeptPicks, Zenon
  <2>9. PICK m \in Nat : m = Len(k) /\ DOMAIN k = 1..m
    BY <2>8, LenProperties DEF Picks
  <2>10. /\ n \in Nat /\ m <= n /\ n <= MaxEdges /\ \A i \in 1..m : k[i] \in 1..n
         /\ \A i, j \in 1..m : k[i] = k[j] => i = j
    <3>1. k \in Seq(1..n)
      BY <2>8 DEF Picks
    <3>2. \A i \in 1..m : k[i] \in 1..n
      BY <2>9, <3>1, ElementOfSeq
    <3> QED BY <1>1, <2>1, <2>8, <2>9, <3>2 DEF Picks
  <2>11. \A i \in 1..n : w.src[i] \in Tokens /\ w.dst[i] \in Tokens /\ w.cnt[i] \in Int
    <3>1. Len(w.src) \in Nat /\ Len(w.dst) \in Nat /\ Len(w.cnt) \in Nat
      BY <1>1, LenProperties
    <3>2. \A i \in 1..n : i \in 1..Len(w.src) /\ i \in 1..Len(w.dst) /\ i \in 1..Len(w.cnt)
      BY <1>1, <2>1, <2>10, <3>1 DEF Holds
    <3> QED BY <1>1, <3>2, ElementOfSeq
  <2>12. \A i \in 1..n : Aged(w, i) \in Int
    BY <1>0, <2>11 DEF Aged, Strong
  <2>13. a \in [1..m -> Tokens] /\ b \in [1..m -> Tokens] /\ c \in [1..m -> Int]
    BY <2>4, <2>9, <2>10, <2>11, <2>12
  <2>14. a \in Seq(Tokens) /\ Len(a) = m /\ b \in Seq(Tokens) /\ Len(b) = m /\ c \in Seq(Int) /\ Len(c) = m
    <3>1. a \in Seq(Tokens) /\ b \in Seq(Tokens) /\ c \in Seq(Int)
      BY <2>13, SeqDef
    <3>2. DOMAIN a = 1..m /\ DOMAIN b = 1..m /\ DOMAIN c = 1..m
      BY <2>13
    <3> QED BY <3>1, <3>2, LenProperties
  <2>15. u \in Words /\ u.src = a /\ u.dst = b /\ u.cnt = c /\ u.n = m /\ u.ring = w.ring
    <3>1. u = [w EXCEPT !.src = a, !.dst = b, !.cnt = c, !.n = m]
      BY <2>5, <2>9, Zenon
    <3> QED BY <1>1, <2>14, <3>1 DEF Words
  <2>16. Shaped(u)
    BY <1>0, <1>1, <2>10, <2>14, <2>15 DEF Shaped, Holds
  <2>17. \A i \in 1..m : a[i] = w.src[k[i]] /\ b[i] = w.dst[k[i]]
    BY <2>4, <2>9
  <2>18. Once(w) => Once(u)
    <3>1. SUFFICES ASSUME Once(w), NEW i \in 1..m, NEW j \in 1..m, a[i] = a[j], b[i] = b[j] PROVE i = j
      BY <2>15 DEF Once
    <3>2. k[i] = k[j]
      BY <2>1, <2>10, <2>17, <3>1 DEF Once
    <3> QED BY <2>10, <3>2
  <2>19. Own(w, V) => Own(u, V)
    BY <2>1, <2>10, <2>15, <2>17 DEF Own
  <2> QED BY <2>6, <2>16, <2>18, <2>19 DEF AsGood
<1> QED BY <1>2, <1>3

\* t is new with, behind it, what old has there.
OverOf(t, new, old, S) ==
  /\ t \in Seq(S) /\ Len(t) = (IF Len(new) < Len(old) THEN Len(old) ELSE Len(new))
  /\ \A i \in 1..Len(new) : t[i] = new[i]
  /\ \A i \in 1..Len(old) : i > Len(new) => t[i] = old[i]

\* What a load leaves of an array.
LEMMA OverIs ==
  ASSUME NEW S, NEW new \in Seq(S), NEW old \in Seq(S)
  PROVE  OverOf(Over(new, old), new, old, S)
<1>1. PICK a \in Nat, b \in Nat : a = Len(new) /\ b = Len(old)
  BY LenProperties
<1>2. PICK q : q = SubSeq(old, a + 1, b)
  OBVIOUS
<1>3. PICK m : m = IF a + 1 <= b THEN b - (a + 1) + 1 ELSE 0
  OBVIOUS
<1>4. q \in Seq(S) /\ Len(q) = m /\ \A i \in 1..(b - (a + 1) + 1) : q[i] = old[(a + 1) + i - 1]
  <2>1. \A i \in (a + 1)..b : old[i] \in S
    BY <1>1, ElementOfSeq
  <2>2. a + 1 \in Int /\ b \in Int
    OBVIOUS
  <2> QED BY <1>2, <1>3, <2>1, <2>2, SubSeqProperties
<1>5. PICK t : t = new \o q
  OBVIOUS
<1>6. m \in Nat /\ a + m = (IF a < b THEN b ELSE a)
  BY <1>3
<1>7. t \in Seq(S) /\ Len(t) = a + m /\ \A i \in 1..(a + m) : t[i] = IF i <= a THEN new[i] ELSE q[i - a]
  <2>1. /\ new \o q \in Seq(S) /\ Len(new \o q) = Len(new) + Len(q)
        /\ \A i \in 1..(Len(new) + Len(q)) : (new \o q)[i] = IF i <= Len(new) THEN new[i] ELSE q[i - Len(new)]
    BY <1>4, ConcatProperties
  <2> QED BY <1>1, <1>4, <1>5, <2>1
<1>8. \A i \in 1..a : t[i] = new[i]
  BY <1>6, <1>7
<1>9. ASSUME NEW i \in 1..b, i > a PROVE t[i] = old[i]
  <2>1. PICK j : j = i - a
    OBVIOUS
  <2>2. j \in 1..(b - (a + 1) + 1) /\ (a + 1) + j - 1 = i /\ i \in 1..(a + m) /\ ~(i <= a)
    BY <1>6, <1>9, <2>1
  <2>3. t[i] = q[j]
    BY <1>7, <2>1, <2>2
  <2>4. q[j] = old[i]
    BY <1>4, <2>2
  <2> QED BY <2>3, <2>4
<1>10. Over(new, old) = t
  BY <1>1, <1>2, <1>5 DEF Over
<1> QED BY <1>1, <1>6, <1>7, <1>8, <1>9, <1>10 DEF OverOf

\* A file of a voice: as many elements as edges.
Side(f, V) ==
  /\ f.part \in SideParts /\ Shaped(f.words)
  /\ Len(f.words.src) = f.words.n /\ Len(f.words.dst) = f.words.n /\ Len(f.words.cnt) = f.words.n
  /\ ~f.mixed => Once(f.words)
  /\ f.own => Own(f.words, V)

WordsInv ==
  /\ Shaped(words) /\ (~mixed.words => Once(words)) /\ (own => Own(words, Vocabulary[voice]))
  /\ Shaped(soma.words) /\ (~soma.mixed.words => Once(soma.words))
  /\ \A v \in Voices : Side(sidecar[v], Vocabulary[v])

\* What the shape of words says of each part.
LEMMA ShapeOf ==
  ASSUME NEW w, Shaped(w)
  PROVE  /\ w \in Words /\ w.src \in Seq(Tokens) /\ w.dst \in Seq(Tokens) /\ w.cnt \in Seq(Int) /\ w.n \in Nat
         /\ w.ring \in Seq(Tokens) /\ Len(w.ring) <= RingLen /\ w.n <= MaxEdges
         /\ w.n <= Len(w.src) /\ Len(w.src) <= MaxEdges /\ w.n <= Len(w.dst) /\ Len(w.dst) <= MaxEdges
         /\ w.n <= Len(w.cnt) /\ Len(w.cnt) <= MaxEdges
BY DEF Shaped, Words, Holds

\* am_init leaves no words.
LEMMA NoWords ==
  /\ Shaped(EmptyWords) /\ Once(EmptyWords) /\ \A V : Own(EmptyWords, V)
  /\ Len(EmptyWords.src) = EmptyWords.n /\ Len(EmptyWords.dst) = EmptyWords.n /\ Len(EmptyWords.cnt) = EmptyWords.n
<1>1. <<>> \in Seq(Tokens) /\ <<>> \in Seq(Int) /\ Len(<<>>) = 0
  BY EmptySeq
<1>2. /\ EmptyWords \in Words /\ EmptyWords.src = <<>> /\ EmptyWords.dst = <<>> /\ EmptyWords.cnt = <<>>
      /\ EmptyWords.n = 0 /\ EmptyWords.ring = <<>>
  BY <1>1 DEF EmptyWords, Words
<1> QED BY <1>1, <1>2, WordLimits DEF Shaped, Holds, Once, Own

\* The invariant of the words holds at first.
LEMMA WordsInvInit == ASSUME SomaInit PROVE WordsInv
<1>1. words = EmptyWords /\ soma.words = EmptyWords
  BY DEF SomaInit, NoSoma
<1>2. \A v \in Voices : sidecar[v] = NoSidecar
  BY DEF SomaInit
<1>3. NoSidecar.part \in SideParts /\ NoSidecar.words = EmptyWords
  BY DEF NoSidecar, SideParts
<1>4. \A v \in Voices : Side(sidecar[v], Vocabulary[v])
  BY <1>2, <1>3, NoWords DEF Side
<1> QED BY <1>1, <1>4, NoWords DEF WordsInv

\* What does not touch the memory does not touch the words.
LEMMA WordsInvStays == ASSUME WordsInv, UNCHANGED somaVars PROVE WordsInv'
BY DEF WordsInv, somaVars

\* An array of sources that was loaded over another.
LEMMA SourcesLoaded ==
  ASSUME NEW w, Shaped(w), NEW s \in Seq(Tokens), Len(s) <= MaxEdges, NEW V
  PROVE  /\ Shaped(OverSources(w, s))
         /\ Own(w, V) /\ (\A i \in 1..Len(s) : s[i] \in V) => Own(OverSources(w, s), V)
<1>0. MaxEdges \in Nat
  BY WordLimits
<1>1. PICK a : a = Over(s, w.src)
  OBVIOUS
<1>2. PICK l \in Nat, o \in Nat : l = Len(s) /\ o = Len(w.src)
  BY ShapeOf, LenProperties
<1>3. /\ a \in Seq(Tokens) /\ Len(a) = (IF l < o THEN o ELSE l)
      /\ \A i \in 1..l : a[i] = s[i]
      /\ \A i \in 1..o : i > l => a[i] = w.src[i]
  <2>1. OverOf(a, s, w.src, Tokens)
    BY <1>1, ShapeOf, OverIs
  <2> QED BY <1>2, <2>1 DEF OverOf
<1>4. PICK u : u = [w EXCEPT !.src = a]
  OBVIOUS
<1>5. OverSources(w, s) = u
  BY <1>1, <1>4 DEF OverSources
<1>6. w \in Words
  BY ShapeOf
<1>7. u \in Words /\ u.src = a /\ u.dst = w.dst /\ u.cnt = w.cnt /\ u.n = w.n /\ u.ring = w.ring
  BY <1>3, <1>4, <1>6 DEF Words
<1>8. w.n \in Nat /\ w.n <= o /\ o <= MaxEdges /\ l <= MaxEdges
  BY <1>2, ShapeOf
<1>9. Shaped(u)
  <2>1. Holds(a, w.n)
    BY <1>0, <1>3, <1>8 DEF Holds
  <2> QED BY <1>7, <2>1 DEF Shaped
<1>10. ASSUME Own(w, V), \A i \in 1..l : s[i] \in V PROVE Own(u, V)
  <2>1. SUFFICES ASSUME NEW i \in 1..w.n PROVE a[i] \in V /\ w.dst[i] \in V
    BY <1>7 DEF Own
  <2>2. w.src[i] \in V /\ w.dst[i] \in V
    BY <1>10 DEF Own
  <2>3. CASE i <= l
    BY <1>3, <1>8, <1>10, <2>2, <2>3
  <2>4. CASE i > l
    <3>1. i \in 1..o
      BY <1>8
    <3> QED BY <1>3, <2>2, <2>4, <3>1
  <2> QED BY <1>2, <1>8, <2>3, <2>4
<1> QED BY <1>2, <1>5, <1>9, <1>10

\* The words f, read back over w with their number and their ring.
Loaded(w, f) == [OverEdges(w, f) EXCEPT !.ring = f.ring, !.n = f.n]

\* The words that were read back over others, with their number: they are those of the file.
LEMMA EdgesLoaded ==
  ASSUME NEW w, Shaped(w), NEW f, Shaped(f),
         Len(f.src) = f.n, Len(f.dst) = f.n, Len(f.cnt) = f.n, NEW u, u = Loaded(w, f)
  PROVE  Shaped(u) /\ (Once(f) => Once(u)) /\ \A V : Own(f, V) => Own(u, V)
<1>0. MaxEdges \in Nat
  BY WordLimits
<1>1. PICK a, b, c : a = Over(f.src, w.src) /\ b = Over(f.dst, w.dst) /\ c = Over(f.cnt, w.cnt)
  OBVIOUS
<1>2. PICK n : n = f.n
  OBVIOUS
<1>3. n \in Nat /\ n <= MaxEdges
  BY <1>2, ShapeOf
<1>4. a \in Seq(Tokens) /\ Holds(a, n) /\ \A i \in 1..n : a[i] = f.src[i]
  <2>1. OverOf(a, f.src, w.src, Tokens)
    BY <1>1, ShapeOf, OverIs
  <2>2. Len(w.src) \in Nat /\ Len(w.src) <= MaxEdges
    BY ShapeOf, LenProperties
  <2> QED BY <1>0, <1>2, <1>3, <2>1, <2>2 DEF OverOf, Holds
<1>5. b \in Seq(Tokens) /\ Holds(b, n) /\ \A i \in 1..n : b[i] = f.dst[i]
  <2>1. OverOf(b, f.dst, w.dst, Tokens)
    BY <1>1, ShapeOf, OverIs
  <2>2. Len(w.dst) \in Nat /\ Len(w.dst) <= MaxEdges
    BY ShapeOf, LenProperties
  <2> QED BY <1>0, <1>2, <1>3, <2>1, <2>2 DEF OverOf, Holds
<1>6. c \in Seq(Int) /\ Holds(c, n)
  <2>1. OverOf(c, f.cnt, w.cnt, Int)
    BY <1>1, ShapeOf, OverIs
  <2>2. Len(w.cnt) \in Nat /\ Len(w.cnt) <= MaxEdges
    BY ShapeOf, LenProperties
  <2> QED BY <1>0, <1>2, <1>3, <2>1, <2>2 DEF OverOf, Holds
<1>7. w \in Words /\ f.ring \in Seq(Tokens) /\ Len(f.ring) <= RingLen
  BY ShapeOf
<1>8. PICK r : r = f.ring
  OBVIOUS
<1>9. u = [w EXCEPT !.src = a, !.dst = b, !.cnt = c, !.ring = r, !.n = n]
  <2>1. OverEdges(w, f) = [w EXCEPT !.src = a, !.dst = b, !.cnt = c]
    BY <1>1 DEF OverEdges
  <2>2. u = [[w EXCEPT !.src = a, !.dst = b, !.cnt = c] EXCEPT !.ring = r, !.n = n]
    BY <1>2, <1>8, <2>1 DEF Loaded
  <2> QED BY <1>7, <2>2 DEF Words
<1>10. u \in Words /\ u.src = a /\ u.dst = b /\ u.cnt = c /\ u.n = n /\ u.ring = r
  BY <1>3, <1>4, <1>5, <1>6, <1>7, <1>8, <1>9 DEF Words
<1>11. Shaped(u)
  BY <1>3, <1>4, <1>5, <1>6, <1>7, <1>8, <1>10 DEF Shaped
<1>12. (Once(f) => Once(u)) /\ \A V : Own(f, V) => Own(u, V)
  BY <1>2, <1>4, <1>5, <1>10 DEF Once, Own
<1> QED BY <1>11, <1>12

\* Only the ring is another one.
LEMMA RingLoaded ==
  ASSUME NEW w, Shaped(w), NEW r \in Seq(Tokens), Len(r) <= RingLen, NEW u, u = [w EXCEPT !.ring = r]
  PROVE  Shaped(u) /\ (Once(w) => Once(u)) /\ \A V : Own(w, V) => Own(u, V)
<1>1. w \in Words
  BY ShapeOf
<1>2. u \in Words /\ u.src = w.src /\ u.dst = w.dst /\ u.cnt = w.cnt /\ u.n = w.n /\ u.ring = r
  BY <1>1 DEF Words
<1> QED BY <1>2 DEF Shaped, Once, Own

\* am_field_load: the words of the soma, or its sources over those there, or none.
LEMMA LoadSomaKeepsWords == ASSUME MakingInv, WordsInv, LoadSoma PROVE WordsInv'
<1>1. PICK p : p = soma.part
  OBVIOUS
<1>2. UNCHANGED <<voice, soma, sidecar>>
  BY DEF LoadSoma
<1>3. Shaped(soma.words) /\ (~soma.mixed.words => Once(soma.words)) /\ Shaped(words)
  BY DEF WordsInv
<1>4. \A v \in Voices : Side(sidecar[v], Vocabulary[v])'
  BY <1>2 DEF WordsInv
<1>5. CASE p = "all"
  <2>1. words' = soma.words /\ own' = FALSE /\ mixed'.words = soma.mixed.words
    BY <1>1, <1>5 DEF LoadSoma
  <2> QED BY <1>2, <1>3, <1>4, <2>1 DEF WordsInv
<1>6. CASE p = "sources"
  <2>1. words' = OverSources(words, soma.words.src) /\ own' = FALSE /\ mixed'.words = TRUE
    BY <1>1, <1>6 DEF LoadSoma
  <2>2. soma.words.src \in Seq(Tokens) /\ Len(soma.words.src) <= MaxEdges
    BY <1>3, ShapeOf
  <2>3. Shaped(words')
    BY <1>3, <2>1, <2>2, SourcesLoaded
  <2> QED BY <1>2, <1>3, <1>4, <2>1, <2>3 DEF WordsInv
<1>7. CASE p # "all" /\ p # "sources"
  <2>1. words' = words /\ (own' => own) /\ mixed'.words = mixed.words
    <3>1. words' = words
      BY <1>1, <1>7 DEF LoadSoma
    <3>2. mixed'.words = mixed.words
      BY <1>1, <1>7 DEF LoadSoma
    <3>3. own' = (own /\ p \notin {"sources", "all"})
      BY <1>1 DEF LoadSoma
    <3>4. own' => own
      BY <3>3, Zenon
    <3> QED BY <3>1, <3>2, <3>4
  <2> QED BY <1>2, <1>3, <1>4, <2>1 DEF WordsInv
<1> QED BY <1>5, <1>6, <1>7

\* am_field_save: the soma has the words, and their mark.
LEMMA SaveSomaKeepsWords == ASSUME MakingInv, WordsInv, SaveSoma PROVE WordsInv'
<1>1. UNCHANGED <<words, own, mixed, voice, sidecar>>
  BY DEF SaveSoma
<1>2. soma'.words = words /\ soma'.mixed = mixed
  <2>1. PICK p, k : soma' = [part |-> p, cut |-> k, field |-> field, gamma |-> gamma, words |-> words, mixed |-> mixed]
    BY DEF SaveSoma
  <2> QED BY <2>1
<1>3. mixed.words \in BOOLEAN
  BY DEF MakingInv, Makings
<1>4. Shaped(words) /\ (~mixed.words => Once(words))
  BY DEF WordsInv
<1> QED BY <1>1, <1>2, <1>3, <1>4 DEF WordsInv

\* am_cooc_load: all of the voice's own words, or those parts of them that were written.
LEMMA LoadSidecarKeepsWords == ASSUME MakingInv, WordsInv, LoadSidecar PROVE WordsInv'
<1>1. PICK f : f = sidecar[voice]
  OBVIOUS
<1>2. PICK V : V = Vocabulary[voice]
  OBVIOUS
<1>3. UNCHANGED <<voice, soma, sidecar>>
  BY DEF LoadSidecar
<1>4. Side(f, V)
  BY <1>1, <1>2 DEF WordsInv, MakingInv
<1>5. Shaped(words) /\ (~mixed.words => Once(words)) /\ (own => Own(words, V))
  BY <1>2 DEF WordsInv
<1>6. /\ Shaped(soma.words)' /\ (~soma.mixed.words => Once(soma.words))'
      /\ (\A v \in Voices : Side(sidecar[v], Vocabulary[v]))'
  BY <1>3 DEF WordsInv
<1>7. /\ f.part \in SideParts /\ Shaped(f.words)
      /\ Len(f.words.src) = f.words.n /\ Len(f.words.dst) = f.words.n /\ Len(f.words.cnt) = f.words.n
      /\ (~f.mixed => Once(f.words)) /\ (f.own => Own(f.words, V))
  BY <1>4 DEF Side
<1>8. f.words.ring \in Seq(Tokens) /\ Len(f.words.ring) <= RingLen
  BY <1>7, ShapeOf
<1>9. SUFFICES Shaped(words') /\ (~mixed'.words => Once(words')) /\ (own' => Own(words', V))
  BY <1>2, <1>3, <1>6 DEF WordsInv
<1>10. mixed \in [field : BOOLEAN, gamma : BOOLEAN, words : BOOLEAN]
  BY DEF MakingInv, Makings
<1>11. CASE f.part \in {"none", "head", "ring"}
  <2>1. (own' => own) /\ (~mixed'.words => ~mixed.words)
    <3>1. own' = IF f.part = "all" THEN f.own ELSE own /\ (f.part # "sources" \/ f.own)
      BY <1>1 DEF LoadSidecar
    <3>2. f.part # "all"
      BY <1>11
    <3>3. own' = (own /\ (f.part # "sources" \/ f.own))
      BY <3>1, <3>2, Zenon
    <3>4. own' => own
      BY <3>3, Zenon
    <3>5. mixed' = [mixed EXCEPT !.words = IF f.part = "all" THEN f.mixed ELSE @ \/ f.part = "sources"]
      BY <1>1 DEF LoadSidecar
    <3>6. PICK m : m = (mixed.words \/ f.part = "sources")
      OBVIOUS
    <3>7. mixed' = [mixed EXCEPT !.words = m]
      BY <3>2, <3>5, <3>6
    <3>8. mixed'.words = m
      BY <1>10, <3>7
    <3>9. ~m => ~mixed.words
      BY <3>6, Zenon
    <3> QED BY <3>4, <3>8, <3>9
  <2>2. CASE f.part \in {"none", "head"}
    <3>1. words' = words
      BY <1>1, <2>2 DEF LoadSidecar
    <3> QED BY <1>5, <2>1, <3>1
  <2>3. CASE f.part = "ring"
    <3>1. words' = [words EXCEPT !.ring = f.words.ring]
      BY <1>1, <2>3 DEF LoadSidecar
    <3>2. Shaped(words') /\ (Once(words) => Once(words')) /\ (Own(words, V) => Own(words', V))
      BY <1>5, <1>8, <3>1, RingLoaded
    <3> QED BY <1>5, <2>1, <3>2
  <2> QED BY <1>11, <2>2, <2>3
<1>12. CASE f.part = "sources"
  <2>1. words' = [OverSources(words, f.words.src) EXCEPT !.ring = f.words.ring]
    BY <1>1, <1>12 DEF LoadSidecar
  <2>2. own' = (own /\ f.own)
    <3>1. own' = IF f.part = "all" THEN f.own ELSE own /\ (f.part # "sources" \/ f.own)
      BY <1>1 DEF LoadSidecar
    <3> QED BY <1>12, <3>1
  <2>3. mixed'.words
    <3>1. mixed' = [mixed EXCEPT !.words = IF f.part = "all" THEN f.mixed ELSE @ \/ f.part = "sources"]
      BY <1>1 DEF LoadSidecar
    <3> QED BY <1>10, <1>12, <3>1
  <2>4. PICK u : u = OverSources(words, f.words.src)
    OBVIOUS
  <2>5. f.words.src \in Seq(Tokens) /\ Len(f.words.src) <= MaxEdges
    BY <1>7, ShapeOf
  <2>6. Shaped(u) /\ (Own(words, V) /\ (\A i \in 1..Len(f.words.src) : f.words.src[i] \in V) => Own(u, V))
    BY <1>5, <2>4, <2>5, SourcesLoaded
  <2>7. words' = [u EXCEPT !.ring = f.words.ring]
    BY <2>1, <2>4
  <2>8. Shaped(words') /\ (Own(u, V) => Own(words', V))
    BY <1>8, <2>6, <2>7, RingLoaded
  <2>9. f.own => \A i \in 1..Len(f.words.src) : f.words.src[i] \in V
    BY <1>7 DEF Own
  <2> QED BY <1>5, <2>2, <2>3, <2>6, <2>8, <2>9
<1>13. CASE f.part = "all"
  <2>1. words' = [OverEdges(words, f.words) EXCEPT !.ring = f.words.ring, !.n = f.words.n]
    BY <1>1, <1>13 DEF LoadSidecar
  <2>2. own' = f.own
    BY <1>1, <1>13 DEF LoadSidecar
  <2>3. mixed'.words = f.mixed
    <3>1. mixed' = [mixed EXCEPT !.words = IF f.part = "all" THEN f.mixed ELSE @ \/ f.part = "sources"]
      BY <1>1 DEF LoadSidecar
    <3> QED BY <1>10, <1>13, <3>1
  <2>4. Shaped(words') /\ (Once(f.words) => Once(words')) /\ (Own(f.words, V) => Own(words', V))
    <3>1. PICK g : g = f.words
      OBVIOUS
    <3>2. Shaped(g) /\ Len(g.src) = g.n /\ Len(g.dst) = g.n /\ Len(g.cnt) = g.n
      BY <1>7, <3>1
    <3>3. words' = Loaded(words, g)
      BY <2>1, <3>1 DEF Loaded
    <3>4. Shaped(words') /\ (Once(g) => Once(words')) /\ (Own(g, V) => Own(words', V))
      BY <1>5, <3>2, <3>3, EdgesLoaded, Zenon
    <3> QED BY <3>1, <3>4
  <2> QED BY <1>7, <2>2, <2>3, <2>4
<1> QED BY <1>7, <1>11, <1>12, <1>13 DEF SideParts

\* What is saved in a sidecar: the edges in use of each array.
LEMMA SideSaved ==
  ASSUME NEW w, Shaped(w),
         NEW u, u = [w EXCEPT !.src = SubSeq(@, 1, w.n), !.dst = SubSeq(@, 1, w.n), !.cnt = SubSeq(@, 1, w.n)]
  PROVE  /\ Shaped(u) /\ Len(u.src) = u.n /\ Len(u.dst) = u.n /\ Len(u.cnt) = u.n
         /\ Once(w) => Once(u)
         /\ \A V : Own(w, V) => Own(u, V)
<1>1. PICK n : n = w.n
  OBVIOUS
<1>2. /\ w \in Words /\ n \in Nat /\ n <= MaxEdges /\ w.src \in Seq(Tokens) /\ w.dst \in Seq(Tokens)
      /\ w.cnt \in Seq(Int)
      /\ n <= Len(w.src) /\ n <= Len(w.dst) /\ n <= Len(w.cnt)
  BY <1>1, ShapeOf
<1>3. ASSUME NEW S, NEW s \in Seq(S), n <= Len(s), NEW t, t = SubSeq(s, 1, n)
      PROVE  t \in Seq(S) /\ Len(t) = n /\ \A i \in 1..n : t[i] = s[i]
  <2>0. Len(s) \in Nat
    BY LenProperties
  <2>1. \A i \in 1..n : s[i] \in S
    BY <1>2, <1>3, <2>0, ElementOfSeq
  <2>2. 1 \in Int /\ n \in Int
    BY <1>2
  <2>3. /\ t \in Seq(S) /\ Len(t) = (IF 1 <= n THEN n - 1 + 1 ELSE 0)
        /\ \A i \in 1..(n - 1 + 1) : t[i] = s[1 + i - 1]
    BY <1>3, <2>1, <2>2, SubSeqProperties
  <2> QED BY <1>2, <2>3
<1>4. PICK a, b, c : a = SubSeq(w.src, 1, n) /\ b = SubSeq(w.dst, 1, n) /\ c = SubSeq(w.cnt, 1, n)
  OBVIOUS
<1>5. a \in Seq(Tokens) /\ Len(a) = n /\ \A i \in 1..n : a[i] = w.src[i]
  BY <1>2, <1>3, <1>4
<1>6. b \in Seq(Tokens) /\ Len(b) = n /\ \A i \in 1..n : b[i] = w.dst[i]
  BY <1>2, <1>3, <1>4
<1>7. c \in Seq(Int) /\ Len(c) = n
  BY <1>2, <1>3, <1>4
<1>8. u = [w EXCEPT !.src = a, !.dst = b, !.cnt = c]
  BY <1>1, <1>2, <1>4 DEF Words
<1>9. u \in Words /\ u.src = a /\ u.dst = b /\ u.cnt = c /\ u.n = n /\ u.ring = w.ring
  BY <1>1, <1>2, <1>5, <1>6, <1>7, <1>8 DEF Words
<1>10. Shaped(u)
  <2>1. Len(w.ring) <= RingLen
    BY ShapeOf
  <2> QED BY <1>2, <1>5, <1>6, <1>7, <1>9, <2>1 DEF Shaped, Holds
<1> QED BY <1>1, <1>5, <1>6, <1>7, <1>9, <1>10 DEF Once, Own

\* am_cooc_save: the sidecar of the voice has its words, and their marks.
LEMMA SaveSidecarKeepsWords == ASSUME MakingInv, WordsInv, SaveSidecar PROVE WordsInv'
<1>1. UNCHANGED <<words, own, mixed, voice, soma>>
  BY DEF SaveSidecar
<1>2. PICK w : w = [words EXCEPT !.src = SubSeq(@, 1, words.n), !.dst = SubSeq(@, 1, words.n),
                                 !.cnt = SubSeq(@, 1, words.n)]
  OBVIOUS
<1>3. PICK p \in SideParts \ {"none"} :
        sidecar' = [sidecar EXCEPT ![voice] = [part |-> p, words |-> w, own |-> own, mixed |-> mixed.words]]
  BY <1>2 DEF SaveSidecar
<1>4. PICK f : f = [part |-> p, words |-> w, own |-> own, mixed |-> mixed.words]
  OBVIOUS
<1>5. f.part = p /\ f.words = w /\ f.own = own /\ f.mixed = mixed.words
  BY <1>4
<1>6. Shaped(words) /\ (~mixed.words => Once(words)) /\ (own => Own(words, Vocabulary[voice]))
  BY DEF WordsInv
<1>7. /\ Shaped(w) /\ Len(w.src) = w.n /\ Len(w.dst) = w.n /\ Len(w.cnt) = w.n
      /\ Once(words) => Once(w)
      /\ \A V : Own(words, V) => Own(w, V)
  BY <1>2, <1>6, SideSaved
<1>8. Side(f, Vocabulary[voice])
  BY <1>5, <1>6, <1>7 DEF Side
<1>9. \A v \in Voices : sidecar'[v] = IF v = voice THEN f ELSE sidecar[v]
  BY <1>3, <1>4 DEF MakingInv
<1>10. \A v \in Voices : Side(sidecar'[v], Vocabulary[v])
  BY <1>8, <1>9 DEF WordsInv
<1>11. Shaped(soma.words) /\ (~soma.mixed.words => Once(soma.words))
  BY DEF WordsInv
<1> QED BY <1>1, <1>6, <1>10, <1>11 DEF WordsInv

\* am_ingest_tokens and am_cooc_consolidate keep the words as good as they were.
LEMMA TextKeepsWords == ASSUME MakingInv, WordsInv, Ingest \/ Consolidate PROVE WordsInv'
<1>1. UNCHANGED <<own, mixed, voice, soma, sidecar>>
  BY DEF Ingest, Consolidate
<1>2. PICK V : V = Vocabulary[voice]
  OBVIOUS
<1>3. V \subseteq Tokens
  BY <1>2 DEF MakingInv, Tokens
<1>4. Shaped(words) /\ (~mixed.words => Once(words)) /\ (own => Own(words, V))
  BY <1>2 DEF WordsInv
<1>5. AsGood(words, words', V)
  <2>1. CASE Ingest
    <3>1. PICK ids \in BoundedSeq(V, MaxText) : words' = Ingested(words, ids)
      BY <1>2, <2>1 DEF Ingest
    <3>2. ids \in Seq(V)
      <4>1. PICK m \in 0..MaxText : ids \in [1..m -> V]
        BY <3>1 DEF BoundedSeq, SeqOf
      <4>2. m \in Nat
        BY <4>1
      <4> QED BY <4>1, <4>2, SeqDef
    <3> QED BY <1>3, <1>4, <3>1, <3>2, IngestedIsGood
  <2>2. CASE Consolidate
    BY <1>4, <2>2, ConsolidatedIsGood DEF Consolidate
  <2> QED BY <2>1, <2>2
<1>6. Shaped(words') /\ (~mixed.words => Once(words')) /\ (own => Own(words', V))
  BY <1>4, <1>5 DEF AsGood
<1>7. /\ Shaped(soma.words) /\ (~soma.mixed.words => Once(soma.words))
      /\ \A v \in Voices : Side(sidecar[v], Vocabulary[v])
  BY DEF WordsInv
<1> QED BY <1>1, <1>2, <1>6, <1>7 DEF WordsInv

\* Every step keeps the invariant of the words.
LEMMA WordsInvNext == ASSUME MakingInv, WordsInv, [SomaStep]_SomaVars PROVE WordsInv'
<1>1. CASE UNCHANGED somaVars
  BY <1>1, WordsInvStays
<1>2. CASE UNCHANGED SomaVars
  BY <1>1, <1>2 DEF SomaVars
<1>3. CASE LoadSoma \/ SaveSoma \/ LoadSidecar \/ SaveSidecar
  BY <1>3, LoadSomaKeepsWords, SaveSomaKeepsWords, LoadSidecarKeepsWords, SaveSidecarKeepsWords
<1>4. CASE Restart
  <2>1. words' = EmptyWords /\ UNCHANGED <<soma, sidecar>>
    BY <1>4 DEF Restart
  <2>2. /\ Shaped(soma.words) /\ (~soma.mixed.words => Once(soma.words))
        /\ \A v \in Voices : Side(sidecar[v], Vocabulary[v])
    BY DEF WordsInv
  <2> QED BY <2>1, <2>2, NoWords DEF WordsInv
<1>5. CASE Ingest \/ Consolidate
  BY <1>5, TextKeepsWords
<1> QED BY <1>1, <1>2, <1>3, <1>4, <1>5 DEF SomaStep, SomaNext

(* The inductive invariant of the words: their shape, once and of one voice as far as their
   marks say, in the process and in every file. *)
THEOREM WordsInvariant == SomaSpec => [](MakingInv /\ WordsInv)
<1>1. FieldInit /\ SomaInit => MakingInv /\ WordsInv
  BY MakingInit, WordsInvInit
<1>2. MakingInv /\ WordsInv /\ [SomaStep]_SomaVars => (MakingInv /\ WordsInv)'
  BY MakingNext, WordsInvNext
<1> QED BY <1>1, <1>2, PTL DEF SomaSpec, SomaStep

(* Two words have one edge, and a voice its own words alone: through any texts, consolidations,
   saves and loads of files that end wherever a crash left them. *)
THEOREM WordsAreOwnAndOnceAlways == SomaSpec => []WordsAreOwnAndOnce
<1>1. WordsInv => WordsAreOwnAndOnce
  <2>1. SUFFICES ASSUME WordsInv PROVE WordsAreOwnAndOnce
    OBVIOUS
  <2>2. Shaped(words) /\ (~mixed.words => Once(words)) /\ (own => Own(words, Vocabulary[voice]))
    BY <2>1 DEF WordsInv
  <2>3. /\ words.n \in Nat /\ Len(words.ring) <= RingLen /\ words.n <= MaxEdges
        /\ words.n <= Len(words.src) /\ Len(words.src) <= MaxEdges
        /\ words.n <= Len(words.dst) /\ Len(words.dst) <= MaxEdges
        /\ words.n <= Len(words.cnt) /\ Len(words.cnt) <= MaxEdges
        /\ Len(words.src) \in Nat /\ Len(words.dst) \in Nat /\ Len(words.cnt) \in Nat
    BY <2>2, ShapeOf, LenProperties
  <2>4. {Len(words.src), Len(words.dst), Len(words.cnt)} \subseteq words.n..MaxEdges
    BY <2>3, WordLimits
  <2> QED BY <2>2, <2>3, <2>4 DEF WordsAreOwnAndOnce, Once, Own, Edges
<1> QED BY <1>1, WordsInvariant, PTL

-----------------------------------------------------------------------------
(* BLOOD, then PIPE and INDEX. *)

Module == [name : BloodNames \union {""}, text : AllTexts \union {<<>>}, open : BOOLEAN]

(* The types; row numbers below the count are rows. *)
BloodTypeOK ==
  /\ built \in [BloodRows -> Module] /\ builtN \in 0..MaxModulesBuilt
  /\ cc \in BOOLEAN /\ mapped \in [AllTexts -> Int]

(* No two rows have the same text loaded. *)
OneRow ==
  \A i, j \in BloodRows :
    /\ i < builtN /\ built[i].open /\ j < builtN /\ built[j].open
    /\ built[i].text = built[j].text
    => i = j

(* Each library is open as often as a row holds it. *)
CountsFollow == \A x \in AllTexts : mapped[x] = Cardinality(LoadedRows(x))

(* Every file is one of an open row. *)
FilesFollow == \A f \in files : \E j \in BloodRows : j < builtN /\ built[j].open /\ f \in FilesOf(j)

BloodInv == BloodTypeOK /\ OneRow /\ CountsFollow /\ FilesFollow

-----------------------------------------------------------------------------
(* The rows that hold a text are finitely many, and at most one. *)
LEMMA RowsAreOne ==
  ASSUME BloodTypeOK, NEW x
  PROVE  /\ LoadedRows(x) \subseteq BloodRows /\ IsFiniteSet(LoadedRows(x))
         /\ Cardinality(LoadedRows(x)) \in Nat
         /\ OneRow => Cardinality(LoadedRows(x)) <= 1
<1>1. IsFiniteSet(BloodRows)
  <2>1. MaxModulesBuilt \in Nat \ {0}
    BY BloodLimits
  <2>2. PICK m \in Int : m = MaxModulesBuilt - 1
    BY <2>1
  <2>3. IsFiniteSet(0..m)
    BY FS_Interval
  <2> QED BY <2>2, <2>3 DEF BloodRows
<1>2. LoadedRows(x) \subseteq BloodRows
  BY DEF LoadedRows
<1>3. IsFiniteSet(LoadedRows(x))
  BY <1>1, <1>2, FS_Subset
<1>4. Cardinality(LoadedRows(x)) \in Nat
  BY <1>3, FS_CardinalityType
<1>5. ASSUME OneRow PROVE Cardinality(LoadedRows(x)) <= 1
  <2>1. CASE LoadedRows(x) = {}
    <3>1. Cardinality({}) = 0
      BY FS_EmptySet
    <3> QED BY <2>1, <3>1
  <2>2. CASE LoadedRows(x) # {}
    <3>1. PICK i : i \in LoadedRows(x)
      BY <2>2
    <3>2. LoadedRows(x) = {i}
      BY <1>5, <3>1 DEF OneRow, LoadedRows
    <3>3. Cardinality({i}) = 1
      BY FS_Singleton
    <3> QED BY <3>2, <3>3
  <2> QED BY <2>1, <2>2
<1> QED BY <1>2, <1>3, <1>4, <1>5

-----------------------------------------------------------------------------
(* A new row: it is the only one that holds its text, and its files are its own. *)
LEMMA CompileKeeps ==
  ASSUME BloodInv, NEW n \in BloodNames, NEW x \in AllTexts, Compile(n, x)
  PROVE  BloodInv'
<1>0. /\ BloodTypeOK /\ OneRow /\ CountsFollow /\ FilesFollow
      /\ MaxModulesBuilt \in Nat \ {0}
      /\ builtN \in Nat /\ builtN < MaxModulesBuilt /\ LoadedRows(x) = {}
  <2>1. BloodTypeOK /\ OneRow /\ CountsFollow /\ FilesFollow
    BY DEF BloodInv
  <2>2. MaxModulesBuilt \in Nat \ {0}
    BY BloodLimits
  <2>3. builtN \in 0..MaxModulesBuilt
    BY <2>1 DEF BloodTypeOK
  <2>4. LoadedRows(x) = {} /\ ~ (builtN >= MaxModulesBuilt)
    BY DEF Compile, Refused
  <2> QED BY <2>1, <2>2, <2>3, <2>4
<1> DEFINE m == [name |-> n, text |-> x, open |-> TRUE]
<1>1. m \in Module /\ m.open /\ m.text = x /\ m.name = n
  BY DEF Module
<1>2. builtN \in BloodRows /\ (\A i \in BloodRows : i \in Nat)
  BY <1>0 DEF BloodRows
<1>3. /\ built' = [built EXCEPT ![builtN] = m] /\ builtN' = builtN + 1
      /\ mapped' = [mapped EXCEPT ![x] = @ + 1] /\ cc' = cc
      /\ files' = files \union {Source(n, x), Library(n, x)}
  BY DEF Compile
<1> HIDE DEF m
<1>4. /\ built \in [BloodRows -> Module] /\ mapped \in [AllTexts -> Int]
      /\ built'[builtN] = m
      /\ \A i \in BloodRows : i < builtN => built'[i] = built[i]
  BY <1>0, <1>2, <1>3 DEF BloodTypeOK
<1>5. \A i \in BloodRows : i < builtN' <=> i < builtN \/ i = builtN
  BY <1>0, <1>2, <1>3
<1>6. BloodTypeOK'
  <2>1. built' \in [BloodRows -> Module]
    BY <1>1, <1>3, <1>4
  <2>2. builtN' \in 0..MaxModulesBuilt
    BY <1>0, <1>3
  <2>3. mapped' \in [AllTexts -> Int]
    BY <1>3, <1>4
  <2> QED BY <1>0, <1>3, <2>1, <2>2, <2>3 DEF BloodTypeOK
<1>7. \A j \in BloodRows : j < builtN /\ built[j].open => built[j].text # x
  BY <1>0 DEF LoadedRows
<1>8. OneRow'
  <2>1. SUFFICES ASSUME NEW i \in BloodRows, NEW j \in BloodRows,
                        i < builtN', built'[i].open, j < builtN', built'[j].open,
                        built'[i].text = built'[j].text
                 PROVE  i = j
    BY DEF OneRow
  <2>2. CASE i < builtN /\ j < builtN
    BY <1>0, <1>4, <2>1, <2>2 DEF OneRow
  <2>3. CASE i < builtN /\ j = builtN
    BY <1>1, <1>4, <1>7, <2>1, <2>3
  <2>4. CASE i = builtN /\ j < builtN
    BY <1>1, <1>4, <1>7, <2>1, <2>4
  <2> QED BY <1>5, <2>1, <2>2, <2>3, <2>4
<1>9. CountsFollow'
  <2>1. SUFFICES ASSUME NEW y \in AllTexts PROVE mapped'[y] = Cardinality(LoadedRows(y)')
    BY DEF CountsFollow
  <2>2. mapped[y] = Cardinality(LoadedRows(y))
    BY <1>0 DEF CountsFollow
  <2>3. CASE y = x
    <3>1. LoadedRows(y)' = {builtN}
      BY <1>1, <1>2, <1>4, <1>5, <1>7, <2>3 DEF LoadedRows
    <3>2. Cardinality({builtN}) = 1 /\ Cardinality({}) = 0
      BY FS_Singleton, FS_EmptySet
    <3>3. mapped'[y] = mapped[y] + 1
      BY <1>3, <1>4, <2>3
    <3> QED BY <1>0, <2>2, <2>3, <3>1, <3>2, <3>3
  <2>4. CASE y # x
    <3>1. LoadedRows(y)' = LoadedRows(y)
      BY <1>1, <1>2, <1>4, <1>5, <2>4 DEF LoadedRows
    <3>2. mapped'[y] = mapped[y]
      BY <1>3, <1>4, <2>4
    <3> QED BY <2>2, <3>1, <3>2
  <2> QED BY <2>3, <2>4
<1>10. FilesFollow'
  <2>1. SUFFICES ASSUME NEW f \in files'
                 PROVE  \E j \in BloodRows : j < builtN' /\ built'[j].open /\ f \in FilesOf(j)'
    BY DEF FilesFollow
  <2>2. CASE f \in files
    <3>1. PICK j \in BloodRows : j < builtN /\ built[j].open /\ f \in FilesOf(j)
      BY <1>0, <2>2 DEF FilesFollow
    <3>2. FilesOf(j)' = FilesOf(j)
      BY <1>4, <3>1 DEF FilesOf
    <3> QED BY <1>4, <1>5, <3>1, <3>2
  <2>3. CASE f \notin files
    <3>1. f \in {Source(n, x), Library(n, x)}
      BY <1>3, <2>1, <2>3
    <3>2. PICK k \in BloodRows : k = builtN
      BY <1>2
    <3>3. built'[k].name = n /\ built'[k].text = x /\ built'[k].open /\ k < builtN'
      BY <1>1, <1>4, <1>5, <3>2
    <3>4. FilesOf(k)' = {Source(n, x), Library(n, x)}
      BY <3>3 DEF FilesOf
    <3> QED BY <3>1, <3>3, <3>4
  <2> QED BY <2>2, <2>3
<1> QED BY <1>6, <1>8, <1>9, <1>10 DEF BloodInv

-----------------------------------------------------------------------------
(* Steps that change no row and write no file: a failed or refused compilation. *)
LEMMA FewerFilesKeep ==
  ASSUME BloodInv, files' \subseteq files, UNCHANGED <<built, builtN, cc, mapped>>
  PROVE  BloodInv'
<1>1. BloodTypeOK /\ OneRow /\ CountsFollow /\ FilesFollow
  BY DEF BloodInv
<1>2. built' = built /\ builtN' = builtN /\ cc' = cc /\ mapped' = mapped
  OBVIOUS
<1>3. BloodTypeOK'
  BY <1>1, <1>2 DEF BloodTypeOK
<1>4. OneRow'
  BY <1>1, <1>2 DEF OneRow
<1>5. CountsFollow'
  BY <1>1, <1>2 DEF CountsFollow, LoadedRows
<1>6. FilesFollow'
  BY <1>1, <1>2 DEF FilesFollow, FilesOf
<1> QED BY <1>3, <1>4, <1>5, <1>6 DEF BloodInv

(* Rows that are unloaded, one that is there or all of them with the table emptied: what
   each text loses is what its rows lose, and the files go with their rows. *)
LEMMA UnloadedKeeps ==
  ASSUME BloodInv, NEW rows \in SUBSET BloodRows, Unloaded(rows), cc' \in BOOLEAN,
         \/ builtN' = builtN
         \/ builtN' = 0 /\ rows = {i \in BloodRows : i < builtN}
  PROVE  BloodInv'
<1>1. BloodTypeOK /\ OneRow /\ CountsFollow /\ FilesFollow /\ MaxModulesBuilt \in Nat \ {0}
  BY BloodLimits DEF BloodInv
<1>2. /\ built' = [i \in BloodRows |-> IF i \in rows THEN [built[i] EXCEPT !.open = FALSE] ELSE built[i]]
      /\ mapped' = [x \in AllTexts |-> mapped[x] - Cardinality(LoadedRows(x) \cap rows)]
      /\ files' = files \ UNION {FilesOf(i) : i \in rows}
  BY DEF Unloaded
<1>3. \A i \in BloodRows : i \in Nat
  <2>1. MaxModulesBuilt - 1 \in Int
    BY <1>1
  <2> QED BY <2>1 DEF BloodRows
<1>4. builtN \in Nat /\ builtN \in 0..MaxModulesBuilt /\ built \in [BloodRows -> Module] /\ mapped \in [AllTexts -> Int]
  <2>1. builtN \in 0..MaxModulesBuilt /\ built \in [BloodRows -> Module] /\ mapped \in [AllTexts -> Int]
    BY <1>1 DEF BloodTypeOK
  <2> QED BY <1>1, <2>1
<1>5. \A i \in BloodRows : /\ built'[i] \in Module /\ built'[i].text = built[i].text
                           /\ built'[i].name = built[i].name
                           /\ built'[i].open <=> built[i].open /\ i \notin rows
  <2>1. SUFFICES ASSUME NEW i \in BloodRows
                 PROVE  /\ built'[i] \in Module /\ built'[i].text = built[i].text
                        /\ built'[i].name = built[i].name
                        /\ built'[i].open <=> built[i].open /\ i \notin rows
    OBVIOUS
  <2>2. built[i] \in Module
    BY <1>4
  <2>3. built'[i] = IF i \in rows THEN [built[i] EXCEPT !.open = FALSE] ELSE built[i]
    BY <1>2
  <2> QED BY <2>2, <2>3 DEF Module
<1>6. \A i \in BloodRows : i < builtN' /\ built'[i].open <=> i < builtN /\ built[i].open /\ i \notin rows
  <2>1. CASE builtN' = builtN
    BY <1>5, <2>1
  <2>2. CASE builtN' = 0 /\ rows = {i \in BloodRows : i < builtN}
    BY <1>3, <2>2
  <2> QED BY <2>1, <2>2
<1>7. BloodTypeOK'
  <2>1. built' \in [BloodRows -> Module]
    BY <1>2, <1>5
  <2>2. builtN' \in 0..MaxModulesBuilt
    BY <1>1, <1>4
  <2>3. \A x \in AllTexts : mapped[x] - Cardinality(LoadedRows(x) \cap rows) \in Int
    <3>1. SUFFICES ASSUME NEW x \in AllTexts PROVE mapped[x] - Cardinality(LoadedRows(x) \cap rows) \in Int
      OBVIOUS
    <3>2. IsFiniteSet(LoadedRows(x))
      BY <1>1, RowsAreOne
    <3>3. Cardinality(LoadedRows(x) \cap rows) \in Nat
      BY <3>2, FS_Intersection, FS_CardinalityType
    <3>4. mapped[x] \in Int
      BY <1>4
    <3> QED BY <3>3, <3>4
  <2>4. mapped' \in [AllTexts -> Int]
    BY <1>2, <2>3
  <2> QED BY <2>1, <2>2, <2>4 DEF BloodTypeOK
<1>8. OneRow'
  BY <1>1, <1>5, <1>6 DEF OneRow
<1>9. CountsFollow'
  <2>1. SUFFICES ASSUME NEW x \in AllTexts PROVE mapped'[x] = Cardinality(LoadedRows(x)')
    BY DEF CountsFollow
  <2>2. LoadedRows(x)' = LoadedRows(x) \ rows
    BY <1>5, <1>6 DEF LoadedRows
  <2>3. IsFiniteSet(LoadedRows(x)) /\ Cardinality(LoadedRows(x)) \in Nat
    BY <1>1, RowsAreOne
  <2>4. Cardinality(LoadedRows(x) \ rows) = Cardinality(LoadedRows(x)) - Cardinality(LoadedRows(x) \cap rows)
    BY <2>3, FS_Difference
  <2>5. mapped[x] = Cardinality(LoadedRows(x))
    BY <1>1 DEF CountsFollow
  <2>6. mapped'[x] = mapped[x] - Cardinality(LoadedRows(x) \cap rows)
    BY <1>2
  <2> QED BY <2>2, <2>4, <2>5, <2>6
<1>10. FilesFollow'
  <2>1. SUFFICES ASSUME NEW f \in files'
                 PROVE  \E j \in BloodRows : j < builtN' /\ built'[j].open /\ f \in FilesOf(j)'
    BY DEF FilesFollow
  <2>2. f \in files /\ \A i \in rows : f \notin FilesOf(i)
    BY <1>2, <2>1
  <2>3. PICK j \in BloodRows : j < builtN /\ built[j].open /\ f \in FilesOf(j)
    BY <1>1, <2>2 DEF FilesFollow
  <2>4. j \notin rows
    BY <2>2, <2>3
  <2>5. FilesOf(j)' = FilesOf(j)
    BY <1>5, <2>3 DEF FilesOf
  <2> QED BY <1>6, <2>3, <2>4, <2>5
<1> QED BY <1>7, <1>8, <1>9, <1>10 DEF BloodInv

-----------------------------------------------------------------------------
(* No row is loaded and no file is there when the process starts. *)
LEMMA BloodInvInit == BloodStart => BloodInv
<1> SUFFICES ASSUME BloodStart PROVE BloodInv
  OBVIOUS
<1>1. /\ built = [i \in BloodRows |-> NoModule] /\ builtN = 0 /\ cc \in BOOLEAN
      /\ files = {} /\ mapped = [x \in AllTexts |-> 0]
  BY DEF BloodStart
<1>2. MaxModulesBuilt \in Nat \ {0}
  BY BloodLimits
<1>3. NoModule \in Module /\ ~ NoModule.open
  BY DEF NoModule, Module
<1>4. \A i \in BloodRows : ~ built[i].open
  BY <1>1, <1>3
<1>5. BloodTypeOK
  <2>1. 0 \in 0..MaxModulesBuilt /\ 0 \in Int
    BY <1>2
  <2> QED BY <1>1, <1>3, <2>1 DEF BloodTypeOK
<1>6. OneRow
  BY <1>4 DEF OneRow
<1>7. CountsFollow
  <2>1. \A x \in AllTexts : LoadedRows(x) = {}
    BY <1>4 DEF LoadedRows
  <2>2. Cardinality({}) = 0
    BY FS_EmptySet
  <2> QED BY <1>1, <2>1, <2>2 DEF CountsFollow
<1>8. FilesFollow
  BY <1>1 DEF FilesFollow
<1> QED BY <1>5, <1>6, <1>7, <1>8 DEF BloodInv

(* Every call of BLOOD keeps the invariant. *)
LEMMA BloodInvNext == BloodInv /\ [BloodNext]_bloodVars => BloodInv'
<1> SUFFICES ASSUME BloodInv, [BloodNext]_bloodVars PROVE BloodInv'
  OBVIOUS
<1>1. cc \in BOOLEAN /\ builtN \in 0..MaxModulesBuilt /\ MaxModulesBuilt \in Nat \ {0}
  BY BloodLimits DEF BloodInv, BloodTypeOK
<1>2. \A i \in BloodRows : i \in Nat
  <2>1. MaxModulesBuilt - 1 \in Int
    BY <1>1
  <2> QED BY <2>1 DEF BloodRows
<1>3. ASSUME NEW n \in BloodNames \union {""}, NEW x, Build(n, x), n # "" => x \in AllTexts
      PROVE  BloodInv'
  <2>1. CASE CompileFails(n, x)
    <3>1. files' \subseteq files /\ UNCHANGED <<built, builtN, cc, mapped>>
      BY <2>1 DEF CompileFails
    <3> QED BY <3>1, FewerFilesKeep
  <2>2. CASE Compile(n, x)
    <3>1. n # ""
      BY <2>2 DEF Compile, Refused
    <3>2. n \in BloodNames /\ x \in AllTexts
      BY <1>3, <3>1
    <3> QED BY <2>2, <3>2, CompileKeeps
  <2>3. CASE CompileNothing(n, x)
    <3>1. files' \subseteq files /\ UNCHANGED <<built, builtN, cc, mapped>>
      BY <2>3 DEF CompileNothing, bloodVars
    <3> QED BY <3>1, FewerFilesKeep
  <2> QED BY <1>3, <2>1, <2>2, <2>3 DEF Build
<1>4. ASSUME NEW i \in BloodRows, Unload(i) PROVE BloodInv'
  <2>1. Unloaded({i}) /\ builtN' = builtN /\ cc' \in BOOLEAN /\ {i} \in SUBSET BloodRows
    BY <1>1, <1>4 DEF Unload
  <2> QED BY <2>1, UnloadedKeeps
<1>5. ASSUME NEW n \in BloodNames, UnloadNamed(n) PROVE BloodInv'
  <2> DEFINE rows == {i \in BloodRows : i < builtN /\ built[i].name = n}
  <2>1. rows # {} /\ Unload(Min(rows))
    BY <1>5 DEF UnloadNamed
  <2>2. rows \subseteq Nat
    BY <1>2
  <2>3. Min(rows) \in rows
    BY <2>1, <2>2, MinIsLeast
  <2>4. Min(rows) \in BloodRows
    BY <2>3
  <2> HIDE DEF rows
  <2> QED BY <1>4, <2>1, <2>4
<1>6. CASE Cleanup \/ BloodInit
  <2> DEFINE rows == {i \in BloodRows : i < builtN}
  <2>1. Unloaded(rows) /\ builtN' = 0 /\ cc' \in BOOLEAN
    BY <1>1, <1>6 DEF Cleanup, BloodInit
  <2>2. rows \in SUBSET BloodRows /\ rows = {i \in BloodRows : i < builtN}
    OBVIOUS
  <2> HIDE DEF rows
  <2> QED BY <2>1, <2>2, UnloadedKeeps
<1>7. CASE UNCHANGED bloodVars
  <2>1. files' \subseteq files /\ UNCHANGED <<built, builtN, cc, mapped>>
    BY <1>7 DEF bloodVars
  <2> QED BY <2>1, FewerFilesKeep
<1>8. ASSUME NEW n \in BloodNames \union {""}, NEW x \in Texts, Build(n, <<x, "">>) PROVE BloodInv'
  <2>1. <<x, "">> \in AllTexts
    BY DEF AllTexts
  <2> QED BY <1>3, <1>8, <2>1
<1>9. ASSUME NEW n \in BloodNames \union {""}, NEW k \in Generated, n # "", Build(n, <<k, n>>) PROVE BloodInv'
  <2>1. <<k, n>> \in AllTexts
    BY <1>9 DEF AllTexts
  <2> QED BY <1>3, <1>9, <2>1
<1> QED BY <1>4, <1>5, <1>6, <1>7, <1>8, <1>9 DEF BloodNext

(* The inductive invariant of BLOOD: one row per loaded text, counts and files with them. *)
THEOREM BloodInvariant == BloodSpec => []BloodInv
BY BloodInvInit, BloodInvNext, PTL DEF BloodSpec

(* What run Async checks on a small table: a library is open exactly while one row holds
   it, never twice, and every file belongs to an open row. *)
THEOREM LibrariesHeld == BloodSpec => []LibrariesFollowRows
<1>1. BloodInv => LibrariesFollowRows
  <2> SUFFICES ASSUME BloodInv PROVE LibrariesFollowRows
    OBVIOUS
  <2>1. BloodTypeOK /\ OneRow /\ CountsFollow /\ FilesFollow
    BY DEF BloodInv
  <2>2. ASSUME NEW x \in AllTexts PROVE mapped[x] = Cardinality(LoadedRows(x)) /\ mapped[x] <= 1
    <3>1. mapped[x] = Cardinality(LoadedRows(x))
      BY <2>1 DEF CountsFollow
    <3>2. Cardinality(LoadedRows(x)) <= 1
      BY <2>1, RowsAreOne
    <3> QED BY <3>1, <3>2
  <2>3. files \subseteq UNION {FilesOf(i) : i \in {j \in BloodRows : j < builtN /\ built[j].open}}
    BY <2>1 DEF FilesFollow
  <2> QED BY <2>2, <2>3 DEF LibrariesFollowRows
<1> QED BY <1>1, BloodInvariant, PTL

-----------------------------------------------------------------------------
PipeMessages == Messages \union {None}
Pipe == [name : PipeNames \union {<<>>}, path : FifoPaths \union {<<>>}, fd : PipeFds \union {None},
         mode : {"read", "write"}, active : BOOLEAN]
HostStates == [pipes : [PipeSlots -> Pipe], count : 0..MaxPipes, fds : [PipeFds -> Nat], last : Int, value : Int]
Fifos == [path : FifoPaths, content : Seq(PipeMessages)]

PipesTypeOK ==
  /\ io \in HostStates /\ fifo \in Seq(Fifos) /\ named \in [FifoPaths -> Nat]
  /\ node \subseteq DOMAIN fifo /\ pipeCalls \in Nat

(* What is found at a path is a FIFO made there. *)
NamesLead(f, at) == \A p \in FifoPaths : at[p] # 0 => at[p] \in DOMAIN f /\ f[at[p]].path = p

(* The host's table h over the FIFOs f: rows beyond the count are unused, an open
   descriptor has a pipe, a pipe has an open descriptor to a FIFO made at its path, none
   that is newer than the one found there, and no two share a name or a descriptor. *)
Leads(h, f, at) ==
  /\ \A s \in PipeSlots : s >= h.count => ~h.pipes[s].active
  /\ \A d \in PipeFds : h.fds[d] # 0 => \E s \in PipeSlots : h.pipes[s].active /\ h.pipes[s].fd = d
  /\ \A s \in PipeSlots : h.pipes[s].active =>
       /\ h.pipes[s].fd \in PipeFds /\ h.pipes[s].path \in FifoPaths
       /\ h.fds[h.pipes[s].fd] \in DOMAIN f
       /\ f[h.fds[h.pipes[s].fd]].path = h.pipes[s].path
       /\ at[h.pipes[s].path] = 0 \/ at[h.pipes[s].path] >= h.fds[h.pipes[s].fd]
  /\ \A s, t \in PipeSlots :
       /\ h.pipes[s].active /\ h.pipes[t].active
       /\ h.pipes[s].fd = h.pipes[t].fd \/ h.pipes[s].name = h.pipes[t].name
       => s = t

PipesInv == PipesTypeOK /\ NamesLead(fifo, named) /\ Leads(io, fifo, named)

-----------------------------------------------------------------------------
(* The invariant says what PipesLeadToTheirPath says. *)
LEMMA LeadsTells == PipesInv => PipesLeadToTheirPath
<1> SUFFICES ASSUME PipesInv PROVE PipesLeadToTheirPath
  OBVIOUS
<1>0. /\ Leads(io, fifo, named) /\ MaxPipes \in Nat \ {0}
      /\ io.pipes \in [PipeSlots -> Pipe] /\ io.count \in 0..MaxPipes /\ io.fds \in [PipeFds -> Nat]
      /\ named \in [FifoPaths -> Nat]
  BY PipeLimits DEF PipesInv, PipesTypeOK, HostStates
<1>1. \A s \in PipeSlots : s \in Nat
  BY <1>0 DEF PipeSlots
<1>2. \A s : s \in InUse(io) <=> s \in PipeSlots /\ io.pipes[s].active
  BY <1>0, <1>1 DEF Leads, InUse
<1>3. ASSUME NEW d \in PipeFds, io.fds[d] # 0
      PROVE  Cardinality({s \in InUse(io) : io.pipes[s].fd = d}) = 1
  <2>1. PICK s \in PipeSlots : io.pipes[s].active /\ io.pipes[s].fd = d
    BY <1>0, <1>3 DEF Leads
  <2>2. {t \in InUse(io) : io.pipes[t].fd = d} = {s}
    BY <1>0, <1>2, <2>1 DEF Leads
  <2>3. Cardinality({s}) = 1
    BY FS_Singleton
  <2> QED BY <2>2, <2>3
<1>4. ASSUME NEW s \in InUse(io)
      PROVE  LET p == io.pipes[s] IN
             /\ Holding(io, p.name) = {s} /\ io.fds[p.fd] # 0 /\ fifo[io.fds[p.fd]].path = p.path
             /\ named[p.path] \in {0, io.fds[p.fd]} \/ named[p.path] > io.fds[p.fd]
  <2>1. s \in PipeSlots /\ io.pipes[s].active
    BY <1>2, <1>4
  <2>2. Holding(io, io.pipes[s].name) = {s}
    BY <1>0, <1>2, <2>1 DEF Holding, Leads
  <2>3. /\ io.pipes[s].fd \in PipeFds /\ io.pipes[s].path \in FifoPaths
        /\ io.fds[io.pipes[s].fd] \in DOMAIN fifo
        /\ fifo[io.fds[io.pipes[s].fd]].path = io.pipes[s].path
        /\ named[io.pipes[s].path] = 0 \/ named[io.pipes[s].path] >= io.fds[io.pipes[s].fd]
    BY <1>0, <2>1 DEF Leads
  <2>4. fifo \in Seq(Fifos)
    BY DEF PipesInv, PipesTypeOK
  <2>5. io.fds[io.pipes[s].fd] # 0
    BY <2>3, <2>4
  <2>6. named[io.pipes[s].path] \in Nat /\ io.fds[io.pipes[s].fd] \in Nat
    BY <1>0, <2>3
  <2>7. named[io.pipes[s].path] \in {0, io.fds[io.pipes[s].fd]} \/ named[io.pipes[s].path] > io.fds[io.pipes[s].fd]
    BY <2>3, <2>6
  <2> QED BY <2>2, <2>3, <2>5, <2>7
<1> QED BY <1>3, <1>4 DEF PipesLeadToTheirPath

-----------------------------------------------------------------------------
(* FIFOs that keep their paths, more of them, and paths that lead to none or to a newer
   one than any before leave the table right. *)
LEMMA PathsKeep ==
  ASSUME NEW h \in HostStates, NEW f \in Seq(Fifos), NEW g \in Seq(Fifos),
         NEW at \in [FifoPaths -> Nat], NEW bt \in [FifoPaths -> Nat],
         Leads(h, f, at), Len(g) >= Len(f),
         \A i \in DOMAIN f : g[i].path = f[i].path,
         \A p \in FifoPaths : bt[p] = at[p] \/ bt[p] = 0 \/ bt[p] > Len(f)
  PROVE  Leads(h, g, bt)
<1>0. h.fds \in [PipeFds -> Nat] /\ Len(f) \in Nat /\ Len(g) \in Nat /\ DOMAIN f = 1..Len(f) /\ DOMAIN g = 1..Len(g)
  BY DEF HostStates
<1>1. ASSUME NEW s \in PipeSlots, h.pipes[s].active
      PROVE  /\ h.pipes[s].fd \in PipeFds /\ h.pipes[s].path \in FifoPaths
             /\ h.fds[h.pipes[s].fd] \in DOMAIN g
             /\ g[h.fds[h.pipes[s].fd]].path = h.pipes[s].path
             /\ bt[h.pipes[s].path] = 0 \/ bt[h.pipes[s].path] >= h.fds[h.pipes[s].fd]
  <2>1. /\ h.pipes[s].fd \in PipeFds /\ h.pipes[s].path \in FifoPaths
        /\ h.fds[h.pipes[s].fd] \in DOMAIN f
        /\ f[h.fds[h.pipes[s].fd]].path = h.pipes[s].path
        /\ at[h.pipes[s].path] = 0 \/ at[h.pipes[s].path] >= h.fds[h.pipes[s].fd]
    BY <1>1 DEF Leads
  <2>2. PICK n \in Nat : n = h.fds[h.pipes[s].fd]
    BY <1>0, <2>1
  <2>3. PICK q \in FifoPaths : q = h.pipes[s].path
    BY <2>1
  <2>4. n \in 1..Len(f) /\ f[n].path = q /\ (at[q] = 0 \/ at[q] >= n)
    BY <1>0, <2>1, <2>2, <2>3
  <2>5. n \in 1..Len(g) /\ g[n].path = q
    BY <1>0, <2>4
  <2>6. at[q] \in Nat /\ bt[q] \in Nat /\ (bt[q] = at[q] \/ bt[q] = 0 \/ bt[q] > Len(f))
    OBVIOUS
  <2>7. bt[q] = 0 \/ bt[q] >= n
    BY <1>0, <2>4, <2>6
  <2> QED BY <1>0, <2>1, <2>2, <2>3, <2>5, <2>7
<1> QED BY <1>1 DEF Leads

(* A pipe that is closed with its descriptor. *)
LEMMA DropKeeps ==
  ASSUME NEW h \in HostStates, NEW g \in HostStates, NEW f, NEW at, Leads(h, f, at),
         NEW s \in PipeSlots, h.pipes[s].active, g.count = h.count,
         ~g.pipes[s].active, \A t \in PipeSlots : t # s => g.pipes[t] = h.pipes[t],
         g.fds[h.pipes[s].fd] = 0, \A d \in PipeFds : d # h.pipes[s].fd => g.fds[d] = h.fds[d]
  PROVE  Leads(g, f, at)
<1>1. \A t \in PipeSlots : g.pipes[t].active => t # s /\ h.pipes[t].active /\ g.pipes[t] = h.pipes[t]
  OBVIOUS
<1>2. \A t \in PipeSlots : g.pipes[t].active => h.pipes[t].fd # h.pipes[s].fd /\ h.pipes[t].fd \in PipeFds
  BY <1>1 DEF Leads
<1>3. \A t \in PipeSlots : g.pipes[t].active => g.fds[g.pipes[t].fd] = h.fds[h.pipes[t].fd]
  BY <1>1, <1>2
<1>4. \A t \in PipeSlots : t >= g.count => ~g.pipes[t].active
  BY <1>1 DEF Leads
<1>5. ASSUME NEW d \in PipeFds, g.fds[d] # 0
      PROVE  \E t \in PipeSlots : g.pipes[t].active /\ g.pipes[t].fd = d
  <2>1. d # h.pipes[s].fd /\ h.fds[d] # 0
    BY <1>5
  <2>2. PICK t \in PipeSlots : h.pipes[t].active /\ h.pipes[t].fd = d
    BY <2>1 DEF Leads
  <2> QED BY <2>1, <2>2
<1>6. ASSUME NEW t \in PipeSlots, g.pipes[t].active
      PROVE  /\ g.pipes[t].fd \in PipeFds /\ g.pipes[t].path \in FifoPaths
             /\ g.fds[g.pipes[t].fd] \in DOMAIN f
             /\ f[g.fds[g.pipes[t].fd]].path = g.pipes[t].path
             /\ at[g.pipes[t].path] = 0 \/ at[g.pipes[t].path] >= g.fds[g.pipes[t].fd]
  BY <1>1, <1>3, <1>6 DEF Leads
<1>7. \A t, u \in PipeSlots :
       /\ g.pipes[t].active /\ g.pipes[u].active
       /\ g.pipes[t].fd = g.pipes[u].fd \/ g.pipes[t].name = g.pipes[u].name
       => t = u
  BY <1>1 DEF Leads
<1> QED BY <1>4, <1>5, <1>6, <1>7 DEF Leads

(* A pipe that is opened under a new name, with a descriptor that was closed. *)
LEMMA AddKeeps ==
  ASSUME NEW h \in HostStates, NEW g \in HostStates, NEW f, NEW at, Leads(h, f, at),
         NEW s \in PipeSlots, ~h.pipes[s].active, g.pipes[s].active, g.count >= h.count, s < g.count,
         \A t \in PipeSlots : t # s => g.pipes[t] = h.pipes[t],
         NEW fd \in PipeFds, h.fds[fd] = 0, g.pipes[s].fd = fd, g.pipes[s].path \in FifoPaths,
         \A d \in PipeFds : d # fd => g.fds[d] = h.fds[d],
         g.fds[fd] \in DOMAIN f, f[g.fds[fd]].path = g.pipes[s].path, at[g.pipes[s].path] = g.fds[fd],
         g.fds[fd] \in Nat, 0 \notin DOMAIN f,
         \A t \in PipeSlots : h.pipes[t].active => h.pipes[t].name # g.pipes[s].name
  PROVE  Leads(g, f, at)
<1>0. h.count \in Nat /\ g.count \in Nat /\ \A t \in PipeSlots : t \in Int
  BY DEF HostStates, PipeSlots
<1>1. \A t \in PipeSlots : t # s /\ g.pipes[t].active => h.pipes[t].active /\ g.pipes[t] = h.pipes[t]
  OBVIOUS
<1>2. \A t \in PipeSlots : h.pipes[t].active => h.pipes[t].fd # fd /\ h.pipes[t].fd \in PipeFds /\ t # s
  BY DEF Leads
<1>3. \A t \in PipeSlots : t # s /\ g.pipes[t].active => g.fds[g.pipes[t].fd] = h.fds[h.pipes[t].fd]
  BY <1>1, <1>2
<1>4. \A t \in PipeSlots : t >= g.count => ~g.pipes[t].active
  <2> TAKE t \in PipeSlots
  <2>1. t >= g.count => t # s /\ t >= h.count
    BY <1>0
  <2> QED BY <1>1, <2>1 DEF Leads
<1>5. ASSUME NEW d \in PipeFds, g.fds[d] # 0
      PROVE  \E t \in PipeSlots : g.pipes[t].active /\ g.pipes[t].fd = d
  <2>1. CASE d = fd
    BY <1>5, <2>1
  <2>2. CASE d # fd
    <3>1. h.fds[d] # 0
      BY <1>5, <2>2
    <3>2. PICK t \in PipeSlots : h.pipes[t].active /\ h.pipes[t].fd = d
      BY <3>1 DEF Leads
    <3> QED BY <1>2, <3>2
  <2> QED BY <2>1, <2>2
<1>6. ASSUME NEW t \in PipeSlots, g.pipes[t].active
      PROVE  /\ g.pipes[t].fd \in PipeFds /\ g.pipes[t].path \in FifoPaths
             /\ g.fds[g.pipes[t].fd] \in DOMAIN f
             /\ f[g.fds[g.pipes[t].fd]].path = g.pipes[t].path
             /\ at[g.pipes[t].path] = 0 \/ at[g.pipes[t].path] >= g.fds[g.pipes[t].fd]
  <2>1. CASE t = s
    <3>1. at[g.pipes[t].path] >= g.fds[g.pipes[t].fd]
      BY <2>1
    <3> QED BY <2>1, <3>1
  <2>2. CASE t # s
    BY <1>1, <1>3, <1>6, <2>2 DEF Leads
  <2> QED BY <2>1, <2>2
<1>7. ASSUME NEW t \in PipeSlots, NEW u \in PipeSlots, g.pipes[t].active, g.pipes[u].active,
             g.pipes[t].fd = g.pipes[u].fd \/ g.pipes[t].name = g.pipes[u].name
      PROVE  t = u
  <2>1. t # s => u # s
    BY <1>1, <1>2, <1>7
  <2>2. u # s => t # s
    BY <1>1, <1>2, <1>7
  <2>3. t # s /\ u # s => t = u
    BY <1>1, <1>7 DEF Leads
  <2> QED BY <2>1, <2>2, <2>3
<1> QED BY <1>4, <1>5, <1>6, <1>7 DEF Leads

-----------------------------------------------------------------------------
(* As many descriptors as pipes: while a pipe is unused one of them is closed. *)
LEMMA DescriptorIsLeft ==
  ASSUME NEW h \in HostStates, NEW f, NEW at, Leads(h, f, at), NEW s \in PipeSlots, ~h.pipes[s].active
  PROVE  \E d \in PipeFds : h.fds[d] = 0
<1> SUFFICES ASSUME \A d \in PipeFds : h.fds[d] # 0 PROVE FALSE
  OBVIOUS
<1>0. PICK m \in Nat : m = MaxPipes /\ m > 0
  BY PipeLimits
<1>1. IsFiniteSet(PipeFds) /\ Cardinality(PipeFds) = m
  <2>1. PipeFds = 3..(m + 2)
    BY <1>0 DEF PipeFds
  <2>2. IsFiniteSet(3..(m + 2)) /\ Cardinality(3..(m + 2)) = IF 3 > m + 2 THEN 0 ELSE (m + 2) - 3 + 1
    BY FS_Interval
  <2> QED BY <1>0, <2>1, <2>2
<1>2. IsFiniteSet(PipeSlots) /\ Cardinality(PipeSlots) = m
  <2>1. PipeSlots = 0..(m - 1)
    BY <1>0 DEF PipeSlots
  <2>2. IsFiniteSet(0..(m - 1)) /\ Cardinality(0..(m - 1)) = IF 0 > m - 1 THEN 0 ELSE (m - 1) - 0 + 1
    BY <1>0, FS_Interval
  <2> QED BY <1>0, <2>1, <2>2
<1>3. IsFiniteSet(PipeSlots \ {s}) /\ Cardinality(PipeSlots \ {s}) = m - 1
  BY <1>2, FS_RemoveElement
<1> DEFINE Holder == [d \in PipeFds |-> CHOOSE t \in PipeSlots : h.pipes[t].active /\ h.pipes[t].fd = d]
<1>4. \A d \in PipeFds : Holder[d] \in PipeSlots /\ h.pipes[Holder[d]].active /\ h.pipes[Holder[d]].fd = d
  BY DEF Leads
<1>5. Holder \in [PipeFds -> PipeSlots \ {s}]
  BY <1>4
<1>6. \E d, e \in PipeFds : d # e /\ Holder[d] = Holder[e]
  <2>1. Cardinality(PipeSlots \ {s}) < Cardinality(PipeFds)
    BY <1>0, <1>1, <1>3
  <2> HIDE DEF Holder
  <2> QED BY <1>1, <1>3, <1>5, <2>1, FS_PigeonHole
<1> QED BY <1>4, <1>6

(* pipe_find_free: an unused row of the table, or the limit. *)
LEMMA FreeSlotIsFree ==
  ASSUME NEW h \in HostStates, NEW f, NEW at, Leads(h, f, at), FreeSlot(h) # MaxPipes
  PROVE  /\ FreeSlot(h) \in PipeSlots /\ ~h.pipes[FreeSlot(h)].active
         /\ FreeSlot(h) <= h.count
<1>0. MaxPipes \in Nat \ {0} /\ h.count \in 0..MaxPipes /\ \A t \in PipeSlots : t \in Nat
  BY PipeLimits DEF HostStates, PipeSlots
<1>1. CASE Free(h) # {}
  <2>1. Free(h) \subseteq Nat
    BY <1>0 DEF Free
  <2>2. Min(Free(h)) \in Free(h)
    BY <1>1, <2>1, MinIsLeast
  <2>3. FreeSlot(h) \in Free(h)
    BY <1>1, <2>2 DEF FreeSlot
  <2> QED BY <1>0, <2>3 DEF Free
<1>2. CASE Free(h) = {}
  <2>1. FreeSlot(h) = h.count
    BY <1>2 DEF FreeSlot
  <2>2. h.count \in PipeSlots
    BY <1>0, <2>1 DEF PipeSlots
  <2>3. ~h.pipes[h.count].active
    BY <1>0, <2>2 DEF Leads
  <2> QED BY <1>0, <2>1, <2>2, <2>3
<1> QED BY <1>1, <1>2

(* am_pipe_open keeps the table right. *)
LEMMA OpenedLeads ==
  ASSUME NEW h \in HostStates, NEW f \in Seq(Fifos), NEW at \in [FifoPaths -> Nat],
         Leads(h, f, at), NamesLead(f, at),
         NEW name \in PipeNames, NEW path \in FifoPaths, NEW mode \in {"read", "write"}
  PROVE  Opened(h, name, path, mode, at) \in HostStates /\ Leads(Opened(h, name, path, mode, at), f, at)
<1> DEFINE g == Opened(h, name, path, mode, at)
           s == FreeSlot(h)
           c == IF s = h.count THEN s + 1 ELSE h.count
           fd == Min({d \in PipeFds : h.fds[d] = 0})
           p == [name |-> name, path |-> path, fd |-> fd, mode |-> mode, active |-> TRUE]
<1>1. CASE Holding(h, name) # {} \/ s = MaxPipes
  BY <1>1 DEF Opened
<1>2. CASE ~ (Holding(h, name) # {} \/ s = MaxPipes)
  <2>1. s \in PipeSlots /\ ~h.pipes[s].active /\ s <= h.count
    BY <1>2, FreeSlotIsFree
  <2>2. /\ h = [pipes |-> h.pipes, count |-> h.count, fds |-> h.fds, last |-> h.last, value |-> h.value]
        /\ h.pipes \in [PipeSlots -> Pipe] /\ h.count \in 0..MaxPipes /\ h.fds \in [PipeFds -> Nat]
        /\ h.last \in Int /\ h.value \in Int
    BY DEF HostStates
  <2>3. MaxPipes \in Nat \ {0} /\ s \in Nat /\ s < MaxPipes
    BY <2>1, PipeLimits DEF PipeSlots
  <2>4. c \in 0..MaxPipes /\ c >= h.count /\ s < c
    BY <2>1, <2>2, <2>3
  <2>5. CASE at[path] = 0
    <3>1. g = [h EXCEPT !.count = c]
      BY <1>2, <2>5 DEF Opened
    <3> HIDE DEF g, c, s
    <3>2. g \in HostStates /\ g.pipes = h.pipes /\ g.fds = h.fds /\ g.count = c
      BY <2>2, <2>4, <3>1 DEF HostStates
    <3>3. \A t \in PipeSlots : t >= g.count => ~g.pipes[t].active
      <4> TAKE t \in PipeSlots
      <4>1. t \in Int /\ h.count \in Int /\ c \in Int
        BY <2>2, <2>4 DEF PipeSlots
      <4>2. t >= c => t >= h.count
        BY <2>4, <4>1
      <4> QED BY <3>2, <4>2 DEF Leads
    <3>4. Leads(g, f, at)
      BY <3>2, <3>3 DEF Leads
    <3> QED BY <3>2, <3>4 DEF g
  <2>6. CASE at[path] # 0
    <3>1. fd \in PipeFds /\ h.fds[fd] = 0
      <4>1. {d \in PipeFds : h.fds[d] = 0} # {}
        BY <2>1, DescriptorIsLeft
      <4>2. {d \in PipeFds : h.fds[d] = 0} \subseteq Nat
        BY PipeLimits DEF PipeFds
      <4>3. fd \in {d \in PipeFds : h.fds[d] = 0}
        BY <4>1, <4>2, MinIsLeast
      <4> QED BY <4>3
    <3>2. g = [[[h EXCEPT !.count = c] EXCEPT !.fds[fd] = at[path]] EXCEPT !.pipes[s] = p]
      BY <1>2, <2>6 DEF Opened
    <3>3. p \in Pipe /\ p.active /\ p.name = name /\ p.path = path /\ p.fd = fd
      BY <3>1 DEF Pipe
    <3>4. \A t \in PipeSlots : h.pipes[t].active => h.pipes[t].name # name
      <4>1. \A t \in PipeSlots : h.pipes[t].active => t < h.count
        <5>1. \A t \in PipeSlots : t \in Int
          BY DEF PipeSlots
        <5> QED BY <2>2, <5>1 DEF Leads
      <4> QED BY <1>2, <4>1 DEF Holding, InUse
    <3> HIDE DEF g, c, s, fd, p
    <3>5. /\ g.pipes = [h.pipes EXCEPT ![s] = p] /\ g.count = c /\ g.fds = [h.fds EXCEPT ![fd] = at[path]]
          /\ g = [pipes |-> g.pipes, count |-> g.count, fds |-> g.fds, last |-> h.last, value |-> h.value]
      BY <2>2, <3>2
    <3>6. g \in HostStates
      <4>1. g.pipes \in [PipeSlots -> Pipe]
        BY <2>1, <2>2, <3>3, <3>5
      <4>2. g.fds \in [PipeFds -> Nat]
        BY <2>2, <3>1, <3>5
      <4> QED BY <2>2, <2>4, <3>5, <4>1, <4>2 DEF HostStates
    <3>7. g.pipes[s] = p /\ \A t \in PipeSlots : t # s => g.pipes[t] = h.pipes[t]
      BY <2>1, <2>2, <3>5
    <3>8. g.fds[fd] = at[path] /\ \A d \in PipeFds : d # fd => g.fds[d] = h.fds[d]
      BY <2>2, <3>1, <3>5
    <3>9. at[path] \in DOMAIN f /\ f[at[path]].path = path /\ at[path] \in Nat /\ 0 \notin DOMAIN f
      BY <2>6 DEF NamesLead
    <3>10. /\ g.count >= h.count /\ s < g.count /\ g.pipes[s].active /\ g.pipes[s].fd = fd /\ g.pipes[s].path = path
           /\ \A t \in PipeSlots : h.pipes[t].active => h.pipes[t].name # g.pipes[s].name
      BY <2>4, <3>3, <3>4, <3>5, <3>7
    <3>11. /\ g.pipes[s].path \in FifoPaths /\ g.fds[fd] \in DOMAIN f /\ f[g.fds[fd]].path = g.pipes[s].path
           /\ at[g.pipes[s].path] = g.fds[fd] /\ g.fds[fd] \in Nat
      BY <3>8, <3>9, <3>10
    <3>12. /\ s \in PipeSlots /\ ~h.pipes[s].active /\ fd \in PipeFds /\ h.fds[fd] = 0 /\ 0 \notin DOMAIN f
           /\ \A t \in PipeSlots : t # s => g.pipes[t] = h.pipes[t]
           /\ \A e \in PipeFds : e # fd => g.fds[e] = h.fds[e]
      BY <2>1, <3>1, <3>7, <3>8, <3>9
    <3>13. Leads(g, f, at)
      BY <3>6, <3>10, <3>11, <3>12, AddKeeps
    <3> QED BY <3>6, <3>13 DEF g
  <2> QED BY <2>5, <2>6
<1> QED BY <1>1, <1>2

(* am_pipe_close. *)
LEMMA ClosedLeads ==
  ASSUME NEW h \in HostStates, NEW f, NEW at, Leads(h, f, at), NEW name
  PROVE  Closed(h, name) \in HostStates /\ Leads(Closed(h, name), f, at)
<1>1. CASE Holding(h, name) = {}
  BY <1>1 DEF Closed
<1>2. CASE Holding(h, name) # {}
  <2> DEFINE g == Closed(h, name)
             s == Min(Holding(h, name))
  <2>1. s \in PipeSlots /\ h.pipes[s].active
    <3>1. Holding(h, name) \subseteq Nat
      BY PipeLimits DEF Holding, InUse, PipeSlots
    <3>2. s \in Holding(h, name)
      BY <1>2, <3>1, MinIsLeast
    <3> QED BY <3>2 DEF Holding, InUse
  <2>2. /\ h = [pipes |-> h.pipes, count |-> h.count, fds |-> h.fds, last |-> h.last, value |-> h.value]
        /\ h.pipes \in [PipeSlots -> Pipe] /\ h.count \in 0..MaxPipes /\ h.fds \in [PipeFds -> Nat]
        /\ h.last \in Int /\ h.value \in Int
    BY DEF HostStates
  <2> DEFINE r == [Unused(h.pipes[s]) EXCEPT !.name = <<>>]
  <2>3. g = [h EXCEPT !.fds[h.pipes[s].fd] = 0, !.pipes[s] = r]
    BY <1>2 DEF Closed
  <2>4. PICK d \in PipeFds : d = h.pipes[s].fd
    BY <2>1 DEF Leads
  <2> HIDE DEF g, s
  <2>5. PICK q \in Pipe : q = h.pipes[s]
    BY <2>1, <2>2
  <2>6. r = [[q EXCEPT !.fd = None, !.active = FALSE] EXCEPT !.name = <<>>]
    BY <2>5 DEF Unused
  <2>9. r \in Pipe /\ ~r.active
    BY <2>6 DEF Pipe
  <2> HIDE DEF r
  <2>7. g = [h EXCEPT !.fds[d] = 0, !.pipes[s] = r]
    BY <2>3, <2>4
  <2>8. /\ g.fds = [h.fds EXCEPT ![d] = 0] /\ g.pipes = [h.pipes EXCEPT ![s] = r]
        /\ g = [pipes |-> g.pipes, count |-> h.count, fds |-> g.fds, last |-> h.last, value |-> h.value]
    BY <2>2, <2>7
  <2>11. /\ g.pipes \in [PipeSlots -> Pipe] /\ ~g.pipes[s].active
         /\ \A t \in PipeSlots : t # s => g.pipes[t] = h.pipes[t]
    BY <2>1, <2>2, <2>9, <2>8
  <2>12. /\ g.fds \in [PipeFds -> Nat] /\ g.fds[d] = 0
         /\ \A e \in PipeFds : e # d => g.fds[e] = h.fds[e]
    BY <2>2, <2>4, <2>8
  <2>13. g \in HostStates /\ g.count = h.count
    BY <2>2, <2>8, <2>11, <2>12 DEF HostStates
  <2>14. Leads(g, f, at)
    BY <2>1, <2>4, <2>11, <2>12, <2>13, DropKeeps
  <2> QED BY <2>13, <2>14 DEF g
<1> QED BY <1>1, <1>2

(* am_pipe_close_all. *)
LEMMA AllClosedLeads ==
  ASSUME NEW h \in HostStates, NEW f, NEW at
  PROVE  AllClosed(h) \in HostStates /\ Leads(AllClosed(h), f, at)
<1>0. /\ h = [pipes |-> h.pipes, count |-> h.count, fds |-> h.fds, last |-> h.last, value |-> h.value]
      /\ h.pipes \in [PipeSlots -> Pipe] /\ h.last \in Int /\ h.value \in Int /\ 0 \in 0..MaxPipes
  BY PipeLimits DEF HostStates
<1> DEFINE ps == [s \in PipeSlots |-> Unused(h.pipes[s])]
<1>1. \A s \in PipeSlots : ps[s] \in Pipe /\ ~ps[s].active
  <2> TAKE s \in PipeSlots
  <2>1. PICK q \in Pipe : q = h.pipes[s]
    BY <1>0
  <2>2. Unused(q) \in Pipe /\ ~Unused(q).active
    BY DEF Pipe, Unused
  <2> QED BY <2>1, <2>2
<1>2. ps \in [PipeSlots -> Pipe]
  BY <1>1
<1>3. AllClosed(h) = [h EXCEPT !.pipes = ps, !.fds = [d \in PipeFds |-> 0], !.count = 0]
  BY DEF AllClosed
<1> HIDE DEF ps
<1>4. /\ AllClosed(h).pipes = ps /\ AllClosed(h).fds = [d \in PipeFds |-> 0]
      /\ AllClosed(h) = [pipes |-> ps, count |-> 0, fds |-> [d \in PipeFds |-> 0], last |-> h.last, value |-> h.value]
  BY <1>0, <1>3
<1>5. AllClosed(h) \in HostStates
  BY <1>0, <1>2, <1>4 DEF HostStates
<1>6. (\A s \in PipeSlots : ~AllClosed(h).pipes[s].active) /\ \A d \in PipeFds : AllClosed(h).fds[d] = 0
  BY <1>1, <1>4
<1> QED BY <1>5, <1>6 DEF Leads

-----------------------------------------------------------------------------
(* The FIFOs g are the FIFOs f, whatever has become of their contents. *)
SameFifos(f, g) == g \in Seq(Fifos) /\ Len(g) = Len(f) /\ \A i \in DOMAIN f : g[i].path = f[i].path

\* Only the contents of one FIFO change: the FIFOs stay those at their paths.
LEMMA ContentChanges ==
  ASSUME NEW f \in Seq(Fifos), NEW i \in DOMAIN f, NEW c \in Seq(PipeMessages)
  PROVE  SameFifos(f, [f EXCEPT ![i].content = c])
<1> DEFINE x == [f[i] EXCEPT !.content = c]
<1>1. x \in Fifos /\ x.path = f[i].path
  <2>1. f[i] \in Fifos
    OBVIOUS
  <2> QED BY <2>1 DEF Fifos
<1>2. [f EXCEPT ![i].content = c] = [f EXCEPT ![i] = x]
  OBVIOUS
<1> HIDE DEF x
<1>3. [f EXCEPT ![i] = x] \in Seq(Fifos) /\ Len([f EXCEPT ![i] = x]) = Len(f)
  BY <1>1
<1>4. \A j \in DOMAIN f : [f EXCEPT ![i] = x][j].path = f[j].path
  BY <1>1
<1> QED BY <1>2, <1>3, <1>4 DEF SameFifos

(* What nobody has open loses its content, and not its path. *)
LEMMA KeptIsSame ==
  ASSUME NEW f \in Seq(Fifos), NEW h, NEW n
  PROVE  SameFifos(f, Kept(f, h, n))
<1> DEFINE g == Kept(f, h, n)
<1>1. \A i \in DOMAIN f : g[i] \in Fifos /\ g[i].path = f[i].path
  <2> TAKE i \in DOMAIN f
  <2>1. f[i] \in Fifos /\ <<>> \in Seq(PipeMessages)
    OBVIOUS
  <2>2. [f[i] EXCEPT !.content = <<>>] \in Fifos /\ [f[i] EXCEPT !.content = <<>>].path = f[i].path
    BY <2>1 DEF Fifos
  <2>3. g[i] = f[i] \/ g[i] = [f[i] EXCEPT !.content = <<>>]
    BY DEF Kept
  <2> QED BY <2>1, <2>2, <2>3
<1>2. DOMAIN g = 1..Len(f) /\ g = [i \in DOMAIN g |-> g[i]]
  BY DEF Kept
<1> HIDE DEF g
<1>3. g \in [1..Len(f) -> Fifos] /\ Len(f) \in Nat
  <2>1. Len(f) \in Nat /\ DOMAIN f = 1..Len(f)
    OBVIOUS
  <2> QED BY <1>1, <1>2, <2>1
<1>4. g \in Seq(Fifos)
  BY <1>3, SeqDef
<1>5. Len(g) = Len(f)
  BY <1>3, <1>4
<1> QED BY <1>1, <1>4, <1>5 DEF g, SameFifos

(* A pipe that is found leads to a FIFO. *)
LEMMA HeldLeads ==
  ASSUME NEW h \in HostStates, NEW f \in Seq(Fifos), NEW at, Leads(h, f, at), NEW name, Holding(h, name) # {}
  PROVE  Reading(h, name) \in DOMAIN f /\ f[Reading(h, name)].content \in Seq(PipeMessages)
<1> DEFINE s == Min(Holding(h, name))
<1>1. s \in PipeSlots /\ h.pipes[s].active
  <2>1. Holding(h, name) \subseteq Nat
    BY PipeLimits DEF Holding, InUse, PipeSlots
  <2>2. s \in Holding(h, name)
    BY <2>1, MinIsLeast
  <2> QED BY <2>2 DEF Holding, InUse
<1>2. Reading(h, name) = h.fds[h.pipes[s].fd]
  BY DEF Reading
<1> HIDE DEF s
<1>3. Reading(h, name) \in DOMAIN f
  BY <1>1, <1>2 DEF Leads
<1>4. f[Reading(h, name)] \in Fifos
  BY <1>3
<1> QED BY <1>3, <1>4 DEF Fifos

(* am_pipe_write. *)
LEMMA WrittenIsSame ==
  ASSUME NEW h \in HostStates, NEW f \in Seq(Fifos), NEW at, Leads(h, f, at), NEW name, NEW m \in PipeMessages
  PROVE  SameFifos(f, Written(h, f, name, m))
<1>1. CASE Takes(h, f, name)
  <2>1. Holding(h, name) # {}
    BY <1>1 DEF Takes
  <2>2. Written(h, f, name, m) = [f EXCEPT ![Reading(h, name)].content = Append(f[Reading(h, name)].content, m)]
    BY <1>1 DEF Written, Reading
  <2>3. Append(f[Reading(h, name)].content, m) \in Seq(PipeMessages) /\ Reading(h, name) \in DOMAIN f
    BY <2>1, HeldLeads
  <2> PICK i : i = Reading(h, name)
    BY Zenon
  <2> PICK c : c = Append(f[Reading(h, name)].content, m)
    BY Zenon
  <2>4. c \in Seq(PipeMessages) /\ i \in DOMAIN f /\ Written(h, f, name, m) = [f EXCEPT ![i].content = c]
    BY <2>2, <2>3
  <2>5. SameFifos(f, [f EXCEPT ![i].content = c])
    BY ONLY f \in Seq(Fifos), <2>4, ContentChanges
  <2> QED BY ONLY <2>4, <2>5
<1>2. CASE ~Takes(h, f, name)
  BY <1>2 DEF Written, SameFifos
<1> QED BY <1>1, <1>2

(* am_pipe_read takes the beginning of what the FIFO holds. *)
LEMMA GotIsTaken ==
  ASSUME NEW h \in HostStates, NEW f \in Seq(Fifos), NEW at, Leads(h, f, at), NEW name
  PROVE  /\ Got(h, f, name) \in Seq(PipeMessages)
         /\ SameFifos(f, Taken(h, f, name, Got(h, f, name)))
<1> DEFINE ms == Got(h, f, name)
<1>1. CASE Holding(h, name) = {}
  <2>1. ms = <<>> /\ Taken(h, f, name, ms) = f
    BY <1>1 DEF Got, Taken
  <2> QED BY <2>1 DEF SameFifos
<1>2. CASE Holding(h, name) # {}
  <2>1. PICK i \in DOMAIN f : i = Reading(h, name) /\ f[i].content \in Seq(PipeMessages)
    BY <1>2, HeldLeads
  <2>2. PICK c \in Seq(PipeMessages) : c = f[i].content
    BY <2>1
  <2>3. PICK n \in Nat : n = Min({Len(c), ReadCap}) /\ n <= Len(c)
    <3>1. {Len(c), ReadCap} \subseteq Nat /\ Len(c) \in {Len(c), ReadCap}
      BY PipeLimits
    <3>2. Min({Len(c), ReadCap}) \in {Len(c), ReadCap} /\ \A y \in {Len(c), ReadCap} : Min({Len(c), ReadCap}) <= y
      BY <3>1, MinIsLeast
    <3> QED BY <3>1, <3>2
  <2>4. ms = SubSeq(c, 1, n)
    BY <1>2, <2>1, <2>2, <2>3 DEF Got
  <2>5. SubSeq(c, 1, n) \in Seq(PipeMessages) /\ Len(SubSeq(c, 1, n)) = n
    <3>1. (\A j \in 1..n : c[j] \in PipeMessages) /\ 1 \in Int /\ n \in Int
      BY <2>3
    <3>2. SubSeq(c, 1, n) \in Seq(PipeMessages)
      BY <3>1, SubSeqProperties
    <3>3. Len(SubSeq(c, 1, n)) = n
      BY <2>3
    <3> QED BY <3>2, <3>3
  <2>6. SubSeq(c, n + 1, Len(c)) \in Seq(PipeMessages)
    <3>1. (\A j \in (n + 1)..Len(c) : c[j] \in PipeMessages) /\ n + 1 \in Int /\ Len(c) \in Int
      BY <2>3
    <3> QED BY <3>1, SubSeqProperties
  <2>7. Taken(h, f, name, ms) = IF ms = <<>> THEN f ELSE [f EXCEPT ![i].content = SubSeq(c, Len(ms) + 1, Len(c))]
    BY <2>1, <2>2 DEF Taken
  <2> HIDE DEF ms
  <2>8. CASE ms = <<>>
    BY <2>4, <2>5, <2>7, <2>8 DEF SameFifos, ms
  <2>9. CASE ms # <<>>
    <3>1. Taken(h, f, name, ms) = [f EXCEPT ![i].content = SubSeq(c, n + 1, Len(c))]
      BY <2>4, <2>5, <2>7, <2>9
    <3>2. SameFifos(f, [f EXCEPT ![i].content = SubSeq(c, n + 1, Len(c))])
      BY <2>6, ContentChanges
    <3> QED BY <2>4, <2>5, <3>1, <3>2 DEF ms
  <2> QED BY <2>8, <2>9
<1> QED BY <1>1, <1>2

(* The last number that was read. *)
LEMMA FirstIsNumber ==
  ASSUME NEW ms \in Seq(PipeMessages), NEW old \in Int
  PROVE  FirstNumber(ms, old) \in Int
<1> DEFINE k == {i \in DOMAIN ms : ms[i] # None}
<1>1. CASE k = {}
  BY <1>1 DEF FirstNumber
<1>2. CASE k # {}
  <2>1. Min(k) \in k
    BY <1>2, MinIsLeast
  <2>2. ms[Min(k)] \in PipeMessages
    BY <2>1
  <2>3. PipeMessages \subseteq Int
    BY PipeLimits DEF PipeMessages, None
  <2> QED BY <1>2, <2>2, <2>3 DEF FirstNumber
<1> QED BY <1>1, <1>2

\* The number INDEX remembers from what it read (am_index_read's atof) touches no pipe.
LEMMA NotedKeeps ==
  ASSUME NEW h \in HostStates, NEW ms \in Seq(PipeMessages)
  PROVE  /\ Noted(h, ms) \in HostStates
         /\ Noted(h, ms).pipes = h.pipes /\ Noted(h, ms).count = h.count /\ Noted(h, ms).fds = h.fds
<1>1. h.last \in Int
  BY DEF HostStates
<1>2. PICK v \in Int : v = FirstNumber(ms, h.last)
  BY <1>1, FirstIsNumber
<1>3. Noted(h, ms) = [h EXCEPT !.last = v]
  BY <1>2 DEF Noted
<1> QED BY <1>3 DEF HostStates

-----------------------------------------------------------------------------
(* A step that makes no FIFO and changes no path keeps the invariant if it keeps the
   table right. *)
LEMMA StepKeeps ==
  ASSUME PipesInv, io' \in HostStates, Leads(io', fifo, named), SameFifos(fifo, fifo'), named' = named,
         node' \subseteq DOMAIN fifo, pipeCalls' \in Nat
  PROVE  PipesInv'
<1>1. fifo \in Seq(Fifos) /\ fifo' \in Seq(Fifos) /\ named \in [FifoPaths -> Nat] /\ NamesLead(fifo, named)
  BY DEF PipesInv, PipesTypeOK, SameFifos
<1>2. DOMAIN fifo' = DOMAIN fifo /\ \A i \in DOMAIN fifo : fifo'[i].path = fifo[i].path
  BY <1>1 DEF SameFifos
<1>3. PipesTypeOK'
  BY <1>1, <1>2 DEF PipesTypeOK
<1>4. NamesLead(fifo', named')
  BY <1>1, <1>2 DEF NamesLead
<1>5. Leads(io', fifo', named)
  <2>1. Len(fifo') >= Len(fifo)
    BY <1>1 DEF SameFifos
  <2> QED BY <1>1, <1>2, <2>1, PathsKeep
<1> QED BY <1>3, <1>4, <1>5 DEF PipesInv

(* A FIFO is made at a path, or none is. *)
LEMMA MadeKeeps ==
  ASSUME NEW h \in HostStates, NEW f \in Seq(Fifos), NEW at \in [FifoPaths -> Nat],
         Leads(h, f, at), NamesLead(f, at), NEW path \in FifoPaths
  PROVE  LET g  == Append(f, [path |-> path, content |-> <<>>])
             bt == [at EXCEPT ![path] = Len(f) + 1]
         IN  g \in Seq(Fifos) /\ bt \in [FifoPaths -> Nat] /\ Leads(h, g, bt) /\ NamesLead(g, bt)
<1> DEFINE x  == [path |-> path, content |-> <<>>]
           g  == Append(f, x)
           bt == [at EXCEPT ![path] = Len(f) + 1]
<1>1. x \in Fifos /\ x.path = path
  BY DEF Fifos
<1> HIDE DEF x
<1>2. g \in Seq(Fifos) /\ Len(g) = Len(f) + 1 /\ g[Len(f) + 1] = x /\ \A i \in DOMAIN f : i \in DOMAIN g /\ g[i] = f[i]
  BY <1>1
<1>3. bt \in [FifoPaths -> Nat] /\ bt[path] = Len(f) + 1 /\ \A p \in FifoPaths : p # path => bt[p] = at[p]
  OBVIOUS
<1>4. Len(f) \in Nat /\ Len(g) \in Nat /\ DOMAIN g = 1..Len(g)
  BY <1>2
<1> HIDE DEF g, bt
<1>5. NamesLead(g, bt)
  <2> SUFFICES ASSUME NEW p \in FifoPaths, bt[p] # 0 PROVE bt[p] \in DOMAIN g /\ g[bt[p]].path = p
    BY DEF NamesLead
  <2>1. CASE p = path
    BY <1>1, <1>2, <1>3, <1>4, <2>1
  <2>2. CASE p # path
    <3>1. bt[p] = at[p] /\ at[p] \in DOMAIN f /\ f[at[p]].path = p
      BY <1>3, <2>2 DEF NamesLead
    <3> QED BY <1>2, <3>1
  <2> QED BY <2>1, <2>2
<1>6. Leads(h, g, bt)
  <2>1. Len(g) >= Len(f) /\ \A i \in DOMAIN f : g[i].path = f[i].path
    BY <1>2, <1>4
  <2>2. \A p \in FifoPaths : bt[p] = at[p] \/ bt[p] = 0 \/ bt[p] > Len(f)
    BY <1>3, <1>4
  <2> QED BY <1>2, <1>3, <2>1, <2>2, PathsKeep
<1> QED BY <1>2, <1>3, <1>5, <1>6 DEF g, bt, x

(* The initial table is empty. *)
LEMMA PipesInvInit == PipesInit => PipesInv
<1> SUFFICES ASSUME PipesInit PROVE PipesInv
  OBVIOUS
<1>1. NoPipe \in Pipe /\ ~NoPipe.active
  BY DEF NoPipe, Pipe
<1>2. io \in HostStates /\ (\A s \in PipeSlots : ~io.pipes[s].active) /\ (\A d \in PipeFds : io.fds[d] = 0)
  <2>1. 0 \in 0..MaxPipes
    BY PipeLimits
  <2>2. [s \in PipeSlots |-> NoPipe] \in [PipeSlots -> Pipe] /\ [d \in PipeFds |-> 0] \in [PipeFds -> Nat]
    BY <1>1
  <2>3. io = [pipes |-> [s \in PipeSlots |-> NoPipe], count |-> 0, fds |-> [f \in PipeFds |-> 0], last |-> 0, value |-> 0]
    BY DEF PipesInit
  <2> HIDE DEF NoPipe
  <2>4. io \in HostStates
    BY <2>1, <2>2, <2>3 DEF HostStates
  <2> QED BY <1>1, <2>3, <2>4
<1>3. fifo \in Seq(Fifos) /\ named \in [FifoPaths -> Nat] /\ node \subseteq DOMAIN fifo /\ pipeCalls \in Nat
  BY DEF PipesInit
<1>4. NamesLead(fifo, named)
  BY DEF PipesInit, NamesLead
<1>5. Leads(io, fifo, named)
  BY <1>2 DEF Leads
<1> QED BY <1>2, <1>3, <1>4, <1>5 DEF PipesInv, PipesTypeOK

(* What PipesInv says, conjunct by conjunct. *)
LEMMA PipesInvFacts ==
  ASSUME PipesInv
  PROVE  /\ io \in HostStates /\ fifo \in Seq(Fifos) /\ named \in [FifoPaths -> Nat]
         /\ node \subseteq DOMAIN fifo /\ pipeCalls \in Nat
         /\ NamesLead(fifo, named) /\ Leads(io, fifo, named) /\ SameFifos(fifo, fifo)
<1>1. fifo \in Seq(Fifos)
  BY DEF PipesInv, PipesTypeOK
<1>2. SameFifos(fifo, fifo)
  BY <1>1 DEF SameFifos
<1> QED BY <1>2 DEF PipesInv, PipesTypeOK

(* am_pipe_create, of any FIFOs: one more that the path leads to, or none. *)
LEMMA CreatedKeeps ==
  ASSUME NEW h \in HostStates, NEW f \in Seq(Fifos), NEW at \in [FifoPaths -> Nat],
         Leads(h, f, at), NamesLead(f, at), NEW path \in FifoPaths, NEW r \in Created(f, at, path)
  PROVE  /\ r.fifo \in Seq(Fifos) /\ r.named \in [FifoPaths -> Nat]
         /\ Leads(h, r.fifo, r.named) /\ NamesLead(r.fifo, r.named) /\ DOMAIN f \subseteq DOMAIN r.fifo
<1>1. CASE r = Made(f, at, path)
  <2>1. PICK g, bt : g = Append(f, [path |-> path, content |-> <<>>]) /\ bt = [at EXCEPT ![path] = Len(f) + 1]
    OBVIOUS
  <2>2. r.fifo = g /\ r.named = bt
    BY <1>1, <2>1 DEF Made
  <2>3. g \in Seq(Fifos) /\ bt \in [FifoPaths -> Nat] /\ Leads(h, g, bt) /\ NamesLead(g, bt)
    BY <2>1, MadeKeeps
  <2>4. DOMAIN f \subseteq DOMAIN g
    <3>1. Len(g) = Len(f) + 1 /\ Len(f) \in Nat
      BY <2>1
    <3>2. DOMAIN f = 1..Len(f) /\ DOMAIN g = 1..Len(g)
      BY <2>3
    <3> QED BY <3>1, <3>2
  <2> QED BY <2>2, <2>3, <2>4
<1>2. CASE r = Lost(f, at, path)
  <2>1. PICK bt : bt = [at EXCEPT ![path] = 0]
    OBVIOUS
  <2>2. r.fifo = f /\ r.named = bt
    BY <1>2, <2>1 DEF Lost
  <2>3. bt \in [FifoPaths -> Nat] /\ \A p \in FifoPaths : bt[p] = at[p] \/ bt[p] = 0
    BY <2>1
  <2>4. NamesLead(f, bt)
    BY <2>3 DEF NamesLead
  <2>5. Leads(h, f, bt)
    <3>1. Len(f) >= Len(f)
      OBVIOUS
    <3> QED BY <2>3, <3>1, PathsKeep
  <2> QED BY <2>2, <2>3, <2>4, <2>5
<1> QED BY <1>1, <1>2 DEF Created

(* PIPE CREATE. *)
LEMMA CreateKeeps ==
  ASSUME PipesInv, NEW path \in FifoPaths, PipeCreate(path), pipeCalls' \in Nat
  PROVE  PipesInv'
<1>0. /\ io \in HostStates /\ fifo \in Seq(Fifos) /\ named \in [FifoPaths -> Nat]
      /\ node \subseteq DOMAIN fifo /\ NamesLead(fifo, named) /\ Leads(io, fifo, named)
  BY PipesInvFacts
<1>1. io' = io /\ node' = node
  BY DEF PipeCreate
<1>2. PICK r \in Created(fifo, named, path) : fifo' = r.fifo /\ named' = r.named
  BY DEF PipeCreate
<1>3. /\ fifo' \in Seq(Fifos) /\ named' \in [FifoPaths -> Nat]
      /\ Leads(io, fifo', named') /\ NamesLead(fifo', named') /\ DOMAIN fifo \subseteq DOMAIN fifo'
  BY <1>0, <1>2, CreatedKeeps
<1> QED BY <1>0, <1>1, <1>3 DEF PipesInv, PipesTypeOK

\* Reading a pipe keeps the invariant: it takes bytes and moves no descriptor.
LEMMA ReadKeeps ==
  ASSUME PipesInv, NEW name, PipeRead(name), pipeCalls' \in Nat
  PROVE  PipesInv'
<1> DEFINE ms == Got(io, fifo, name)
<1>0. /\ io \in HostStates /\ fifo \in Seq(Fifos) /\ node \subseteq DOMAIN fifo /\ Leads(io, fifo, named)
  BY PipesInvFacts
<1>1. ms \in Seq(PipeMessages) /\ SameFifos(fifo, Taken(io, fifo, name, ms))
  BY <1>0, GotIsTaken
<1>2. /\ fifo' = Taken(io, fifo, name, ms) /\ io' = [Noted(io, ms) EXCEPT !.value = FirstNumber(ms, io.last)]
      /\ named' = named /\ node' = node
  BY DEF PipeRead
<1> HIDE DEF ms
<1>3. PICK v \in Int : v = FirstNumber(ms, io.last)
  BY <1>0, <1>1, FirstIsNumber DEF HostStates
<1>4. PICK h \in HostStates : h = Noted(io, ms) /\ h.pipes = io.pipes /\ h.count = io.count /\ h.fds = io.fds
  BY <1>0, <1>1, NotedKeeps
<1>5. io' = [h EXCEPT !.value = v]
  BY <1>2, <1>3, <1>4
<1>6. io' \in HostStates /\ io'.pipes = io.pipes /\ io'.count = io.count /\ io'.fds = io.fds
  BY <1>4, <1>5 DEF HostStates
<1>7. Leads(io', fifo, named)
  BY <1>0, <1>6 DEF Leads
<1> QED BY <1>0, <1>1, <1>2, <1>6, <1>7, StepKeeps

(* STATUS: the request, then whatever answer is there. *)
LEMMA StatusKeeps ==
  ASSUME PipesInv, NEW n \in Nodes, IndexStatus(n), pipeCalls' \in Nat
  PROVE  PipesInv'
<1> DEFINE f  == Written(io, fifo, Cmd(n), None)
           ms == Got(io, f, Rsp(n))
<1>0. /\ io \in HostStates /\ fifo \in Seq(Fifos) /\ node \subseteq DOMAIN fifo /\ Leads(io, fifo, named)
      /\ named \in [FifoPaths -> Nat] /\ None \in PipeMessages
  BY PipesInvFacts DEF PipeMessages
<1>1. SameFifos(fifo, f)
  BY <1>0, WrittenIsSame
<1>2. fifo' = Taken(io, f, Rsp(n), ms) /\ io' = Noted(io, ms) /\ named' = named /\ node' = node
  BY DEF IndexStatus
<1> HIDE DEF f
<1>3. f \in Seq(Fifos) /\ Len(f) = Len(fifo) /\ \A i \in DOMAIN fifo : f[i].path = fifo[i].path
  BY <1>1 DEF SameFifos
<1>4. Leads(io, f, named)
  <2>1. Len(f) >= Len(fifo)
    BY <1>0, <1>3
  <2> QED BY <1>0, <1>3, <2>1, PathsKeep
<1>5. ms \in Seq(PipeMessages) /\ SameFifos(f, Taken(io, f, Rsp(n), ms))
  BY <1>0, <1>3, <1>4, GotIsTaken
<1> HIDE DEF ms
<1>6. SameFifos(fifo, fifo')
  <2>1. DOMAIN f = DOMAIN fifo
    BY <1>0, <1>3
  <2> QED BY <1>2, <1>3, <1>5, <2>1 DEF SameFifos
<1>7. io' \in HostStates /\ io'.pipes = io.pipes /\ io'.count = io.count /\ io'.fds = io.fds
  BY <1>0, <1>2, <1>5, NotedKeeps
<1>8. Leads(io', fifo, named)
  BY <1>0, <1>7 DEF Leads
<1> QED BY <1>0, <1>2, <1>6, <1>7, <1>8, StepKeeps

(* INDEX INIT makes two FIFOs, or fails to, and opens what there is. *)
LEMMA IndexInitKeeps ==
  ASSUME PipesInv, NEW n \in Nodes, IndexInit(n), pipeCalls' \in Nat
  PROVE  PipesInv'
<1> DEFINE h1 == Opened(io, Cmd(n), Cmd(n), "write", named')
<1>0. /\ io \in HostStates /\ fifo \in Seq(Fifos) /\ named \in [FifoPaths -> Nat]
      /\ node \subseteq DOMAIN fifo /\ NamesLead(fifo, named) /\ Leads(io, fifo, named)
  BY PipesInvFacts
<1>1. Cmd(n) \in FifoPaths /\ Rsp(n) \in FifoPaths /\ Cmd(n) \in PipeNames /\ Rsp(n) \in PipeNames
  BY DEF FifoPaths, PipeNames
<1>2. PICK c, r : /\ c \in Created(fifo, named, Cmd(n)) /\ r \in Created(c.fifo, c.named, Rsp(n))
                  /\ fifo' = r.fifo /\ named' = r.named
  BY DEF IndexInit
<1>3. io' = Opened(h1, Rsp(n), Rsp(n), "read", named') /\ node' = node
  BY DEF IndexInit
<1>4. /\ c.fifo \in Seq(Fifos) /\ c.named \in [FifoPaths -> Nat] /\ Leads(io, c.fifo, c.named)
      /\ NamesLead(c.fifo, c.named) /\ DOMAIN fifo \subseteq DOMAIN c.fifo
  BY <1>0, <1>1, <1>2, CreatedKeeps
<1>5. PICK f1, at1 : f1 = c.fifo /\ at1 = c.named
  OBVIOUS
<1>6. /\ r.fifo \in Seq(Fifos) /\ r.named \in [FifoPaths -> Nat] /\ Leads(io, r.fifo, r.named)
      /\ NamesLead(r.fifo, r.named) /\ DOMAIN f1 \subseteq DOMAIN r.fifo
  BY <1>0, <1>1, <1>2, <1>4, <1>5, CreatedKeeps
<1>7. node' \subseteq DOMAIN fifo'
  BY <1>0, <1>2, <1>3, <1>4, <1>5, <1>6
<1>8. h1 \in HostStates /\ Leads(h1, r.fifo, r.named)
  BY <1>0, <1>1, <1>2, <1>6, OpenedLeads
<1> HIDE DEF h1
<1>9. io' \in HostStates /\ Leads(io', r.fifo, r.named)
  BY <1>1, <1>2, <1>3, <1>6, <1>8, OpenedLeads
<1> QED BY <1>2, <1>6, <1>7, <1>9 DEF PipesInv, PipesTypeOK

(* The index node, which has FIFOs of the script open, changes their contents only. *)
LEMMA NodeKeeps ==
  ASSUME PipesInv, NodeCall, pipeCalls' \in Nat
  PROVE  PipesInv'
<1>0. /\ io \in HostStates /\ fifo \in Seq(Fifos) /\ node \subseteq DOMAIN fifo /\ Leads(io, fifo, named)
      /\ NamesLead(fifo, named) /\ SameFifos(fifo, fifo)
      /\ \A i \in DOMAIN fifo : fifo[i].content \in Seq(PipeMessages)
  <2>1. fifo \in Seq(Fifos)
    BY PipesInvFacts
  <2>2. \A i \in DOMAIN fifo : fifo[i] \in Fifos
    BY <2>1
  <2> QED BY <2>2, PipesInvFacts DEF Fifos
<1>1. ASSUME NEW path \in FifoPaths, NodeOpens(path) PROVE PipesInv'
  <2>1. io' = io /\ fifo' = fifo /\ named' = named /\ node' = node \union {named[path]} /\ named[path] # 0
    BY <1>1 DEF NodeOpens
  <2>2. node' \subseteq DOMAIN fifo
    BY <1>0, <2>1 DEF NamesLead
  <2> QED BY <1>0, <2>1, <2>2, StepKeeps
<1>2. ASSUME NEW i \in DOMAIN fifo, NodeReads(i) PROVE PipesInv'
  <2>1. /\ io' = io /\ named' = named /\ node' = node
        /\ fifo' = [fifo EXCEPT ![i].content = Tail(fifo[i].content)] /\ fifo[i].content # <<>>
    BY <1>2 DEF NodeReads
  <2>2. Tail(fifo[i].content) \in Seq(PipeMessages)
    BY <1>0, <2>1
  <2>3. SameFifos(fifo, fifo')
    BY <1>0, <2>1, <2>2, ContentChanges
  <2> QED BY <1>0, <2>1, <2>3, StepKeeps
<1>3. ASSUME NEW i \in DOMAIN fifo, NEW m \in PipeMessages, NodeWrites(i, m) PROVE PipesInv'
  <2>1. /\ io' = io /\ named' = named /\ node' = node
        /\ fifo' = [fifo EXCEPT ![i].content = Append(fifo[i].content, m)]
    BY <1>3 DEF NodeWrites
  <2>2. Append(fifo[i].content, m) \in Seq(PipeMessages)
    BY <1>0
  <2>3. SameFifos(fifo, fifo')
    BY <1>0, <2>1, <2>2, ContentChanges
  <2> QED BY <1>0, <2>1, <2>3, StepKeeps
<1>4. ASSUME NEW i \in DOMAIN fifo, NodeCloses(i) PROVE PipesInv'
  <2>1. io' = io /\ named' = named /\ node' = node \ {i} /\ fifo' = Kept(fifo, io, node')
    BY <1>4 DEF NodeCloses
  <2>2. SameFifos(fifo, fifo')
    BY <1>0, <2>1, KeptIsSame
  <2>3. node' \subseteq DOMAIN fifo
    BY <1>0, <2>1
  <2> QED BY <1>0, <2>1, <2>2, <2>3, StepKeeps
<1> QED BY <1>1, <1>2, <1>3, <1>4 DEF NodeCall, PipeMessages

(* The commands of the script. *)
LEMMA ScriptKeeps ==
  ASSUME PipesInv, ScriptCall, pipeCalls' \in Nat
  PROVE  PipesInv'
<1>0. /\ io \in HostStates /\ fifo \in Seq(Fifos) /\ named \in [FifoPaths -> Nat]
      /\ node \subseteq DOMAIN fifo /\ Leads(io, fifo, named) /\ NamesLead(fifo, named) /\ SameFifos(fifo, fifo)
  BY PipesInvFacts
<1>1. CASE PipeCloseAll
  <2>1. io' = AllClosed(io) /\ fifo' = Kept(fifo, io', node) /\ named' = named /\ node' = node
    BY <1>1 DEF PipeCloseAll
  <2>2. io' \in HostStates /\ Leads(io', fifo, named) /\ SameFifos(fifo, fifo')
    BY <1>0, <2>1, AllClosedLeads, KeptIsSame
  <2> QED BY <1>0, <2>1, <2>2, StepKeeps
<1>2. CASE PipesReset
  <2>1. /\ io' = [AllClosed(io) EXCEPT !.last = 0] /\ fifo' = Kept(fifo, io', node)
        /\ named' = named /\ node' = node
    BY <1>2 DEF PipesReset
  <2>2. PICK h \in HostStates : h = AllClosed(io) /\ Leads(h, fifo, named)
    BY <1>0, AllClosedLeads
  <2>3. io' \in HostStates /\ io'.pipes = h.pipes /\ io'.count = h.count /\ io'.fds = h.fds
    BY <2>1, <2>2 DEF HostStates
  <2>4. Leads(io', fifo, named)
    BY <2>2, <2>3 DEF Leads
  <2>5. SameFifos(fifo, fifo')
    BY <1>0, <2>1, KeptIsSame
  <2> QED BY <1>0, <2>1, <2>3, <2>4, <2>5, StepKeeps
<1>3. ASSUME NEW path \in FifoPaths, PipeCreate(path) PROVE PipesInv'
  BY <1>3, CreateKeeps
<1>4. ASSUME NEW path \in FifoPaths, NEW name \in PipeNames, NEW mode \in {"read", "write"},
             PipeOpen(name, path, mode)
      PROVE  PipesInv'
  <2>1. io' = Opened(io, name, path, mode, named) /\ fifo' = fifo /\ named' = named /\ node' = node
    BY <1>4 DEF PipeOpen
  <2>2. io' \in HostStates /\ Leads(io', fifo, named)
    BY <1>0, <2>1, OpenedLeads
  <2> QED BY <1>0, <2>1, <2>2, StepKeeps
<1>5. ASSUME NEW name, PipeRead(name) PROVE PipesInv'
  BY <1>5, ReadKeeps
<1>6. ASSUME NEW name, PipeClose(name) PROVE PipesInv'
  <2>1. io' = Closed(io, name) /\ fifo' = Kept(fifo, io', node) /\ named' = named /\ node' = node
    BY <1>6 DEF PipeClose
  <2>2. io' \in HostStates /\ Leads(io', fifo, named) /\ SameFifos(fifo, fifo')
    BY <1>0, <2>1, ClosedLeads, KeptIsSame
  <2> QED BY <1>0, <2>1, <2>2, StepKeeps
<1>7. ASSUME NEW name, NEW m \in PipeMessages, PipeWrite(name, m) PROVE PipesInv'
  <2>1. io' = io /\ fifo' = Written(io, fifo, name, m) /\ named' = named /\ node' = node
    BY <1>7 DEF PipeWrite
  <2>2. SameFifos(fifo, fifo')
    BY <1>0, <2>1, WrittenIsSame
  <2> QED BY <1>0, <2>1, <2>2, StepKeeps
<1>8. ASSUME NEW n \in Nodes, IndexInit(n) PROVE PipesInv'
  BY <1>8, IndexInitKeeps
<1>9. ASSUME NEW n \in Nodes, IndexStatus(n) PROVE PipesInv'
  BY <1>9, StatusKeeps
<1>10. ASSUME NEW n \in Nodes, IndexClose(n) PROVE PipesInv'
  <2> DEFINE h == Closed(io, Cmd(n))
  <2>1. io' = Closed(h, Rsp(n)) /\ fifo' = Kept(fifo, io', node) /\ named' = named /\ node' = node
    BY <1>10 DEF IndexClose
  <2>2. h \in HostStates /\ Leads(h, fifo, named)
    BY <1>0, ClosedLeads
  <2> HIDE DEF h
  <2>3. io' \in HostStates /\ Leads(io', fifo, named) /\ SameFifos(fifo, fifo')
    BY <1>0, <2>1, <2>2, ClosedLeads, KeptIsSame
  <2> QED BY <1>0, <2>1, <2>3, StepKeeps
<1>11. ASSUME NEW n \in Nodes, NEW m \in PipeMessages, IndexTell(n, m) PROVE PipesInv'
  BY <1>7, <1>11 DEF IndexTell
<1> QED BY <1>1, <1>2, <1>3, <1>4, <1>5, <1>6, <1>7, <1>8, <1>9, <1>10, <1>11 DEF ScriptCall, PipeMessages

\* Every step of a script or of an index node keeps the invariant of the pipes.
LEMMA PipesInvNext == PipesInv /\ [PipesNext]_pipeVars => PipesInv'
<1> SUFFICES ASSUME PipesInv, [PipesNext]_pipeVars PROVE PipesInv'
  OBVIOUS
<1>1. pipeCalls \in Nat
  BY PipesInvFacts
<1>2. CASE ScriptCall /\ pipeCalls < MaxPipeCalls /\ pipeCalls' = pipeCalls + 1
  BY <1>1, <1>2, ScriptKeeps
<1>3. CASE NodeCall /\ UNCHANGED pipeCalls
  BY <1>1, <1>3, NodeKeeps
<1>4. CASE UNCHANGED pipeVars
  BY <1>4 DEF pipeVars, PipesInv, PipesTypeOK
<1> QED BY <1>2, <1>3, <1>4 DEF PipesNext

(* The table, the descriptors and the FIFOs agree, whatever scripts and index nodes do and
   whichever call fails. *)
THEOREM PipesInvariant == PipesSpec => []PipesInv
BY PipesInvInit, PipesInvNext, PTL DEF PipesSpec

(* An open descriptor is one pipe's, and a pipe leads to a FIFO that was made at its path:
   the one found there unless the path was made again, or lost, since it was opened. *)
THEOREM PipesLead == PipesSpec => []PipesLeadToTheirPath
BY PipesInvariant, LeadsTells, PTL

===================================================================================
