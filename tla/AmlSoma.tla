-------------------------------- MODULE AmlSoma --------------------------------
(* What the field of the AML interpreter remembers (bake/aml/core/ariannamethod.c): the
   edges between words that occurred together, consolidated in autumn, and the files that
   carry the field over a restart. The soma, G as one block, is shared by all voices; a
   voice keeps its own words in a file of its own, a sidecar, because they are numbers of
   its own vocabulary.

   A process speaks with one voice. It may crash at any moment, also within a write, and
   the next process may speak with another voice. A file is what was being saved and how
   far the write came; a load takes what is there, part by part.                        *)
EXTENDS AmlField

CONSTANTS
  Voices,       \* voices
  Vocabulary,   \* voice -> its tokens, different from those of the others
  MaxEdges,     \* AM_COOC_MAX
  RingLen,      \* AM_COOC_CTX
  Window,       \* 5: how far a word reaches back; it reaches one less forward
  MaxText,       \* texts are sequences of at most that many tokens
  CntCap,       \* 1e6: no edge is stronger
  PruneFloor    \* the strength below which autumn forgets an edge

ASSUME SomaLimits ==
  /\ {MaxEdges, RingLen, Window, MaxText, CntCap, PruneFloor} \subseteq Nat \ {0} /\ PruneFloor <= CntCap
  /\ \A v, w \in Voices : v # w => Vocabulary[v] \cap Vocabulary[w] = {}

VARIABLES
  voice,    \* the process's voice
  words,    \* G's co-occurrence: edges [src, dst, cnt], their number in use, the ring of context
  own,      \* the words in use stand in no doubt: since the process began, or its sidecar was
            \* read back, no soma was loaded
  mixed,    \* whether the base settings, gamma's slots, and the edges, are of two makings: a
            \* load stopped among them, in this process or in one that saved what this one loaded
  soma,     \* the shared file: the parts of it that were written, and what was being saved
  sidecar   \* voice -> its file

somaVars == <<voice, words, own, mixed, soma, sidecar>>

EmptyWords == [src |-> <<>>, dst |-> <<>>, cnt |-> <<>>, n |-> 0, ring |-> <<>>]

(* Gamma lies in G as words: the name, the strength and the mark of slot after slot, the
   number of slots, then the essence and the faces. A soma that ends in gamma has so many. *)
SlotWords  == 3 * MaxGamma
GammaWords == SlotWords + 6

\* "base": the settings, up to the base temperature; "gamma": these whole, and so much of gamma.
SomaParts == {"none", "head", "base", "gamma", "sources", "all"}
SideParts == {"none", "head", "ring", "sources", "all"}
OneMaking == [field |-> FALSE, gamma |-> FALSE, words |-> FALSE]
NoSoma    == [part |-> "none", cut |-> 0, field |-> FreshField, gamma |-> EmptyGamma, words |-> EmptyWords,
              mixed |-> OneMaking]
NoSidecar == [part |-> "none", words |-> EmptyWords, own |-> TRUE, mixed |-> FALSE]

SomaInit == /\ voice \in Voices /\ words = EmptyWords /\ own = TRUE /\ mixed = OneMaking
            /\ soma = NoSoma /\ sidecar = [v \in Voices |-> NoSidecar]

-----------------------------------------------------------------------------
(* The words, as functions of the record w. Its arrays hold more than w.n edges after a
   load; the first w.n are in use. What pruning leaves behind them is not followed.      *)

Edges(w)      == 1..w.n
Placed(s, i, x)   == IF i <= Len(s) THEN [s EXCEPT ![i] = x] ELSE Append(s, x)
AppendedEdge(w, x, y, k) ==
  IF w.n >= MaxEdges THEN w
  ELSE [w EXCEPT !.src = Placed(@, w.n + 1, x), !.dst = Placed(@, w.n + 1, y), !.cnt = Placed(@, w.n + 1, k), !.n = @ + 1]

(* A slip: the scan ends before the last edge. *)
EdgeAtBeforeLast(w, x, y) == {i \in 1..(w.n - 1) : w.src[i] = x /\ w.dst[i] = y}

EdgeAt(w, x, y) == {i \in Edges(w) : w.src[i] = x /\ w.dst[i] = y}

Strong(k) == IF k > CntCap THEN CntCap ELSE k

(* am_cooc_update. What counts is bounded here by CntCap, too. *)
Occurred(w, x, y, k) ==
  IF EdgeAt(w, x, y) = {} THEN AppendedEdge(w, x, y, k)
  ELSE [w EXCEPT !.cnt[Min(EdgeAt(w, x, y))] = Strong(@ + k)]

(* am_ingest_tokens: word by word, each with its neighbours from left to right. The k-th
   pair that is looked at is the word it is at and the one beside it, if there is one.  *)
WordAt(k) == (k - 1) \div (2 * Window) + 1
Beside(k) == (WordAt(k) - Window) + ((k - 1) % (2 * Window))
Told(w, ids, k) ==
  IF Beside(k) \in DOMAIN ids \ {WordAt(k)}
  THEN Occurred(w, ids[WordAt(k)], ids[Beside(k)], IF WordAt(k) - Beside(k) \in {-1, 1} THEN 2 ELSE 1)
  ELSE w

Ingested(w, ids) ==
  LET n == Len(ids)
      told[k \in 0..(2 * Window * n)] == IF k = 0 THEN w ELSE Told(told[k - 1], ids, k)
  IN  [told[2 * Window * n] EXCEPT !.ring = SubSeq(ids, IF n > RingLen THEN n - RingLen + 1 ELSE 1, n)]

(* am_cooc_consolidate: edges from the median up are strengthened, the rest weakened, and
   what is below the floor is taken out, the rest closing up in order. *)
Median(w) == SortSeq([i \in Edges(w) |-> w.cnt[i]], <)[w.n \div 2 + 1]
Aged(w, i) == IF w.cnt[i] >= Median(w) THEN Strong(w.cnt[i] + 1) ELSE w.cnt[i] - 1

Consolidated(w) ==
  LET kept[r \in 0..w.n] ==
        IF r = 0 THEN <<>> ELSE IF Aged(w, r) >= PruneFloor THEN Append(kept[r - 1], r) ELSE kept[r - 1]
      k == kept[w.n]
  IN  IF w.n = 0 THEN w
      ELSE [w EXCEPT !.src = [i \in DOMAIN k |-> w.src[k[i]]], !.dst = [i \in DOMAIN k |-> w.dst[k[i]]],
                     !.cnt = [i \in DOMAIN k |-> Aged(w, k[i])], !.n = Len(k)]

-----------------------------------------------------------------------------
(* What a load leaves of the arrays: the new ones as far as they were written, and what is
   beyond them as it was. *)
Over(new, old) == new \o SubSeq(old, Len(new) + 1, Len(old))
OverSources(w, new) == [w EXCEPT !.src = Over(new, @)]
OverEdges(w, new)   == [w EXCEPT !.src = Over(new.src, @), !.dst = Over(new.dst, @), !.cnt = Over(new.cnt, @)]

(* What a load leaves of gamma: its first words new, the others as they were. A name that is
   cut is taken for one or the other. *)
SlotOver(new, old, first, cut) ==
  [name   |-> IF first + 1 <= cut THEN new.name ELSE old.name,
   alpha  |-> IF first + 2 <= cut THEN new.alpha ELSE old.alpha,
   active |-> IF first + 3 <= cut THEN new.active ELSE old.active]
GammaOver(new, old, cut) ==
  [slots   |-> [i \in GammaSlots |-> SlotOver(new.slots[i], old.slots[i], 3 * i, cut)],
   n       |-> IF SlotWords + 1 <= cut THEN new.n ELSE old.n,
   essence |-> IF SlotWords + 2 <= cut THEN new.essence ELSE old.essence,
   janus   |-> IF SlotWords + 3 <= cut THEN new.janus ELSE old.janus,
   a       |-> IF SlotWords + 4 <= cut THEN new.a ELSE old.a,
   b       |-> IF SlotWords + 5 <= cut THEN new.b ELSE old.b,
   blend   |-> IF SlotWords + 6 <= cut THEN new.blend ELSE old.blend]

(* am_field_load. The head tells a soma of this build; a file that ends later has been read
   into G as far as it goes. *)
LoadSoma ==
  /\ Counted /\ stepped' = FALSE /\ UNCHANGED <<byHand, method, voice, soma, sidecar>>
  /\ LET p == soma.part IN
       /\ field' = CASE p \in {"none", "head"} -> field
                     [] p = "base" -> [field EXCEPT !.mode = soma.field.mode, !.base = soma.field.base,
                                              !.debt = soma.field.debt, !.set = [s \in Settings |->
                                                IF s \in {"wormhole_gate", "calendar_phase"} THEN @[s] ELSE soma.field.set[s]]]
                     [] OTHER -> soma.field
       /\ gamma' = CASE p \in {"none", "head", "base"} -> gamma
                     [] p = "gamma" -> GammaOver(soma.gamma, gamma, soma.cut)
                     [] OTHER -> soma.gamma
       /\ words' = CASE p = "all" -> soma.words
                     [] p = "sources" -> OverSources(words, soma.words.src)
                     [] OTHER -> words
       /\ own' = (own /\ p \notin {"sources", "all"})
       /\ mixed' = [field |-> CASE p \in {"none", "head"} -> mixed.field
                                 [] p = "base" -> TRUE
                                 [] OTHER -> soma.mixed.field,
                    gamma |-> CASE p \in {"none", "head", "base"} -> mixed.gamma
                                [] p = "gamma" /\ soma.cut = 0 -> mixed.gamma
                                [] p = "gamma" /\ soma.cut \in 1..SlotWords -> TRUE
                                [] OTHER -> soma.mixed.gamma,
                    words |-> CASE p = "all" -> soma.mixed.words
                                 [] p = "sources" -> TRUE
                                 [] OTHER -> mixed.words]

(* am_field_save: the file is truncated first. A disk that is full stops it; so does a crash. *)
SaveSoma == /\ Counted
            /\ \E p \in SomaParts \ {"none"}, k \in 0..GammaWords :
                 /\ p # "gamma" => k = 0
                 /\ soma' = [part |-> p, cut |-> k, field |-> field, gamma |-> gamma, words |-> words, mixed |-> mixed]
            /\ stepped' = FALSE /\ UNCHANGED <<field, gamma, byHand, method, voice, words, own, mixed, sidecar>>

(* am_cooc_load. A missing file changes nothing. The number is taken last, but what was read
   before the file ended is in place. *)
LoadSidecar ==
  /\ Counted /\ stepped' = FALSE /\ UNCHANGED <<field, gamma, byHand, method, voice, soma, sidecar>>
  /\ LET f == sidecar[voice] IN
       /\ words' = CASE f.part \in {"none", "head"} -> words
                     [] f.part = "ring" -> [words EXCEPT !.ring = f.words.ring]
                     [] f.part = "sources" -> [OverSources(words, f.words.src) EXCEPT !.ring = f.words.ring]
                     [] f.part = "all" -> [OverEdges(words, f.words) EXCEPT !.ring = f.words.ring, !.n = f.words.n]
       /\ own' = IF f.part = "all" THEN f.own ELSE own /\ (f.part # "sources" \/ f.own)
       /\ mixed' = [mixed EXCEPT !.words = IF f.part = "all" THEN f.mixed ELSE @ \/ f.part = "sources"]

(* am_cooc_save: as many edges as are in use. *)
SaveSidecar ==
  /\ Counted /\ stepped' = FALSE /\ UNCHANGED <<field, gamma, byHand, method, voice, words, own, mixed, soma>>
  /\ LET w == [words EXCEPT !.src = SubSeq(@, 1, words.n), !.dst = SubSeq(@, 1, words.n), !.cnt = SubSeq(@, 1, words.n)]
     IN  \E p \in SideParts \ {"none"} : sidecar' = [sidecar EXCEPT ![voice] = [part |-> p, words |-> w, own |-> own,
                                                                        mixed |-> mixed.words]]

(* The process ends or crashes; the next one calls am_init. *)
Restart == /\ Counted /\ stepped' = FALSE /\ UNCHANGED <<soma, sidecar>>
           /\ field' = FreshField /\ gamma' = EmptyGamma /\ byHand' = FALSE /\ method' = NoMethod
           /\ voice' \in Voices /\ words' = EmptyWords /\ own' = TRUE /\ mixed' = OneMaking

Ingest == /\ Counted /\ \E ids \in BoundedSeq(Vocabulary[voice], MaxText) : ids # <<>> /\ words' = Ingested(words, ids)
          /\ stepped' = FALSE /\ UNCHANGED <<field, gamma, byHand, method, voice, own, mixed, soma, sidecar>>

(* am_cooc_consolidate_autumn, and a host's own call. *)
Consolidate == /\ Counted /\ words' = Consolidated(words)
               /\ stepped' = FALSE /\ UNCHANGED <<field, gamma, byHand, method, voice, own, mixed, soma, sidecar>>

SomaNext == LoadSoma \/ SaveSoma \/ LoadSidecar \/ SaveSidecar \/ Restart \/ Ingest \/ Consolidate

-----------------------------------------------------------------------------
SomaVars  == <<fieldVars, somaVars>>
SomaSpec  == FieldInit /\ SomaInit /\ [][(FieldNext /\ UNCHANGED somaVars) \/ SomaNext]_SomaVars

(* Two words have one edge, however they were met, weakened, forgotten and met again, saved
   and loaded: their strength is not spread over two and no slot is lost; the exception are
   edges of two makings. And a voice that was given back its own words, or that has loaded
   no soma, has no word of another voice's, whatever a load stopped at.                  *)
WordsAreOwnAndOnce ==
  /\ words.n <= MaxEdges /\ Len(words.ring) <= RingLen
  /\ {Len(words.src), Len(words.dst), Len(words.cnt)} \subseteq words.n..MaxEdges
  /\ ~mixed.words => \A i, j \in Edges(words) : words.src[i] = words.src[j] /\ words.dst[i] = words.dst[j] => i = j
  /\ own => \A i \in Edges(words) : {words.src[i], words.dst[i]} \subseteq Vocabulary[voice]

(* A field that was carried over a restart is as coherent as one that was set by commands,
   wherever the files ended, with two exceptions: base settings of two makings, which the
   next step of the field puts right; and gamma slots of two makings, or with the number of
   another making, which stay as unsettled as the load left them. Even then no face and no
   number leads out of the table.                                                       *)
RestoredFieldFollows ==
  /\ GammaIsInTable /\ (~mixed.gamma => GammaIsSettled)
  /\ MethodFollows
  /\ ~mixed.field \/ stepped => TemperatureFollows
=============================================================================
