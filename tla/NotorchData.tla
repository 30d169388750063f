------------------------------- MODULE NotorchData -------------------------------
(* How notorch feeds a training loop (notorch.c): the BPE tokenizer, the dataloader with
   its epochs, and the learning-rate schedules, which AML has a copy of
   (ariannamethod.c). A byte is a number below Bytes, merge m makes the token
   Bytes + m - 1, and a batch is given as the positions its inputs were read at, each
   with its target the token behind it. Rates are integers and quotients rounded down;
   the cosine is a curve that falls from 1 to 0 as it does.                           *)
EXTENDS Integers, Sequences, SequencesExt, FiniteSets, FiniteSetsExt, Functions

CONSTANTS
  Bytes,         \* 256
  MaxTokenLen,   \* NT_BPE_MAX_TOKEN_LEN
  MergeLists,    \* what merges files may hold
  Texts,         \* what may be encoded, not empty
  TextFiles,     \* what the text files of loaders hold
  MergesFiles,   \* what the merges files of loaders hold
  Sizes,         \* seq_len and batch_size of the loaders
  MaxEpochs,     \* bound on the epochs
  Schedules,     \* what schedules are made of
  MaxSteps       \* bound on the steps of a schedule

ASSUME DataLimits == /\ {Bytes, MaxTokenLen} \subseteq Nat \ {0}
                     /\ \A t \in Texts \union TextFiles : t # <<>> /\ Range(t) \subseteq 0..(Bytes - 1)

VARIABLES
  loader,   \* nt_dataloader, or NoLoader
  given,    \* the batches handed out in this epoch: positions of the inputs
  ended,    \* an epoch has just ended that was not reset
  schedule, \* nt_schedule, or NoSchedule
  rates     \* the rates it gave

dataVars == <<loader, given, ended, schedule, rates>>

-----------------------------------------------------------------------------
(* nt_bpe: the merges, pairs of tokens, in the order they were learned. *)

(* bpe_build_decode_table: tokens[i] for every id made so far. One that is too long
   stays empty. *)
DecodeTable(merges) ==
  LET expansion(tokens, id) == IF id < Len(tokens) THEN tokens[id + 1] ELSE <<>>
      made(tokens, m) ==
        LET bytes == expansion(tokens, m[1]) \o expansion(tokens, m[2])
        IN  Append(tokens, IF Len(bytes) < MaxTokenLen THEN bytes ELSE <<>>)
  IN  FoldLeft(made, [i \in 1..Bytes |-> <<i - 1>>], merges)

(* One pass of a merge: out and its two pointers; a token that may begin the pair is
   held until the next one is seen. *)
Pass(tokens, m, id) ==
  LET seen(w, t) == IF w.held = <<m[1]>> /\ t = m[2] THEN [out |-> Append(w.out, id), held |-> <<>>]
                    ELSE [out |-> w.out \o w.held, held |-> <<t>>]
      end == FoldLeft(seen, [out |-> <<>>, held |-> <<>>], tokens)
  IN  end.out \o end.held

(* nt_bpe_encode of the first bytes of a text, as many as there is room for. *)
nt_bpe_encode(merges, text, most) ==
  FoldLeftDomain(LAMBDA tokens, m : Pass(tokens, merges[m], Bytes + m - 1), SubSeq(text, 1, most), merges)

nt_bpe_decode(merges, tokens, most) ==
  LET table == DecodeTable(merges)
      written(w, id) ==
        IF w.full \/ id \notin 0..(Len(table) - 1) THEN w
        ELSE IF Len(w.out) + Len(table[id + 1]) >= most THEN [w EXCEPT !.full = TRUE]
        ELSE [w EXCEPT !.out = @ \o table[id + 1]]
  IN  FoldLeft(written, [out |-> <<>>, full |-> FALSE], tokens).out

(* What BPE means: while a pair of some merge is left, the earliest learned one is merged
   where it comes first. *)
MergedByRank(merges, text) ==
  LET places(tokens) == {<<m, i>> \in (DOMAIN merges) \X (1..(Len(tokens) - 1)) :
                           <<tokens[i], tokens[i + 1]>> = merges[m]}
      step(tokens) ==
        LET m == Min({p[1] : p \in places(tokens)})
            i == Min({p[2] : p \in {q \in places(tokens) : q[1] = m}})
        IN  SubSeq(tokens, 1, i - 1) \o <<Bytes + m - 1>> \o SubSeq(tokens, i + 2, Len(tokens))
  IN  FoldLeft(LAMBDA tokens, k : IF places(tokens) = {} THEN tokens ELSE step(tokens), text, text)

\* Learned in this order: of bytes and earlier merges, none too long for its entry.
Learned(merges) ==
  /\ \A m \in DOMAIN merges : Range(merges[m]) \subseteq 0..(Bytes + m - 2)
  /\ <<>> \notin Range(DecodeTable(merges))

(* The passes over the whole text, one for each merge, do what BPE means, and decoding
   gives the text back. *)
TextSurvives ==
  \A merges \in MergeLists, text \in Texts : Learned(merges) =>
    LET tokens == nt_bpe_encode(merges, text, Len(text))
    IN  /\ tokens = MergedByRank(merges, text)
        /\ nt_bpe_decode(merges, tokens, Len(text) + 1) = text

-----------------------------------------------------------------------------
NoLoader == [tokens |-> <<>>]

(* A slip: the last token counts as an input, though it has no target. *)
nt_dataloader_from_tokensAll(tokens, s) ==
  LET batches == Len(tokens) \div (s.seq * s.batch)
      n == Max({batches, 1})
  IN  IF Len(tokens) < s.seq + 1 THEN NoLoader
      ELSE [tokens |-> tokens, seq |-> s.seq, batch |-> s.batch, n |-> n,
            order |-> [i \in 1..n |-> i - 1], idx |-> 0, epoch |-> 0]

nt_dataloader_from_tokens(tokens, s) ==
  LET batches == (Len(tokens) - 1) \div (s.seq * s.batch)
      n == Max({batches, 1})
  IN  IF Len(tokens) < s.seq + 1 THEN NoLoader
      ELSE [tokens |-> tokens, seq |-> s.seq, batch |-> s.batch, n |-> n,
            order |-> [i \in 1..n |-> i - 1], idx |-> 0, epoch |-> 0]

nt_dataloader_create ==
  /\ loader = NoLoader
  /\ \E text \in TextFiles, merges \in MergesFiles, s \in Sizes :
       loader' = nt_dataloader_from_tokens(nt_bpe_encode(merges, text, Len(text)), s)
  /\ UNCHANGED <<given, ended>>

(* xorshift32() % (i + 1), any number. *)
Shuffled(order) ==
  LET draws == {j \in [2..Len(order) -> DOMAIN order] : \A i \in DOMAIN j : j[i] <= i}
      swapped(o, i, k) == [o EXCEPT ![i] = o[k], ![k] = o[i]]
  IN  {FoldLeft(LAMBDA o, d : LET i == Len(order) + 1 - d IN IF i = 1 THEN o ELSE swapped(o, i, j[i]),
                order, [i \in DOMAIN order |-> i]) : j \in draws}

Positions(l) ==
  LET start == l.order[l.idx + 1] * l.seq * l.batch
  IN  [p \in 1..(l.seq * l.batch) |-> Min({start + p - 1, Len(l.tokens) - 2})]

nt_dataloader_next ==
  /\ loader # NoLoader
  /\ IF loader.idx >= loader.n
       THEN /\ loader.epoch < MaxEpochs
            /\ \E o \in Shuffled(loader.order) :
                 loader' = [loader EXCEPT !.epoch = @ + 1, !.idx = 0, !.order = o]
            /\ ended' = TRUE /\ UNCHANGED given
       ELSE /\ loader' = [loader EXCEPT !.idx = @ + 1]
            /\ given' = Append(IF ended THEN <<>> ELSE given, Positions(loader))
            /\ ended' = FALSE

nt_dataloader_reset ==
  /\ loader # NoLoader /\ loader.idx > 0
  /\ loader' = [loader EXCEPT !.idx = 0] /\ given' = <<>> /\ ended' = FALSE

nt_dataloader_free == loader # NoLoader /\ loader' = NoLoader /\ given' = <<>> /\ ended' = FALSE

(* An epoch gives every token that is followed by another once as an input, in whatever
   order the batches are shuffled, but for the last ones that fill no batch; a text
   shorter than a batch is given whole, its end again and again. Every input has its
   target. *)
EpochsAreWhole ==
  LET positions == FlattenSeq(given)
      inputs == Len(loader.tokens) - 1
      size == loader.seq * loader.batch
  IN  loader # NoLoader =>
        /\ Range(positions) \subseteq 0..(inputs - 1)
        /\ ended => IF inputs < size THEN Range(positions) = 0..(inputs - 1)
                    ELSE IsInjective(positions) /\ Range(positions) = 0..((inputs \div size) * size - 1)

-----------------------------------------------------------------------------
NoSchedule == [type |-> "none"]

(* am_schedule_cosine, _step and _linear, which begin with a zeroed schedule. *)
Falling(type, base, warmup, total, min) ==
  [type |-> type, base |-> base, min |-> min, warmup |-> warmup, total |-> Max({total, 1}),
   size |-> 0, gamma |-> <<0, 1>>]
Stepwise(base, warmup, size, gamma) ==
  [type |-> "step", base |-> base, min |-> 0, warmup |-> warmup, total |-> 0,
   size |-> Max({size, 1}), gamma |-> IF gamma[1] > 0 THEN gamma ELSE <<1, 10>>]

(* A slip: progress is not held at 1. *)
GetLrOn(s, step) ==
  LET decay == step - s.warmup
      span == s.total - s.warmup
      n == decay \div s.size
      height == s.base - s.min
  IN  CASE step < s.warmup -> s.min + (step * height) \div s.warmup
        [] step >= s.warmup /\ s.type = "step" -> (s.base * s.gamma[1] ^ n) \div (s.gamma[2] ^ n)
        [] step >= s.warmup /\ s.type # "step" /\ span <= 0 -> s.base
        [] step >= s.warmup /\ s.type = "linear" /\ span > 0 -> s.base - (decay * height) \div span
        [] OTHER -> s.min + (height * (span - decay) ^ 2 * (span + 2 * decay)) \div span ^ 3

GetLr(s, step) ==
  LET decay == step - s.warmup
      span == s.total - s.warmup
      done == Min({decay, span})
      n == decay \div s.size
      height == s.base - s.min
  IN  CASE step < s.warmup -> s.min + (step * height) \div s.warmup
        [] step >= s.warmup /\ s.type = "step" -> (s.base * s.gamma[1] ^ n) \div (s.gamma[2] ^ n)
        [] step >= s.warmup /\ s.type # "step" /\ span <= 0 -> s.base
        [] step >= s.warmup /\ s.type = "linear" /\ span > 0 -> s.base - (done * height) \div span
        [] OTHER -> s.min + (height * (span - done) ^ 2 * (span + 2 * done)) \div span ^ 3

(* TAPE LR_COSINE, LR_STEP and LR_LINEAR; a call of nt_schedule_*. *)
SetSchedule ==
  /\ schedule = NoSchedule
  /\ \E c \in Schedules :
       schedule' = IF c.type = "step" THEN Stepwise(c.base, c.warmup, c.span, c.gamma)
                   ELSE Falling(c.type, c.base, c.warmup, c.span, c.min)
  /\ UNCHANGED rates

(* TAPE LR_NEXT; nt_schedule_get_lr. *)
NextRate ==
  /\ schedule # NoSchedule /\ Len(rates) < MaxSteps
  /\ rates' = Append(rates, GetLr(schedule, Len(rates))) /\ UNCHANGED schedule

(* A rate rises to the base while the schedule warms up and never after; it stays
   between the least rate and the base; and when the steps are over it is the least one,
   however many more are asked for, unless the warm-up took them all. *)
RatesRiseThenFall ==
  \A i \in DOMAIN rates :
    /\ rates[i] \in schedule.min..schedule.base
    /\ i = schedule.warmup + 1 => rates[i] = schedule.base
    /\ i > 1 => IF i <= schedule.warmup + 1 THEN rates[i - 1] <= rates[i] ELSE rates[i - 1] >= rates[i]
    /\ schedule.type # "step" /\ i > Max({schedule.total, schedule.warmup}) =>
         rates[i] = IF schedule.total <= schedule.warmup THEN schedule.base ELSE schedule.min

(* What is trained is the text: its tokens are those BPE means and can be read back, an
   epoch gives all of them once, and the rate of each step is the one its schedule is
   named for. *)
TextIsTrainedWhole == TextSurvives /\ EpochsAreWhole /\ RatesRiseThenFall

-----------------------------------------------------------------------------
DataInit == loader = NoLoader /\ given = <<>> /\ ended = FALSE /\ schedule = NoSchedule /\ rates = <<>>

LoaderNext == /\ nt_dataloader_create \/ nt_dataloader_next \/ nt_dataloader_reset \/ nt_dataloader_free
              /\ UNCHANGED <<schedule, rates>>
ScheduleNext == (SetSchedule \/ NextRate) /\ UNCHANGED <<loader, given, ended>>
=============================================================================
