------------------------------ MODULE NotorchTape ------------------------------
(***************************************************************************)
(* notorch's training step (notorch.c): the parameters put on the tape in   *)
(* an order the program keeps, the forward operations, nt_tape_backward,    *)
(* the gradient utilities, the optimizers with their slots, LoRA adapters,  *)
(* and what is read and written on the host and on the device meanwhile.    *)
(*                                                                          *)
(* The order of the calls is the trainers': start, parameters, input,       *)
(* operations, backward, utilities, one step.  Everything else is free.     *)
(***************************************************************************)
EXTENDS NotorchOps, FiniteSetsExt

CONSTANTS Base,              \* the tensors the program registers itself
          AdapterA, AdapterB,\* lora->A, lora->B
          MaxParams,         \* NT_TAPE_MAX_PARAMS
          Plans,             \* registration orders: sequences of <<tensor, how>>
          GraphPlans,        \* those whose last step ends after any graph and its backward
          MaxOps, MaxSessions,
          Warmers, Feeders   \* operations of the other steps, and those others follow

Weights == Base \cup {AdapterA, AdapterB}
Hows == {"param", "frozen", "freeze"}

ASSUME TapeAssumption ==
  /\ AdapterA # AdapterB /\ {AdapterA, AdapterB} \cap Base = {}
  /\ MaxParams \in Nat \ {0} /\ {MaxOps, MaxSessions} \subseteq Nat
  /\ Plans \subseteq Seq(Base \X Hows) /\ GraphPlans \subseteq Plans
  /\ \A p \in Plans : Len(p) < MaxEntries   \* the parameters and the input fit on the tape

VARIABLES tape,              \* g_tape.entries[0 .. count - 1]
          mem,               \* the mirrors of the tensors alive
          nParams,           \* g_tape.n_params
          slots,             \* g_tape.adam, acc_grad and chuck_params, by slot
          gpu, room,         \* g_use_gpu; the memory the device has left
          phase,             \* where the trainer is in its step
          session, plan, ops,\* the step's number, its parameters, its operations
          misread,           \* stale reads of the last call
          poked,             \* tensors whose host copy was written behind the flags
          stepped,           \* <<entry, slot>> the optimizer stepped this session
          summed,            \* accumulated gradients were applied this session
          uneven             \* some accumulation met a parameter without a gradient

vars == <<tape, mem, nParams, slots, gpu, room, phase, session, plan, ops, misread, poked, stepped,
          summed, uneven>>

Phases == {"idle", "register", "forward", "graded", "ready", "kept", "stepped"}

\* nt_adam_state with its acc_grad, and nt_chuck_param_state.  hist and acc say
\* whose gradients went into m and v, and into acc_grad.
FreshSlot == [used |-> FALSE, hist |-> {}, hasAcc |-> FALSE, acc |-> {}, frozen |-> FALSE]

State == [tape |-> tape, mem |-> mem, gpu |-> gpu, room |-> room, misread |-> {}, ret |-> 0,
          n |-> nParams, slots |-> slots]

Become(s) == tape' = s.tape /\ mem' = s.mem /\ nParams' = s.n /\ slots' = s.slots /\ misread' = s.misread

Init ==
  /\ tape = <<>> /\ nParams = 0 /\ slots = [k \in 1..MaxParams |-> FreshSlot]
  /\ mem = [id \in {<<"weight", w>> : w \in Weights} |-> Authored]
  /\ gpu \in BOOLEAN /\ room = "plenty" /\ phase = "idle" /\ session = 0
  /\ plan \in Plans /\ ops = 0
  /\ misread = {} /\ poked = {} /\ stepped = {} /\ summed = FALSE /\ uneven = FALSE

-----------------------------------------------------------------------------
\* Registration.

\* nt_tape_clear: the parameters and the optimizer's slots outlive the tape.
Cleared(s) ==
  [s EXCEPT !.tape = <<>>, !.n = 0,
            !.mem = [id \in {j \in DOMAIN s.mem : j[1] \in {"weight", "slot"}} |-> s.mem[id]]]

ParamEntry(w, k) == [Entry("NONE", <<"weight", w>>, <<>>) EXCEPT !.param = TRUE, !.slot = k]

\* nt_tape_param: an entry and, below the limit, the next slot; the moments of
\* a slot used before are kept.
nt_tape_param(s, w) ==
  LET i == Len(s.tape) + 1
      k == IF s.n < MaxParams THEN s.n + 1 ELSE 0
      f == IF k = 0 \/ s.slots[k].used THEN s ELSE [With(s, <<"slot", k>>, Authored) EXCEPT !.slots[k].used = TRUE]
  IN  IF i > MaxEntries THEN Fail(s)
      ELSE [f EXCEPT !.tape = Append(@, ParamEntry(w, k)), !.n = IF k = 0 THEN @ ELSE @ + 1, !.ret = i]

\* nt_tape_param_frozen: an entry without a slot.
nt_tape_param_frozen(s, w) ==
  LET i == Len(s.tape) + 1
  IN  IF i > MaxEntries THEN Fail(s)
      ELSE [s EXCEPT !.tape = Append(@, [ParamEntry(w, 0) EXCEPT !.frozen = TRUE]), !.ret = i]

\* nt_tape_freeze_param: one index, for the slot and for the entry.
nt_tape_freeze_param(s, i) ==
  [s EXCEPT !.slots = [k \in 1..MaxParams |-> IF k = i /\ k <= s.n THEN [@[k] EXCEPT !.frozen = TRUE] ELSE @[k]],
            !.tape  = [j \in DOMAIN @ |-> IF j = i THEN [@[j] EXCEPT !.frozen = TRUE] ELSE @[j]]]

\* Bounds: any graph in the last step of some plans, which then ends there; one
\* of a few operations, and any update, in every other step.
AnyGraph == plan \in GraphPlans /\ session = MaxSessions

\* The device fills up in the last step of a graph plan only, and stays full (a
\* bound of the model).
RoomsLeft == IF gpu /\ AnyGraph /\ room = "plenty" THEN Rooms ELSE {room}

\* nt_tape_start.
Start ==
  /\ phase \in {"idle", "ready", "kept", "stepped"} /\ session < MaxSessions
  /\ Become(Cleared(State))
  /\ session' = session + 1
  /\ UNCHANGED <<gpu, plan, uneven>>
  /\ room' \in IF gpu /\ AnyGraph' THEN Rooms ELSE {"plenty"}
  /\ phase' = "register" /\ ops' = 0 /\ stepped' = {}
  /\ poked' = {id \in poked : id[1] \in {"weight", "slot"}}
  /\ summed' = FALSE

\* The next parameter of the program.
Register ==
  /\ phase = "register" /\ Len(tape) < Len(plan)
  /\ LET w == plan[Len(tape) + 1][1]
         how == plan[Len(tape) + 1][2]
         p == nt_tape_param(State, w)
     IN  Become(CASE how = "param" -> p
                  [] how = "frozen" -> nt_tape_param_frozen(State, w)
                  [] how = "freeze" -> nt_tape_freeze_param(p, p.ret))
  /\ UNCHANGED <<gpu, room, phase, session, plan, ops, poked, stepped, summed, uneven>>

\* The input, recorded as a leaf the host filled.
Input ==
  /\ phase = "register" /\ Len(tape) = Len(plan)
  /\ Become(Record(State, "NONE", <<>>, Authored))
  /\ phase' = "forward"
  /\ UNCHANGED <<gpu, room, session, plan, ops, poked, stepped, summed, uneven>>

-----------------------------------------------------------------------------
\* Forward.  W: entries of parameters; X: the input and what was computed.
W == {i \in DOMAIN tape : tape[i].param}
X == {i \in DOMAIN tape : ~tape[i].param}
LastEntry == Max(X)

\* nt_lora_forward: registers A and B, then y = W x + scaling * B (A x).
nt_lora_forward(s, w, x) ==
  LET a == nt_tape_param(s, AdapterA)
      b == nt_tape_param(a, AdapterB)
      wx  == nt_seq_linear(b, w, x)
      ax  == nt_seq_linear(wx, a.ret, x)
      bax == nt_seq_linear(ax, b.ret, ax.ret)
      sc  == nt_scale(bax, bax.ret)
  IN  IF a.ret = 0 \/ b.ret = 0 THEN [b EXCEPT !.ret = 0]
      ELSE IF wx.ret = 0 THEN wx ELSE IF ax.ret = 0 THEN ax
      ELSE IF bax.ret = 0 THEN bax ELSE IF sc.ret = 0 THEN sc
      ELSE nt_add(sc, wx.ret, sc.ret, TRUE)

Op(name, s) ==
  /\ ops < MaxOps
  /\ ~AnyGraph => name \in Warmers /\ ops = 0
  /\ AnyGraph /\ ops + 1 < MaxOps => name \in Feeders
  /\ Become(s) /\ ops' = ops + 1
  /\ UNCHANGED <<gpu, room, phase, session, plan, poked, stepped, summed, uneven>>

\* The operations of one activation.
Unary ==
  phase = "forward" /\ \E x \in {LastEntry} :
    \/ Op("silu", nt_silu(State, x))
    \/ Op("sigmoid", nt_sigmoid(State, x))
    \/ Op("softmax", nt_softmax(State, x))
    \/ Op("scale", nt_scale(State, x))
    \/ \E enabled \in BOOLEAN : Op("rope", nt_rope_freq(State, x, enabled))
    \/ Op("rope_split", nt_rope_split_half_freq(State, x))
    \/ Op("dropout", nt_dropout(State, x))
    \/ Op("gelu", nt_gelu(State, x))
    \/ Op("cross_entropy", nt_cross_entropy(State, x))

\* Those of a parameter and an activation.
Weighted ==
  phase = "forward" /\ \E w \in W, x \in {LastEntry} :
    \/ Op("embedding", nt_embedding(State, w))
    \/ \E wpe \in {0} \cup W : Op("seq_embedding", nt_seq_embedding(State, w, wpe, x))
    \/ \E bias \in {0} \cup W : Op("linear", nt_linear(State, w, x, bias))
    \/ Op("seq_linear", nt_seq_linear(State, w, x))
    \/ Op("seq_linear_t", nt_seq_linear_t(State, w, x))
    \/ Op("rmsnorm", nt_rmsnorm(State, x, w))
    \/ Op("seq_rmsnorm", nt_seq_rmsnorm(State, x, w))
    \/ Op("scale_by_t", nt_scale_by_t(State, x, w))
    \/ Op("bit_linear", nt_bit_linear(State, w, x))
    \/ Op("bit_seq_linear", nt_bit_seq_linear(State, w, x))
    \/ \E u \in W : \/ Op("geglu", nt_geglu(State, x, w, u))
                    \/ Op("layernorm", nt_layernorm(State, x, w, u))
                    \/ Op("seq_layernorm", nt_seq_layernorm(State, x, w, u))
    \/ Op("lora", nt_lora_forward(State, w, x))

\* Those of several activations.
Joined ==
  phase = "forward" /\ \E x \in X :
    \/ \E alike \in BOOLEAN : \/ Op("add", nt_add(State, x, LastEntry, alike))
                              \/ Op("mul", nt_mul(State, x, LastEntry, alike))
    \/ Op("concat", nt_concat(State, x, LastEntry))
    \/ Op("swiglu", nt_swiglu(State, LastEntry, x))
    \/ Op("seq_cross_entropy", nt_seq_cross_entropy(State, LastEntry, x))
    \/ \E active \in BOOLEAN :
         Op("seq_cross_entropy_masked", nt_seq_cross_entropy_masked(State, LastEntry, x, x, active))

\* Attention: the query is the last activation.
Attention ==
  phase = "forward" /\ \E k \in X, v \in {LastEntry} :
    \/ Op("causal_attention", nt_causal_attention(State, v, k, v))
    \/ \E enabled \in BOOLEAN : Op("mh_causal", nt_mh_causal_attention(State, v, k, v, enabled))
    \/ Op("gqa", nt_gqa_causal_attention(State, v, k, v))
    \/ \E w \in W : \/ Op("rrpram", nt_rrpram_attention(State, w, k, v))
                    \/ Op("rrpram_lowrank", nt_rrpram_lowrank_attention(State, w, k, v))
                    \/ Op("rrpram_broadcast", nt_rrpram_broadcast_attention(State, w, k, v))

-----------------------------------------------------------------------------
\* Backward.

\* nt_tape_backward: the loss's gradient is one; then the entries from the loss
\* down, those that have a gradient, pulled to the host first.
nt_tape_backward(s, loss) ==
  LET g == {<<"grad", loss>>}
      ones(t) == MarkCpuDirty(HostWritten(t))
      start == [Changed(NewGrad(s, loss), g, ones) EXCEPT !.tape[loss].sum = {<<0, 1>>}]
      after[n \in 0..loss] ==
        IF n = 0 THEN start
        ELSE LET r == after[n - 1]
                 i == loss + 1 - n
             IN  IF HasGrad(r, i) THEN OpBackward(Pull(r, {<<"grad", i>>}), i) ELSE r
  IN  after[loss]

Backward ==
  /\ phase = "forward" /\ ops > 0
  /\ \E r \in RoomsLeft :
       /\ room' = r
       /\ Become(nt_tape_backward([State EXCEPT !.room = r], LastEntry))
  /\ phase' = "graded"
  /\ UNCHANGED <<gpu, session, plan, ops, poked, stepped, summed, uneven>>

-----------------------------------------------------------------------------
\* Gradient utilities.  Params: the registered entries in order; Graded: those
\* of them with a gradient; Rank: an entry's place in such a list.
Params(s) == {i \in DOMAIN s.tape : s.tape[i].param}
Graded(s) == {i \in Params(s) : HasGrad(s, i)}
Rank(i, S) == Cardinality({j \in S : j <= i})
Grads(S) == {<<"grad", i>> : i \in S}
WeightOf(s, i) == s.tape[i].data[2]

\* What a write on the host leaves wrong when nobody marks it.
Unmarked(s, ids) == {id \in Held(s, ids) : s.mem[id].dev # "absent"}

\* nt_tape_clip_grads; over: the norm is beyond the limit.
nt_tape_clip_grads(s, over) ==
  LET ids == Grads(Graded(s))
      up == IF s.gpu THEN Upload(s, ids) ELSE s
      onDev == {id \in ids : s.gpu /\ up.mem[id].dev # "absent"}
      r == HostReads(DevReads(IF s.gpu THEN Pull(up, ids \ onDev) ELSE up, "update", "clip", onDev),
                     "update", "clip", ids \ onDev)
      scaled(t) == IF t.dev # "absent" /\ s.gpu THEN MarkGpuFresh(DevWritten(t)) ELSE MarkCpuDirty(HostWritten(t))
  IN  IF over THEN Changed(r, ids, scaled) ELSE r

Clip ==
  /\ phase = "graded" /\ ~AnyGraph
  /\ \E over \in BOOLEAN : Become(nt_tape_clip_grads(State, over))
  /\ phase' = "ready"
  /\ UNCHANGED <<gpu, room, session, plan, ops, poked, stepped, summed, uneven>>

\* nt_nan_guard_check: looks until it finds a bad gradient (`bad`, 0 for none);
\* then every host copy is zeroed and the trainer leaves the step out.
Guard ==
  /\ phase = "graded" /\ ~AnyGraph
  /\ LET seen(bad) == {i \in Graded(State) : bad = 0 \/ i <= bad}
         up(bad) == IF gpu THEN Upload(State, Grads(seen(bad))) ELSE State
     IN  \/ /\ Become(up(0))
            /\ phase' = "ready" /\ UNCHANGED poked
         \/ \E bad \in Graded(State) :
              /\ Become(Changed(up(bad), Grads(Graded(State)), HostWritten))
              /\ poked' = poked \cup Unmarked(up(bad), Grads(Graded(State)))
              /\ phase' = "stepped"
  /\ UNCHANGED <<gpu, room, session, plan, ops, stepped, summed, uneven>>

\* nt_tape_accum_grads: counts the entries that have a gradient.
nt_tape_accum_grads(s) ==
  LET S == {i \in Graded(s) : Rank(i, Graded(s)) <= s.n}
      r == HostReads(s, "update", "accum", Grads(S))
  IN  [r EXCEPT !.slots = [k \in 1..MaxParams |->
         LET own == {i \in S : Rank(i, Graded(s)) = k}
         IN  IF own = {} THEN @[k]
             ELSE [@[k] EXCEPT !.hasAcc = TRUE, !.acc = s.slots[k].acc \cup {WeightOf(s, i) : i \in own}]]]

Accumulate ==
  /\ phase \in {"graded", "ready"} /\ ~AnyGraph
  /\ Become(nt_tape_accum_grads(State))
  /\ uneven' = (uneven \/ \E i \in W : tape[i].slot # 0 /\ ~HasGrad(State, i))
  /\ phase' = "kept"
  /\ UNCHANGED <<gpu, room, session, plan, ops, poked, stepped, summed>>

\* nt_tape_apply_accum: counts the parameters, and gives a gradient to those
\* that have none.
nt_tape_apply_accum(s) ==
  LET S == {i \in Params(s) : Rank(i, Params(s)) <= s.n /\ s.slots[Rank(i, Params(s))].hasAcc}
      given == [s EXCEPT !.mem = [id \in DOMAIN s.mem \cup Grads(S) |->
                                    IF id \in DOMAIN s.mem THEN s.mem[id] ELSE Authored]]
  IN  [Changed(given, Grads(S), HostWritten) EXCEPT
         !.tape  = [i \in DOMAIN @ |-> IF i \in S THEN [@[i] EXCEPT !.applied = s.slots[Rank(i, Params(s))].acc] ELSE @[i]],
         !.slots = [k \in 1..MaxParams |-> IF \E i \in S : Rank(i, Params(s)) = k THEN [@[k] EXCEPT !.acc = {}] ELSE @[k]]]

Apply ==
  /\ phase = "kept"
  /\ Become(nt_tape_apply_accum(State))
  /\ poked' = poked \cup Unmarked(State, Grads({i \in Params(State) :
                 Rank(i, Params(State)) <= nParams /\ slots[Rank(i, Params(State))].hasAcc}))
  /\ phase' = "ready" /\ summed' = TRUE
  /\ UNCHANGED <<gpu, room, session, plan, ops, stepped, uneven>>

-----------------------------------------------------------------------------
\* Optimizers.  The loop counts every registered entry, those registered
\* without a slot included, and ends after nParams of them.
\* Normed: the batch of norms that chuck asks the device for, in which entries without a
\* gradient have no place.
Normed(s) == {<<i, Rank(i, Graded(s))>> : i \in {j \in Graded(s) : Rank(j, Graded(s)) <= s.n}}
Stepping(s) == {<<i, Rank(i, Params(s))>> : i \in {j \in Graded(s) : Rank(j, Params(s)) <= s.n}}

Moments(P) == {<<"slot", e[2]>> : e \in P}
Values(s, P) == {s.tape[e[1]].data : e \in P}
Remembered(s, P) ==
  [k \in 1..MaxParams |->
     [s.slots[k] EXCEPT !.hist = @ \cup UNION {s.tape[e[1]].applied \cup {WeightOf(s, e[1])} : e \in {f \in P : f[2] = k}}]]

\* The host's loop over P: reads and writes data alone, and marks the parameter.
HostStep(s, op, P) ==
  LET ids == Grads({e[1] : e \in P}) \cup Values(s, P) \cup Moments(P)
      r == HostReads(s, "update", op, ids)
      written(t) == MarkCpuDirty(HostWritten(t))
  IN  [Changed(Changed(r, Values(s, P), written), Moments(P), HostWritten) EXCEPT !.slots = Remembered(s, P)]

\* nt_tape_adam_step, nt_tape_adamw_step.
Adam ==
  /\ phase \in {"graded", "ready"} /\ ~AnyGraph
  /\ LET P == Stepping(State)
     IN  /\ Become(HostStep(State, "adam", P))
         /\ poked' = poked \cup Unmarked(State, Moments(P))
         /\ stepped' = P
  /\ phase' = "stepped"
  /\ UNCHANGED <<gpu, room, session, plan, ops, summed, uneven>>

\* A slip: the step on the device leaves the host's copy of a parameter current.
DeviceStepUnmarked(s, P) ==
  LET ids == Grads({e[1] : e \in P}) \cup Values(s, P) \cup Moments(P)
      r == DevReads(Upload(s, ids), "update", "chuck", ids)
      written(t) == [DevWritten(t) EXCEPT !.valid = TRUE]
  IN  [Changed(r, Values(s, P) \cup Moments(P), written) EXCEPT !.slots = Remembered(s, P)]

\* The kernel's step: parameters and moments written on the device.
DeviceStep(s, P) ==
  LET ids == Grads({e[1] : e \in P}) \cup Values(s, P) \cup Moments(P)
      r == DevReads(Upload(s, ids), "update", "chuck", ids)
      written(t) == MarkGpuFresh(DevWritten(t))
  IN  [Changed(r, Values(s, P) \cup Moments(P), written) EXCEPT !.slots = Remembered(s, P)]

\* The batch: the gradients go up, and a kernel reads those that have room there.
NormBatch(s) ==
  LET ids == Grads({e[1] : e \in Normed(s)})
      up  == Upload(s, ids)
  IN  DevReads(up, "update", "norms", {id \in ids : up.mem[id].dev # "absent"})

\* nt_tape_chuck_step: gradients go up for their norms; frozen slots are passed
\* over; noise, once the loss stagnates, takes the host's loop; a slot whose
\* gradients stay small freezes for good.
Chuck ==
  /\ phase \in {"graded", "ready"} /\ ~AnyGraph
  /\ \E noisy \in BOOLEAN, cooled \in {{}, 1..MaxParams} :
       LET P   == {e \in Stepping(State) : ~slots[e[2]].frozen}
           up  == IF gpu THEN NormBatch(State) ELSE State
           tried == IF gpu /\ ~noisy THEN Upload(up, Grads({e[1] : e \in P}) \cup Values(up, P) \cup Moments(P)) ELSE up
           D   == {e \in P : gpu /\ ~noisy /\
                     OnDevice(tried, {<<"grad", e[1]>>, tape[e[1]].data, <<"slot", e[2]>>})}
           dev == DeviceStep(tried, D)
           r   == [HostStep(dev, "chuck", P \ D) EXCEPT
                     !.slots = [k \in 1..MaxParams |->
                        IF k \in cooled /\ \E e \in P : e[2] = k THEN [@[k] EXCEPT !.frozen = TRUE] ELSE @[k]]]
       IN  /\ Become(r)
           /\ poked' = poked \cup Unmarked(dev, Moments(P \ D))
           /\ stepped' = P
  /\ phase' = "stepped"
  /\ UNCHANGED <<gpu, room, session, plan, ops, summed, uneven>>

-----------------------------------------------------------------------------
\* Between the steps.

\* nt_tape_destroy: the optimizer's slots go with the tape.
Destroy ==
  /\ phase = "stepped"
  /\ LET c == Cleared(State)
     IN  Become([c EXCEPT !.slots = [k \in 1..MaxParams |-> FreshSlot],
                          !.mem = [id \in {j \in DOMAIN c.mem : j[1] = "weight"} |-> c.mem[id]]])
  /\ phase' = "idle" /\ stepped' = {}
  /\ poked' = {id \in poked : id[1] = "weight"}
  /\ UNCHANGED <<gpu, room, session, plan, ops, summed, uneven>>

Adapter == {<<"weight", AdapterA>>, <<"weight", AdapterB>>}

\* nt_lora_save, and nt_lora_merge_into: download, then read the host.
nt_lora_save(s) == HostReads(Pull(s, Adapter), "update", "lora_save", Adapter)

LoraSave ==
  /\ phase = "stepped"
  /\ Become(nt_lora_save(State))
  /\ UNCHANGED <<gpu, room, phase, session, plan, ops, poked, stepped, summed, uneven>>

\* nt_save: writes t->data as it is.
Save ==
  /\ phase = "stepped"
  /\ Become(HostReads(State, "update", "save", {<<"weight", w>> : w \in Weights}))
  /\ UNCHANGED <<gpu, room, phase, session, plan, ops, poked, stepped, summed, uneven>>

\* nt_lora_load: the host's copy is replaced and the device's declared invalid;
\* whether the device was the fresher one is not looked at.
LoraLoad ==
  /\ phase \in {"idle", "stepped"}
  /\ LET loaded(t) == [HostWritten(t) EXCEPT !.valid = FALSE]
     IN  Become(Changed(State, Adapter, loaded))
  /\ poked' = poked \cup {id \in Adapter : mem[id].dirty}
  /\ UNCHANGED <<gpu, room, phase, session, plan, ops, stepped, summed, uneven>>

Next ==
  \/ Start \/ Register \/ Input \/ Unary \/ Weighted \/ Joined \/ Attention
  \/ Backward \/ Clip \/ Guard \/ Accumulate \/ Apply \/ Chuck \/ Adam
  \/ Destroy \/ LoraSave \/ Save \/ LoraLoad

Spec == Init /\ [][Next]_vars

-----------------------------------------------------------------------------
\* Properties.

\* Every variable keeps its type.
TapeTypeOK ==
  /\ tape \in Seq(Entries(Weights, MaxParams)) /\ Len(tape) <= MaxEntries
  /\ \A id \in DOMAIN mem : mem[id] \in Mirrors
  /\ nParams \in 0..MaxParams /\ slots \in [1..MaxParams ->
       [used : BOOLEAN, hist : SUBSET Weights, hasAcc : BOOLEAN, acc : SUBSET Weights, frozen : BOOLEAN]]
  /\ gpu \in BOOLEAN /\ room \in Rooms /\ phase \in Phases /\ session \in 0..MaxSessions
  /\ plan \in Plans /\ ops \in 0..MaxOps
  /\ poked \subseteq DOMAIN mem /\ stepped \subseteq (1..MaxEntries) \X (1..MaxParams)

\* The flags of a tensor say where its latest value is (ensure_gpu, ensure_cpu
\* and the marks of every op and optimizer): the device holds it when the host
\* is called stale or the device valid, the host when it is not called stale.
\* Tensors whose host copy was written behind the flags are excepted: a
\* gradient zeroed by the guard or replaced by apply_accum, the moments after a
\* step on the host, an adapter loaded while the device was fresher.
MirrorsAreTruthful ==
  /\ TapeTypeOK
  /\ \A id \in DOMAIN mem \ poked :
       LET t == mem[id]
       IN  /\ t.dirty => t.dev = "new"
           /\ ~t.dirty => t.host
           /\ t.valid => t.dev = "new"

\* The host loops that download what they read.
Pullers ==
  {<<"forward", o>> : o \in {"SEQ_EMBED", "SIGMOID", "SCALE_BY_T", "MH_CAUSAL_ATTN", "RRPRAM_LR", "RRPRAM_BCAST",
                             "ADD", "MUL", "SCALE", "ROPE", "SEQ_CROSSENT_MASKED"}}
    \cup
  {<<"backward", o>> : o \in {"ADD", "MUL", "SCALE", "SILU", "SCALE_BY_T", "RMSNORM", "EMB_LOOKUP", "SEQ_EMBED",
                              "SEQ_RMSNORM", "MH_CAUSAL_ATTN", "RRPRAM_BCAST", "CONCAT", "SEQ_CROSSENT_MASKED",
                              "ROPE", "SWIGLU", "acc_grad"}}
    \cup {<<"update", "clip">>, <<"update", "lora_save">>}

\* No kernel computes with an older value (nt_tensor_ensure_gpu before every kernel),
\* in forward, backward or the optimizer, and no loop on the host that pulls its
\* operands does, whatever ran on the device before and however little memory it has
\* left; those tensors excepted.
ReadsAreLatest ==
  \A r \in misread :
    r.at = "device" \/ <<r.side, r.op>> \in Pullers => r.of \in poked

\* The parents an operation carries a gradient to, by its mathematics.
Differentiable(op, active) ==
  CASE op \in {"NONE"} -> {}
    [] op = "SEQ_CROSSENT_MASKED" -> IF active THEN {1} ELSE {}
    [] op \in {"SEQ_CROSSENT", "SCALE", "SILU", "SIGMOID", "SOFTMAX", "CROSS_ENT", "EMB_LOOKUP", "DROPOUT", "GELU",
               "ROPE"} -> {1}
    [] op \in {"SEQ_EMBED", "ADD", "MUL", "MATVEC", "SCALE_BY_T", "RMSNORM", "SEQ_RMSNORM", "SEQ_MATVEC", "SEQ_MATVEC_T",
               "CONCAT", "SWIGLU", "BIT_LINEAR", "BIT_SEQ_LINEAR"} -> {1, 2}
    [] OTHER -> {1, 2, 3}

\* What the chain rule adds up at entry p, as <<consumer, position>>.
ChainRule(p) ==
  {c \in (DOMAIN tape) \X (1..3) :
     /\ HasGrad(State, c[1]) /\ c[2] \in Differentiable(tape[c[1]].op, tape[c[1]].alt) \cap DOMAIN tape[c[1]].from
     /\ tape[c[1]].from[c[2]] = p}
    \cup (IF p = LastEntry THEN {<<0, 1>>} ELSE {})

\* After nt_tape_backward every entry that is not frozen holds the
\* contributions of all its consumers, each once, and the frozen ones none,
\* whichever of them were added on the host and which on the device; unless
\* the device had no memory for a gradient, where contributions are dropped.
GradientsAreComplete ==
  phase = "graded" /\ room = "plenty" =>
    \A p \in DOMAIN tape : tape[p].sum = IF tape[p].frozen /\ p # LastEntry THEN {} ELSE ChainRule(p)

\* No parameter is registered without a slot before one that has a slot.
Aligned ==
  \A i, j \in W : i < j /\ tape[i].slot = 0 => tape[j].slot = 0

\* A slot's moments and the gradients applied through it are those of the one
\* parameter registered for it, over all steps, whatever parameters had no
\* gradient in a step (the slot counters of adam, adamw, chuck, accum_grads and
\* apply_accum).  The program keeps its order, frozen ones come last, and every
\* accumulation met a gradient for each parameter: accum_grads counts gradients,
\* apply_accum parameters.  A frozen parameter is never stepped, except after
\* apply_accum, which gives every counted parameter a gradient.
MomentsAreOwn ==
  /\ Aligned /\ ~uneven =>
       /\ \A i \in W : /\ tape[i].applied \subseteq {WeightOf(State, i)}
                       /\ tape[i].slot # 0 => slots[tape[i].slot].hist \subseteq {WeightOf(State, i)}
       /\ \A e \in stepped : tape[e[1]].slot = e[2]
  /\ \A e \in stepped : tape[e[1]].frozen => summed

\* Every trainable parameter that got a gradient is stepped, with its slot.
\* notorch.h says this of a frozen base under LoRA adapters.
EveryTrainableIsStepped ==
  phase = "stepped" /\ stepped # {} =>
    \A i \in Graded(State) : tape[i].slot # 0 => <<i, tape[i].slot>> \in stepped
=============================================================================
