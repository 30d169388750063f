-------------------------------- MODULE AmlTape --------------------------------
(***************************************************************************)
(* Training in AML (ariannamethod.c): scripts run one after the other over  *)
(* persistent globals (am_exec, am_exec_compiled, am_set_var_array), and in *)
(* them the TAPE commands: start, parameters, the forward functions,        *)
(* backward, clipping, accumulation, the optimizers, save and load.         *)
(* The tape and the optimizer's slots outlive the script that filled them.  *)
(***************************************************************************)
EXTENDS AmlOps

CONSTANTS Weights,           \* names of the parameters
          Input,             \* the name the host program feeds
          Results,           \* names the forward pass assigns
          Names,             \* all of them, in a sequence
          MaxParams,         \* AM_TAPE_MAX_PARAMS
          Plans,             \* orders of registration: sequences of Weights
          GraphPlans,        \* those that take one step, of any graph, and end there
          MaxOps, MaxSteps, MaxScripts,
          Warmers, Feeders   \* functions of the other steps, and those others follow

\* Bound: results have names of their own.
ASSUME TapeAssumption ==
  /\ MaxParams \in Nat \ {0} /\ Plans \subseteq Seq(Weights) /\ GraphPlans \subseteq Plans
  /\ Weights \cap Results = {} /\ Names \in Seq(Weights \cup {Input} \cup Results) /\ Range(Names) = Weights \cup {Input} \cup Results

VARIABLES heap,              \* the arrays alive
          globals,           \* ctx->globals of the running script
          kept,              \* g_persistent_globals
          tape, active,      \* g_tape.entries[0 .. count - 1], g_tape.active
          nParams, slots,    \* g_tape.n_params; g_tape.adam, acc_grad and chuck_params
          persistent,        \* g_persistent_enabled
          cuda, full, rtl,   \* the build; device memory; evaluation order of arguments
          phase, script, step, plan, ops, \* where the program is
          misread,           \* reads of the last call
          leaked,            \* arrays with a reference nobody holds
          uneven             \* a parameter had no gradient in some step

vars == <<heap, globals, kept, tape, active, nParams, slots, persistent, cuda, full, rtl,
          phase, script, step, plan, ops, misread, leaked, uneven>>

Phases == {"idle", "script", "register", "forward", "graded", "ready", "kept", "stepped"}

\* AM_AdamState with acc_grad, and AM_ChuckParamState.  hist and acc: whose
\* gradients went into m and v, and into acc_grad.
FreshSlot == [used |-> FALSE, hist |-> {}, hasAcc |-> FALSE, acc |-> {}, frozen |-> FALSE]

State == [heap |-> heap, vars |-> globals, kept |-> kept, cuda |-> cuda, full |-> full, rtl |-> rtl,
          misread |-> {}, ret |-> 0, tape |-> tape, active |-> active, n |-> nParams, slots |-> slots]

Become(s) ==
  /\ heap' = s.heap /\ globals' = s.vars /\ kept' = s.kept /\ misread' = s.misread
  /\ tape' = s.tape /\ active' = s.active /\ nParams' = s.n /\ slots' = s.slots

Init ==
  /\ heap = <<>> /\ globals = <<>> /\ kept = <<>> /\ tape = <<>> /\ active = FALSE
  /\ nParams = 0 /\ slots = [k \in 1..MaxParams |-> FreshSlot]
  /\ persistent = FALSE /\ cuda \in BOOLEAN /\ full = FALSE
  /\ phase = "idle" /\ script = 0 /\ step = 0 /\ plan \in Plans /\ ops = 0
  /\ rtl \in IF plan \in GraphPlans THEN BOOLEAN ELSE {FALSE}
  /\ misread = {} /\ leaked = {} /\ uneven = FALSE

Build == <<cuda, rtl, plan>>

\* Bounds: programs of some plans take one step, of any graph, and end with its
\* backward; the others compute one of a few functions in a step, and go on.
AnyGraph == plan \in GraphPlans
Steps == IF AnyGraph THEN 1 ELSE MaxSteps

-----------------------------------------------------------------------------
\* Scripts.

\* am_set_var_array: the host program feeds the input, and turns persistence on.
Feed ==
  /\ phase = "idle" /\ script < MaxScripts
  /\ ~AnyGraph /\ Become(am_set_var_array(State, Input))
  /\ persistent' = TRUE
  /\ UNCHANGED <<full, phase, script, step, ops, leaked, uneven, Build>>

\* am_exec, am_exec_compiled.  Bound: a program whose counters part ways runs no
\* other script.
Begin ==
  /\ phase = "idle" /\ script < MaxScripts /\ ~uneven
  /\ Become(IF persistent THEN persistent_restore(State, Names) ELSE State)
  /\ phase' = "script" /\ script' = script + 1
  /\ UNCHANGED <<persistent, full, step, ops, leaked, uneven, Build>>

\* The end of a script, wherever it is with the tape.
End ==
  /\ phase \in {"script", "kept", "graded", "ready", "stepped"} /\ ~AnyGraph
  /\ Become(symtab_clear_arrays(IF persistent THEN persistent_save(State, Names) ELSE State, Names))
  /\ phase' = "idle"
  /\ UNCHANGED <<persistent, full, script, step, ops, leaked, uneven, Build>>

\* am_persistent_clear, by way of am_persistent_mode(0).
PersistentOff ==
  /\ phase = "idle" /\ persistent
  /\ Become(am_persistent_clear(State, Names))
  /\ persistent' = FALSE
  /\ UNCHANGED <<full, phase, script, step, ops, leaked, uneven, Build>>

\* A command that stores its number by a script of its own ("grad_norm = ...",
\* "ok = ..."): the inner am_exec restores and saves the persistent globals.
Nested(s) ==
  IF ~persistent THEN s
  ELSE LET inner == persistent_restore([s EXCEPT !.vars = <<>>], Names)
       IN  [symtab_clear_arrays(persistent_save(inner, Names), Names) EXCEPT !.vars = s.vars]

\* Where the program is does not change but for these.
Within(p) == phase' = p /\ UNCHANGED <<persistent, script, plan, cuda, rtl>>

\* An array in the table, under that name.
IsArray(name) == Held(globals, name) # 0
Missing == {k \in DOMAIN Names : Names[k] \in Weights \cup {Input} /\ ~IsArray(Names[k])}

\* zeros, randn, matrix, matrix_zeros, an array literal: what the script finds missing.
Define ==
  /\ phase = "script" /\ Missing # {}
  /\ LET r == am_array_new(State, Authored)
     IN  Become(symtab_set_array(r, Names[Min(Missing)], r.ret))
  /\ Within(phase) /\ UNCHANGED <<full, step, ops, leaked, uneven>>

\* am_tape_clear: the tape's references go, the slots survive.
am_tape_clear(s) ==
  LET after[i \in 0..Len(s.tape)] ==
        IF i = 0 THEN s ELSE LET r == after[i - 1] IN am_array_free(r, s.tape[i].out)
  IN  [after[Len(s.tape)] EXCEPT !.tape = <<>>, !.n = 0, !.active = FALSE]

\* TAPE START, am_tape_start.  Bound: a program whose counters part ways takes no other step either.
TapeStart ==
  /\ phase \in {"script", "graded", "ready", "kept", "stepped"} /\ Missing = {} /\ step < Steps /\ ~uneven
  /\ Become([am_tape_clear(State) EXCEPT !.active = TRUE])
  /\ Within("register")
  /\ step' = step + 1 /\ ops' = 0
  /\ UNCHANGED <<full, leaked, uneven>>

\* TAPE CLEAR.
TapeClear ==
  /\ phase \in {"forward", "graded", "ready", "kept", "stepped"} /\ ~AnyGraph
  /\ Become(am_tape_clear(State))
  /\ Within("script") /\ UNCHANGED <<full, step, ops, leaked, uneven>>

\* am_tape_record_param: an entry and, below the limit, the next slot; the
\* moments of a slot used before are kept.
am_tape_record_param(s, name) ==
  IF ~s.active \/ Count(s) >= MaxEntries THEN s
  ELSE LET id == s.vars[name]
           e == [Entry("NONE", id, <<>>) EXCEPT !.param = TRUE, !.who = name]
           r == [am_array_ref(s, id) EXCEPT !.tape = Append(@, e)]
       IN  IF s.n < MaxParams THEN [r EXCEPT !.n = @ + 1, !.slots[s.n + 1].used = TRUE] ELSE r

\* TAPE PARAM, TAPE PARAM_NO_DECAY: the next parameter of the program.
Register ==
  /\ phase = "register"
  /\ \E k \in 1..Len(plan) :
       /\ k = Cardinality({i \in DOMAIN tape : tape[i].param}) + 1
       /\ Become(am_tape_record_param(State, plan[k]))
       /\ Within(IF k = Len(plan) THEN "forward" ELSE phase)
  /\ UNCHANGED <<full, step, ops, leaked, uneven>>

\* A forward pass without a tape.
Infer ==
  /\ phase = "script" /\ Missing = {} /\ ~active /\ step < Steps
  /\ Become(State)
  /\ Within("forward") /\ step' = step + 1 /\ ops' = 0
  /\ UNCHANGED <<full, leaked, uneven>>

\* The device's memory is used up, for good: in programs of any graph only (a bound).
DeviceFills ==
  /\ phase = "forward" /\ cuda /\ AnyGraph /\ ~full
  /\ full' = TRUE /\ Become(State)
  /\ Within(phase) /\ UNCHANGED <<step, ops, leaked, uneven>>

-----------------------------------------------------------------------------
\* Forward.  W: arrays of parameters; X: the input and what was computed.
W == {globals[n] : n \in Weights}
X == {globals[n] : n \in {m \in {Input} \cup Results : IsArray(m)}}
Last == LET R == {n \in Results : IsArray(n)} IN IF ops = 0 \/ R = {} THEN Input ELSE Names[Max({k \in DOMAIN Names : Names[k] \in R})]
Here == globals[Last]

\* The assignment of aml_exec_line.
Assign(op, s) ==
  /\ ops < MaxOps
  /\ ~AnyGraph => op \in Warmers
  /\ AnyGraph /\ ops + 1 < MaxOps => op \in Feeders
  /\ \E name \in Results : Become(symtab_set_array(s, name, s.ret))
  /\ Within(phase) /\ ops' = ops + 1
  /\ UNCHANGED <<full, step, leaked, uneven>>

\* Functions of one activation.
Unary ==
  phase = "forward" /\
    \/ Assign("silu", silu(State, Here))
    \/ Assign("seq_rmsnorm", seq_rmsnorm(State, Here))
    \/ Assign("scale", scale(State, Here))
    \/ Assign("softmax", softmax(State, Here))
    \/ Assign("rmsnorm", rmsnorm(State, Here))
    \/ Assign("gelu", gelu(State, Here))
    \/ Assign("dropout", dropout(State, Here))
    \/ Assign("relu", relu(State, Here))
    \/ Assign("row", row(State, Here))
    \/ Assign("cross_entropy", cross_entropy(State, Here))
    \/ Assign("clone", am_array_clone(State, "forward", Here))

\* Those of a parameter and an activation.
Weighted ==
  phase = "forward" /\ \E w \in W :
    \/ Assign("seq_matvec", seq_matvec(State, w, Here))
    \/ Assign("matvec", matvec(State, w, Here))
    \/ Assign("matmul", matmul(State, w, Here))
    \/ Assign("embedding_lookup", embedding_lookup(State, w))
    \/ Assign("spa_embed", spa_embed(State, Here, w))
    \/ Assign("spa_connectedness", spa_connectedness(State, Here, w))
    \/ \E wpe \in {0} \cup W : Assign("seq_embed", seq_embed(State, w, wpe, Here))
    \/ \E gamma \in {0, w}, beta \in {0} \cup W :
         \/ Assign("layernorm", layernorm(State, Here, gamma, beta))
         \/ Assign("seq_layernorm", seq_layernorm(State, Here, gamma, beta))

\* Those of several activations.
Joined ==
  phase = "forward" /\ \E x \in X :
    \/ Assign("add", add(State, x, Here))
    \/ Assign("mul", mul(State, x, Here))
    \/ Assign("seq_cross_entropy", seq_cross_entropy(State, Here, x))
    \/ \E v \in X : \/ Assign("multi_head_attention", multi_head_attention(State, Here, x, v))
                    \/ Assign("causal_attention", causal_attention(State, Here, x, v))

\* silu(seq_matvec(...)), and gelu, dropout and relu likewise: the reference to
\* the array in between is not given back.
NestedCall ==
  /\ phase = "forward" /\ ops < MaxOps /\ (~AnyGraph => "nested" \in Warmers)
  /\ \E w \in W, name \in Results, op \in {"silu", "gelu", "dropout", "relu"} :
       LET inner == seq_matvec(State, w, Here)
           t == inner.ret
           r == CASE op = "silu" -> silu(inner, t) [] op = "gelu" -> gelu(inner, t)
                  [] op = "dropout" -> dropout(inner, t) [] op = "relu" -> relu(inner, t)
       IN  Become(symtab_set_array(r, name, r.ret)) /\ leaked' = leaked \cup {t}
  /\ Within(phase) /\ ops' = ops + 1
  /\ UNCHANGED <<full, step, uneven>>

-----------------------------------------------------------------------------
\* Backward.

\* am_tape_backward.
am_tape_backward(s, loss) ==
  LET after[i \in 1..loss + 1] ==
        IF i = loss + 1 THEN [s EXCEPT !.tape[loss].graded = TRUE]
        ELSE LET r == after[i + 1] IN IF r.tape[i].graded THEN OpBackward(r, i) ELSE r
  IN  after[1]

\* TAPE BACKWARD: nothing happens for an array that is not on the tape.
Backward ==
  /\ phase = "forward" /\ ops > 0
  /\ LET loss == tape_find_entry(State, Here)
     IN  Become(IF loss = 0 THEN State ELSE am_tape_backward(State, loss))
  /\ Within("graded") /\ UNCHANGED <<full, step, ops, leaked, uneven>>

-----------------------------------------------------------------------------
\* Updates.  Graded: the parameters with a gradient; Rank: a place in a list.
Params(s) == {i \in DOMAIN s.tape : s.tape[i].param}
Graded(s) == {i \in Params(s) : s.tape[i].graded}
Rank(i, S) == Cardinality({j \in S : j <= i})

\* A parameter has a slot and no gradient: the counters below part ways.
Uneven == uneven \/ \E i \in Params(State) : Rank(i, Params(State)) <= nParams /\ ~tape[i].graded

\* TAPE CLIP_GRADS: the norm is stored by a nested script, or, compiled, directly.
Clip ==
  /\ phase = "graded" /\ ~AnyGraph
  /\ \E compiled \in BOOLEAN : Become(IF compiled THEN State ELSE Nested(State))
  /\ Within("ready") /\ UNCHANGED <<full, step, ops, leaked, uneven>>

\* TAPE NAN_CHECK: a bad gradient has them all zeroed, and the script leaves the
\* step out.
NanCheck ==
  /\ phase = "graded" /\ ~AnyGraph
  /\ Become(Nested(State))
  /\ \/ Within("ready")
     \/ Graded(State) # {} /\ Within("stepped")
  /\ UNCHANGED <<full, step, ops, leaked, uneven>>

\* am_tape_accum_grads: counts the parameters that have a gradient.
am_tape_accum_grads(s) ==
  [s EXCEPT !.slots = [k \in 1..MaxParams |->
     LET own == {i \in Graded(s) : Rank(i, Graded(s)) = k /\ k <= s.n}
     IN  IF own = {} THEN @[k] ELSE [@[k] EXCEPT !.hasAcc = TRUE, !.acc = @ \cup {s.tape[i].who : i \in own}]]]

Accumulate ==
  /\ phase \in {"graded", "ready"} /\ ~AnyGraph
  /\ Become(am_tape_accum_grads(State))
  /\ uneven' = Uneven
  /\ Within("kept") /\ UNCHANGED <<full, step, ops, leaked>>

\* am_tape_apply_accum: counts the parameters, and gives a gradient to those
\* that have none.
am_tape_apply_accum(s) ==
  LET S == {i \in Params(s) : Rank(i, Params(s)) <= s.n /\ s.slots[Rank(i, Params(s))].hasAcc}
  IN  [s EXCEPT !.tape = [i \in DOMAIN @ |->
         IF i \in S THEN [@[i] EXCEPT !.graded = TRUE, !.applied = s.slots[Rank(i, Params(s))].acc] ELSE @[i]],
       !.slots = [k \in 1..MaxParams |-> IF \E i \in S : Rank(i, Params(s)) = k THEN [@[k] EXCEPT !.acc = {}] ELSE @[k]]]

Apply ==
  /\ phase = "kept"
  /\ Become(am_tape_apply_accum(State))
  /\ Within("ready") /\ UNCHANGED <<full, step, ops, leaked, uneven>>

\* The optimizers' loop: the k-th parameter that has a gradient takes slot k.
Stepping(s) == {<<i, Rank(i, Graded(s))>> : i \in {j \in Graded(s) : Rank(j, Graded(s)) <= s.n}}

Optimized(s, op, P) ==
  LET ids == {s.tape[e[1]].out : e \in P}
      r == Changed(HostReads(s, "update", op, ids), ids, HostWritten)
  IN  [r EXCEPT !.slots = [k \in 1..MaxParams |->
         [@[k] EXCEPT !.hist = @ \cup UNION {s.tape[e[1]].applied \cup {s.tape[e[1]].who} : e \in {f \in P : f[2] = k}}]]]

\* TAPE ADAM_STEP.
Adam ==
  /\ phase \in {"graded", "ready"} /\ ~AnyGraph
  /\ Become(Optimized(State, "adam", Stepping(State)))
  /\ uneven' = Uneven
  /\ Within("stepped") /\ UNCHANGED <<full, step, ops, leaked>>

\* TAPE ADAMW_STEP declares the device's copies of the parameters invalid.
Invalidate(s) == IF s.cuda THEN Changed(s, {s.tape[i].out : i \in Params(s)}, invalidate_gpu) ELSE s

AdamW ==
  /\ phase \in {"graded", "ready"} /\ ~AnyGraph
  /\ Become(Invalidate(Optimized(State, "adamw", Stepping(State))))
  /\ uneven' = Uneven
  /\ Within("stepped") /\ UNCHANGED <<full, step, ops, leaked>>

\* A slip: a frozen parameter does not advance the slot.
WarmSkewed(s) ==
  LET S == {e[1] : e \in {f \in Stepping(s) : ~s.slots[f[2]].frozen}} IN {<<i, Rank(i, S)>> : i \in S}

\* Frozen parameters are passed over, slot and all.
Warm(s) == {e \in Stepping(s) : ~s.slots[e[2]].frozen}

\* TAPE CHUCK_STEP: a slot whose gradients stay small freezes for good (a bound
\* of the model: the first).
Chuck ==
  /\ phase \in {"graded", "ready"} /\ ~AnyGraph
  /\ \E cooled \in {{}, {1}} :
       LET P == Warm(State)
       IN  Become([Optimized(State, "chuck", P) EXCEPT !.slots = [k \in 1..MaxParams |->
                     [@[k] EXCEPT !.frozen = @ \/ (k \in cooled /\ \E e \in P : e[2] = k)]]])
  /\ uneven' = Uneven
  /\ Within("stepped") /\ UNCHANGED <<full, step, ops, leaked>>

Registered == {tape[i].out : i \in {j \in Params(State) : Rank(j, Params(State)) <= nParams}}

\* TAPE SAVE, TAPE LOAD: the parameters of the tape, on the host.
Save ==
  /\ phase = "stepped"
  /\ Become(HostReads(State, "update", "save", Registered))
  /\ Within(phase) /\ UNCHANGED <<full, step, ops, leaked, uneven>>

Load ==
  /\ phase = "stepped"
  /\ Become(Changed(State, Registered, HostWritten))
  /\ Within(phase) /\ UNCHANGED <<full, step, ops, leaked, uneven>>

\* name[i] = v, for one of the parameters (a bound of the model).
WriteElement ==
  /\ phase = "stepped"
  /\ Become(Changed(State, {globals[Names[1]]}, HostWritten))
  /\ Within(phase) /\ UNCHANGED <<full, step, ops, leaked, uneven>>

\* name[i]: pulled when the device's copy is valid.
ReadElement ==
  /\ phase = "graded" /\ ~AnyGraph
  /\ \E id \in X : Become(HostReads(Pull(State, {id}), "forward", "index", {id}))
  /\ Within(phase) /\ UNCHANGED <<full, step, ops, leaked, uneven>>

\* name = number.
SetNumber ==
  /\ phase = "stepped"
  /\ \E n \in Results : Become(symtab_set(State, n))
  /\ Within(phase) /\ UNCHANGED <<full, step, ops, leaked, uneven>>

Next ==
  \/ Feed \/ Begin \/ End \/ PersistentOff
  \/ Define \/ TapeStart \/ TapeClear \/ Register \/ Infer \/ DeviceFills
  \/ Unary \/ Weighted \/ Joined \/ NestedCall \/ Backward
  \/ Clip \/ NanCheck \/ Accumulate \/ Apply \/ Adam \/ AdamW \/ Chuck
  \/ Save \/ Load \/ WriteElement \/ ReadElement \/ SetNumber

Spec == Init /\ [][Next]_vars

-----------------------------------------------------------------------------
\* Properties.

Holders(id) ==
  Cardinality({n \in DOMAIN globals : globals[n] = id}) + Cardinality({n \in DOMAIN kept : kept[n] = id})
    + Cardinality({i \in DOMAIN tape : tape[i].out = id}) + IF id \in leaked THEN 1 ELSE 0

\* An array's reference count is the number of its holders, the script's
\* variables, the persistent globals and the entries of the tape, so that nothing
\* held is freed, nothing freed is used, and nothing else stays alive
\* (am_array_ref, am_array_free), across scripts, reassignments, tapes that
\* outlive their script, and nested scripts.  The array between two nested calls
\* is the exception, which keeps a reference for good.
RefsAreHeld ==
  /\ \A id \in DOMAIN heap : heap[id] \in Arrays /\ heap[id].refs = Holders(id)
  /\ ((Range(globals) \cup Range(kept)) \ {0}) \cup {tape[i].out : i \in DOMAIN tape} \subseteq DOMAIN heap
  /\ \A r \in misread : r.at # "freed"

\* The host loops that download what they read (ensure_cpu).
Pullers ==
  {<<"forward", o>> : o \in {"ADD", "MUL", "SILU", "SEQ_RMSNORM", "MH_CAUSAL_ATTN", "SEQ_MATVEC", "SEQ_CROSSENT", "index"}}
    \cup {<<"backward", o>> : o \in {"ADD", "MUL", "SCALE", "MATVEC", "SILU", "SOFTMAX", "RMSNORM", "GELU", "DROPOUT",
            "LAYERNORM", "SEQ_LAYERNORM", "CROSS_ENT", "EMB_LOOKUP", "SEQ_EMBED", "SEQ_MATVEC", "SEQ_RMSNORM",
            "CAUSAL_ATTN", "MH_CAUSAL_ATTN", "SEQ_CROSSENT"}}

\* gpu_valid tells where an array's value is: on the device if it is set, else
\* on the host; and no kernel, and no loop that calls ensure_cpu, computes with
\* an older value, whatever ran on the device before and however full it is.
\* Arrays whose host copy was written while the device's counted as valid are
\* excepted: parameters after ADAM_STEP, CHUCK_STEP or LOAD, element writes.
AmlReadsAreLatest ==
  /\ \A id \in DOMAIN heap : ~heap[id].poked => IF heap[id].valid THEN heap[id].dev = "new" ELSE heap[id].host
  /\ \A r \in misread : r.at = "device" \/ <<r.side, r.op>> \in Pullers => r.poked

\* The parents an operation carries a gradient to, by its mathematics.
Differentiable(op) ==
  CASE op = "NONE" -> {}
    [] op \in {"SCALE", "SILU", "SOFTMAX", "RMSNORM", "GELU", "DROPOUT", "CROSS_ENT", "EMB_LOOKUP", "SEQ_RMSNORM",
               "SEQ_CROSSENT"} -> {1}
    [] op \in {"ADD", "MUL", "MATVEC", "SEQ_MATVEC", "SEQ_EMBED"} -> {1, 2}
    [] OTHER -> {1, 2, 3}

\* What the chain rule adds up at entry p.
ChainRule(p) ==
  {<<c[1], c[2], 1>> : c \in {e \in (DOMAIN tape) \X (1..3) :
     tape[e[1]].graded /\ e[2] \in Differentiable(tape[e[1]].op) \cap DOMAIN tape[e[1]].from /\ tape[e[1]].from[e[2]] = p}}

\* Contribution c is one more than the first of an addition whose result is on the device.
AddedAgain(c) == c[3] > 1 /\ tape[c[1]].op = "ADD" /\ Resident(State, {tape[c[1]].out})

\* After TAPE BACKWARD every entry holds the contributions of all its consumers
\* on the tape that have a gradient, each once, whatever its operands were
\* reassigned to since.  Not said of the additions whose result is on the device
\* is that they contribute no more than once: that is AdditionsAddOnce.
AmlGradientsAreComplete ==
  phase = "graded" => \A p \in DOMAIN tape : {c \in tape[p].sum : ~AddedAgain(c)} = ChainRule(p)

\* "y = a + b -> da += dout, db += dout" (ariannamethod.c:1392): an addition gives
\* the gradient of its result to each of its operands once, on the host and on
\* the device.
AdditionsAddOnce ==
  phase = "graded" => \A p \in DOMAIN tape : \A c \in tape[p].sum : tape[c[1]].op = "ADD" => c[3] = 1

\* A slot's moments, and the gradients applied through it, are those of the one
\* parameter the program registers at its place, over all steps and scripts
\* (slots are positional: adam, adamw, chuck, accum_grads and apply_accum), while
\* no parameter was without a gradient in a step or an accumulation: then the
\* counters shift, and the moments of the parameters after it are exchanged.
AmlMomentsAreOwn ==
  ~uneven =>
    /\ \A k \in 1..MaxParams : slots[k].hist \cup slots[k].acc \subseteq IF k <= Len(plan) THEN {plan[k]} ELSE {}
    /\ \A i \in Params(State) : tape[i].applied \subseteq {tape[i].who}
    /\ phase = "ready" /\ Graded(State) # {} => \A k \in 1..nParams : slots[k].used
=============================================================================
