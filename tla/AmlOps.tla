-------------------------------- MODULE AmlOps --------------------------------
(***************************************************************************)
(* The array functions of AML and its tape (ariannamethod.c): for each      *)
(* function of aml_array_dispatch, where it computes, what it pulls first   *)
(* and what it records; for each case of am_tape_backward, what it reads    *)
(* and which parents it gives a gradient to.  Gradients live on the host.   *)
(* Arguments are arrays (ids of the heap); what the arithmetic computes is  *)
(* not modelled, and the operands have the shapes the functions ask for.    *)
(***************************************************************************)
EXTENDS AmlArrays

CONSTANT MaxEntries          \* AM_TAPE_MAX_ENTRIES

ASSUME EntriesAssumption == MaxEntries \in Nat

\* AM_TapeEntry.  from: the parents, 0 for -1.  who: the variable a parameter was
\* registered as.  sum: the contributions in e->grad, as <<consumer, position,
\* count>>; applied: whose accumulated gradients apply_accum put there.
Entry(op, out, ps) == [op |-> op, out |-> out, from |-> ps, param |-> FALSE, who |-> "", graded |-> FALSE,
                       sum |-> {}, applied |-> {}]

Count(s) == Len(s.tape)

\* am_tape_record, am_tape_record3: the tape takes a reference.
am_tape_record(s, op, out, ps) ==
  IF ~s.active \/ Count(s) >= MaxEntries THEN s
  ELSE [am_array_ref(s, out) EXCEPT !.tape = Append(@, Entry(op, out, ps))]

\* tape_find_entry: the last entry with this array, 0 for none.
tape_find_entry(s, id) == Max({0} \cup {i \in DOMAIN s.tape : s.tape[i].out = id})

\* tape_ensure_entry: an array that is not on the tape is recorded as a leaf.
tape_ensure_entry(s, id) ==
  IF id = 0 \/ ~s.active \/ tape_find_entry(s, id) # 0 THEN s ELSE am_tape_record(s, "NONE", id, <<>>)

\* A function's call of am_tape_record with tape_ensure_entry of each argument.
\* C leaves open in which order those are called: order, all of the arguments.
RecordIn(s, op, out, args, order) ==
  LET e1 == IF Len(order) >= 1 THEN tape_ensure_entry(s, order[1]) ELSE s
      e2 == IF Len(order) >= 2 THEN tape_ensure_entry(e1, order[2]) ELSE e1
      e3 == IF Len(order) >= 3 THEN tape_ensure_entry(e2, order[3]) ELSE e2
  IN  IF s.active THEN am_tape_record(e3, op, out, [k \in DOMAIN args |-> tape_find_entry(e3, args[k])]) ELSE s

Backwards(q) == [k \in DOMAIN q |-> q[Len(q) + 1 - k]]
Record(s, op, out, args) == RecordIn(s, op, out, args, IF s.rtl THEN Backwards(args) ELSE args)

-----------------------------------------------------------------------------
\* Forward.

\* A function that computes on the host, without pulling its operands.
OnHost(s, op, args) ==
  LET ids == Range(args) \ {0}
      r == am_array_new(HostReads(s, "forward", op, ids), Authored)
  IN  [Record(r, op, r.ret, args) EXCEPT !.ret = r.ret]

\* ... and that is not recorded.
Unrecorded(s, op, args) == am_array_new(HostReads(s, "forward", op, Range(args) \ {0}), Authored)

\* A slip: the fallback computes on what the host happens to hold.
ResidentOrPulledBare(s, op, args) ==
  LET ids == Range(args)
      r == IF Resident(s, ids) /\ ~s.full
             THEN am_array_new(DevReads(s, "forward", op, ids), Computed)
             ELSE am_array_new(HostReads(s, "forward", op, ids), Authored)
  IN  [Record(r, op, r.ret, args) EXCEPT !.ret = r.ret]

\* A function with a kernel: it runs if every operand is on the device and the
\* result fits; otherwise the operands are pulled and the host computes.
ResidentOrPulled(s, op, args) ==
  LET ids == Range(args)
      r == IF Resident(s, ids) /\ ~s.full
             THEN am_array_new(DevReads(s, "forward", op, ids), Computed)
             ELSE am_array_new(HostReads(Pull(s, ids), "forward", op, ids), Authored)
  IN  [Record(r, op, r.ret, args) EXCEPT !.ret = r.ret]

add(s, a, b)             == ResidentOrPulled(s, "ADD", <<a, b>>)
mul(s, a, b)             == ResidentOrPulled(s, "MUL", <<a, b>>)
silu(s, x)               == ResidentOrPulled(s, "SILU", <<x>>)
seq_rmsnorm(s, x)        == ResidentOrPulled(s, "SEQ_RMSNORM", <<x>>)
multi_head_attention(s, q, k, v) == ResidentOrPulled(s, "MH_CAUSAL_ATTN", <<q, k, v>>)
scale(s, a)              == OnHost(s, "SCALE", <<a>>)
matvec(s, w, x)          == OnHost(s, "MATVEC", <<w, x>>)
softmax(s, x)            == OnHost(s, "SOFTMAX", <<x>>)
rmsnorm(s, x)            == OnHost(s, "RMSNORM", <<x>>)
gelu(s, x)               == OnHost(s, "GELU", <<x>>)
dropout(s, x)            == OnHost(s, "DROPOUT", <<x>>)
cross_entropy(s, logits) == OnHost(s, "CROSS_ENT", <<logits>>)
embedding_lookup(s, wte) == OnHost(s, "EMB_LOOKUP", <<wte>>)
seq_embed(s, wte, wpe, tokens) == OnHost(s, "SEQ_EMBED", <<wte, wpe, tokens>>)
causal_attention(s, q, k, v) == OnHost(s, "CAUSAL_ATTN", <<q, k, v>>)

\* layernorm, seq_layernorm: gamma and beta, each may be missing, before x.
Normalised(s, op, x, gamma, beta) ==
  LET args == <<x, gamma, beta>>
      r == am_array_new(HostReads(s, "forward", op, Range(args) \ {0}), Authored)
  IN  [RecordIn(r, op, r.ret, args, <<gamma, beta, x>>) EXCEPT !.ret = r.ret]
layernorm(s, x, gamma, beta)     == Normalised(s, "LAYERNORM", x, gamma, beta)
seq_layernorm(s, x, gamma, beta) == Normalised(s, "SEQ_LAYERNORM", x, gamma, beta)

matmul(s, a, b)          == Unrecorded(s, "matmul", <<a, b>>)
relu(s, x)               == Unrecorded(s, "relu", <<x>>)
row(s, m)                == Unrecorded(s, "row", <<m>>)
spa_embed(s, ids, w)     == Unrecorded(s, "spa_embed", <<ids, w>>)
spa_connectedness(s, e, bias) == Unrecorded(s, "spa_connectedness", <<e, bias>>)

\* seq_matvec takes its operands to the device; only there a kernel multiplies.
seq_matvec(s, w, x) ==
  LET ids == {w, x}
      up == IF s.cuda THEN Upload(s, ids) ELSE s
      onDev == s.cuda /\ ~s.full /\ \A id \in ids : up.heap[id].dev # "absent"
      r == IF onDev
             THEN am_array_new(DevReads(up, "forward", "SEQ_MATVEC", ids), Computed)
             ELSE am_array_new(HostReads(Pull(up, ids), "forward", "SEQ_MATVEC", ids), Authored)
  IN  [Record(r, "SEQ_MATVEC", r.ret, <<w, x>>) EXCEPT !.ret = r.ret]

\* seq_cross_entropy: logits on the device take the targets there; the loss is a
\* number of the host.
seq_cross_entropy(s, logits, targets) ==
  LET ids == {logits, targets}
      dev == Resident(s, {logits})
      up == IF dev THEN Upload(s, {targets}) ELSE s
      r == IF dev /\ up.heap[targets].dev # "absent"
             THEN DevReads(up, "forward", "SEQ_CROSSENT", ids)
             ELSE HostReads(Pull(up, ids), "forward", "SEQ_CROSSENT", ids)
      n == am_array_new(r, Authored)
  IN  [Record(n, "SEQ_CROSSENT", n.ret, <<logits, targets>>) EXCEPT !.ret = n.ret]

-----------------------------------------------------------------------------
\* Backward.  Contribution <<i, k, m>> is the m-th entry i gives its parent k.

\* tape_acc_grad.
Give(s, i, k) ==
  LET p == s.tape[i].from[k]
      m == Cardinality({c \in s.tape[p].sum : c[1] = i /\ c[2] = k}) + 1
  IN  [s EXCEPT !.tape[p].graded = TRUE, !.tape[p].sum = @ \cup {<<i, k, m>>}]

HasParent(s, i, k) == k \in DOMAIN s.tape[i].from /\ s.tape[i].from[k] # 0
ParentData(s, i, ks) == {s.tape[s.tape[i].from[k]].out : k \in {j \in ks : HasParent(s, i, j)}}

Giving(s, i, gives) ==
  LET upTo[k \in 0..3] ==
        IF k = 0 THEN s
        ELSE LET r == upTo[k - 1] IN IF k \in gives /\ HasParent(s, i, k) THEN Give(r, i, k) ELSE r
  IN  upTo[3]

\* Cases that compute on the host with the values of the parents in uses,
\* pulled before; kernel: on the device if all of them are there.
BackwardCase(s, i, needs, uses, kernel, gives) ==
  LET op == s.tape[i].op
      ids == ParentData(s, i, uses)
  IN  IF \E k \in needs : ~HasParent(s, i, k) THEN s
      ELSE IF kernel /\ Resident(s, ids) THEN Giving(DevReads(s, "backward", op, ids), i, gives)
      ELSE Giving(HostReads(Pull(s, ids), "backward", op, ids), i, gives)

\* Cases that read their own output.
BackwardOwn(s, i) ==
  LET own == {s.tape[i].out}
  IN  IF HasParent(s, i, 1) THEN Giving(HostReads(Pull(s, own), "backward", s.tape[i].op, own), i, {1}) ELSE s

\* The first parent's share is added before the kernel is considered, and again
\* by it where the result was left on the device.
AddBackward(s, i) ==
  LET first == Giving(s, i, {1})
  IN  IF Resident(s, {s.tape[i].out}) THEN Giving(first, i, {1, 2}) ELSE Giving(first, i, {2})
\* A slip: a product gives its second factor nothing.
MulBackwardFirst(s, i)     == BackwardCase(s, i, {1, 2}, {1, 2}, TRUE, {1})
MulBackward(s, i)          == BackwardCase(s, i, {1, 2}, {1, 2}, TRUE, {1, 2})
ScaleBackward(s, i)        == BackwardCase(s, i, {1}, {}, FALSE, {1})
MatvecBackward(s, i)       == BackwardCase(s, i, {1, 2}, {1, 2}, FALSE, {1, 2})
SiluBackward(s, i)         == BackwardCase(s, i, {1}, {1}, TRUE, {1})
SoftmaxBackward(s, i)      == BackwardOwn(s, i)
RmsnormBackward(s, i)      == BackwardCase(s, i, {1}, {1}, FALSE, {1})
GeluBackward(s, i)         == BackwardCase(s, i, {1}, {1}, FALSE, {1})
DropoutBackward(s, i)      == BackwardOwn(s, i)
LayernormBackward(s, i)    == BackwardCase(s, i, {1}, {1, 2}, FALSE, {1, 2, 3})
SeqLayernormBackward(s, i) == BackwardCase(s, i, {1}, {1, 2}, FALSE, {1, 2, 3})
CrossEntBackward(s, i)     == BackwardCase(s, i, {1}, {1}, FALSE, {1})
EmbLookupBackward(s, i)    == BackwardCase(s, i, {1}, {}, FALSE, {1})
SeqEmbedBackward(s, i)     == BackwardCase(s, i, {1, 3}, {3}, FALSE, {1, 2})
SeqRmsnormBackward(s, i)   == BackwardCase(s, i, {1}, {1}, TRUE, {1})
CausalBackward(s, i)       == BackwardCase(s, i, {1, 2, 3}, {1, 2, 3}, FALSE, {1, 2, 3})
MhCausalBackward(s, i)     == BackwardCase(s, i, {1, 2, 3}, {1, 2, 3}, FALSE, {1, 2, 3})
SeqCrossentBackward(s, i)  == BackwardCase(s, i, {1}, {1, 2}, FALSE, {1})
SeqMatvecBackward(s, i) ==
  LET ids == ParentData(s, i, {1, 2})
      up == IF s.cuda THEN Upload(s, ids) ELSE s
  IN  IF ~(HasParent(s, i, 1) /\ HasParent(s, i, 2)) THEN s
      ELSE IF s.cuda /\ \A id \in ids : up.heap[id].dev # "absent"
      THEN Giving(DevReads(up, "backward", "SEQ_MATVEC", ids), i, {1, 2})
      ELSE Giving(HostReads(Pull(up, ids), "backward", "SEQ_MATVEC", ids), i, {1, 2})

\* The switch of am_tape_backward.
OpBackward(s, i) ==
  LET op == s.tape[i].op
  IN  CASE op = "ADD" -> AddBackward(s, i)
        [] op = "MUL" -> MulBackward(s, i)
        [] op = "SCALE" -> ScaleBackward(s, i)
        [] op = "MATVEC" -> MatvecBackward(s, i)
        [] op = "SILU" -> SiluBackward(s, i)
        [] op = "SOFTMAX" -> SoftmaxBackward(s, i)
        [] op = "RMSNORM" -> RmsnormBackward(s, i)
        [] op = "GELU" -> GeluBackward(s, i)
        [] op = "DROPOUT" -> DropoutBackward(s, i)
        [] op = "LAYERNORM" -> LayernormBackward(s, i)
        [] op = "SEQ_LAYERNORM" -> SeqLayernormBackward(s, i)
        [] op = "CROSS_ENT" -> CrossEntBackward(s, i)
        [] op = "EMB_LOOKUP" -> EmbLookupBackward(s, i)
        [] op = "SEQ_EMBED" -> SeqEmbedBackward(s, i)
        [] op = "SEQ_MATVEC" -> SeqMatvecBackward(s, i)
        [] op = "SEQ_RMSNORM" -> SeqRmsnormBackward(s, i)
        [] op = "CAUSAL_ATTN" -> CausalBackward(s, i)
        [] op = "MH_CAUSAL_ATTN" -> MhCausalBackward(s, i)
        [] op = "SEQ_CROSSENT" -> SeqCrossentBackward(s, i)
        [] OTHER -> s
=============================================================================
