------------------------------ MODULE NotorchOps ------------------------------
(***************************************************************************)
(* The operations of notorch's autograd tape (notorch.c): what each nt_ op  *)
(* reads, on which side, which copies it pulls first, what it records, and  *)
(* what its case of nt_tape_backward reads and gives to which parent.  The  *)
(* arithmetic of the operations is not modelled.                            *)
(***************************************************************************)
EXTENDS NotorchMirror

CONSTANT MaxEntries          \* NT_TAPE_MAX_ENTRIES

ASSUME EntriesAssumption == MaxEntries \in Nat \ {0}

\* NT_OP_NONE and the operations nt_tape_backward has a case for.
TapeOps ==
  {"NONE", "ADD", "MUL", "SCALE", "MATVEC", "SILU", "SIGMOID", "SCALE_BY_T", "SOFTMAX", "RMSNORM", "CROSS_ENT",
   "EMB_LOOKUP", "SEQ_EMBED", "SEQ_MATVEC", "SEQ_RMSNORM", "CAUSAL_ATTN", "MH_CAUSAL_ATTN", "GQA_ATTN", "RRPRAM_LR",
   "RRPRAM_BCAST", "RRPRAM_ATTN", "CONCAT", "SEQ_MATVEC_T", "SEQ_CROSSENT", "SEQ_CROSSENT_MASKED", "GEGLU",
   "DROPOUT", "GELU", "LAYERNORM", "SEQ_LAYERNORM", "ROPE", "SWIGLU", "BIT_LINEAR", "BIT_SEQ_LINEAR"}

\* nt_tape_entry.  alt: what the operands' shapes, the environment or the mask
\* make of the op (an ADD of equal lengths, attention whose kernel is enabled, a
\* ROPE on split halves, a mask with some position active).  from: the parents, 0 where there is none.  sum: the
\* contributions that e->grad holds, as <<consumer, position>>.
Entries(Weights, MaxParams) ==
  [op : TapeOps, data : {<<"weight", w>> : w \in Weights} \cup {<<"out", i>> : i \in 1..MaxEntries},
   from : UNION {[1..n -> 0..MaxEntries] : n \in 0..3}, param : BOOLEAN, frozen : BOOLEAN,
   slot : 0..MaxParams, alt : BOOLEAN, sum : SUBSET ((0..MaxEntries) \X (1..3)), applied : SUBSET Weights]

Entry(op, data, ps) == [op |-> op, data |-> data, from |-> ps, param |-> FALSE, frozen |-> FALSE,
                        slot |-> 0, alt |-> FALSE, sum |-> {}, applied |-> {}]

Fail(s) == [s EXCEPT !.ret = 0]

\* nt_tape_record, 3 and 4 with the output of an op: the tape keeps it or frees it.
Record(s, op, ps, mirror) ==
  LET i == Len(s.tape) + 1
  IN  IF i > MaxEntries THEN Fail(s)
      ELSE [With(s, <<"out", i>>, mirror) EXCEPT !.tape = Append(@, Entry(op, <<"out", i>>, ps)), !.ret = i]

DataOf(s, ps) == {s.tape[p].data : p \in Range(ps) \ {0}}

\* The shape of every op: the kernel where the device takes part and has room,
\* otherwise the host loop, after pulling the parents `pulls` names.
Launch(s, op, ps, onDevice, pulls) ==
  LET ids == DataOf(s, ps)
      up  == IF s.gpu /\ onDevice THEN Upload(s, ids) ELSE s
  IN  IF s.gpu /\ onDevice /\ s.room = "plenty"
        THEN Record(DevReads(up, "forward", op, ids), op, ps, MarkGpuFresh(DevWritten(Authored)))
        ELSE Record(HostReads(Pull(up, DataOf(s, pulls)), "forward", op, ids), op, ps, Authored)

\* The call r, whose entry is of the form alt.
Form(r, alt) == IF r.ret = 0 THEN r ELSE [r EXCEPT !.tape[r.ret].alt = alt]

Needing(s, ps, r) == IF 0 \in Range(ps) THEN Fail(s) ELSE r

nt_embedding(s, wte)          == Launch(s, "EMB_LOOKUP", <<wte>>, FALSE, <<>>)
\* wpe = 0: no position table, the only form the kernel takes.
nt_seq_embedding(s, wte, wpe, tok) ==
  Launch(s, "SEQ_EMBED", <<wte, wpe, tok>>, wpe = 0, <<wte, wpe, tok>>)
nt_seq_linear(s, w, x)        == Needing(s, <<w, x>>, Launch(s, "SEQ_MATVEC", <<w, x>>, TRUE, <<>>))
nt_seq_linear_t(s, w, x)      == Launch(s, "SEQ_MATVEC_T", <<w, x>>, TRUE, <<>>)
nt_rmsnorm(s, x, gamma)       == Launch(s, "RMSNORM", <<x, gamma>>, FALSE, <<>>)
nt_seq_rmsnorm(s, x, gamma)   == Launch(s, "SEQ_RMSNORM", <<x, gamma>>, TRUE, <<>>)
nt_silu(s, x)                 == Launch(s, "SILU", <<x>>, TRUE, <<>>)
nt_sigmoid(s, x)              == Launch(s, "SIGMOID", <<x>>, FALSE, <<x>>)
nt_scale_by_t(s, x, a)        == Launch(s, "SCALE_BY_T", <<x, a>>, FALSE, <<x, a>>)
nt_geglu(s, x, w1, w2)        == Launch(s, "GEGLU", <<x, w1, w2>>, FALSE, <<>>)
nt_softmax(s, x)              == Launch(s, "SOFTMAX", <<x>>, FALSE, <<>>)
nt_causal_attention(s, q, k, v) == Launch(s, "CAUSAL_ATTN", <<q, k, v>>, FALSE, <<>>)
\* enabled: NT_DISABLE_MH_GPU is not set.
nt_mh_causal_attention(s, q, k, v, enabled) ==
  Form(Launch(s, "MH_CAUSAL_ATTN", <<q, k, v>>, enabled, <<q, k, v>>), enabled)
nt_gqa_causal_attention(s, q, k, v) == Launch(s, "GQA_ATTN", <<q, k, v>>, FALSE, <<>>)
nt_rrpram_attention(s, wr, x, v) == Launch(s, "RRPRAM_ATTN", <<wr, x, v>>, FALSE, <<>>)
nt_rrpram_lowrank_attention(s, wr, x, v) == Launch(s, "RRPRAM_LR", <<wr, x, v>>, TRUE, <<wr, x, v>>)
nt_rrpram_broadcast_attention(s, wr, x, v) == Launch(s, "RRPRAM_BCAST", <<wr, x, v>>, FALSE, <<wr, x, v>>)
nt_concat(s, a, b)            == Launch(s, "CONCAT", <<a, b>>, FALSE, <<>>)
nt_swiglu(s, gate, up)        == Launch(s, "SWIGLU", <<gate, up>>, TRUE, <<>>)
nt_bit_linear(s, w, x)        == Launch(s, "BIT_LINEAR", <<w, x>>, FALSE, <<>>)
nt_bit_seq_linear(s, w, x)    == Launch(s, "BIT_SEQ_LINEAR", <<w, x>>, FALSE, <<>>)
nt_cross_entropy(s, logits)   == Launch(s, "CROSS_ENT", <<logits>>, FALSE, <<>>)
\* A slip: the host loop forgets to pull the second operand.
nt_addHalfPulled(s, a, b, alike) ==
  Needing(s, <<a, b>>, Form(Launch(s, "ADD", <<a, b>>, alike, <<a>>), alike))
\* alike: the operands have one length; the host broadcasts the second otherwise.
nt_add(s, a, b, alike) ==
  Needing(s, <<a, b>>, Form(Launch(s, "ADD", <<a, b>>, alike, <<a, b>>), alike))
nt_mul(s, a, b, alike)        == Launch(s, "MUL", <<a, b>>, alike, <<a, b>>)
nt_scale(s, x)                == Needing(s, <<x>>, Launch(s, "SCALE", <<x>>, TRUE, <<x>>))
nt_rope_freq(s, x, enabled)   == Launch(s, "ROPE", <<x>>, enabled, <<x>>)
nt_rope_split_half_freq(s, x) == Form(Launch(s, "ROPE", <<x>>, FALSE, <<x>>), TRUE)
nt_dropout(s, x)              == Launch(s, "DROPOUT", <<x>>, FALSE, <<>>)
nt_gelu(s, x)                 == Launch(s, "GELU", <<x>>, FALSE, <<>>)
nt_layernorm(s, x, gamma, beta) == Launch(s, "LAYERNORM", <<x, gamma, beta>>, FALSE, <<>>)
nt_seq_layernorm(s, x, gamma, beta) == Launch(s, "SEQ_LAYERNORM", <<x, gamma, beta>>, FALSE, <<>>)
nt_linear(s, w, x, bias) ==
  LET y == Launch(s, "MATVEC", <<w, x>>, FALSE, <<>>)
  IN  IF bias = 0 THEN y ELSE nt_add(y, y.ret, bias, TRUE)
\* The loss is a host value even where the kernel computed it.
nt_seq_cross_entropy(s, logits, targets) ==
  LET ids == DataOf(s, <<logits, targets>>)
      up  == IF s.gpu THEN Upload(s, ids) ELSE s
      r   == IF s.gpu /\ OnDevice(up, ids) /\ s.room # "none"
               THEN DevReads(up, "forward", "SEQ_CROSSENT", ids) ELSE HostReads(up, "forward", "SEQ_CROSSENT", ids)
  IN  Record(r, "SEQ_CROSSENT", <<logits, targets>>, Authored)
\* active: the mask lets some position count.
nt_seq_cross_entropy_masked(s, logits, targets, mask, active) ==
  Form(Launch(s, "SEQ_CROSSENT_MASKED", <<logits, targets, mask>>, FALSE, <<logits, targets, mask>>), active)

-----------------------------------------------------------------------------
\* Gradients.  Contribution <<i, k>> is what entry i gives its parent k.
HasGrad(s, i) == <<"grad", i>> \in DOMAIN s.mem
NewGrad(s, i) == IF HasGrad(s, i) THEN s ELSE With(s, <<"grad", i>>, Authored)

\* A slip: the sum on the device is not fetched before the host adds to it.
tape_acc_gradUnsynced(s, i, k) ==
  LET p == s.tape[i].from[k]
      g == {<<"grad", p>>}
      n == HostReads(NewGrad(s, p), "backward", "acc_grad", g)
      written(t) == MarkCpuDirty(HostWritten(t))
  IN  IF s.tape[p].frozen THEN s
      ELSE [Changed(n, g, written) EXCEPT
              !.tape[p].sum = (IF n.mem[<<"grad", p>>].host THEN @ ELSE {}) \cup {<<i, k>>}]

\* tape_acc_grad: add on the host.  A stale copy would lose what was summed before.
tape_acc_grad(s, i, k) ==
  LET p == s.tape[i].from[k]
      g == {<<"grad", p>>}
      n == HostReads(Pull(NewGrad(s, p), g), "backward", "acc_grad", g)
      written(t) == MarkCpuDirty(HostWritten(t))
  IN  IF s.tape[p].frozen THEN s
      ELSE [Changed(n, g, written) EXCEPT
              !.tape[p].sum = (IF n.mem[<<"grad", p>>].host THEN @ ELSE {}) \cup {<<i, k>>}]

\* tape_acc_grad_gpu: add on the device; without a buffer there, the
\* contribution is dropped and an empty gradient stays.
tape_acc_grad_gpu(s, i, k) ==
  LET p == s.tape[i].from[k]
      g == {<<"grad", p>>}
      n == Upload(NewGrad(s, p), g)
      r == DevReads(n, "backward", "acc_grad", g)
      written(t) == MarkGpuFresh(DevWritten(t))
  IN  IF s.tape[p].frozen THEN s
      ELSE IF ~OnDevice(n, g) THEN n
      ELSE [Changed(r, g, written) EXCEPT
              !.tape[p].sum = (IF r.mem[<<"grad", p>>].dev = "new" THEN @ ELSE {}) \cup {<<i, k>>}]

\* Positions of the parents that are there.
Parents(s, i, ks) == {k \in ks \cap DOMAIN s.tape[i].from : s.tape[i].from[k] # 0}
ParentData(s, i, ks) == {s.tape[s.tape[i].from[k]].data : k \in Parents(s, i, ks)}

\* The parents in `gives` in turn, each with acc.
Giving(s, i, gives, Acc(_, _, _)) ==
  LET give(r, k) == IF k \in Parents(s, i, gives) THEN Acc(r, i, k) ELSE r
  IN  give(give(give(s, 1), 2), 3)

\* The shape of every case of nt_tape_backward.  uses: the parents whose values
\* it reads; scratch: whether the kernel needs scratch buffers as well.
BackwardCase(s, i, onDevice, scratch, uses, pulls, gives) ==
  LET e    == s.tape[i]
      data == ParentData(s, i, uses)
      ids  == data \cup {<<"grad", i>>}
      up   == IF s.gpu /\ onDevice THEN Upload(s, ids) ELSE s
  IN  IF s.gpu /\ onDevice /\ OnDevice(up, ids) /\ (scratch => s.room # "none")
        THEN Giving(DevReads(up, "backward", e.op, ids), i, gives, tape_acc_grad_gpu)
        ELSE Giving(HostReads(Pull(up, ParentData(s, i, pulls)), "backward", e.op, ids), i, gives, tape_acc_grad)

\* A case that reads its own output, on the host, without pulling it.
BackwardOwn(s, i) ==
  Giving(HostReads(s, "backward", s.tape[i].op, {s.tape[i].data, <<"grad", i>>}), i, {1}, tape_acc_grad)

AddBackward(s, i)        == BackwardCase(s, i, s.tape[i].alt, FALSE, {}, {}, {1, 2})
MulBackward(s, i)        == BackwardCase(s, i, TRUE, TRUE, {1, 2}, {1, 2}, {1, 2})
ScaleBackward(s, i)      == BackwardCase(s, i, TRUE, TRUE, {}, {}, {1})
MatvecBackward(s, i)     == BackwardCase(s, i, FALSE, FALSE, {1, 2}, {}, {1, 2})
SiluBackward(s, i)       == BackwardCase(s, i, TRUE, TRUE, {1}, {1}, {1})
SigmoidBackward(s, i)    == BackwardOwn(s, i)
ScaleByTBackward(s, i)   == BackwardCase(s, i, FALSE, FALSE, {1, 2}, {1, 2}, {1, 2})
SoftmaxBackward(s, i)    == BackwardOwn(s, i)
RmsnormBackward(s, i)    == BackwardCase(s, i, FALSE, FALSE, {1, 2}, {1, 2}, {1, 2})
CrossEntBackward(s, i)   == BackwardCase(s, i, FALSE, FALSE, {1}, {}, {1})
EmbLookupBackward(s, i)  == BackwardCase(s, i, FALSE, FALSE, {}, {}, {1})
SeqEmbedBackward(s, i) ==
  BackwardCase(s, i, s.tape[i].from[2] = 0, TRUE, {3}, {3}, {1, 2})
\* The kernel needs both operands and the gradient on the device; the host path reads
\* W for dX and X for dW, and neither for a frozen parent.
SeqMatvecBackward(s, i) ==
  LET live == {k \in {1, 2} : ~s.tape[s.tape[i].from[k]].frozen}
      ids  == ParentData(s, i, {1, 2}) \cup {<<"grad", i>>}
      up   == IF s.gpu THEN Upload(s, ids) ELSE s
  IN  IF live = {} THEN s
      ELSE IF s.gpu /\ OnDevice(up, ids) /\ s.room # "none"
      THEN BackwardCase(s, i, TRUE, TRUE, {1, 2}, {}, live)
      ELSE BackwardCase(up, i, FALSE, FALSE, {3 - k : k \in live}, {}, live)
SeqRmsnormBackward(s, i) == BackwardCase(s, i, TRUE, TRUE, {1, 2}, {1, 2}, {1, 2})
CausalBackward(s, i)     == BackwardCase(s, i, FALSE, FALSE, {1, 2, 3}, {}, {1, 2, 3})
MhCausalBackward(s, i)   == BackwardCase(s, i, s.tape[i].alt, TRUE, {1, 2, 3}, {1, 2, 3}, {1, 2, 3})
GqaBackward(s, i)        == BackwardCase(s, i, FALSE, FALSE, {1, 2, 3}, {}, {1, 2, 3})
RrpramLrBackward(s, i)   == BackwardCase(s, i, TRUE, TRUE, {1, 2, 3}, {}, {1, 2, 3})
RrpramBcastBackward(s, i) == BackwardCase(s, i, FALSE, FALSE, {1, 2, 3}, {1, 2, 3}, {1, 2, 3})
RrpramAttnBackward(s, i) == BackwardCase(s, i, FALSE, FALSE, {1, 2, 3}, {}, {1, 2, 3})
ConcatBackward(s, i)     == BackwardCase(s, i, FALSE, FALSE, {}, {}, {1, 2})
\* The kernel's results are downloaded and added on the host.
SeqMatvecTBackward(s, i) ==
  LET ids == ParentData(s, i, {1, 2}) \cup {<<"grad", i>>}
      up  == IF s.gpu THEN Upload(s, ids) ELSE s
      r   == IF s.gpu /\ OnDevice(up, ids) /\ s.room # "none"
               THEN DevReads(up, "backward", "SEQ_MATVEC_T", ids) ELSE HostReads(up, "backward", "SEQ_MATVEC_T", ids)
  IN  Giving(r, i, {1, 2}, tape_acc_grad)
\* dout[0] is a host scalar, so the loss's gradient is not uploaded.
SeqCrossentBackward(s, i) ==
  LET ids == ParentData(s, i, {1, 2})
      up  == IF s.gpu THEN Upload(s, ids) ELSE s
  IN  IF s.gpu /\ OnDevice(up, ids) /\ s.room # "none"
        THEN Giving(DevReads(up, "backward", "SEQ_CROSSENT", ids), i, {1}, tape_acc_grad_gpu)
        ELSE Giving(HostReads(up, "backward", "SEQ_CROSSENT", ids), i, {1}, tape_acc_grad)
\* Where no position counts, the case ends before it gives anything.
SeqCrossentMaskedBackward(s, i) ==
  BackwardCase(s, i, FALSE, FALSE, {1, 2, 3}, {1, 2, 3}, IF s.tape[i].alt THEN {1} ELSE {})
GegluBackward(s, i)      == BackwardCase(s, i, FALSE, FALSE, {1, 2, 3}, {}, {1, 2, 3})
DropoutBackward(s, i)    == BackwardOwn(s, i)
GeluBackward(s, i)       == BackwardCase(s, i, FALSE, FALSE, {1}, {}, {1})
LayernormBackward(s, i)  == BackwardCase(s, i, FALSE, FALSE, {1, 2}, {}, {1, 2, 3})
SeqLayernormBackward(s, i) == BackwardCase(s, i, FALSE, FALSE, {1, 2}, {}, {1, 2, 3})
RopeBackward(s, i)       == BackwardCase(s, i, ~s.tape[i].alt, TRUE, {}, {}, {1})
SwigluBackward(s, i)     == BackwardCase(s, i, TRUE, TRUE, {1, 2}, {1, 2}, {1, 2})
BitLinearBackward(s, i)  == BackwardCase(s, i, FALSE, FALSE, {1, 2}, {}, {1, 2})
BitSeqLinearBackward(s, i) == BackwardCase(s, i, FALSE, FALSE, {1, 2}, {}, {1, 2})

\* The switch of nt_tape_backward.
OpBackward(s, i) ==
  LET op == s.tape[i].op
  IN  CASE op = "ADD" -> AddBackward(s, i)
        [] op = "MUL" -> MulBackward(s, i)
        [] op = "SCALE" -> ScaleBackward(s, i)
        [] op = "MATVEC" -> MatvecBackward(s, i)
        [] op = "SILU" -> SiluBackward(s, i)
        [] op = "SIGMOID" -> SigmoidBackward(s, i)
        [] op = "SCALE_BY_T" -> ScaleByTBackward(s, i)
        [] op = "SOFTMAX" -> SoftmaxBackward(s, i)
        [] op = "RMSNORM" -> RmsnormBackward(s, i)
        [] op = "CROSS_ENT" -> CrossEntBackward(s, i)
        [] op = "EMB_LOOKUP" -> EmbLookupBackward(s, i)
        [] op = "SEQ_EMBED" -> SeqEmbedBackward(s, i)
        [] op = "SEQ_MATVEC" -> SeqMatvecBackward(s, i)
        [] op = "SEQ_RMSNORM" -> SeqRmsnormBackward(s, i)
        [] op = "CAUSAL_ATTN" -> CausalBackward(s, i)
        [] op = "MH_CAUSAL_ATTN" -> MhCausalBackward(s, i)
        [] op = "GQA_ATTN" -> GqaBackward(s, i)
        [] op = "RRPRAM_LR" -> RrpramLrBackward(s, i)
        [] op = "RRPRAM_BCAST" -> RrpramBcastBackward(s, i)
        [] op = "RRPRAM_ATTN" -> RrpramAttnBackward(s, i)
        [] op = "CONCAT" -> ConcatBackward(s, i)
        [] op = "SEQ_MATVEC_T" -> SeqMatvecTBackward(s, i)
        [] op = "SEQ_CROSSENT" -> SeqCrossentBackward(s, i)
        [] op = "SEQ_CROSSENT_MASKED" -> SeqCrossentMaskedBackward(s, i)
        [] op = "GEGLU" -> GegluBackward(s, i)
        [] op = "DROPOUT" -> DropoutBackward(s, i)
        [] op = "GELU" -> GeluBackward(s, i)
        [] op = "LAYERNORM" -> LayernormBackward(s, i)
        [] op = "SEQ_LAYERNORM" -> SeqLayernormBackward(s, i)
        [] op = "ROPE" -> RopeBackward(s, i)
        [] op = "SWIGLU" -> SwigluBackward(s, i)
        [] op = "BIT_LINEAR" -> BitLinearBackward(s, i)
        [] op = "BIT_SEQ_LINEAR" -> BitSeqLinearBackward(s, i)
        [] OTHER -> s
=============================================================================
