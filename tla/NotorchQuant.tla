------------------------------ MODULE NotorchQuant ------------------------------
(* Weights that stay packed (notorch.c, gguf.c): gguf_dequant unpacks a tensor, the row
   kernels of nt_qmatvec read the same blocks in place, and nt_qmatvec shares the rows
   of a large matrix out among threads. Values are not computed: an unpacked value is
   the bits of the block it is made of, and a row the pairs <<element of x, value>> that
   are multiplied and summed.                                                        *)
EXTENDS Integers, Sequences, FiniteSets, FiniteSetsExt, GgufFile

CONSTANTS
  Shapes,      \* rows and columns of the matrices, [m, k]
  Cores,       \* what sysconf says of the processors
  MaxThreads,  \* NT_QMV_MAX_THREADS
  Gate         \* 4 << 20, the size from which threads are used

ASSUME QuantLimits == /\ WordMax \in Nat /\ MaxThreads \in Nat \ {0} /\ Gate \in Nat
                      /\ Shapes \subseteq [m : Nat, k : Nat] /\ Cores \subseteq Int

VARIABLES
  call,    \* the call of nt_qmatvec: its phase, shape, number of threads, next thread
  jobs,    \* jobs[t]: the rows a thread still has to do
  inline,  \* the rows the caller itself still has to do
  out      \* out[r]: how often a row was written

quantVars == <<call, jobs, inline, out>>

-----------------------------------------------------------------------------
(* Blocks. A value is [q, scale, min]: the fields <<byte, shift, width>> that are put
   together, lowest first, and those of its scale and minimum within the block.      *)

Byte(b) == <<b, 0, 8>>
Low(b)  == <<b, 0, 4>>
High(b) == <<b, 4, 4>>
Word(b, n) == <<b + (n \div 8), n % 8, 1>>   \* bit n of the word that begins at b
Half(b) == <<Byte(b), Byte(b + 1)>>        \* an f16

Value(q, scale)       == [q |-> q, scale |-> scale, min |-> <<>>]
ValueLess(q, s, min) == [q |-> q, scale |-> s, min |-> min]

(* get_scale_min_k4: scale and minimum j of the twelve bytes at b. *)
get_scale_min_k4(b, j) ==
  IF j < 4 THEN [s |-> <<<<b + j, 0, 6>>>>, m |-> <<<<b + j + 4, 0, 6>>>>]
  ELSE [s |-> <<Low(b + j + 4), <<b + j - 4, 6, 2>>>>, m |-> <<High(b + j + 4), <<b + j, 6, 2>>>>]

dequant_q4_0 == [e \in 0..31 |-> Value(<<IF e < 16 THEN Low(2 + e) ELSE High(2 + e - 16)>>, Half(0))]
dequant_q8_0 == [e \in 0..31 |-> Value(<<Byte(2 + e)>>, Half(0))]
dequant_q5_0 == [e \in 0..31 |-> Value(<<IF e < 16 THEN Low(6 + e) ELSE High(6 + e - 16), Word(2, e)>>, Half(0))]

dequant_q4_k ==
  [e \in 0..255 |->
     LET is == e \div 32
         byte == 16 + (e \div 64) * 32 + (e % 32)
         sm == get_scale_min_k4(4, is)
     IN  ValueLess(<<IF is % 2 = 0 THEN Low(byte) ELSE High(byte)>>, Half(0) \o sm.s, Half(2) \o sm.m)]

dequant_q6_k ==
  [e \in 0..255 |->
     LET half == e \div 128
         part == (e % 128) \div 32
         l == e % 32
         ql == half * 64 + l + (part % 2) * 32
         high == <<128 + half * 32 + l, 2 * part, 2>>
     IN  Value(<<IF part < 2 THEN Low(ql) ELSE High(ql), high>>,
               <<Byte(192 + half * 8 + (l \div 16) + 2 * part)>> \o Half(208))]

(* The kernels, whose loops run over the packed bytes. *)
nt_q4_0_rows == UNION {{<<i, Value(<<Low(2 + i)>>, Half(0))>>, <<i + 16, Value(<<High(2 + i)>>, Half(0))>>} : i \in 0..15}

(* With the activations rounded to int8, which is done block by block beforehand. *)
nt_q4_0_rows_i8 == {<<i, Value(<<Low(2 + i)>>, Half(0))>> : i \in 0..15}
                     \union {<<i + 16, Value(<<High(2 + i)>>, Half(0))>> : i \in 0..15}

nt_q8_0_rows == {<<i, Value(<<Byte(2 + i)>>, Half(0))>> : i \in 0..31}

nt_q5_0_rows ==
  LET qs(j) == 6 + j
  IN  UNION {{<<j, Value(<<Low(qs(j)), Word(2, j)>>, Half(0))>>,
              <<j + 16, Value(<<High(qs(j)), Word(2, j + 16)>>, Half(0))>>} : j \in 0..15}

(* A slip: the index of the scales advances by one for every two of them. *)
nt_q4_k_rowsNarrow ==
  LET step(n, l) ==   \* j = 64n, qi = 32n, is = n
        LET byte == 16 + 32 * n + l
            a == get_scale_min_k4(4, n)
            b == get_scale_min_k4(4, n + 1)
        IN  {<<64 * n + l, ValueLess(<<Low(byte)>>, Half(0) \o a.s, Half(2) \o a.m)>>,
             <<64 * n + 32 + l, ValueLess(<<High(byte)>>, Half(0) \o b.s, Half(2) \o b.m)>>}
  IN  UNION {step(n, l) : n \in 0..3, l \in 0..31}

nt_q4_k_rows ==
  LET step(n, l) ==   \* j = 64n, qi = 32n, is = 2n
        LET byte == 16 + 32 * n + l
            a == get_scale_min_k4(4, 2 * n)
            b == get_scale_min_k4(4, 2 * n + 1)
        IN  {<<64 * n + l, ValueLess(<<Low(byte)>>, Half(0) \o a.s, Half(2) \o a.m)>>,
             <<64 * n + 32 + l, ValueLess(<<High(byte)>>, Half(0) \o b.s, Half(2) \o b.m)>>}
  IN  UNION {step(n, l) : n \in 0..3, l \in 0..31}

nt_q6_k_rows ==
  LET step(n, l) ==   \* the half that begins at n
        LET qlh == (n \div 128) * 64
            qhh == 128 + (n \div 128) * 32
            sch == 192 + (n \div 128) * 8 + (l \div 16)
        IN  {<<n + l,      Value(<<Low(qlh + l),       <<qhh + l, 0, 2>>>>, <<Byte(sch)>> \o Half(208))>>,
             <<n + l + 32, Value(<<Low(qlh + l + 32),  <<qhh + l, 2, 2>>>>, <<Byte(sch + 2)>> \o Half(208))>>,
             <<n + l + 64, Value(<<High(qlh + l),      <<qhh + l, 4, 2>>>>, <<Byte(sch + 4)>> \o Half(208))>>,
             <<n + l + 96, Value(<<High(qlh + l + 32), <<qhh + l, 6, 2>>>>, <<Byte(sch + 6)>> \o Half(208))>>}
  IN  UNION {step(n, l) : n \in {0, 128}, l \in 0..31}

(* Of F16 and F32 a block is one element. *)
nt_f16_rows == {<<0, Value(Half(0), <<>>)>>}
nt_f32_rows == {<<0, Value(Half(0) \o Half(2), <<>>)>>}

-----------------------------------------------------------------------------
(* The formats: elements and bytes of a block, what gguf_dequant makes of it and the
   kernels that read it. "Q4_1" is known by name only.                               *)
Dtypes == {"F32", "F16", "Q4_0", "Q4_1", "Q5_0", "Q8_0", "Q4_K", "Q6_K"}

Format(size, bytes, unpacked, kernels) == [size |-> size, bytes |-> bytes, unpacked |-> unpacked, kernels |-> kernels]

nt_qrows_for ==
  [F32  |-> Format(1, 4, [e \in {0} |-> Value(Half(0) \o Half(2), <<>>)], {nt_f32_rows}),
   F16  |-> Format(1, 2, [e \in {0} |-> Value(Half(0), <<>>)], {nt_f16_rows}),
   Q4_0 |-> Format(32, 18, dequant_q4_0, {nt_q4_0_rows, nt_q4_0_rows_i8}),
   Q5_0 |-> Format(32, 22, dequant_q5_0, {nt_q5_0_rows}),
   Q8_0 |-> Format(32, 34, dequant_q8_0, {nt_q8_0_rows}),
   Q4_K |-> Format(256, 144, dequant_q4_k, {nt_q4_k_rows}),
   Q6_K |-> Format(256, 210, dequant_q6_k, {nt_q6_k_rows})]

Fields(v) == {v.q[i] : i \in DOMAIN v.q}
BitsOf(f) == {<<f[1], b>> : b \in f[2]..(f[2] + f[3] - 1)}
BitsOfAll(fields) == UNION {BitsOf(f) : f \in fields}
Sides(v)  == {v.scale[i] : i \in DOMAIN v.scale} \union {v.min[i] : i \in DOMAIN v.min}

(* Every kernel multiplies each element of x once, by the value gguf_dequant unpacks at
   its place; no two values share a bit; and values, scales and minima are all of the
   block. *)
KernelsReadWhatIsUnpacked ==
  \A d \in DOMAIN nt_qrows_for :
    LET fmt == nt_qrows_for[d]
        values == fmt.unpacked
        own == UNION {BitsOfAll(Fields(values[e])) : e \in DOMAIN values}
        sides == UNION {BitsOfAll(Sides(values[e])) : e \in DOMAIN values}
        bits == MapThenSumSet(LAMBDA e : Cardinality(BitsOfAll(Fields(values[e]))), DOMAIN values)
    IN  /\ \A kernel \in fmt.kernels : kernel = {<<e, values[e]>> : e \in DOMAIN values}
        /\ DOMAIN values = 0..(fmt.size - 1)
        /\ Cardinality(own) = bits
        /\ own \intersect sides = {}
        /\ own \union sides = (0..(fmt.bytes - 1)) \X (0..7)

-----------------------------------------------------------------------------
(* gguf_dtype_nbytes, in a word of WordMax; 0 refuses. *)
gguf_dtype_nbytes(d, n) ==
  IF d \notin DOMAIN nt_qrows_for THEN 0
  ELSE LET per == nt_qrows_for[d].bytes
           blocks == n \div nt_qrows_for[d].size
       IN  IF blocks > WordMax \div per THEN 0 ELSE (blocks * per) % (WordMax + 1)

(* gguf_dequant of a tensor of n elements at an offset: whether there is one, the bytes
   read, and the elements filled. *)
gguf_dequant(d, n, offset, size) ==
  LET nbytes == gguf_dtype_nbytes(d, n)
  IN  IF nbytes = 0 \/ offset >= size \/ nbytes > size - offset THEN [found |-> FALSE, read |-> 0, filled |-> 0]
      ELSE LET fmt == nt_qrows_for[d]
               blocks == n \div fmt.size
           IN  [found |-> TRUE, read |-> offset + blocks * fmt.bytes, filled |-> blocks * fmt.size]

(* No tensor is read past the end of the data, however large its shape is said to be,
   and one of whole blocks is unpacked whole. *)
DequantStaysInside ==
  \A d \in Dtypes, n \in 0..WordMax, offset \in {0, 32, WordMax}, size \in {0, 64, 512} :
    LET t == gguf_dequant(d, n, offset, size)
    IN  t.found => /\ t.read <= size /\ t.filled <= n
                   /\ n % nt_qrows_for[d].size = 0 => t.filled = n

-----------------------------------------------------------------------------
(* nt_qmatvec. *)
NoRows == [from |-> 0, to |-> 0]
Idle == [phase |-> "idle", m |-> 0, nt |-> 0, t |-> 0]
QuantInit == call = Idle /\ jobs = <<>> /\ inline = NoRows /\ out = <<>>

Per == (call.m + call.nt - 1) \div call.nt

Begins ==
  /\ call.phase = "idle"
  /\ \E s \in Shapes, cores \in Cores :
       LET nt == Min({Max({cores, 1}), MaxThreads, s.m})
           alone == nt <= 1 \/ s.m * s.k < Gate
       IN  /\ call' = [phase |-> IF alone THEN "join" ELSE "launch", m |-> s.m, nt |-> nt, t |-> 0]
           /\ inline' = IF alone THEN [from |-> 0, to |-> s.m] ELSE NoRows
           /\ out' = [r \in 1..s.m |-> 0] /\ jobs' = <<>>

(* pthread_create, or its failure: the caller does all the rows that are left. *)
CreateFails ==
  /\ call.phase = "launch" /\ call.t < call.nt /\ call.t * Per < call.m
  /\ inline' = [from |-> call.t * Per, to |-> call.m]
  /\ call' = [call EXCEPT !.phase = "join"] /\ UNCHANGED <<jobs, out>>

ThreadCreated ==
  /\ call.phase = "launch" /\ call.t < call.nt /\ call.t * Per < call.m
  /\ jobs' = Append(jobs, [from |-> call.t * Per, to |-> Min({call.t * Per + Per, call.m})])
  /\ call' = [call EXCEPT !.t = @ + 1] /\ UNCHANGED <<inline, out>>

AllLaunched ==
  /\ call.phase = "launch" /\ (call.t = call.nt \/ call.t * Per >= call.m)
  /\ call' = [call EXCEPT !.phase = "join"] /\ UNCHANGED <<jobs, inline, out>>

(* nt_qworker, and the caller: a row is written when it is done. *)
nt_qworker == \E t \in DOMAIN jobs :
  /\ jobs[t].from < jobs[t].to
  /\ out' = [out EXCEPT ![jobs[t].from + 1] = @ + 1]
  /\ jobs' = [jobs EXCEPT ![t].from = @ + 1] /\ UNCHANGED <<call, inline>>

RowInline ==
  /\ call.phase = "join" /\ inline.from < inline.to
  /\ out' = [out EXCEPT ![inline.from + 1] = @ + 1]
  /\ inline' = [inline EXCEPT !.from = @ + 1] /\ UNCHANGED <<call, jobs>>

AllJoined ==
  /\ call.phase = "join" /\ inline.from = inline.to
  /\ \A t \in DOMAIN jobs : jobs[t].from = jobs[t].to
  /\ call' = [call EXCEPT !.phase = "done"] /\ UNCHANGED <<jobs, inline, out>>

Returned == call.phase = "done" /\ call' = Idle /\ jobs' = <<>> /\ out' = <<>> /\ UNCHANGED inline

QuantNext == Begins \/ ThreadCreated \/ CreateFails \/ AllLaunched \/ nt_qworker \/ RowInline \/ AllJoined \/ Returned

QuantSpec == QuantInit /\ [][QuantNext]_quantVars

(* A row has one writer, whichever of the threads could be created, and when nt_qmatvec
   returns every row is written. *)
RowsAreWrittenOnce ==
  /\ \A r \in DOMAIN out : out[r] + Cardinality({t \in DOMAIN jobs : r - 1 \in jobs[t].from..(jobs[t].to - 1)})
                             + (IF r - 1 \in inline.from..(inline.to - 1) THEN 1 ELSE 0) <= 1
  /\ call.phase = "done" => \A r \in DOMAIN out : out[r] = 1

(* A product with packed weights is the one with the unpacked tensor (nt_qmatvec, "same
   math as gguf_dequant -> nt_blas_matvec"): the tensor is the one the file describes
   under that name, the kernels pair what gguf_dequant unpacks, which reads only its
   tensor, and the threads divide the rows among them. *)
PackedProductsAreWhole == FilesAreReadAsWritten /\ KernelsReadWhatIsUnpacked /\ DequantStaysInside /\ RowsAreWrittenOnce
=============================================================================
