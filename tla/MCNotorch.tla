-------------------------------- MODULE MCNotorch --------------------------------
(* Parts of notorch that a program uses one by one: the tape with its mirrors, packed
   weights, what feeds training: the loader and the schedule, and the image operations. One
   moves and the others stay as they were started.                                    *)
EXTENDS MCNotorchTape, NotorchQuant, NotorchData, NotorchImage

\* Merges of up to three pairs; the last ones make tokens as long as an entry.
Pairs == {<<0, 0>>, <<0, 1>>, <<1, 0>>, <<2, 0>>, <<2, 2>>, <<1, 3>>, <<3, 2>>}
MCMergeLists == UNION {[1..n -> Pairs] : n \in 0..3}
MCTexts == UNION {[1..n -> {0, 1}] : n \in 1..7}

\* A text of every length up to three batches and a rest.
MCTextFiles == {SubSeq(<<0, 1, 0, 1, 1, 0, 1>>, 1, n) : n \in 1..7}
MCMergesFiles == {<<>>, << <<0, 1>> >>}
MCSizes == {s \in [seq : 1..3, batch : 1..2] : s.seq * s.batch > 1}

MCSchedules == [type : {"cosine", "linear", "step"}, base : {24}, min : {0, 3}, warmup : {0, 1, 3},
                span : {0, 2, 5, 6}, gamma : {<<1, 2>>, <<0, 1>>, <<1, 1>>}]

\* Fewer and more rows than threads, on both sides of the gate.
MCShapes == [m : 1..5, k : {1, 4}]

\* Texts, names and keys around the length of each buffer, and values of every kind.
FileTexts == [is : {"a", "b"}, len : {1, 3, 5, 6}]
OneOf(type, items) == [type : {type}, item : items]
Numbers == OneOf(4, [is : {"1", "2"}, len : {0}])
Kvs == [key : {[is |-> "a", len |-> n] : n \in {2, 3, 5, 6}} \union {[is |-> "b", len |-> 2]},
        value : Numbers \union OneOf(8, [is : {"a"}, len : {1, 6}]) \union OneOf(2, {Empty})
                \union OneOf(9, {<<>>} \union [1..2 -> OneOf(8, [is : {"a"}, len : {1, 5}])] \union [1..2 -> Numbers])]
\* Shapes of as many elements as a word holds and of more, of as many dimensions as are
\* read and of more.
Listed == [name : FileTexts, shape : {<<2>>, <<40, 30>>, <<1, 2, 1, 2>>, <<1, 2, 1, 2, 1>>},
           dtype : {"F16"}, offset : {0}]
            \union [name : FileTexts, shape : {<<2>>}, dtype : {"F16", "Q8_0"}, offset : {0, 32}]
MCFiles == LET upTo(n, S) == UNION {[1..k -> S] : k \in 0..n} IN
  [kvs : upTo(2, Kvs) \union [1..4 -> {kv \in Kvs : kv.value \in Numbers /\ kv.key.len < 5}], tensors : {<<>>}]
    \union [kvs : {<<>>}, tensors : upTo(2, Listed)]

\* Oblong images and kernels, kernels as large as the padded image and larger.
MCGeometries == [c : {2}, out : {2}, h : {2, 3}, w : {1, 3}, kh : 1..4, kw : {1, 2}, stride : {1, 2}, pad : {0, 1}]
MCNorms      == [c : {1, 4, 6}, spatial : {0, 2}, groups : {-1, 0, 1, 2, 3}]
MCAttentions == [t : {1, 2}, s : 0..3, d : 1..2]

VARIABLE moving

NotorchInit ==
  /\ moving \in {"tape", "quant", "loader", "schedule", "image"} /\ Init /\ QuantInit /\ DataInit /\ ImageInit
  /\ moving # "tape" => ~gpu /\ plan \in AnyGraphPlans

NotorchNext ==
  /\ UNCHANGED moving
  /\ \/ moving = "tape" /\ Next /\ UNCHANGED <<quantVars, dataVars, image>>
     \/ moving = "quant" /\ QuantNext /\ UNCHANGED <<vars, dataVars, image>>
     \/ moving = "loader" /\ LoaderNext /\ UNCHANGED <<vars, quantVars, image>>
     \/ moving = "schedule" /\ ScheduleNext /\ UNCHANGED <<vars, quantVars, image>>
     \/ moving = "image" /\ ImageNext /\ UNCHANGED <<vars, quantVars, dataVars>>

NotorchSpec == NotorchInit /\ [][NotorchNext]_<<moving, vars, quantVars, dataVars, image>>
=============================================================================
