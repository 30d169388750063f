-------------------------------- MODULE GgufFile --------------------------------
(* How notorch reads a GGUF file (gguf.c): gguf_open walks over the metadata and the
   table of tensors, gguf_read_str_array walks over the metadata again for the arrays the
   first walk left out. The file is told by what is in it, one thing after the other; a
   reader is "lost" when it takes the bytes of one thing for another.

   A string is [is, len], the first len letters of a text. A value is [type, item], the
   item of an array being the sequence of its values; an array has no arrays in it.
   Types are numbered as in the file. What general.architecture and the like are copied
   to is left out.                                                                     *)
EXTENDS Integers, Sequences, SequencesExt, FiniteSets, FiniteSetsExt

CONSTANTS
  WordMax,     \* UINT64_MAX
  MaxTensors,  \* GGUF_MAX_TENSORS
  MaxKv,       \* GGUF_MAX_KV
  MaxName,     \* GGUF_MAX_NAME
  KeyBuffer, TextBuffer, ItemBuffer,  \* 512, 256 and 2048: the buffers of keys, texts and items
  Files        \* files, [kvs, tensors], a tensor being [name, shape, dtype, offset]

ASSUME GgufLimits == {MaxTensors, MaxKv, MaxName, KeyBuffer, TextBuffer, ItemBuffer} \subseteq Nat \ {0}

Empty == [is |-> "", len |-> 0]

(* read_string: one that does not fit is read all the same, and given as empty. *)
read_string(s, most) == IF s.len >= most THEN Empty ELSE s

(* strncpy into a name. *)
Copied(s) == [s EXCEPT !.len = Min({@, MaxName - 1})]

(* skip_value and skip_array: whether the reader stands behind the value. *)
Scalars == {4, 5, 6, 7, 10, 12}
skip_value(v) ==
  \/ v.type \in Scalars \union {8}
  \/ v.type = 9 /\ \A i \in DOMAIN v.item : v.item[i].type \in Scalars \union {8}

Stored(kvs) == {i \in DOMAIN kvs : /\ kvs[i].value.type # 9
                                   /\ Cardinality({j \in 1..(i - 1) : kvs[j].value.type # 9}) < MaxKv}
KvTable(kvs) == SetToSortSeq(Stored(kvs), <)

MaxDims == 4
Product(shape) == FoldLeft(LAMBDA n, d : n * d, 1, shape)

(* The table of tensors, whose elements are counted in a word. *)
Tensors(infos) ==
  [i \in DOMAIN infos |->
     LET t == infos[i]
     IN  [name |-> read_string(t.name, MaxName), shape |-> t.shape, dtype |-> t.dtype, offset |-> t.offset,
          n_elements |-> FoldLeft(LAMBDA n, d : (n * d) % (WordMax + 1), 1, t.shape)]]

(* gguf_open: nothing, what was found, or what the bytes happen to say. Of a tensor with
   more dimensions only four are read, and the reader is lost in the rest. *)
gguf_open(file) ==
  IF Len(file.tensors) > MaxTensors THEN [is |-> "nothing"]
  ELSE IF \/ \E i \in DOMAIN file.kvs : ~skip_value(file.kvs[i].value)
          \/ \E i \in DOMAIN file.tensors : Len(file.tensors[i].shape) > MaxDims THEN [is |-> "lost"]
  ELSE [is |-> "open",
        kv |-> [n \in DOMAIN KvTable(file.kvs) |->
                  LET kv == file.kvs[KvTable(file.kvs)[n]]
                  IN  [key |-> Copied(read_string(kv.key, KeyBuffer)),
                       value |-> IF kv.value.type = 8 THEN read_string(kv.value.item, TextBuffer) ELSE kv.value.item]],
        tensors |-> Tensors(file.tensors)]

First(S) == IF S = {} THEN 0 ELSE Min(S)
gguf_find_tensor(gf, name) == First({i \in DOMAIN gf.tensors : gf.tensors[i].name = name})
gguf_get_kv(gf, key)       == First({i \in DOMAIN gf.kv : gf.kv[i].key = key})

(* gguf_read_str_array: walks until the key, or a value it cannot pass. *)
gguf_read_str_array(file, key) ==
  LET found == First({i \in DOMAIN file.kvs : read_string(file.kvs[i].key, KeyBuffer) = key /\ file.kvs[i].value.type = 9})
  IN  IF \/ found = 0 \/ \E j \in 1..(found - 1) : ~skip_value(file.kvs[j].value)
         \/ \E i \in DOMAIN file.kvs[found].value.item : file.kvs[found].value.item[i].type # 8 THEN <<>>
      ELSE [i \in DOMAIN file.kvs[found].value.item |-> read_string(file.kvs[found].value.item[i].item, ItemBuffer)]

-----------------------------------------------------------------------------
Readable(file) ==
  /\ \A i \in DOMAIN file.kvs : LET v == file.kvs[i].value IN
       v.type \in Scalars \union {8, 9} /\ (v.type = 9 => \A j \in DOMAIN v.item : v.item[j].type \in Scalars \union {8})
  /\ \A i \in DOMAIN file.tensors : Len(file.tensors[i].shape) <= MaxDims

FirstOf(seq, i) == \A j \in 1..(i - 1) : seq[j] # seq[i]
OfStrings(v)   == v.type = 9 /\ \A j \in DOMAIN v.item : v.item[j].type = 8

(* Of a file made of the types notorch knows and of tensors with no more dimensions than it
   reads, whatever arrays and long texts come first, a tensor is found by its name as the
   file describes it, with as many elements as it has if a word holds their number; a key
   that is kept leads to its own value, and an array of strings to its items. *)
FilesAreReadAsWritten ==
  \A file \in Files : Readable(file) /\ Len(file.tensors) <= MaxTensors =>
    LET gf == gguf_open(file)
        names == [i \in DOMAIN file.tensors |-> file.tensors[i].name]
        keys == [i \in DOMAIN file.kvs |-> file.kvs[i].key]
        value(i) == file.kvs[i].value
    IN  /\ gf.is = "open"
        /\ \A i \in DOMAIN names : names[i].len < MaxName /\ names[i] # Empty /\ FirstOf(names, i) =>
             LET t == file.tensors[i]
                 u == gf.tensors[i]
             IN  /\ gguf_find_tensor(gf, names[i]) = i
                 /\ u.shape = t.shape /\ u.dtype = t.dtype /\ u.offset = t.offset
                 /\ Product(t.shape) <= WordMax => u.n_elements = Product(t.shape)
        /\ \A i \in Stored(file.kvs) : keys[i] # Empty /\ FirstOf(keys, i) =>
             LET n == gguf_get_kv(gf, keys[i])
             IN  /\ keys[i].len < Min({MaxName, KeyBuffer}) => n # 0
                 /\ n # 0 /\ keys[i].len < MaxName - 1 /\ value(i).type # 8 => gf.kv[n].value = value(i).item
        /\ \A i \in DOMAIN keys : OfStrings(value(i)) /\ keys[i].len < KeyBuffer /\ FirstOf(keys, i) =>
             \A j \in DOMAIN value(i).item : value(i).item[j].item.len < ItemBuffer =>
               gguf_read_str_array(file, keys[i])[j] = value(i).item[j].item
=============================================================================
