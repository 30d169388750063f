---------------------------- MODULE NotorchTapeProofs ----------------------------
(* Proofs about NotorchTape, for every size of the tape, program of parameters, sequence of
   operations, memory of the device and number of sessions: the mirrors are truthful, the reads
   are of the latest value, the gradients are complete and the moments are their parameter's own.

   One invariant carries them, TapeInv.  It has what every operation keeps (Settled: truthful
   mirrors, a well-formed tape, slots in order of registration), what the optimizers keep of the
   moments (SlotsOwn, AppliedOwn, FrozenBare, SteppedHere) and how far the session has come
   (Underway).  An operation, a backward rule and a step of an optimizer are each a chain of
   copies, reads and writes; the lemmas follow such a chain link by link, from what is Sound to
   what is Sound, and add what the link contributes: an entry (Goes), a part of a gradient
   (Gave), a memory of a weight (Stepped).  The backward pass is an induction on its recursion,
   from the loss down: the entries above i have given what they owe (Down).                  *)
EXTENDS NotorchTape, FiniteSetTheorems, SequenceTheorems, WellFoundedInduction, TLAPS

-----------------------------------------------------------------------------
(* Numbers, and an entry's rank among others. *)

\* A set of natural numbers that is not empty has a least element.
LEMMA HasLeast ==
  ASSUME NEW T, T \subseteq Nat, T # {}
  PROVE  \E x \in T : \A y \in T : x <= y
<1> DEFINE Below == {1 .. x : x \in T}
<1>1. Below \subseteq FiniteSubsetsOf(Nat)
  <2>1. \A x \in T : IsFiniteSet(1 .. x) /\ 1 .. x \subseteq Nat
    BY FS_Interval
  <2> QED BY <2>1 DEF FiniteSubsetsOf
<1>2. Below # {}
  OBVIOUS
<1>3. IsWellFoundedOn(StrictSubsetOrdering(Nat), FiniteSubsetsOf(Nat))
  BY FS_StrictSubsetOrderingWellFounded
<1>4. PICK b \in Below : \A c \in Below : ~ (<<c, b>> \in StrictSubsetOrdering(Nat))
  BY <1>1, <1>2, <1>3, WFMin
<1>5. PICK x \in T : b = 1 .. x
  OBVIOUS
<1>6. ASSUME NEW y \in T PROVE x <= y
  <2>1. ~ (<<1 .. y, 1 .. x>> \in StrictSubsetOrdering(Nat))
    BY <1>4, <1>5
  <2>2. <<1 .. y, 1 .. x>> \in (SUBSET Nat) \X (SUBSET Nat)
    OBVIOUS
  <2>3. SUFFICES ASSUME y < x PROVE FALSE
    OBVIOUS
  <2>4. x \in 1 .. x /\ x \notin 1 .. y
    BY <2>3
  <2>5. 1 .. y \subseteq 1 .. x
    BY <2>3
  <2> QED BY <2>1, <2>2, <2>4, <2>5 DEF StrictSubsetOrdering
<1> QED BY <1>6

\* A set of numbers up to N that is not empty has a greatest one.
LEMMA HasGreatest ==
  ASSUME NEW N \in Nat, NEW T, T \subseteq 0..N, T # {}
  PROVE  \E x \in T : \A y \in T : y <= x
<1> DEFINE R == {N - y : y \in T}
<1>0. \A y \in T : y \in 0..N
  OBVIOUS
<1>1. R \subseteq Nat /\ R # {}
  <2>1. \A y \in T : N - y \in Nat
    BY <1>0
  <2> QED BY <2>1
<1>2. PICK r \in R : \A q \in R : r <= q
  BY <1>1, HasLeast
<1>3. PICK x \in T : r = N - x
  OBVIOUS
<1>4. ASSUME NEW y \in T PROVE y <= x
  <2>1. N - x <= N - y
    BY <1>2, <1>3
  <2>2. x \in 0..N /\ y \in 0..N
    BY <1>0
  <2> QED BY <2>1, <2>2
<1> QED BY <1>4

\* The Max of such a set.
LEMMA MaxIsGreatest ==
  ASSUME NEW N \in Nat, NEW T, T \subseteq 0..N, T # {}
  PROVE  Max(T) \in T /\ \A y \in T : y <= Max(T)
<1>1. PICK x \in T : \A y \in T : y <= x
  BY HasGreatest
<1>2. \E x2 \in T : \A y \in T : x2 >= y
  <2>1. \A y \in T : x >= y
    BY <1>1
  <2> QED BY <2>1
<1>3. Max(T) \in T /\ \A y \in T : Max(T) >= y
  BY <1>2 DEF Max
<1> QED BY <1>3

\* What holds of 0 and passes from m to m + 1 holds up to N.
LEMMA UpTo ==
  ASSUME NEW N \in Nat, NEW S, 0 \in S, \A m \in 0..(N - 1) : m \in S => m + 1 \in S
  PROVE  0..N \subseteq S
<1> DEFINE T == {m \in 0..N : m \notin S}
<1>1. SUFFICES ASSUME T # {} PROVE FALSE
  OBVIOUS
<1>2. T \subseteq Nat
  OBVIOUS
<1>3. PICK x \in T : \A y \in T : x <= y
  BY <1>1, <1>2, HasLeast
<1> HIDE DEF T
<1>4. x \in 0..N /\ x \notin S
  BY <1>3 DEF T
<1>5. x # 0
  BY <1>4
<1>6. PICK m : m = x - 1
  OBVIOUS
<1>7. m \in 0..(N - 1) /\ m \in 0..N /\ x = m + 1 /\ ~(x <= m)
  BY <1>4, <1>5, <1>6
<1>8. m \in S
  BY <1>3, <1>7 DEF T
<1> QED BY <1>4, <1>7, <1>8

\* A function on 1..N is a sequence of its values.
LEMMA IsSeq ==
  ASSUME NEW N \in Nat, NEW S, NEW t, t = [j \in 1..N |-> t[j]], \A j \in 1..N : t[j] \in S
  PROVE  t \in Seq(S) /\ Len(t) = N
<1>1. t \in [1..N -> S]
  OBVIOUS
<1>2. t \in Seq(S)
  BY <1>1
<1> QED BY <1>1, <1>2

\* Ranks count: from 1 to the size of the set, in the order of the entries.
LEMMA RankType ==
  ASSUME NEW N \in Nat, NEW S, S \subseteq 1..N
  PROVE  /\ IsFiniteSet(S) /\ Cardinality(S) \in Nat
         /\ \A i \in 1..N : Rank(i, S) \in 0..Cardinality(S)
         /\ \A i \in S : Rank(i, S) \in 1..Cardinality(S)
         /\ \A i, j \in S : i < j => Rank(i, S) < Rank(j, S)
<1>0. \A x \in S : x \in 1..N /\ x \in Nat
  OBVIOUS
<1>1. IsFiniteSet(1..N)
  BY FS_Interval
<1>2. IsFiniteSet(S) /\ Cardinality(S) \in Nat
  BY <1>1, FS_Subset, FS_CardinalityType
<1>3. ASSUME NEW i PROVE Rank(i, S) \in 0..Cardinality(S) /\ IsFiniteSet({j \in S : j <= i})
  <2>1. {j \in S : j <= i} \in SUBSET S
    OBVIOUS
  <2>2. IsFiniteSet({j \in S : j <= i}) /\ Cardinality({j \in S : j <= i}) <= Cardinality(S)
    BY <1>2, <2>1, FS_Subset
  <2> QED BY <1>2, <2>2, FS_CardinalityType DEF Rank
<1>4. ASSUME NEW i \in S, NEW j \in S, i < j PROVE Rank(i, S) < Rank(j, S)
  <2> PICK A : A = {k \in S : k <= i}
    OBVIOUS
  <2> PICK B : B = {k \in S : k <= j}
    OBVIOUS
  <2>0. i \in Nat /\ j \in Nat /\ i < j
    BY <1>0, <1>4
  <2>1. A \in SUBSET B /\ j \in B /\ j \notin A
    <3>1. \A k \in S : k <= i => k <= j
      BY <1>0, <2>0
    <3>2. j <= j /\ ~(j <= i)
      BY <2>0
    <3> QED BY <3>1, <3>2
  <2>4. IsFiniteSet(B)
    BY <1>3
  <2>2. Cardinality(A) <= Cardinality(B) /\ Cardinality(A) # Cardinality(B)
    BY <2>1, <2>4, FS_Subset
  <2>3. Rank(i, S) = Cardinality(A) /\ Rank(j, S) = Cardinality(B)
    BY DEF Rank
  <2> QED BY <1>3, <2>2, <2>3
<1>5. ASSUME NEW i \in S PROVE Rank(i, S) \in 1..Cardinality(S)
  <2>1. i \in {j \in S : j <= i}
    BY <1>0
  <2>2. Cardinality({j \in S : j <= i}) # 0
    BY <1>3, <2>1, FS_EmptySet
  <2>3. Rank(i, S) # 0
    BY <2>2 DEF Rank
  <2>4. Rank(i, S) \in 0..Cardinality(S)
    BY <1>3
  <2> QED BY <1>2, <2>3, <2>4
<1> QED BY <1>2, <1>3, <1>4, <1>5

\* Two entries of one rank are one.
LEMMA RankOnce ==
  ASSUME NEW N \in Nat, NEW S, S \subseteq 1..N, NEW i \in S, NEW j \in S, Rank(i, S) = Rank(j, S)
  PROVE  i = j
<1>1. /\ Rank(i, S) \in Nat /\ i \in Nat /\ j \in Nat
      /\ \A k, l \in S : k < l => Rank(k, S) < Rank(l, S)
  <2>1. Cardinality(S) \in Nat /\ Rank(i, S) \in 1..Cardinality(S) /\ \A k, l \in S : k < l => Rank(k, S) < Rank(l, S)
    BY RankType
  <2> QED BY <2>1
<1>2. ~(i < j) /\ ~(j < i)
  BY <1>1
<1> QED BY <1>1, <1>2

\* An entry behind the others has the next rank, and theirs do not change.
LEMMA RankNext ==
  ASSUME NEW N \in Nat, NEW S, S \subseteq 1..N
  PROVE  /\ \A i \in 1..N : Rank(i, S \cup {N + 1}) = Rank(i, S)
         /\ Rank(N + 1, S \cup {N + 1}) = Cardinality(S) + 1
         /\ Cardinality(S \cup {N + 1}) = Cardinality(S) + 1
<1>1. ASSUME NEW i \in 1..N PROVE Rank(i, S \cup {N + 1}) = Rank(i, S)
  <2>1. {j \in S \cup {N + 1} : j <= i} = {j \in S : j <= i}
    OBVIOUS
  <2> QED BY <2>1 DEF Rank
<1>2. {j \in S \cup {N + 1} : j <= N + 1} = S \cup {N + 1} /\ N + 1 \notin S
  <2>1. \A x \in S : x \in Nat /\ x <= N + 1 /\ x # N + 1
    <3>1. \A x \in S : x \in 1..N
      OBVIOUS
    <3> QED BY <3>1
  <2>2. N + 1 <= N + 1
    OBVIOUS
  <2> QED BY <2>1, <2>2
<1>3. Cardinality(S \cup {N + 1}) = Cardinality(S) + 1
  BY <1>2, RankType, FS_AddElement
<1> QED BY <1>1, <1>2, <1>3 DEF Rank

\* Every rank up to the size of the set is some entry's.
LEMMA RankTaken ==
  ASSUME NEW N \in Nat, NEW S, S \subseteq 1..N, NEW k \in 1..Cardinality(S)
  PROVE  \E i \in S : Rank(i, S) = k
<1>0. /\ Cardinality(S) \in Nat /\ IsFiniteSet(S) /\ \A x \in S : x \in 1..N /\ x \in Nat
      /\ \A i \in S : Rank(i, S) \in 1..Cardinality(S)
      /\ \A i, j \in S : i < j => Rank(i, S) < Rank(j, S)
  <2>1. \A x \in S : x \in 1..N /\ x \in Nat
    OBVIOUS
  <2> QED BY <2>1, RankType
<1> PICK T : T = {i \in S : k <= Rank(i, S)}
  OBVIOUS
<1>1. T # {} /\ T \subseteq Nat
  <2>1. S # {}
    BY <1>0, FS_EmptySet
  <2>2. S \subseteq 0..N
    BY <1>0
  <2>3. PICK m \in S : \A y \in S : y <= m
    BY <2>1, <2>2, HasGreatest
  <2>4. {j \in S : j <= m} = S
    BY <2>3
  <2>5. Rank(m, S) = Cardinality(S)
    BY <2>4 DEF Rank
  <2>6. m \in T
    BY <1>0, <2>5
  <2> QED BY <1>0, <2>6
<1>2. PICK m \in T : \A y \in T : m <= y
  BY <1>1, HasLeast
<1>3. SUFFICES ASSUME Rank(m, S) # k PROVE FALSE
  BY <1>2
<1>4. m \in S /\ Rank(m, S) \in Nat /\ k < Rank(m, S)
  BY <1>0, <1>2, <1>3
<1> PICK B : B = {j \in S : j < m}
  OBVIOUS
<1>5. B \cup {m} = {j \in S : j <= m} /\ m \notin B /\ B \in SUBSET S
  <2>1. \A x \in S : (x <= m <=> x < m \/ x = m)
    BY <1>0, <1>4
  <2>2. ~(m < m)
    BY <1>0, <1>4
  <2> QED BY <1>4, <2>1, <2>2
<1>6. IsFiniteSet(B) /\ Cardinality(B) + 1 = Rank(m, S) /\ Cardinality(B) \in Nat
  BY <1>0, <1>5, FS_Subset, FS_AddElement, FS_CardinalityType DEF Rank
<1>7. B # {}
  <2>1. Cardinality(B) # 0
    BY <1>4, <1>6
  <2> QED BY <2>1, FS_EmptySet
<1>8. PICK b \in B : \A y \in B : y <= b
  <2>1. B \subseteq 0..N
    <3>1. \A x \in S : x \in 0..N
      BY <1>0
    <3> QED BY <1>5, <3>1
  <2> QED BY <1>7, <2>1, HasGreatest
<1>9. {j \in S : j <= b} = B
  <2>1. b \in S /\ b < m /\ b \in Nat /\ m \in Nat
    BY <1>0, <1>4, <1>5, <1>8
  <2>2. \A x \in S : (x <= b <=> x < m)
    <3>1. ASSUME NEW x \in S, x < m PROVE x <= b
      BY <1>8, <3>1
    <3>2. ASSUME NEW x \in S, x <= b PROVE x < m
      BY <1>0, <2>1, <3>2
    <3> QED BY <3>1, <3>2
  <2> QED BY <2>2
<1>10. Rank(b, S) = Cardinality(B)
  BY <1>9 DEF Rank
<1>11. b \in T /\ b < m
  BY <1>0, <1>4, <1>5, <1>6, <1>8, <1>10
<1> QED BY <1>0, <1>2, <1>4, <1>11

-----------------------------------------------------------------------------
(* Mirrors. *)

\* The flags say where the latest value is.
Truthful(t) == (t.dirty => t.dev = "new") /\ (~t.dirty => t.host) /\ (t.valid => t.dev = "new")

\* nt_tensor_ensure_gpu: a buffer that is there afterwards holds the latest value.
LEMMA EnsureGpuKeeps ==
  ASSUME NEW t \in Mirrors, NEW full \in BOOLEAN
  PROVE  /\ EnsureGpu(t, full) \in Mirrors
         /\ ~t.dirty => ~EnsureGpu(t, full).dirty
         /\ ~full => EnsureGpu(t, full).dev # "absent"
         /\ Truthful(t) => /\ Truthful(EnsureGpu(t, full))
                           /\ EnsureGpu(t, full).dev # "absent" => EnsureGpu(t, full).dev = "new"
<1> PICK b : b = IF t.dev = "absent" /\ ~full THEN [t EXCEPT !.dev = "old", !.valid = FALSE] ELSE t
  OBVIOUS
<1>1. /\ b \in Mirrors /\ b.dirty = t.dirty /\ b.host = t.host /\ (~full => b.dev # "absent")
      /\ (Truthful(t) => Truthful(b))
  BY DEF Mirrors, Truthful
<1> PICK e : e = EnsureGpu(t, full)
  OBVIOUS
<1>2. e = IF b.dev # "absent" /\ ~b.valid /\ ~b.dirty
            THEN [b EXCEPT !.dev = IF b.host THEN "new" ELSE "old", !.valid = TRUE] ELSE b
  BY DEF EnsureGpu
<1>3. CASE b.dev # "absent" /\ ~b.valid /\ ~b.dirty
  <2>1. /\ e \in Mirrors /\ e.dirty = b.dirty /\ e.host = b.host /\ e.dev = IF b.host THEN "new" ELSE "old"
    BY <1>1, <1>2, <1>3 DEF Mirrors
  <2> QED BY <1>1, <1>3, <2>1 DEF Truthful
<1>4. CASE ~ (b.dev # "absent" /\ ~b.valid /\ ~b.dirty)
  <2>1. e = b
    BY <1>2, <1>4
  <2> QED BY <1>1, <1>4, <2>1 DEF Truthful
<1> QED BY <1>3, <1>4

\* nt_tensor_ensure_cpu: the host's copy is no longer behind.
LEMMA EnsureCpuKeeps ==
  ASSUME NEW t \in Mirrors
  PROVE  /\ EnsureCpu(t) \in Mirrors
         /\ ~t.dirty => ~EnsureCpu(t).dirty
         /\ Truthful(t) => Truthful(EnsureCpu(t)) /\ ~EnsureCpu(t).dirty
BY DEF EnsureCpu, Mirrors, Truthful

\* A write with its mark leaves a truthful mirror, whatever was there.
LEMMA WrittenKeeps ==
  ASSUME NEW t \in Mirrors
  PROVE  /\ MarkCpuDirty(HostWritten(t)) \in Mirrors /\ Truthful(MarkCpuDirty(HostWritten(t)))
         /\ ~MarkCpuDirty(HostWritten(t)).dirty
         /\ MarkGpuFresh(DevWritten(t)) \in Mirrors /\ Truthful(MarkGpuFresh(DevWritten(t)))
         /\ HostWritten(t) \in Mirrors /\ (t.dev = "absent" /\ Truthful(t) => Truthful(HostWritten(t)))
BY DEF MarkCpuDirty, HostWritten, MarkGpuFresh, DevWritten, Mirrors, Truthful

\* A tensor an operation has just written on the host, and one it has written on the device, are
\* truthful mirrors.
LEMMA AuthoredKeeps ==
  /\ Authored \in Mirrors /\ Truthful(Authored) /\ ~Authored.dirty
  /\ MarkGpuFresh(DevWritten(Authored)) \in Mirrors /\ Truthful(MarkGpuFresh(DevWritten(Authored)))
BY DEF MarkGpuFresh, DevWritten, Authored, Mirrors, Truthful

-----------------------------------------------------------------------------
(* States, and the calls that move copies and note reads. *)

Fields(s) == s \in [tape : {s.tape}, mem : {s.mem}, gpu : {s.gpu}, room : {s.room}, misread : {s.misread},
                    ret : {s.ret}, n : {s.n}, slots : {s.slots}]

\* r is s but for its mirrors and its reads.
Same(s, r) == r.tape = s.tape /\ r.gpu = s.gpu /\ r.room = s.room /\ r.n = s.n /\ r.slots = s.slots /\ r.ret = s.ret

\* Every mirror outside P is truthful, and no read that should be
\* of the latest value was not, outside P.  Without a device nothing is fresher there.
MirrorsIn(s, P) ==
  \A id \in DOMAIN s.mem : s.mem[id] \in Mirrors /\ (id \notin P => Truthful(s.mem[id])) /\ (s.mem[id].dirty => s.gpu)
Latest(s, P) == \A r \in s.misread : r.at = "device" \/ <<r.side, r.op>> \in Pullers => r.of \in P
Sound(s, P) == Fields(s) /\ s.gpu \in BOOLEAN /\ s.room \in Rooms /\ MirrorsIn(s, P) /\ Latest(s, P)

\* r comes of s by moving copies and reading.
Moved(s, r) ==
  /\ Same(s, r) /\ DOMAIN r.mem = DOMAIN s.mem
  /\ \A id \in DOMAIN s.mem : ~s.mem[id].dirty => ~r.mem[id].dirty

Clean(s, id, P) == id \in DOMAIN s.mem /\ id \notin P => ~s.mem[id].dirty
Fresh(s, id, P) == id \in DOMAIN s.mem /\ id \notin P => s.mem[id].dev = "new"

\* nt_tensor_ensure_gpu over a set of tensors changes those tensors' copies and nothing else.
LEMMA UploadFields ==
  ASSUME NEW s, Fields(s), NEW ids
  PROVE  /\ Fields(Upload(s, ids)) /\ Same(s, Upload(s, ids)) /\ Upload(s, ids).misread = s.misread
         /\ DOMAIN Upload(s, ids).mem = DOMAIN s.mem
         /\ \A id \in DOMAIN s.mem : Upload(s, ids).mem[id] = IF id \in ids THEN EnsureGpu(s.mem[id], s.room # "plenty") ELSE s.mem[id]
<1> PICK m : m = [id \in DOMAIN s.mem |-> IF id \in ids THEN EnsureGpu(s.mem[id], s.room # "plenty") ELSE s.mem[id]]
  OBVIOUS
<1>1. Upload(s, ids) = [s EXCEPT !.mem = m]
  BY DEF Upload, Changed
<1>2. Fields(Upload(s, ids)) /\ Same(s, Upload(s, ids)) /\ Upload(s, ids).misread = s.misread /\ Upload(s, ids).mem = m
  BY <1>1 DEF Fields, Same
<1> QED BY <1>2

\* nt_tensor_ensure_cpu over a set of tensors changes those tensors' copies and nothing else.
LEMMA PullFields ==
  ASSUME NEW s, Fields(s), NEW ids
  PROVE  /\ Fields(Pull(s, ids)) /\ Same(s, Pull(s, ids)) /\ Pull(s, ids).misread = s.misread
         /\ DOMAIN Pull(s, ids).mem = DOMAIN s.mem
         /\ \A id \in DOMAIN s.mem : Pull(s, ids).mem[id] = IF id \in ids THEN EnsureCpu(s.mem[id]) ELSE s.mem[id]
<1> PICK m : m = [id \in DOMAIN s.mem |-> IF id \in ids THEN EnsureCpu(s.mem[id]) ELSE s.mem[id]]
  OBVIOUS
<1>1. Pull(s, ids) = [s EXCEPT !.mem = m]
  BY DEF Pull, Changed
<1>2. Fields(Pull(s, ids)) /\ Same(s, Pull(s, ids)) /\ Pull(s, ids).misread = s.misread /\ Pull(s, ids).mem = m
  BY <1>1 DEF Fields, Same
<1> QED BY <1>2

\* After the upload the mirrors are truthful, whatever came to the device is fresh there, and all of it
\* came if the device had room.
LEMMA UploadSound ==
  ASSUME NEW s, NEW P, Sound(s, P), NEW ids
  PROVE  /\ Sound(Upload(s, ids), P) /\ Moved(s, Upload(s, ids))
         /\ \A id \in ids : OnDevice(Upload(s, ids), {id}) => Fresh(Upload(s, ids), id, P)
         /\ s.room = "plenty" => \A id \in ids : id \in DOMAIN s.mem => OnDevice(Upload(s, ids), {id})
<1> PICK u : u = Upload(s, ids)
  OBVIOUS
<1>0. Fields(s) /\ MirrorsIn(s, P) /\ Latest(s, P) /\ s.gpu \in BOOLEAN /\ s.room \in Rooms
  BY DEF Sound
<1>1. /\ Fields(u) /\ Same(s, u) /\ u.misread = s.misread /\ DOMAIN u.mem = DOMAIN s.mem
      /\ \A id \in DOMAIN s.mem : u.mem[id] = IF id \in ids THEN EnsureGpu(s.mem[id], s.room # "plenty") ELSE s.mem[id]
  BY <1>0, UploadFields
<1>2. ASSUME NEW id \in DOMAIN s.mem
      PROVE  /\ u.mem[id] \in Mirrors /\ (id \notin P => Truthful(u.mem[id]))
             /\ ~s.mem[id].dirty => ~u.mem[id].dirty
             /\ id \in ids /\ s.room = "plenty" => u.mem[id].dev # "absent"
             /\ id \in ids /\ u.mem[id].dev # "absent" /\ id \notin P => u.mem[id].dev = "new"
  <2>1. s.mem[id] \in Mirrors /\ (id \notin P => Truthful(s.mem[id]))
    BY <1>0 DEF MirrorsIn
  <2>2. CASE id \in ids
    <3>1. u.mem[id] = EnsureGpu(s.mem[id], s.room # "plenty") /\ (s.room # "plenty") \in BOOLEAN
      BY <1>1, <2>2
    <3> QED BY <2>1, <2>2, <3>1, EnsureGpuKeeps
  <2>3. CASE id \notin ids
    BY <1>1, <2>1, <2>3
  <2> QED BY <2>2, <2>3
<1>3. Sound(u, P)
  BY <1>0, <1>1, <1>2 DEF Sound, Same, MirrorsIn, Latest
<1>4. Moved(s, u)
  BY <1>1, <1>2 DEF Moved
<1> QED BY <1>1, <1>2, <1>3, <1>4 DEF Fresh, OnDevice

\* After the download the mirrors are truthful and the host copies of the tensors fetched are up to
\* date.
LEMMA PullSound ==
  ASSUME NEW s, NEW P, Sound(s, P), NEW ids
  PROVE  /\ Sound(Pull(s, ids), P) /\ Moved(s, Pull(s, ids))
         /\ \A id \in ids : Clean(Pull(s, ids), id, P)
<1> PICK u : u = Pull(s, ids)
  OBVIOUS
<1>0. Fields(s) /\ MirrorsIn(s, P) /\ Latest(s, P) /\ s.gpu \in BOOLEAN /\ s.room \in Rooms
  BY DEF Sound
<1>1. /\ Fields(u) /\ Same(s, u) /\ u.misread = s.misread /\ DOMAIN u.mem = DOMAIN s.mem
      /\ \A id \in DOMAIN s.mem : u.mem[id] = IF id \in ids THEN EnsureCpu(s.mem[id]) ELSE s.mem[id]
  BY <1>0, PullFields
<1>2. ASSUME NEW id \in DOMAIN s.mem
      PROVE  /\ u.mem[id] \in Mirrors /\ (id \notin P => Truthful(u.mem[id]))
             /\ ~s.mem[id].dirty => ~u.mem[id].dirty
             /\ id \in ids /\ id \notin P => ~u.mem[id].dirty
  <2>1. s.mem[id] \in Mirrors /\ (id \notin P => Truthful(s.mem[id]))
    BY <1>0 DEF MirrorsIn
  <2> QED BY <1>1, <2>1, EnsureCpuKeeps
<1>3. Sound(u, P)
  BY <1>0, <1>1, <1>2 DEF Sound, Same, MirrorsIn, Latest
<1>4. Moved(s, u)
  BY <1>1, <1>2 DEF Moved
<1> QED BY <1>1, <1>2, <1>3, <1>4 DEF Clean

\* A read on the host, pulled first where the loop pulls.
LEMMA HostReadsSound ==
  ASSUME NEW s, NEW P, Sound(s, P), NEW side, NEW op, NEW ids,
         <<side, op>> \in Pullers => \A id \in ids : Clean(s, id, P)
  PROVE  /\ Sound(HostReads(s, side, op, ids), P) /\ Moved(s, HostReads(s, side, op, ids))
         /\ HostReads(s, side, op, ids).mem = s.mem
<1> PICK u : u = HostReads(s, side, op, ids)
  OBVIOUS
<1> PICK more : more = {[at |-> "host", side |-> side, op |-> op, of |-> id] : id \in {j \in Held(s, ids) : ~s.mem[j].host}}
  OBVIOUS
<1>0. Fields(s) /\ MirrorsIn(s, P) /\ Latest(s, P) /\ s.gpu \in BOOLEAN /\ s.room \in Rooms
  BY DEF Sound
<1>1. u = [s EXCEPT !.misread = @ \cup more]
  BY DEF HostReads
<1>2. Fields(u) /\ Same(s, u) /\ u.mem = s.mem /\ u.misread = s.misread \cup more
  BY <1>0, <1>1 DEF Fields, Same
<1>3. ASSUME NEW r \in more PROVE ~(r.at = "device") /\ (<<r.side, r.op>> \in Pullers => r.of \in P)
  <2>1. PICK id \in Held(s, ids) : ~s.mem[id].host /\ r = [at |-> "host", side |-> side, op |-> op, of |-> id]
    OBVIOUS
  <2>2. id \in ids /\ id \in DOMAIN s.mem
    BY DEF Held
  <2>3. r.at = "host" /\ r.side = side /\ r.op = op /\ r.of = id
    BY <2>1
  <2>4. id \notin P => s.mem[id].dirty
    BY <1>0, <2>1, <2>2 DEF MirrorsIn, Truthful
  <2> QED BY <2>2, <2>3, <2>4 DEF Clean
<1>4. Latest(u, P)
  BY <1>0, <1>2, <1>3 DEF Latest
<1>5. Sound(u, P)
  BY <1>0, <1>2, <1>4 DEF Sound, Same, MirrorsIn
<1> QED BY <1>2, <1>5 DEF Moved

\* A kernel's read of fresh copies.
LEMMA DevReadsSound ==
  ASSUME NEW s, NEW P, Sound(s, P), NEW side, NEW op, NEW ids, \A id \in ids : Fresh(s, id, P)
  PROVE  /\ Sound(DevReads(s, side, op, ids), P) /\ Moved(s, DevReads(s, side, op, ids))
         /\ DevReads(s, side, op, ids).mem = s.mem
<1> PICK u : u = DevReads(s, side, op, ids)
  OBVIOUS
<1> PICK more : more = {[at |-> "device", side |-> side, op |-> op, of |-> id] : id \in {j \in Held(s, ids) : s.mem[j].dev # "new"}}
  OBVIOUS
<1>0. Fields(s) /\ MirrorsIn(s, P) /\ Latest(s, P) /\ s.gpu \in BOOLEAN /\ s.room \in Rooms
  BY DEF Sound
<1>1. u = [s EXCEPT !.misread = @ \cup more]
  BY DEF DevReads
<1>2. Fields(u) /\ Same(s, u) /\ u.mem = s.mem /\ u.misread = s.misread \cup more
  BY <1>0, <1>1 DEF Fields, Same
<1>3. ASSUME NEW r \in more PROVE r.of \in P
  <2>1. PICK id \in Held(s, ids) : s.mem[id].dev # "new" /\ r = [at |-> "device", side |-> side, op |-> op, of |-> id]
    OBVIOUS
  <2>2. id \in ids /\ id \in DOMAIN s.mem /\ r.of = id
    BY <2>1 DEF Held
  <2> QED BY <2>1, <2>2 DEF Fresh
<1>4. Latest(u, P)
  BY <1>0, <1>2, <1>3 DEF Latest
<1>5. Sound(u, P)
  BY <1>0, <1>2, <1>4 DEF Sound, Same, MirrorsIn
<1> QED BY <1>2, <1>5 DEF Moved

-----------------------------------------------------------------------------
(* The tape. *)

Tuples(N) == UNION {[1..n -> 0..N] : n \in 0..3}

\* An entry's parents come before it, and only parameters are frozen or have a slot.
Placed(e, i) ==
  /\ \A k \in DOMAIN e.from : e.from[k] < i
  /\ e.op = "SEQ_MATVEC" => DOMAIN e.from = {1, 2} /\ e.from[1] # 0 /\ e.from[2] # 0
  /\ e.param => e.op = "NONE" /\ e.from = <<>>
  /\ ~e.param => ~e.frozen /\ e.slot = 0 /\ e.applied = {}

SlotStates == [used : BOOLEAN, hist : SUBSET Weights, hasAcc : BOOLEAN, acc : SUBSET Weights, frozen : BOOLEAN]

TapeLaid(t) == t \in Seq(Entries(Weights, MaxParams)) /\ Len(t) <= MaxEntries /\ \A i \in DOMAIN t : Placed(t[i], i)

Laid(s) ==
  /\ TapeLaid(s.tape) /\ s.n \in 0..MaxParams /\ s.slots \in [1..MaxParams -> SlotStates]
  /\ \A w \in Weights : <<"weight", w>> \in DOMAIN s.mem

\* The parents of an operation on one entry.
LEMMA OneTuple == ASSUME NEW N, NEW x \in 0..N PROVE <<x>> \in Tuples(N) /\ Range(<<x>>) = {x}
BY DEF Tuples, Range

\* The parents of an operation on two entries.
LEMMA TwoTuple == ASSUME NEW N, NEW x \in 0..N, NEW y \in 0..N PROVE <<x, y>> \in Tuples(N) /\ Range(<<x, y>>) = {x, y}
<1>1. <<x, y>> \in [1..2 -> 0..N] /\ 2 \in 0..3
  OBVIOUS
<1>2. DOMAIN <<x, y>> = {1, 2} /\ <<x, y>>[1] = x /\ <<x, y>>[2] = y
  OBVIOUS
<1> QED BY <1>1, <1>2 DEF Tuples, Range

\* The parents of an operation on three entries.
LEMMA ThreeTuple ==
  ASSUME NEW N, NEW x \in 0..N, NEW y \in 0..N, NEW z \in 0..N PROVE <<x, y, z>> \in Tuples(N)
<1>1. <<x, y, z>> \in [1..3 -> 0..N] /\ 3 \in 0..3
  OBVIOUS
<1> QED BY <1>1 DEF Tuples

\* One entry more.
LEMMA AppendLaid ==
  ASSUME NEW t, TapeLaid(t), Len(t) < MaxEntries, NEW e \in Entries(Weights, MaxParams), Placed(e, Len(t) + 1)
  PROVE  /\ TapeLaid(Append(t, e)) /\ Len(Append(t, e)) = Len(t) + 1 /\ Len(t) \in Nat
         /\ Append(t, e)[Len(t) + 1] = e /\ \A i \in 1..Len(t) : Append(t, e)[i] = t[i]
         /\ DOMAIN t = 1..Len(t) /\ DOMAIN Append(t, e) = 1..(Len(t) + 1)
<1>1. t \in Seq(Entries(Weights, MaxParams)) /\ \A i \in DOMAIN t : Placed(t[i], i)
  BY DEF TapeLaid
<1>2. Len(t) \in Nat /\ DOMAIN t = 1..Len(t) /\ Len(t) + 1 <= MaxEntries
  BY <1>1, EntriesAssumption
<1>3. PICK u : u = Append(t, e)
  OBVIOUS
<1>4. u \in Seq(Entries(Weights, MaxParams)) /\ Len(u) = Len(t) + 1 /\ u[Len(t) + 1] = e /\ \A i \in 1..Len(t) : u[i] = t[i]
  BY <1>1, <1>2, <1>3, AppendProperties
<1>5. DOMAIN u = 1..(Len(t) + 1)
  BY <1>4, <1>2
<1>6. \A i \in DOMAIN u : Placed(u[i], i)
  BY <1>1, <1>2, <1>4, <1>5
<1> QED BY <1>2, <1>3, <1>4, <1>5, <1>6 DEF TapeLaid

\* The entry of an operation.
Formed(op, i, ps, alt) ==
  [op |-> op, data |-> <<"out", i>>, from |-> ps, param |-> FALSE, frozen |-> FALSE, slot |-> 0, alt |-> alt,
   sum |-> {}, applied |-> {}]

\* SEQ_MATVEC has both its parents.
WholePair(op, ps) == op = "SEQ_MATVEC" => DOMAIN ps = {1, 2} /\ ps[1] # 0 /\ ps[2] # 0

\* The entry nt_tape_record makes of an operation is well formed: its parents are behind it and it has
\* no slot, sum or applied gradient.
LEMMA OpEntry ==
  ASSUME NEW op \in TapeOps, NEW i \in 1..MaxEntries, NEW ps \in Tuples(i - 1), NEW alt \in BOOLEAN, NEW e,
         WholePair(op, ps),
         e = Formed(op, i, ps, alt)
  PROVE  /\ e \in Entries(Weights, MaxParams) /\ Placed(e, i)
         /\ ~e.param /\ ~e.frozen /\ e.sum = {} /\ e.applied = {} /\ e.slot = 0
<1>1. e = [op |-> op, data |-> <<"out", i>>, from |-> ps, param |-> FALSE, frozen |-> FALSE,
           slot |-> 0, alt |-> alt, sum |-> {}, applied |-> {}]
  BY DEF Formed
<1>2. MaxParams \in Nat
  BY TapeAssumption
<1>3. PICK n \in 0..3 : ps \in [1..n -> 0..(i - 1)]
  BY DEF Tuples
<1>4. ps \in [1..n -> 0..MaxEntries] /\ \A k \in DOMAIN ps : ps[k] < i
  BY <1>3, EntriesAssumption
<1>5. PICK U : U = UNION {[1..m -> 0..MaxEntries] : m \in 0..3}
  OBVIOUS
<1>6. ps \in U
  BY <1>4, <1>5
<1>7. PICK D : D = {<<"weight", w>> : w \in Weights} \cup {<<"out", j>> : j \in 1..MaxEntries}
  OBVIOUS
<1>8. <<"out", i>> \in D
  BY <1>7
<1>9. Entries(Weights, MaxParams) =
        [op : TapeOps, data : D, from : U, param : BOOLEAN, frozen : BOOLEAN, slot : 0..MaxParams, alt : BOOLEAN,
         sum : SUBSET ((0..MaxEntries) \X (1..3)), applied : SUBSET Weights]
  BY <1>5, <1>7, Zenon DEF Entries
<1>10. e \in Entries(Weights, MaxParams)
  BY ONLY <1>1, <1>2, <1>6, <1>8, <1>9, op \in TapeOps, alt \in BOOLEAN
<1>11. ~e.param /\ ~e.frozen /\ e.sum = {} /\ e.applied = {} /\ e.slot = 0 /\ e.op = op /\ e.from = ps
  BY ONLY <1>1
<1> QED BY <1>4, <1>10, <1>11 DEF Placed, WholePair
\* r comes of s by one operation, which is recorded unless the tape is full.
Computed(s, r, P, op, ps, alt) ==
  /\ Sound(r, P) /\ r.gpu = s.gpu /\ r.room = s.room /\ r.n = s.n /\ r.slots = s.slots
  /\ \/ r.tape = s.tape /\ r.ret = 0 /\ DOMAIN r.mem = DOMAIN s.mem
     \/ /\ Len(s.tape) < MaxEntries /\ r.ret = Len(s.tape) + 1
        /\ r.tape = Append(s.tape, Formed(op, Len(s.tape) + 1, ps, alt))
        /\ DOMAIN r.mem = DOMAIN s.mem \cup {<<"out", Len(s.tape) + 1>>}

\* Adding a tensor, or replacing one, touches no other tensor and nothing else of the state.
LEMMA WithFields ==
  ASSUME NEW s, Fields(s), NEW id, NEW t
  PROVE  /\ Fields(With(s, id, t)) /\ Same(s, With(s, id, t)) /\ With(s, id, t).misread = s.misread
         /\ DOMAIN With(s, id, t).mem = DOMAIN s.mem \cup {id} /\ With(s, id, t).mem[id] = t
         /\ \A j \in DOMAIN s.mem : j # id => With(s, id, t).mem[j] = s.mem[j]
<1> PICK m : m = [j \in DOMAIN s.mem \cup {id} |-> IF j = id THEN t ELSE s.mem[j]]
  OBVIOUS
<1>1. With(s, id, t) = [s EXCEPT !.mem = m]
  BY DEF With
<1>2. Fields(With(s, id, t)) /\ Same(s, With(s, id, t)) /\ With(s, id, t).misread = s.misread /\ With(s, id, t).mem = m
  BY <1>1 DEF Fields, Same
<1> QED BY <1>2

\* Adding a truthful mirror keeps the mirrors truthful.
LEMMA WithSound ==
  ASSUME NEW s, NEW P, Sound(s, P), NEW id, NEW t \in Mirrors, Truthful(t), t.dirty => s.gpu
  PROVE  Sound(With(s, id, t), P)
<1> PICK u : u = With(s, id, t)
  OBVIOUS
<1>0. Fields(s) /\ MirrorsIn(s, P) /\ Latest(s, P) /\ s.gpu \in BOOLEAN /\ s.room \in Rooms
  BY DEF Sound
<1>1. /\ Fields(u) /\ Same(s, u) /\ u.misread = s.misread
      /\ DOMAIN u.mem = DOMAIN s.mem \cup {id} /\ u.mem[id] = t
      /\ \A j \in DOMAIN s.mem : j # id => u.mem[j] = s.mem[j]
  BY <1>0, WithFields
<1>2. MirrorsIn(u, P)
  <2> SUFFICES ASSUME NEW j \in DOMAIN u.mem
               PROVE u.mem[j] \in Mirrors /\ (j \notin P => Truthful(u.mem[j])) /\ (u.mem[j].dirty => u.gpu)
    BY DEF MirrorsIn
  <2>1. CASE j = id
    BY <1>1, <2>1 DEF Same
  <2>2. CASE j # id
    BY <1>0, <1>1, <2>2 DEF MirrorsIn, Same
  <2> QED BY <2>1, <2>2
<1> QED BY <1>0, <1>1, <1>2 DEF Sound, Same, Latest

\* An operation that fails returns 0 and changes nothing else.
LEMMA FailFields ==
  ASSUME NEW s, Fields(s)
  PROVE  /\ Fields(Fail(s)) /\ Fail(s).ret = 0 /\ Fail(s).misread = s.misread /\ Fail(s).mem = s.mem
         /\ Fail(s).tape = s.tape /\ Fail(s).gpu = s.gpu /\ Fail(s).room = s.room /\ Fail(s).n = s.n /\ Fail(s).slots = s.slots
BY DEF Fail, Fields

\* nt_tape_record.
LEMMA RecordComputes ==
  ASSUME NEW s, NEW P, Sound(s, P), Len(s.tape) \in Nat, NEW op, NEW ps, NEW t \in Mirrors, Truthful(t), t.dirty => s.gpu
  PROVE  Computed(s, Record(s, op, ps, t), P, op, ps, FALSE)
<1> PICK i : i = Len(s.tape) + 1
  OBVIOUS
<1> PICK r : r = Record(s, op, ps, t)
  OBVIOUS
<1>0. Fields(s)
  BY DEF Sound
<1>1. CASE i > MaxEntries
  <2>1. r = Fail(s)
    BY <1>1 DEF Record
  <2> QED BY <1>0, <2>1, FailFields DEF Computed, Sound, MirrorsIn, Latest
<1>2. CASE ~ (i > MaxEntries)
  <2>1. PICK w : w = With(s, <<"out", i>>, t)
    OBVIOUS
  <2>2. PICK e : e = Entry(op, <<"out", i>>, ps)
    OBVIOUS
  <2>3. r = [w EXCEPT !.tape = Append(@, e), !.ret = i]
    BY <1>2, <2>1, <2>2 DEF Record
  <2>4. Sound(w, P) /\ Fields(w) /\ Same(s, w) /\ DOMAIN w.mem = DOMAIN s.mem \cup {<<"out", i>>}
    BY <1>0, <2>1, WithFields, WithSound
  <2>5. /\ Fields(r) /\ r.tape = Append(w.tape, e) /\ r.ret = i /\ r.mem = w.mem /\ r.misread = w.misread
        /\ r.gpu = w.gpu /\ r.room = w.room /\ r.n = w.n /\ r.slots = w.slots
    BY ONLY <2>3, <2>4 DEF Fields
  <2>6. Sound(r, P)
    BY <2>4, <2>5 DEF Sound, MirrorsIn, Latest
  <2>7. e = Formed(op, i, ps, FALSE)
    BY <2>2 DEF Formed, Entry
  <2>8. Len(s.tape) < MaxEntries
    BY <1>2, EntriesAssumption
  <2> QED BY <2>4, <2>5, <2>6, <2>7, <2>8 DEF Computed, Same
<1> QED BY <1>1, <1>2

\* What an operation computes after its operands were copied to where it reads them, it computes of the
\* state before.
LEMMA MovedComputes ==
  ASSUME NEW s, NEW m, NEW r, NEW P, NEW op, NEW ps, NEW alt, Moved(s, m), Computed(m, r, P, op, ps, alt)
  PROVE  Computed(s, r, P, op, ps, alt)
BY DEF Moved, Same, Computed

\* Two copies between host and device, one after the other, make one.
LEMMA MovedTwice ==
  ASSUME NEW s, NEW m, NEW r, Moved(s, m), Moved(m, r)
  PROVE  Moved(s, r)
BY DEF Moved, Same

\* Copying nothing moves nothing.
LEMMA MovedNot == ASSUME NEW s PROVE Moved(s, s)
BY DEF Moved, Same

\* Data pulled before is clean, and stays so when more is moved.
LEMMA MovedClean ==
  ASSUME NEW s, NEW r, NEW P, NEW id, Moved(s, r), Clean(s, id, P)
  PROVE  Clean(r, id, P)
BY DEF Moved, Clean

\* The operations of the forward pass: the kernel after uploading its operands,
\* or the host's loop after pulling what it pulls.
LEMMA LaunchComputes ==
  ASSUME NEW s, NEW P, Sound(s, P), Len(s.tape) \in Nat, NEW op, NEW ps, NEW onDevice \in BOOLEAN, NEW pulls,
         <<"forward", op>> \in Pullers => pulls = ps
  PROVE  Computed(s, Launch(s, op, ps, onDevice, pulls), P, op, ps, FALSE)
<1> PICK ids : ids = DataOf(s, ps)
  OBVIOUS
<1> PICK up : up = IF s.gpu /\ onDevice THEN Upload(s, ids) ELSE s
  OBVIOUS
<1>1. CASE s.gpu /\ onDevice /\ s.room = "plenty"
  <2>1. up = Upload(s, ids)
    BY <1>1
  <2>2. /\ Sound(up, P) /\ Moved(s, up)
        /\ \A id \in ids : OnDevice(up, {id}) => Fresh(up, id, P)
        /\ \A id \in ids : id \in DOMAIN s.mem => OnDevice(up, {id})
    BY <1>1, <2>1, UploadSound
  <2>3. \A id \in ids : Fresh(up, id, P)
    BY <2>2 DEF Fresh, Moved
  <2>4. PICK r : r = DevReads(up, "forward", op, ids)
    OBVIOUS
  <2>5. Sound(r, P) /\ Moved(up, r)
    BY <2>2, <2>3, <2>4, DevReadsSound
  <2>6. Moved(s, r) /\ Len(r.tape) \in Nat
    BY <2>2, <2>5, MovedTwice DEF Moved, Same
  <2>7. Launch(s, op, ps, onDevice, pulls) = Record(r, op, ps, MarkGpuFresh(DevWritten(Authored)))
    BY <1>1, <2>1, <2>4 DEF Launch
  <2>8. r.gpu
    BY <1>1, <2>6 DEF Moved, Same
  <2> QED BY <2>5, <2>6, <2>7, <2>8, RecordComputes, MovedComputes, AuthoredKeeps
<1>2. CASE ~(s.gpu /\ onDevice /\ s.room = "plenty")
  <2>1. Sound(up, P) /\ Moved(s, up)
    BY UploadSound, MovedNot
  <2>2. PICK q : q = Pull(up, DataOf(s, pulls))
    OBVIOUS
  <2>3. Sound(q, P) /\ Moved(up, q) /\ \A id \in DataOf(s, pulls) : Clean(q, id, P)
    BY <2>1, <2>2, PullSound
  <2>4. PICK r : r = HostReads(q, "forward", op, ids)
    OBVIOUS
  <2>5. <<"forward", op>> \in Pullers => \A id \in ids : Clean(q, id, P)
    BY <2>3
  <2>6. Sound(r, P) /\ Moved(q, r)
    BY <2>3, <2>4, <2>5, HostReadsSound
  <2>7. Moved(s, r)
    BY <2>1, <2>3, <2>6, MovedTwice
  <2>8. Len(r.tape) \in Nat
    BY <2>7 DEF Moved, Same
  <2>9. Launch(s, op, ps, onDevice, pulls) = Record(r, op, ps, Authored)
    BY <1>2, <2>2, <2>4 DEF Launch
  <2> QED BY <2>6, <2>7, <2>8, <2>9, RecordComputes, MovedComputes, AuthoredKeeps
<1> QED BY <1>1, <1>2

Marked(e, alt) == [e EXCEPT !.alt = alt]

\* Marking the form of an operation (causal, broadcast, transposed) after recording it gives the entry
\* recorded in that form.
LEMMA FormedAgain ==
  ASSUME NEW op, NEW i, NEW ps, NEW alt
  PROVE  Marked(Formed(op, i, ps, FALSE), alt) = Formed(op, i, ps, alt)
<1> PICK a : a = Formed(op, i, ps, FALSE)
  OBVIOUS
<1> PICK b : b = [a EXCEPT !.alt = alt]
  OBVIOUS
<1> PICK c : c = Formed(op, i, ps, alt)
  OBVIOUS
<1> PICK R : R = [op : {op}, data : {<<"out", i>>}, from : {ps}, param : {FALSE}, frozen : {FALSE}, slot : {0},
                  alt : {FALSE, alt}, sum : {{}}, applied : {{}}]
  OBVIOUS
<1>1. a \in R /\ c \in R /\ c.alt = alt
  BY DEF Formed
<1>2. b \in R /\ b.alt = alt
  BY <1>1
<1>3. b = c
  BY <1>1, <1>2
<1>4. b = Marked(a, alt)
  BY DEF Marked
<1> QED BY <1>3, <1>4

\* The call's entry, marked with the form it took.
LEMMA FormComputes ==
  ASSUME NEW s, NEW r, NEW P, Len(s.tape) \in Nat, NEW op, NEW ps, NEW alt, Computed(s, r, P, op, ps, FALSE)
  PROVE  Computed(s, Form(r, alt), P, op, ps, alt)
<1> PICK f : f = Form(r, alt)
  OBVIOUS
<1>0. Fields(r) /\ Sound(r, P) /\ r.gpu = s.gpu /\ r.room = s.room /\ r.n = s.n /\ r.slots = s.slots
  BY DEF Sound, Computed
<1>1. CASE r.ret = 0
  <2>1. f = r
    BY <1>1 DEF Form
  <2>2. Len(s.tape) + 1 # 0
    OBVIOUS
  <2>3. r.tape = s.tape /\ DOMAIN r.mem = DOMAIN s.mem
    BY <1>1, <2>2 DEF Computed
  <2> QED BY <1>0, <1>1, <2>1, <2>3 DEF Computed
<1>2. CASE r.ret # 0
  <2>1. /\ Len(s.tape) < MaxEntries /\ r.ret = Len(s.tape) + 1
        /\ r.tape = Append(s.tape, Formed(op, Len(s.tape) + 1, ps, FALSE))
        /\ DOMAIN r.mem = DOMAIN s.mem \cup {<<"out", Len(s.tape) + 1>>}
    BY <1>2 DEF Computed
  <2>2. PICK e : e = Formed(op, Len(s.tape) + 1, ps, FALSE)
    OBVIOUS
  <2>3. PICK t : t = [r.tape EXCEPT ![r.ret].alt = alt]
    OBVIOUS
  <2>4. f = [r EXCEPT !.tape = t]
    BY <1>2, <2>3 DEF Form
  <2>5. Fields(f) /\ Same([r EXCEPT !.tape = t], f) /\ f.tape = t /\ f.mem = r.mem /\ f.misread = r.misread
        /\ f.gpu = r.gpu /\ f.room = r.room /\ f.n = r.n /\ f.slots = r.slots /\ f.ret = r.ret
    BY ONLY <1>0, <2>4 DEF Fields, Same
  <2>6. Sound(f, P)
    BY <1>0, <2>5 DEF Sound, MirrorsIn, Latest
  <2>7. t = Append(s.tape, Formed(op, Len(s.tape) + 1, ps, alt))
    <3> PICK i : i = Len(s.tape) + 1
      OBVIOUS
    <3> PICK g : g = Formed(op, i, ps, alt)
      OBVIOUS
    <3>1. Marked(Formed(op, i, ps, FALSE), alt) = Formed(op, i, ps, alt)
      BY ONLY FormedAgain
    <3>2. Append(s.tape, e) = [j \in 1..i |-> IF j = i THEN e ELSE s.tape[j]]
      OBVIOUS
    <3>3. Append(s.tape, g) = [j \in 1..i |-> IF j = i THEN g ELSE s.tape[j]]
      OBVIOUS
    <3>4. i \in 1..i /\ r.tape = Append(s.tape, e) /\ r.tape[i] = e
      <4>1. r.tape = Append(s.tape, e)
        BY <2>1, <2>2
      <4>2. i \in 1..i
        OBVIOUS
      <4> QED BY <3>2, <4>1, <4>2
    <3>5. [r.tape[i] EXCEPT !.alt = alt] = g
      BY ONLY <2>2, <3>1, <3>4, i = Len(s.tape) + 1, g = Formed(op, i, ps, alt) DEF Marked
    <3>6. t = [r.tape EXCEPT ![i] = g]
      BY ONLY <2>1, <2>3, <3>5, i = Len(s.tape) + 1
    <3>7. t = [j \in 1..i |-> IF j = i THEN g ELSE s.tape[j]]
      <4>1. r.tape = [j \in 1..i |-> IF j = i THEN e ELSE s.tape[j]]
        BY <3>2, <3>4
      <4> QED BY ONLY <3>6, <4>1
    <3> QED BY <3>3, <3>7
  <2> QED BY <1>0, <2>1, <2>5, <2>6, <2>7 DEF Computed
<1> QED BY <1>1, <1>2

-----------------------------------------------------------------------------
(* The registered parameters, and their slots. *)

ParamsOf(t) == {i \in DOMAIN t : t[i].param}

\* The program's k-th parameter: those of the plan, then the adapters in turn.
Reg(p, k) == IF k <= Len(p) THEN p[k][1] ELSE IF (k - Len(p)) % 2 = 1 THEN AdapterA ELSE AdapterB

\* None of the first k parameters is registered without a slot.
Lead(p, k) == k <= MaxParams /\ \A j \in 1..k : j <= Len(p) => p[j][2] # "frozen"

Unfrozen(p, k) == k <= Len(p) => p[k][2] # "frozen"

\* The parameters on the tape are the program's, in its order; those before the
\* first one without a slot have the slot of their rank.
Own(t, n, p) ==
  /\ \A i \in ParamsOf(t) : t[i].data = <<"weight", Reg(p, Rank(i, ParamsOf(t)))>>
  /\ \A i \in ParamsOf(t) : Lead(p, Rank(i, ParamsOf(t))) => t[i].slot = Rank(i, ParamsOf(t))
  /\ \A i \in ParamsOf(t) : t[i].slot # 0 =>
        t[i].slot <= n /\ t[i].slot <= Rank(i, ParamsOf(t)) /\ Unfrozen(p, Rank(i, ParamsOf(t)))
  /\ \A i, j \in ParamsOf(t) : i < j /\ t[i].slot # 0 /\ t[j].slot # 0 => t[i].slot < t[j].slot
  /\ n # 0 => \E i \in ParamsOf(t) : t[i].slot = n
  /\ n <= Cardinality(ParamsOf(t))
  /\ Lead(p, Cardinality(ParamsOf(t))) => n = Cardinality(ParamsOf(t))

\* The parameter entries depend only on which entries are marked as parameters.
LEMMA ParamsSame ==
  ASSUME NEW t, NEW u, DOMAIN u = DOMAIN t, \A i \in DOMAIN t : u[i].param = t[i].param
  PROVE  ParamsOf(u) = ParamsOf(t)
BY DEF ParamsOf

\* Whose slot is whose depends only on the parameter marks, the tensors and the slot numbers of the
\* entries.
LEMMA OwnSame ==
  ASSUME NEW t, NEW u, NEW n, NEW p, Own(t, n, p), DOMAIN u = DOMAIN t,
         \A i \in DOMAIN t : u[i].param = t[i].param /\ u[i].data = t[i].data /\ u[i].slot = t[i].slot
  PROVE  Own(u, n, p)
<1>1. ParamsOf(u) = ParamsOf(t) /\ ParamsOf(t) \subseteq DOMAIN t
  BY ParamsSame DEF ParamsOf
<1>2. \A i \in ParamsOf(t) : u[i].data = t[i].data /\ u[i].slot = t[i].slot
  BY <1>1
<1> QED BY <1>1, <1>2 DEF Own

\* On a well-formed tape every entry is well formed and at its place, and the parameter entries are
\* entries of it.
LEMMA ParamsLaid ==
  ASSUME NEW t, TapeLaid(t)
  PROVE  /\ Len(t) \in Nat /\ DOMAIN t = 1..Len(t) /\ ParamsOf(t) \subseteq 1..Len(t)
         /\ \A i \in DOMAIN t : t[i].slot \in 0..MaxParams /\ t[i] \in Entries(Weights, MaxParams) /\ Placed(t[i], i)
<1>1. t \in Seq(Entries(Weights, MaxParams))
  BY DEF TapeLaid
<1>2. \A i \in DOMAIN t : t[i] \in Entries(Weights, MaxParams) /\ Placed(t[i], i)
  BY <1>1 DEF TapeLaid
<1>3. \A i \in DOMAIN t : t[i].slot \in 0..MaxParams
  BY <1>2 DEF Entries
<1> QED BY <1>1, <1>2, <1>3 DEF ParamsOf

\* An operation's entry leaves the parameters alone.
LEMMA OwnBesides ==
  ASSUME NEW t, TapeLaid(t), Len(t) < MaxEntries, NEW e \in Entries(Weights, MaxParams), Placed(e, Len(t) + 1), ~e.param,
         NEW n, NEW p, Own(t, n, p)
  PROVE  ParamsOf(Append(t, e)) = ParamsOf(t) /\ Own(Append(t, e), n, p)
<1> PICK u : u = Append(t, e)
  OBVIOUS
<1>1. /\ u[Len(t) + 1] = e /\ \A i \in 1..Len(t) : u[i] = t[i]
      /\ Len(t) \in Nat /\ DOMAIN t = 1..Len(t) /\ DOMAIN u = 1..(Len(t) + 1)
  BY AppendLaid
<1>2. ParamsOf(u) = ParamsOf(t)
  BY <1>1 DEF ParamsOf
<1>3. \A i \in ParamsOf(t) : u[i] = t[i]
  BY <1>1 DEF ParamsOf
<1>4. Own(u, n, p)
  BY <1>2, <1>3 DEF Own
<1> QED BY <1>2, <1>4

\* The next parameter of the program, with the next slot, or none.
LEMMA OwnNext ==
  ASSUME NEW t, TapeLaid(t), Len(t) < MaxEntries, NEW e \in Entries(Weights, MaxParams), Placed(e, Len(t) + 1), e.param,
         NEW n \in 0..MaxParams, NEW p, Len(p) \in Nat, Own(t, n, p),
         e.data = <<"weight", Reg(p, Cardinality(ParamsOf(t)) + 1)>>,
         NEW m \in 0..MaxParams,
         \/ Unfrozen(p, Cardinality(ParamsOf(t)) + 1) /\ n < MaxParams /\ e.slot = n + 1 /\ m = n + 1
         \/ Unfrozen(p, Cardinality(ParamsOf(t)) + 1) /\ n = MaxParams /\ e.slot = 0 /\ m = n
         \/ ~Unfrozen(p, Cardinality(ParamsOf(t)) + 1) /\ e.slot = 0 /\ m = n
  PROVE  /\ ParamsOf(Append(t, e)) = ParamsOf(t) \cup {Len(t) + 1} /\ Own(Append(t, e), m, p)
         /\ Cardinality(ParamsOf(Append(t, e))) = Cardinality(ParamsOf(t)) + 1
<1> PICK u : u = Append(t, e)
  OBVIOUS
<1> PICK Q : Q = ParamsOf(t)
  OBVIOUS
<1> PICK C : C = Cardinality(Q)
  OBVIOUS
<1> PICK N : N = Len(t)
  OBVIOUS
<1>1. /\ u[N + 1] = e /\ \A i \in 1..N : u[i] = t[i]
      /\ N \in Nat /\ DOMAIN t = 1..N /\ DOMAIN u = 1..(N + 1)
  BY AppendLaid
<1>2. Q \subseteq 1..N /\ \A i \in Q : t[i].slot \in 0..MaxParams
  BY ParamsLaid, <1>1 DEF ParamsOf
<1>3. MaxParams \in Nat \ {0}
  BY TapeAssumption
<1>4. ParamsOf(u) = Q \cup {N + 1}
  BY <1>1 DEF ParamsOf
<1>5. /\ \A i \in 1..N : Rank(i, Q \cup {N + 1}) = Rank(i, Q)
      /\ Rank(N + 1, Q \cup {N + 1}) = C + 1
      /\ Cardinality(Q \cup {N + 1}) = C + 1
  <2>1. N \in Nat /\ Q \subseteq 1..N
    BY <1>1, <1>2
  <2> QED BY ONLY <2>1, RankNext, C = Cardinality(Q)
<1>6. C \in Nat /\ \A i \in Q : Rank(i, Q) \in 1..C
  BY <1>1, <1>2, RankType
<1>7. \A i \in Q : i \in 1..N /\ i < N + 1 /\ i # N + 1 /\ u[i] = t[i] /\ Rank(i, Q \cup {N + 1}) = Rank(i, Q)
  <2>1. \A i \in 1..N : i < N + 1 /\ i # N + 1
    BY <1>1
  <2>2. \A i \in Q : i \in 1..N
    BY <1>2
  <2> QED BY ONLY <1>1, <1>5, <2>1, <2>2
<1>8. /\ \A i \in Q : t[i].data = <<"weight", Reg(p, Rank(i, Q))>>
      /\ \A i \in Q : Lead(p, Rank(i, Q)) => t[i].slot = Rank(i, Q)
      /\ \A i \in Q : t[i].slot # 0 => t[i].slot <= n /\ t[i].slot <= Rank(i, Q) /\ Unfrozen(p, Rank(i, Q))
      /\ \A i, j \in Q : i < j /\ t[i].slot # 0 /\ t[j].slot # 0 => t[i].slot < t[j].slot
      /\ n # 0 => \E i \in Q : t[i].slot = n
      /\ n <= C
      /\ Lead(p, C) => n = C
  BY DEF Own
<1>9. /\ \/ Unfrozen(p, C + 1) /\ n < MaxParams /\ e.slot = n + 1 /\ m = n + 1
         \/ Unfrozen(p, C + 1) /\ n = MaxParams /\ e.slot = 0 /\ m = n
         \/ ~Unfrozen(p, C + 1) /\ e.slot = 0 /\ m = n
      /\ n <= m /\ e.data = <<"weight", Reg(p, C + 1)>>
  OBVIOUS
<1>10. Lead(p, C + 1) => n = C /\ n < MaxParams /\ e.slot = C + 1 /\ m = C + 1
  <2>1. SUFFICES ASSUME Lead(p, C + 1) PROVE n = C /\ n < MaxParams /\ e.slot = C + 1 /\ m = C + 1
    OBVIOUS
  <2>2. C + 1 <= MaxParams /\ \A j \in 1..(C + 1) : j <= Len(p) => p[j][2] # "frozen"
    BY <2>1 DEF Lead
  <2>3. C <= MaxParams /\ \A j \in 1..C : j \in 1..(C + 1)
    BY <1>3, <1>6, <2>2
  <2>4. Lead(p, C)
    BY <2>2, <2>3 DEF Lead
  <2>5. C + 1 \in 1..(C + 1)
    BY <1>6
  <2>6. Unfrozen(p, C + 1)
    BY <2>2, <2>5 DEF Unfrozen
  <2>7. n = C /\ C < MaxParams
    BY <1>3, <1>6, <1>8, <2>2, <2>4
  <2> QED BY <1>9, <2>6, <2>7
<1> PICK V : V = Q \cup {N + 1}
  OBVIOUS
<1>11. /\ \A i \in V : i \in Q \/ i = N + 1
       /\ \A i \in Q : i \in V
       /\ N + 1 \in V /\ ParamsOf(u) = V /\ Cardinality(V) = C + 1 /\ Rank(N + 1, V) = C + 1
       /\ \A i \in Q : Rank(i, V) = Rank(i, Q) /\ u[i] = t[i]
  BY <1>4, <1>5, <1>7
<1>12. ASSUME NEW i \in V PROVE u[i].data = <<"weight", Reg(p, Rank(i, V))>>
  <2>1. CASE i \in Q
    BY <1>8, <1>11, <2>1
  <2>2. CASE i = N + 1
    BY <1>1, <1>9, <1>11, <2>2
  <2> QED BY <1>11, <2>1, <2>2
<1>13. \A i \in V : Lead(p, Rank(i, V)) => u[i].slot = Rank(i, V)
  <2> SUFFICES ASSUME NEW i \in V, Lead(p, Rank(i, V)) PROVE u[i].slot = Rank(i, V)
    OBVIOUS
  <2>1. CASE i \in Q
    BY <1>8, <1>11, <2>1
  <2>2. CASE i = N + 1
    <3>1. Lead(p, C + 1)
      BY <1>11, <2>2
    <3> QED BY <1>1, <1>10, <1>11, <2>2, <3>1
  <2> QED BY <1>11, <2>1, <2>2
<1>14. ASSUME NEW i \in V, u[i].slot # 0 PROVE u[i].slot <= m /\ u[i].slot <= Rank(i, V) /\ Unfrozen(p, Rank(i, V))
  <2>1. CASE i \in Q
    <3>1. t[i].slot \in Nat /\ t[i].slot <= n /\ t[i].slot <= Rank(i, Q) /\ Unfrozen(p, Rank(i, Q))
      BY <1>2, <1>8, <1>11, <1>14, <2>1
    <3>2. n \in Nat /\ m \in Nat /\ n <= m
      BY <1>3, <1>9
    <3>3. u[i].slot = t[i].slot /\ Rank(i, V) = Rank(i, Q)
      BY <1>11, <2>1
    <3> QED BY ONLY <3>1, <3>2, <3>3
  <2>2. CASE i = N + 1
    BY <1>1, <1>6, <1>8, <1>9, <1>11, <1>14, <2>2
  <2> QED BY <1>11, <2>1, <2>2
<1>15. ASSUME NEW i \in V, NEW j \in V, i < j, u[i].slot # 0, u[j].slot # 0 PROVE u[i].slot < u[j].slot
  <2>1. i \in Q
    BY <1>1, <1>7, <1>11, <1>15
  <2>2. CASE j \in Q
    BY <1>8, <1>11, <1>15, <2>1, <2>2
  <2>3. CASE j = N + 1
    <3>1. u[j].slot = n + 1
      BY <1>1, <1>9, <1>15, <2>3
    <3>2. u[i].slot = t[i].slot
      BY <1>11, <2>1
    <3>3. t[i].slot <= n /\ t[i].slot \in Nat
      BY <1>2, <1>3, <1>8, <1>15, <2>1, <3>2
    <3>4. n \in Nat
      BY <1>3
    <3> QED BY ONLY <3>1, <3>2, <3>3, <3>4
  <2> QED BY <1>11, <2>2, <2>3
<1>16. m # 0 => \E i \in V : u[i].slot = m
  <2>1. CASE m = n
    <3>1. n # 0 => \E i \in Q : t[i].slot = n
      BY <1>8
    <3> QED BY <1>11, <2>1, <3>1
  <2>2. CASE m = n + 1 /\ e.slot = n + 1
    BY <1>1, <1>11, <2>2
  <2> QED BY <1>9, <2>1, <2>2
<1>17. m <= Cardinality(V) /\ (Lead(p, Cardinality(V)) => m = Cardinality(V))
  BY <1>6, <1>8, <1>9, <1>10, <1>11
<1>18. Own(u, m, p)
  BY <1>11, <1>12, <1>13, <1>14, <1>15, <1>16, <1>17 DEF Own
<1> QED BY <1>4, <1>5, <1>18

-----------------------------------------------------------------------------
(* The forward pass. *)

\* No gradient yet.
Blank(s) ==
  /\ \A i : <<"grad", i>> \notin DOMAIN s.mem
  /\ \A i \in DOMAIN s.tape : s.tape[i].sum = {} /\ s.tape[i].applied = {}

\* The adapters come in pairs, unless the tape is full.
Paired(t, p) == Len(t) = MaxEntries \/ \E k \in Nat : Cardinality(ParamsOf(t)) = Len(p) + 2 * k

Ready(s, P, p) == Sound(s, P) /\ Laid(s) /\ Own(s.tape, s.n, p) /\ Blank(s) /\ s.ret \in 0..Len(s.tape)

HasInput(t, p) == Len(p) < Len(t) /\ ~t[Len(p) + 1].param

Going(s, P, p) == Ready(s, P, p) /\ Paired(s.tape, p) /\ HasInput(s.tape, p)

\* No tensor goes, and the slots keep what they say of their gradients.
Kept(s, r) ==
  /\ DOMAIN s.mem \subseteq DOMAIN r.mem /\ r.gpu = s.gpu /\ r.room = s.room
  /\ \A k \in 1..MaxParams : r.slots[k].hist = s.slots[k].hist /\ r.slots[k].acc = s.slots[k].acc

\* A call that leaves the pass going.
Goes(s, r, P, p) == Going(r, P, p) /\ Len(s.tape) <= Len(r.tape) /\ Kept(s, r)

\* At most one entry more, and none of a parameter.
Entered(s, r) ==
  \/ r.tape = s.tape
  \/ /\ Len(s.tape) < MaxEntries /\ Len(r.tape) = Len(s.tape) + 1 /\ ~r.tape[Len(s.tape) + 1].param
     /\ \A i \in 1..Len(s.tape) : r.tape[i] = s.tape[i]

\* An operation that computes leaves a ready state, with the parameters it found and at most one entry
\* more.
LEMMA ComputedReady ==
  ASSUME NEW s, NEW r, NEW P, NEW p, NEW op \in TapeOps, NEW ps \in Tuples(Len(s.tape)), NEW alt \in BOOLEAN,
         WholePair(op, ps),
         Ready(s, P, p), Computed(s, r, P, op, ps, alt)
  PROVE  /\ Ready(r, P, p) /\ ParamsOf(r.tape) = ParamsOf(s.tape) /\ Len(s.tape) \in Nat
         /\ Entered(s, r) /\ Kept(s, r)
<1>0. /\ Sound(s, P) /\ Laid(s) /\ Own(s.tape, s.n, p) /\ Blank(s) /\ s.ret \in 0..Len(s.tape)
      /\ TapeLaid(s.tape) /\ Len(s.tape) \in Nat
  BY ParamsLaid DEF Ready, Laid
<1>1. Sound(r, P) /\ r.gpu = s.gpu /\ r.room = s.room /\ r.n = s.n /\ r.slots = s.slots
  BY DEF Computed
<1>2. CASE r.tape = s.tape /\ r.ret = 0 /\ DOMAIN r.mem = DOMAIN s.mem
  <2>1. Laid(r) /\ Own(r.tape, r.n, p) /\ Blank(r)
    BY <1>0, <1>1, <1>2 DEF Laid, Blank
  <2>2. r.ret \in 0..Len(r.tape)
    BY <1>0, <1>2
  <2> QED BY <1>0, <1>1, <1>2, <2>1, <2>2 DEF Ready, Entered, Kept
<1>3. CASE /\ Len(s.tape) < MaxEntries /\ r.ret = Len(s.tape) + 1
           /\ r.tape = Append(s.tape, Formed(op, Len(s.tape) + 1, ps, alt))
           /\ DOMAIN r.mem = DOMAIN s.mem \cup {<<"out", Len(s.tape) + 1>>}
  <2> PICK i : i = Len(s.tape) + 1
    OBVIOUS
  <2> PICK e : e = Formed(op, i, ps, alt)
    OBVIOUS
  <2>1. i \in 1..MaxEntries /\ Len(s.tape) = i - 1
    BY <1>0, <1>3, EntriesAssumption
  <2>2. /\ e \in Entries(Weights, MaxParams) /\ Placed(e, i)
        /\ ~e.param /\ ~e.frozen /\ e.sum = {} /\ e.applied = {} /\ e.slot = 0
    BY <2>1, OpEntry
  <2>3. r.tape = Append(s.tape, e)
    BY <1>3
  <2>4. /\ TapeLaid(r.tape) /\ Len(r.tape) = i /\ r.tape[i] = e /\ \A j \in 1..Len(s.tape) : r.tape[j] = s.tape[j]
        /\ DOMAIN s.tape = 1..Len(s.tape) /\ DOMAIN r.tape = 1..i
    BY <1>0, <1>3, <2>2, <2>3, AppendLaid
  <2>5. ParamsOf(r.tape) = ParamsOf(s.tape) /\ Own(r.tape, r.n, p)
    BY <1>0, <1>1, <1>3, <2>2, <2>3, OwnBesides
  <2>6. Laid(r)
    BY <1>0, <1>1, <1>3, <2>4 DEF Laid
  <2>7. Blank(r)
    <3>1. \A j : <<"grad", j>> # <<"out", Len(s.tape) + 1>>
      OBVIOUS
    <3>2. \A j : <<"grad", j>> \notin DOMAIN r.mem
      BY <1>0, <1>3, <3>1 DEF Blank
    <3>3. ASSUME NEW j \in DOMAIN r.tape PROVE r.tape[j].sum = {} /\ r.tape[j].applied = {}
      <4>1. j = i \/ j \in 1..Len(s.tape)
        BY <1>0, <2>4
      <4> QED BY <1>0, <2>2, <2>4, <4>1 DEF Blank
    <3> QED BY <3>2, <3>3 DEF Blank
  <2>8. r.ret \in 0..Len(r.tape)
    BY <1>0, <1>3, <2>4
  <2> QED BY <1>0, <1>1, <1>3, <2>2, <2>4, <2>5, <2>6, <2>7, <2>8 DEF Ready, Entered, Kept
<1> QED BY <1>2, <1>3 DEF Computed

\* The same during a forward pass: it goes on from where the operation leaves off.
LEMMA ComputedGoes ==
  ASSUME NEW s, NEW r, NEW P, NEW p, Len(p) \in Nat, NEW op \in TapeOps, NEW ps \in Tuples(Len(s.tape)), NEW alt \in BOOLEAN,
         WholePair(op, ps),
         Going(s, P, p), Computed(s, r, P, op, ps, alt)
  PROVE  Goes(s, r, P, p)
<1>0. Ready(s, P, p) /\ Paired(s.tape, p) /\ HasInput(s.tape, p)
  BY DEF Going
<1>1. /\ Ready(r, P, p) /\ ParamsOf(r.tape) = ParamsOf(s.tape) /\ Len(s.tape) \in Nat
      /\ Entered(s, r) /\ Kept(s, r)
  <2>1. op \in TapeOps /\ ps \in Tuples(Len(s.tape)) /\ alt \in BOOLEAN /\ Computed(s, r, P, op, ps, alt)
    OBVIOUS
  <2>2. WholePair(op, ps)
    OBVIOUS
  <2> QED BY ONLY <1>0, <2>1, <2>2, ComputedReady
<1>2. CASE r.tape = s.tape
  BY <1>0, <1>1, <1>2 DEF Goes, Going
<1>3. CASE /\ Len(s.tape) < MaxEntries /\ Len(r.tape) = Len(s.tape) + 1
           /\ \A i \in 1..Len(s.tape) : r.tape[i] = s.tape[i]
  <2>1. Paired(r.tape, p)
    BY <1>0, <1>1, <1>3 DEF Paired
  <2>2. Len(p) < Len(s.tape) /\ ~s.tape[Len(p) + 1].param
    BY <1>0 DEF HasInput
  <2>3. Len(p) + 1 \in 1..Len(s.tape) /\ Len(p) < Len(r.tape)
    BY <1>1, <1>3, <2>2
  <2>4. HasInput(r.tape, p)
    BY <1>3, <2>2, <2>3 DEF HasInput
  <2> QED BY <1>1, <1>3, <2>1, <2>4 DEF Goes, Going
<1> QED BY <1>1, <1>2, <1>3 DEF Entered

\* The forward loops that pull what they read.
Pulled == {"SEQ_EMBED", "SIGMOID", "SCALE_BY_T", "MH_CAUSAL_ATTN", "RRPRAM_LR", "RRPRAM_BCAST", "ADD", "MUL", "SCALE",
           "ROPE", "SEQ_CROSSENT_MASKED"}

\* The forward operations that fetch their operands to the host before reading them there.
LEMMA PulledForward == \A op : <<"forward", op>> \in Pullers <=> op \in Pulled
<1> SUFFICES ASSUME NEW op PROVE <<"forward", op>> \in Pullers <=> op \in Pulled
  OBVIOUS
<1>1. /\ \A o : <<"forward", op>> # <<"backward", o>> /\ <<"forward", op>> # <<"update", o>>
      /\ \A o : <<"forward", op>> = <<"forward", o>> <=> op = o
  OBVIOUS
<1> QED BY <1>1, Zenon DEF Pullers, Pulled

\* One operation of notorch.c, in whatever form, on the device or on the host, keeps the forward pass
\* going.
LEMMA LaunchGoes ==
  ASSUME NEW s, NEW P, NEW p, Len(p) \in Nat, Going(s, P, p), NEW op \in TapeOps, NEW ps \in Tuples(Len(s.tape)),
         WholePair(op, ps),
         NEW onDevice \in BOOLEAN, NEW pulls, op \in Pulled => pulls = ps
  PROVE  /\ Goes(s, Launch(s, op, ps, onDevice, pulls), P, p)
         /\ \A alt \in BOOLEAN : Goes(s, Form(Launch(s, op, ps, onDevice, pulls), alt), P, p)
<1>0. Sound(s, P) /\ Len(s.tape) \in Nat
  BY ParamsLaid DEF Going, Ready, Laid
<1>1. <<"forward", op>> \in Pullers => pulls = ps
  BY PulledForward
<1> PICK r : r = Launch(s, op, ps, onDevice, pulls)
  OBVIOUS
<1>2. Computed(s, r, P, op, ps, FALSE)
  BY <1>0, <1>1, LaunchComputes
<1>3. ASSUME NEW alt \in BOOLEAN PROVE Goes(s, Form(r, alt), P, p)
  <2>1. Computed(s, Form(r, alt), P, op, ps, alt)
    BY <1>0, <1>2, FormComputes
  <2> QED BY <2>1, ComputedGoes
<1>4. Goes(s, r, P, p)
  BY <1>2, ComputedGoes
<1> QED BY <1>3, <1>4

\* An operation that fails keeps the forward pass going.
LEMMA FailGoes ==
  ASSUME NEW s, NEW P, NEW p, Going(s, P, p)
  PROVE  Goes(s, Fail(s), P, p)
<1>1. Fields(s) /\ Len(s.tape) \in Nat
  BY ParamsLaid DEF Going, Ready, Sound, Laid
<1> PICK r : r = Fail(s)
  OBVIOUS
<1>2. /\ Fields(r) /\ r.ret = 0 /\ r.misread = s.misread /\ r.mem = s.mem
      /\ r.tape = s.tape /\ r.gpu = s.gpu /\ r.room = s.room /\ r.n = s.n /\ r.slots = s.slots
  BY <1>1, FailFields
<1>3. Ready(r, P, p)
  BY <1>1, <1>2 DEF Going, Ready, Sound, MirrorsIn, Latest, Laid, Blank
<1> QED BY <1>1, <1>2, <1>3 DEF Goes, Going, Kept

LaunchedWell(s, op, ps, d, pulls, P, p) ==
  /\ Goes(s, Launch(s, op, ps, d, pulls), P, p)
  /\ \A alt \in BOOLEAN : Goes(s, Form(Launch(s, op, ps, d, pulls), alt), P, p)

\* Every launch, on either side, leaves a state the pass can go on from.
LEMMA LaunchWell ==
  ASSUME NEW s, NEW P, NEW p, Len(p) \in Nat, Going(s, P, p), NEW op \in TapeOps, NEW ps \in Tuples(Len(s.tape)),
         WholePair(op, ps), NEW d \in BOOLEAN, NEW pulls, op \in Pulled => pulls = ps
  PROVE  LaunchedWell(s, op, ps, d, pulls, P, p)
BY LaunchGoes DEF LaunchedWell

\* The operations of one operand.
LEMMA OneOperandGoes ==
  ASSUME NEW s, NEW P, NEW p, Len(p) \in Nat, Going(s, P, p), NEW x \in 0..Len(s.tape), NEW b \in BOOLEAN
  PROVE  /\ Goes(s, nt_embedding(s, x), P, p)
         /\ Goes(s, nt_silu(s, x), P, p)
         /\ Goes(s, nt_sigmoid(s, x), P, p)
         /\ Goes(s, nt_softmax(s, x), P, p)
         /\ Goes(s, nt_cross_entropy(s, x), P, p)
         /\ Goes(s, nt_rope_freq(s, x, b), P, p)
         /\ Goes(s, nt_rope_split_half_freq(s, x), P, p)
         /\ Goes(s, nt_dropout(s, x), P, p)
         /\ Goes(s, nt_gelu(s, x), P, p)
<1> PICK ps : ps = <<x>>
  OBVIOUS
<1>1. ps \in Tuples(Len(s.tape))
  BY OneTuple
<1>2. Goes(s, nt_embedding(s, x), P, p)
  <2>1. "EMB_LOOKUP" \in TapeOps /\ WholePair("EMB_LOOKUP", ps)
    BY DEF TapeOps, WholePair
  <2>2. "EMB_LOOKUP" \notin Pulled
    BY DEF Pulled
  <2>3. \A d \in BOOLEAN : LaunchedWell(s, "EMB_LOOKUP", ps, d, <<>>, P, p)
    BY <1>1, <2>1, <2>2, LaunchWell
  <2> QED BY <2>3 DEF nt_embedding, LaunchedWell
<1>3. Goes(s, nt_silu(s, x), P, p)
  <2>1. "SILU" \in TapeOps /\ WholePair("SILU", ps)
    BY DEF TapeOps, WholePair
  <2>2. "SILU" \notin Pulled
    BY DEF Pulled
  <2>3. \A d \in BOOLEAN : LaunchedWell(s, "SILU", ps, d, <<>>, P, p)
    BY <1>1, <2>1, <2>2, LaunchWell
  <2> QED BY <2>3 DEF nt_silu, LaunchedWell
<1>4. Goes(s, nt_sigmoid(s, x), P, p)
  <2>1. "SIGMOID" \in TapeOps /\ WholePair("SIGMOID", ps)
    BY DEF TapeOps, WholePair
  <2>2. \A d \in BOOLEAN : LaunchedWell(s, "SIGMOID", ps, d, ps, P, p)
    BY <1>1, <2>1, LaunchWell
  <2> QED BY <2>2 DEF nt_sigmoid, LaunchedWell
<1>5. Goes(s, nt_softmax(s, x), P, p)
  <2>1. "SOFTMAX" \in TapeOps /\ WholePair("SOFTMAX", ps)
    BY DEF TapeOps, WholePair
  <2>2. "SOFTMAX" \notin Pulled
    BY DEF Pulled
  <2>3. \A d \in BOOLEAN : LaunchedWell(s, "SOFTMAX", ps, d, <<>>, P, p)
    BY <1>1, <2>1, <2>2, LaunchWell
  <2> QED BY <2>3 DEF nt_softmax, LaunchedWell
<1>6. Goes(s, nt_cross_entropy(s, x), P, p)
  <2>1. "CROSS_ENT" \in TapeOps /\ WholePair("CROSS_ENT", ps)
    BY DEF TapeOps, WholePair
  <2>2. "CROSS_ENT" \notin Pulled
    BY DEF Pulled
  <2>3. \A d \in BOOLEAN : LaunchedWell(s, "CROSS_ENT", ps, d, <<>>, P, p)
    BY <1>1, <2>1, <2>2, LaunchWell
  <2> QED BY <2>3 DEF nt_cross_entropy, LaunchedWell
<1>7. Goes(s, nt_rope_freq(s, x, b), P, p)
  <2>1. "ROPE" \in TapeOps /\ WholePair("ROPE", ps)
    BY DEF TapeOps, WholePair
  <2>2. \A d \in BOOLEAN : LaunchedWell(s, "ROPE", ps, d, ps, P, p)
    BY <1>1, <2>1, LaunchWell
  <2> QED BY <2>2 DEF nt_rope_freq, LaunchedWell
<1>8. Goes(s, nt_rope_split_half_freq(s, x), P, p)
  <2>1. "ROPE" \in TapeOps /\ WholePair("ROPE", ps)
    BY DEF TapeOps, WholePair
  <2>2. \A d \in BOOLEAN : LaunchedWell(s, "ROPE", ps, d, ps, P, p)
    BY <1>1, <2>1, LaunchWell
  <2> QED BY <2>2 DEF nt_rope_split_half_freq, LaunchedWell
<1>9. Goes(s, nt_dropout(s, x), P, p)
  <2>1. "DROPOUT" \in TapeOps /\ WholePair("DROPOUT", ps)
    BY DEF TapeOps, WholePair
  <2>2. "DROPOUT" \notin Pulled
    BY DEF Pulled
  <2>3. \A d \in BOOLEAN : LaunchedWell(s, "DROPOUT", ps, d, <<>>, P, p)
    BY <1>1, <2>1, <2>2, LaunchWell
  <2> QED BY <2>3 DEF nt_dropout, LaunchedWell
<1>10. Goes(s, nt_gelu(s, x), P, p)
  <2>1. "GELU" \in TapeOps /\ WholePair("GELU", ps)
    BY DEF TapeOps, WholePair
  <2>2. "GELU" \notin Pulled
    BY DEF Pulled
  <2>3. \A d \in BOOLEAN : LaunchedWell(s, "GELU", ps, d, <<>>, P, p)
    BY <1>1, <2>1, <2>2, LaunchWell
  <2> QED BY <2>3 DEF nt_gelu, LaunchedWell
<1> QED BY <1>2, <1>3, <1>4, <1>5, <1>6, <1>7, <1>8, <1>9, <1>10

\* The operations of two operands, but for those that want both.
LEMMA TwoOperandsGo ==
  ASSUME NEW s, NEW P, NEW p, Len(p) \in Nat, Going(s, P, p), NEW x \in 0..Len(s.tape), NEW y \in 0..Len(s.tape), NEW b \in BOOLEAN
  PROVE  /\ Goes(s, nt_seq_linear_t(s, x, y), P, p)
         /\ Goes(s, nt_rmsnorm(s, x, y), P, p)
         /\ Goes(s, nt_seq_rmsnorm(s, x, y), P, p)
         /\ Goes(s, nt_scale_by_t(s, x, y), P, p)
         /\ Goes(s, nt_concat(s, x, y), P, p)
         /\ Goes(s, nt_swiglu(s, x, y), P, p)
         /\ Goes(s, nt_bit_linear(s, x, y), P, p)
         /\ Goes(s, nt_bit_seq_linear(s, x, y), P, p)
         /\ Goes(s, nt_mul(s, x, y, b), P, p)
<1> PICK ps : ps = <<x, y>>
  OBVIOUS
<1>1. ps \in Tuples(Len(s.tape))
  BY TwoTuple
<1>2. Goes(s, nt_seq_linear_t(s, x, y), P, p)
  <2>1. "SEQ_MATVEC_T" \in TapeOps /\ WholePair("SEQ_MATVEC_T", ps)
    BY DEF TapeOps, WholePair
  <2>2. "SEQ_MATVEC_T" \notin Pulled
    BY DEF Pulled
  <2>3. \A d \in BOOLEAN : LaunchedWell(s, "SEQ_MATVEC_T", ps, d, <<>>, P, p)
    BY <1>1, <2>1, <2>2, LaunchWell
  <2> QED BY <2>3 DEF nt_seq_linear_t, LaunchedWell
<1>3. Goes(s, nt_rmsnorm(s, x, y), P, p)
  <2>1. "RMSNORM" \in TapeOps /\ WholePair("RMSNORM", ps)
    BY DEF TapeOps, WholePair
  <2>2. "RMSNORM" \notin Pulled
    BY DEF Pulled
  <2>3. \A d \in BOOLEAN : LaunchedWell(s, "RMSNORM", ps, d, <<>>, P, p)
    BY <1>1, <2>1, <2>2, LaunchWell
  <2> QED BY <2>3 DEF nt_rmsnorm, LaunchedWell
<1>4. Goes(s, nt_seq_rmsnorm(s, x, y), P, p)
  <2>1. "SEQ_RMSNORM" \in TapeOps /\ WholePair("SEQ_RMSNORM", ps)
    BY DEF TapeOps, WholePair
  <2>2. "SEQ_RMSNORM" \notin Pulled
    BY DEF Pulled
  <2>3. \A d \in BOOLEAN : LaunchedWell(s, "SEQ_RMSNORM", ps, d, <<>>, P, p)
    BY <1>1, <2>1, <2>2, LaunchWell
  <2> QED BY <2>3 DEF nt_seq_rmsnorm, LaunchedWell
<1>5. Goes(s, nt_scale_by_t(s, x, y), P, p)
  <2>1. "SCALE_BY_T" \in TapeOps /\ WholePair("SCALE_BY_T", ps)
    BY DEF TapeOps, WholePair
  <2>2. \A d \in BOOLEAN : LaunchedWell(s, "SCALE_BY_T", ps, d, ps, P, p)
    BY <1>1, <2>1, LaunchWell
  <2> QED BY <2>2 DEF nt_scale_by_t, LaunchedWell
<1>6. Goes(s, nt_concat(s, x, y), P, p)
  <2>1. "CONCAT" \in TapeOps /\ WholePair("CONCAT", ps)
    BY DEF TapeOps, WholePair
  <2>2. "CONCAT" \notin Pulled
    BY DEF Pulled
  <2>3. \A d \in BOOLEAN : LaunchedWell(s, "CONCAT", ps, d, <<>>, P, p)
    BY <1>1, <2>1, <2>2, LaunchWell
  <2> QED BY <2>3 DEF nt_concat, LaunchedWell
<1>7. Goes(s, nt_swiglu(s, x, y), P, p)
  <2>1. "SWIGLU" \in TapeOps /\ WholePair("SWIGLU", ps)
    BY DEF TapeOps, WholePair
  <2>2. "SWIGLU" \notin Pulled
    BY DEF Pulled
  <2>3. \A d \in BOOLEAN : LaunchedWell(s, "SWIGLU", ps, d, <<>>, P, p)
    BY <1>1, <2>1, <2>2, LaunchWell
  <2> QED BY <2>3 DEF nt_swiglu, LaunchedWell
<1>8. Goes(s, nt_bit_linear(s, x, y), P, p)
  <2>1. "BIT_LINEAR" \in TapeOps /\ WholePair("BIT_LINEAR", ps)
    BY DEF TapeOps, WholePair
  <2>2. "BIT_LINEAR" \notin Pulled
    BY DEF Pulled
  <2>3. \A d \in BOOLEAN : LaunchedWell(s, "BIT_LINEAR", ps, d, <<>>, P, p)
    BY <1>1, <2>1, <2>2, LaunchWell
  <2> QED BY <2>3 DEF nt_bit_linear, LaunchedWell
<1>9. Goes(s, nt_bit_seq_linear(s, x, y), P, p)
  <2>1. "BIT_SEQ_LINEAR" \in TapeOps /\ WholePair("BIT_SEQ_LINEAR", ps)
    BY DEF TapeOps, WholePair
  <2>2. "BIT_SEQ_LINEAR" \notin Pulled
    BY DEF Pulled
  <2>3. \A d \in BOOLEAN : LaunchedWell(s, "BIT_SEQ_LINEAR", ps, d, <<>>, P, p)
    BY <1>1, <2>1, <2>2, LaunchWell
  <2> QED BY <2>3 DEF nt_bit_seq_linear, LaunchedWell
<1>10. Goes(s, nt_mul(s, x, y, b), P, p)
  <2>1. "MUL" \in TapeOps /\ WholePair("MUL", ps)
    BY DEF TapeOps, WholePair
  <2>2. \A d \in BOOLEAN : LaunchedWell(s, "MUL", ps, d, ps, P, p)
    BY <1>1, <2>1, LaunchWell
  <2> QED BY <2>2 DEF nt_mul, LaunchedWell
<1> QED BY <1>2, <1>3, <1>4, <1>5, <1>6, <1>7, <1>8, <1>9, <1>10

\* The operations of three operands.
LEMMA ThreeOperandsGo ==
  ASSUME NEW s, NEW P, NEW p, Len(p) \in Nat, Going(s, P, p), NEW x \in 0..Len(s.tape), NEW y \in 0..Len(s.tape), NEW z \in 0..Len(s.tape), NEW b \in BOOLEAN
  PROVE  /\ Goes(s, nt_seq_embedding(s, x, y, z), P, p)
         /\ Goes(s, nt_geglu(s, x, y, z), P, p)
         /\ Goes(s, nt_causal_attention(s, x, y, z), P, p)
         /\ Goes(s, nt_mh_causal_attention(s, x, y, z, b), P, p)
         /\ Goes(s, nt_gqa_causal_attention(s, x, y, z), P, p)
         /\ Goes(s, nt_rrpram_attention(s, x, y, z), P, p)
         /\ Goes(s, nt_rrpram_lowrank_attention(s, x, y, z), P, p)
         /\ Goes(s, nt_rrpram_broadcast_attention(s, x, y, z), P, p)
         /\ Goes(s, nt_layernorm(s, x, y, z), P, p)
         /\ Goes(s, nt_seq_layernorm(s, x, y, z), P, p)
         /\ Goes(s, nt_seq_cross_entropy_masked(s, x, y, z, b), P, p)
<1> PICK ps : ps = <<x, y, z>>
  OBVIOUS
<1>1. ps \in Tuples(Len(s.tape))
  BY ThreeTuple
<1>2. Goes(s, nt_seq_embedding(s, x, y, z), P, p)
  <2>1. "SEQ_EMBED" \in TapeOps /\ WholePair("SEQ_EMBED", ps)
    BY DEF TapeOps, WholePair
  <2>2. \A d \in BOOLEAN : LaunchedWell(s, "SEQ_EMBED", ps, d, ps, P, p)
    BY <1>1, <2>1, LaunchWell
  <2> QED BY <2>2 DEF nt_seq_embedding, LaunchedWell
<1>3. Goes(s, nt_geglu(s, x, y, z), P, p)
  <2>1. "GEGLU" \in TapeOps /\ WholePair("GEGLU", ps)
    BY DEF TapeOps, WholePair
  <2>2. "GEGLU" \notin Pulled
    BY DEF Pulled
  <2>3. \A d \in BOOLEAN : LaunchedWell(s, "GEGLU", ps, d, <<>>, P, p)
    BY <1>1, <2>1, <2>2, LaunchWell
  <2> QED BY <2>3 DEF nt_geglu, LaunchedWell
<1>4. Goes(s, nt_causal_attention(s, x, y, z), P, p)
  <2>1. "CAUSAL_ATTN" \in TapeOps /\ WholePair("CAUSAL_ATTN", ps)
    BY DEF TapeOps, WholePair
  <2>2. "CAUSAL_ATTN" \notin Pulled
    BY DEF Pulled
  <2>3. \A d \in BOOLEAN : LaunchedWell(s, "CAUSAL_ATTN", ps, d, <<>>, P, p)
    BY <1>1, <2>1, <2>2, LaunchWell
  <2> QED BY <2>3 DEF nt_causal_attention, LaunchedWell
<1>5. Goes(s, nt_mh_causal_attention(s, x, y, z, b), P, p)
  <2>1. "MH_CAUSAL_ATTN" \in TapeOps /\ WholePair("MH_CAUSAL_ATTN", ps)
    BY DEF TapeOps, WholePair
  <2>2. \A d \in BOOLEAN : LaunchedWell(s, "MH_CAUSAL_ATTN", ps, d, ps, P, p)
    BY <1>1, <2>1, LaunchWell
  <2> QED BY <2>2 DEF nt_mh_causal_attention, LaunchedWell
<1>6. Goes(s, nt_gqa_causal_attention(s, x, y, z), P, p)
  <2>1. "GQA_ATTN" \in TapeOps /\ WholePair("GQA_ATTN", ps)
    BY DEF TapeOps, WholePair
  <2>2. "GQA_ATTN" \notin Pulled
    BY DEF Pulled
  <2>3. \A d \in BOOLEAN : LaunchedWell(s, "GQA_ATTN", ps, d, <<>>, P, p)
    BY <1>1, <2>1, <2>2, LaunchWell
  <2> QED BY <2>3 DEF nt_gqa_causal_attention, LaunchedWell
<1>7. Goes(s, nt_rrpram_attention(s, x, y, z), P, p)
  <2>1. "RRPRAM_ATTN" \in TapeOps /\ WholePair("RRPRAM_ATTN", ps)
    BY DEF TapeOps, WholePair
  <2>2. "RRPRAM_ATTN" \notin Pulled
    BY DEF Pulled
  <2>3. \A d \in BOOLEAN : LaunchedWell(s, "RRPRAM_ATTN", ps, d, <<>>, P, p)
    BY <1>1, <2>1, <2>2, LaunchWell
  <2> QED BY <2>3 DEF nt_rrpram_attention, LaunchedWell
<1>8. Goes(s, nt_rrpram_lowrank_attention(s, x, y, z), P, p)
  <2>1. "RRPRAM_LR" \in TapeOps /\ WholePair("RRPRAM_LR", ps)
    BY DEF TapeOps, WholePair
  <2>2. \A d \in BOOLEAN : LaunchedWell(s, "RRPRAM_LR", ps, d, ps, P, p)
    BY <1>1, <2>1, LaunchWell
  <2> QED BY <2>2 DEF nt_rrpram_lowrank_attention, LaunchedWell
<1>9. Goes(s, nt_rrpram_broadcast_attention(s, x, y, z), P, p)
  <2>1. "RRPRAM_BCAST" \in TapeOps /\ WholePair("RRPRAM_BCAST", ps)
    BY DEF TapeOps, WholePair
  <2>2. \A d \in BOOLEAN : LaunchedWell(s, "RRPRAM_BCAST", ps, d, ps, P, p)
    BY <1>1, <2>1, LaunchWell
  <2> QED BY <2>2 DEF nt_rrpram_broadcast_attention, LaunchedWell
<1>10. Goes(s, nt_layernorm(s, x, y, z), P, p)
  <2>1. "LAYERNORM" \in TapeOps /\ WholePair("LAYERNORM", ps)
    BY DEF TapeOps, WholePair
  <2>2. "LAYERNORM" \notin Pulled
    BY DEF Pulled
  <2>3. \A d \in BOOLEAN : LaunchedWell(s, "LAYERNORM", ps, d, <<>>, P, p)
    BY <1>1, <2>1, <2>2, LaunchWell
  <2> QED BY <2>3 DEF nt_layernorm, LaunchedWell
<1>11. Goes(s, nt_seq_layernorm(s, x, y, z), P, p)
  <2>1. "SEQ_LAYERNORM" \in TapeOps /\ WholePair("SEQ_LAYERNORM", ps)
    BY DEF TapeOps, WholePair
  <2>2. "SEQ_LAYERNORM" \notin Pulled
    BY DEF Pulled
  <2>3. \A d \in BOOLEAN : LaunchedWell(s, "SEQ_LAYERNORM", ps, d, <<>>, P, p)
    BY <1>1, <2>1, <2>2, LaunchWell
  <2> QED BY <2>3 DEF nt_seq_layernorm, LaunchedWell
<1>12. Goes(s, nt_seq_cross_entropy_masked(s, x, y, z, b), P, p)
  <2>1. "SEQ_CROSSENT_MASKED" \in TapeOps /\ WholePair("SEQ_CROSSENT_MASKED", ps)
    BY DEF TapeOps, WholePair
  <2>2. \A d \in BOOLEAN : LaunchedWell(s, "SEQ_CROSSENT_MASKED", ps, d, ps, P, p)
    BY <1>1, <2>1, LaunchWell
  <2> QED BY <2>2 DEF nt_seq_cross_entropy_masked, LaunchedWell
<1> QED BY <1>2, <1>3, <1>4, <1>5, <1>6, <1>7, <1>8, <1>9, <1>10, <1>11, <1>12

\* The check of the operands (an operation on a missing entry returns 0) keeps the pass going.
LEMMA NeedingGoes ==
  ASSUME NEW s, NEW P, NEW p, Going(s, P, p), NEW ps, NEW r, 0 \notin Range(ps) => Goes(s, r, P, p)
  PROVE  Goes(s, Needing(s, ps, r), P, p)
BY FailGoes DEF Needing

\* Those that fail without an operand.
LEMMA NeedyGo ==
  ASSUME NEW s, NEW P, NEW p, Len(p) \in Nat, Going(s, P, p), NEW x \in 0..Len(s.tape), NEW y \in 0..Len(s.tape), NEW b \in BOOLEAN
  PROVE  /\ Goes(s, nt_seq_linear(s, x, y), P, p)
         /\ Goes(s, nt_add(s, x, y, b), P, p)
         /\ Goes(s, nt_scale(s, x), P, p)
<1>1. Goes(s, nt_seq_linear(s, x, y), P, p)
  <2> PICK ps : ps = <<x, y>>
    OBVIOUS
  <2>1. ps \in Tuples(Len(s.tape)) /\ Range(ps) = {x, y} /\ DOMAIN ps = {1, 2} /\ ps[1] = x /\ ps[2] = y
    <3>1. DOMAIN ps = {1, 2} /\ ps[1] = x /\ ps[2] = y
      OBVIOUS
    <3> QED BY <3>1, TwoTuple
  <2>2. "SEQ_MATVEC" \in TapeOps /\ "SEQ_MATVEC" \notin Pulled
    BY DEF TapeOps, Pulled
  <2>3. ASSUME 0 \notin Range(ps) PROVE LaunchedWell(s, "SEQ_MATVEC", ps, TRUE, <<>>, P, p)
    <3>1. WholePair("SEQ_MATVEC", ps)
      BY <2>1, <2>3 DEF WholePair
    <3> QED BY <2>1, <2>2, <3>1, LaunchWell
  <2>4. Goes(s, Needing(s, ps, Launch(s, "SEQ_MATVEC", ps, TRUE, <<>>)), P, p)
    BY <2>3, NeedingGoes DEF LaunchedWell
  <2> QED BY <2>4 DEF nt_seq_linear
<1>2. Goes(s, nt_add(s, x, y, b), P, p)
  <2> PICK ps : ps = <<x, y>>
    OBVIOUS
  <2>1. ps \in Tuples(Len(s.tape))
    BY TwoTuple
  <2>2. "ADD" \in TapeOps /\ WholePair("ADD", ps)
    BY DEF TapeOps, WholePair
  <2>3. LaunchedWell(s, "ADD", ps, b, ps, P, p)
    BY <2>1, <2>2, LaunchWell
  <2>4. Goes(s, Needing(s, ps, Form(Launch(s, "ADD", ps, b, ps), b)), P, p)
    BY <2>3, NeedingGoes DEF LaunchedWell
  <2> QED BY <2>4 DEF nt_add
<1>3. Goes(s, nt_scale(s, x), P, p)
  <2> PICK ps : ps = <<x>>
    OBVIOUS
  <2>1. ps \in Tuples(Len(s.tape))
    BY OneTuple
  <2>2. "SCALE" \in TapeOps /\ WholePair("SCALE", ps)
    BY DEF TapeOps, WholePair
  <2>3. LaunchedWell(s, "SCALE", ps, TRUE, ps, P, p)
    BY <2>1, <2>2, LaunchWell
  <2>4. Goes(s, Needing(s, ps, Launch(s, "SCALE", ps, TRUE, ps)), P, p)
    BY <2>3, NeedingGoes DEF LaunchedWell
  <2> QED BY <2>4 DEF nt_scale
<1> QED BY <1>1, <1>2, <1>3

\* Two operations of a forward pass, one after the other, make a stretch of it.
LEMMA GoesOn ==
  ASSUME NEW s, NEW r, NEW q, NEW P, NEW p, Going(s, P, p), Goes(s, r, P, p), Goes(r, q, P, p)
  PROVE  Goes(s, q, P, p)
<1>1. Len(s.tape) \in Nat /\ Len(r.tape) \in Nat /\ Len(q.tape) \in Nat
  BY ParamsLaid DEF Goes, Going, Ready, Laid
<1> QED BY <1>1 DEF Goes, Kept

\* What an operation returns names an entry, and the entries named before still are.
LEMMA GoingNumbers ==
  ASSUME NEW s, NEW r, NEW P, NEW p, Going(s, P, p), Goes(s, r, P, p)
  PROVE  /\ Going(r, P, p) /\ r.ret \in 0..Len(r.tape)
         /\ \A x \in 0..Len(s.tape) : x \in 0..Len(r.tape)
<1>1. Len(s.tape) \in Nat /\ Len(r.tape) \in Nat
  BY ParamsLaid DEF Goes, Going, Ready, Laid
<1> QED BY <1>1 DEF Goes, Going, Ready

\* nt_linear: the product, and the bias if there is one.
LEMMA LinearGoes ==
  ASSUME NEW s, NEW P, NEW p, Len(p) \in Nat, Going(s, P, p), NEW w \in 0..Len(s.tape), NEW x \in 0..Len(s.tape),
         NEW bias \in 0..Len(s.tape)
  PROVE  Goes(s, nt_linear(s, w, x, bias), P, p)
<1> PICK ps : ps = <<w, x>>
  OBVIOUS
<1> PICK y : y = Launch(s, "MATVEC", ps, FALSE, <<>>)
  OBVIOUS
<1>1. Goes(s, y, P, p)
  <2>1. ps \in Tuples(Len(s.tape))
    BY TwoTuple
  <2>2. "MATVEC" \in TapeOps /\ WholePair("MATVEC", ps) /\ "MATVEC" \notin Pulled
    BY DEF TapeOps, WholePair, Pulled
  <2>3. LaunchedWell(s, "MATVEC", ps, FALSE, <<>>, P, p)
    BY <2>1, <2>2, LaunchWell
  <2> QED BY <2>3 DEF LaunchedWell
<1>2. Going(y, P, p) /\ y.ret \in 0..Len(y.tape) /\ bias \in 0..Len(y.tape)
  BY ONLY <1>1, Going(s, P, p), bias \in 0..Len(s.tape), GoingNumbers
<1>3. Goes(y, nt_add(y, y.ret, bias, TRUE), P, p)
  BY <1>2, NeedyGo
<1>4. Goes(s, nt_add(y, y.ret, bias, TRUE), P, p)
  BY <1>1, <1>3, GoesOn
<1>5. nt_linear(s, w, x, bias) = IF bias = 0 THEN y ELSE nt_add(y, y.ret, bias, TRUE)
  BY DEF nt_linear
<1> QED BY <1>1, <1>4, <1>5

\* nt_seq_cross_entropy: uploads, then reads where it can, and records a host value.
LEMMA CrossEntropyGoes ==
  ASSUME NEW s, NEW P, NEW p, Len(p) \in Nat, Going(s, P, p), NEW x \in 0..Len(s.tape), NEW y \in 0..Len(s.tape)
  PROVE  Goes(s, nt_seq_cross_entropy(s, x, y), P, p)
<1> PICK ps : ps = <<x, y>>
  OBVIOUS
<1> PICK ids : ids = DataOf(s, ps)
  OBVIOUS
<1> PICK up : up = IF s.gpu THEN Upload(s, ids) ELSE s
  OBVIOUS
<1> PICK r : r = IF s.gpu /\ OnDevice(up, ids) /\ s.room # "none"
                   THEN DevReads(up, "forward", "SEQ_CROSSENT", ids) ELSE HostReads(up, "forward", "SEQ_CROSSENT", ids)
  OBVIOUS
<1>0. Sound(s, P) /\ Len(s.tape) \in Nat
  BY ParamsLaid DEF Going, Ready, Laid
<1>1. Sound(up, P) /\ Moved(s, up)
  BY <1>0, UploadSound, MovedNot
<1>2. Sound(r, P) /\ Moved(up, r)
  <2>1. CASE s.gpu /\ OnDevice(up, ids) /\ s.room # "none"
    <3>1. up = Upload(s, ids)
      BY <2>1
    <3>2. \A id \in ids : OnDevice(up, {id}) => Fresh(up, id, P)
      BY <1>0, <3>1, UploadSound
    <3>3. \A id \in ids : Fresh(up, id, P)
      BY <2>1, <3>2 DEF OnDevice
    <3> QED BY <1>1, <2>1, <3>3, DevReadsSound
  <2>2. CASE ~(s.gpu /\ OnDevice(up, ids) /\ s.room # "none")
    <3>1. <<"forward", "SEQ_CROSSENT">> \notin Pullers
      BY PulledForward DEF Pulled
    <3>2. r = HostReads(up, "forward", "SEQ_CROSSENT", ids)
      BY <2>2
    <3> QED BY <1>1, <3>1, <3>2, HostReadsSound
  <2> QED BY <2>1, <2>2
<1>3. Moved(s, r)
  BY <1>1, <1>2, MovedTwice
<1>4. Len(r.tape) \in Nat
  BY <1>0, <1>3 DEF Moved, Same
<1>5. Computed(r, Record(r, "SEQ_CROSSENT", ps, Authored), P, "SEQ_CROSSENT", ps, FALSE)
  BY <1>2, <1>4, RecordComputes, AuthoredKeeps
<1>6. Computed(s, Record(r, "SEQ_CROSSENT", ps, Authored), P, "SEQ_CROSSENT", ps, FALSE)
  BY <1>3, <1>5, MovedComputes
<1>7. ps \in Tuples(Len(s.tape))
  BY TwoTuple
<1>8. "SEQ_CROSSENT" \in TapeOps /\ WholePair("SEQ_CROSSENT", ps)
  BY DEF TapeOps, WholePair
<1>9. Goes(s, Record(r, "SEQ_CROSSENT", ps, Authored), P, p)
  BY <1>6, <1>7, <1>8, ComputedGoes
<1> QED BY <1>9 DEF nt_seq_cross_entropy

-----------------------------------------------------------------------------
(* Registration. *)

\* r has the parameter e more than s.
Enters(s, r, e) ==
  /\ r.ret = Len(s.tape) + 1 /\ Len(r.tape) = Len(s.tape) + 1
  /\ r.tape[Len(s.tape) + 1] = e /\ \A i \in 1..Len(s.tape) : r.tape[i] = s.tape[i]
  /\ ParamsOf(r.tape) = ParamsOf(s.tape) \cup {Len(s.tape) + 1}
  /\ Cardinality(ParamsOf(r.tape)) = Cardinality(ParamsOf(s.tape)) + 1

\* The entry of a parameter.
Enrolled(w, k, b) ==
  [op |-> "NONE", data |-> <<"weight", w>>, from |-> <<>>, param |-> TRUE, frozen |-> b, slot |-> k, alt |-> FALSE,
   sum |-> {}, applied |-> {}]

\* The two entries nt_tape_param and nt_tape_freeze_param make, as one form.
LEMMA Enrols ==
  ASSUME NEW w, NEW k
  PROVE  /\ ParamEntry(w, k) = Enrolled(w, k, FALSE)
         /\ [ParamEntry(w, k) EXCEPT !.frozen = TRUE] = Enrolled(w, k, TRUE)
<1>1. PICK e : e = ParamEntry(w, k)
  OBVIOUS
<1>2. PICK f : f = [e EXCEPT !.frozen = TRUE]
  OBVIOUS
<1>3. e = Enrolled(w, k, FALSE)
  BY <1>1 DEF ParamEntry, Entry, Enrolled
<1>4. f = Enrolled(w, k, TRUE)
  <2>1. e = [op |-> "NONE", data |-> <<"weight", w>>, from |-> <<>>, param |-> TRUE, frozen |-> FALSE, slot |-> k, alt |-> FALSE,
             sum |-> {}, applied |-> {}]
    BY <1>3 DEF Enrolled
  <2> QED BY ONLY <1>2, <2>1 DEF Enrolled
<1> QED BY ONLY <1>1, <1>2, <1>3, <1>4

\* e is an entry of w for slot k that may come at place i.
Enrolling(e, w, k, i, b) == w \in Weights /\ k \in 0..MaxParams /\ i \in Nat /\ b \in BOOLEAN /\ e = Enrolled(w, k, b)

\* A parameter's entry is well formed, carries the weight's own tensor and the slot it was given.
LEMMA ParamEntryIs ==
  ASSUME NEW w, NEW k, NEW i, NEW b, NEW e, Enrolling(e, w, k, i, b)
  PROVE  /\ e \in Entries(Weights, MaxParams) /\ Placed(e, i)
         /\ e.param /\ e.data = <<"weight", w>> /\ e.slot = k /\ e.sum = {} /\ e.applied = {} /\ e.frozen = b
<1>0. w \in Weights /\ k \in 0..MaxParams /\ i \in Nat /\ b \in BOOLEAN /\ e = Enrolled(w, k, b)
  BY DEF Enrolling
<1>1. e = [op |-> "NONE", data |-> <<"weight", w>>, from |-> <<>>, param |-> TRUE, frozen |-> b,
           slot |-> k, alt |-> FALSE, sum |-> {}, applied |-> {}]
  BY <1>0 DEF Enrolled
<1>2. PICK U : U = UNION {[1..m -> 0..MaxEntries] : m \in 0..3}
  OBVIOUS
<1>3. <<>> \in U
  <2>1. <<>> \in [1..0 -> 0..MaxEntries] /\ 0 \in 0..3
    OBVIOUS
  <2> QED BY <1>2, <2>1
<1>4. PICK D : D = {<<"weight", v>> : v \in Weights} \cup {<<"out", j>> : j \in 1..MaxEntries}
  OBVIOUS
<1>5. <<"weight", w>> \in D
  BY <1>0, <1>4
<1>6. Entries(Weights, MaxParams) =
        [op : TapeOps, data : D, from : U, param : BOOLEAN, frozen : BOOLEAN, slot : 0..MaxParams, alt : BOOLEAN,
         sum : SUBSET ((0..MaxEntries) \X (1..3)), applied : SUBSET Weights]
  BY <1>2, <1>4, Zenon DEF Entries
<1>7. "NONE" \in TapeOps
  BY DEF TapeOps
<1>8. e \in Entries(Weights, MaxParams)
  BY ONLY <1>0, <1>1, <1>3, <1>5, <1>6, <1>7
<1>9. /\ e.param /\ e.data = <<"weight", w>> /\ e.slot = k /\ e.sum = {} /\ e.applied = {} /\ e.frozen = b
      /\ e.op = "NONE" /\ e.from = <<>>
  BY ONLY <1>1
<1> QED BY ONLY <1>0, <1>8, <1>9 DEF Placed

\* The weights of the model and of the adapters, and the bounds, are what the assumptions say.
LEMMA WeightsHere == /\ Base \subseteq Weights /\ AdapterA \in Weights /\ AdapterB \in Weights
                     /\ MaxParams \in Nat \ {0} /\ MaxEntries \in Nat \ {0}
BY TapeAssumption, EntriesAssumption DEF Weights

\* The parts of nt_tape_param.
SlotAfter(s) == IF s.n < MaxParams THEN s.n + 1 ELSE 0
Slotted(s, k) ==
  IF k = 0 \/ s.slots[k].used THEN s ELSE [With(s, <<"slot", k>>, Authored) EXCEPT !.slots[k].used = TRUE]
ParamPut(s, i, f, k, e) ==
  IF i > MaxEntries THEN Fail(s) ELSE [f EXCEPT !.tape = Append(@, e), !.n = IF k = 0 THEN @ ELSE @ + 1, !.ret = i]

\* nt_tape_param in its parts: a slot, the weight's tensor, an entry at the end of the tape.
LEMMA ParamIs ==
  ASSUME NEW s, NEW w
  PROVE  nt_tape_param(s, w) =
           ParamPut(s, Len(s.tape) + 1, Slotted(s, SlotAfter(s)), SlotAfter(s), ParamEntry(w, SlotAfter(s)))
BY Zenon DEF nt_tape_param, ParamPut, Slotted, SlotAfter

CountAfter(s, k) == IF k = 0 THEN s.n ELSE s.n + 1

\* nt_tape_param: the next slot is taken, and its moments are those it had.
LEMMA ParamEnters ==
  ASSUME NEW s, NEW P, NEW p, Len(p) \in Nat, Ready(s, P, p), NEW w \in Weights, Len(s.tape) < MaxEntries,
         w = Reg(p, Cardinality(ParamsOf(s.tape)) + 1), Unfrozen(p, Cardinality(ParamsOf(s.tape)) + 1)
  PROVE  /\ Ready(nt_tape_param(s, w), P, p) /\ Kept(s, nt_tape_param(s, w))
         /\ \E k \in 0..MaxParams : Enters(s, nt_tape_param(s, w), ParamEntry(w, k))
<1> PICK N : N = Len(s.tape)
  OBVIOUS
<1> PICK i : i = N + 1
  OBVIOUS
<1> PICK k : k = SlotAfter(s)
  OBVIOUS
<1>k. k = IF s.n < MaxParams THEN s.n + 1 ELSE 0
  BY DEF SlotAfter
<1> PICK w0 : w0 = With(s, <<"slot", k>>, Authored)
  OBVIOUS
<1> PICK f : f = Slotted(s, k)
  OBVIOUS
<1>f. f = IF k = 0 \/ s.slots[k].used THEN s ELSE [w0 EXCEPT !.slots[k].used = TRUE]
  BY DEF Slotted
<1> PICK e : e = ParamEntry(w, k)
  OBVIOUS
<1> PICK r : r = nt_tape_param(s, w)
  OBVIOUS
<1>0. /\ Sound(s, P) /\ Laid(s) /\ Own(s.tape, s.n, p) /\ Blank(s) /\ Fields(s)
      /\ TapeLaid(s.tape) /\ N \in Nat /\ s.n \in 0..MaxParams /\ s.slots \in [1..MaxParams -> SlotStates]
  BY ParamsLaid DEF Ready, Laid, Sound
<1>1. k \in 0..MaxParams /\ MaxParams \in Nat /\ (k # 0 => k \in 1..MaxParams /\ k = s.n + 1)
  BY <1>0, <1>k, WeightsHere
<1>2. /\ Fields(f) /\ Sound(f, P) /\ f.tape = s.tape /\ f.n = s.n /\ f.gpu = s.gpu /\ f.room = s.room
      /\ f.slots \in [1..MaxParams -> SlotStates] /\ DOMAIN s.mem \subseteq DOMAIN f.mem
      /\ DOMAIN f.mem \subseteq DOMAIN s.mem \cup {<<"slot", k>>}
      /\ \A j \in 1..MaxParams : f.slots[j].hist = s.slots[j].hist /\ f.slots[j].acc = s.slots[j].acc
  <2>1. CASE k = 0 \/ s.slots[k].used
    <3>1. f = s
      BY <1>f, <2>1
    <3> QED BY <1>0, <3>1
  <2>2. CASE ~(k = 0 \/ s.slots[k].used)
    <3>1. /\ Fields(w0) /\ Same(s, w0) /\ Sound(w0, P) /\ DOMAIN w0.mem = DOMAIN s.mem \cup {<<"slot", k>>}
      BY <1>0, WithFields, WithSound, AuthoredKeeps
    <3>2. PICK sl : sl = [w0.slots EXCEPT ![k].used = TRUE]
      OBVIOUS
    <3>3. w0.slots = s.slots /\ w0.tape = s.tape /\ w0.n = s.n /\ w0.gpu = s.gpu /\ w0.room = s.room
      BY <3>1 DEF Same
    <3>4. f = [w0 EXCEPT !.slots = sl]
      BY <1>f, <2>2, <3>2
    <3>5. /\ Fields(f) /\ f.slots = sl /\ f.tape = w0.tape /\ f.n = w0.n /\ f.gpu = w0.gpu /\ f.room = w0.room
          /\ f.mem = w0.mem /\ f.misread = w0.misread
      BY ONLY <3>1, <3>4 DEF Fields
    <3>6. /\ sl \in [1..MaxParams -> SlotStates]
          /\ \A j \in 1..MaxParams : sl[j].hist = s.slots[j].hist /\ sl[j].acc = s.slots[j].acc
      <4>1. k \in 1..MaxParams
        BY <1>1, <2>2
      <4>2. PICK v : v = [s.slots[k] EXCEPT !.used = TRUE]
        OBVIOUS
      <4>3. v \in SlotStates /\ v.hist = s.slots[k].hist /\ v.acc = s.slots[k].acc
        <5>1. s.slots[k] \in SlotStates
          BY <1>0, <4>1
        <5> QED BY ONLY <4>2, <5>1 DEF SlotStates
      <4>4. sl = [s.slots EXCEPT ![k] = v]
        BY <3>2, <3>3, <4>2
      <4> QED BY ONLY <1>0, <4>1, <4>3, <4>4
    <3>7. Sound(f, P)
      BY <3>1, <3>5 DEF Sound, MirrorsIn, Latest
    <3> QED BY <3>1, <3>3, <3>5, <3>6, <3>7
  <2> QED BY <2>1, <2>2
<1> PICK m : m = CountAfter(s, k)
  OBVIOUS
<1>m. m = IF k = 0 THEN s.n ELSE s.n + 1
  BY DEF CountAfter
<1>3. r = [f EXCEPT !.tape = Append(@, e), !.n = m, !.ret = i]
  <2>1. ~(i > MaxEntries)
    BY <1>0, WeightsHere
  <2>2. f.n = s.n
    BY <1>2
  <2>3. r = ParamPut(s, i, f, k, e)
    BY ParamIs
  <2>4. r = [f EXCEPT !.tape = Append(@, e), !.n = IF k = 0 THEN @ ELSE @ + 1, !.ret = i]
    BY ONLY <2>1, <2>3 DEF ParamPut
  <2> QED BY ONLY <1>m, <2>2, <2>4
<1>4. /\ Fields(r) /\ r.tape = Append(s.tape, e) /\ r.n = m /\ r.ret = i /\ r.mem = f.mem /\ r.misread = f.misread
      /\ r.gpu = f.gpu /\ r.room = f.room /\ r.slots = f.slots
  <2>1. f.tape = s.tape /\ Fields(f)
    BY <1>2
  <2> QED BY ONLY <1>3, <2>1 DEF Fields
<1>5. Sound(r, P)
  BY <1>2, <1>4 DEF Sound, MirrorsIn, Latest
<1>6. e = Enrolled(w, k, FALSE)
  BY Enrols
<1>7. /\ e \in Entries(Weights, MaxParams) /\ Placed(e, i)
      /\ e.param /\ e.data = <<"weight", w>> /\ e.slot = k /\ e.sum = {} /\ e.applied = {}
  <2>1. i \in Nat
    BY <1>0
  <2>2. PICK b : b = FALSE
    OBVIOUS
  <2>3. Enrolling(e, w, k, i, b)
    BY <1>1, <1>6, <2>1, <2>2 DEF Enrolling
  <2> QED BY ONLY <2>3, ParamEntryIs
<1>8. /\ TapeLaid(r.tape) /\ Len(r.tape) = i /\ r.tape[i] = e /\ \A j \in 1..N : r.tape[j] = s.tape[j]
      /\ DOMAIN s.tape = 1..N /\ DOMAIN r.tape = 1..i
  <2>1. TapeLaid(s.tape) /\ Len(s.tape) < MaxEntries /\ i = Len(s.tape) + 1
    BY <1>0
  <2>2. Placed(e, Len(s.tape) + 1) /\ e \in Entries(Weights, MaxParams) /\ N = Len(s.tape) /\ r.tape = Append(s.tape, e)
    BY <1>4, <1>7, <2>1
  <2> QED BY ONLY <2>1, <2>2, AppendLaid
<1>9. /\ ParamsOf(r.tape) = ParamsOf(s.tape) \cup {i} /\ Own(r.tape, r.n, p)
      /\ Cardinality(ParamsOf(r.tape)) = Cardinality(ParamsOf(s.tape)) + 1
  <2>1. \/ s.n < MaxParams /\ e.slot = s.n + 1 /\ m = s.n + 1
        \/ s.n = MaxParams /\ e.slot = 0 /\ m = s.n
    BY <1>0, <1>1, <1>7, <1>k, <1>m
  <2>2. m \in 0..MaxParams
    BY <1>0, <1>1, <2>1
  <2>3. /\ TapeLaid(s.tape) /\ Len(s.tape) < MaxEntries /\ i = Len(s.tape) + 1
        /\ e.data = <<"weight", Reg(p, Cardinality(ParamsOf(s.tape)) + 1)>>
        /\ Unfrozen(p, Cardinality(ParamsOf(s.tape)) + 1)
    BY <1>0, <1>7
  <2>4. Placed(e, Len(s.tape) + 1) /\ e \in Entries(Weights, MaxParams) /\ e.param
    BY <1>7, <2>3
  <2>5. s.n \in 0..MaxParams /\ Own(s.tape, s.n, p) /\ Len(p) \in Nat
    BY <1>0
  <2>6. ParamsOf(Append(s.tape, e)) = ParamsOf(s.tape) \cup {i} /\ Own(Append(s.tape, e), m, p)
        /\ Cardinality(ParamsOf(Append(s.tape, e))) = Cardinality(ParamsOf(s.tape)) + 1
    BY ONLY <2>1, <2>2, <2>3, <2>4, <2>5, OwnNext
  <2> QED BY <1>4, <2>6
<1>10. Laid(r)
  <2>1. m \in 0..MaxParams
    BY <1>0, <1>1, <1>m
  <2> QED BY <1>0, <1>2, <1>4, <1>8, <2>1 DEF Laid
<1>11. Blank(r)
  <2>1. \A j : <<"grad", j>> # <<"slot", k>>
    OBVIOUS
  <2>2. ASSUME NEW j PROVE <<"grad", j>> \notin DOMAIN r.mem
    <3>1. <<"grad", j>> \notin DOMAIN s.mem
      BY <1>0 DEF Blank
    <3> QED BY <1>2, <1>4, <2>1, <3>1
  <2>3. ASSUME NEW j \in DOMAIN r.tape PROVE r.tape[j].sum = {} /\ r.tape[j].applied = {}
    <3>1. j = i \/ j \in 1..N
      BY <1>0, <1>8
    <3> QED BY <1>0, <1>7, <1>8, <3>1 DEF Blank
  <2> QED BY <2>2, <2>3 DEF Blank
<1>12. r.ret \in 0..Len(r.tape)
  BY <1>0, <1>4, <1>8
<1>13. Ready(r, P, p) /\ Kept(s, r)
  BY <1>2, <1>4, <1>5, <1>9, <1>10, <1>11, <1>12 DEF Ready, Kept
<1>14. Enters(s, r, e)
  BY <1>4, <1>8, <1>9 DEF Enters
<1> QED BY <1>1, <1>13, <1>14

\* A registration that fails leaves the tape ready for the next.
LEMMA ReadyFails ==
  ASSUME NEW s, NEW P, NEW p, Ready(s, P, p)
  PROVE  Ready(Fail(s), P, p) /\ Kept(s, Fail(s)) /\ Fail(s).tape = s.tape /\ Fail(s).ret = 0
<1>1. Fields(s) /\ Len(s.tape) \in Nat
  BY ParamsLaid DEF Ready, Sound, Laid
<1> PICK r : r = Fail(s)
  OBVIOUS
<1>2. /\ Fields(r) /\ r.ret = 0 /\ r.misread = s.misread /\ r.mem = s.mem
      /\ r.tape = s.tape /\ r.gpu = s.gpu /\ r.room = s.room /\ r.n = s.n /\ r.slots = s.slots
  BY <1>1, FailFields, Zenon
<1> QED BY <1>1, <1>2 DEF Ready, Sound, MirrorsIn, Latest, Laid, Blank, Kept

\* A full tape takes no parameter.
LEMMA ParamFails ==
  ASSUME NEW s, NEW P, NEW p, Ready(s, P, p), Len(s.tape) = MaxEntries, NEW w
  PROVE  nt_tape_param(s, w) = Fail(s)
<1>1. Len(s.tape) + 1 > MaxEntries
  BY WeightsHere
<1> QED BY <1>1 DEF nt_tape_param

\* nt_tape_param_frozen: an entry without a slot, where the program has a frozen one.
LEMMA FrozenEnters ==
  ASSUME NEW s, NEW P, NEW p, Len(p) \in Nat, Ready(s, P, p), NEW w \in Weights, Len(s.tape) < MaxEntries,
         w = Reg(p, Cardinality(ParamsOf(s.tape)) + 1), ~Unfrozen(p, Cardinality(ParamsOf(s.tape)) + 1)
  PROVE  /\ Ready(nt_tape_param_frozen(s, w), P, p) /\ Kept(s, nt_tape_param_frozen(s, w))
         /\ \E e : Enters(s, nt_tape_param_frozen(s, w), e)
<1> PICK N : N = Len(s.tape)
  OBVIOUS
<1> PICK i : i = N + 1
  OBVIOUS
<1> PICK e : e = Enrolled(w, 0, TRUE)
  OBVIOUS
<1> PICK r : r = nt_tape_param_frozen(s, w)
  OBVIOUS
<1>0. /\ Sound(s, P) /\ Laid(s) /\ Own(s.tape, s.n, p) /\ Blank(s) /\ Fields(s)
      /\ TapeLaid(s.tape) /\ N \in Nat /\ s.n \in 0..MaxParams /\ s.slots \in [1..MaxParams -> SlotStates]
  BY ParamsLaid DEF Ready, Laid, Sound
<1>1. r = [s EXCEPT !.tape = Append(@, e), !.ret = i]
  <2>1. ~(i > MaxEntries)
    BY <1>0, WeightsHere
  <2>2. [ParamEntry(w, 0) EXCEPT !.frozen = TRUE] = e
    BY Enrols
  <2> QED BY <2>1, <2>2 DEF nt_tape_param_frozen
<1>2. /\ Fields(r) /\ r.tape = Append(s.tape, e) /\ r.n = s.n /\ r.ret = i /\ r.mem = s.mem /\ r.misread = s.misread
      /\ r.gpu = s.gpu /\ r.room = s.room /\ r.slots = s.slots
  BY ONLY <1>0, <1>1 DEF Fields
<1>3. Sound(r, P)
  BY <1>0, <1>2 DEF Sound, MirrorsIn, Latest
<1>4. /\ e \in Entries(Weights, MaxParams) /\ Placed(e, i)
      /\ e.param /\ e.data = <<"weight", w>> /\ e.slot = 0 /\ e.sum = {} /\ e.applied = {}
  <2>1. i \in Nat /\ w \in Weights
    BY <1>0
  <2>2. PICK b : b = TRUE
    OBVIOUS
  <2>3. PICK k : k = 0
    OBVIOUS
  <2>4. k \in 0..MaxParams
    BY <2>3, WeightsHere
  <2>5. Enrolling(e, w, k, i, b)
    BY <2>1, <2>2, <2>3, <2>4 DEF Enrolling
  <2>6. /\ e \in Entries(Weights, MaxParams) /\ Placed(e, i)
        /\ e.param /\ e.data = <<"weight", w>> /\ e.slot = k /\ e.sum = {} /\ e.applied = {}
    BY ONLY <2>5, ParamEntryIs
  <2> QED BY <2>3, <2>6
<1>5. /\ TapeLaid(s.tape) /\ Len(s.tape) < MaxEntries /\ i = Len(s.tape) + 1
      /\ Placed(e, Len(s.tape) + 1) /\ e \in Entries(Weights, MaxParams) /\ N = Len(s.tape)
  BY <1>0, <1>4
<1>6. /\ TapeLaid(r.tape) /\ Len(r.tape) = i /\ r.tape[i] = e /\ \A j \in 1..N : r.tape[j] = s.tape[j]
      /\ DOMAIN s.tape = 1..N /\ DOMAIN r.tape = 1..i
  BY ONLY <1>2, <1>5, AppendLaid
<1>7. /\ ParamsOf(r.tape) = ParamsOf(s.tape) \cup {i} /\ Own(r.tape, r.n, p)
      /\ Cardinality(ParamsOf(r.tape)) = Cardinality(ParamsOf(s.tape)) + 1
  <2>1. /\ e.data = <<"weight", Reg(p, Cardinality(ParamsOf(s.tape)) + 1)>> /\ e.param /\ e.slot = 0
        /\ ~Unfrozen(p, Cardinality(ParamsOf(s.tape)) + 1)
    BY <1>4
  <2>2. s.n \in 0..MaxParams /\ Own(s.tape, s.n, p) /\ Len(p) \in Nat
    BY <1>0
  <2>3. PICK m : m = s.n
    OBVIOUS
  <2>4. ParamsOf(Append(s.tape, e)) = ParamsOf(s.tape) \cup {i} /\ Own(Append(s.tape, e), m, p)
        /\ Cardinality(ParamsOf(Append(s.tape, e))) = Cardinality(ParamsOf(s.tape)) + 1
    BY ONLY <1>5, <2>1, <2>2, <2>3, OwnNext
  <2> QED BY <1>2, <2>3, <2>4
<1>8. Laid(r)
  BY <1>0, <1>2, <1>6 DEF Laid
<1>9. Blank(r)
  <2>1. \A j : <<"grad", j>> \notin DOMAIN r.mem
    BY <1>0, <1>2 DEF Blank
  <2>2. ASSUME NEW j \in DOMAIN r.tape PROVE r.tape[j].sum = {} /\ r.tape[j].applied = {}
    <3>1. j = i \/ j \in 1..N
      BY <1>0, <1>6
    <3> QED BY <1>0, <1>4, <1>6, <3>1 DEF Blank
  <2> QED BY <2>1, <2>2 DEF Blank
<1>10. r.ret \in 0..Len(r.tape)
  BY <1>0, <1>2, <1>6
<1>11. Ready(r, P, p) /\ Kept(s, r)
  BY <1>2, <1>3, <1>7, <1>8, <1>9, <1>10 DEF Ready, Kept
<1>12. Enters(s, r, e)
  BY <1>2, <1>6, <1>7 DEF Enters
<1> QED BY <1>11, <1>12

\* nt_tape_freeze_param of a parameter just registered.
LEMMA FreezeReady ==
  ASSUME NEW s, NEW P, NEW p, Ready(s, P, p), NEW i \in DOMAIN s.tape, s.tape[i].param
  PROVE  /\ Ready(nt_tape_freeze_param(s, i), P, p) /\ Kept(s, nt_tape_freeze_param(s, i))
         /\ Len(nt_tape_freeze_param(s, i).tape) = Len(s.tape)
         /\ ParamsOf(nt_tape_freeze_param(s, i).tape) = ParamsOf(s.tape)
<1> PICK r : r = nt_tape_freeze_param(s, i)
  OBVIOUS
<1> PICK sl : sl = [k \in 1..MaxParams |-> IF k = i /\ k <= s.n THEN [s.slots[k] EXCEPT !.frozen = TRUE] ELSE s.slots[k]]
  OBVIOUS
<1> PICK g : g = [s.tape[i] EXCEPT !.frozen = TRUE]
  OBVIOUS
<1> PICK t : t = [j \in DOMAIN s.tape |-> IF j = i THEN g ELSE s.tape[j]]
  OBVIOUS
<1>0. /\ Sound(s, P) /\ Laid(s) /\ Own(s.tape, s.n, p) /\ Blank(s) /\ Fields(s) /\ TapeLaid(s.tape)
      /\ s.slots \in [1..MaxParams -> SlotStates]
      /\ Len(s.tape) \in Nat /\ DOMAIN s.tape = 1..Len(s.tape) /\ Len(s.tape) <= MaxEntries
      /\ \A j \in DOMAIN s.tape : s.tape[j] \in Entries(Weights, MaxParams) /\ Placed(s.tape[j], j)
  BY ParamsLaid DEF Ready, Laid, Sound, TapeLaid
<1>1. r = [s EXCEPT !.slots = sl, !.tape = t]
  BY DEF nt_tape_freeze_param
<1>2. /\ Fields(r) /\ r.tape = t /\ r.n = s.n /\ r.ret = s.ret /\ r.mem = s.mem /\ r.misread = s.misread
      /\ r.gpu = s.gpu /\ r.room = s.room /\ r.slots = sl
  BY ONLY <1>0, <1>1 DEF Fields
<1>3. Sound(r, P)
  BY <1>0, <1>2 DEF Sound, MirrorsIn, Latest
<1>4. /\ sl \in [1..MaxParams -> SlotStates]
      /\ \A j \in 1..MaxParams : sl[j].hist = s.slots[j].hist /\ sl[j].acc = s.slots[j].acc
  <2>1. ASSUME NEW k \in 1..MaxParams PROVE sl[k] \in SlotStates /\ sl[k].hist = s.slots[k].hist /\ sl[k].acc = s.slots[k].acc
    <3>1. s.slots[k] \in SlotStates
      BY <1>0
    <3>2. PICK v : v = [s.slots[k] EXCEPT !.frozen = TRUE]
      OBVIOUS
    <3>3. v \in SlotStates /\ v.hist = s.slots[k].hist /\ v.acc = s.slots[k].acc
      BY ONLY <3>1, <3>2 DEF SlotStates
    <3>4. sl[k] = v \/ sl[k] = s.slots[k]
      BY <3>2
    <3> QED BY <3>1, <3>3, <3>4
  <2> QED BY <2>1
<1>5. /\ g \in Entries(Weights, MaxParams) /\ Placed(g, i)
      /\ g.param = s.tape[i].param /\ g.data = s.tape[i].data /\ g.slot = s.tape[i].slot
      /\ g.sum = s.tape[i].sum /\ g.applied = s.tape[i].applied
  <2>1. PICK e : e = s.tape[i]
    OBVIOUS
  <2>2. e \in Entries(Weights, MaxParams) /\ Placed(e, i) /\ e.param
    BY <1>0, <2>1
  <2>3. g = [e EXCEPT !.frozen = TRUE]
    BY <2>1
  <2>4. /\ g \in Entries(Weights, MaxParams) /\ g.param = e.param /\ g.data = e.data /\ g.slot = e.slot
        /\ g.sum = e.sum /\ g.applied = e.applied /\ g.op = e.op /\ g.from = e.from
    BY ONLY <2>2, <2>3 DEF Entries
  <2>5. Placed(g, i)
    BY ONLY <2>2, <2>4 DEF Placed
  <2> QED BY <2>1, <2>4, <2>5
<1>6. /\ DOMAIN t = DOMAIN s.tape
      /\ \A j \in DOMAIN s.tape : /\ t[j] \in Entries(Weights, MaxParams) /\ Placed(t[j], j)
                                  /\ t[j].param = s.tape[j].param /\ t[j].data = s.tape[j].data /\ t[j].slot = s.tape[j].slot
                                  /\ t[j].sum = s.tape[j].sum /\ t[j].applied = s.tape[j].applied
  <2>1. DOMAIN t = DOMAIN s.tape /\ t[i] = g /\ \A j \in DOMAIN s.tape : j # i => t[j] = s.tape[j]
    OBVIOUS
  <2> QED BY <1>0, <1>5, <2>1
<1>7. TapeLaid(t) /\ Len(t) = Len(s.tape)
  <2>1. t \in Seq(Entries(Weights, MaxParams)) /\ Len(t) = Len(s.tape)
    <3>1. t = [j \in 1..Len(s.tape) |-> t[j]]
      BY <1>0
    <3>2. \A j \in 1..Len(s.tape) : t[j] \in Entries(Weights, MaxParams)
      BY <1>0, <1>6
    <3>3. Len(s.tape) \in Nat
      BY <1>0
    <3> QED BY ONLY <3>1, <3>2, <3>3, IsSeq
  <2> QED BY <1>0, <1>6, <2>1 DEF TapeLaid
<1>8. Own(t, s.n, p) /\ ParamsOf(t) = ParamsOf(s.tape)
  BY <1>0, <1>6, OwnSame, ParamsSame, Zenon
<1>9. Laid(r) /\ Blank(r)
  <2>1. Laid(r)
    BY <1>0, <1>2, <1>4, <1>7 DEF Laid
  <2>2. \A j \in DOMAIN r.tape : r.tape[j].sum = {} /\ r.tape[j].applied = {}
    <3>1. \A j \in DOMAIN s.tape : s.tape[j].sum = {} /\ s.tape[j].applied = {}
      BY <1>0 DEF Blank
    <3>2. r.tape = t
      BY <1>2
    <3> QED BY ONLY <1>6, <3>1, <3>2
  <2> QED BY <1>0, <1>2, <2>1, <2>2 DEF Blank
<1>10. r.ret \in 0..Len(r.tape)
  BY <1>2, <1>7 DEF Ready
<1> QED BY <1>2, <1>3, <1>4, <1>7, <1>8, <1>9, <1>10 DEF Ready, Kept

\* Entering a parameter behind the input.
LEMMA EntersBehind ==
  ASSUME NEW s, NEW r, NEW e, NEW p, Len(p) \in Nat, Len(s.tape) \in Nat, HasInput(s.tape, p), Enters(s, r, e)
  PROVE  HasInput(r.tape, p) /\ Len(r.tape) = Len(s.tape) + 1 /\ r.ret = Len(s.tape) + 1
<1>1. Len(p) + 1 \in 1..Len(s.tape)
  BY DEF HasInput
<1> QED BY <1>1 DEF HasInput, Enters

\* The adapters come in turn.
LEMMA RegTurns ==
  ASSUME NEW p, Len(p) \in Nat, NEW k \in Nat
  PROVE  /\ Reg(p, Len(p) + 2 * k + 1) = AdapterA /\ Unfrozen(p, Len(p) + 2 * k + 1)
         /\ Reg(p, Len(p) + 2 * k + 2) = AdapterB /\ Unfrozen(p, Len(p) + 2 * k + 2)
<1>1. (2 * k + 1) % 2 = 1 /\ (2 * k + 2) % 2 = 0
  OBVIOUS
<1>2. PICK a : a = Len(p) + 2 * k + 1
  OBVIOUS
<1>3. PICK b : b = Len(p) + 2 * k + 2
  OBVIOUS
<1>4. ~(a <= Len(p)) /\ ~(b <= Len(p)) /\ a - Len(p) = 2 * k + 1 /\ b - Len(p) = 2 * k + 2
  BY <1>2, <1>3
<1>5. (a - Len(p)) % 2 = 1 /\ (b - Len(p)) % 2 = 0
  BY <1>1, <1>4
<1>6. Reg(p, a) = AdapterA /\ Unfrozen(p, a) /\ Reg(p, b) = AdapterB /\ Unfrozen(p, b)
  BY ONLY <1>4, <1>5 DEF Reg, Unfrozen
<1> QED BY <1>2, <1>3, <1>6

\* nt_lora_forward: both adapters are registered before anything is computed,
\* or the tape is full.
LEMMA LoraGoes ==
  ASSUME NEW s, NEW P, NEW p, Len(p) \in Nat, Going(s, P, p), NEW w \in 0..Len(s.tape), NEW x \in 0..Len(s.tape)
  PROVE  Goes(s, nt_lora_forward(s, w, x), P, p)
<1> PICK a : a = nt_tape_param(s, AdapterA)
  OBVIOUS
<1> PICK b : b = nt_tape_param(a, AdapterB)
  OBVIOUS
<1> PICK r : r = nt_lora_forward(s, w, x)
  OBVIOUS
<1>0. /\ Ready(s, P, p) /\ Paired(s.tape, p) /\ HasInput(s.tape, p)
      /\ Len(s.tape) \in Nat /\ Len(s.tape) <= MaxEntries /\ MaxEntries \in Nat \ {0}
  BY ParamsLaid, WeightsHere DEF Going, Ready, Laid, TapeLaid
<1>1. CASE Len(s.tape) = MaxEntries
  <2>1. a = Fail(s) /\ Ready(a, P, p) /\ Kept(s, a) /\ a.tape = s.tape /\ a.ret = 0
    BY <1>0, <1>1, ParamFails, ReadyFails
  <2>2. b = Fail(a) /\ Ready(b, P, p) /\ Kept(a, b) /\ b.tape = s.tape /\ b.ret = 0
    BY <1>1, <2>1, ParamFails, ReadyFails
  <2>3. r = Fail(b)
    BY <2>1 DEF nt_lora_forward, Fail
  <2>4. Ready(r, P, p) /\ Kept(b, r) /\ r.tape = s.tape
    BY <2>2, <2>3, ReadyFails
  <2> QED BY <1>0, <2>1, <2>2, <2>4 DEF Goes, Going, Kept
<1>2. CASE Len(s.tape) < MaxEntries
  <2>1. PICK k \in Nat : Cardinality(ParamsOf(s.tape)) = Len(p) + 2 * k
    BY <1>0, <1>2 DEF Paired
  <2>2. Cardinality(ParamsOf(s.tape)) + 1 = Len(p) + 2 * k + 1 /\ Cardinality(ParamsOf(s.tape)) + 2 = Len(p) + 2 * k + 2
    BY <2>1
  <2>3. AdapterA = Reg(p, Cardinality(ParamsOf(s.tape)) + 1) /\ Unfrozen(p, Cardinality(ParamsOf(s.tape)) + 1)
    BY <2>2, RegTurns
  <2>4. /\ Ready(a, P, p) /\ Kept(s, a)
        /\ \E j \in 0..MaxParams : Enters(s, a, ParamEntry(AdapterA, j))
    BY <1>0, <1>2, <2>3, ParamEnters, WeightsHere
  <2>5. PICK e : Enters(s, a, e)
    BY <2>4
  <2>6. /\ HasInput(a.tape, p) /\ Len(a.tape) = Len(s.tape) + 1 /\ a.ret = Len(s.tape) + 1 /\ a.ret # 0
        /\ Cardinality(ParamsOf(a.tape)) = Cardinality(ParamsOf(s.tape)) + 1
    <3>1. HasInput(a.tape, p) /\ Len(a.tape) = Len(s.tape) + 1 /\ a.ret = Len(s.tape) + 1
      BY <1>0, <2>5, EntersBehind
    <3> QED BY <1>0, <2>5, <3>1 DEF Enters
  <2>7. CASE Len(a.tape) = MaxEntries
    <3>1. b = Fail(a) /\ Ready(b, P, p) /\ Kept(a, b) /\ b.tape = a.tape /\ b.ret = 0
      BY <2>4, <2>7, ParamFails, ReadyFails
    <3>2. r = Fail(b)
      BY <3>1 DEF nt_lora_forward, Fail
    <3>3. Ready(r, P, p) /\ Kept(b, r) /\ r.tape = a.tape
      BY <3>1, <3>2, ReadyFails
    <3>4. Going(r, P, p)
      BY <2>6, <2>7, <3>3 DEF Going, Paired
    <3>5. Kept(s, r)
      BY <2>4, <3>1, <3>3 DEF Kept
    <3>6. Len(s.tape) <= Len(r.tape)
      <4>1. Len(r.tape) = Len(s.tape) + 1 /\ Len(s.tape) \in Nat
        BY <1>0, <2>6, <3>3, Zenon
      <4> QED BY ONLY <4>1
    <3> QED BY <3>4, <3>5, <3>6 DEF Goes
  <2>8. CASE Len(a.tape) # MaxEntries
    <3>1. Len(a.tape) < MaxEntries /\ Len(a.tape) \in Nat
      BY <1>0, <1>2, <2>6, <2>8
    <3>2. /\ AdapterB = Reg(p, Cardinality(ParamsOf(a.tape)) + 1) /\ Unfrozen(p, Cardinality(ParamsOf(a.tape)) + 1)
          /\ Cardinality(ParamsOf(a.tape)) + 1 = Len(p) + 2 * (k + 1)
      <4>1. Cardinality(ParamsOf(a.tape)) + 1 = Len(p) + 2 * k + 2 /\ Len(p) + 2 * k + 2 = Len(p) + 2 * (k + 1)
        BY <2>1, <2>6
      <4> QED BY <4>1, RegTurns
    <3>3. /\ Ready(b, P, p) /\ Kept(a, b)
          /\ \E j \in 0..MaxParams : Enters(a, b, ParamEntry(AdapterB, j))
      BY <2>4, <3>1, <3>2, ParamEnters, WeightsHere
    <3>4. PICK f : Enters(a, b, f)
      BY <3>3
    <3>5. HasInput(b.tape, p) /\ Len(b.tape) = Len(a.tape) + 1 /\ b.ret = Len(a.tape) + 1 /\ b.ret # 0
      <4>1. HasInput(b.tape, p) /\ Len(b.tape) = Len(a.tape) + 1 /\ b.ret = Len(a.tape) + 1
        BY <2>6, <3>1, <3>4, EntersBehind
      <4> QED BY <3>1, <4>1
    <3>6. Paired(b.tape, p)
      <4>1. Cardinality(ParamsOf(b.tape)) = Len(p) + 2 * (k + 1) /\ k + 1 \in Nat
        BY <3>2, <3>4 DEF Enters
      <4> QED BY <4>1 DEF Paired
    <3>7. Goes(s, b, P, p) /\ Going(b, P, p)
      <4>1. Len(s.tape) <= Len(b.tape)
        BY <1>0, <2>6, <3>5
      <4> QED BY <2>4, <3>3, <3>5, <3>6, <4>1 DEF Goes, Going, Kept
    <3>8. a.ret \in 0..Len(b.tape) /\ b.ret \in 0..Len(b.tape) /\ w \in 0..Len(b.tape) /\ x \in 0..Len(b.tape)
      BY <1>0, <2>6, <3>5
    <3> PICK wx : wx = nt_seq_linear(b, w, x)
      OBVIOUS
    <3> PICK ax : ax = nt_seq_linear(wx, a.ret, x)
      OBVIOUS
    <3> PICK bax : bax = nt_seq_linear(ax, b.ret, ax.ret)
      OBVIOUS
    <3> PICK sc : sc = nt_scale(bax, bax.ret)
      OBVIOUS
    <3> PICK ad : ad = nt_add(sc, wx.ret, sc.ret, TRUE)
      OBVIOUS
    <3>9. Goes(b, wx, P, p)
      BY <3>7, <3>8, NeedyGo
    <3>10. Going(wx, P, p) /\ wx.ret \in 0..Len(wx.tape) /\ \A z \in 0..Len(b.tape) : z \in 0..Len(wx.tape)
      BY <3>7, <3>9, GoingNumbers
    <3>11. Goes(wx, ax, P, p)
      BY <3>8, <3>10, NeedyGo
    <3>12. Going(ax, P, p) /\ ax.ret \in 0..Len(ax.tape) /\ \A z \in 0..Len(wx.tape) : z \in 0..Len(ax.tape)
      BY <3>10, <3>11, GoingNumbers
    <3>13. Goes(ax, bax, P, p)
      BY <3>8, <3>10, <3>12, NeedyGo, Zenon
    <3>14. Going(bax, P, p) /\ bax.ret \in 0..Len(bax.tape) /\ \A z \in 0..Len(ax.tape) : z \in 0..Len(bax.tape)
      BY <3>12, <3>13, GoingNumbers
    <3>15. Goes(bax, sc, P, p)
      BY ONLY <3>14, Len(p) \in Nat, sc = nt_scale(bax, bax.ret), NeedyGo
    <3>16. Going(sc, P, p) /\ sc.ret \in 0..Len(sc.tape) /\ \A z \in 0..Len(bax.tape) : z \in 0..Len(sc.tape)
      BY ONLY <3>14, <3>15, GoingNumbers
    <3>17. Goes(sc, ad, P, p)
      <4>1. wx.ret \in 0..Len(sc.tape)
        BY ONLY <3>10, <3>12, <3>14, <3>16, Zenon
      <4> QED BY ONLY <3>16, <4>1, Len(p) \in Nat, ad = nt_add(sc, wx.ret, sc.ret, TRUE), NeedyGo
    <3>18. Goes(s, wx, P, p) /\ Goes(s, ax, P, p) /\ Goes(s, bax, P, p) /\ Goes(s, sc, P, p) /\ Goes(s, ad, P, p)
      <4>1. Goes(s, wx, P, p)
        BY ONLY <3>7, <3>9, Going(s, P, p), GoesOn
      <4>2. Goes(s, ax, P, p)
        BY ONLY <3>11, <4>1, Going(s, P, p), GoesOn
      <4>3. Goes(s, bax, P, p)
        BY ONLY <3>13, <4>2, Going(s, P, p), GoesOn
      <4>4. Goes(s, sc, P, p)
        BY ONLY <3>15, <4>3, Going(s, P, p), GoesOn
      <4>5. Goes(s, ad, P, p)
        BY ONLY <3>17, <4>4, Going(s, P, p), GoesOn
      <4> QED BY <4>1, <4>2, <4>3, <4>4, <4>5, Zenon
    <3>19. r = IF wx.ret = 0 THEN wx ELSE IF ax.ret = 0 THEN ax
               ELSE IF bax.ret = 0 THEN bax ELSE IF sc.ret = 0 THEN sc ELSE ad
      BY <2>6, <3>5, Zenon DEF nt_lora_forward
    <3> QED BY <3>18, <3>19, Zenon
  <2> QED BY <2>7, <2>8
<1> QED BY <1>0, <1>1, <1>2

-----------------------------------------------------------------------------
(* The backward pass. *)

\* A write on either side, with its mark.
PutHost(s, ids) ==
  [s EXCEPT !.mem = [id \in DOMAIN s.mem |-> IF id \in ids THEN MarkCpuDirty(HostWritten(s.mem[id])) ELSE s.mem[id]]]
PutDev(s, ids) ==
  [s EXCEPT !.mem = [id \in DOMAIN s.mem |-> IF id \in ids THEN MarkGpuFresh(DevWritten(s.mem[id])) ELSE s.mem[id]]]

\* Tensors written on the host, and marked so, are truthful mirrors.
LEMMA PutHostSound ==
  ASSUME NEW s, NEW P, Sound(s, P), NEW ids
  PROVE  /\ Sound(PutHost(s, ids), P) /\ Same(s, PutHost(s, ids)) /\ DOMAIN PutHost(s, ids).mem = DOMAIN s.mem
<1> PICK m : m = [id \in DOMAIN s.mem |-> IF id \in ids THEN MarkCpuDirty(HostWritten(s.mem[id])) ELSE s.mem[id]]
  OBVIOUS
<1> PICK u : u = PutHost(s, ids)
  OBVIOUS
<1>0. Fields(s) /\ MirrorsIn(s, P) /\ Latest(s, P) /\ s.gpu \in BOOLEAN /\ s.room \in Rooms
  BY DEF Sound
<1>1. u = [s EXCEPT !.mem = m]
  BY DEF PutHost
<1>2. Fields(u) /\ Same(s, u) /\ u.misread = s.misread /\ u.mem = m
  BY ONLY <1>0, <1>1 DEF Fields, Same
<1>3. \A id \in DOMAIN s.mem : m[id] \in Mirrors /\ (id \notin P => Truthful(m[id])) /\ (m[id].dirty => s.gpu)
  BY <1>0, WrittenKeeps DEF MirrorsIn
<1>4. Sound(u, P)
  BY <1>0, <1>2, <1>3 DEF Sound, Same, MirrorsIn, Latest
<1> QED BY <1>2, <1>4

\* Tensors written on the device, and marked so, are truthful mirrors.
LEMMA PutDevSound ==
  ASSUME NEW s, NEW P, Sound(s, P), s.gpu, NEW ids
  PROVE  /\ Sound(PutDev(s, ids), P) /\ Same(s, PutDev(s, ids)) /\ DOMAIN PutDev(s, ids).mem = DOMAIN s.mem
<1> PICK m : m = [id \in DOMAIN s.mem |-> IF id \in ids THEN MarkGpuFresh(DevWritten(s.mem[id])) ELSE s.mem[id]]
  OBVIOUS
<1> PICK u : u = PutDev(s, ids)
  OBVIOUS
<1>0. Fields(s) /\ MirrorsIn(s, P) /\ Latest(s, P) /\ s.gpu \in BOOLEAN /\ s.room \in Rooms
  BY DEF Sound
<1>1. u = [s EXCEPT !.mem = m]
  BY DEF PutDev
<1>2. Fields(u) /\ Same(s, u) /\ u.misread = s.misread /\ u.mem = m
  BY ONLY <1>0, <1>1 DEF Fields, Same
<1>3. \A id \in DOMAIN s.mem : m[id] \in Mirrors /\ (id \notin P => Truthful(m[id])) /\ (m[id].dirty => s.gpu)
  BY <1>0, WrittenKeeps DEF MirrorsIn
<1>4. Sound(u, P)
  BY <1>0, <1>2, <1>3 DEF Sound, Same, MirrorsIn, Latest
<1> QED BY <1>2, <1>4

\* A gradient allocated where there was none is a truthful mirror.
LEMMA NewGradSound ==
  ASSUME NEW s, NEW P, Sound(s, P), NEW i
  PROVE  /\ Sound(NewGrad(s, i), P) /\ Same(s, NewGrad(s, i))
         /\ DOMAIN NewGrad(s, i).mem = DOMAIN s.mem \cup {<<"grad", i>>}
<1>0. Fields(s)
  BY DEF Sound
<1>1. CASE HasGrad(s, i)
  BY <1>0, <1>1 DEF NewGrad, HasGrad, Same
<1>2. CASE ~HasGrad(s, i)
  <2>1. NewGrad(s, i) = With(s, <<"grad", i>>, Authored)
    BY <1>2 DEF NewGrad
  <2> QED BY <1>0, <2>1, WithFields, WithSound, AuthoredKeeps
<1> QED BY <1>1, <1>2

\* u is t but for the sums.
SameBut(t, u) ==
  /\ DOMAIN u = DOMAIN t /\ Len(u) = Len(t)
  /\ \A j \in DOMAIN t :
       /\ u[j].op = t[j].op /\ u[j].data = t[j].data /\ u[j].from = t[j].from /\ u[j].param = t[j].param
       /\ u[j].frozen = t[j].frozen /\ u[j].slot = t[j].slot /\ u[j].alt = t[j].alt /\ u[j].applied = t[j].applied

Pairs == (0..MaxEntries) \X (1..3)

SumPut(t, p, total) == [t EXCEPT ![p].sum = total]

\* Recording a sum at one entry changes that entry's sum and nothing else of the tape.
LEMMA SumPutLaid ==
  ASSUME NEW t, TapeLaid(t), NEW p \in DOMAIN t, NEW total \in SUBSET Pairs
  PROVE  /\ TapeLaid(SumPut(t, p, total)) /\ SameBut(t, SumPut(t, p, total))
         /\ SumPut(t, p, total)[p].sum = total
         /\ \A j \in DOMAIN t : j # p => SumPut(t, p, total)[j].sum = t[j].sum
<1> PICK u : u = SumPut(t, p, total)
  OBVIOUS
<1> PICK g : g = [t[p] EXCEPT !.sum = total]
  OBVIOUS
<1>0. /\ Len(t) \in Nat /\ DOMAIN t = 1..Len(t) /\ Len(t) <= MaxEntries /\ t \in Seq(Entries(Weights, MaxParams))
      /\ \A j \in DOMAIN t : t[j] \in Entries(Weights, MaxParams) /\ Placed(t[j], j)
  BY ParamsLaid DEF TapeLaid
<1>1. u = [t EXCEPT ![p] = g]
  BY DEF SumPut
<1>2. /\ g \in Entries(Weights, MaxParams) /\ Placed(g, p) /\ g.sum = total
      /\ g.op = t[p].op /\ g.data = t[p].data /\ g.from = t[p].from /\ g.param = t[p].param
      /\ g.frozen = t[p].frozen /\ g.slot = t[p].slot /\ g.alt = t[p].alt /\ g.applied = t[p].applied
  <2>1. PICK e : e = t[p]
    OBVIOUS
  <2>2. e \in Entries(Weights, MaxParams) /\ Placed(e, p)
    BY <1>0, <2>1
  <2>3. g = [e EXCEPT !.sum = total]
    BY <2>1
  <2>4. /\ g \in Entries(Weights, MaxParams) /\ g.sum = total
        /\ g.op = e.op /\ g.data = e.data /\ g.from = e.from /\ g.param = e.param
        /\ g.frozen = e.frozen /\ g.slot = e.slot /\ g.alt = e.alt /\ g.applied = e.applied
    BY ONLY <2>2, <2>3, total \in SUBSET Pairs DEF Entries, Pairs
  <2>5. Placed(g, p)
    BY ONLY <2>2, <2>4 DEF Placed
  <2> QED BY <2>1, <2>4, <2>5
<1>3. u \in Seq(Entries(Weights, MaxParams)) /\ Len(u) = Len(t) /\ DOMAIN u = DOMAIN t
      /\ u[p] = g /\ \A j \in DOMAIN t : j # p => u[j] = t[j]
  BY ONLY <1>0, <1>1, <1>2, p \in DOMAIN t
<1>4. TapeLaid(u)
  BY <1>0, <1>2, <1>3 DEF TapeLaid
<1>5. SameBut(t, u)
  BY <1>2, <1>3 DEF SameBut
<1> QED BY <1>2, <1>3, <1>4, <1>5

\* Tapes that agree but for their sums, one after the other.
LEMMA SameTwice == ASSUME NEW t, NEW u, NEW v, SameBut(t, u), SameBut(u, v) PROVE SameBut(t, v)
BY DEF SameBut

\* A tape agrees with itself.
LEMMA SameNot == ASSUME NEW t PROVE SameBut(t, t)
BY DEF SameBut

\* What entry p is given, of the contributions in D.
Contribs(t, D, p, loss) == {c \in D : t[c[1]].from[c[2]] = p} \cup (IF p = loss THEN {<<0, 1>>} ELSE {})
Sums(t, u, D, loss) == \A p \in DOMAIN t : u[p].sum = IF t[p].frozen THEN {} ELSE Contribs(t, D, p, loss)

\* r comes of s within the backward pass: the gradients hold the contributions in D.
Summing(s, r, P, D, loss) ==
  /\ Sound(r, P) /\ TapeLaid(r.tape) /\ SameBut(s.tape, r.tape)
  /\ r.gpu = s.gpu /\ r.room = s.room /\ r.n = s.n /\ r.slots = s.slots
  /\ DOMAIN s.mem \subseteq DOMAIN r.mem
  /\ \A j : HasGrad(r, j) => j \in 1..loss /\ j \in DOMAIN s.tape /\ ~s.tape[j].frozen
  /\ \A j : <<"grad", j>> \notin P
  /\ r.room = "plenty" => Sums(s.tape, r.tape, D, loss)

\* The entries from i on have a gradient in u if they had in r.
Above(i, r, u) == \A j \in Nat : j >= i => (HasGrad(u, j) <=> HasGrad(r, j))

\* Moving copies changes no sum.
LEMMA MovedSums ==
  ASSUME NEW s, NEW r, NEW u, NEW P, NEW D, NEW loss, Summing(s, r, P, D, loss), Sound(u, P), Moved(r, u)
  PROVE  Summing(s, u, P, D, loss) /\ \A i : Above(i, r, u)
<1>1. /\ u.tape = r.tape /\ u.gpu = r.gpu /\ u.room = r.room /\ u.n = r.n /\ u.slots = r.slots
      /\ DOMAIN u.mem = DOMAIN r.mem
  BY DEF Moved, Same
<1>2. \A j : HasGrad(u, j) <=> HasGrad(r, j)
  BY <1>1 DEF HasGrad
<1> QED BY <1>1, <1>2 DEF Summing, Above

\* Where the parents of an entry are.
LEMMA ParentPlace ==
  ASSUME NEW s, NEW r, NEW P, NEW D, NEW loss \in Nat, Summing(s, r, P, D, loss), loss <= Len(s.tape), NEW i \in 1..loss,
         NEW k \in DOMAIN s.tape[i].from, s.tape[i].from[k] # 0
  PROVE  /\ i \in DOMAIN s.tape /\ s.tape[i].from[k] \in DOMAIN s.tape /\ s.tape[i].from[k] < i /\ s.tape[i].from[k] \in 1..loss
         /\ k \in 1..3 /\ <<i, k>> \in Pairs /\ s.tape[i].from[k] \in Nat
<1>1. TapeLaid(r.tape) /\ SameBut(s.tape, r.tape)
  BY DEF Summing
<1>2. Len(r.tape) \in Nat /\ DOMAIN r.tape = 1..Len(r.tape) /\ Len(r.tape) <= MaxEntries
  BY <1>1, ParamsLaid DEF TapeLaid
<1>3. DOMAIN s.tape = 1..Len(r.tape) /\ Len(s.tape) = Len(r.tape)
  BY <1>1, <1>2 DEF SameBut
<1>4. i \in DOMAIN r.tape /\ i \in DOMAIN s.tape /\ i \in 0..MaxEntries
  BY <1>2, <1>3, EntriesAssumption
<1>5. r.tape[i] \in Entries(Weights, MaxParams) /\ Placed(r.tape[i], i) /\ r.tape[i].from = s.tape[i].from
  BY <1>1, <1>2, <1>4, ParamsLaid DEF SameBut
<1>6. r.tape[i].from \in UNION {[1..n -> 0..MaxEntries] : n \in 0..3}
  BY <1>5 DEF Entries
<1>7. PICK n \in 0..3 : s.tape[i].from \in [1..n -> 0..MaxEntries]
  BY <1>5, <1>6
<1>8. k \in 1..3 /\ s.tape[i].from[k] \in 0..MaxEntries
  BY <1>7
<1>9. s.tape[i].from[k] < i
  BY <1>5 DEF Placed
<1> QED BY <1>2, <1>3, <1>4, <1>8, <1>9 DEF Pairs

\* v is u with one contribution more at entry p.
Gains(t, u, v, D, E, loss, i, k, p) ==
  /\ p \in DOMAIN t /\ t[i].from[k] = p /\ DOMAIN u = DOMAIN t /\ Sums(t, u, D, loss) /\ ~t[p].frozen
  /\ v[p].sum = u[p].sum \cup {<<i, k>>} /\ \A j \in DOMAIN t : j # p => v[j].sum = u[j].sum
  /\ E = D \cup {<<i, k>>}

\* One contribution more, in the sums.
LEMMA SumsMore ==
  ASSUME NEW t, NEW u, NEW v, NEW D, NEW E, NEW loss, NEW i, NEW k, NEW p, Gains(t, u, v, D, E, loss, i, k, p)
  PROVE  Sums(t, v, E, loss)
<1>0. /\ p \in DOMAIN t /\ t[i].from[k] = p /\ DOMAIN u = DOMAIN t /\ Sums(t, u, D, loss) /\ ~t[p].frozen
      /\ v[p].sum = u[p].sum \cup {<<i, k>>} /\ \A j \in DOMAIN t : j # p => v[j].sum = u[j].sum
      /\ E = D \cup {<<i, k>>}
  BY DEF Gains
<1> SUFFICES ASSUME NEW q \in DOMAIN t
    PROVE v[q].sum = IF t[q].frozen THEN {} ELSE Contribs(t, D \cup {<<i, k>>}, q, loss)
  BY <1>0 DEF Sums
<1>1. u[q].sum = IF t[q].frozen THEN {} ELSE Contribs(t, D, q, loss)
  BY <1>0 DEF Sums
<1>2. CASE q = p
  <2>1. Contribs(t, D \cup {<<i, k>>}, q, loss) = Contribs(t, D, q, loss) \cup {<<i, k>>}
    BY <1>0, <1>2 DEF Contribs
  <2> QED BY <1>0, <1>1, <1>2, <2>1
<1>3. CASE q # p
  <2>1. Contribs(t, D \cup {<<i, k>>}, q, loss) = Contribs(t, D, q, loss)
    BY <1>0, <1>3 DEF Contribs
  <2> QED BY <1>0, <1>1, <1>3, <2>1
<1> QED BY <1>2, <1>3

\* A frozen parent is given nothing, and counts as given.
LEMMA SumsFrozen ==
  ASSUME NEW t, NEW u, NEW D, NEW loss, NEW i, NEW k, NEW p \in DOMAIN t, t[i].from[k] = p,
         Sums(t, u, D, loss), t[p].frozen
  PROVE  Sums(t, u, D \cup {<<i, k>>}, loss)
<1> SUFFICES ASSUME NEW q \in DOMAIN t
    PROVE u[q].sum = IF t[q].frozen THEN {} ELSE Contribs(t, D \cup {<<i, k>>}, q, loss)
  BY DEF Sums
<1>1. u[q].sum = IF t[q].frozen THEN {} ELSE Contribs(t, D, q, loss)
  BY DEF Sums
<1>2. CASE q = p
  BY <1>1, <1>2
<1>3. CASE q # p
  <2>1. Contribs(t, D \cup {<<i, k>>}, q, loss) = Contribs(t, D, q, loss)
    BY <1>3 DEF Contribs
  <2> QED BY <1>1, <1>3, <2>1
<1> QED BY <1>2, <1>3

\* One contribution more.
Plus(D, i, k) == D \cup {<<i, k>>}

\* z comes of r by what entry i gives.
Gave(s, r, z, P, E, loss, i) == Summing(s, z, P, E, loss) /\ Above(i, r, z)

\* A write to a parent's gradient, with the sum it leaves.
Adding(m, w, p, total) == [w EXCEPT !.tape = SumPut(m.tape, p, total)]

\* The sum with that contribution; it starts anew only where a contribution was dropped before.
Totals(s, r, i, k, total) ==
  \/ total = r.tape[s.tape[i].from[k]].sum \cup {<<i, k>>}
  \/ r.room # "plenty" /\ total = {<<i, k>>}

\* One contribution added to one parent's gradient: the sums are those of the contributions made and of
\* this one, unless the device is short of memory.
LEMMA AddingSums ==
  ASSUME NEW s, NEW r, NEW m, NEW w, NEW P, NEW D, NEW loss \in Nat, NEW i \in 1..loss, NEW k \in DOMAIN s.tape[i].from,
         s.tape[i].from[k] # 0, loss <= Len(s.tape),
         Summing(s, r, P, D, loss), ~s.tape[s.tape[i].from[k]].frozen,
         Sound(w, P), w.tape = r.tape, w.gpu = r.gpu, w.room = r.room, w.n = r.n, w.slots = r.slots, m.tape = r.tape,
         DOMAIN w.mem = DOMAIN r.mem \cup {<<"grad", s.tape[i].from[k]>>},
         NEW total, Totals(s, r, i, k, total), NEW z, z = Adding(m, w, s.tape[i].from[k], total)
  PROVE  Gave(s, r, z, P, Plus(D, i, k), loss, i)
<1> PICK p : p = s.tape[i].from[k]
  BY Zenon
<1>t. \/ total = r.tape[p].sum \cup {<<i, k>>}
      \/ r.room # "plenty" /\ total = {<<i, k>>}
  BY Zenon DEF Totals
<1>v. PICK v : v = SumPut(r.tape, p, total)
  OBVIOUS
<1>1. /\ Sound(r, P) /\ TapeLaid(r.tape) /\ SameBut(s.tape, r.tape)
      /\ r.gpu = s.gpu /\ r.room = s.room /\ r.n = s.n /\ r.slots = s.slots
      /\ DOMAIN s.mem \subseteq DOMAIN r.mem
      /\ \A j : HasGrad(r, j) => j \in 1..loss /\ j \in DOMAIN s.tape /\ ~s.tape[j].frozen
      /\ \A j : <<"grad", j>> \notin P
      /\ r.room = "plenty" => Sums(s.tape, r.tape, D, loss)
  BY DEF Summing
<1>w. TapeLaid(r.tape)
  BY ONLY <1>1
<1>2. /\ i \in DOMAIN s.tape /\ p \in DOMAIN s.tape /\ p < i /\ p \in 1..loss /\ <<i, k>> \in Pairs /\ p \in Nat
  BY ParentPlace, Zenon
<1>3. p \in DOMAIN r.tape /\ r.tape[p].sum \in SUBSET Pairs
  <2>1. p \in DOMAIN r.tape
    BY <1>1, <1>2 DEF SameBut
  <2>2. r.tape[p] \in Entries(Weights, MaxParams)
    BY ONLY <1>w, <2>1, ParamsLaid
  <2> QED BY ONLY <2>1, <2>2 DEF Entries, Pairs
<1>4. total \in SUBSET Pairs
  BY ONLY <1>2, <1>3, <1>t
<1>5. /\ TapeLaid(v) /\ SameBut(r.tape, v) /\ v[p].sum = total
      /\ \A j \in DOMAIN r.tape : j # p => v[j].sum = r.tape[j].sum
  BY ONLY <1>1, <1>3, <1>4, SumPutLaid, <1>v
<1>6. Fields(w)
  BY Zenon DEF Sound
<1>7. z = [w EXCEPT !.tape = v]
  BY <1>t, <1>v DEF Adding
<1>8. /\ Fields(z) /\ z.tape = v /\ z.mem = w.mem /\ z.gpu = w.gpu /\ z.room = w.room /\ z.misread = w.misread
      /\ z.n = w.n /\ z.slots = w.slots
  BY ONLY <1>6, <1>7 DEF Fields
<1>9. Sound(z, P)
  BY <1>8 DEF Sound, MirrorsIn, Latest
<1>10. SameBut(s.tape, z.tape)
  BY ONLY <1>1, <1>5, <1>8, SameTwice
<1>11. \A j : HasGrad(z, j) <=> HasGrad(r, j) \/ j = p
  <2>1. DOMAIN z.mem = DOMAIN r.mem \cup {<<"grad", p>>}
    BY <1>8
  <2>2. \A j : <<"grad", j>> = <<"grad", p>> <=> j = p
    OBVIOUS
  <2> QED BY ONLY <2>1, <2>2 DEF HasGrad
<1>12. r.room = "plenty" => Sums(s.tape, z.tape, D \cup {<<i, k>>}, loss)
  <2> SUFFICES ASSUME r.room = "plenty" PROVE Sums(s.tape, v, D \cup {<<i, k>>}, loss)
    BY <1>8, Zenon
  <2>1. DOMAIN r.tape = DOMAIN s.tape /\ total = r.tape[p].sum \cup {<<i, k>>}
    BY <1>1, <1>t DEF SameBut
  <2>2. Sums(s.tape, r.tape, D, loss)
    BY <1>1, Zenon
  <2>3. v[p].sum = r.tape[p].sum \cup {<<i, k>>} /\ \A j \in DOMAIN s.tape : j # p => v[j].sum = r.tape[j].sum
    BY <1>5, <2>1, Zenon
  <2>4. s.tape[i].from[k] = p /\ ~s.tape[p].frozen /\ p \in DOMAIN s.tape
    BY <1>2
  <2> PICK t : t = s.tape
    OBVIOUS
  <2> PICK u : u = r.tape
    OBVIOUS
  <2>5. /\ t[i].from[k] = p /\ DOMAIN u = DOMAIN t /\ Sums(t, u, D, loss) /\ ~t[p].frozen /\ p \in DOMAIN t
        /\ v[p].sum = u[p].sum \cup {<<i, k>>} /\ \A j \in DOMAIN t : j # p => v[j].sum = u[j].sum
    BY ONLY <2>1, <2>2, <2>3, <2>4, t = s.tape, u = r.tape
  <2> PICK E : E = D \cup {<<i, k>>}
    OBVIOUS
  <2>6. Gains(t, u, v, D, E, loss, i, k, p)
    BY ONLY <2>5, E = D \cup {<<i, k>>} DEF Gains
  <2>7. Sums(t, v, E, loss)
    BY ONLY <2>6, SumsMore
  <2> QED BY ONLY <2>7, t = s.tape, E = D \cup {<<i, k>>}
<1>13. Above(i, r, z)
  BY ONLY <1>2, <1>11 DEF Above
<1>14. \A j : HasGrad(z, j) => j \in 1..loss /\ j \in DOMAIN s.tape /\ ~s.tape[j].frozen
  BY <1>1, <1>2, <1>11, Zenon
<1>15. /\ z.gpu = s.gpu /\ z.room = s.room /\ z.n = s.n /\ z.slots = s.slots /\ DOMAIN s.mem \subseteq DOMAIN z.mem
  BY <1>1, <1>8, Zenon
<1>16. z.tape = v /\ TapeLaid(z.tape) /\ z.room = r.room
  BY <1>5, <1>8
<1>17. r.room = "plenty" => Sums(s.tape, z.tape, Plus(D, i, k), loss)
  BY <1>12 DEF Plus
<1> QED BY ONLY <1>1, <1>9, <1>10, <1>17, <1>13, <1>14, <1>15, <1>16 DEF Summing, Gave

\* A frozen parent is given nothing.
LEMMA FrozenSums ==
  ASSUME NEW s, NEW r, NEW P, NEW D, NEW loss \in Nat, NEW i \in 1..loss, NEW k \in DOMAIN s.tape[i].from,
         s.tape[i].from[k] # 0, loss <= Len(s.tape), Summing(s, r, P, D, loss), s.tape[s.tape[i].from[k]].frozen
  PROVE  Gave(s, r, r, P, Plus(D, i, k), loss, i)
<1> PICK p : p = s.tape[i].from[k]
  OBVIOUS
<1> PICK t : t = s.tape
  OBVIOUS
<1>1. p \in DOMAIN t /\ t[i].from[k] = p /\ t[p].frozen
  BY ParentPlace
<1>2. Sums(t, r.tape, D, loss) => Sums(t, r.tape, Plus(D, i, k), loss)
  BY ONLY <1>1, SumsFrozen DEF Plus
<1>3. Summing(s, r, P, Plus(D, i, k), loss)
  BY ONLY <1>2, Summing(s, r, P, D, loss), t = s.tape DEF Summing
<1> QED BY <1>3 DEF Gave, Above

\* What tape_acc_grad and tape_acc_grad_gpu write: the sum of a copy that is out of date is lost.
HostSum(n, p, id, c) == [PutHost(n, {id}) EXCEPT !.tape[p].sum = (IF n.mem[id].host THEN @ ELSE {}) \cup {c}]
DevSum(n, p, id, c)  == [PutDev(n, {id}) EXCEPT !.tape[p].sum = (IF n.mem[id].dev = "new" THEN @ ELSE {}) \cup {c}]

\* The write of tape_acc_grad, to a gradient it has fetched.
LEMMA HostAdds ==
  ASSUME NEW r, NEW i, NEW k, NEW p, r.tape[i].from[k] = p, ~r.tape[p].frozen, NEW id, id = <<"grad", p>>,
         NEW n, n = HostReads(Pull(NewGrad(r, p), {id}), "backward", "acc_grad", {id})
  PROVE  tape_acc_grad(r, i, k) = HostSum(n, p, id, <<i, k>>)
BY Zenon DEF tape_acc_grad, Changed, PutHost, HostSum

\* The write of tape_acc_grad_gpu, to a gradient that is on the device.
LEMMA DevAdds ==
  ASSUME NEW r, NEW i, NEW k, NEW p, r.tape[i].from[k] = p, ~r.tape[p].frozen, NEW id, id = <<"grad", p>>,
         NEW b, b = Upload(NewGrad(r, p), {id}), OnDevice(b, {id}), NEW n, n = DevReads(b, "backward", "acc_grad", {id})
  PROVE  tape_acc_grad_gpu(r, i, k) = DevSum(n, p, id, <<i, k>>)
BY Zenon DEF tape_acc_grad_gpu, Changed, PutDev, DevSum

\* tape_acc_grad: the sum is fetched, so that adding on the host loses nothing.
LEMMA AccHostSums ==
  ASSUME NEW s, NEW r, NEW P, NEW D, NEW loss \in Nat, NEW i \in 1..loss, NEW k \in DOMAIN s.tape[i].from,
         s.tape[i].from[k] # 0, loss <= Len(s.tape), Summing(s, r, P, D, loss)
  PROVE  Gave(s, r, tape_acc_grad(r, i, k), P, Plus(D, i, k), loss, i)
<1> PICK p : p = s.tape[i].from[k]
  OBVIOUS
<1> PICK id : id = <<"grad", p>>
  OBVIOUS
<1>1. Sound(r, P) /\ SameBut(s.tape, r.tape) /\ id \notin P
  BY DEF Summing
<1>2. i \in DOMAIN s.tape /\ p \in DOMAIN s.tape
  BY ParentPlace
<1>3. r.tape[i].from[k] = p /\ r.tape[p].frozen = s.tape[p].frozen
  BY <1>1, <1>2 DEF SameBut
<1>4. CASE s.tape[p].frozen
  <2>1. tape_acc_grad(r, i, k) = r
    BY <1>3, <1>4 DEF tape_acc_grad
  <2> QED BY <1>4, <2>1, FrozenSums
<1>5. CASE ~s.tape[p].frozen
  <2>1. PICK a : a = NewGrad(r, p)
    OBVIOUS
  <2>2. Sound(a, P) /\ Same(r, a) /\ DOMAIN a.mem = DOMAIN r.mem \cup {id}
    BY <1>1, <2>1, NewGradSound
  <2>3. PICK b : b = Pull(a, {id})
    OBVIOUS
  <2>4. Sound(b, P) /\ Moved(a, b) /\ Clean(b, id, P)
    BY <2>2, <2>3, PullSound
  <2>5. PICK n : n = HostReads(b, "backward", "acc_grad", {id})
    OBVIOUS
  <2>6. Sound(n, P) /\ Moved(b, n) /\ n.mem = b.mem
    <3> PICK ids : ids = {id}
      OBVIOUS
    <3>1. <<"backward", "acc_grad">> \in Pullers => \A j \in ids : Clean(b, j, P)
      BY <2>4
    <3>2. n = HostReads(b, "backward", "acc_grad", ids)
      BY <2>5
    <3> QED BY ONLY <2>4, <3>1, <3>2, HostReadsSound
  <2>7. DOMAIN b.mem = DOMAIN a.mem /\ Same(a, b) /\ Same(b, n)
    BY <2>4, <2>6 DEF Moved
  <2>8. n.mem[id].host = TRUE
    <3>1. id \in DOMAIN b.mem /\ MirrorsIn(b, P)
      BY <2>2, <2>4, <2>7 DEF Sound
    <3>2. ~b.mem[id].dirty /\ Truthful(b.mem[id]) /\ b.mem[id] \in Mirrors
      BY <1>1, <2>4, <3>1 DEF Clean, MirrorsIn
    <3> QED BY <2>6, <3>2 DEF Truthful, Mirrors
  <2>9. PICK w : w = PutHost(n, {id})
    OBVIOUS
  <2>10. Sound(w, P) /\ Same(n, w) /\ DOMAIN w.mem = DOMAIN n.mem
    BY <2>6, <2>9, PutHostSound
  <2>11. /\ w.tape = r.tape /\ w.gpu = r.gpu /\ w.room = r.room /\ w.n = r.n /\ w.slots = r.slots /\ n.tape = r.tape
         /\ DOMAIN w.mem = DOMAIN r.mem \cup {id}
    BY <2>2, <2>6, <2>7, <2>10 DEF Same
  <2>12. PICK z : z = tape_acc_grad(r, i, k)
    BY Zenon
  <2>13. z = HostSum(n, p, id, <<i, k>>)
    <3>1. n = HostReads(Pull(NewGrad(r, p), {id}), "backward", "acc_grad", {id})
      BY ONLY <2>1, <2>3, <2>5, Zenon
    <3>2. r.tape[i].from[k] = p /\ ~r.tape[p].frozen /\ id = <<"grad", p>>
      BY ONLY <1>3, <1>5, id = <<"grad", p>>
    <3> QED BY ONLY <2>12, <3>1, <3>2, HostAdds
  <2>14. PICK total : total = r.tape[p].sum \cup {<<i, k>>}
    OBVIOUS
  <2>15. z = Adding(n, w, p, total)
    BY ONLY <2>8, <2>9, <2>11, <2>13, <2>14 DEF Adding, SumPut, HostSum
  <2>16. Totals(s, r, i, k, total)
    BY <2>14 DEF Totals
  <2> QED BY <1>5, <2>10, <2>11, <2>12, <2>15, <2>16, AddingSums
<1> QED BY <1>4, <1>5


\* tape_acc_grad_gpu: with memory left the sum is added to where it is; without,
\* the contribution is dropped.
LEMMA AccDevSums ==
  ASSUME NEW s, NEW r, NEW P, NEW D, NEW loss \in Nat, NEW i \in 1..loss, NEW k \in DOMAIN s.tape[i].from,
         s.tape[i].from[k] # 0, loss <= Len(s.tape), Summing(s, r, P, D, loss), s.gpu
  PROVE  Gave(s, r, tape_acc_grad_gpu(r, i, k), P, Plus(D, i, k), loss, i)
<1> PICK p : p = s.tape[i].from[k]
  OBVIOUS
<1> PICK id : id = <<"grad", p>>
  OBVIOUS
<1> PICK ids : ids = {id}
  OBVIOUS
<1>1. Sound(r, P) /\ SameBut(s.tape, r.tape) /\ id \notin P
  BY DEF Summing
<1>2. i \in DOMAIN s.tape /\ p \in DOMAIN s.tape /\ p \in 1..loss /\ p < i /\ p \in Nat
  BY ParentPlace
<1>3. r.tape[i].from[k] = p /\ r.tape[p].frozen = s.tape[p].frozen
  BY <1>1, <1>2 DEF SameBut
<1>4. CASE s.tape[p].frozen
  <2>1. tape_acc_grad_gpu(r, i, k) = r
    BY <1>3, <1>4 DEF tape_acc_grad_gpu
  <2> QED BY <1>4, <2>1, FrozenSums
<1>5. CASE ~s.tape[p].frozen
  <2>1. PICK a : a = NewGrad(r, p)
    OBVIOUS
  <2>2. Sound(a, P) /\ Same(r, a) /\ DOMAIN a.mem = DOMAIN r.mem \cup {id}
    BY <1>1, <2>1, NewGradSound
  <2>3. PICK b : b = Upload(a, ids)
    OBVIOUS
  <2>4. /\ Sound(b, P) /\ Moved(a, b) /\ (OnDevice(b, ids) => \A j \in ids : Fresh(b, j, P))
        /\ (a.room = "plenty" => OnDevice(b, ids))
    <3>1. /\ Sound(b, P) /\ Moved(a, b)
          /\ \A j \in ids : OnDevice(b, {j}) => Fresh(b, j, P)
          /\ a.room = "plenty" => \A j \in ids : j \in DOMAIN a.mem => OnDevice(b, {j})
      BY <2>2, <2>3, UploadSound
    <3> QED BY <2>2, <3>1
  <2>5. DOMAIN b.mem = DOMAIN a.mem /\ Same(a, b)
    BY <2>4 DEF Moved
  <2>6. CASE ~OnDevice(b, ids)
    <3>1. tape_acc_grad_gpu(r, i, k) = b
      BY <1>3, <1>5, <2>1, <2>3, <2>6 DEF tape_acc_grad_gpu
    <3>2. b.room = r.room /\ b.tape = r.tape /\ b.gpu = r.gpu /\ b.n = r.n /\ b.slots = r.slots
      BY <2>2, <2>5 DEF Same
    <3>3. b.room # "plenty"
      BY <2>2, <2>4, <2>6, <3>2 DEF Same
    <3>4. \A j : HasGrad(b, j) <=> HasGrad(r, j) \/ j = p
      <4>1. DOMAIN b.mem = DOMAIN r.mem \cup {<<"grad", p>>}
        BY <2>2, <2>5
      <4>2. \A j : <<"grad", j>> = <<"grad", p>> <=> j = p
        OBVIOUS
      <4> QED BY ONLY <4>1, <4>2 DEF HasGrad
    <3>5. Above(i, r, b)
      BY ONLY <1>2, <3>4 DEF Above
    <3>6. \A j : HasGrad(b, j) => j \in 1..loss /\ j \in DOMAIN s.tape /\ ~s.tape[j].frozen
      BY <1>2, <1>5, <3>4 DEF Summing
    <3>7. DOMAIN s.mem \subseteq DOMAIN b.mem
      BY <2>2, <2>5 DEF Summing
    <3>8. Summing(s, b, P, Plus(D, i, k), loss)
      BY <2>4, <3>2, <3>3, <3>6, <3>7 DEF Summing
    <3> QED BY <3>1, <3>5, <3>8 DEF Gave
  <2>7. CASE OnDevice(b, ids)
    <3>1. PICK n : n = DevReads(b, "backward", "acc_grad", ids)
      OBVIOUS
    <3>2. Sound(n, P) /\ Moved(b, n) /\ n.mem = b.mem
      BY ONLY <2>4, <2>7, <3>1, DevReadsSound
    <3>3. Same(b, n)
      BY <3>2 DEF Moved
    <3>4. n.mem[id].dev = "new"
      <4>1. id \in DOMAIN b.mem /\ Fresh(b, id, P)
        BY <2>2, <2>4, <2>5, <2>7
      <4> QED BY <1>1, <3>2, <4>1 DEF Fresh
    <3>5. PICK w : w = PutDev(n, ids)
      OBVIOUS
    <3>12. n.gpu
      BY <2>2, <2>5, <3>3 DEF Same, Summing
    <3>6. Sound(w, P) /\ Same(n, w) /\ DOMAIN w.mem = DOMAIN n.mem
      BY <3>2, <3>5, <3>12, PutDevSound
    <3>7. /\ w.tape = r.tape /\ w.gpu = r.gpu /\ w.room = r.room /\ w.n = r.n /\ w.slots = r.slots /\ n.tape = r.tape
          /\ DOMAIN w.mem = DOMAIN r.mem \cup {id}
      BY <2>2, <2>5, <3>2, <3>3, <3>6 DEF Same
    <3>8. PICK z : z = tape_acc_grad_gpu(r, i, k)
      BY Zenon
    <3>9. z = DevSum(n, p, id, <<i, k>>)
      <4>1. b = Upload(NewGrad(r, p), {id}) /\ OnDevice(b, {id}) /\ n = DevReads(b, "backward", "acc_grad", {id})
        BY ONLY <2>1, <2>3, <2>7, <3>1, ids = {id}
      <4>2. r.tape[i].from[k] = p /\ ~r.tape[p].frozen /\ id = <<"grad", p>>
        BY ONLY <1>3, <1>5, id = <<"grad", p>>
      <4> QED BY ONLY <3>8, <4>1, <4>2, DevAdds
    <3>10. PICK total : total = r.tape[p].sum \cup {<<i, k>>}
      OBVIOUS
    <3>11. z = Adding(n, w, p, total)
      BY ONLY <3>4, <3>5, <3>7, <3>9, <3>10, ids = {id} DEF Adding, SumPut, DevSum
    <3>13. Totals(s, r, i, k, total)
      BY <3>10 DEF Totals
    <3> QED BY <1>5, <3>6, <3>7, <3>8, <3>11, <3>13, AddingSums
  <2> QED BY <2>6, <2>7
<1> QED BY <1>4, <1>5

\* What an entry gives to two of its parents, one after the other.
LEMMA GaveTwice ==
  ASSUME NEW s, NEW r, NEW u, NEW v, NEW P, NEW D, NEW E, NEW loss, NEW i, Gave(s, r, u, P, D, loss, i), Gave(s, u, v, P, E, loss, i)
  PROVE  Gave(s, r, v, P, E, loss, i)
BY DEF Gave, Above

\* An entry that gives nothing leaves the sums as they were.
LEMMA GaveNot == ASSUME NEW s, NEW r, NEW P, NEW D, NEW loss, NEW i, Summing(s, r, P, D, loss) PROVE Gave(s, r, r, P, D, loss, i)
BY DEF Gave, Above

\* The contribution, if the parent is one of K.
Plused(D, i, k, K) == IF k \in K THEN Plus(D, i, k) ELSE D

\* The three places of an operation, taken in turn, are all its places.
LEMMA PlusedAll ==
  ASSUME NEW D, NEW i, NEW K, K \subseteq 1..3
  PROVE  Plused(Plused(Plused(D, i, 1, K), i, 2, K), i, 3, K) = D \cup {<<i, k>> : k \in K}
<1>1. \A k \in K : k = 1 \/ k = 2 \/ k = 3
  <2>1. \A k \in 1..3 : k = 1 \/ k = 2 \/ k = 3
    OBVIOUS
  <2> QED BY <2>1
<1> PICK A : A = {<<i, k>> : k \in K}
  OBVIOUS
<1>2. /\ \A x : x \in A <=> (1 \in K /\ x = <<i, 1>>) \/ (2 \in K /\ x = <<i, 2>>) \/ (3 \in K /\ x = <<i, 3>>)
  BY <1>1
<1> PICK B : B = Plused(Plused(Plused(D, i, 1, K), i, 2, K), i, 3, K)
  OBVIOUS
<1>3. \A x : x \in B <=> x \in D \/ (1 \in K /\ x = <<i, 1>>) \/ (2 \in K /\ x = <<i, 2>>) \/ (3 \in K /\ x = <<i, 3>>)
  BY DEF Plused, Plus
<1>4. B = D \cup A
  BY <1>2, <1>3
<1> QED BY <1>4

\* The entry's parents among gives.
Heirs(t, i, gives) == {k \in gives \cap DOMAIN t[i].from : t[i].from[k] # 0}

\* What entry i owes its parents.
Owed(t, i) == {<<i, k>> : k \in Differentiable(t[i].op, t[i].alt) \cap DOMAIN t[i].from}

\* gives are the parents the operation owes something to, but for frozen ones.
Fits(t, i, gives) ==
  \A k \in DOMAIN t[i].from : t[i].from[k] # 0 /\ ~t[t[i].from[k]].frozen => (k \in gives <=> k \in Differentiable(t[i].op, t[i].alt))

Backed(s, r, z, P, D, loss, i) == Gave(s, r, z, P, D \cup Owed(s.tape, i), loss, i)

\* What is said of parents that are not there, or frozen, does not count.
LEMMA SumsOwed ==
  ASSUME NEW t, NEW u, NEW D, NEW loss, NEW i, NEW gives, Fits(t, i, gives), 0 \notin DOMAIN t, NEW K, K = Heirs(t, i, gives),
         NEW E, E = D \cup {<<i, k>> : k \in K}, Sums(t, u, E, loss)
  PROVE  Sums(t, u, D \cup Owed(t, i), loss)
<1> PICK F : F = D \cup Owed(t, i)
  OBVIOUS
<1> SUFFICES ASSUME NEW p \in DOMAIN t PROVE u[p].sum = IF t[p].frozen THEN {} ELSE Contribs(t, F, p, loss)
  BY DEF Sums
<1>1. u[p].sum = IF t[p].frozen THEN {} ELSE Contribs(t, E, p, loss)
  BY DEF Sums
<1>2. CASE t[p].frozen
  BY <1>1, <1>2
<1>3. CASE ~t[p].frozen
  <2>1. \A c : c \in {<<i, k>> : k \in K} /\ t[c[1]].from[c[2]] = p <=> c \in Owed(t, i) /\ t[c[1]].from[c[2]] = p
    <3> SUFFICES ASSUME NEW c, t[c[1]].from[c[2]] = p
        PROVE c \in {<<i, k>> : k \in K} <=> c \in Owed(t, i)
      OBVIOUS
    <3>1. \A k \in DOMAIN t[i].from : t[i].from[k] = p =>
             (k \in gives <=> k \in Differentiable(t[i].op, t[i].alt)) /\ t[i].from[k] # 0
      BY <1>3 DEF Fits
    <3>2. \A k : t[i].from[k] = p => (k \in K <=> k \in Differentiable(t[i].op, t[i].alt) \cap DOMAIN t[i].from)
      BY <3>1 DEF Heirs
    <3>3. ASSUME NEW k, c = <<i, k>> PROVE t[i].from[k] = p
      BY <3>3
    <3>4. c \in {<<i, k>> : k \in K} <=> \E k \in K : c = <<i, k>>
      OBVIOUS
    <3>5. c \in Owed(t, i) <=> \E k \in Differentiable(t[i].op, t[i].alt) \cap DOMAIN t[i].from : c = <<i, k>>
      BY DEF Owed
    <3> QED BY ONLY <3>2, <3>3, <3>4, <3>5
  <2>2. Contribs(t, E, p, loss) = Contribs(t, F, p, loss)
    <3>1. {c \in E : t[c[1]].from[c[2]] = p} = {c \in F : t[c[1]].from[c[2]] = p}
      <4> PICK A : A = {<<i, k>> : k \in K}
        OBVIOUS
      <4> PICK B : B = Owed(t, i)
        OBVIOUS
      <4>1. \A c : c \in A /\ t[c[1]].from[c[2]] = p <=> c \in B /\ t[c[1]].from[c[2]] = p
        BY <2>1
      <4>2. E = D \cup A /\ F = D \cup B
        OBVIOUS
      <4> QED BY ONLY <4>1, <4>2
    <3> QED BY <3>1 DEF Contribs
  <2> QED BY <1>1, <1>3, <2>2
<1> QED BY <1>2, <1>3

\* An entry that gave to every parent it owes has done its part of the backward pass.
LEMMA GaveOwed ==
  ASSUME NEW s, NEW r, NEW z, NEW P, NEW D, NEW loss, NEW i, NEW gives, Fits(s.tape, i, gives), TapeLaid(z.tape),
         NEW K, K = Heirs(s.tape, i, gives), Gave(s, r, z, P, D \cup {<<i, k>> : k \in K}, loss, i)
  PROVE  Backed(s, r, z, P, D, loss, i)
<1> PICK t : t = s.tape
  OBVIOUS
<1> PICK E : E = D \cup {<<i, k>> : k \in K}
  OBVIOUS
<1>1. Summing(s, z, P, E, loss) /\ Above(i, r, z)
  BY DEF Gave
<1>2. 0 \notin DOMAIN t
  <2>1. SameBut(t, z.tape)
    BY <1>1 DEF Summing
  <2>2. DOMAIN z.tape = 1..Len(z.tape)
    BY ParamsLaid
  <2> QED BY <2>1, <2>2 DEF SameBut
<1>3. Sums(t, z.tape, E, loss) => Sums(t, z.tape, D \cup Owed(t, i), loss)
  <2>1. Fits(t, i, gives) /\ K = Heirs(t, i, gives)
    OBVIOUS
  <2> QED BY ONLY <1>2, <2>1, E = D \cup {<<i, k>> : k \in K}, SumsOwed
<1>4. Summing(s, z, P, D \cup Owed(t, i), loss)
  BY ONLY <1>1, <1>3, t = s.tape DEF Summing
<1> QED BY <1>1, <1>4 DEF Backed, Gave

\* The parents in turn, on the host.
LEMMA GivingHost ==
  ASSUME NEW s, NEW r, NEW P, NEW D, NEW loss \in Nat, NEW i \in 1..loss, loss <= Len(s.tape), Summing(s, r, P, D, loss),
         NEW gives, Fits(s.tape, i, gives)
  PROVE  Backed(s, r, Giving(r, i, gives, tape_acc_grad), P, D, loss, i)
<1> PICK K : K = Heirs(s.tape, i, gives)
  OBVIOUS
<1>1. ASSUME NEW q, NEW E, NEW k, Summing(s, q, P, E, loss)
      PROVE  Gave(s, q, IF k \in K THEN tape_acc_grad(q, i, k) ELSE q, P, Plused(E, i, k, K), loss, i)
  <2>1. CASE k \in K
    <3>1. k \in DOMAIN s.tape[i].from /\ s.tape[i].from[k] # 0
      BY <2>1 DEF Heirs
    <3>2. Gave(s, q, tape_acc_grad(q, i, k), P, Plus(E, i, k), loss, i)
      BY <1>1, <3>1, AccHostSums
    <3> QED BY <2>1, <3>2 DEF Plused
  <2>2. CASE k \notin K
    BY <1>1, <2>2, GaveNot DEF Plused
  <2> QED BY <2>1, <2>2
<1> PICK D1 : D1 = Plused(D, i, 1, K)
  OBVIOUS
<1> PICK D2 : D2 = Plused(D1, i, 2, K)
  OBVIOUS
<1> PICK D3 : D3 = Plused(D2, i, 3, K)
  OBVIOUS
<1> PICK a : a = IF 1 \in K THEN tape_acc_grad(r, i, 1) ELSE r
  OBVIOUS
<1> PICK b : b = IF 2 \in K THEN tape_acc_grad(a, i, 2) ELSE a
  OBVIOUS
<1> PICK c : c = IF 3 \in K THEN tape_acc_grad(b, i, 3) ELSE b
  OBVIOUS
<1>2. Gave(s, r, a, P, D1, loss, i)
  BY <1>1
<1>3. Gave(s, a, b, P, D2, loss, i)
  BY <1>1, <1>2 DEF Gave
<1>4. Gave(s, b, c, P, D3, loss, i)
  BY <1>1, <1>3 DEF Gave
<1>5. Gave(s, r, c, P, D3, loss, i)
  BY ONLY <1>2, <1>3, <1>4, GaveTwice
<1>6. /\ K \subseteq 1..3 /\ DOMAIN r.tape = DOMAIN s.tape /\ i \in DOMAIN s.tape /\ r.tape[i].from = s.tape[i].from
  <2>1. TapeLaid(r.tape) /\ SameBut(s.tape, r.tape)
    BY DEF Summing
  <2>2. DOMAIN r.tape = 1..Len(r.tape) /\ Len(r.tape) = Len(s.tape) /\ Len(r.tape) \in Nat
    BY <2>1, ParamsLaid DEF SameBut
  <2>3. i \in DOMAIN r.tape
    BY <2>2
  <2>4. r.tape[i].from = s.tape[i].from /\ DOMAIN r.tape = DOMAIN s.tape
    BY <2>1, <2>3 DEF SameBut
  <2>5. r.tape[i] \in Entries(Weights, MaxParams)
    BY <2>1, <2>3, ParamsLaid
  <2>6. r.tape[i].from \in UNION {[1..n -> 0..MaxEntries] : n \in 0..3}
    BY <2>5 DEF Entries
  <2>7. PICK n \in 0..3 : s.tape[i].from \in [1..n -> 0..MaxEntries]
    BY <2>4, <2>6
  <2>8. K \subseteq 1..3
    BY <2>7 DEF Heirs
  <2> QED BY <2>3, <2>4, <2>8
<1>7. Parents(r, i, gives) = K
  BY <1>6 DEF Parents, Heirs
<1>8. Giving(r, i, gives, tape_acc_grad) = c
  BY <1>7 DEF Giving
<1>9. D3 = D \cup {<<i, k>> : k \in K}
  BY <1>6, PlusedAll
<1>10. TapeLaid(c.tape)
  BY <1>5 DEF Gave, Summing
<1>11. Gave(s, r, c, P, D \cup {<<i, k>> : k \in K}, loss, i)
  BY <1>5, <1>9
<1> QED BY <1>8, <1>10, <1>11, GaveOwed

\* The parents in turn, on the device.
LEMMA GivingDev ==
  ASSUME NEW s, NEW r, NEW P, NEW D, NEW loss \in Nat, NEW i \in 1..loss, loss <= Len(s.tape), Summing(s, r, P, D, loss),
         NEW gives, Fits(s.tape, i, gives), s.gpu
  PROVE  Backed(s, r, Giving(r, i, gives, tape_acc_grad_gpu), P, D, loss, i)
<1> PICK K : K = Heirs(s.tape, i, gives)
  OBVIOUS
<1>1. ASSUME NEW q, NEW E, NEW k, Summing(s, q, P, E, loss)
      PROVE  Gave(s, q, IF k \in K THEN tape_acc_grad_gpu(q, i, k) ELSE q, P, Plused(E, i, k, K), loss, i)
  <2>1. CASE k \in K
    <3>1. k \in DOMAIN s.tape[i].from /\ s.tape[i].from[k] # 0
      BY <2>1 DEF Heirs
    <3>2. Gave(s, q, tape_acc_grad_gpu(q, i, k), P, Plus(E, i, k), loss, i)
      BY <1>1, <3>1, AccDevSums
    <3> QED BY <2>1, <3>2 DEF Plused
  <2>2. CASE k \notin K
    BY <1>1, <2>2, GaveNot DEF Plused
  <2> QED BY <2>1, <2>2
<1> PICK D1 : D1 = Plused(D, i, 1, K)
  OBVIOUS
<1> PICK D2 : D2 = Plused(D1, i, 2, K)
  OBVIOUS
<1> PICK D3 : D3 = Plused(D2, i, 3, K)
  OBVIOUS
<1> PICK a : a = IF 1 \in K THEN tape_acc_grad_gpu(r, i, 1) ELSE r
  OBVIOUS
<1> PICK b : b = IF 2 \in K THEN tape_acc_grad_gpu(a, i, 2) ELSE a
  OBVIOUS
<1> PICK c : c = IF 3 \in K THEN tape_acc_grad_gpu(b, i, 3) ELSE b
  OBVIOUS
<1>2. Gave(s, r, a, P, D1, loss, i)
  BY <1>1
<1>3. Gave(s, a, b, P, D2, loss, i)
  BY <1>1, <1>2 DEF Gave
<1>4. Gave(s, b, c, P, D3, loss, i)
  BY <1>1, <1>3 DEF Gave
<1>5. Gave(s, r, c, P, D3, loss, i)
  BY ONLY <1>2, <1>3, <1>4, GaveTwice
<1>6. /\ K \subseteq 1..3 /\ DOMAIN r.tape = DOMAIN s.tape /\ i \in DOMAIN s.tape /\ r.tape[i].from = s.tape[i].from
  <2>1. TapeLaid(r.tape) /\ SameBut(s.tape, r.tape)
    BY DEF Summing
  <2>2. DOMAIN r.tape = 1..Len(r.tape) /\ Len(r.tape) = Len(s.tape) /\ Len(r.tape) \in Nat
    BY <2>1, ParamsLaid DEF SameBut
  <2>3. i \in DOMAIN r.tape
    BY <2>2
  <2>4. r.tape[i].from = s.tape[i].from /\ DOMAIN r.tape = DOMAIN s.tape
    BY <2>1, <2>3 DEF SameBut
  <2>5. r.tape[i] \in Entries(Weights, MaxParams)
    BY <2>1, <2>3, ParamsLaid
  <2>6. r.tape[i].from \in UNION {[1..n -> 0..MaxEntries] : n \in 0..3}
    BY <2>5 DEF Entries
  <2>7. PICK n \in 0..3 : s.tape[i].from \in [1..n -> 0..MaxEntries]
    BY <2>4, <2>6
  <2>8. K \subseteq 1..3
    BY <2>7 DEF Heirs
  <2> QED BY <2>3, <2>4, <2>8
<1>7. Parents(r, i, gives) = K
  BY <1>6 DEF Parents, Heirs
<1>8. Giving(r, i, gives, tape_acc_grad_gpu) = c
  BY <1>7 DEF Giving
<1>9. D3 = D \cup {<<i, k>> : k \in K}
  BY <1>6, PlusedAll
<1>10. TapeLaid(c.tape)
  BY <1>5 DEF Gave, Summing
<1>11. Gave(s, r, c, P, D \cup {<<i, k>> : k \in K}, loss, i)
  BY <1>5, <1>9
<1> QED BY <1>8, <1>10, <1>11, GaveOwed

\* Copies were moved, and tensors read, before.
LEMMA MovedBacked ==
  ASSUME NEW s, NEW r, NEW q, NEW z, NEW P, NEW D, NEW loss, NEW i, Moved(r, q), Backed(s, q, z, P, D, loss, i)
  PROVE  Backed(s, r, z, P, D, loss, i)
<1>1. \A j : HasGrad(q, j) <=> HasGrad(r, j)
  BY DEF Moved, HasGrad
<1> QED BY <1>1 DEF Backed, Gave, Above

\* The case's parents' values among uses.
LEMMA UsesPulled ==
  ASSUME NEW r, NEW i, NEW uses, NEW pulls, uses \subseteq pulls
  PROVE  ParentData(r, i, uses) \subseteq ParentData(r, i, pulls)
BY DEF ParentData, Parents

\* The shape of a case of nt_tape_backward gives each parent its contribution.
LEMMA CaseBacked ==
  ASSUME NEW s, NEW r, NEW P, NEW D, NEW loss \in Nat, NEW i \in 1..loss, loss <= Len(s.tape), Summing(s, r, P, D, loss),
         Clean(r, <<"grad", i>>, P),
         NEW onDevice \in BOOLEAN, NEW scratch \in BOOLEAN, NEW uses, NEW pulls, NEW gives, Fits(s.tape, i, gives),
         <<"backward", r.tape[i].op>> \in Pullers => uses \subseteq pulls
  PROVE  Backed(s, r, BackwardCase(r, i, onDevice, scratch, uses, pulls, gives), P, D, loss, i)
<1> PICK op : op = r.tape[i].op
  OBVIOUS
<1> PICK data : data = ParentData(r, i, uses)
  OBVIOUS
<1> PICK g : g = <<"grad", i>>
  OBVIOUS
<1> PICK ids : ids = data \cup {g}
  OBVIOUS
<1> PICK up : up = IF r.gpu /\ onDevice THEN Upload(r, ids) ELSE r
  OBVIOUS
<1> PICK z : z = BackwardCase(r, i, onDevice, scratch, uses, pulls, gives)
  OBVIOUS
<1>0. Sound(r, P)
  BY DEF Summing
<1>1. Sound(up, P) /\ Moved(r, up)
  BY <1>0, UploadSound, MovedNot
<1>2. CASE r.gpu /\ onDevice /\ OnDevice(up, ids) /\ (scratch => r.room # "none")
  <2>1. up = Upload(r, ids)
    BY <1>2
  <2>2. \A id \in ids : OnDevice(up, {id}) => Fresh(up, id, P)
    BY <1>0, <2>1, UploadSound
  <2>3. \A id \in ids : Fresh(up, id, P)
    BY ONLY <1>2, <2>2 DEF OnDevice
  <2>4. PICK q : q = DevReads(up, "backward", op, ids)
    OBVIOUS
  <2>5. Sound(q, P) /\ Moved(up, q)
    BY <1>1, <2>3, <2>4, DevReadsSound
  <2>6. Moved(r, q)
    BY ONLY <1>1, <2>5, MovedTwice
  <2>7. Summing(s, q, P, D, loss)
    BY <2>5, <2>6, MovedSums
  <2>10. s.gpu
    BY <1>2, <2>7 DEF Summing
  <2>8. Backed(s, q, Giving(q, i, gives, tape_acc_grad_gpu), P, D, loss, i)
    BY <2>7, <2>10, GivingDev
  <2>9. z = Giving(q, i, gives, tape_acc_grad_gpu)
    BY <1>2, <2>1, <2>4 DEF BackwardCase
  <2> QED BY <2>6, <2>8, <2>9, MovedBacked
<1>3. CASE ~(r.gpu /\ onDevice /\ OnDevice(up, ids) /\ (scratch => r.room # "none"))
  <2>1. PICK b : b = Pull(up, ParentData(r, i, pulls))
    OBVIOUS
  <2>2. Sound(b, P) /\ Moved(up, b) /\ \A id \in ParentData(r, i, pulls) : Clean(b, id, P)
    BY ONLY <1>1, <2>1, PullSound
  <2>3. Moved(r, b)
    BY ONLY <1>1, <2>2, MovedTwice
  <2>4. Clean(b, g, P)
    BY ONLY <2>3, Clean(r, g, P), Clean(r, <<"grad", i>>, P), g = <<"grad", i>>, MovedClean
  <2>5. <<"backward", op>> \in Pullers => \A id \in ids : Clean(b, id, P)
    <3>1. ASSUME <<"backward", op>> \in Pullers PROVE data \subseteq ParentData(r, i, pulls)
      BY <3>1, UsesPulled
    <3> QED BY ONLY <2>2, <2>4, <3>1, ids = data \cup {g}
  <2>6. PICK q : q = HostReads(b, "backward", op, ids)
    OBVIOUS
  <2>7. Sound(q, P) /\ Moved(b, q)
    BY ONLY <2>2, <2>5, <2>6, HostReadsSound
  <2>8. Moved(r, q)
    BY ONLY <2>3, <2>7, MovedTwice
  <2>9. Summing(s, q, P, D, loss)
    BY <2>7, <2>8, MovedSums
  <2>10. Backed(s, q, Giving(q, i, gives, tape_acc_grad), P, D, loss, i)
    BY <2>9, GivingHost
  <2>11. z = Giving(q, i, gives, tape_acc_grad)
    BY <1>3, <2>1, <2>6 DEF BackwardCase
  <2> QED BY <2>8, <2>10, <2>11, MovedBacked
<1> QED BY <1>2, <1>3

\* The backward loops that pull what they read.
PulledBack == {"ADD", "MUL", "SCALE", "SILU", "SCALE_BY_T", "RMSNORM", "EMB_LOOKUP", "SEQ_EMBED", "SEQ_RMSNORM",
               "MH_CAUSAL_ATTN", "RRPRAM_BCAST", "CONCAT", "SEQ_CROSSENT_MASKED", "ROPE", "SWIGLU", "acc_grad"}

\* The backward rules that fetch their operands to the host before reading them there.
LEMMA PulledBackward == \A op : <<"backward", op>> \in Pullers <=> op \in PulledBack
<1> SUFFICES ASSUME NEW op PROVE <<"backward", op>> \in Pullers <=> op \in PulledBack
  OBVIOUS
<1>1. /\ \A o : <<"backward", op>> # <<"forward", o>> /\ <<"backward", op>> # <<"update", o>>
      /\ \A o : <<"backward", op>> = <<"backward", o>> <=> op = o
  OBVIOUS
<1> QED BY <1>1, Zenon DEF Pullers, PulledBack

\* The cases that read their own output on the host.
LEMMA OwnBacked ==
  ASSUME NEW s, NEW r, NEW P, NEW D, NEW loss \in Nat, NEW i \in 1..loss, loss <= Len(s.tape), Summing(s, r, P, D, loss),
         Fits(s.tape, i, {1}), r.tape[i].op \notin PulledBack
  PROVE  Backed(s, r, BackwardOwn(r, i), P, D, loss, i)
<1> PICK op : op = r.tape[i].op
  OBVIOUS
<1> PICK ids : ids = {r.tape[i].data, <<"grad", i>>}
  OBVIOUS
<1> PICK q : q = HostReads(r, "backward", op, ids)
  OBVIOUS
<1>0. Sound(r, P)
  BY DEF Summing
<1>1. <<"backward", op>> \in Pullers => \A id \in ids : Clean(r, id, P)
  BY PulledBackward
<1>2. Sound(q, P) /\ Moved(r, q)
  BY ONLY <1>0, <1>1, HostReadsSound, q = HostReads(r, "backward", op, ids)
<1>3. Summing(s, q, P, D, loss)
  BY <1>2, MovedSums
<1>4. Backed(s, q, Giving(q, i, {1}, tape_acc_grad), P, D, loss, i)
  BY <1>3, GivingHost
<1>5. BackwardOwn(r, i) = Giving(q, i, {1}, tape_acc_grad)
  BY DEF BackwardOwn
<1> QED BY <1>2, <1>4, <1>5, MovedBacked

\* What is known of an entry whose turn has come.
Turn(s, r, P, D, loss, i) ==
  /\ loss \in Nat /\ i \in 1..loss /\ loss <= Len(s.tape) /\ Summing(s, r, P, D, loss) /\ Clean(r, <<"grad", i>>, P)
  /\ s.tape[i].op = r.tape[i].op /\ s.tape[i].alt = r.tape[i].alt /\ s.tape[i].from = r.tape[i].from
  /\ s.tape[i].alt \in BOOLEAN /\ s.tape[i].op \in TapeOps /\ i \in DOMAIN s.tape

\* An entry's turn: every entry above has given, and its own gradient is complete and on the host.
LEMMA TurnComes ==
  ASSUME NEW s, NEW r, NEW P, NEW D, NEW loss \in Nat, NEW i \in 1..loss, loss <= Len(s.tape), Summing(s, r, P, D, loss),
         Clean(r, <<"grad", i>>, P)
  PROVE  Turn(s, r, P, D, loss, i)
<1>1. TapeLaid(r.tape) /\ SameBut(s.tape, r.tape)
  BY DEF Summing
<1>2. DOMAIN r.tape = 1..Len(r.tape) /\ Len(r.tape) = Len(s.tape) /\ Len(r.tape) \in Nat
  BY <1>1, ParamsLaid DEF SameBut
<1>3. i \in DOMAIN r.tape
  BY <1>2
<1>4. r.tape[i] \in Entries(Weights, MaxParams)
  BY <1>1, <1>3, ParamsLaid
<1>5. r.tape[i].alt \in BOOLEAN /\ r.tape[i].op \in TapeOps
  BY <1>4 DEF Entries
<1>6. /\ s.tape[i].op = r.tape[i].op /\ s.tape[i].alt = r.tape[i].alt /\ s.tape[i].from = r.tape[i].from
      /\ i \in DOMAIN s.tape
  BY <1>1, <1>3 DEF SameBut
<1> QED BY <1>5, <1>6 DEF Turn

\* The uses of a loop that pulls are pulled.
PullsIts(op, uses, pulls) == op \in PulledBack => uses \subseteq pulls

\* One case, its parents and its pulls.
LEMMA LeafBacked ==
  ASSUME NEW s, NEW r, NEW P, NEW D, NEW loss, NEW i, Turn(s, r, P, D, loss, i),
         NEW onDevice \in BOOLEAN, NEW scratch \in BOOLEAN, NEW uses, NEW pulls, NEW gives, Fits(s.tape, i, gives),
         PullsIts(r.tape[i].op, uses, pulls)
  PROVE  Backed(s, r, BackwardCase(r, i, onDevice, scratch, uses, pulls, gives), P, D, loss, i)
<1>1. <<"backward", r.tape[i].op>> \in Pullers => uses \subseteq pulls
  BY PulledBackward DEF PullsIts
<1>2. loss \in Nat /\ i \in 1..loss /\ loss <= Len(s.tape) /\ Summing(s, r, P, D, loss) /\ Clean(r, <<"grad", i>>, P)
  BY DEF Turn
<1>3. onDevice \in BOOLEAN /\ scratch \in BOOLEAN /\ Fits(s.tape, i, gives)
  OBVIOUS
<1> QED BY ONLY <1>1, <1>2, <1>3, CaseBacked

\* The ADD case of nt_tape_backward gives the parents of such an entry what it owes them.
LEMMA AddBacked ==
  ASSUME NEW s, NEW r, NEW P, NEW D, NEW loss, NEW i, Turn(s, r, P, D, loss, i), r.tape[i].op = "ADD"
  PROVE  Backed(s, r, AddBackward(r, i), P, D, loss, i)
<1>1. s.tape[i].op = "ADD" /\ s.tape[i].alt = r.tape[i].alt /\ s.tape[i].alt \in BOOLEAN
  BY DEF Turn
<1> PICK d \in BOOLEAN : d = (r.tape[i].alt)
  BY <1>1
<1> PICK c \in BOOLEAN : c = FALSE
  OBVIOUS
<1> PICK uses : uses = {}
  OBVIOUS
<1> PICK pulls : pulls = {}
  OBVIOUS
<1> PICK gives : gives = {1, 2}
  OBVIOUS
<1>2. Fits(s.tape, i, gives)
  BY <1>1 DEF Fits, Differentiable
<1>3. PullsIts(r.tape[i].op, uses, pulls)
  BY DEF PullsIts, PulledBack
<1>4. Backed(s, r, BackwardCase(r, i, d, c, uses, pulls, gives), P, D, loss, i)
  BY ONLY <1>2, <1>3, LeafBacked, d \in BOOLEAN, c \in BOOLEAN, Turn(s, r, P, D, loss, i)
<1>5. AddBackward(r, i) = BackwardCase(r, i, d, c, uses, pulls, gives)
  BY DEF AddBackward
<1> QED BY <1>4, <1>5

\* The MUL case of nt_tape_backward gives the parents of such an entry what it owes them.
LEMMA MulBacked ==
  ASSUME NEW s, NEW r, NEW P, NEW D, NEW loss, NEW i, Turn(s, r, P, D, loss, i), r.tape[i].op = "MUL"
  PROVE  Backed(s, r, MulBackward(r, i), P, D, loss, i)
<1>1. s.tape[i].op = "MUL" /\ s.tape[i].alt = r.tape[i].alt /\ s.tape[i].alt \in BOOLEAN
  BY DEF Turn
<1> PICK d \in BOOLEAN : d = (TRUE)
  BY <1>1
<1> PICK c \in BOOLEAN : c = TRUE
  OBVIOUS
<1> PICK uses : uses = {1, 2}
  OBVIOUS
<1> PICK pulls : pulls = {1, 2}
  OBVIOUS
<1> PICK gives : gives = {1, 2}
  OBVIOUS
<1>2. Fits(s.tape, i, gives)
  BY <1>1 DEF Fits, Differentiable
<1>3. PullsIts(r.tape[i].op, uses, pulls)
  BY DEF PullsIts, PulledBack
<1>4. Backed(s, r, BackwardCase(r, i, d, c, uses, pulls, gives), P, D, loss, i)
  BY ONLY <1>2, <1>3, LeafBacked, d \in BOOLEAN, c \in BOOLEAN, Turn(s, r, P, D, loss, i)
<1>5. MulBackward(r, i) = BackwardCase(r, i, d, c, uses, pulls, gives)
  BY DEF MulBackward
<1> QED BY <1>4, <1>5

\* The SCALE case of nt_tape_backward gives the parents of such an entry what it owes them.
LEMMA ScaleBacked ==
  ASSUME NEW s, NEW r, NEW P, NEW D, NEW loss, NEW i, Turn(s, r, P, D, loss, i), r.tape[i].op = "SCALE"
  PROVE  Backed(s, r, ScaleBackward(r, i), P, D, loss, i)
<1>1. s.tape[i].op = "SCALE" /\ s.tape[i].alt = r.tape[i].alt /\ s.tape[i].alt \in BOOLEAN
  BY DEF Turn
<1> PICK d \in BOOLEAN : d = (TRUE)
  BY <1>1
<1> PICK c \in BOOLEAN : c = TRUE
  OBVIOUS
<1> PICK uses : uses = {}
  OBVIOUS
<1> PICK pulls : pulls = {}
  OBVIOUS
<1> PICK gives : gives = {1}
  OBVIOUS
<1>2. Fits(s.tape, i, gives)
  BY <1>1 DEF Fits, Differentiable
<1>3. PullsIts(r.tape[i].op, uses, pulls)
  BY DEF PullsIts, PulledBack
<1>4. Backed(s, r, BackwardCase(r, i, d, c, uses, pulls, gives), P, D, loss, i)
  BY ONLY <1>2, <1>3, LeafBacked, d \in BOOLEAN, c \in BOOLEAN, Turn(s, r, P, D, loss, i)
<1>5. ScaleBackward(r, i) = BackwardCase(r, i, d, c, uses, pulls, gives)
  BY DEF ScaleBackward
<1> QED BY <1>4, <1>5

\* The MATVEC case of nt_tape_backward gives the parents of such an entry what it owes them.
LEMMA MatvecBacked ==
  ASSUME NEW s, NEW r, NEW P, NEW D, NEW loss, NEW i, Turn(s, r, P, D, loss, i), r.tape[i].op = "MATVEC"
  PROVE  Backed(s, r, MatvecBackward(r, i), P, D, loss, i)
<1>1. s.tape[i].op = "MATVEC" /\ s.tape[i].alt = r.tape[i].alt /\ s.tape[i].alt \in BOOLEAN
  BY DEF Turn
<1> PICK d \in BOOLEAN : d = (FALSE)
  BY <1>1
<1> PICK c \in BOOLEAN : c = FALSE
  OBVIOUS
<1> PICK uses : uses = {1, 2}
  OBVIOUS
<1> PICK pulls : pulls = {}
  OBVIOUS
<1> PICK gives : gives = {1, 2}
  OBVIOUS
<1>2. Fits(s.tape, i, gives)
  BY <1>1 DEF Fits, Differentiable
<1>3. PullsIts(r.tape[i].op, uses, pulls)
  BY DEF PullsIts, PulledBack
<1>4. Backed(s, r, BackwardCase(r, i, d, c, uses, pulls, gives), P, D, loss, i)
  BY ONLY <1>2, <1>3, LeafBacked, d \in BOOLEAN, c \in BOOLEAN, Turn(s, r, P, D, loss, i)
<1>5. MatvecBackward(r, i) = BackwardCase(r, i, d, c, uses, pulls, gives)
  BY DEF MatvecBackward
<1> QED BY <1>4, <1>5

\* The SILU case of nt_tape_backward gives the parents of such an entry what it owes them.
LEMMA SiluBacked ==
  ASSUME NEW s, NEW r, NEW P, NEW D, NEW loss, NEW i, Turn(s, r, P, D, loss, i), r.tape[i].op = "SILU"
  PROVE  Backed(s, r, SiluBackward(r, i), P, D, loss, i)
<1>1. s.tape[i].op = "SILU" /\ s.tape[i].alt = r.tape[i].alt /\ s.tape[i].alt \in BOOLEAN
  BY DEF Turn
<1> PICK d \in BOOLEAN : d = (TRUE)
  BY <1>1
<1> PICK c \in BOOLEAN : c = TRUE
  OBVIOUS
<1> PICK uses : uses = {1}
  OBVIOUS
<1> PICK pulls : pulls = {1}
  OBVIOUS
<1> PICK gives : gives = {1}
  OBVIOUS
<1>2. Fits(s.tape, i, gives)
  BY <1>1 DEF Fits, Differentiable
<1>3. PullsIts(r.tape[i].op, uses, pulls)
  BY DEF PullsIts, PulledBack
<1>4. Backed(s, r, BackwardCase(r, i, d, c, uses, pulls, gives), P, D, loss, i)
  BY ONLY <1>2, <1>3, LeafBacked, d \in BOOLEAN, c \in BOOLEAN, Turn(s, r, P, D, loss, i)
<1>5. SiluBackward(r, i) = BackwardCase(r, i, d, c, uses, pulls, gives)
  BY DEF SiluBackward
<1> QED BY <1>4, <1>5

\* The SIGMOID case of nt_tape_backward gives the parents of such an entry what it owes them.
LEMMA SigmoidBacked ==
  ASSUME NEW s, NEW r, NEW P, NEW D, NEW loss, NEW i, Turn(s, r, P, D, loss, i), r.tape[i].op = "SIGMOID"
  PROVE  Backed(s, r, SigmoidBackward(r, i), P, D, loss, i)
<1>1. s.tape[i].op = "SIGMOID" /\ s.tape[i].alt = r.tape[i].alt /\ s.tape[i].alt \in BOOLEAN
  BY DEF Turn
<1>2. Fits(s.tape, i, {1})
  BY <1>1 DEF Fits, Differentiable
<1>3. loss \in Nat /\ i \in 1..loss /\ loss <= Len(s.tape) /\ Summing(s, r, P, D, loss)
  BY DEF Turn
<1>4. r.tape[i].op \notin PulledBack
  BY DEF PulledBack
<1> QED BY <1>2, <1>3, <1>4, OwnBacked DEF SigmoidBackward

\* The SCALE_BY_T case of nt_tape_backward gives the parents of such an entry what it owes them.
LEMMA ScaleByTBacked ==
  ASSUME NEW s, NEW r, NEW P, NEW D, NEW loss, NEW i, Turn(s, r, P, D, loss, i), r.tape[i].op = "SCALE_BY_T"
  PROVE  Backed(s, r, ScaleByTBackward(r, i), P, D, loss, i)
<1>1. s.tape[i].op = "SCALE_BY_T" /\ s.tape[i].alt = r.tape[i].alt /\ s.tape[i].alt \in BOOLEAN
  BY DEF Turn
<1> PICK d \in BOOLEAN : d = (FALSE)
  BY <1>1
<1> PICK c \in BOOLEAN : c = FALSE
  OBVIOUS
<1> PICK uses : uses = {1, 2}
  OBVIOUS
<1> PICK pulls : pulls = {1, 2}
  OBVIOUS
<1> PICK gives : gives = {1, 2}
  OBVIOUS
<1>2. Fits(s.tape, i, gives)
  BY <1>1 DEF Fits, Differentiable
<1>3. PullsIts(r.tape[i].op, uses, pulls)
  BY DEF PullsIts, PulledBack
<1>4. Backed(s, r, BackwardCase(r, i, d, c, uses, pulls, gives), P, D, loss, i)
  BY ONLY <1>2, <1>3, LeafBacked, d \in BOOLEAN, c \in BOOLEAN, Turn(s, r, P, D, loss, i)
<1>5. ScaleByTBackward(r, i) = BackwardCase(r, i, d, c, uses, pulls, gives)
  BY DEF ScaleByTBackward
<1> QED BY <1>4, <1>5

\* The SOFTMAX case of nt_tape_backward gives the parents of such an entry what it owes them.
LEMMA SoftmaxBacked ==
  ASSUME NEW s, NEW r, NEW P, NEW D, NEW loss, NEW i, Turn(s, r, P, D, loss, i), r.tape[i].op = "SOFTMAX"
  PROVE  Backed(s, r, SoftmaxBackward(r, i), P, D, loss, i)
<1>1. s.tape[i].op = "SOFTMAX" /\ s.tape[i].alt = r.tape[i].alt /\ s.tape[i].alt \in BOOLEAN
  BY DEF Turn
<1>2. Fits(s.tape, i, {1})
  BY <1>1 DEF Fits, Differentiable
<1>3. loss \in Nat /\ i \in 1..loss /\ loss <= Len(s.tape) /\ Summing(s, r, P, D, loss)
  BY DEF Turn
<1>4. r.tape[i].op \notin PulledBack
  BY DEF PulledBack
<1> QED BY <1>2, <1>3, <1>4, OwnBacked DEF SoftmaxBackward

\* The RMSNORM case of nt_tape_backward gives the parents of such an entry what it owes them.
LEMMA RmsnormBacked ==
  ASSUME NEW s, NEW r, NEW P, NEW D, NEW loss, NEW i, Turn(s, r, P, D, loss, i), r.tape[i].op = "RMSNORM"
  PROVE  Backed(s, r, RmsnormBackward(r, i), P, D, loss, i)
<1>1. s.tape[i].op = "RMSNORM" /\ s.tape[i].alt = r.tape[i].alt /\ s.tape[i].alt \in BOOLEAN
  BY DEF Turn
<1> PICK d \in BOOLEAN : d = (FALSE)
  BY <1>1
<1> PICK c \in BOOLEAN : c = FALSE
  OBVIOUS
<1> PICK uses : uses = {1, 2}
  OBVIOUS
<1> PICK pulls : pulls = {1, 2}
  OBVIOUS
<1> PICK gives : gives = {1, 2}
  OBVIOUS
<1>2. Fits(s.tape, i, gives)
  BY <1>1 DEF Fits, Differentiable
<1>3. PullsIts(r.tape[i].op, uses, pulls)
  BY DEF PullsIts, PulledBack
<1>4. Backed(s, r, BackwardCase(r, i, d, c, uses, pulls, gives), P, D, loss, i)
  BY ONLY <1>2, <1>3, LeafBacked, d \in BOOLEAN, c \in BOOLEAN, Turn(s, r, P, D, loss, i)
<1>5. RmsnormBackward(r, i) = BackwardCase(r, i, d, c, uses, pulls, gives)
  BY DEF RmsnormBackward
<1> QED BY <1>4, <1>5

\* The CROSS_ENT case of nt_tape_backward gives the parents of such an entry what it owes them.
LEMMA CrossEntBacked ==
  ASSUME NEW s, NEW r, NEW P, NEW D, NEW loss, NEW i, Turn(s, r, P, D, loss, i), r.tape[i].op = "CROSS_ENT"
  PROVE  Backed(s, r, CrossEntBackward(r, i), P, D, loss, i)
<1>1. s.tape[i].op = "CROSS_ENT" /\ s.tape[i].alt = r.tape[i].alt /\ s.tape[i].alt \in BOOLEAN
  BY DEF Turn
<1> PICK d \in BOOLEAN : d = (FALSE)
  BY <1>1
<1> PICK c \in BOOLEAN : c = FALSE
  OBVIOUS
<1> PICK uses : uses = {1}
  OBVIOUS
<1> PICK pulls : pulls = {}
  OBVIOUS
<1> PICK gives : gives = {1}
  OBVIOUS
<1>2. Fits(s.tape, i, gives)
  BY <1>1 DEF Fits, Differentiable
<1>3. PullsIts(r.tape[i].op, uses, pulls)
  BY DEF PullsIts, PulledBack
<1>4. Backed(s, r, BackwardCase(r, i, d, c, uses, pulls, gives), P, D, loss, i)
  BY ONLY <1>2, <1>3, LeafBacked, d \in BOOLEAN, c \in BOOLEAN, Turn(s, r, P, D, loss, i)
<1>5. CrossEntBackward(r, i) = BackwardCase(r, i, d, c, uses, pulls, gives)
  BY DEF CrossEntBackward
<1> QED BY <1>4, <1>5

\* The EMB_LOOKUP case of nt_tape_backward gives the parents of such an entry what it owes them.
LEMMA EmbLookupBacked ==
  ASSUME NEW s, NEW r, NEW P, NEW D, NEW loss, NEW i, Turn(s, r, P, D, loss, i), r.tape[i].op = "EMB_LOOKUP"
  PROVE  Backed(s, r, EmbLookupBackward(r, i), P, D, loss, i)
<1>1. s.tape[i].op = "EMB_LOOKUP" /\ s.tape[i].alt = r.tape[i].alt /\ s.tape[i].alt \in BOOLEAN
  BY DEF Turn
<1> PICK d \in BOOLEAN : d = (FALSE)
  BY <1>1
<1> PICK c \in BOOLEAN : c = FALSE
  OBVIOUS
<1> PICK uses : uses = {}
  OBVIOUS
<1> PICK pulls : pulls = {}
  OBVIOUS
<1> PICK gives : gives = {1}
  OBVIOUS
<1>2. Fits(s.tape, i, gives)
  BY <1>1 DEF Fits, Differentiable
<1>3. PullsIts(r.tape[i].op, uses, pulls)
  BY DEF PullsIts, PulledBack
<1>4. Backed(s, r, BackwardCase(r, i, d, c, uses, pulls, gives), P, D, loss, i)
  BY ONLY <1>2, <1>3, LeafBacked, d \in BOOLEAN, c \in BOOLEAN, Turn(s, r, P, D, loss, i)
<1>5. EmbLookupBackward(r, i) = BackwardCase(r, i, d, c, uses, pulls, gives)
  BY DEF EmbLookupBackward
<1> QED BY <1>4, <1>5

\* The SEQ_EMBED case of nt_tape_backward gives the parents of such an entry what it owes them.
LEMMA SeqEmbedBacked ==
  ASSUME NEW s, NEW r, NEW P, NEW D, NEW loss, NEW i, Turn(s, r, P, D, loss, i), r.tape[i].op = "SEQ_EMBED"
  PROVE  Backed(s, r, SeqEmbedBackward(r, i), P, D, loss, i)
<1>1. s.tape[i].op = "SEQ_EMBED" /\ s.tape[i].alt = r.tape[i].alt /\ s.tape[i].alt \in BOOLEAN
  BY DEF Turn
<1> PICK d \in BOOLEAN : d = (r.tape[i].from[2] = 0)
  BY <1>1
<1> PICK c \in BOOLEAN : c = TRUE
  OBVIOUS
<1> PICK uses : uses = {3}
  OBVIOUS
<1> PICK pulls : pulls = {3}
  OBVIOUS
<1> PICK gives : gives = {1, 2}
  OBVIOUS
<1>2. Fits(s.tape, i, gives)
  BY <1>1 DEF Fits, Differentiable
<1>3. PullsIts(r.tape[i].op, uses, pulls)
  BY DEF PullsIts, PulledBack
<1>4. Backed(s, r, BackwardCase(r, i, d, c, uses, pulls, gives), P, D, loss, i)
  BY ONLY <1>2, <1>3, LeafBacked, d \in BOOLEAN, c \in BOOLEAN, Turn(s, r, P, D, loss, i)
<1>5. SeqEmbedBackward(r, i) = BackwardCase(r, i, d, c, uses, pulls, gives)
  BY DEF SeqEmbedBackward
<1> QED BY <1>4, <1>5

\* The SEQ_RMSNORM case of nt_tape_backward gives the parents of such an entry what it owes them.
LEMMA SeqRmsnormBacked ==
  ASSUME NEW s, NEW r, NEW P, NEW D, NEW loss, NEW i, Turn(s, r, P, D, loss, i), r.tape[i].op = "SEQ_RMSNORM"
  PROVE  Backed(s, r, SeqRmsnormBackward(r, i), P, D, loss, i)
<1>1. s.tape[i].op = "SEQ_RMSNORM" /\ s.tape[i].alt = r.tape[i].alt /\ s.tape[i].alt \in BOOLEAN
  BY DEF Turn
<1> PICK d \in BOOLEAN : d = (TRUE)
  BY <1>1
<1> PICK c \in BOOLEAN : c = TRUE
  OBVIOUS
<1> PICK uses : uses = {1, 2}
  OBVIOUS
<1> PICK pulls : pulls = {1, 2}
  OBVIOUS
<1> PICK gives : gives = {1, 2}
  OBVIOUS
<1>2. Fits(s.tape, i, gives)
  BY <1>1 DEF Fits, Differentiable
<1>3. PullsIts(r.tape[i].op, uses, pulls)
  BY DEF PullsIts, PulledBack
<1>4. Backed(s, r, BackwardCase(r, i, d, c, uses, pulls, gives), P, D, loss, i)
  BY ONLY <1>2, <1>3, LeafBacked, d \in BOOLEAN, c \in BOOLEAN, Turn(s, r, P, D, loss, i)
<1>5. SeqRmsnormBackward(r, i) = BackwardCase(r, i, d, c, uses, pulls, gives)
  BY DEF SeqRmsnormBackward
<1> QED BY <1>4, <1>5

\* The CAUSAL_ATTN case of nt_tape_backward gives the parents of such an entry what it owes them.
LEMMA CausalBacked ==
  ASSUME NEW s, NEW r, NEW P, NEW D, NEW loss, NEW i, Turn(s, r, P, D, loss, i), r.tape[i].op = "CAUSAL_ATTN"
  PROVE  Backed(s, r, CausalBackward(r, i), P, D, loss, i)
<1>1. s.tape[i].op = "CAUSAL_ATTN" /\ s.tape[i].alt = r.tape[i].alt /\ s.tape[i].alt \in BOOLEAN
  BY DEF Turn
<1> PICK d \in BOOLEAN : d = (FALSE)
  BY <1>1
<1> PICK c \in BOOLEAN : c = FALSE
  OBVIOUS
<1> PICK uses : uses = {1, 2, 3}
  OBVIOUS
<1> PICK pulls : pulls = {}
  OBVIOUS
<1> PICK gives : gives = {1, 2, 3}
  OBVIOUS
<1>2. Fits(s.tape, i, gives)
  BY <1>1 DEF Fits, Differentiable
<1>3. PullsIts(r.tape[i].op, uses, pulls)
  BY DEF PullsIts, PulledBack
<1>4. Backed(s, r, BackwardCase(r, i, d, c, uses, pulls, gives), P, D, loss, i)
  BY ONLY <1>2, <1>3, LeafBacked, d \in BOOLEAN, c \in BOOLEAN, Turn(s, r, P, D, loss, i)
<1>5. CausalBackward(r, i) = BackwardCase(r, i, d, c, uses, pulls, gives)
  BY DEF CausalBackward
<1> QED BY <1>4, <1>5

\* The MH_CAUSAL_ATTN case of nt_tape_backward gives the parents of such an entry what it owes them.
LEMMA MhCausalBacked ==
  ASSUME NEW s, NEW r, NEW P, NEW D, NEW loss, NEW i, Turn(s, r, P, D, loss, i), r.tape[i].op = "MH_CAUSAL_ATTN"
  PROVE  Backed(s, r, MhCausalBackward(r, i), P, D, loss, i)
<1>1. s.tape[i].op = "MH_CAUSAL_ATTN" /\ s.tape[i].alt = r.tape[i].alt /\ s.tape[i].alt \in BOOLEAN
  BY DEF Turn
<1> PICK d \in BOOLEAN : d = (r.tape[i].alt)
  BY <1>1
<1> PICK c \in BOOLEAN : c = TRUE
  OBVIOUS
<1> PICK uses : uses = {1, 2, 3}
  OBVIOUS
<1> PICK pulls : pulls = {1, 2, 3}
  OBVIOUS
<1> PICK gives : gives = {1, 2, 3}
  OBVIOUS
<1>2. Fits(s.tape, i, gives)
  BY <1>1 DEF Fits, Differentiable
<1>3. PullsIts(r.tape[i].op, uses, pulls)
  BY DEF PullsIts, PulledBack
<1>4. Backed(s, r, BackwardCase(r, i, d, c, uses, pulls, gives), P, D, loss, i)
  BY ONLY <1>2, <1>3, LeafBacked, d \in BOOLEAN, c \in BOOLEAN, Turn(s, r, P, D, loss, i)
<1>5. MhCausalBackward(r, i) = BackwardCase(r, i, d, c, uses, pulls, gives)
  BY DEF MhCausalBackward
<1> QED BY <1>4, <1>5

\* The GQA_ATTN case of nt_tape_backward gives the parents of such an entry what it owes them.
LEMMA GqaBacked ==
  ASSUME NEW s, NEW r, NEW P, NEW D, NEW loss, NEW i, Turn(s, r, P, D, loss, i), r.tape[i].op = "GQA_ATTN"
  PROVE  Backed(s, r, GqaBackward(r, i), P, D, loss, i)
<1>1. s.tape[i].op = "GQA_ATTN" /\ s.tape[i].alt = r.tape[i].alt /\ s.tape[i].alt \in BOOLEAN
  BY DEF Turn
<1> PICK d \in BOOLEAN : d = (FALSE)
  BY <1>1
<1> PICK c \in BOOLEAN : c = FALSE
  OBVIOUS
<1> PICK uses : uses = {1, 2, 3}
  OBVIOUS
<1> PICK pulls : pulls = {}
  OBVIOUS
<1> PICK gives : gives = {1, 2, 3}
  OBVIOUS
<1>2. Fits(s.tape, i, gives)
  BY <1>1 DEF Fits, Differentiable
<1>3. PullsIts(r.tape[i].op, uses, pulls)
  BY DEF PullsIts, PulledBack
<1>4. Backed(s, r, BackwardCase(r, i, d, c, uses, pulls, gives), P, D, loss, i)
  BY ONLY <1>2, <1>3, LeafBacked, d \in BOOLEAN, c \in BOOLEAN, Turn(s, r, P, D, loss, i)
<1>5. GqaBackward(r, i) = BackwardCase(r, i, d, c, uses, pulls, gives)
  BY DEF GqaBackward
<1> QED BY <1>4, <1>5

\* The RRPRAM_LR case of nt_tape_backward gives the parents of such an entry what it owes them.
LEMMA RrpramLrBacked ==
  ASSUME NEW s, NEW r, NEW P, NEW D, NEW loss, NEW i, Turn(s, r, P, D, loss, i), r.tape[i].op = "RRPRAM_LR"
  PROVE  Backed(s, r, RrpramLrBackward(r, i), P, D, loss, i)
<1>1. s.tape[i].op = "RRPRAM_LR" /\ s.tape[i].alt = r.tape[i].alt /\ s.tape[i].alt \in BOOLEAN
  BY DEF Turn
<1> PICK d \in BOOLEAN : d = (TRUE)
  BY <1>1
<1> PICK c \in BOOLEAN : c = TRUE
  OBVIOUS
<1> PICK uses : uses = {1, 2, 3}
  OBVIOUS
<1> PICK pulls : pulls = {}
  OBVIOUS
<1> PICK gives : gives = {1, 2, 3}
  OBVIOUS
<1>2. Fits(s.tape, i, gives)
  BY <1>1 DEF Fits, Differentiable
<1>3. PullsIts(r.tape[i].op, uses, pulls)
  BY DEF PullsIts, PulledBack
<1>4. Backed(s, r, BackwardCase(r, i, d, c, uses, pulls, gives), P, D, loss, i)
  BY ONLY <1>2, <1>3, LeafBacked, d \in BOOLEAN, c \in BOOLEAN, Turn(s, r, P, D, loss, i)
<1>5. RrpramLrBackward(r, i) = BackwardCase(r, i, d, c, uses, pulls, gives)
  BY DEF RrpramLrBackward
<1> QED BY <1>4, <1>5

\* The RRPRAM_BCAST case of nt_tape_backward gives the parents of such an entry what it owes them.
LEMMA RrpramBcastBacked ==
  ASSUME NEW s, NEW r, NEW P, NEW D, NEW loss, NEW i, Turn(s, r, P, D, loss, i), r.tape[i].op = "RRPRAM_BCAST"
  PROVE  Backed(s, r, RrpramBcastBackward(r, i), P, D, loss, i)
<1>1. s.tape[i].op = "RRPRAM_BCAST" /\ s.tape[i].alt = r.tape[i].alt /\ s.tape[i].alt \in BOOLEAN
  BY DEF Turn
<1> PICK d \in BOOLEAN : d = (FALSE)
  BY <1>1
<1> PICK c \in BOOLEAN : c = FALSE
  OBVIOUS
<1> PICK uses : uses = {1, 2, 3}
  OBVIOUS
<1> PICK pulls : pulls = {1, 2, 3}
  OBVIOUS
<1> PICK gives : gives = {1, 2, 3}
  OBVIOUS
<1>2. Fits(s.tape, i, gives)
  BY <1>1 DEF Fits, Differentiable
<1>3. PullsIts(r.tape[i].op, uses, pulls)
  BY DEF PullsIts, PulledBack
<1>4. Backed(s, r, BackwardCase(r, i, d, c, uses, pulls, gives), P, D, loss, i)
  BY ONLY <1>2, <1>3, LeafBacked, d \in BOOLEAN, c \in BOOLEAN, Turn(s, r, P, D, loss, i)
<1>5. RrpramBcastBackward(r, i) = BackwardCase(r, i, d, c, uses, pulls, gives)
  BY DEF RrpramBcastBackward
<1> QED BY <1>4, <1>5

\* The RRPRAM_ATTN case of nt_tape_backward gives the parents of such an entry what it owes them.
LEMMA RrpramAttnBacked ==
  ASSUME NEW s, NEW r, NEW P, NEW D, NEW loss, NEW i, Turn(s, r, P, D, loss, i), r.tape[i].op = "RRPRAM_ATTN"
  PROVE  Backed(s, r, RrpramAttnBackward(r, i), P, D, loss, i)
<1>1. s.tape[i].op = "RRPRAM_ATTN" /\ s.tape[i].alt = r.tape[i].alt /\ s.tape[i].alt \in BOOLEAN
  BY DEF Turn
<1> PICK d \in BOOLEAN : d = (FALSE)
  BY <1>1
<1> PICK c \in BOOLEAN : c = FALSE
  OBVIOUS
<1> PICK uses : uses = {1, 2, 3}
  OBVIOUS
<1> PICK pulls : pulls = {}
  OBVIOUS
<1> PICK gives : gives = {1, 2, 3}
  OBVIOUS
<1>2. Fits(s.tape, i, gives)
  BY <1>1 DEF Fits, Differentiable
<1>3. PullsIts(r.tape[i].op, uses, pulls)
  BY DEF PullsIts, PulledBack
<1>4. Backed(s, r, BackwardCase(r, i, d, c, uses, pulls, gives), P, D, loss, i)
  BY ONLY <1>2, <1>3, LeafBacked, d \in BOOLEAN, c \in BOOLEAN, Turn(s, r, P, D, loss, i)
<1>5. RrpramAttnBackward(r, i) = BackwardCase(r, i, d, c, uses, pulls, gives)
  BY DEF RrpramAttnBackward
<1> QED BY <1>4, <1>5

\* The CONCAT case of nt_tape_backward gives the parents of such an entry what it owes them.
LEMMA ConcatBacked ==
  ASSUME NEW s, NEW r, NEW P, NEW D, NEW loss, NEW i, Turn(s, r, P, D, loss, i), r.tape[i].op = "CONCAT"
  PROVE  Backed(s, r, ConcatBackward(r, i), P, D, loss, i)
<1>1. s.tape[i].op = "CONCAT" /\ s.tape[i].alt = r.tape[i].alt /\ s.tape[i].alt \in BOOLEAN
  BY DEF Turn
<1> PICK d \in BOOLEAN : d = (FALSE)
  BY <1>1
<1> PICK c \in BOOLEAN : c = FALSE
  OBVIOUS
<1> PICK uses : uses = {}
  OBVIOUS
<1> PICK pulls : pulls = {}
  OBVIOUS
<1> PICK gives : gives = {1, 2}
  OBVIOUS
<1>2. Fits(s.tape, i, gives)
  BY <1>1 DEF Fits, Differentiable
<1>3. PullsIts(r.tape[i].op, uses, pulls)
  BY DEF PullsIts, PulledBack
<1>4. Backed(s, r, BackwardCase(r, i, d, c, uses, pulls, gives), P, D, loss, i)
  BY ONLY <1>2, <1>3, LeafBacked, d \in BOOLEAN, c \in BOOLEAN, Turn(s, r, P, D, loss, i)
<1>5. ConcatBackward(r, i) = BackwardCase(r, i, d, c, uses, pulls, gives)
  BY DEF ConcatBackward
<1> QED BY <1>4, <1>5

\* The SEQ_CROSSENT_MASKED case of nt_tape_backward gives the parents of such an entry what it owes
\* them.
LEMMA SeqCrossentMaskedBacked ==
  ASSUME NEW s, NEW r, NEW P, NEW D, NEW loss, NEW i, Turn(s, r, P, D, loss, i), r.tape[i].op = "SEQ_CROSSENT_MASKED"
  PROVE  Backed(s, r, SeqCrossentMaskedBackward(r, i), P, D, loss, i)
<1>1. s.tape[i].op = "SEQ_CROSSENT_MASKED" /\ s.tape[i].alt = r.tape[i].alt /\ s.tape[i].alt \in BOOLEAN
  BY DEF Turn
<1> PICK d \in BOOLEAN : d = (FALSE)
  BY <1>1
<1> PICK c \in BOOLEAN : c = FALSE
  OBVIOUS
<1> PICK uses : uses = {1, 2, 3}
  OBVIOUS
<1> PICK pulls : pulls = {1, 2, 3}
  OBVIOUS
<1> PICK gives : gives = IF r.tape[i].alt THEN {1} ELSE {}
  OBVIOUS
<1>2. Fits(s.tape, i, gives)
  BY <1>1 DEF Fits, Differentiable
<1>3. PullsIts(r.tape[i].op, uses, pulls)
  BY DEF PullsIts, PulledBack
<1>4. Backed(s, r, BackwardCase(r, i, d, c, uses, pulls, gives), P, D, loss, i)
  BY ONLY <1>2, <1>3, LeafBacked, d \in BOOLEAN, c \in BOOLEAN, Turn(s, r, P, D, loss, i)
<1>5. SeqCrossentMaskedBackward(r, i) = BackwardCase(r, i, d, c, uses, pulls, gives)
  BY DEF SeqCrossentMaskedBackward
<1> QED BY <1>4, <1>5

\* The GEGLU case of nt_tape_backward gives the parents of such an entry what it owes them.
LEMMA GegluBacked ==
  ASSUME NEW s, NEW r, NEW P, NEW D, NEW loss, NEW i, Turn(s, r, P, D, loss, i), r.tape[i].op = "GEGLU"
  PROVE  Backed(s, r, GegluBackward(r, i), P, D, loss, i)
<1>1. s.tape[i].op = "GEGLU" /\ s.tape[i].alt = r.tape[i].alt /\ s.tape[i].alt \in BOOLEAN
  BY DEF Turn
<1> PICK d \in BOOLEAN : d = (FALSE)
  BY <1>1
<1> PICK c \in BOOLEAN : c = FALSE
  OBVIOUS
<1> PICK uses : uses = {1, 2, 3}
  OBVIOUS
<1> PICK pulls : pulls = {}
  OBVIOUS
<1> PICK gives : gives = {1, 2, 3}
  OBVIOUS
<1>2. Fits(s.tape, i, gives)
  BY <1>1 DEF Fits, Differentiable
<1>3. PullsIts(r.tape[i].op, uses, pulls)
  BY DEF PullsIts, PulledBack
<1>4. Backed(s, r, BackwardCase(r, i, d, c, uses, pulls, gives), P, D, loss, i)
  BY ONLY <1>2, <1>3, LeafBacked, d \in BOOLEAN, c \in BOOLEAN, Turn(s, r, P, D, loss, i)
<1>5. GegluBackward(r, i) = BackwardCase(r, i, d, c, uses, pulls, gives)
  BY DEF GegluBackward
<1> QED BY <1>4, <1>5

\* The DROPOUT case of nt_tape_backward gives the parents of such an entry what it owes them.
LEMMA DropoutBacked ==
  ASSUME NEW s, NEW r, NEW P, NEW D, NEW loss, NEW i, Turn(s, r, P, D, loss, i), r.tape[i].op = "DROPOUT"
  PROVE  Backed(s, r, DropoutBackward(r, i), P, D, loss, i)
<1>1. s.tape[i].op = "DROPOUT" /\ s.tape[i].alt = r.tape[i].alt /\ s.tape[i].alt \in BOOLEAN
  BY DEF Turn
<1>2. Fits(s.tape, i, {1})
  BY <1>1 DEF Fits, Differentiable
<1>3. loss \in Nat /\ i \in 1..loss /\ loss <= Len(s.tape) /\ Summing(s, r, P, D, loss)
  BY DEF Turn
<1>4. r.tape[i].op \notin PulledBack
  BY DEF PulledBack
<1> QED BY <1>2, <1>3, <1>4, OwnBacked DEF DropoutBackward

\* The GELU case of nt_tape_backward gives the parents of such an entry what it owes them.
LEMMA GeluBacked ==
  ASSUME NEW s, NEW r, NEW P, NEW D, NEW loss, NEW i, Turn(s, r, P, D, loss, i), r.tape[i].op = "GELU"
  PROVE  Backed(s, r, GeluBackward(r, i), P, D, loss, i)
<1>1. s.tape[i].op = "GELU" /\ s.tape[i].alt = r.tape[i].alt /\ s.tape[i].alt \in BOOLEAN
  BY DEF Turn
<1> PICK d \in BOOLEAN : d = (FALSE)
  BY <1>1
<1> PICK c \in BOOLEAN : c = FALSE
  OBVIOUS
<1> PICK uses : uses = {1}
  OBVIOUS
<1> PICK pulls : pulls = {}
  OBVIOUS
<1> PICK gives : gives = {1}
  OBVIOUS
<1>2. Fits(s.tape, i, gives)
  BY <1>1 DEF Fits, Differentiable
<1>3. PullsIts(r.tape[i].op, uses, pulls)
  BY DEF PullsIts, PulledBack
<1>4. Backed(s, r, BackwardCase(r, i, d, c, uses, pulls, gives), P, D, loss, i)
  BY ONLY <1>2, <1>3, LeafBacked, d \in BOOLEAN, c \in BOOLEAN, Turn(s, r, P, D, loss, i)
<1>5. GeluBackward(r, i) = BackwardCase(r, i, d, c, uses, pulls, gives)
  BY DEF GeluBackward
<1> QED BY <1>4, <1>5

\* The LAYERNORM case of nt_tape_backward gives the parents of such an entry what it owes them.
LEMMA LayernormBacked ==
  ASSUME NEW s, NEW r, NEW P, NEW D, NEW loss, NEW i, Turn(s, r, P, D, loss, i), r.tape[i].op = "LAYERNORM"
  PROVE  Backed(s, r, LayernormBackward(r, i), P, D, loss, i)
<1>1. s.tape[i].op = "LAYERNORM" /\ s.tape[i].alt = r.tape[i].alt /\ s.tape[i].alt \in BOOLEAN
  BY DEF Turn
<1> PICK d \in BOOLEAN : d = (FALSE)
  BY <1>1
<1> PICK c \in BOOLEAN : c = FALSE
  OBVIOUS
<1> PICK uses : uses = {1, 2}
  OBVIOUS
<1> PICK pulls : pulls = {}
  OBVIOUS
<1> PICK gives : gives = {1, 2, 3}
  OBVIOUS
<1>2. Fits(s.tape, i, gives)
  BY <1>1 DEF Fits, Differentiable
<1>3. PullsIts(r.tape[i].op, uses, pulls)
  BY DEF PullsIts, PulledBack
<1>4. Backed(s, r, BackwardCase(r, i, d, c, uses, pulls, gives), P, D, loss, i)
  BY ONLY <1>2, <1>3, LeafBacked, d \in BOOLEAN, c \in BOOLEAN, Turn(s, r, P, D, loss, i)
<1>5. LayernormBackward(r, i) = BackwardCase(r, i, d, c, uses, pulls, gives)
  BY DEF LayernormBackward
<1> QED BY <1>4, <1>5

\* The SEQ_LAYERNORM case of nt_tape_backward gives the parents of such an entry what it owes them.
LEMMA SeqLayernormBacked ==
  ASSUME NEW s, NEW r, NEW P, NEW D, NEW loss, NEW i, Turn(s, r, P, D, loss, i), r.tape[i].op = "SEQ_LAYERNORM"
  PROVE  Backed(s, r, SeqLayernormBackward(r, i), P, D, loss, i)
<1>1. s.tape[i].op = "SEQ_LAYERNORM" /\ s.tape[i].alt = r.tape[i].alt /\ s.tape[i].alt \in BOOLEAN
  BY DEF Turn
<1> PICK d \in BOOLEAN : d = (FALSE)
  BY <1>1
<1> PICK c \in BOOLEAN : c = FALSE
  OBVIOUS
<1> PICK uses : uses = {1, 2}
  OBVIOUS
<1> PICK pulls : pulls = {}
  OBVIOUS
<1> PICK gives : gives = {1, 2, 3}
  OBVIOUS
<1>2. Fits(s.tape, i, gives)
  BY <1>1 DEF Fits, Differentiable
<1>3. PullsIts(r.tape[i].op, uses, pulls)
  BY DEF PullsIts, PulledBack
<1>4. Backed(s, r, BackwardCase(r, i, d, c, uses, pulls, gives), P, D, loss, i)
  BY ONLY <1>2, <1>3, LeafBacked, d \in BOOLEAN, c \in BOOLEAN, Turn(s, r, P, D, loss, i)
<1>5. SeqLayernormBackward(r, i) = BackwardCase(r, i, d, c, uses, pulls, gives)
  BY DEF SeqLayernormBackward
<1> QED BY <1>4, <1>5

\* The ROPE case of nt_tape_backward gives the parents of such an entry what it owes them.
LEMMA RopeBacked ==
  ASSUME NEW s, NEW r, NEW P, NEW D, NEW loss, NEW i, Turn(s, r, P, D, loss, i), r.tape[i].op = "ROPE"
  PROVE  Backed(s, r, RopeBackward(r, i), P, D, loss, i)
<1>1. s.tape[i].op = "ROPE" /\ s.tape[i].alt = r.tape[i].alt /\ s.tape[i].alt \in BOOLEAN
  BY DEF Turn
<1> PICK d \in BOOLEAN : d = (~r.tape[i].alt)
  BY <1>1
<1> PICK c \in BOOLEAN : c = TRUE
  OBVIOUS
<1> PICK uses : uses = {}
  OBVIOUS
<1> PICK pulls : pulls = {}
  OBVIOUS
<1> PICK gives : gives = {1}
  OBVIOUS
<1>2. Fits(s.tape, i, gives)
  BY <1>1 DEF Fits, Differentiable
<1>3. PullsIts(r.tape[i].op, uses, pulls)
  BY DEF PullsIts, PulledBack
<1>4. Backed(s, r, BackwardCase(r, i, d, c, uses, pulls, gives), P, D, loss, i)
  BY ONLY <1>2, <1>3, LeafBacked, d \in BOOLEAN, c \in BOOLEAN, Turn(s, r, P, D, loss, i)
<1>5. RopeBackward(r, i) = BackwardCase(r, i, d, c, uses, pulls, gives)
  BY DEF RopeBackward
<1> QED BY <1>4, <1>5

\* The SWIGLU case of nt_tape_backward gives the parents of such an entry what it owes them.
LEMMA SwigluBacked ==
  ASSUME NEW s, NEW r, NEW P, NEW D, NEW loss, NEW i, Turn(s, r, P, D, loss, i), r.tape[i].op = "SWIGLU"
  PROVE  Backed(s, r, SwigluBackward(r, i), P, D, loss, i)
<1>1. s.tape[i].op = "SWIGLU" /\ s.tape[i].alt = r.tape[i].alt /\ s.tape[i].alt \in BOOLEAN
  BY DEF Turn
<1> PICK d \in BOOLEAN : d = (TRUE)
  BY <1>1
<1> PICK c \in BOOLEAN : c = TRUE
  OBVIOUS
<1> PICK uses : uses = {1, 2}
  OBVIOUS
<1> PICK pulls : pulls = {1, 2}
  OBVIOUS
<1> PICK gives : gives = {1, 2}
  OBVIOUS
<1>2. Fits(s.tape, i, gives)
  BY <1>1 DEF Fits, Differentiable
<1>3. PullsIts(r.tape[i].op, uses, pulls)
  BY DEF PullsIts, PulledBack
<1>4. Backed(s, r, BackwardCase(r, i, d, c, uses, pulls, gives), P, D, loss, i)
  BY ONLY <1>2, <1>3, LeafBacked, d \in BOOLEAN, c \in BOOLEAN, Turn(s, r, P, D, loss, i)
<1>5. SwigluBackward(r, i) = BackwardCase(r, i, d, c, uses, pulls, gives)
  BY DEF SwigluBackward
<1> QED BY <1>4, <1>5

\* The BIT_LINEAR case of nt_tape_backward gives the parents of such an entry what it owes them.
LEMMA BitLinearBacked ==
  ASSUME NEW s, NEW r, NEW P, NEW D, NEW loss, NEW i, Turn(s, r, P, D, loss, i), r.tape[i].op = "BIT_LINEAR"
  PROVE  Backed(s, r, BitLinearBackward(r, i), P, D, loss, i)
<1>1. s.tape[i].op = "BIT_LINEAR" /\ s.tape[i].alt = r.tape[i].alt /\ s.tape[i].alt \in BOOLEAN
  BY DEF Turn
<1> PICK d \in BOOLEAN : d = (FALSE)
  BY <1>1
<1> PICK c \in BOOLEAN : c = FALSE
  OBVIOUS
<1> PICK uses : uses = {1, 2}
  OBVIOUS
<1> PICK pulls : pulls = {}
  OBVIOUS
<1> PICK gives : gives = {1, 2}
  OBVIOUS
<1>2. Fits(s.tape, i, gives)
  BY <1>1 DEF Fits, Differentiable
<1>3. PullsIts(r.tape[i].op, uses, pulls)
  BY DEF PullsIts, PulledBack
<1>4. Backed(s, r, BackwardCase(r, i, d, c, uses, pulls, gives), P, D, loss, i)
  BY ONLY <1>2, <1>3, LeafBacked, d \in BOOLEAN, c \in BOOLEAN, Turn(s, r, P, D, loss, i)
<1>5. BitLinearBackward(r, i) = BackwardCase(r, i, d, c, uses, pulls, gives)
  BY DEF BitLinearBackward
<1> QED BY <1>4, <1>5

\* The BIT_SEQ_LINEAR case of nt_tape_backward gives the parents of such an entry what it owes them.
LEMMA BitSeqLinearBacked ==
  ASSUME NEW s, NEW r, NEW P, NEW D, NEW loss, NEW i, Turn(s, r, P, D, loss, i), r.tape[i].op = "BIT_SEQ_LINEAR"
  PROVE  Backed(s, r, BitSeqLinearBackward(r, i), P, D, loss, i)
<1>1. s.tape[i].op = "BIT_SEQ_LINEAR" /\ s.tape[i].alt = r.tape[i].alt /\ s.tape[i].alt \in BOOLEAN
  BY DEF Turn
<1> PICK d \in BOOLEAN : d = (FALSE)
  BY <1>1
<1> PICK c \in BOOLEAN : c = FALSE
  OBVIOUS
<1> PICK uses : uses = {1, 2}
  OBVIOUS
<1> PICK pulls : pulls = {}
  OBVIOUS
<1> PICK gives : gives = {1, 2}
  OBVIOUS
<1>2. Fits(s.tape, i, gives)
  BY <1>1 DEF Fits, Differentiable
<1>3. PullsIts(r.tape[i].op, uses, pulls)
  BY DEF PullsIts, PulledBack
<1>4. Backed(s, r, BackwardCase(r, i, d, c, uses, pulls, gives), P, D, loss, i)
  BY ONLY <1>2, <1>3, LeafBacked, d \in BOOLEAN, c \in BOOLEAN, Turn(s, r, P, D, loss, i)
<1>5. BitSeqLinearBackward(r, i) = BackwardCase(r, i, d, c, uses, pulls, gives)
  BY DEF BitSeqLinearBackward
<1> QED BY <1>4, <1>5

\* nt_seq_linear's case: the kernel, or the host's products of what is not frozen.
LEMMA SeqMatvecBacked ==
  ASSUME NEW s, NEW r, NEW P, NEW D, NEW loss, NEW i, Turn(s, r, P, D, loss, i), r.tape[i].op = "SEQ_MATVEC"
  PROVE  Backed(s, r, SeqMatvecBackward(r, i), P, D, loss, i)
<1> PICK live : live = {k \in {1, 2} : ~r.tape[r.tape[i].from[k]].frozen}
  OBVIOUS
<1>1. s.tape[i].op = "SEQ_MATVEC" /\ loss \in Nat /\ i \in 1..loss /\ loss <= Len(s.tape) /\ Summing(s, r, P, D, loss)
      /\ s.tape[i].from = r.tape[i].from
  BY DEF Turn
<1>2. Fits(s.tape, i, live)
  <2> SUFFICES ASSUME NEW k \in DOMAIN s.tape[i].from, s.tape[i].from[k] # 0, ~s.tape[s.tape[i].from[k]].frozen
      PROVE k \in live <=> k \in {1, 2}
    BY <1>1 DEF Fits, Differentiable
  <2>1. s.tape[i].from[k] \in DOMAIN s.tape
    BY <1>1, ParentPlace
  <2>2. r.tape[s.tape[i].from[k]].frozen = s.tape[s.tape[i].from[k]].frozen
    BY <1>1, <2>1 DEF Summing, SameBut
  <2> QED BY <1>1, <2>2
<1>3. \A uses, pulls : PullsIts(r.tape[i].op, uses, pulls)
  BY DEF PullsIts, PulledBack
<1>4. \A uses : Backed(s, r, BackwardCase(r, i, TRUE, TRUE, uses, {}, live), P, D, loss, i)
  <2> SUFFICES ASSUME NEW uses PROVE Backed(s, r, BackwardCase(r, i, TRUE, TRUE, uses, {}, live), P, D, loss, i)
    OBVIOUS
  <2> PICK d \in BOOLEAN : d = TRUE
    OBVIOUS
  <2> PICK none : none = {}
    OBVIOUS
  <2>1. Backed(s, r, BackwardCase(r, i, d, d, uses, none, live), P, D, loss, i)
    BY ONLY <1>2, <1>3, LeafBacked, d \in BOOLEAN, Turn(s, r, P, D, loss, i)
  <2> QED BY <2>1
<1>5. CASE live = {}
  <2>1. SeqMatvecBackward(r, i) = r
    BY <1>5 DEF SeqMatvecBackward
  <2>2. Heirs(s.tape, i, live) = {}
    BY <1>5 DEF Heirs
  <2>3. TapeLaid(r.tape) /\ Gave(s, r, r, P, D, loss, i)
    BY <1>1, GaveNot DEF Summing
  <2>4. Gave(s, r, r, P, D \cup {<<i, k>> : k \in {}}, loss, i)
    <3>1. D \cup {<<i, k>> : k \in {}} = D
      OBVIOUS
    <3> QED BY <2>3, <3>1
  <2> PICK K : K = Heirs(s.tape, i, live)
    OBVIOUS
  <2>5. Gave(s, r, r, P, D \cup {<<i, k>> : k \in K}, loss, i)
    BY <2>2, <2>4
  <2>6. Backed(s, r, r, P, D, loss, i)
    BY ONLY <1>2, <2>3, <2>5, K = Heirs(s.tape, i, live), GaveOwed
  <2> QED BY <2>1, <2>6
<1>6. CASE live # {}
  <2> PICK ids : ids = ParentData(r, i, {1, 2}) \cup {<<"grad", i>>}
    OBVIOUS
  <2> PICK up : up = IF r.gpu THEN Upload(r, ids) ELSE r
    OBVIOUS
  <2> PICK one : one = {3 - k : k \in live}
    OBVIOUS
  <2> PICK z : z = BackwardCase(up, i, FALSE, FALSE, one, {}, live)
    OBVIOUS
  <2>1. Sound(up, P) /\ Moved(r, up)
    BY <1>1, UploadSound, MovedNot DEF Summing
  <2>2. Summing(s, up, P, D, loss) /\ Clean(up, <<"grad", i>>, P) /\ up.tape = r.tape
    <3>1. Clean(r, <<"grad", i>>, P)
      BY DEF Turn
    <3>2. Summing(s, up, P, D, loss)
      BY ONLY <1>1, <2>1, MovedSums
    <3>3. Clean(up, <<"grad", i>>, P)
      BY ONLY <2>1, <3>1, MovedClean
    <3> QED BY <2>1, <3>2, <3>3 DEF Moved, Same
  <2>3. Turn(s, up, P, D, loss, i)
    BY <2>2 DEF Turn
  <2>4. PullsIts(up.tape[i].op, one, {})
    BY <1>3, <2>2
  <2>5. Backed(s, up, z, P, D, loss, i)
    <3> PICK d \in BOOLEAN : d = FALSE
      OBVIOUS
    <3> PICK none : none = {}
      OBVIOUS
    <3>1. Backed(s, up, BackwardCase(up, i, d, d, one, none, live), P, D, loss, i)
      BY ONLY <1>2, <2>3, <2>4, LeafBacked, d \in BOOLEAN, none = {}
    <3> QED BY <3>1
  <2>6. Backed(s, r, z, P, D, loss, i)
    BY ONLY <2>1, <2>5, MovedBacked
  <2>7. SeqMatvecBackward(r, i) = z \/ \E uses : SeqMatvecBackward(r, i) = BackwardCase(r, i, TRUE, TRUE, uses, {}, live)
    BY <1>6 DEF SeqMatvecBackward
  <2> QED BY <1>4, <2>6, <2>7
<1> QED BY <1>5, <1>6

\* The kernel or the host's loop, after an upload; then the parents on one side.
LEMMA UploadedReads ==
  ASSUME NEW r, NEW P, Sound(r, P), NEW op, op \notin PulledBack, NEW ids, NEW up, up = IF r.gpu THEN Upload(r, ids) ELSE r
  PROVE  /\ Sound(up, P) /\ Moved(r, up)
         /\ r.gpu /\ OnDevice(up, ids) => Sound(DevReads(up, "backward", op, ids), P) /\ Moved(r, DevReads(up, "backward", op, ids))
         /\ Sound(HostReads(up, "backward", op, ids), P) /\ Moved(r, HostReads(up, "backward", op, ids))
<1>1. Sound(up, P) /\ Moved(r, up)
  BY UploadSound, MovedNot
<1>2. ASSUME r.gpu, OnDevice(up, ids) PROVE Sound(DevReads(up, "backward", op, ids), P) /\ Moved(r, DevReads(up, "backward", op, ids))
  <2>1. \A id \in ids : OnDevice(up, {id}) => Fresh(up, id, P)
    BY <1>2, UploadSound
  <2>2. \A id \in ids : Fresh(up, id, P)
    BY ONLY <1>2, <2>1 DEF OnDevice
  <2>3. Sound(DevReads(up, "backward", op, ids), P) /\ Moved(up, DevReads(up, "backward", op, ids))
    BY ONLY <1>1, <2>2, DevReadsSound
  <2> QED BY ONLY <1>1, <2>3, MovedTwice
<1>3. Sound(HostReads(up, "backward", op, ids), P) /\ Moved(r, HostReads(up, "backward", op, ids))
  <2>1. <<"backward", op>> \in Pullers => \A id \in ids : Clean(up, id, P)
    BY PulledBackward
  <2>2. Sound(HostReads(up, "backward", op, ids), P) /\ Moved(up, HostReads(up, "backward", op, ids))
    BY ONLY <1>1, <2>1, HostReadsSound
  <2> QED BY ONLY <1>1, <2>2, MovedTwice
<1> QED BY <1>1, <1>2, <1>3

\* The SEQ_MATVEC_T case of nt_tape_backward gives the parents of such an entry what it owes them.
LEMMA SeqMatvecTBacked ==
  ASSUME NEW s, NEW r, NEW P, NEW D, NEW loss, NEW i, Turn(s, r, P, D, loss, i), r.tape[i].op = "SEQ_MATVEC_T"
  PROVE  Backed(s, r, SeqMatvecTBackward(r, i), P, D, loss, i)
<1> PICK op : op = "SEQ_MATVEC_T"
  OBVIOUS
<1> PICK ids : ids = ParentData(r, i, {1, 2}) \cup {<<"grad", i>>}
  OBVIOUS
<1> PICK up : up = IF r.gpu THEN Upload(r, ids) ELSE r
  OBVIOUS
<1> PICK q : q = IF r.gpu /\ OnDevice(up, ids) /\ r.room # "none"
                   THEN DevReads(up, "backward", op, ids) ELSE HostReads(up, "backward", op, ids)
  OBVIOUS
<1> PICK gives : gives = {1, 2}
  OBVIOUS
<1>1. s.tape[i].op = "SEQ_MATVEC_T" /\ loss \in Nat /\ i \in 1..loss /\ loss <= Len(s.tape) /\ Summing(s, r, P, D, loss)
  BY DEF Turn
<1>2. Sound(r, P) /\ op \notin PulledBack
  BY <1>1 DEF Summing, PulledBack
<1>3. Sound(q, P) /\ Moved(r, q)
  BY <1>2, UploadedReads
<1>4. Summing(s, q, P, D, loss)
  BY <1>1, <1>3, MovedSums
<1>5. Fits(s.tape, i, gives)
  BY <1>1 DEF Fits, Differentiable
<1>6. Backed(s, q, Giving(q, i, gives, tape_acc_grad), P, D, loss, i)
  BY ONLY <1>1, <1>4, <1>5, GivingHost
<1>7. SeqMatvecTBackward(r, i) = Giving(q, i, gives, tape_acc_grad)
  BY DEF SeqMatvecTBackward
<1> QED BY <1>3, <1>6, <1>7, MovedBacked

\* The SEQ_CROSSENT case of nt_tape_backward gives the parents of such an entry what it owes them.
LEMMA SeqCrossentBacked ==
  ASSUME NEW s, NEW r, NEW P, NEW D, NEW loss, NEW i, Turn(s, r, P, D, loss, i), r.tape[i].op = "SEQ_CROSSENT"
  PROVE  Backed(s, r, SeqCrossentBackward(r, i), P, D, loss, i)
<1> PICK op : op = "SEQ_CROSSENT"
  OBVIOUS
<1> PICK ids : ids = ParentData(r, i, {1, 2})
  OBVIOUS
<1> PICK up : up = IF r.gpu THEN Upload(r, ids) ELSE r
  OBVIOUS
<1> PICK gives : gives = {1}
  OBVIOUS
<1>1. s.tape[i].op = "SEQ_CROSSENT" /\ loss \in Nat /\ i \in 1..loss /\ loss <= Len(s.tape) /\ Summing(s, r, P, D, loss)
  BY DEF Turn
<1>2. Sound(r, P) /\ op \notin PulledBack
  BY <1>1 DEF Summing, PulledBack
<1>3. Fits(s.tape, i, gives)
  BY <1>1 DEF Fits, Differentiable
<1>4. CASE r.gpu /\ OnDevice(up, ids) /\ r.room # "none"
  <2>1. PICK q : q = DevReads(up, "backward", op, ids)
    OBVIOUS
  <2>2. Sound(q, P) /\ Moved(r, q)
    BY <1>2, <1>4, <2>1, UploadedReads
  <2>3. Summing(s, q, P, D, loss)
    BY <1>1, <2>2, MovedSums
  <2>6. s.gpu
    BY <1>1, <1>4 DEF Summing
  <2>4. Backed(s, q, Giving(q, i, gives, tape_acc_grad_gpu), P, D, loss, i)
    BY ONLY <1>1, <1>3, <2>3, <2>6, GivingDev
  <2>5. SeqCrossentBackward(r, i) = Giving(q, i, gives, tape_acc_grad_gpu)
    BY <1>4, <2>1 DEF SeqCrossentBackward
  <2> QED BY <2>2, <2>4, <2>5, MovedBacked
<1>5. CASE ~(r.gpu /\ OnDevice(up, ids) /\ r.room # "none")
  <2>1. PICK q : q = HostReads(up, "backward", op, ids)
    OBVIOUS
  <2>2. Sound(q, P) /\ Moved(r, q)
    BY <1>2, <1>5, <2>1, UploadedReads
  <2>3. Summing(s, q, P, D, loss)
    BY <1>1, <2>2, MovedSums
  <2>4. Backed(s, q, Giving(q, i, gives, tape_acc_grad), P, D, loss, i)
    BY ONLY <1>1, <1>3, <2>3, GivingHost
  <2>5. SeqCrossentBackward(r, i) = Giving(q, i, gives, tape_acc_grad)
    BY <1>5, <2>1 DEF SeqCrossentBackward
  <2> QED BY <2>2, <2>4, <2>5, MovedBacked
<1> QED BY <1>4, <1>5

\* An entry that no case is for gives nothing.
LEMMA NoneBacked ==
  ASSUME NEW s, NEW r, NEW P, NEW D, NEW loss, NEW i, Turn(s, r, P, D, loss, i), r.tape[i].op = "NONE"
  PROVE  Backed(s, r, r, P, D, loss, i)
<1>1. s.tape[i].op = "NONE" /\ Summing(s, r, P, D, loss)
  BY DEF Turn
<1>2. Owed(s.tape, i) = {}
  BY <1>1 DEF Owed, Differentiable
<1>3. D \cup Owed(s.tape, i) = D
  BY <1>2
<1>4. Gave(s, r, r, P, D, loss, i)
  BY <1>1, GaveNot
<1> QED BY <1>3, <1>4 DEF Backed

\* The switch: every case gives each parent what the mathematics owes it.
LEMMA OpBacked ==
  ASSUME NEW s, NEW r, NEW P, NEW D, NEW loss, NEW i, Turn(s, r, P, D, loss, i)
  PROVE  Backed(s, r, OpBackward(r, i), P, D, loss, i)
<1>0. r.tape[i].op \in TapeOps
  BY DEF Turn
<1>1. CASE r.tape[i].op = "ADD"
  <2>1. OpBackward(r, i) = AddBackward(r, i)
    BY <1>1 DEF OpBackward
  <2> QED BY <1>1, <2>1, AddBacked
<1>2. CASE r.tape[i].op = "MUL"
  <2>1. OpBackward(r, i) = MulBackward(r, i)
    BY <1>2 DEF OpBackward
  <2> QED BY <1>2, <2>1, MulBacked
<1>3. CASE r.tape[i].op = "SCALE"
  <2>1. OpBackward(r, i) = ScaleBackward(r, i)
    BY <1>3 DEF OpBackward
  <2> QED BY <1>3, <2>1, ScaleBacked
<1>4. CASE r.tape[i].op = "MATVEC"
  <2>1. OpBackward(r, i) = MatvecBackward(r, i)
    BY <1>4 DEF OpBackward
  <2> QED BY <1>4, <2>1, MatvecBacked
<1>5. CASE r.tape[i].op = "SILU"
  <2>1. OpBackward(r, i) = SiluBackward(r, i)
    BY <1>5 DEF OpBackward
  <2> QED BY <1>5, <2>1, SiluBacked
<1>6. CASE r.tape[i].op = "SIGMOID"
  <2>1. OpBackward(r, i) = SigmoidBackward(r, i)
    BY <1>6 DEF OpBackward
  <2> QED BY <1>6, <2>1, SigmoidBacked
<1>7. CASE r.tape[i].op = "SCALE_BY_T"
  <2>1. OpBackward(r, i) = ScaleByTBackward(r, i)
    BY <1>7 DEF OpBackward
  <2> QED BY <1>7, <2>1, ScaleByTBacked
<1>8. CASE r.tape[i].op = "SOFTMAX"
  <2>1. OpBackward(r, i) = SoftmaxBackward(r, i)
    BY <1>8 DEF OpBackward
  <2> QED BY <1>8, <2>1, SoftmaxBacked
<1>9. CASE r.tape[i].op = "RMSNORM"
  <2>1. OpBackward(r, i) = RmsnormBackward(r, i)
    BY <1>9 DEF OpBackward
  <2> QED BY <1>9, <2>1, RmsnormBacked
<1>10. CASE r.tape[i].op = "CROSS_ENT"
  <2>1. OpBackward(r, i) = CrossEntBackward(r, i)
    BY <1>10 DEF OpBackward
  <2> QED BY <1>10, <2>1, CrossEntBacked
<1>11. CASE r.tape[i].op = "EMB_LOOKUP"
  <2>1. OpBackward(r, i) = EmbLookupBackward(r, i)
    BY <1>11 DEF OpBackward
  <2> QED BY <1>11, <2>1, EmbLookupBacked
<1>12. CASE r.tape[i].op = "SEQ_EMBED"
  <2>1. OpBackward(r, i) = SeqEmbedBackward(r, i)
    BY <1>12 DEF OpBackward
  <2> QED BY <1>12, <2>1, SeqEmbedBacked
<1>13. CASE r.tape[i].op = "SEQ_MATVEC"
  <2>1. OpBackward(r, i) = SeqMatvecBackward(r, i)
    BY <1>13 DEF OpBackward
  <2> QED BY <1>13, <2>1, SeqMatvecBacked
<1>14. CASE r.tape[i].op = "SEQ_RMSNORM"
  <2>1. OpBackward(r, i) = SeqRmsnormBackward(r, i)
    BY <1>14 DEF OpBackward
  <2> QED BY <1>14, <2>1, SeqRmsnormBacked
<1>15. CASE r.tape[i].op = "CAUSAL_ATTN"
  <2>1. OpBackward(r, i) = CausalBackward(r, i)
    BY <1>15 DEF OpBackward
  <2> QED BY <1>15, <2>1, CausalBacked
<1>16. CASE r.tape[i].op = "MH_CAUSAL_ATTN"
  <2>1. OpBackward(r, i) = MhCausalBackward(r, i)
    BY <1>16 DEF OpBackward
  <2> QED BY <1>16, <2>1, MhCausalBacked
<1>17. CASE r.tape[i].op = "GQA_ATTN"
  <2>1. OpBackward(r, i) = GqaBackward(r, i)
    BY <1>17 DEF OpBackward
  <2> QED BY <1>17, <2>1, GqaBacked
<1>18. CASE r.tape[i].op = "RRPRAM_LR"
  <2>1. OpBackward(r, i) = RrpramLrBackward(r, i)
    BY <1>18 DEF OpBackward
  <2> QED BY <1>18, <2>1, RrpramLrBacked
<1>19. CASE r.tape[i].op = "RRPRAM_BCAST"
  <2>1. OpBackward(r, i) = RrpramBcastBackward(r, i)
    BY <1>19 DEF OpBackward
  <2> QED BY <1>19, <2>1, RrpramBcastBacked
<1>20. CASE r.tape[i].op = "RRPRAM_ATTN"
  <2>1. OpBackward(r, i) = RrpramAttnBackward(r, i)
    BY <1>20 DEF OpBackward
  <2> QED BY <1>20, <2>1, RrpramAttnBacked
<1>21. CASE r.tape[i].op = "CONCAT"
  <2>1. OpBackward(r, i) = ConcatBackward(r, i)
    BY <1>21 DEF OpBackward
  <2> QED BY <1>21, <2>1, ConcatBacked
<1>22. CASE r.tape[i].op = "SEQ_MATVEC_T"
  <2>1. OpBackward(r, i) = SeqMatvecTBackward(r, i)
    BY <1>22 DEF OpBackward
  <2> QED BY <1>22, <2>1, SeqMatvecTBacked
<1>23. CASE r.tape[i].op = "SEQ_CROSSENT"
  <2>1. OpBackward(r, i) = SeqCrossentBackward(r, i)
    BY <1>23 DEF OpBackward
  <2> QED BY <1>23, <2>1, SeqCrossentBacked
<1>24. CASE r.tape[i].op = "SEQ_CROSSENT_MASKED"
  <2>1. OpBackward(r, i) = SeqCrossentMaskedBackward(r, i)
    BY <1>24 DEF OpBackward
  <2> QED BY <1>24, <2>1, SeqCrossentMaskedBacked
<1>25. CASE r.tape[i].op = "GEGLU"
  <2>1. OpBackward(r, i) = GegluBackward(r, i)
    BY <1>25 DEF OpBackward
  <2> QED BY <1>25, <2>1, GegluBacked
<1>26. CASE r.tape[i].op = "DROPOUT"
  <2>1. OpBackward(r, i) = DropoutBackward(r, i)
    BY <1>26 DEF OpBackward
  <2> QED BY <1>26, <2>1, DropoutBacked
<1>27. CASE r.tape[i].op = "GELU"
  <2>1. OpBackward(r, i) = GeluBackward(r, i)
    BY <1>27 DEF OpBackward
  <2> QED BY <1>27, <2>1, GeluBacked
<1>28. CASE r.tape[i].op = "LAYERNORM"
  <2>1. OpBackward(r, i) = LayernormBackward(r, i)
    BY <1>28 DEF OpBackward
  <2> QED BY <1>28, <2>1, LayernormBacked
<1>29. CASE r.tape[i].op = "SEQ_LAYERNORM"
  <2>1. OpBackward(r, i) = SeqLayernormBackward(r, i)
    BY <1>29 DEF OpBackward
  <2> QED BY <1>29, <2>1, SeqLayernormBacked
<1>30. CASE r.tape[i].op = "ROPE"
  <2>1. OpBackward(r, i) = RopeBackward(r, i)
    BY <1>30 DEF OpBackward
  <2> QED BY <1>30, <2>1, RopeBacked
<1>31. CASE r.tape[i].op = "SWIGLU"
  <2>1. OpBackward(r, i) = SwigluBackward(r, i)
    BY <1>31 DEF OpBackward
  <2> QED BY <1>31, <2>1, SwigluBacked
<1>32. CASE r.tape[i].op = "BIT_LINEAR"
  <2>1. OpBackward(r, i) = BitLinearBackward(r, i)
    BY <1>32 DEF OpBackward
  <2> QED BY <1>32, <2>1, BitLinearBacked
<1>33. CASE r.tape[i].op = "BIT_SEQ_LINEAR"
  <2>1. OpBackward(r, i) = BitSeqLinearBackward(r, i)
    BY <1>33 DEF OpBackward
  <2> QED BY <1>33, <2>1, BitSeqLinearBacked
<1>34. CASE r.tape[i].op = "NONE"
  <2>1. OpBackward(r, i) = r
    BY <1>34 DEF OpBackward
  <2> QED BY <1>34, <2>1, NoneBacked
<1> QED BY <1>0, <1>1, <1>2, <1>3, <1>4, <1>5, <1>6, <1>7, <1>8, <1>9, <1>10, <1>11, <1>12, <1>13, <1>14,
         <1>15, <1>16, <1>17, <1>18, <1>19, <1>20, <1>21, <1>22, <1>23, <1>24, <1>25, <1>26, <1>27, <1>28, <1>29,
         <1>30, <1>31, <1>32, <1>33, <1>34 DEF TapeOps

-----------------------------------------------------------------------------
(* The whole backward pass. *)

\* The gradient of the loss is one.
StartOf(s, loss) ==
  [PutHost(NewGrad(s, loss), {<<"grad", loss>>}) EXCEPT !.tape[loss].sum = {<<0, 1>>}]

\* The turn of entry i.
TurnOf(r, i) == IF HasGrad(r, i) THEN OpBackward(Pull(r, {<<"grad", i>>}), i) ELSE r

\* What the entries after m that have a gradient owe.
Full(t, r, m) ==
  {c \in (DOMAIN t) \X (1..3) :
     c[1] > m /\ HasGrad(r, c[1]) /\ c[2] \in Differentiable(t[c[1]].op, t[c[1]].alt) \cap DOMAIN t[c[1]].from}

\* The pass has come down to entry m.
Down(s, r, P, loss, m) == Summing(s, r, P, Full(s.tape, r, m), loss)

\* A forward pass that is over: no gradient yet, and the entry to start from.
Over(s, P, loss) ==
  /\ Sound(s, P) /\ TapeLaid(s.tape) /\ Blank(s) /\ (\A j : <<"grad", j>> \notin P)
  /\ loss \in DOMAIN s.tape /\ ~s.tape[loss].frozen

\* The backward pass starts at the loss with the gradient of the loss alone.
LEMMA StartDown ==
  ASSUME NEW s, NEW P, NEW loss, Over(s, P, loss)
  PROVE  Down(s, StartOf(s, loss), P, loss, loss)
<1> PICK g : g = {<<"grad", loss>>}
  OBVIOUS
<1> PICK a : a = NewGrad(s, loss)
  OBVIOUS
<1> PICK w : w = PutHost(a, g)
  OBVIOUS
<1> PICK one : one = {<<0, 1>>}
  OBVIOUS
<1> PICK v : v = SumPut(s.tape, loss, one)
  OBVIOUS
<1> PICK z : z = StartOf(s, loss)
  OBVIOUS
<1> PICK t : t = s.tape
  OBVIOUS
<1>1. /\ Sound(s, P) /\ TapeLaid(t) /\ Blank(s) /\ (\A j : <<"grad", j>> \notin P)
      /\ loss \in DOMAIN t /\ ~t[loss].frozen
  BY DEF Over
<1>2. DOMAIN t = 1..Len(t) /\ Len(t) \in Nat
  BY <1>1, ParamsLaid
<1>3. Sound(a, P) /\ Same(s, a) /\ DOMAIN a.mem = DOMAIN s.mem \cup g
  BY <1>1, NewGradSound
<1>4. Sound(w, P) /\ Same(a, w) /\ DOMAIN w.mem = DOMAIN a.mem /\ Fields(w)
  BY <1>3, PutHostSound DEF Sound
<1>5. w.tape = t /\ w.gpu = s.gpu /\ w.room = s.room /\ w.n = s.n /\ w.slots = s.slots
  BY <1>3, <1>4 DEF Same
<1>6. z = [w EXCEPT !.tape = v]
  BY ONLY <1>5, w = PutHost(a, g), g = {<<"grad", loss>>}, a = NewGrad(s, loss), one = {<<0, 1>>},
     v = SumPut(s.tape, loss, one), t = s.tape, z = StartOf(s, loss) DEF StartOf, SumPut
<1>7. /\ Fields(z) /\ z.tape = v /\ z.mem = w.mem /\ z.gpu = w.gpu /\ z.room = w.room /\ z.misread = w.misread
      /\ z.n = w.n /\ z.slots = w.slots
  BY ONLY <1>4, <1>6 DEF Fields
<1>8. Sound(z, P)
  BY <1>4, <1>7 DEF Sound, MirrorsIn, Latest
<1>9. one \in SUBSET Pairs
  BY EntriesAssumption DEF Pairs
<1>10. /\ TapeLaid(v) /\ SameBut(t, v) /\ v[loss].sum = one
       /\ \A j \in DOMAIN t : j # loss => v[j].sum = t[j].sum
  BY ONLY <1>1, <1>9, SumPutLaid, v = SumPut(s.tape, loss, one), t = s.tape
<1>11. \A j : HasGrad(z, j) <=> j = loss
  <2>1. DOMAIN z.mem = DOMAIN s.mem \cup {<<"grad", loss>>}
    BY <1>3, <1>4, <1>7
  <2>2. \A j : <<"grad", j>> \notin DOMAIN s.mem
    BY <1>1 DEF Blank
  <2>3. \A j : <<"grad", j>> = <<"grad", loss>> <=> j = loss
    OBVIOUS
  <2> QED BY ONLY <2>1, <2>2, <2>3 DEF HasGrad
<1>12. Full(t, z, loss) = {}
  BY <1>2, <1>11 DEF Full
<1> PICK none : none = {}
  OBVIOUS
<1>13. Sums(t, v, none, loss)
  <2> SUFFICES ASSUME NEW p \in DOMAIN t PROVE v[p].sum = IF t[p].frozen THEN {} ELSE Contribs(t, none, p, loss)
    BY DEF Sums
  <2>1. t[p].sum = {}
    BY <1>1 DEF Blank
  <2>2. Contribs(t, none, p, loss) = IF p = loss THEN one ELSE {}
    BY DEF Contribs
  <2> QED BY <1>1, <1>10, <2>1, <2>2
<1>14. z.room = "plenty" => Sums(t, z.tape, none, loss)
  BY <1>7, <1>13
<1>15. \A j : HasGrad(z, j) => j \in 1..loss /\ j \in DOMAIN t /\ ~t[j].frozen
  BY <1>1, <1>2, <1>11
<1>16. /\ z.gpu = s.gpu /\ z.room = s.room /\ z.n = s.n /\ z.slots = s.slots /\ DOMAIN s.mem \subseteq DOMAIN z.mem
       /\ TapeLaid(z.tape) /\ SameBut(t, z.tape)
  BY <1>3, <1>4, <1>5, <1>7, <1>10
<1>17. Summing(s, z, P, none, loss)
  BY ONLY <1>1, <1>8, <1>14, <1>15, <1>16, t = s.tape DEF Summing
<1> QED BY <1>12, <1>17 DEF Down

\* An entry's turn done, the entries from there up have given what they owe.
LEMMA TurnDown ==
  ASSUME NEW s, NEW r, NEW P, NEW loss \in Nat, loss <= Len(s.tape), NEW i \in 1..loss, Down(s, r, P, loss, i)
  PROVE  Down(s, TurnOf(r, i), P, loss, i - 1)
<1> PICK t : t = s.tape
  OBVIOUS
<1> PICK D : D = Full(t, r, i)
  OBVIOUS
<1>1. Summing(s, r, P, D, loss)
  BY DEF Down
<1>2. /\ TapeLaid(r.tape) /\ SameBut(t, r.tape) /\ Sound(r, P)
      /\ \A j : HasGrad(r, j) => j \in 1..loss
  BY <1>1 DEF Summing
<1>3. DOMAIN t = 1..Len(t) /\ Len(t) \in Nat
  BY <1>2, ParamsLaid DEF SameBut
<1>4. CASE ~HasGrad(r, i)
  <2>1. TurnOf(r, i) = r
    BY <1>4 DEF TurnOf
  <2>2. Full(t, r, i - 1) = Full(t, r, i)
    <3>1. \A j \in DOMAIN t : j > i - 1 /\ HasGrad(r, j) <=> j > i /\ HasGrad(r, j)
      BY <1>3, <1>4
    <3> QED BY ONLY <3>1 DEF Full
  <2> QED BY <1>1, <2>1, <2>2 DEF Down
<1>5. CASE HasGrad(r, i)
  <2>1. PICK g : g = {<<"grad", i>>}
    OBVIOUS
  <2>2. PICK q : q = Pull(r, g)
    OBVIOUS
  <2>3. Sound(q, P) /\ Moved(r, q) /\ \A id \in g : Clean(q, id, P)
    BY ONLY <1>2, <2>2, PullSound
  <2>4. Summing(s, q, P, D, loss) /\ Above(i, r, q)
    BY ONLY <1>1, <2>3, MovedSums
  <2>5. Clean(q, <<"grad", i>>, P)
    BY <2>1, <2>3
  <2>6. Turn(s, q, P, D, loss, i)
    BY ONLY <2>4, <2>5, TurnComes, loss \in Nat, loss <= Len(s.tape), i \in 1..loss
  <2>7. PICK z : z = OpBackward(q, i)
    OBVIOUS
  <2>8. Backed(s, q, z, P, D, loss, i)
    BY ONLY <2>6, <2>7, OpBacked
  <2>9. Summing(s, z, P, D \cup Owed(t, i), loss) /\ Above(i, q, z)
    BY <2>8 DEF Backed, Gave
  <2>10. \A j \in Nat : j >= i => (HasGrad(z, j) <=> HasGrad(r, j))
    BY ONLY <2>4, <2>9 DEF Above
  <2>11. TurnOf(r, i) = z
    BY <1>5, <2>1, <2>2, <2>7 DEF TurnOf
  <2>12. DOMAIN t[i].from \subseteq 1..3
    <3>1. i \in DOMAIN t /\ i \in DOMAIN r.tape /\ r.tape[i].from = t[i].from
      BY <1>2, <1>3 DEF SameBut
    <3>2. r.tape[i].from \in UNION {[1..n -> 0..MaxEntries] : n \in 0..3}
      <4>1. r.tape[i] \in Entries(Weights, MaxParams)
        BY <1>2, <3>1, ParamsLaid
      <4> QED BY <4>1 DEF Entries
    <3>3. PICK n \in 0..3 : t[i].from \in [1..n -> 0..MaxEntries]
      BY <3>1, <3>2
    <3> QED BY <3>3
  <2>13. Full(t, z, i - 1) = D \cup Owed(t, i)
    <3> DEFINE Dues(j) == Differentiable(t[j].op, t[j].alt) \cap DOMAIN t[j].from
    <3>1. \A c : c \in Full(t, z, i - 1) <=> c \in (DOMAIN t) \X (1..3) /\ c[1] > i - 1 /\ HasGrad(z, c[1]) /\ c[2] \in Dues(c[1])
      BY DEF Full
    <3>2. \A c : c \in D <=> c \in (DOMAIN t) \X (1..3) /\ c[1] > i /\ HasGrad(r, c[1]) /\ c[2] \in Dues(c[1])
      BY DEF Full
    <3>3. \A c : c \in Owed(t, i) <=> c \in (DOMAIN t) \X (1..3) /\ c[1] = i /\ c[2] \in Dues(i)
      <4>1. \A c : c \in Owed(t, i) <=> \E k \in Dues(i) : c = <<i, k>>
        BY DEF Owed
      <4>2. Dues(i) \subseteq 1..3 /\ i \in DOMAIN t
        BY <1>3, <2>12
      <4> HIDE DEF Dues
      <4> QED BY ONLY <4>1, <4>2
    <3>4. \A j \in DOMAIN t : /\ (j > i - 1 <=> j > i \/ j = i)
                              /\ (j > i => (HasGrad(z, j) <=> HasGrad(r, j)))
                              /\ (j = i => HasGrad(z, j))
      BY <1>3, <1>5, <2>10
    <3> HIDE DEF Dues
    <3>5. \A c : c \in Full(t, z, i - 1) <=> c \in D \/ c \in Owed(t, i)
      BY ONLY <3>1, <3>2, <3>3, <3>4
    <3> QED BY ONLY <3>5
  <2> QED BY <2>9, <2>11, <2>13 DEF Down
<1> QED BY <1>4, <1>5

PassUpTo(f, s, loss, m) == f = [n \in 0..m |-> IF n = 0 THEN StartOf(s, loss) ELSE TurnOf(f[n - 1], loss + 1 - n)]

\* The recursion of the pass has a solution.
LEMMA PassExists ==
  ASSUME NEW s, NEW loss \in Nat
  PROVE  \E f : PassUpTo(f, s, loss, loss)
<1> DEFINE S == {m \in 0..loss : \E f : PassUpTo(f, s, loss, m)}
<1>1. 0 \in S
  <2>1. PICK f : f = [n \in 0..0 |-> StartOf(s, loss)]
    OBVIOUS
  <2>2. f = [n \in 0..0 |-> IF n = 0 THEN StartOf(s, loss) ELSE TurnOf(f[n - 1], loss + 1 - n)]
    BY <2>1
  <2> QED BY <2>2 DEF PassUpTo
<1>2. ASSUME NEW m \in 0..(loss - 1), m \in S PROVE m + 1 \in S
  <2>1. PICK f : PassUpTo(f, s, loss, m)
    BY <1>2
  <2>2. /\ f[0] = StartOf(s, loss)
        /\ \A n \in 1..m : f[n] = TurnOf(f[n - 1], loss + 1 - n)
    <3>1. f = [n \in 0..m |-> IF n = 0 THEN StartOf(s, loss) ELSE TurnOf(f[n - 1], loss + 1 - n)]
      BY <2>1 DEF PassUpTo
    <3> QED BY <3>1
  <2>3. PICK e : e = TurnOf(f[m], loss + 1 - (m + 1))
    OBVIOUS
  <2>4. PICK u : u = [n \in 0..(m + 1) |-> IF n = m + 1 THEN e ELSE f[n]]
    OBVIOUS
  <2>5. u[m + 1] = e /\ \A n \in 0..m : u[n] = f[n]
    BY <2>4
  <2>6. ASSUME NEW n \in 0..(m + 1) PROVE u[n] = IF n = 0 THEN StartOf(s, loss) ELSE TurnOf(u[n - 1], loss + 1 - n)
    <3>1. CASE n = 0
      BY <2>2, <2>5, <3>1
    <3>2. CASE n \in 1..m
      <4>1. u[n - 1] = f[n - 1] /\ u[n] = f[n]
        BY <2>5, <3>2
      <4> QED BY <2>2, <3>2, <4>1
    <3>3. CASE n = m + 1
      <4>1. u[n - 1] = f[m]
        BY <2>5, <3>3
      <4>2. n # 0
        BY <3>3
      <4> QED BY <2>3, <2>5, <3>3, <4>1, <4>2
    <3> QED BY <3>1, <3>2, <3>3
  <2>7. u = [n \in 0..(m + 1) |-> IF n = 0 THEN StartOf(s, loss) ELSE TurnOf(u[n - 1], loss + 1 - n)]
    BY <2>4, <2>6
  <2>8. PassUpTo(u, s, loss, m + 1)
    BY <2>7, Zenon DEF PassUpTo
  <2> QED BY <2>8
<1> HIDE DEF S
<1>3. loss \in S
  BY <1>1, <1>2, UpTo
<1> QED BY <1>3 DEF S

\* After the pass, every entry holds what all its consumers owe it.
LEMMA PassComes ==
  ASSUME NEW s, NEW P, NEW loss, Over(s, P, loss)
  PROVE  Down(s, nt_tape_backward(s, loss), P, loss, 0)
<1>1. TapeLaid(s.tape) /\ loss \in DOMAIN s.tape
  BY DEF Over
<1>2. loss \in Nat /\ loss <= Len(s.tape)
  BY <1>1, ParamsLaid
<1> DEFINE f == CHOOSE f : f = [n \in 0..loss |-> IF n = 0 THEN StartOf(s, loss) ELSE TurnOf(f[n - 1], loss + 1 - n)]
<1>3. f = [n \in 0..loss |-> IF n = 0 THEN StartOf(s, loss) ELSE TurnOf(f[n - 1], loss + 1 - n)]
  <2>1. PICK h : PassUpTo(h, s, loss, loss)
    BY <1>2, PassExists
  <2>2. h = [n \in 0..loss |-> IF n = 0 THEN StartOf(s, loss) ELSE TurnOf(h[n - 1], loss + 1 - n)]
    BY <2>1, Zenon DEF PassUpTo
  <2> QED BY <2>2
<1>4. nt_tape_backward(s, loss) = f[loss]
  BY Zenon DEF nt_tape_backward, StartOf, PutHost, TurnOf, Changed
<1> HIDE DEF f
<1> DEFINE S == {n \in 0..loss : Down(s, f[n], P, loss, loss - n)}
<1>5. 0 \in S
  <2>1. f[0] = StartOf(s, loss) /\ loss - 0 = loss
    BY <1>2, <1>3
  <2> QED BY <1>2, <2>1, StartDown
<1>6. ASSUME NEW n \in 0..(loss - 1), n \in S PROVE n + 1 \in S
  <2>1. f[n + 1] = TurnOf(f[n], loss - n)
    <3>1. n + 1 \in 0..loss /\ n + 1 # 0 /\ (n + 1) - 1 = n /\ loss + 1 - (n + 1) = loss - n
      BY <1>2
    <3> QED BY <1>3, <3>1
  <2>2. loss - n \in 1..loss /\ (loss - n) - 1 = loss - (n + 1) /\ n + 1 \in 0..loss
    BY <1>2
  <2>3. Down(s, f[n], P, loss, loss - n)
    BY <1>6
  <2>4. Down(s, TurnOf(f[n], loss - n), P, loss, (loss - n) - 1)
    BY ONLY <1>2, <2>2, <2>3, TurnDown
  <2> QED BY <2>1, <2>2, <2>4
<1> HIDE DEF S
<1>7. loss \in S
  <2>1. 0..loss \subseteq S
    BY ONLY <1>2, <1>5, <1>6, UpTo
  <2> QED BY <1>2, <2>1
<1>8. Down(s, f[loss], P, loss, loss - loss) /\ loss - loss = 0
  BY <1>2, <1>7 DEF S
<1> QED BY <1>4, <1>8

-----------------------------------------------------------------------------
(* The invariant. *)
\* The moments and the accumulated gradients of a leading slot are its own parameter's.
SlotsOwn ==
  ~uneven => \A k \in 1..MaxParams : Lead(plan, k) =>
     slots[k].hist \subseteq {Reg(plan, k)} /\ slots[k].acc \subseteq {Reg(plan, k)}
\* So are the gradients applied through it.
AppliedOwn ==
  \A i \in ParamsOf(tape) : tape[i].applied # {} =>
     /\ Rank(i, ParamsOf(tape)) <= nParams
     /\ ~uneven /\ Lead(plan, Rank(i, ParamsOf(tape))) => tape[i].applied \subseteq {Reg(plan, Rank(i, ParamsOf(tape)))}
\* A frozen entry has no gradient before apply_accum gives it one.
FrozenBare == ~summed => \A i \in DOMAIN tape : tape[i].frozen => ~HasGrad(State, i)
\* What was stepped still has its gradient and its rank.
SteppedHere == stepped \subseteq Stepping(State) /\ (phase # "stepped" => stepped = {})
Underway ==
  /\ phase \in {"register", "forward"} => Blank(State) /\ \A j : <<"grad", j>> \notin poked
  /\ phase = "register" => ParamsOf(tape) = DOMAIN tape /\ Len(tape) <= Len(plan)
  /\ phase = "forward" => Paired(tape, plan) /\ HasInput(tape, plan)
Shaped == session \in 0..MaxSessions /\ plan \in Plans /\ ops \in 0..MaxOps /\ phase \in Phases
Settled == Sound(State, poked) /\ Laid(State) /\ Own(tape, nParams, plan) /\ poked \subseteq DOMAIN mem /\ ReadsAreLatest
TapeInv ==
  /\ Shaped /\ Settled /\ SlotsOwn /\ AppliedOwn /\ FrozenBare /\ SteppedHere /\ Underway /\ GradientsAreComplete

-----------------------------------------------------------------------------
(* From the calls to the actions. *)
\* The step's next state is r, with the device as it is.
Comes(r) == Become(r) /\ r.gpu = gpu' /\ r.room = room'
\* What State says.
LEMMA StateIs ==
  /\ State.tape = tape /\ State.mem = mem /\ State.n = nParams /\ State.slots = slots /\ State.gpu = gpu
  /\ State.room = room /\ State.misread = {} /\ State.ret = 0 /\ Fields(State) /\ (\A i : HasGrad(State, i) <=> <<"grad", i>> \in DOMAIN mem)
BY DEF State, Fields, HasGrad

\* The state after an action that ends in r is r, with the reads of the action noted.
LEMMA StateComes ==
  ASSUME NEW r, Comes(r)
  PROVE  /\ State'.tape = r.tape /\ State'.mem = r.mem /\ State'.n = r.n /\ State'.slots = r.slots /\ State'.gpu = r.gpu
         /\ State'.room = r.room /\ State'.misread = {} /\ State'.ret = 0 /\ Fields(State')
         /\ tape' = r.tape /\ mem' = r.mem /\ nParams' = r.n /\ slots' = r.slots /\ misread' = r.misread
BY DEF State, Fields, Comes, Become

\* Mirrors that are truthful in r are truthful after the action, and its reads were of the latest
\* value.
LEMMA SoundComes ==
  ASSUME NEW r, Comes(r), NEW P, Sound(r, P), P = poked'
  PROVE  Sound(State, poked)' /\ ReadsAreLatest'
<1>1. PICK z : z = State'
  OBVIOUS
<1>2. /\ z.gpu = r.gpu /\ z.room = r.room /\ z.misread = {} /\ Fields(z) /\ z.mem = r.mem /\ misread' = r.misread
  BY StateComes, <1>1
<1>3. Sound(z, P)
  BY ONLY <1>2, Sound(r, P) DEF Sound, MirrorsIn, Latest
<1>4. ReadsAreLatest'
  BY ONLY <1>2, Sound(r, P), P = poked' DEF Sound, Latest, ReadsAreLatest
<1> QED BY <1>1, <1>3, <1>4

\* A tape well formed in r is well formed after the action.
LEMMA LaidComes ==
  ASSUME NEW r, Comes(r), Laid(r)
  PROVE  Laid(State)'
<1>1. PICK z : z = State'
  OBVIOUS
<1>2. z.tape = r.tape /\ z.mem = r.mem /\ z.n = r.n /\ z.slots = r.slots
  BY StateComes, <1>1
<1>3. Laid(z)
  BY ONLY <1>2, Laid(r) DEF Laid
<1> QED BY <1>1, <1>3

\* A tape without sums in r is without sums after the action.
LEMMA BlankComes ==
  ASSUME NEW r, Comes(r), Blank(r)
  PROVE  Blank(State)'
<1>1. PICK z : z = State'
  OBVIOUS
<1>2. z.tape = r.tape /\ z.mem = r.mem
  BY StateComes, <1>1
<1>3. Blank(z)
  BY ONLY <1>2, Blank(r) DEF Blank
<1> QED BY <1>1, <1>3

\* All that holds between actions, from what r satisfies.
LEMMA SettledComes ==
  ASSUME NEW r, Comes(r), NEW P, Sound(r, P), P = poked', Laid(r), NEW p, p = plan', Own(r.tape, r.n, p), P \subseteq DOMAIN r.mem
  PROVE  Settled'
<1>1. tape' = r.tape /\ mem' = r.mem /\ nParams' = r.n
  BY StateComes
<1>2. Sound(State, poked)' /\ ReadsAreLatest'
  BY SoundComes
<1>3. Laid(State)'
  BY LaidComes
<1> QED BY <1>1, <1>2, <1>3 DEF Settled

\* A step that writes mirrors and leaves the tape, the slots and the tensors there are.
Writes(r) ==
  /\ Comes(r) /\ Sound(r, poked') /\ Same(State, r) /\ DOMAIN r.mem = DOMAIN mem /\ poked' \subseteq DOMAIN mem
  /\ UNCHANGED <<gpu, room, session, plan, ops, stepped, summed, uneven>>
  /\ phase' \in Phases \ {"register", "forward", "graded"} /\ (phase' = "stepped" \/ stepped = {})

\* An action that only writes tensors, and neither adds nor drops one, keeps the invariant.
LEMMA WritesKeep ==
  ASSUME TapeInv, NEW r, Writes(r)
  PROVE  TapeInv'
<1>1. /\ tape' = tape /\ nParams' = nParams /\ slots' = slots /\ DOMAIN mem' = DOMAIN mem /\ r.tape = tape /\ r.n = nParams
      /\ r.slots = slots /\ mem' = r.mem
  BY StateComes, StateIs DEF Writes, Same
<1>2. /\ session' = session /\ plan' = plan /\ ops' = ops /\ stepped' = stepped /\ summed' = summed /\ uneven' = uneven
      /\ phase' \in Phases /\ phase' \notin {"register", "forward", "graded"} /\ (phase' = "stepped" \/ stepped' = {})
  BY DEF Writes
<1>3. Laid(r) /\ Own(r.tape, r.n, plan')
  <2>1. Laid(State) /\ Own(tape, nParams, plan)
    BY DEF TapeInv, Settled
  <2>2. TapeLaid(tape) /\ nParams \in 0..MaxParams /\ slots \in [1..MaxParams -> SlotStates]
        /\ \A w \in Weights : <<"weight", w>> \in DOMAIN mem
    BY <2>1, StateIs DEF Laid
  <2> QED BY <2>1, <2>2, <1>1, <1>2 DEF Laid
<1>4. Settled'
  BY <1>1, <1>2, <1>3, SettledComes DEF Writes
<1>5. \A i : HasGrad(State, i)' <=> HasGrad(State, i)
  BY <1>1 DEF HasGrad, State
<1>6. Stepping(State)' = Stepping(State)
  <2>1. Params(State)' = Params(State)
    BY <1>1 DEF Params, State
  <2>2. Graded(State)' = Graded(State)
    BY <2>1, <1>5 DEF Graded
  <2>3. State'.n = State.n
    BY <1>1 DEF State
  <2> QED BY <2>1, <2>2, <2>3 DEF Stepping
<1>7. SlotsOwn' /\ AppliedOwn' /\ FrozenBare' /\ SteppedHere'
  <2>1. SlotsOwn'
    BY <1>1, <1>2 DEF TapeInv, SlotsOwn
  <2>2. AppliedOwn'
    BY <1>1, <1>2 DEF TapeInv, AppliedOwn
  <2>3. FrozenBare'
    BY <1>1, <1>2, <1>5 DEF TapeInv, FrozenBare
  <2>4. SteppedHere'
    BY <1>2, <1>6 DEF TapeInv, SteppedHere
  <2> QED BY <2>1, <2>2, <2>3, <2>4
<1>8. Shaped' /\ Underway' /\ GradientsAreComplete'
  BY <1>2 DEF TapeInv, Shaped, Underway, GradientsAreComplete
<1> QED BY <1>4, <1>7, <1>8 DEF TapeInv

-----------------------------------------------------------------------------
(* The steps that move and write mirrors. *)
\* Writes of single mirrors: whoever is not truthful afterwards is in Q.
LEMMA PutSound ==
  ASSUME NEW s, NEW P, Sound(s, P), NEW Q, P \subseteq Q, NEW g, NEW r, r = [s EXCEPT !.mem = g], DOMAIN g = DOMAIN s.mem,
         \A id \in DOMAIN s.mem : g[id] \in Mirrors /\ (id \notin Q => Truthful(g[id])) /\ (g[id].dirty => s.gpu)
  PROVE  Sound(r, Q) /\ Same(s, r) /\ r.mem = g
<1>1. Fields(s)
  BY DEF Sound
<1>2. Fields(r) /\ Same(s, r) /\ r.misread = s.misread /\ r.mem = g
  BY ONLY <1>1, r = [s EXCEPT !.mem = g] DEF Fields, Same
<1>3. MirrorsIn(r, Q)
  BY <1>2 DEF MirrorsIn, Same
<1>4. Latest(r, Q)
  BY <1>2, P \subseteq Q DEF Latest, Sound
<1> QED BY <1>2, <1>3, <1>4 DEF Sound, Same

\* nt_tensor_mark_cpu_dirty or not: what a write of the host's copy leaves.
PokeHost(s, ids) ==
  [s EXCEPT !.mem = [id \in DOMAIN s.mem |-> IF id \in ids THEN HostWritten(s.mem[id]) ELSE s.mem[id]]]

\* A host write without a mark leaves the mark as it was; a tensor with no device copy stays truthful.
LEMMA HostWrittenKeeps ==
  ASSUME NEW t \in Mirrors
  PROVE  /\ HostWritten(t) \in Mirrors /\ HostWritten(t).dirty = t.dirty
         /\ t.dev = "absent" /\ Truthful(t) => Truthful(HostWritten(t))
BY DEF HostWritten, Mirrors, Truthful

\* Host writes without a mark, as nt_tape_adam_step makes them to its moments, keep the mirrors
\* truthful but for those tensors with a device copy.
LEMMA PokeHostSound ==
  ASSUME NEW s, NEW P, Sound(s, P), NEW ids, NEW Q, P \subseteq Q, Unmarked(s, ids) \subseteq Q
  PROVE  /\ Sound(PokeHost(s, ids), Q) /\ Same(s, PokeHost(s, ids)) /\ DOMAIN PokeHost(s, ids).mem = DOMAIN s.mem
<1>1. PICK g : g = [id \in DOMAIN s.mem |-> IF id \in ids THEN HostWritten(s.mem[id]) ELSE s.mem[id]]
  OBVIOUS
<1>2. PokeHost(s, ids) = [s EXCEPT !.mem = g]
  BY ONLY <1>1 DEF PokeHost
<1>3. ASSUME NEW id \in DOMAIN s.mem
      PROVE  g[id] \in Mirrors /\ (id \notin Q => Truthful(g[id])) /\ (g[id].dirty => s.gpu)
  <2>1. s.mem[id] \in Mirrors /\ (id \notin P => Truthful(s.mem[id])) /\ (s.mem[id].dirty => s.gpu)
    BY DEF Sound, MirrorsIn
  <2>2. CASE id \notin ids
    BY <2>1, <2>2, <1>1
  <2>3. CASE id \in ids
    <3>1. g[id] = HostWritten(s.mem[id])
      BY <1>1, <2>3
    <3>2. id \notin Q => s.mem[id].dev = "absent"
      BY <2>3 DEF Unmarked, Held
    <3> QED BY <3>1, <3>2, <2>1, HostWrittenKeeps
  <2> QED BY <2>2, <2>3
<1>4. DOMAIN g = DOMAIN s.mem
  BY <1>1
<1>5. PICK r : r = [s EXCEPT !.mem = g]
  OBVIOUS
<1>6. Sound(r, Q) /\ Same(s, r) /\ r.mem = g
  BY <1>3, <1>4, <1>5, PutSound
<1> QED BY <1>2, <1>4, <1>5, <1>6

\* The unmarked host write of a set of tensors.
LEMMA ChangedIs ==
  ASSUME NEW s, NEW ids
  PROVE  /\ Changed(s, ids, HostWritten) = PokeHost(s, ids)
BY DEF Changed, PokeHost

\* Between two actions the mirrors are truthful and the tape is well formed.
LEMMA StateSound == ASSUME TapeInv PROVE Sound(State, poked) /\ Laid(State) /\ poked \subseteq DOMAIN mem
BY DEF TapeInv, Settled

\* nt_lora_save keeps the invariant.
LEMMA LoraSaves == ASSUME TapeInv, LoraSave PROVE TapeInv'
<1>1. PICK m : m = Pull(State, Adapter)
  OBVIOUS
<1>2. Sound(m, poked) /\ Moved(State, m) /\ \A id \in Adapter : Clean(m, id, poked)
  BY <1>1, StateSound, PullSound
<1>3. PICK r : r = HostReads(m, "update", "lora_save", Adapter)
  OBVIOUS
<1>4. Sound(r, poked) /\ Moved(m, r)
  <2>1. <<"update", "lora_save">> \in Pullers => \A id \in Adapter : Clean(m, id, poked)
    BY <1>2
  <2> QED BY ONLY <2>1, <1>2, <1>3, HostReadsSound
<1>5. Moved(State, r)
  BY <1>2, <1>4, MovedTwice
<1>6. Same(State, r) /\ DOMAIN r.mem = DOMAIN mem
  BY <1>5, StateIs DEF Moved
<1>7. Become(r) /\ phase = "stepped" /\ UNCHANGED <<gpu, room, phase, session, plan, ops, poked, stepped, summed, uneven>>
  BY <1>1, <1>3 DEF LoraSave, nt_lora_save
<1>8. Writes(r)
  BY <1>4, <1>6, <1>7, StateIs, StateSound DEF Writes, Comes, Same, Phases
<1> QED BY <1>8, WritesKeep

\* nt_save keeps the invariant.
LEMMA Saves == ASSUME TapeInv, Save PROVE TapeInv'
<1>1. PICK ids : ids = {<<"weight", w>> : w \in Weights}
  OBVIOUS
<1>3. PICK r : r = HostReads(State, "update", "save", ids)
  OBVIOUS
<1>4. Sound(r, poked) /\ Moved(State, r)
  <2>0. <<"update", "save">> \notin Pullers
    BY DEF Pullers
  <2>1. <<"update", "save">> \in Pullers => \A id \in ids : Clean(State, id, poked)
    BY <2>0
  <2> QED BY ONLY <2>1, StateSound, TapeInv, <1>3, HostReadsSound
<1>6. Same(State, r) /\ DOMAIN r.mem = DOMAIN mem
  BY <1>4, StateIs DEF Moved
<1>7. Become(r) /\ phase = "stepped" /\ UNCHANGED <<gpu, room, phase, session, plan, ops, poked, stepped, summed, uneven>>
  BY <1>1, <1>3 DEF Save
<1>8. Writes(r)
  BY <1>4, <1>6, <1>7, StateIs, StateSound DEF Writes, Comes, Same, Phases
<1> QED BY <1>8, WritesKeep

LoadedFrom(t) == [HostWritten(t) EXCEPT !.valid = FALSE]

\* A tensor loaded from a file keeps its mark.
LEMMA LoadedKeeps ==
  ASSUME NEW t \in Mirrors
  PROVE  LoadedFrom(t) \in Mirrors /\ LoadedFrom(t).dirty = t.dirty /\ (~t.dirty => Truthful(LoadedFrom(t)))
BY DEF LoadedFrom, HostWritten, Mirrors, Truthful

\* nt_lora_load keeps the invariant.
LEMMA LoraLoads == ASSUME TapeInv, LoraLoad PROVE TapeInv'
<1>1. PICK g : g = [id \in DOMAIN mem |-> IF id \in Adapter THEN LoadedFrom(mem[id]) ELSE mem[id]]
  OBVIOUS
<1>2. PICK r : r = [State EXCEPT !.mem = g]
  OBVIOUS
<1>3. Become(r) /\ phase \in {"idle", "stepped"} /\ poked' = poked \cup {id \in Adapter : mem[id].dirty}
      /\ UNCHANGED <<gpu, room, phase, session, plan, ops, stepped, summed, uneven>>
  BY <1>1, <1>2, StateIs DEF LoraLoad, Changed, LoadedFrom
<1>4. Adapter \subseteq DOMAIN mem
  BY StateSound, StateIs DEF Laid, Adapter, Weights
<1>5. ASSUME NEW id \in DOMAIN mem
      PROVE  g[id] \in Mirrors /\ (id \notin poked' => Truthful(g[id])) /\ (g[id].dirty => gpu)
  <2>1. mem[id] \in Mirrors /\ (id \notin poked => Truthful(mem[id])) /\ (mem[id].dirty => gpu)
    BY StateSound, StateIs DEF Sound, MirrorsIn
  <2>2. CASE id \notin Adapter
    BY <2>1, <2>2, <1>1, <1>3
  <2>3. CASE id \in Adapter
    BY <2>1, <2>3, <1>1, <1>3, LoadedKeeps
  <2> QED BY <2>2, <2>3
<1>6. Sound(r, poked') /\ Same(State, r) /\ r.mem = g
  <2>1. PICK Q : Q = poked'
    OBVIOUS
  <2>2. poked \subseteq Q /\ DOMAIN g = DOMAIN State.mem
    BY <1>1, <1>3, <2>1, StateIs
  <2>3. \A id \in DOMAIN State.mem : g[id] \in Mirrors /\ (id \notin Q => Truthful(g[id])) /\ (g[id].dirty => State.gpu)
    BY <1>5, <2>1, StateIs
  <2>4. Sound(State, poked)
    BY StateSound
  <2>5. Sound(r, Q) /\ Same(State, r) /\ r.mem = g
    BY ONLY <2>2, <2>3, <2>4, <1>2, PutSound
  <2> QED BY <2>1, <2>5
<1>7. poked' \subseteq DOMAIN mem
  BY <1>3, <1>4, StateSound
<1>8. DOMAIN r.mem = DOMAIN mem
  BY <1>6, <1>1
<1>9. phase' \in Phases \ {"register", "forward", "graded"} /\ (phase' = "stepped" \/ stepped = {})
  BY <1>3 DEF TapeInv, SteppedHere, Phases
<1>10. Writes(r)
  BY <1>3, <1>6, <1>7, <1>8, <1>9, StateIs DEF Writes, Comes, Same
<1> QED BY <1>10, WritesKeep

\* Gradients of graded entries are there.
LEMMA GradsHere ==
  ASSUME NEW S, S \subseteq Graded(State)
  PROVE  Grads(S) \subseteq DOMAIN mem
BY StateIs DEF Graded, Grads, HasGrad

\* An upload, where there is a device.
Raised(s, ids) == IF s.gpu THEN Upload(s, ids) ELSE s

\* Uploads made only with a device keep the mirrors truthful.
LEMMA RaisedSound ==
  ASSUME NEW s, NEW P, Sound(s, P), NEW ids
  PROVE  Sound(Raised(s, ids), P) /\ Moved(s, Raised(s, ids))
<1>1. CASE s.gpu
  BY <1>1, UploadSound DEF Raised
<1>2. CASE ~s.gpu
  BY <1>2, MovedNot DEF Raised
<1> QED BY <1>1, <1>2

\* A scaled gradient.
ScaledOf(g, t) == IF t.dev # "absent" /\ g THEN MarkGpuFresh(DevWritten(t)) ELSE MarkCpuDirty(HostWritten(t))

\* A scaled gradient is truthful where it was scaled.
LEMMA ScaledKeeps ==
  ASSUME NEW g \in BOOLEAN, NEW t \in Mirrors
  PROVE  ScaledOf(g, t) \in Mirrors /\ Truthful(ScaledOf(g, t)) /\ (ScaledOf(g, t).dirty => g)
BY WrittenKeeps DEF ScaledOf

ScaleAll(s, g, ids) ==
  [s EXCEPT !.mem = [id \in DOMAIN s.mem |-> IF id \in ids THEN ScaledOf(g, s.mem[id]) ELSE s.mem[id]]]

\* Scaling a set of gradients, each where it is, keeps the mirrors truthful.
LEMMA ScaleAllSound ==
  ASSUME NEW s, NEW P, Sound(s, P), NEW ids
  PROVE  /\ Sound(ScaleAll(s, s.gpu, ids), P) /\ Same(s, ScaleAll(s, s.gpu, ids))
         /\ DOMAIN ScaleAll(s, s.gpu, ids).mem = DOMAIN s.mem
<1>0. PICK b : b = s.gpu
  OBVIOUS
<1>1. PICK g : g = [id \in DOMAIN s.mem |-> IF id \in ids THEN ScaledOf(b, s.mem[id]) ELSE s.mem[id]]
  OBVIOUS
<1>2. ScaleAll(s, s.gpu, ids) = [s EXCEPT !.mem = g]
  BY ONLY <1>1, <1>0 DEF ScaleAll
<1>3. ASSUME NEW id \in DOMAIN s.mem
      PROVE  g[id] \in Mirrors /\ (id \notin P => Truthful(g[id])) /\ (g[id].dirty => s.gpu)
  <2>1. s.mem[id] \in Mirrors /\ (id \notin P => Truthful(s.mem[id])) /\ (s.mem[id].dirty => s.gpu) /\ b \in BOOLEAN
    BY <1>0 DEF Sound, MirrorsIn
  <2>2. CASE id \notin ids
    BY <2>1, <2>2, <1>1
  <2>3. CASE id \in ids
    BY <2>1, <2>3, <1>0, <1>1, ScaledKeeps
  <2> QED BY <2>2, <2>3
<1>4. DOMAIN g = DOMAIN s.mem
  BY <1>1
<1>5. PICK r : r = [s EXCEPT !.mem = g]
  OBVIOUS
<1>6. Sound(r, P) /\ Same(s, r) /\ r.mem = g
  BY <1>3, <1>4, <1>5, PutSound
<1> QED BY <1>2, <1>4, <1>5, <1>6

\* What nt_tape_clip_grads reads: each gradient where it is written last.
ClipRead(s, ids) ==
  LET up == Raised(s, ids)
      onDev == {id \in ids : s.gpu /\ up.mem[id].dev # "absent"}
  IN  HostReads(DevReads(IF s.gpu THEN Pull(up, ids \ onDev) ELSE up, "update", "clip", onDev),
                "update", "clip", ids \ onDev)

\* The norm read by nt_tape_clip_grads copies gradients and changes none.
LEMMA ClipReadSound ==
  ASSUME NEW s, NEW P, Sound(s, P), NEW ids, ids \subseteq DOMAIN s.mem
  PROVE  Sound(ClipRead(s, ids), P) /\ Moved(s, ClipRead(s, ids))
<1>1. PICK up : up = Raised(s, ids)
  OBVIOUS
<1>2. Sound(up, P) /\ Moved(s, up)
  BY <1>1, RaisedSound
<1>3. PICK D : D = {id \in ids : s.gpu /\ up.mem[id].dev # "absent"}
  OBVIOUS
<1>4. PICK H : H = ids \ D
  OBVIOUS
<1>5. PICK m : m = IF s.gpu THEN Pull(up, H) ELSE up
  OBVIOUS
<1>6. Sound(m, P) /\ Moved(up, m) /\ \A id \in H : Clean(m, id, P)
  <2>1. CASE s.gpu
    BY <2>1, <1>2, <1>5, PullSound
  <2>2. CASE ~s.gpu
    <3>1. m = up /\ ~up.gpu
      BY <2>2, <1>2, <1>5 DEF Moved, Same
    <3>2. \A id \in H : Clean(m, id, P)
      BY <3>1, <1>2 DEF Clean, Sound, MirrorsIn
    <3> QED BY <3>1, <3>2, <1>2, MovedNot
  <2> QED BY <2>1, <2>2
<1>7. \A id \in D : Fresh(m, id, P)
  <2> SUFFICES ASSUME NEW id \in D PROVE Fresh(m, id, P)
    OBVIOUS
  <2>1. s.gpu /\ id \in ids /\ up.mem[id].dev # "absent" /\ up = Upload(s, ids) /\ m = Pull(up, H) /\ id \notin H
    BY <1>1, <1>3, <1>4, <1>5 DEF Raised
  <2>2. OnDevice(up, {id})
    BY <2>1 DEF OnDevice
  <2>3. Fresh(up, id, P)
    BY <2>1, <2>2, UploadSound
  <2>4. DOMAIN m.mem = DOMAIN up.mem /\ (id \in DOMAIN up.mem => m.mem[id] = up.mem[id])
    BY <2>1, <1>2, PullFields DEF Sound
  <2> QED BY ONLY <2>3, <2>4 DEF Fresh
<1>8. PICK d : d = DevReads(m, "update", "clip", D)
  OBVIOUS
<1>9. Sound(d, P) /\ Moved(m, d)
  BY ONLY <1>6, <1>7, <1>8, DevReadsSound
<1>10. PICK h : h = HostReads(d, "update", "clip", H)
  OBVIOUS
<1>11. Sound(h, P) /\ Moved(d, h)
  <2>1. \A id \in H : Clean(d, id, P)
    BY <1>6, <1>9, MovedClean
  <2>2. <<"update", "clip">> \in Pullers => \A id \in H : Clean(d, id, P)
    BY <2>1
  <2> QED BY ONLY <1>9, <1>10, <2>2, HostReadsSound
<1>12. Moved(s, h)
  <2>1. Moved(s, m)
    BY ONLY <1>2, <1>6, MovedTwice
  <2>2. Moved(s, d)
    BY ONLY <2>1, <1>9, MovedTwice
  <2> QED BY ONLY <2>2, <1>11, MovedTwice
<1>13. h = ClipRead(s, ids)
  BY ONLY <1>1, <1>3, <1>4, <1>5, <1>8, <1>10 DEF ClipRead
<1> QED BY <1>11, <1>12, <1>13

\* nt_tape_clip_grads in its two parts: the norm, and the scaling above the limit.
LEMMA ClipIs ==
  ASSUME NEW s, NEW over
  PROVE  nt_tape_clip_grads(s, over) =
           IF over THEN ScaleAll(ClipRead(s, Grads(Graded(s))), s.gpu, Grads(Graded(s))) ELSE ClipRead(s, Grads(Graded(s)))
BY DEF nt_tape_clip_grads, ClipRead, ScaleAll, ScaledOf, Raised, Changed

\* nt_tape_clip_grads keeps the invariant.
LEMMA Clips == ASSUME TapeInv, Clip PROVE TapeInv'
<1>1. PICK over : over \in BOOLEAN /\ Become(nt_tape_clip_grads(State, over))
  BY DEF Clip
<1>2. PICK ids : ids = Grads(Graded(State))
  OBVIOUS
<1>3. PICK h : h = ClipRead(State, ids)
  OBVIOUS
<1>4. ids \subseteq DOMAIN State.mem
  BY <1>2, GradsHere, StateIs
<1>5. Sound(h, poked) /\ Moved(State, h)
  BY ONLY StateSound, TapeInv, <1>3, <1>4, ClipReadSound
<1>6. PICK r : r = IF over THEN ScaleAll(h, h.gpu, ids) ELSE h
  OBVIOUS
<1>7. Sound(r, poked) /\ Same(State, r) /\ DOMAIN r.mem = DOMAIN mem
  <2>1. Same(State, h) /\ DOMAIN h.mem = DOMAIN mem
    BY <1>5, StateIs DEF Moved
  <2>2. CASE over
    BY <2>1, <2>2, <1>5, <1>6, ScaleAllSound DEF Same
  <2>3. CASE ~over
    BY <2>1, <2>3, <1>5, <1>6
  <2> QED BY <2>2, <2>3
<1>8. r = nt_tape_clip_grads(State, over)
  <2>1. h.gpu = State.gpu
    BY <1>5 DEF Moved, Same
  <2> QED BY ONLY <2>1, <1>2, <1>3, <1>6, ClipIs
<1>9. Become(r) /\ phase = "graded" /\ phase' = "ready" /\ UNCHANGED <<gpu, room, session, plan, ops, poked, stepped, summed, uneven>>
  BY <1>1, <1>8 DEF Clip
<1>10. phase' \in Phases \ {"register", "forward", "graded"} /\ (phase' = "stepped" \/ stepped = {})
  BY <1>9 DEF TapeInv, SteppedHere, Phases
<1>11. poked' = poked /\ gpu' = gpu /\ room' = room /\ r.gpu = gpu /\ r.room = room
  BY <1>7, <1>9, StateIs DEF Same
<1>12. Writes(r)
  BY <1>7, <1>9, <1>10, <1>11, StateSound DEF Writes, Comes
<1> QED BY <1>12, WritesKeep

\* nt_nan_guard_check keeps the invariant.
LEMMA Guards == ASSUME TapeInv, Guard PROVE TapeInv'
<1> DEFINE seen(bad) == {i \in Graded(State) : bad = 0 \/ i <= bad}
<1> DEFINE up(bad) == Raised(State, Grads(seen(bad)))
<1>1. \/ Become(up(0)) /\ phase' = "ready" /\ UNCHANGED poked
      \/ \E bad \in Graded(State) :
           /\ Become(PokeHost(up(bad), Grads(Graded(State))))
           /\ poked' = poked \cup Unmarked(up(bad), Grads(Graded(State)))
           /\ phase' = "stepped"
  BY ChangedIs, StateIs DEF Guard, Raised
<1>2. phase = "graded" /\ UNCHANGED <<gpu, room, session, plan, ops, stepped, summed, uneven>>
  BY DEF Guard
<1>3. stepped = {}
  BY <1>2 DEF TapeInv, SteppedHere
<1>4. CASE Become(up(0)) /\ phase' = "ready" /\ UNCHANGED poked
  <2>1. PICK ids : ids = Grads(seen(0))
    OBVIOUS
  <2>2. PICK r : r = Raised(State, ids)
    OBVIOUS
  <2>3. Become(r)
    BY <1>4, <2>1, <2>2
  <2>4. Sound(r, poked) /\ Moved(State, r)
    BY ONLY <2>2, StateSound, TapeInv, RaisedSound
  <2>5. Same(State, r) /\ DOMAIN r.mem = DOMAIN mem
    BY <2>4, StateIs DEF Moved
  <2>6. poked' = poked /\ gpu' = gpu /\ room' = room /\ r.gpu = gpu /\ r.room = room
    BY <1>2, <1>4, <2>5, StateIs DEF Same
  <2>7. Writes(r)
    BY <1>2, <1>3, <1>4, <2>3, <2>4, <2>5, <2>6, StateSound DEF Writes, Comes, Phases
  <2> QED BY <2>7, WritesKeep
<1>5. ASSUME NEW bad \in Graded(State), Become(PokeHost(up(bad), Grads(Graded(State)))),
             poked' = poked \cup Unmarked(up(bad), Grads(Graded(State))), phase' = "stepped"
      PROVE  TapeInv'
  <2>1. PICK ids : ids = Grads(seen(bad))
    OBVIOUS
  <2>2. PICK u : u = Raised(State, ids)
    OBVIOUS
  <2>3. PICK all : all = Grads(Graded(State))
    OBVIOUS
  <2>4. Sound(u, poked) /\ Moved(State, u)
    BY ONLY <2>2, StateSound, TapeInv, RaisedSound
  <2>5. Same(State, u) /\ DOMAIN u.mem = DOMAIN mem
    BY <2>4, StateIs DEF Moved
  <2>6. PICK r : r = PokeHost(u, all)
    OBVIOUS
  <2>7. PICK Q : Q = poked'
    OBVIOUS
  <2>8. poked \subseteq Q /\ Unmarked(u, all) \subseteq Q /\ Q = poked \cup Unmarked(u, all)
    BY <1>5, <2>1, <2>2, <2>3, <2>7
  <2>9. Sound(r, Q) /\ Same(u, r) /\ DOMAIN r.mem = DOMAIN u.mem
    BY ONLY <2>4, <2>6, <2>8, PokeHostSound
  <2>10. Same(State, r) /\ DOMAIN r.mem = DOMAIN mem
    BY <2>5, <2>9 DEF Same
  <2>11. poked' \subseteq DOMAIN mem
    BY <2>5, <2>7, <2>8, StateSound DEF Unmarked, Held
  <2>12. Become(r)
    BY <1>5, <2>1, <2>2, <2>3, <2>6
  <2>13. gpu' = gpu /\ room' = room /\ r.gpu = gpu /\ r.room = room
    BY <1>2, <2>10, StateIs DEF Same
  <2>14. Writes(r)
    BY <1>2, <1>3, <1>5, <2>7, <2>9, <2>10, <2>11, <2>12, <2>13 DEF Writes, Comes, Phases
  <2> QED BY <2>14, WritesKeep
<1> QED BY <1>1, <1>4, <1>5

-----------------------------------------------------------------------------
(* The optimizers. *)
\* The weights whose gradients entry i's step puts into its slot.
Taught(t, i) == t[i].applied \cup {t[i].data[2]}
\* r's slots are those of s, with what the steps of P taught them.
Recalled(s, r, P) ==
  /\ r.slots \in [1..MaxParams -> SlotStates]
  /\ \A k \in 1..MaxParams :
       /\ r.slots[k].acc = s.slots[k].acc
       /\ \A w \in r.slots[k].hist : w \in s.slots[k].hist \/ \E e \in P : e[2] = k /\ w \in Taught(s.tape, e[1])

\* The parameters of the current tape.
LEMMA ParamsAre == Params(State) = ParamsOf(tape) /\ W = ParamsOf(tape)
BY StateIs DEF Params, ParamsOf, W

\* What a step stands for: an entry of a parameter with its gradient, and its rank.
LEMMA StepIs ==
  ASSUME TapeInv, NEW e \in Stepping(State)
  PROVE  /\ e = <<e[1], e[2]>> /\ e[1] \in ParamsOf(tape) /\ HasGrad(State, e[1]) /\ e[2] = Rank(e[1], ParamsOf(tape))
         /\ e[2] \in 1..MaxParams /\ e[2] <= nParams /\ e[1] \in 1..MaxEntries
         /\ tape[e[1]].data = <<"weight", Reg(plan, e[2])>> /\ Reg(plan, e[2]) \in Weights
         /\ tape[e[1]].applied \subseteq Weights
<1>1. PICK i \in Graded(State) : e = <<i, Rank(i, Params(State))>> /\ Rank(i, Params(State)) <= nParams
  BY StateIs DEF Stepping
<1>2. i \in ParamsOf(tape) /\ HasGrad(State, i)
  BY <1>1, ParamsAre DEF Graded
<1>3. TapeLaid(tape) /\ nParams \in 0..MaxParams /\ Own(tape, nParams, plan)
  BY StateIs DEF TapeInv, Settled, Laid
<1>4. /\ Len(tape) \in Nat /\ DOMAIN tape = 1..Len(tape) /\ ParamsOf(tape) \subseteq 1..Len(tape)
      /\ tape[i] \in Entries(Weights, MaxParams)
  BY <1>2, <1>3, ParamsLaid DEF ParamsOf
<1>5. Rank(i, ParamsOf(tape)) \in 1..Cardinality(ParamsOf(tape)) /\ Cardinality(ParamsOf(tape)) \in Nat
  BY <1>2, <1>4, RankType
<1>6. e[1] = i /\ e[2] = Rank(i, ParamsOf(tape)) /\ e = <<e[1], e[2]>>
  BY <1>1, ParamsAre
<1>7. PICK k : k = Rank(i, ParamsOf(tape))
  OBVIOUS
<1>8. k \in Nat /\ k >= 1 /\ k <= nParams
  BY <1>1, <1>5, <1>7, ParamsAre
<1>9. k \in 1..MaxParams
  BY <1>3, <1>8, WeightsHere
<1>10. tape[i].data = <<"weight", Reg(plan, k)>>
  BY <1>2, <1>3, <1>7 DEF Own
<1>11. tape[i].applied \subseteq Weights /\ tape[i].data \in {<<"weight", w>> : w \in Weights} \cup {<<"out", j>> : j \in 1..MaxEntries}
  BY <1>4 DEF Entries
<1>12. Reg(plan, k) \in Weights
  BY <1>10, <1>11
<1>13. i \in 1..MaxEntries
  BY <1>2, <1>3, <1>4, WeightsHere DEF TapeLaid
<1> QED BY <1>2, <1>6, <1>7, <1>8, <1>9, <1>10, <1>11, <1>12, <1>13

Steps(r, P) ==
  /\ Comes(r) /\ Sound(r, poked') /\ r.tape = tape /\ r.n = nParams /\ DOMAIN r.mem = DOMAIN mem /\ poked' \subseteq DOMAIN mem
  /\ Recalled(State, r, P) /\ P \subseteq Stepping(State) /\ stepped' = P /\ phase' = "stepped"
  /\ UNCHANGED <<gpu, room, session, plan, ops, summed, uneven>>

\* An optimizer step over parameters with gradients keeps the invariant.
LEMMA StepsKeep ==
  ASSUME TapeInv, NEW r, NEW P, Steps(r, P)
  PROVE  TapeInv'
<1>1. /\ tape' = tape /\ nParams' = nParams /\ slots' = r.slots /\ DOMAIN mem' = DOMAIN mem /\ r.tape = tape /\ r.n = nParams
      /\ mem' = r.mem
  BY StateComes DEF Steps
<1>2. /\ session' = session /\ plan' = plan /\ ops' = ops /\ stepped' = P /\ summed' = summed /\ uneven' = uneven
      /\ phase' = "stepped" /\ P \subseteq Stepping(State) /\ Recalled(State, r, P)
  BY DEF Steps
<1>3. Laid(r) /\ Own(r.tape, r.n, plan')
  <2>1. Laid(State) /\ Own(tape, nParams, plan)
    BY DEF TapeInv, Settled
  <2>2. TapeLaid(tape) /\ nParams \in 0..MaxParams
        /\ \A w \in Weights : <<"weight", w>> \in DOMAIN mem
    BY <2>1, StateIs DEF Laid
  <2>3. r.slots \in [1..MaxParams -> SlotStates]
    BY <1>2 DEF Recalled
  <2> QED BY <2>1, <2>2, <2>3, <1>1, <1>2 DEF Laid
<1>4. Settled'
  <2>1. poked' \subseteq DOMAIN r.mem /\ Comes(r) /\ Sound(r, poked')
    BY DEF Steps
  <2> QED BY <1>3, <2>1, SettledComes
<1>5. \A i : HasGrad(State, i)' <=> HasGrad(State, i)
  BY <1>1 DEF HasGrad, State
<1>6. Stepping(State)' = Stepping(State)
  <2>1. Params(State)' = Params(State)
    BY <1>1 DEF Params, State
  <2>2. Graded(State)' = Graded(State)
    BY <2>1, <1>5 DEF Graded
  <2>3. State'.n = State.n
    BY <1>1 DEF State
  <2> QED BY <2>1, <2>2, <2>3 DEF Stepping
<1>7. SlotsOwn'
  <2> SUFFICES ASSUME ~uneven, NEW k \in 1..MaxParams, Lead(plan, k)
               PROVE  r.slots[k].hist \subseteq {Reg(plan, k)} /\ r.slots[k].acc \subseteq {Reg(plan, k)}
    BY <1>1, <1>2 DEF SlotsOwn
  <2>1. slots[k].hist \subseteq {Reg(plan, k)} /\ slots[k].acc \subseteq {Reg(plan, k)}
    BY DEF TapeInv, SlotsOwn
  <2>2. /\ r.slots[k].acc = slots[k].acc
        /\ \A w \in r.slots[k].hist : w \in slots[k].hist \/ \E e \in P : e[2] = k /\ w \in Taught(tape, e[1])
    BY <1>2, StateIs DEF Recalled
  <2>3. ASSUME NEW e \in P, e[2] = k, NEW w \in Taught(tape, e[1])
        PROVE  w = Reg(plan, k)
    <3>1. /\ e[1] \in ParamsOf(tape) /\ e[2] = Rank(e[1], ParamsOf(tape)) /\ tape[e[1]].data = <<"weight", Reg(plan, e[2])>>
      BY <1>2, StepIs
    <3>2. tape[e[1]].data[2] = Reg(plan, k)
      BY <3>1, <2>3
    <3>3. tape[e[1]].applied # {} => tape[e[1]].applied \subseteq {Reg(plan, k)}
      BY <3>1, <2>3 DEF TapeInv, AppliedOwn
    <3> QED BY <2>3, <3>2, <3>3 DEF Taught
  <2> QED BY <2>1, <2>2, <2>3
<1>8. AppliedOwn' /\ FrozenBare' /\ SteppedHere'
  <2>2. AppliedOwn'
    BY <1>1, <1>2 DEF TapeInv, AppliedOwn
  <2>3. FrozenBare'
    BY <1>1, <1>2, <1>5 DEF TapeInv, FrozenBare
  <2>4. SteppedHere'
    BY <1>2, <1>6 DEF SteppedHere
  <2> QED BY <2>2, <2>3, <2>4
<1>9. Shaped' /\ Underway' /\ GradientsAreComplete'
  BY <1>2 DEF TapeInv, Shaped, Underway, GradientsAreComplete, Phases
<1> QED BY <1>4, <1>7, <1>8, <1>9 DEF TapeInv

\* Moments updated by a step recall the weights whose gradients it used, and no others.
LEMMA RememberedRecalls ==
  ASSUME NEW s, s.slots \in [1..MaxParams -> SlotStates], NEW P, \A e \in P : Taught(s.tape, e[1]) \subseteq Weights,
         NEW r, r.slots = Remembered(s, P)
  PROVE  Recalled(s, r, P)
<1> DEFINE U(k) == UNION {s.tape[e[1]].applied \cup {WeightOf(s, e[1])} : e \in {f \in P : f[2] = k}}
<1>1. \A k : \A w : w \in U(k) <=> \E e \in P : e[2] = k /\ w \in Taught(s.tape, e[1])
  BY DEF Taught, WeightOf
<1>2. \A k : U(k) \subseteq Weights
  BY <1>1
<1>3. r.slots = [k \in 1..MaxParams |-> [s.slots[k] EXCEPT !.hist = @ \cup U(k)]]
  BY DEF Remembered
<1>4. ASSUME NEW k \in 1..MaxParams
      PROVE  r.slots[k] \in SlotStates /\ r.slots[k].acc = s.slots[k].acc /\ r.slots[k].hist = s.slots[k].hist \cup U(k)
  <2>1. PICK b : b = s.slots[k]
    OBVIOUS
  <2>2. PICK V : V = U(k)
    OBVIOUS
  <2>3. b \in SlotStates /\ V \subseteq Weights
    BY <2>1, <2>2, <1>2
  <2>4. r.slots[k] = [b EXCEPT !.hist = @ \cup V]
    BY <1>3, <2>1, <2>2
  <2>5. r.slots[k] \in SlotStates /\ r.slots[k].acc = b.acc /\ r.slots[k].hist = b.hist \cup V
    BY ONLY <2>3, <2>4 DEF SlotStates
  <2> QED BY ONLY <2>5, <2>1, <2>2
<1>5. r.slots \in [1..MaxParams -> SlotStates]
  <2> HIDE DEF U
  <2> QED BY <1>3, <1>4
<1> HIDE DEF U
<1> QED BY <1>1, <1>4, <1>5 DEF Recalled

\* Two steps, one after the other.
LEMMA RecalledTwice ==
  ASSUME NEW s, NEW m, NEW r, NEW D, NEW E, NEW P, D \subseteq P, E \subseteq P, m.tape = s.tape,
         Recalled(s, m, D), Recalled(m, r, E)
  PROVE  Recalled(s, r, P)
BY DEF Recalled

\* Moments left alone recall what they did.
LEMMA RecalledNot ==
  ASSUME NEW s, s.slots \in [1..MaxParams -> SlotStates], NEW P, NEW r, r.slots = s.slots
  PROVE  Recalled(s, r, P)
BY DEF Recalled

\* r comes of s by steps: the mirrors outside Q are truthful, the tape stays.
Stepped(s, r, P, Q) ==
  /\ Sound(r, Q) /\ r.tape = s.tape /\ r.gpu = s.gpu /\ r.room = s.room /\ r.n = s.n /\ DOMAIN r.mem = DOMAIN s.mem
  /\ Recalled(s, r, P)

SlotsSet(m, ss) == [m EXCEPT !.slots = ss]

\* Replacing the slots changes nothing else.
LEMMA SlotsSetIs ==
  ASSUME NEW m, NEW Q, Sound(m, Q), NEW ss, NEW r, r = SlotsSet(m, ss)
  PROVE  Sound(r, Q) /\ r.tape = m.tape /\ r.gpu = m.gpu /\ r.room = m.room /\ r.n = m.n /\ r.mem = m.mem /\ r.slots = ss
<1>1. Fields(m)
  BY DEF Sound
<1>2. /\ Fields(r) /\ r.tape = m.tape /\ r.gpu = m.gpu /\ r.room = m.room /\ r.n = m.n /\ r.mem = m.mem /\ r.slots = ss
      /\ r.misread = m.misread
  BY ONLY <1>1, r = SlotsSet(m, ss) DEF SlotsSet, Fields
<1>3. Sound(r, Q)
  BY ONLY <1>2, Sound(m, Q) DEF Sound, MirrorsIn, Latest
<1> QED BY <1>2, <1>3

\* The operands of the steps of P.
Operands(s, P) == Grads({e[1] : e \in P}) \cup Values(s, P) \cup Moments(P)

\* The host step of nt_tape_adam_step and nt_tape_chuck_step in its parts: the reads, the values, the
\* moments, what they recall.
LEMMA HostStepIs ==
  ASSUME NEW s, NEW op, NEW P
  PROVE  HostStep(s, op, P) =
           SlotsSet(PokeHost(PutHost(HostReads(s, "update", op, Operands(s, P)), Values(s, P)), Moments(P)), Remembered(s, P))
BY DEF HostStep, Operands, PokeHost, PutHost, Changed, SlotsSet

\* The host step is an optimizer step; the moments it writes without a mark are noted.
LEMMA HostStepSteps ==
  ASSUME NEW s, NEW Q, Sound(s, Q), s.slots \in [1..MaxParams -> SlotStates], NEW P, \A e \in P : Taught(s.tape, e[1]) \subseteq Weights,
         NEW op, <<"update", op>> \notin Pullers, NEW R, R = Q \cup Unmarked(s, Moments(P))
  PROVE  Stepped(s, HostStep(s, op, P), P, R)
<1>1. PICK ids : ids = Operands(s, P)
  OBVIOUS
<1>2. PICK h : h = HostReads(s, "update", op, ids)
  OBVIOUS
<1>3. Sound(h, Q) /\ Moved(s, h) /\ h.mem = s.mem
  <2>1. <<"update", op>> \in Pullers => \A id \in ids : Clean(s, id, Q)
    OBVIOUS
  <2> QED BY ONLY <2>1, Sound(s, Q), <1>2, HostReadsSound
<1>4. PICK V : V = Values(s, P)
  OBVIOUS
<1>5. PICK v : v = PutHost(h, V)
  OBVIOUS
<1>6. Sound(v, Q) /\ Same(h, v) /\ DOMAIN v.mem = DOMAIN h.mem
  BY <1>3, <1>5, PutHostSound
<1>7. PICK M : M = Moments(P)
  OBVIOUS
<1>8. Unmarked(v, M) \subseteq R
  <2>1. Fields(h)
    BY <1>3 DEF Sound
  <2>2. v.mem = [id \in DOMAIN h.mem |-> IF id \in V THEN MarkCpuDirty(HostWritten(h.mem[id])) ELSE h.mem[id]]
    BY ONLY <2>1, <1>5 DEF PutHost, Fields
  <2>3. ASSUME NEW id \in DOMAIN h.mem, v.mem[id].dev # "absent"
        PROVE  h.mem[id].dev # "absent"
    <3>1. h.mem[id] \in Mirrors
      BY <1>3 DEF Sound, MirrorsIn
    <3>2. CASE id \notin V
      BY <2>2, <2>3, <3>2
    <3>3. CASE id \in V
      <4>1. PICK t : t = h.mem[id]
        OBVIOUS
      <4>2. v.mem[id] = MarkCpuDirty(HostWritten(t)) /\ t \in Mirrors
        BY <2>2, <3>1, <3>3, <4>1
      <4>3. v.mem[id].dev = IF t.dev = "absent" THEN "absent" ELSE "old"
        BY ONLY <4>2 DEF MarkCpuDirty, HostWritten, Mirrors
      <4> QED BY <2>3, <4>1, <4>3
    <3> QED BY <3>2, <3>3
  <2>4. Unmarked(v, M) \subseteq Unmarked(s, M)
    BY <1>3, <1>6, <2>3 DEF Unmarked, Held
  <2> QED BY <1>7, <2>4
<1>9. PICK m : m = PokeHost(v, M)
  OBVIOUS
<1>10. Sound(m, R) /\ Same(v, m) /\ DOMAIN m.mem = DOMAIN v.mem
  <2>1. Q \subseteq R
    OBVIOUS
  <2> QED BY ONLY <2>1, <1>6, <1>8, <1>9, PokeHostSound
<1>11. PICK ss : ss = Remembered(s, P)
  OBVIOUS
<1>12. PICK r : r = SlotsSet(m, ss)
  OBVIOUS
<1>13. Sound(r, R) /\ r.tape = m.tape /\ r.gpu = m.gpu /\ r.room = m.room /\ r.n = m.n /\ r.mem = m.mem /\ r.slots = ss
  BY ONLY <1>10, <1>12, SlotsSetIs
<1>14. Recalled(s, r, P)
  BY <1>11, <1>13, RememberedRecalls
<1>15. Stepped(s, r, P, R)
  BY <1>3, <1>6, <1>10, <1>13, <1>14 DEF Stepped, Moved, Same
<1>16. r = HostStep(s, op, P)
  BY ONLY <1>1, <1>2, <1>4, <1>5, <1>7, <1>9, <1>11, <1>12, HostStepIs
<1> QED BY <1>15, <1>16

\* The device step of nt_tape_chuck_step in its parts: the uploads, the reads, the values and moments,
\* what they recall.
LEMMA DeviceStepIs ==
  ASSUME NEW s, NEW P
  PROVE  DeviceStep(s, P) =
           SlotsSet(PutDev(DevReads(Upload(s, Operands(s, P)), "update", "chuck", Operands(s, P)), Values(s, P) \cup Moments(P)),
                    Remembered(s, P))
BY DEF DeviceStep, Operands, PutDev, Changed, SlotsSet

\* The device step is an optimizer step.
LEMMA DeviceStepSteps ==
  ASSUME NEW s, NEW Q, Sound(s, Q), s.slots \in [1..MaxParams -> SlotStates], NEW P, \A e \in P : Taught(s.tape, e[1]) \subseteq Weights,
         \A id \in Operands(s, P) : id \in DOMAIN s.mem => s.mem[id].dev # "absent", P # {} => s.gpu
  PROVE  Stepped(s, DeviceStep(s, P), P, Q)
<1>1. PICK ids : ids = Operands(s, P)
  OBVIOUS
<1>2. PICK u : u = Upload(s, ids)
  OBVIOUS
<1>3. Sound(u, Q) /\ Moved(s, u) /\ \A id \in ids : OnDevice(u, {id}) => Fresh(u, id, Q)
  BY ONLY <1>2, Sound(s, Q), UploadSound
<1>4. ASSUME NEW id \in ids PROVE Fresh(u, id, Q)
  <2>1. CASE id \notin DOMAIN u.mem
    BY <2>1 DEF Fresh
  <2>2. CASE id \in DOMAIN u.mem
    <3>1. id \in DOMAIN s.mem /\ s.mem[id].dev # "absent"
      BY <1>1, <1>3, <1>4, <2>2 DEF Moved
    <3>2. u.mem[id] = EnsureGpu(s.mem[id], s.room # "plenty") /\ s.mem[id] \in Mirrors
      BY <3>1, <1>2, <1>4, UploadFields DEF Sound, MirrorsIn
    <3>3. PICK t : t = s.mem[id]
      OBVIOUS
    <3>4. PICK full : full = (s.room # "plenty")
      OBVIOUS
    <3>5. u.mem[id].dev # "absent"
      <4>1. t \in Mirrors /\ t.dev # "absent" /\ u.mem[id] = EnsureGpu(t, full)
        BY <3>1, <3>2, <3>3, <3>4
      <4> QED BY ONLY <4>1 DEF EnsureGpu, Mirrors
    <3>6. OnDevice(u, {id})
      BY <3>5 DEF OnDevice
    <3> QED BY <3>6, <1>3, <1>4
  <2> QED BY <2>1, <2>2
<1>5. PICK d : d = DevReads(u, "update", "chuck", ids)
  OBVIOUS
<1>6. Sound(d, Q) /\ Moved(u, d) /\ d.mem = u.mem
  <2>1. \A id \in ids : Fresh(u, id, Q)
    BY <1>4
  <2> QED BY ONLY <1>3, <2>1, <1>5, DevReadsSound
<1>7. PICK V : V = Values(s, P) \cup Moments(P)
  OBVIOUS
<1>8. PICK m : m = PutDev(d, V)
  OBVIOUS
<1>9. Sound(m, Q) /\ Same(d, m) /\ DOMAIN m.mem = DOMAIN d.mem
  <2>1. CASE d.gpu
    BY <1>6, <1>8, <2>1, PutDevSound
  <2>2. CASE ~d.gpu
    <3>1. P = {}
      BY <2>2, <1>3, <1>6 DEF Moved, Same
    <3>2. V = {}
      BY <3>1, <1>7 DEF Values, Moments
    <3>3. PICK g : g = [id \in DOMAIN d.mem |-> IF id \in V THEN MarkGpuFresh(DevWritten(d.mem[id])) ELSE d.mem[id]]
      OBVIOUS
    <3>4. m = [d EXCEPT !.mem = g]
      BY ONLY <1>8, <3>3 DEF PutDev
    <3>5. DOMAIN g = DOMAIN d.mem /\ \A id \in DOMAIN d.mem : g[id] = d.mem[id]
      BY <3>2, <3>3
    <3>6. \A id \in DOMAIN d.mem : g[id] \in Mirrors /\ (id \notin Q => Truthful(g[id])) /\ (g[id].dirty => d.gpu)
      BY <3>5, <1>6 DEF Sound, MirrorsIn
    <3>7. PICK QQ : QQ = Q
      OBVIOUS
    <3>8. Q \subseteq QQ
      BY <3>7
    <3>9. Sound(m, QQ) /\ Same(d, m) /\ m.mem = g
      BY ONLY <3>4, <3>5, <3>6, <3>7, <3>8, <1>6, PutSound
    <3> QED BY <3>5, <3>7, <3>9
  <2> QED BY <2>1, <2>2
<1>11. PICK ss : ss = Remembered(s, P)
  OBVIOUS
<1>12. PICK r : r = SlotsSet(m, ss)
  OBVIOUS
<1>13. Sound(r, Q) /\ r.tape = m.tape /\ r.gpu = m.gpu /\ r.room = m.room /\ r.n = m.n /\ r.mem = m.mem /\ r.slots = ss
  BY ONLY <1>9, <1>12, SlotsSetIs
<1>14. Recalled(s, r, P)
  BY <1>11, <1>13, RememberedRecalls
<1>15. Stepped(s, r, P, Q)
  BY <1>3, <1>6, <1>9, <1>13, <1>14 DEF Stepped, Moved, Same
<1>16. r = DeviceStep(s, P)
  BY ONLY <1>1, <1>2, <1>5, <1>7, <1>8, <1>11, <1>12, DeviceStepIs
<1> QED BY <1>15, <1>16

\* A step's own slots are not among the update loops that pull.
LEMMA NotPulling == <<"update", "adam">> \notin Pullers /\ <<"update", "chuck">> \notin Pullers
BY DEF Pullers

\* What a step teaches the moments is the weights of the tape's parameters.
LEMMA StepsTeach ==
  ASSUME TapeInv, NEW P, P \subseteq Stepping(State)
  PROVE  \A e \in P : Taught(tape, e[1]) \subseteq Weights
<1> SUFFICES ASSUME NEW e \in P PROVE Taught(tape, e[1]) \subseteq Weights
  OBVIOUS
<1>1. tape[e[1]].data = <<"weight", Reg(plan, e[2])>> /\ Reg(plan, e[2]) \in Weights /\ tape[e[1]].applied \subseteq Weights
  BY StepIs
<1> QED BY <1>1 DEF Taught

\* The tensors written without a mark are tensors there are.
LEMMA PokedHere ==
  ASSUME TapeInv, NEW s, DOMAIN s.mem = DOMAIN mem, NEW ids
  PROVE  poked \cup Unmarked(s, ids) \subseteq DOMAIN mem
BY StateSound DEF Unmarked, Held

\* nt_tape_adam_step and nt_tape_adamw_step keep the invariant.
LEMMA Adams == ASSUME TapeInv, Adam PROVE TapeInv'
<1>1. PICK P : P = Stepping(State)
  OBVIOUS
<1>2. PICK R : R = poked \cup Unmarked(State, Moments(P))
  OBVIOUS
<1>3. PICK r : r = HostStep(State, "adam", P)
  OBVIOUS
<1>4. Become(r) /\ poked' = R /\ stepped' = P /\ phase' = "stepped" /\ UNCHANGED <<gpu, room, session, plan, ops, summed, uneven>>
  BY <1>1, <1>2, <1>3 DEF Adam
<1>5. /\ Sound(State, poked) /\ State.slots \in [1..MaxParams -> SlotStates] /\ \A e \in P : Taught(State.tape, e[1]) \subseteq Weights
      /\ <<"update", "adam">> \notin Pullers
  BY StateSound, StateIs, StepsTeach, NotPulling, <1>1 DEF Laid
<1>6. Stepped(State, r, P, R)
  BY ONLY <1>2, <1>3, <1>5, HostStepSteps
<1>7. R \subseteq DOMAIN mem
  BY <1>2, PokedHere, StateIs
<1>8. Steps(r, P)
  BY <1>1, <1>4, <1>6, <1>7, StateIs DEF Steps, Stepped, Comes
<1> QED BY <1>8, StepsKeep

\* A slot whose gradients stay small is left out from now on.
Cooled(ss, C) == [k \in 1..MaxParams |-> IF k \in C THEN [ss[k] EXCEPT !.frozen = TRUE] ELSE ss[k]]
ChillTable(ss, cooled, P) ==
  [k \in 1..MaxParams |-> IF k \in cooled /\ \E e \in P : e[2] = k THEN [ss[k] EXCEPT !.frozen = TRUE] ELSE ss[k]]

\* The freezing of the slots whose gradients stagnate, as one table.
LEMMA ChillIs ==
  ASSUME NEW m, NEW cooled, NEW P
  PROVE  [m EXCEPT !.slots = [k \in 1..MaxParams |-> IF k \in cooled /\ \E e \in P : e[2] = k THEN [@[k] EXCEPT !.frozen = TRUE] ELSE @[k]]]
           = SlotsSet(m, ChillTable(m.slots, cooled, P))
BY DEF SlotsSet, ChillTable

\* Freezing slots after a step is part of that step.
LEMMA CooledSteps ==
  ASSUME NEW s, NEW m, NEW P, NEW Q, Stepped(s, m, P, Q), NEW C
  PROVE  Stepped(s, SlotsSet(m, Cooled(m.slots, C)), P, Q)
<1>1. PICK ss : ss = Cooled(m.slots, C)
  OBVIOUS
<1>2. PICK r : r = SlotsSet(m, ss)
  OBVIOUS
<1>3. Sound(r, Q) /\ r.tape = m.tape /\ r.gpu = m.gpu /\ r.room = m.room /\ r.n = m.n /\ r.mem = m.mem /\ r.slots = ss
  BY <1>2, SlotsSetIs DEF Stepped
<1>4. m.slots \in [1..MaxParams -> SlotStates]
  BY DEF Stepped, Recalled
<1>5. ASSUME NEW k \in 1..MaxParams
      PROVE  ss[k] \in SlotStates /\ ss[k].acc = m.slots[k].acc /\ ss[k].hist = m.slots[k].hist
  <2>1. PICK b : b = m.slots[k]
    OBVIOUS
  <2>3. b \in SlotStates /\ ss[k] = IF k \in C THEN [b EXCEPT !.frozen = TRUE] ELSE b
    BY <1>1, <1>4, <2>1 DEF Cooled
  <2>4. ss[k] \in SlotStates /\ ss[k].acc = b.acc /\ ss[k].hist = b.hist
    BY ONLY <2>3 DEF SlotStates
  <2> QED BY <2>1, <2>4
<1>6. ss \in [1..MaxParams -> SlotStates]
  BY <1>1, <1>5 DEF Cooled
<1>7. Recalled(s, r, P)
  BY <1>3, <1>5, <1>6 DEF Recalled, Stepped
<1> QED BY <1>1, <1>2, <1>3, <1>7 DEF Stepped

\* A step of some parameters on the device and of the others on the host is one step.
LEMMA SteppedTwice ==
  ASSUME NEW s, NEW m, NEW r, NEW D, NEW E, NEW P, D \subseteq P, E \subseteq P, NEW Q, NEW R,
         Stepped(s, m, D, Q), Stepped(m, r, E, R)
  PROVE  Stepped(s, r, P, R)
<1>1. m.tape = s.tape
  BY DEF Stepped
<1>2. Recalled(s, r, P)
  BY <1>1, RecalledTwice DEF Stepped
<1> QED BY <1>2 DEF Stepped

\* Copies before a step are the step of no parameter.
LEMMA MovedSteps ==
  ASSUME NEW s, NEW m, NEW Q, Moved(s, m), Sound(m, Q), s.slots \in [1..MaxParams -> SlotStates]
  PROVE  Stepped(s, m, {}, Q)
<1>1. m.slots = s.slots
  BY DEF Moved, Same
<1>2. PICK none : none = {}
  OBVIOUS
<1>3. Recalled(s, m, none)
  BY <1>1, RecalledNot
<1> QED BY <1>2, <1>3 DEF Stepped, Moved, Same

\* The batch of norms copies gradients and changes none.
LEMMA NormBatchSound ==
  ASSUME NEW s, NEW P, Sound(s, P)
  PROVE  Sound(NormBatch(s), P) /\ Moved(s, NormBatch(s))
<1>1. PICK ids : ids = Grads({e[1] : e \in Normed(s)})
  OBVIOUS
<1>2. PICK up : up = Upload(s, ids)
  OBVIOUS
<1>3. PICK D : D = {id \in ids : up.mem[id].dev # "absent"}
  OBVIOUS
<1>4. PICK q : q = DevReads(up, "update", "norms", D)
  OBVIOUS
<1>5. Sound(up, P) /\ Moved(s, up) /\ \A id \in ids : OnDevice(up, {id}) => Fresh(up, id, P)
  BY <1>2, UploadSound
<1>6. \A id \in D : Fresh(up, id, P)
  BY <1>3, <1>5 DEF OnDevice
<1>7. Sound(q, P) /\ Moved(up, q)
  BY ONLY <1>4, <1>5, <1>6, DevReadsSound
<1>8. Moved(s, q)
  BY ONLY <1>5, <1>7, MovedTwice
<1>9. NormBatch(s) = q
  BY <1>1, <1>2, <1>3, <1>4 DEF NormBatch
<1> QED BY <1>7, <1>8, <1>9

\* nt_tape_chuck_step keeps the invariant, with parameters stepped on the device, on the host, and
\* frozen.
LEMMA Chucks == ASSUME TapeInv, Chuck PROVE TapeInv'
<1>a. State.gpu = gpu
  BY StateIs, Zenon
<1>b. PICK noisy \in BOOLEAN, cooled \in {{}, 1..MaxParams} :
       LET P   == {e \in Stepping(State) : ~slots[e[2]].frozen}
           up  == IF gpu THEN NormBatch(State) ELSE State
           tried == IF gpu /\ ~noisy THEN Upload(up, Grads({e[1] : e \in P}) \cup Values(up, P) \cup Moments(P)) ELSE up
           D   == {e \in P : gpu /\ ~noisy /\
                     OnDevice(tried, {<<"grad", e[1]>>, tape[e[1]].data, <<"slot", e[2]>>})}
           dev == DeviceStep(tried, D)
           r   == [HostStep(dev, "chuck", P \ D) EXCEPT
                     !.slots = [k \in 1..MaxParams |->
                        IF k \in cooled /\ \E e \in P : e[2] = k THEN [@[k] EXCEPT !.frozen = TRUE] ELSE @[k]]]
       IN  /\ Become(r)
           /\ poked' = poked \cup Unmarked(dev, Moments(P \ D))
           /\ stepped' = P
  BY ONLY Chuck, Zenon DEF Chuck
<1> DEFINE P == {e \in Stepping(State) : ~slots[e[2]].frozen}
<1> DEFINE up == IF gpu THEN NormBatch(State) ELSE State
<1> DEFINE tried == IF gpu /\ ~noisy THEN Upload(up, Operands(up, P)) ELSE up
<1> DEFINE D == {e \in P : gpu /\ ~noisy /\ OnDevice(tried, {<<"grad", e[1]>>, tape[e[1]].data, <<"slot", e[2]>>})}
<1> DEFINE dev == DeviceStep(tried, D)
<1> DEFINE r == [HostStep(dev, "chuck", P \ D) EXCEPT
                   !.slots = [k \in 1..MaxParams |->
                      IF k \in cooled /\ \E e \in P : e[2] = k THEN [@[k] EXCEPT !.frozen = TRUE] ELSE @[k]]]
<1>d. Become(r) /\ poked' = poked \cup Unmarked(dev, Moments(P \ D)) /\ stepped' = P
  BY ONLY <1>b, Zenon DEF Operands
<1> HIDE DEF r
<1>e. r = [HostStep(dev, "chuck", P \ D) EXCEPT
                   !.slots = [k \in 1..MaxParams |->
                      IF k \in cooled /\ \E e \in P : e[2] = k THEN [@[k] EXCEPT !.frozen = TRUE] ELSE @[k]]]
  BY ONLY DEF r
<1> HIDE DEF dev
<1>f. dev = DeviceStep(tried, D)
  BY ONLY DEF dev
<1> HIDE DEF D
<1>g. D = {e \in P : gpu /\ ~noisy /\ OnDevice(tried, {<<"grad", e[1]>>, tape[e[1]].data, <<"slot", e[2]>>})}
  BY ONLY DEF D
<1> HIDE DEF tried
<1>h. tried = IF gpu /\ ~noisy THEN Upload(up, Operands(up, P)) ELSE up
  BY ONLY DEF tried
<1> HIDE DEF up
<1>i. up = IF gpu THEN NormBatch(State) ELSE State
  BY ONLY DEF up
<1> HIDE DEF P
<1>j. P = {e \in Stepping(State) : ~slots[e[2]].frozen}
  BY ONLY DEF P
<1>1. /\ P \subseteq Stepping(State) /\ up = (IF gpu THEN NormBatch(State) ELSE State)
      /\ tried = IF gpu /\ ~noisy THEN Upload(up, Operands(up, P)) ELSE up
      /\ D = {e \in P : gpu /\ ~noisy /\ OnDevice(tried, {<<"grad", e[1]>>, tape[e[1]].data, <<"slot", e[2]>>})}
      /\ dev = DeviceStep(tried, D)
      /\ Become(r) /\ poked' = poked \cup Unmarked(dev, Moments(P \ D)) /\ stepped' = P
  BY <1>d, <1>f, <1>g, <1>h, <1>i, <1>j, Zenon
<1>2. phase' = "stepped" /\ UNCHANGED <<gpu, room, session, plan, ops, summed, uneven>>
  BY Zenon DEF Chuck
<1>3. P \subseteq Stepping(State) /\ D \subseteq P
  BY <1>1
<1>4. Sound(State, poked) /\ State.slots \in [1..MaxParams -> SlotStates] /\ State.tape = tape /\ State.gpu = gpu
  BY StateSound, StateIs DEF Laid
<1>5. Sound(tried, poked) /\ Moved(State, tried)
  <2>2. PICK jds : jds = Operands(up, P)
    OBVIOUS
  <2>3. up = (IF gpu THEN NormBatch(State) ELSE State) /\ tried = IF gpu /\ ~noisy THEN Upload(up, jds) ELSE up
    BY <1>1, <2>2
  <2>4. Sound(up, poked) /\ Moved(State, up)
    BY <2>3, <1>4, NormBatchSound, MovedNot
  <2>5. CASE gpu /\ ~noisy
    <3>1. tried = Upload(up, jds)
      BY <2>3, <2>5
    <3>2. Sound(tried, poked) /\ Moved(up, tried)
      BY ONLY <2>4, <3>1, UploadSound
    <3> QED BY ONLY <2>4, <3>2, MovedTwice
  <2>6. CASE ~(gpu /\ ~noisy)
    BY <2>3, <2>4, <2>6
  <2> QED BY <2>5, <2>6
<1>6. Stepped(State, tried, {}, poked)
  BY ONLY <1>4, <1>5, MovedSteps
<1>7. tried.tape = tape /\ tried.gpu = gpu /\ tried.slots \in [1..MaxParams -> SlotStates]
  BY <1>4, <1>6 DEF Stepped, Recalled
<1>8. \A e \in P : Taught(tape, e[1]) \subseteq Weights
  BY <1>3, StepsTeach
<1>9. Stepped(tried, dev, D, poked)
  <2>1. \A e \in D : Taught(tried.tape, e[1]) \subseteq Weights
    BY <1>3, <1>7, <1>8
  <2>2. \A id \in Operands(tried, D) : id \in DOMAIN tried.mem => tried.mem[id].dev # "absent"
    <3>1. \A e \in D : OnDevice(tried, {<<"grad", e[1]>>, tape[e[1]].data, <<"slot", e[2]>>})
      BY <1>1
    <3>2. \A id \in Operands(tried, D) : \E e \in D : id \in {<<"grad", e[1]>>, tape[e[1]].data, <<"slot", e[2]>>}
      BY <1>7 DEF Operands, Grads, Values, Moments
    <3> QED BY <3>1, <3>2 DEF OnDevice
  <2>3. D # {} => tried.gpu
    BY <1>1, <1>7
  <2>4. dev = DeviceStep(tried, D)
    BY <1>1
  <2> QED BY ONLY <1>5, <1>7, <2>1, <2>2, <2>3, <2>4, DeviceStepSteps
<1>10. PICK E : E = P \ D
  OBVIOUS
<1>11. PICK R : R = poked \cup Unmarked(dev, Moments(E))
  OBVIOUS
<1>12. PICK h : h = HostStep(dev, "chuck", E)
  OBVIOUS
<1>13. Stepped(dev, h, E, R)
  <2>1. \A e \in E : Taught(dev.tape, e[1]) \subseteq Weights
    BY <1>7, <1>8, <1>9, <1>10 DEF Stepped
  <2>2. Sound(dev, poked) /\ dev.slots \in [1..MaxParams -> SlotStates] /\ <<"update", "chuck">> \notin Pullers
    BY <1>9, NotPulling DEF Stepped, Recalled
  <2> QED BY ONLY <1>11, <1>12, <2>1, <2>2, HostStepSteps
<1>14. Stepped(State, h, P, R)
  <2>1. {} \subseteq P /\ D \subseteq P /\ E \subseteq P
    BY <1>3, <1>10
  <2>2. PICK none : none = {}
    OBVIOUS
  <2>3. Stepped(State, dev, P, poked)
    BY ONLY <1>6, <1>9, <2>1, <2>2, SteppedTwice
  <2>4. P \subseteq P
    OBVIOUS
  <2> QED BY ONLY <2>1, <2>3, <2>4, <1>13, SteppedTwice
<1>15. PICK C : C = {k \in 1..MaxParams : k \in cooled /\ \E e \in P : e[2] = k}
  OBVIOUS
<1>16. r = SlotsSet(h, Cooled(h.slots, C))
  <2>1. Fields(h)
    BY <1>14 DEF Stepped, Sound
  <2>2. r = [h EXCEPT !.slots = [k \in 1..MaxParams |-> IF k \in cooled /\ \E e \in P : e[2] = k THEN [@[k] EXCEPT !.frozen = TRUE] ELSE @[k]]]
    BY <1>e, <1>10, <1>12
  <2>3. \A k \in 1..MaxParams : (k \in cooled /\ \E e \in P : e[2] = k) <=> k \in C
    BY <1>15
  <2>4. PICK ss : ss = h.slots
    OBVIOUS
  <2>5. ss \in [1..MaxParams -> SlotStates]
    BY <2>4, <1>14 DEF Stepped, Recalled
  <2>a. r = SlotsSet(h, ChillTable(h.slots, cooled, P))
    BY ONLY <2>2, ChillIs
  <2>b. PICK tt : tt = ChillTable(ss, cooled, P)
    OBVIOUS
  <2>6. tt = [k \in 1..MaxParams |-> IF k \in cooled /\ \E e \in P : e[2] = k THEN [ss[k] EXCEPT !.frozen = TRUE] ELSE ss[k]]
    BY ONLY <2>b DEF ChillTable
  <2>7. r = SlotsSet(h, tt)
    BY ONLY <2>a, <2>b, <2>4
  <2>8. tt = Cooled(ss, C)
    BY ONLY <2>3, <2>6 DEF Cooled
  <2> QED BY ONLY <2>4, <2>7, <2>8
<1>17. Stepped(State, r, P, R)
  BY ONLY <1>14, <1>16, CooledSteps
<1>18. R \subseteq DOMAIN mem
  <2>1. DOMAIN dev.mem = DOMAIN mem
    BY <1>4, <1>6, <1>9, StateIs DEF Stepped
  <2> QED BY <2>1, <1>11, PokedHere
<1>19. Become(r) /\ poked' = R /\ stepped' = P
  BY <1>1, <1>10, <1>11
<1>20. gpu' = gpu /\ room' = room /\ r.gpu = gpu /\ r.room = room
  BY <1>2, <1>17, StateIs DEF Stepped
<1>21. Steps(r, P)
  BY <1>2, <1>3, <1>17, <1>18, <1>19, <1>20, StateIs DEF Steps, Stepped, Comes
<1> QED BY <1>21, StepsKeep

-----------------------------------------------------------------------------
(* Accumulated gradients. *)
\* The parameters of the tape, as the invariant knows them.
LEMMA ParamsHere ==
  ASSUME TapeInv
  PROVE  /\ TapeLaid(tape) /\ nParams \in 0..MaxParams /\ slots \in [1..MaxParams -> SlotStates] /\ Own(tape, nParams, plan)
         /\ Len(tape) \in Nat /\ DOMAIN tape = 1..Len(tape) /\ ParamsOf(tape) \subseteq 1..Len(tape)
         /\ Graded(State) \subseteq ParamsOf(tape) /\ Graded(State) \subseteq 1..Len(tape)
         /\ \A i \in ParamsOf(tape) : Rank(i, ParamsOf(tape)) \in 1..Cardinality(ParamsOf(tape))
         /\ Cardinality(ParamsOf(tape)) \in Nat
         /\ \A i \in ParamsOf(tape) : WeightOf(State, i) = Reg(plan, Rank(i, ParamsOf(tape))) /\ WeightOf(State, i) \in Weights
<1>1. TapeLaid(tape) /\ nParams \in 0..MaxParams /\ slots \in [1..MaxParams -> SlotStates] /\ Own(tape, nParams, plan)
  BY StateIs DEF TapeInv, Settled, Laid
<1>2. Len(tape) \in Nat /\ DOMAIN tape = 1..Len(tape) /\ ParamsOf(tape) \subseteq 1..Len(tape)
      /\ \A i \in DOMAIN tape : tape[i] \in Entries(Weights, MaxParams)
  BY <1>1, ParamsLaid
<1>3. Graded(State) \subseteq ParamsOf(tape)
  BY ParamsAre DEF Graded
<1>4. /\ \A i \in ParamsOf(tape) : Rank(i, ParamsOf(tape)) \in 1..Cardinality(ParamsOf(tape))
      /\ Cardinality(ParamsOf(tape)) \in Nat
  BY <1>2, RankType
<1>5. ASSUME NEW i \in ParamsOf(tape)
      PROVE  WeightOf(State, i) = Reg(plan, Rank(i, ParamsOf(tape))) /\ WeightOf(State, i) \in Weights
  <2>1. PICK w : w = Reg(plan, Rank(i, ParamsOf(tape)))
    OBVIOUS
  <2>2. tape[i].data = <<"weight", w>>
    BY <1>1, <2>1 DEF Own
  <2>3. tape[i].data \in {<<"weight", v>> : v \in Weights} \cup {<<"out", j>> : j \in 1..MaxEntries}
    BY <1>2, <1>5 DEF Entries, ParamsOf
  <2>4. w \in Weights
    BY <2>2, <2>3
  <2>5. WeightOf(State, i) = w
    BY <2>2, StateIs DEF WeightOf
  <2> QED BY <2>1, <2>4, <2>5
<1> QED BY <1>1, <1>2, <1>3, <1>4, <1>5

\* Where every slot's parameter has a gradient, counting the gradients counts
\* the parameters, up to the first one without a slot.
LEMMA GradedRank ==
  ASSUME TapeInv, \A i \in ParamsOf(tape) : tape[i].slot # 0 => HasGrad(State, i),
         NEW k \in 1..MaxParams, Lead(plan, k), NEW i \in Graded(State), Rank(i, Graded(State)) = k
  PROVE  Rank(i, ParamsOf(tape)) = k
<1>1. PICK G : G = Graded(State)
  OBVIOUS
<1>2. PICK A : A = ParamsOf(tape)
  OBVIOUS
<1>3. PICK N : N = Len(tape)
  OBVIOUS
<1>4. N \in Nat /\ G \subseteq A /\ A \subseteq 1..N /\ G \subseteq 1..N /\ i \in G /\ i \in A /\ Rank(i, G) = k
  BY <1>1, <1>2, <1>3, ParamsHere
<1>5. PICK m : m = Rank(i, A)
  OBVIOUS
<1>6. m \in 1..Cardinality(A) /\ Cardinality(A) \in Nat /\ IsFiniteSet(A) /\ k \in Nat /\ k >= 1
  <2>1. /\ IsFiniteSet(A) /\ Cardinality(A) \in Nat /\ \A x \in A : Rank(x, A) \in 1..Cardinality(A)
    BY ONLY <1>4, RankType
  <2>2. k \in Nat /\ k >= 1
    BY WeightsHere
  <2> QED BY <2>1, <2>2, <1>4, <1>5
<1>7. k <= m
  <2>1. {j \in G : j <= i} \subseteq {j \in A : j <= i}
    BY <1>4
  <2>2. IsFiniteSet({j \in A : j <= i})
    BY <1>6, FS_Subset
  <2>3. Cardinality({j \in G : j <= i}) <= Cardinality({j \in A : j <= i})
    BY <2>1, <2>2, FS_Subset
  <2> QED BY <2>3, <1>4, <1>5 DEF Rank
<1>8. CASE m # k
  <2>1. k \in 1..Cardinality(A)
    BY <1>6, <1>7
  <2>2. PICK j \in A : Rank(j, A) = k
    BY <2>1, <1>4, RankTaken
  <2>3. j \in 1..N /\ i \in 1..N
    BY <1>4, <2>2
  <2>4. j < i
    <3>1. i < j => Rank(i, A) < Rank(j, A)
      BY <1>4, <2>2, RankType
    <3>2. i # j
      BY <1>5, <1>8, <2>2
    <3> QED BY <3>1, <3>2, <2>2, <2>3, <1>5, <1>6, <1>7, <1>8
  <2>5. ASSUME NEW x \in A, x <= j PROVE x \in G
    <3>1. x \in 1..N /\ Rank(x, A) \in 1..Cardinality(A)
      BY <1>4, RankType
    <3>2. Rank(x, A) <= k
      <4>1. CASE x = j
        BY <4>1, <2>2, <1>6
      <4>2. CASE x # j
        <5>1. x < j
          BY <4>2, <3>1, <2>3, <2>5
        <5>2. Rank(x, A) < Rank(j, A)
          BY <5>1, <1>4, <2>2, RankType
        <5> QED BY <5>2, <3>1, <2>2, <1>6
      <4> QED BY <4>1, <4>2
    <3>3. PICK q : q = Rank(x, A)
      OBVIOUS
    <3>4. Lead(plan, q)
      <4>1. q \in Nat /\ q <= k /\ k <= MaxParams /\ MaxParams \in Nat /\ q <= MaxParams /\ 1..q \subseteq 1..k
        BY <3>1, <3>2, <3>3, <1>6, WeightsHere
      <4> QED BY <4>1 DEF Lead
    <3>5. tape[x].slot = q
      BY <3>3, <3>4, <1>2, ParamsHere DEF Own
    <3>6. tape[x].slot # 0
      BY <3>1, <3>3, <3>5, <1>6
    <3>7. HasGrad(State, x)
      BY <3>6, <1>2
    <3> QED BY <3>7, <1>1, <1>2, ParamsAre DEF Graded
  <2>6. j \in G
    BY <2>2, <2>3, <2>5
  <2>7. {x \in G : x <= j} = {x \in A : x <= j}
    BY <2>5, <1>4
  <2>8. Rank(j, G) = k
    BY <2>2, <2>7 DEF Rank
  <2>9. i = j
    BY <2>6, <2>8, <1>4, RankOnce
  <2> QED BY <2>3, <2>4, <2>9
<1> QED BY <1>2, <1>5, <1>8

\* What accum_grads counts, and what it leaves in the slots.
Counted(s) == {i \in Graded(s) : Rank(i, Graded(s)) <= s.n}
AccTable(s) ==
  [k \in 1..MaxParams |->
     LET own == {i \in Counted(s) : Rank(i, Graded(s)) = k}
     IN  IF own = {} THEN s.slots[k]
         ELSE [s.slots[k] EXCEPT !.hasAcc = TRUE, !.acc = s.slots[k].acc \cup {WeightOf(s, i) : i \in own}]]

\* nt_tape_accum_grads in its parts: the reads and the sums it adds to.
LEMMA AccumIs ==
  ASSUME NEW s, Fields(s)
  PROVE  nt_tape_accum_grads(s) = SlotsSet(HostReads(s, "update", "accum", Grads(Counted(s))), AccTable(s))
<1>1. PICK h : h = HostReads(s, "update", "accum", Grads(Counted(s)))
  OBVIOUS
<1>2. h.slots = s.slots
  BY ONLY <1>1, Fields(s) DEF HostReads, Fields
<1>3. nt_tape_accum_grads(s) =
        SlotsSet(h, [k \in 1..MaxParams |->
     LET own == {i \in Counted(s) : Rank(i, Graded(s)) = k}
     IN  IF own = {} THEN h.slots[k]
         ELSE [h.slots[k] EXCEPT !.hasAcc = TRUE, !.acc = s.slots[k].acc \cup {WeightOf(s, i) : i \in own}]])
  BY ONLY <1>1 DEF nt_tape_accum_grads, SlotsSet, Counted
<1> QED BY ONLY <1>1, <1>2, <1>3 DEF AccTable

\* nt_tape_accum_grads keeps the invariant.
LEMMA Accumulates == ASSUME TapeInv, Accumulate PROVE TapeInv'
<1>1. PICK s : s = State
  OBVIOUS
<1>2. PICK ids : ids = Grads(Counted(s))
  OBVIOUS
<1>3. PICK h : h = HostReads(s, "update", "accum", ids)
  OBVIOUS
<1>4. Sound(h, poked) /\ Moved(s, h)
  <2>1. <<"update", "accum">> \in Pullers => \A id \in ids : Clean(s, id, poked)
    BY DEF Pullers
  <2>2. Sound(s, poked)
    BY <1>1, StateSound
  <2> QED BY ONLY <2>1, <2>2, <1>3, HostReadsSound
<1>5. PICK ss : ss = AccTable(s)
  OBVIOUS
<1>6. PICK r : r = SlotsSet(h, ss)
  OBVIOUS
<1>7. Sound(r, poked) /\ r.tape = h.tape /\ r.gpu = h.gpu /\ r.room = h.room /\ r.n = h.n /\ r.mem = h.mem /\ r.slots = ss
  BY ONLY <1>4, <1>6, SlotsSetIs
<1>8. r = nt_tape_accum_grads(State)
  <2>1. Fields(s) /\ s = State
    BY <1>1, StateIs
  <2> QED BY ONLY <2>1, <1>2, <1>3, <1>5, <1>6, AccumIs
<1>9. /\ Become(r) /\ phase \in {"graded", "ready"} /\ phase' = "kept"
      /\ uneven' = (uneven \/ \E i \in W : tape[i].slot # 0 /\ ~HasGrad(State, i))
      /\ UNCHANGED <<gpu, room, session, plan, ops, poked, stepped, summed>>
  BY <1>8 DEF Accumulate
<1>10. /\ r.tape = tape /\ r.gpu = gpu /\ r.room = room /\ r.n = nParams /\ DOMAIN r.mem = DOMAIN mem
       /\ s.slots = slots
  BY <1>1, <1>4, <1>7, StateIs DEF Moved, Same
<1>11. Comes(r)
  BY <1>9, <1>10 DEF Comes
<1>12. ASSUME NEW k \in 1..MaxParams
       PROVE  /\ ss[k] \in SlotStates /\ ss[k].hist = slots[k].hist
              /\ \A w \in ss[k].acc : w \in slots[k].acc \/ \E i \in Graded(State) : Rank(i, Graded(State)) = k /\ w = WeightOf(State, i)
  <2>1. PICK b : b = slots[k]
    OBVIOUS
  <2>2. PICK own : own = {i \in Counted(s) : Rank(i, Graded(s)) = k}
    OBVIOUS
  <2>3. PICK ws : ws = {WeightOf(s, i) : i \in own}
    OBVIOUS
  <2>4. ss[k] = IF own = {} THEN b ELSE [b EXCEPT !.hasAcc = TRUE, !.acc = b.acc \cup ws]
    BY <1>5, <1>10, <2>1, <2>2, <2>3 DEF AccTable
  <2>5. own \subseteq Graded(State) /\ \A i \in own : Rank(i, Graded(State)) = k
    BY <1>1, <2>2 DEF Counted
  <2>6. ws \subseteq Weights
    BY <1>1, <2>3, <2>5, ParamsHere
  <2>7. b \in SlotStates
    BY <2>1, ParamsHere
  <2>8. ss[k] \in SlotStates /\ ss[k].hist = b.hist /\ ss[k].acc \subseteq b.acc \cup ws
    BY ONLY <2>4, <2>6, <2>7, Zenon DEF SlotStates
  <2> QED BY <1>1, <2>1, <2>3, <2>5, <2>8
<1>13. ss \in [1..MaxParams -> SlotStates]
  BY <1>5, <1>12 DEF AccTable
<1>14. Laid(r)
  <2>1. TapeLaid(r.tape) /\ r.n \in 0..MaxParams /\ r.slots \in [1..MaxParams -> SlotStates]
    BY <1>7, <1>10, <1>13, ParamsHere
  <2>2. \A w \in Weights : <<"weight", w>> \in DOMAIN r.mem
    BY <1>10, StateSound, StateIs DEF Laid
  <2> QED BY <2>1, <2>2 DEF Laid
<1>15. Settled'
  <2>1. Own(r.tape, r.n, plan') /\ poked' = poked /\ poked' \subseteq DOMAIN r.mem
    BY <1>9, <1>10, ParamsHere, StateSound
  <2> QED BY <1>7, <1>11, <1>14, <2>1, SettledComes
<1>16. /\ tape' = tape /\ nParams' = nParams /\ slots' = ss /\ DOMAIN mem' = DOMAIN mem
  BY <1>7, <1>10, <1>11, StateComes
<1>17. SlotsOwn'
  <2> SUFFICES ASSUME ~uneven', NEW k \in 1..MaxParams, Lead(plan, k)
               PROVE  ss[k].hist \subseteq {Reg(plan, k)} /\ ss[k].acc \subseteq {Reg(plan, k)}
    BY <1>9, <1>16 DEF SlotsOwn
  <2>1. ~uneven /\ \A i \in ParamsOf(tape) : tape[i].slot # 0 => HasGrad(State, i)
    BY <1>9, ParamsAre
  <2>2. slots[k].hist \subseteq {Reg(plan, k)} /\ slots[k].acc \subseteq {Reg(plan, k)}
    BY <2>1 DEF TapeInv, SlotsOwn
  <2>3. ASSUME NEW i \in Graded(State), Rank(i, Graded(State)) = k
        PROVE  WeightOf(State, i) = Reg(plan, k)
    <3>1. Rank(i, ParamsOf(tape)) = k
      BY <2>1, <2>3, GradedRank
    <3> QED BY <3>1, ParamsHere
  <2> QED BY <1>12, <2>2, <2>3
<1>18. AppliedOwn' /\ FrozenBare' /\ SteppedHere'
  <2>2. AppliedOwn'
    <3>1. ~uneven' => ~uneven
      BY <1>9
    <3> QED BY <3>1, <1>9, <1>16 DEF TapeInv, AppliedOwn
  <2>3. FrozenBare'
    BY <1>9, <1>16 DEF TapeInv, FrozenBare, HasGrad, State
  <2>4. SteppedHere'
    BY <1>9 DEF TapeInv, SteppedHere
  <2> QED BY <2>2, <2>3, <2>4
<1>19. Shaped' /\ Underway' /\ GradientsAreComplete'
  BY <1>9 DEF TapeInv, Shaped, Underway, GradientsAreComplete, Phases
<1> QED BY <1>15, <1>17, <1>18, <1>19 DEF TapeInv

\* The parameters apply_accum counts, and those it gives a gradient.
Due(s) == {i \in Params(s) : Rank(i, Params(s)) <= s.n /\ s.slots[Rank(i, Params(s))].hasAcc}
GivenGrads(s, ids) ==
  [s EXCEPT !.mem = [id \in DOMAIN s.mem \cup ids |-> IF id \in DOMAIN s.mem THEN s.mem[id] ELSE Authored]]
AppliedTape(s, t) == [i \in DOMAIN t |-> IF i \in Due(s) THEN [t[i] EXCEPT !.applied = s.slots[Rank(i, Params(s))].acc] ELSE t[i]]
SpentSlots(s, ss) == [k \in 1..MaxParams |-> IF \E i \in Due(s) : Rank(i, Params(s)) = k THEN [ss[k] EXCEPT !.acc = {}] ELSE ss[k]]
TapeSlotsSet(m, t, ss) == [m EXCEPT !.tape = t, !.slots = ss]

\* The gradients nt_tape_apply_accum allocates are truthful mirrors.
LEMMA GivenSound ==
  ASSUME NEW s, NEW P, Sound(s, P), NEW ids, NEW a, a = GivenGrads(s, ids)
  PROVE  /\ Sound(a, P) /\ Same(s, a) /\ DOMAIN a.mem = DOMAIN s.mem \cup ids
         /\ \A js : Unmarked(a, js) \subseteq Unmarked(s, js)
<1>0. Fields(s)
  BY DEF Sound
<1>1. PICK g : g = [id \in DOMAIN s.mem \cup ids |-> IF id \in DOMAIN s.mem THEN s.mem[id] ELSE Authored]
  OBVIOUS
<1>2. Fields(a) /\ Same(s, a) /\ a.misread = s.misread /\ a.mem = g
  BY ONLY <1>0, <1>1, a = GivenGrads(s, ids) DEF Fields, Same, GivenGrads
<1>3. DOMAIN g = DOMAIN s.mem \cup ids /\ (\A id \in DOMAIN s.mem : g[id] = s.mem[id])
      /\ \A id \in DOMAIN g : id \notin DOMAIN s.mem => g[id] = Authored
  BY <1>1
<1>4. MirrorsIn(a, P)
  BY <1>2, <1>3, AuthoredKeeps DEF MirrorsIn, Same, Sound
<1>5. Latest(a, P)
  BY <1>2 DEF Latest, Sound
<1>6. Sound(a, P)
  BY <1>2, <1>4, <1>5 DEF Sound, Same
<1>7. \A js : Unmarked(a, js) \subseteq Unmarked(s, js)
  <2>1. Authored.dev = "absent"
    BY DEF Authored
  <2> QED BY <1>2, <1>3, <2>1 DEF Unmarked, Held
<1> QED BY <1>2, <1>3, <1>6, <1>7

\* Replacing the tape and the slots changes nothing else.
LEMMA TapeSlotsSetIs ==
  ASSUME NEW m, NEW Q, Sound(m, Q), NEW t, NEW ss, NEW r, r = TapeSlotsSet(m, t, ss)
  PROVE  Sound(r, Q) /\ r.tape = t /\ r.gpu = m.gpu /\ r.room = m.room /\ r.n = m.n /\ r.mem = m.mem /\ r.slots = ss
<1>1. Fields(m)
  BY DEF Sound
<1>2. /\ Fields(r) /\ r.tape = t /\ r.gpu = m.gpu /\ r.room = m.room /\ r.n = m.n /\ r.mem = m.mem /\ r.slots = ss
      /\ r.misread = m.misread
  BY ONLY <1>1, r = TapeSlotsSet(m, t, ss) DEF TapeSlotsSet, Fields
<1>3. Sound(r, Q)
  BY ONLY <1>2, Sound(m, Q) DEF Sound, MirrorsIn, Latest
<1> QED BY <1>2, <1>3

\* nt_tape_apply_accum in its parts: the gradients, the writes, what was applied, the sums spent.
LEMMA ApplyIs ==
  ASSUME NEW s, NEW m, m = PokeHost(GivenGrads(s, Grads(Due(s))), Grads(Due(s)))
  PROVE  nt_tape_apply_accum(s) = TapeSlotsSet(m, AppliedTape(s, m.tape), SpentSlots(s, m.slots))
BY DEF nt_tape_apply_accum, GivenGrads, PokeHost, Changed, TapeSlotsSet, AppliedTape, SpentSlots, Due

\* An entry noted with what was applied to it stays well formed.
LEMMA EntryApplied ==
  ASSUME NEW e \in Entries(Weights, MaxParams), NEW ws \in SUBSET Weights, NEW d, d = [e EXCEPT !.applied = ws]
  PROVE  /\ d \in Entries(Weights, MaxParams) /\ d.applied = ws /\ d.op = e.op /\ d.data = e.data /\ d.from = e.from
         /\ d.param = e.param /\ d.frozen = e.frozen /\ d.slot = e.slot /\ d.sum = e.sum /\ d.alt = e.alt
BY DEF Entries

\* nt_tape_apply_accum keeps the invariant.
LEMMA Applies == ASSUME TapeInv, Apply PROVE TapeInv'
<1>1. PICK s : s = State
  OBVIOUS
<1>2. PICK S : S = Due(s)
  OBVIOUS
<1>3. PICK ids : ids = Grads(S)
  OBVIOUS
<1>4. PICK a : a = GivenGrads(s, ids)
  OBVIOUS
<1>5. Sound(s, poked)
  BY <1>1, StateSound
<1>6. Sound(a, poked) /\ Same(s, a) /\ DOMAIN a.mem = DOMAIN s.mem \cup ids /\ Unmarked(a, ids) \subseteq Unmarked(s, ids)
  BY ONLY <1>4, <1>5, GivenSound
<1>7. PICK Q : Q = poked \cup Unmarked(s, ids)
  OBVIOUS
<1>8. PICK m : m = PokeHost(a, ids)
  OBVIOUS
<1>9. Sound(m, Q) /\ Same(a, m) /\ DOMAIN m.mem = DOMAIN a.mem
  <2>1. poked \subseteq Q /\ Unmarked(a, ids) \subseteq Q
    BY <1>6, <1>7
  <2> QED BY ONLY <2>1, <1>6, <1>8, PokeHostSound
<1>10. m.tape = tape /\ m.slots = slots /\ m.gpu = gpu /\ m.room = room /\ m.n = nParams
  BY <1>1, <1>6, <1>9, StateIs DEF Same
<1>11. PICK t : t = AppliedTape(s, tape)
  OBVIOUS
<1>12. PICK ss : ss = SpentSlots(s, slots)
  OBVIOUS
<1>13. PICK r : r = TapeSlotsSet(m, t, ss)
  OBVIOUS
<1>14. Sound(r, Q) /\ r.tape = t /\ r.gpu = m.gpu /\ r.room = m.room /\ r.n = m.n /\ r.mem = m.mem /\ r.slots = ss
  BY ONLY <1>9, <1>13, TapeSlotsSetIs
<1>15. r = nt_tape_apply_accum(State)
  <2>1. m = PokeHost(GivenGrads(s, Grads(Due(s))), Grads(Due(s)))
    BY ONLY <1>2, <1>3, <1>4, <1>8
  <2>2. nt_tape_apply_accum(s) = TapeSlotsSet(m, AppliedTape(s, m.tape), SpentSlots(s, m.slots))
    BY ONLY <2>1, ApplyIs
  <2> QED BY ONLY <2>2, <1>1, <1>10, <1>11, <1>12, <1>13
<1>16. PICK A : A = ParamsOf(tape)
  OBVIOUS
<1>17. /\ S \subseteq A /\ A \subseteq DOMAIN tape /\ S = {i \in A : Rank(i, A) <= nParams /\ slots[Rank(i, A)].hasAcc}
       /\ \A i \in A : Rank(i, A) \in Nat /\ Rank(i, A) >= 1
       /\ \A i \in S : Rank(i, A) \in 1..MaxParams
  <2>1. Params(s) = A
    BY <1>1, <1>16, ParamsAre
  <2>2. S = {i \in A : Rank(i, A) <= nParams /\ slots[Rank(i, A)].hasAcc}
    BY <1>1, <1>2, <2>1, StateIs DEF Due
  <2>3. \A i \in A : Rank(i, A) \in Nat /\ Rank(i, A) >= 1
    BY <1>16, ParamsHere
  <2>4. nParams \in 0..MaxParams /\ A \subseteq DOMAIN tape /\ MaxParams \in Nat
    BY <1>16, ParamsHere, WeightsHere
  <2> QED BY <2>2, <2>3, <2>4
<1>18. /\ Become(r) /\ phase = "kept" /\ phase' = "ready" /\ summed' = TRUE /\ poked' = Q
       /\ UNCHANGED <<gpu, room, session, plan, ops, stepped, uneven>>
  <2>1. Become(r) /\ phase = "kept" /\ phase' = "ready" /\ summed' = TRUE
        /\ UNCHANGED <<gpu, room, session, plan, ops, stepped, uneven>>
    BY <1>15 DEF Apply
  <2>2. poked' = poked \cup Unmarked(State, Grads(Due(State)))
    BY StateIs DEF Apply, Due
  <2> QED BY <2>1, <2>2, <1>1, <1>2, <1>3, <1>7
<1>19. Comes(r)
  BY <1>10, <1>14, <1>18 DEF Comes
<1>20. ASSUME NEW i \in DOMAIN tape
       PROVE  /\ t[i] \in Entries(Weights, MaxParams) /\ Placed(t[i], i)
              /\ t[i].param = tape[i].param /\ t[i].data = tape[i].data /\ t[i].slot = tape[i].slot /\ t[i].frozen = tape[i].frozen
              /\ (i \in S => t[i].applied = slots[Rank(i, A)].acc) /\ (i \notin S => t[i].applied = tape[i].applied)
  <2>1. tape[i] \in Entries(Weights, MaxParams) /\ Placed(tape[i], i)
    BY ParamsHere, ParamsLaid
  <2>2. CASE i \notin S
    <3>1. t[i] = tape[i]
      BY <1>2, <1>11, <2>2 DEF AppliedTape
    <3> QED BY <2>1, <2>2, <3>1
  <2>3. CASE i \in S
    <3>1. PICK ws : ws = slots[Rank(i, A)].acc
      OBVIOUS
    <3>2. ws \in SUBSET Weights
      <4>1. Rank(i, A) \in 1..MaxParams
        BY <1>17, <2>3
      <4> QED BY <3>1, <4>1, ParamsHere DEF SlotStates
    <3>3. PICK e : e = tape[i]
      OBVIOUS
    <3>4. t[i] = [e EXCEPT !.applied = ws]
      <4>1. Params(s) = A /\ s.slots = slots
        BY <1>1, <1>16, ParamsAre, StateIs
      <4> QED BY <1>2, <1>11, <2>3, <3>1, <3>3, <4>1 DEF AppliedTape
    <3>5. PICK d : d = t[i]
      OBVIOUS
    <3>6. /\ d \in Entries(Weights, MaxParams) /\ d.applied = ws /\ d.op = e.op /\ d.data = e.data /\ d.from = e.from
          /\ d.param = e.param /\ d.frozen = e.frozen /\ d.slot = e.slot
      <4>1. e \in Entries(Weights, MaxParams) /\ d = [e EXCEPT !.applied = ws]
        BY <2>1, <3>3, <3>4, <3>5
      <4> QED BY ONLY <4>1, <3>2, EntryApplied
    <3>7. e.param
      BY <1>16, <1>17, <2>3, <3>3 DEF ParamsOf
    <3>8. Placed(d, i)
      BY ONLY <2>1, <3>3, <3>6, <3>7 DEF Placed
    <3> QED BY <2>3, <3>1, <3>3, <3>5, <3>6, <3>8
  <2> QED BY <2>2, <2>3
<1>21. TapeLaid(t) /\ DOMAIN t = DOMAIN tape /\ Len(t) = Len(tape)
  <2>1. PICK N : N = Len(tape)
    OBVIOUS
  <2>2. N \in Nat /\ DOMAIN tape = 1..N /\ N <= MaxEntries
    BY <2>1, ParamsHere DEF TapeLaid
  <2>3. t = [i \in 1..N |-> t[i]] /\ DOMAIN t = 1..N
    BY <1>11, <2>2 DEF AppliedTape
  <2>4. t \in Seq(Entries(Weights, MaxParams)) /\ Len(t) = N
    BY <1>20, <2>2, <2>3, IsSeq
  <2> QED BY <1>20, <2>1, <2>2, <2>3, <2>4 DEF TapeLaid
<1>22. Own(t, nParams, plan)
  BY <1>20, <1>21, ParamsHere, OwnSame
<1>23. ASSUME NEW k \in 1..MaxParams
       PROVE  ss[k] \in SlotStates /\ ss[k].hist = slots[k].hist /\ ss[k].acc \subseteq slots[k].acc
  <2>1. PICK b : b = slots[k]
    OBVIOUS
  <2>2. b \in SlotStates
    BY <2>1, ParamsHere
  <2>3. ss[k] = b \/ ss[k] = [b EXCEPT !.acc = {}]
    BY <1>12, <2>1 DEF SpentSlots
  <2>4. ss[k] \in SlotStates /\ ss[k].hist = b.hist /\ ss[k].acc \subseteq b.acc
    BY ONLY <2>2, <2>3 DEF SlotStates
  <2> QED BY <2>1, <2>4
<1>24. ss \in [1..MaxParams -> SlotStates]
  BY <1>12, <1>23 DEF SpentSlots
<1>25. DOMAIN mem \subseteq DOMAIN r.mem
  BY <1>1, <1>6, <1>9, <1>14, StateIs
<1>26. Laid(r)
  <2>1. TapeLaid(r.tape) /\ r.n \in 0..MaxParams /\ r.slots \in [1..MaxParams -> SlotStates]
    BY <1>10, <1>14, <1>21, <1>24, ParamsHere
  <2>2. \A w \in Weights : <<"weight", w>> \in DOMAIN r.mem
    BY <1>25, StateSound, StateIs DEF Laid
  <2> QED BY <2>1, <2>2 DEF Laid
<1>27. Settled'
  <2>1. Own(r.tape, r.n, plan')
    BY <1>10, <1>14, <1>18, <1>22
  <2>2. Q \subseteq DOMAIN r.mem
    BY <1>1, <1>7, <1>25, PokedHere, StateIs
  <2> QED BY <1>14, <1>18, <1>19, <1>26, <2>1, <2>2, SettledComes
<1>28. tape' = t /\ nParams' = nParams /\ slots' = ss
  BY <1>10, <1>14, <1>19, StateComes
<1>29. SlotsOwn'
  BY <1>18, <1>23, <1>28 DEF TapeInv, SlotsOwn
<1>30. AppliedOwn'
  <2>1. ParamsOf(t) = A
    BY <1>16, <1>20, <1>21, ParamsSame
  <2>2. ASSUME NEW i \in A, t[i].applied # {}
        PROVE  /\ Rank(i, A) <= nParams
               /\ ~uneven /\ Lead(plan, Rank(i, A)) => t[i].applied \subseteq {Reg(plan, Rank(i, A))}
    <3>1. i \in DOMAIN tape
      BY <1>17
    <3>2. CASE i \notin S
      <4>1. t[i].applied = tape[i].applied
        BY <1>20, <3>1, <3>2
      <4> QED BY <4>1, <1>16, <2>2 DEF TapeInv, AppliedOwn
    <3>3. CASE i \in S
      <4>1. t[i].applied = slots[Rank(i, A)].acc
        BY <1>20, <3>1, <3>3
      <4>2. Rank(i, A) <= nParams /\ Rank(i, A) \in 1..MaxParams
        BY <1>17, <3>3
      <4> QED BY <4>1, <4>2 DEF TapeInv, SlotsOwn
    <3> QED BY <3>2, <3>3
  <2>3. plan' = plan /\ uneven' = uneven
    BY <1>18
  <2> QED BY <1>28, <2>1, <2>2, <2>3 DEF AppliedOwn
<1>31. FrozenBare' /\ SteppedHere'
  <2>1. stepped' = {}
    BY <1>18 DEF TapeInv, SteppedHere
  <2> QED BY <1>18, <2>1 DEF FrozenBare, SteppedHere
<1>32. Shaped' /\ Underway' /\ GradientsAreComplete'
  BY <1>18 DEF TapeInv, Shaped, Underway, GradientsAreComplete, Phases
<1> QED BY <1>27, <1>29, <1>30, <1>31, <1>32 DEF TapeInv

-----------------------------------------------------------------------------
(* The forward pass keeps the invariant. *)
LEMMA PlanHere ==
  ASSUME TapeInv
  PROVE  /\ plan \in Plans /\ Len(plan) \in Nat /\ Len(plan) < MaxEntries /\ DOMAIN plan = 1..Len(plan)
         /\ \A k \in 1..Len(plan) : plan[k][1] \in Base /\ plan[k][2] \in Hows
<1>1. plan \in Plans
  BY DEF TapeInv, Shaped
<1>2. plan \in Seq(Base \X Hows) /\ Len(plan) < MaxEntries
  BY <1>1, TapeAssumption
<1> QED BY <1>1, <1>2

\* During the forward phase the pass can go on, and the last entry is one an operation made.
LEMMA GoingHere ==
  ASSUME TapeInv, phase = "forward"
  PROVE  /\ Going(State, poked, plan) /\ Len(tape) \in Nat /\ State.tape = tape
         /\ LastEntry \in X /\ X \subseteq 1..Len(tape) /\ ParamsOf(tape) \subseteq 1..Len(tape)
         /\ X = {i \in 1..Len(tape) : ~tape[i].param}
<1>1. Len(tape) \in Nat /\ DOMAIN tape = 1..Len(tape) /\ ParamsOf(tape) \subseteq 1..Len(tape)
  BY ParamsHere
<1>2. X \subseteq 0..Len(tape) /\ X \subseteq 1..Len(tape) /\ X = {i \in 1..Len(tape) : ~tape[i].param}
  BY <1>1 DEF X
<1>3. Paired(tape, plan) /\ HasInput(tape, plan) /\ Blank(State)
  BY DEF TapeInv, Underway
<1>4. X # {}
  BY <1>1, <1>3, PlanHere DEF HasInput, X
<1>5. LastEntry \in X
  BY <1>1, <1>2, <1>4, MaxIsGreatest DEF LastEntry
<1>6. Going(State, poked, plan)
  <2>1. Sound(State, poked) /\ Laid(State) /\ Own(State.tape, State.n, plan) /\ State.ret \in 0..Len(State.tape)
    BY <1>1, StateSound, StateIs, ParamsHere
  <2> QED BY <1>3, <2>1, StateIs DEF Going, Ready
<1> QED BY <1>1, <1>2, <1>5, <1>6, StateIs

\* A registration or an operation that leaves the tape ready keeps the invariant.
LEMMA ReadyKeeps ==
  ASSUME TapeInv, phase \in {"register", "forward"}, NEW r, Become(r), Ready(r, poked, plan), Kept(State, r),
         ops' \in 0..MaxOps, UNCHANGED <<gpu, room, session, plan, poked, stepped, summed, uneven>>,
         phase' \in {"register", "forward"},
         phase' = "register" => ParamsOf(r.tape) = DOMAIN r.tape /\ Len(r.tape) <= Len(plan),
         phase' = "forward" => Paired(r.tape, plan) /\ HasInput(r.tape, plan)
  PROVE  TapeInv'
<1>3. /\ Sound(r, poked) /\ Laid(r) /\ Own(r.tape, r.n, plan) /\ Blank(r)
  BY DEF Ready
<1>4. r.gpu = gpu /\ r.room = room /\ DOMAIN mem \subseteq DOMAIN r.mem
      /\ \A k \in 1..MaxParams : r.slots[k].hist = slots[k].hist /\ r.slots[k].acc = slots[k].acc
  BY StateIs DEF Kept
<1>5. Comes(r)
  BY <1>4 DEF Comes
<1>6. tape' = r.tape /\ slots' = r.slots
  BY <1>5, StateComes
<1>7. Settled'
  <2>1. poked' = poked /\ plan' = plan /\ poked \subseteq DOMAIN r.mem
    BY <1>4, StateSound
  <2> QED BY <1>3, <1>5, <2>1, SettledComes
<1>8. Blank(State)'
  BY <1>3, <1>5, BlankComes
<1>9. SlotsOwn'
  BY <1>4, <1>6 DEF TapeInv, SlotsOwn
<1>10. AppliedOwn'
  <2>1. \A i \in DOMAIN r.tape : r.tape[i].applied = {}
    BY <1>3 DEF Blank
  <2> QED BY <1>6, <2>1 DEF AppliedOwn, ParamsOf
<1>11. FrozenBare'
  BY <1>8 DEF FrozenBare, Blank, HasGrad
<1>12. SteppedHere'
  BY DEF TapeInv, SteppedHere
<1>13. Underway'
  <2>1. \A j : <<"grad", j>> \notin poked'
    BY DEF TapeInv, Underway
  <2> QED BY <1>6, <1>8, <2>1 DEF Underway
<1>14. Shaped'
  BY DEF TapeInv, Shaped, Phases
<1>15. GradientsAreComplete'
  BY DEF GradientsAreComplete
<1> QED BY <1>7, <1>9, <1>10, <1>11, <1>12, <1>13, <1>14, <1>15 DEF TapeInv

\* One operation of the forward pass keeps the invariant.
LEMMA OpKeeps ==
  ASSUME TapeInv, phase = "forward", NEW name, NEW r, Op(name, r), Goes(State, r, poked, plan)
  PROVE  TapeInv'
<1>1. /\ Become(r) /\ ops < MaxOps /\ ops' = ops + 1
      /\ UNCHANGED <<gpu, room, phase, session, plan, poked, stepped, summed, uneven>>
  BY DEF Op
<1>2. Ready(r, poked, plan) /\ Kept(State, r) /\ Paired(r.tape, plan) /\ HasInput(r.tape, plan)
  BY DEF Goes, Going
<1>3. ops' \in 0..MaxOps
  <2>1. MaxOps \in Nat
    BY TapeAssumption
  <2> QED BY <1>1, <2>1 DEF TapeInv, Shaped
<1>4. phase' = "forward" /\ UNCHANGED <<gpu, room, session, plan, poked, stepped, summed, uneven>>
  BY <1>1
<1> QED BY <1>1, <1>2, <1>3, <1>4, ReadyKeeps

\* The operations of one activation.
LEMMA Unaries == ASSUME TapeInv, Unary PROVE TapeInv'
<1>1. phase = "forward"
  BY DEF Unary
<1>2. PICK x : x = LastEntry
  OBVIOUS
<1>3. x \in 0..Len(State.tape) /\ Len(plan) \in Nat /\ Going(State, poked, plan)
  BY <1>1, <1>2, GoingHere, PlanHere
<1>4. \/ \E b \in BOOLEAN : Op("rope", nt_rope_freq(State, x, b))
      \/ Op("silu", nt_silu(State, x)) \/ Op("sigmoid", nt_sigmoid(State, x)) \/ Op("softmax", nt_softmax(State, x))
      \/ Op("scale", nt_scale(State, x)) \/ Op("rope_split", nt_rope_split_half_freq(State, x))
      \/ Op("dropout", nt_dropout(State, x)) \/ Op("gelu", nt_gelu(State, x))
      \/ Op("cross_entropy", nt_cross_entropy(State, x))
  BY <1>2 DEF Unary
<1>5. CASE \E b \in BOOLEAN : Op("rope", nt_rope_freq(State, x, b))
  <2>1. PICK b \in BOOLEAN : Op("rope", nt_rope_freq(State, x, b))
    BY <1>5
  <2>2. Goes(State, nt_rope_freq(State, x, b), poked, plan)
    BY ONLY <1>3, b \in BOOLEAN, OneOperandGoes
  <2> QED BY ONLY <1>1, TapeInv, <2>1, <2>2, OpKeeps
<1>6. PICK b \in BOOLEAN : b = TRUE
  OBVIOUS
<1>7. /\ Goes(State, nt_silu(State, x), poked, plan)
      /\ Goes(State, nt_sigmoid(State, x), poked, plan)
      /\ Goes(State, nt_softmax(State, x), poked, plan)
      /\ Goes(State, nt_cross_entropy(State, x), poked, plan)
      /\ Goes(State, nt_rope_split_half_freq(State, x), poked, plan)
      /\ Goes(State, nt_dropout(State, x), poked, plan)
      /\ Goes(State, nt_gelu(State, x), poked, plan)
  BY ONLY <1>3, b \in BOOLEAN, OneOperandGoes
<1>8. Goes(State, nt_scale(State, x), poked, plan)
  BY ONLY <1>3, b \in BOOLEAN, NeedyGo
<1>9. \A r, name : Goes(State, r, poked, plan) /\ Op(name, r) => TapeInv'
  BY <1>1, OpKeeps
<1> QED BY <1>4, <1>5, <1>7, <1>8, <1>9, Zenon

\* The operands of an operation.
LEMMA OperandsHere ==
  ASSUME TapeInv, phase = "forward"
  PROVE  /\ \A i \in W \cup X \cup {0} : i \in 0..Len(State.tape)
         /\ LastEntry \in 0..Len(State.tape) /\ Len(plan) \in Nat /\ Going(State, poked, plan)
<1>1. /\ Len(tape) \in Nat /\ State.tape = tape /\ LastEntry \in X /\ X \subseteq 1..Len(tape) /\ W \subseteq 1..Len(tape)
      /\ Going(State, poked, plan)
  BY GoingHere, ParamsAre
<1>2. \A i \in 1..Len(tape) : i \in 0..Len(tape)
  BY <1>1
<1>3. 0 \in 0..Len(tape)
  BY <1>1
<1> QED BY <1>1, <1>2, <1>3, PlanHere

\* Every operation of the forward pass keeps the invariant.
LEMMA OpsKeep ==
  ASSUME TapeInv, phase = "forward"
  PROVE  \A r, name : Goes(State, r, poked, plan) /\ Op(name, r) => TapeInv'
BY OpKeeps

\* Those of a parameter and an activation.
LEMMA Weighteds == ASSUME TapeInv, Weighted PROVE TapeInv'
<1>1. phase = "forward"
  BY DEF Weighted
<1>2. PICK w \in W, x \in {LastEntry} :
    \/ Op("embedding", nt_embedding(State, w))
    \/ \E wpe \in {0} \cup W : Op("seq_embedding", nt_seq_embedding(State, w, wpe, x))
    \/ \E bias \in {0} \cup W : Op("linear", nt_linear(State, w, x, bias))
    \/ Op("seq_linear", nt_seq_linear(State, w, x))
    \/ Op("seq_linear_t", nt_seq_linear_t(State, w, x))
    \/ Op("rmsnorm", nt_rmsnorm(State, x, w))
    \/ Op("seq_rmsnorm", nt_seq_rmsnorm(State, x, w))
    \/ Op("scale_by_t", nt_scale_by_t(State, x, w))
    \/ Op("bit_linear", nt_bit_linear(State, w, x))
    \/ Op("bit_seq_linear", nt_bit_seq_linear(State, w, x))
    \/ \E u \in W : \/ Op("geglu", nt_geglu(State, x, w, u))
                    \/ Op("layernorm", nt_layernorm(State, x, w, u))
                    \/ Op("seq_layernorm", nt_seq_layernorm(State, x, w, u))
    \/ Op("lora", nt_lora_forward(State, w, x))
  BY DEF Weighted
<1>3. /\ w \in 0..Len(State.tape) /\ x \in 0..Len(State.tape) /\ Len(plan) \in Nat /\ Going(State, poked, plan)
      /\ \A i \in {0} \cup W : i \in 0..Len(State.tape)
  BY <1>1, <1>2, OperandsHere
<1>4. PICK b \in BOOLEAN : b = TRUE
  OBVIOUS
<1>5. \A r, name : Goes(State, r, poked, plan) /\ Op(name, r) => TapeInv'
  BY ONLY <1>1, TapeInv, OpsKeep
<1>6. Goes(State, nt_embedding(State, w), poked, plan)
  BY ONLY <1>3, <1>4, OneOperandGoes
<1>7. /\ Goes(State, nt_seq_linear_t(State, w, x), poked, plan)
      /\ Goes(State, nt_bit_linear(State, w, x), poked, plan)
      /\ Goes(State, nt_bit_seq_linear(State, w, x), poked, plan)
  BY ONLY <1>3, <1>4, TwoOperandsGo
<1>8. /\ Goes(State, nt_rmsnorm(State, x, w), poked, plan)
      /\ Goes(State, nt_seq_rmsnorm(State, x, w), poked, plan)
      /\ Goes(State, nt_scale_by_t(State, x, w), poked, plan)
  BY ONLY <1>3, <1>4, TwoOperandsGo
<1>9. Goes(State, nt_seq_linear(State, w, x), poked, plan)
  BY ONLY <1>3, <1>4, NeedyGo
<1>10. Goes(State, nt_lora_forward(State, w, x), poked, plan)
  BY ONLY <1>3, LoraGoes
<1>11. ASSUME NEW wpe \in {0} \cup W
       PROVE  Goes(State, nt_seq_embedding(State, w, wpe, x), poked, plan)
  <2>1. wpe \in 0..Len(State.tape)
    BY <1>3
  <2> QED BY ONLY <1>3, <1>4, <2>1, ThreeOperandsGo
<1>12. ASSUME NEW bias \in {0} \cup W
       PROVE  Goes(State, nt_linear(State, w, x, bias), poked, plan)
  <2>1. bias \in 0..Len(State.tape)
    BY <1>3
  <2> QED BY ONLY <1>3, <2>1, LinearGoes
<1>13. ASSUME NEW u \in W
       PROVE  /\ Goes(State, nt_geglu(State, x, w, u), poked, plan)
              /\ Goes(State, nt_layernorm(State, x, w, u), poked, plan)
              /\ Goes(State, nt_seq_layernorm(State, x, w, u), poked, plan)
  <2>1. u \in 0..Len(State.tape)
    BY <1>3
  <2> QED BY ONLY <1>3, <1>4, <2>1, ThreeOperandsGo
<1> QED BY <1>2, <1>5, <1>6, <1>7, <1>8, <1>9, <1>10, <1>11, <1>12, <1>13, Zenon

\* Those of several activations.
LEMMA Joineds == ASSUME TapeInv, Joined PROVE TapeInv'
<1>1. phase = "forward"
  BY DEF Joined
<1>2. PICK x \in X, y \in {LastEntry} :
    \/ \E alike \in BOOLEAN : \/ Op("add", nt_add(State, x, y, alike))
                              \/ Op("mul", nt_mul(State, x, y, alike))
    \/ Op("concat", nt_concat(State, x, y))
    \/ Op("swiglu", nt_swiglu(State, y, x))
    \/ Op("seq_cross_entropy", nt_seq_cross_entropy(State, y, x))
    \/ \E active \in BOOLEAN :
         Op("seq_cross_entropy_masked", nt_seq_cross_entropy_masked(State, y, x, x, active))
  BY DEF Joined
<1>3. /\ x \in 0..Len(State.tape) /\ y \in 0..Len(State.tape) /\ Len(plan) \in Nat /\ Going(State, poked, plan)
  BY <1>1, <1>2, OperandsHere
<1>5. \A r, name : Goes(State, r, poked, plan) /\ Op(name, r) => TapeInv'
  BY ONLY <1>1, TapeInv, OpsKeep
<1>6. ASSUME NEW b \in BOOLEAN
      PROVE  /\ Goes(State, nt_add(State, x, y, b), poked, plan)
             /\ Goes(State, nt_mul(State, x, y, b), poked, plan)
             /\ Goes(State, nt_concat(State, x, y), poked, plan)
             /\ Goes(State, nt_swiglu(State, y, x), poked, plan)
             /\ Goes(State, nt_seq_cross_entropy_masked(State, y, x, x, b), poked, plan)
  <2>1. Goes(State, nt_add(State, x, y, b), poked, plan)
    BY ONLY <1>3, b \in BOOLEAN, NeedyGo
  <2>2. Goes(State, nt_mul(State, x, y, b), poked, plan) /\ Goes(State, nt_concat(State, x, y), poked, plan)
    BY ONLY <1>3, b \in BOOLEAN, TwoOperandsGo
  <2>3. Goes(State, nt_swiglu(State, y, x), poked, plan)
    BY ONLY <1>3, b \in BOOLEAN, TwoOperandsGo
  <2>4. Goes(State, nt_seq_cross_entropy_masked(State, y, x, x, b), poked, plan)
    BY ONLY <1>3, b \in BOOLEAN, ThreeOperandsGo
  <2> QED BY <2>1, <2>2, <2>3, <2>4
<1>7. Goes(State, nt_seq_cross_entropy(State, y, x), poked, plan)
  BY ONLY <1>3, CrossEntropyGoes
<1>8. PICK b \in BOOLEAN : b = TRUE
  OBVIOUS
<1>9. Goes(State, nt_concat(State, x, y), poked, plan) /\ Goes(State, nt_swiglu(State, y, x), poked, plan)
  BY <1>6
<1> QED BY <1>2, <1>5, <1>6, <1>7, <1>9, Zenon

\* Attention.
LEMMA Attentions == ASSUME TapeInv, Attention PROVE TapeInv'
<1>1. phase = "forward"
  BY DEF Attention
<1>2. PICK k \in X, v \in {LastEntry} :
    \/ Op("causal_attention", nt_causal_attention(State, v, k, v))
    \/ \E enabled \in BOOLEAN : Op("mh_causal", nt_mh_causal_attention(State, v, k, v, enabled))
    \/ Op("gqa", nt_gqa_causal_attention(State, v, k, v))
    \/ \E w \in W : \/ Op("rrpram", nt_rrpram_attention(State, w, k, v))
                    \/ Op("rrpram_lowrank", nt_rrpram_lowrank_attention(State, w, k, v))
                    \/ Op("rrpram_broadcast", nt_rrpram_broadcast_attention(State, w, k, v))
  BY DEF Attention
<1>3. /\ k \in 0..Len(State.tape) /\ v \in 0..Len(State.tape) /\ Len(plan) \in Nat /\ Going(State, poked, plan)
      /\ \A i \in W : i \in 0..Len(State.tape)
  BY <1>1, <1>2, OperandsHere
<1>5. \A r, name : Goes(State, r, poked, plan) /\ Op(name, r) => TapeInv'
  BY ONLY <1>1, TapeInv, OpsKeep
<1>6. ASSUME NEW b \in BOOLEAN
      PROVE  /\ Goes(State, nt_causal_attention(State, v, k, v), poked, plan)
             /\ Goes(State, nt_mh_causal_attention(State, v, k, v, b), poked, plan)
             /\ Goes(State, nt_gqa_causal_attention(State, v, k, v), poked, plan)
  BY ONLY <1>3, b \in BOOLEAN, ThreeOperandsGo
<1>7. PICK b \in BOOLEAN : b = TRUE
  OBVIOUS
<1>8. ASSUME NEW w \in W
      PROVE  /\ Goes(State, nt_rrpram_attention(State, w, k, v), poked, plan)
             /\ Goes(State, nt_rrpram_lowrank_attention(State, w, k, v), poked, plan)
             /\ Goes(State, nt_rrpram_broadcast_attention(State, w, k, v), poked, plan)
  <2>1. w \in 0..Len(State.tape)
    BY <1>3
  <2> QED BY ONLY <1>3, <2>1, b \in BOOLEAN, ThreeOperandsGo
<1>9. Goes(State, nt_causal_attention(State, v, k, v), poked, plan) /\ Goes(State, nt_gqa_causal_attention(State, v, k, v), poked, plan)
  BY <1>6
<1> QED BY <1>2, <1>5, <1>6, <1>8, <1>9, Zenon

-----------------------------------------------------------------------------
(* Starting, registering, and the backward pass. *)
\* An empty tape.
Bare(r, Q) ==
  /\ Fields(r) /\ r.gpu \in BOOLEAN /\ r.room \in Rooms /\ r.misread = {} /\ MirrorsIn(r, Q)
  /\ r.tape = <<>> /\ r.n = 0 /\ r.slots \in [1..MaxParams -> SlotStates]
  /\ \A w \in Weights : <<"weight", w>> \in DOMAIN r.mem

\* A tape with nothing on it is well formed.
LEMMA BareIs ==
  ASSUME NEW r, NEW Q, Bare(r, Q), NEW p
  PROVE  Sound(r, Q) /\ Laid(r) /\ Own(r.tape, r.n, p) /\ ParamsOf(r.tape) = {} /\ DOMAIN r.tape = {} /\ Len(r.tape) = 0
<1>1. r.tape = <<>> /\ r.n = 0
  BY DEF Bare
<1>2. DOMAIN r.tape = {} /\ Len(r.tape) = 0 /\ r.tape \in Seq(Entries(Weights, MaxParams))
  BY <1>1
<1>3. ParamsOf(r.tape) = {}
  BY <1>2 DEF ParamsOf
<1>4. Cardinality(ParamsOf(r.tape)) = 0
  BY <1>3, FS_EmptySet
<1>5. Own(r.tape, r.n, p)
  BY <1>1, <1>3, <1>4 DEF Own
<1>6. Laid(r)
  <2>1. TapeLaid(r.tape)
    BY <1>2, WeightsHere DEF TapeLaid
  <2> QED BY <2>1, <1>1, WeightsHere DEF Laid, Bare
<1>7. Sound(r, Q)
  BY DEF Bare, Sound, Latest
<1> QED BY <1>2, <1>3, <1>5, <1>6, <1>7

\* The invariant holds initially.
LEMMA Inits == ASSUME Init PROVE TapeInv
<1>1. Bare(State, poked)
  <2>1. /\ State.tape = <<>> /\ State.n = 0 /\ State.misread = {} /\ Fields(State) /\ State.gpu \in BOOLEAN
        /\ State.room \in Rooms
    BY StateIs DEF Init, Rooms
  <2>2. mem = [id \in {<<"weight", w>> : w \in Weights} |-> Authored] /\ State.mem = mem
    BY StateIs DEF Init
  <2>3. MirrorsIn(State, poked)
    BY <2>2, AuthoredKeeps DEF MirrorsIn
  <2>4. State.slots \in [1..MaxParams -> SlotStates]
    BY StateIs DEF Init, FreshSlot, SlotStates
  <2> QED BY <2>1, <2>2, <2>3, <2>4 DEF Bare
<1>2. Settled
  <2>1. Sound(State, poked) /\ Laid(State) /\ Own(State.tape, State.n, plan)
    BY <1>1, BareIs
  <2>2. poked \subseteq DOMAIN mem /\ ReadsAreLatest
    BY DEF Init, ReadsAreLatest
  <2> QED BY <2>1, <2>2, StateIs DEF Settled
<1>3. SlotsOwn
  BY DEF Init, SlotsOwn, FreshSlot
<1>4. tape = <<>> /\ stepped = {} /\ phase = "idle"
  BY DEF Init
<1>5. AppliedOwn /\ FrozenBare /\ SteppedHere /\ Underway /\ GradientsAreComplete
  BY <1>4 DEF AppliedOwn, FrozenBare, SteppedHere, Underway, GradientsAreComplete, ParamsOf
<1>6. Shaped
  BY TapeAssumption DEF Init, Shaped, Phases
<1> QED BY <1>2, <1>3, <1>5, <1>6 DEF TapeInv

\* What clearing leaves: the mirrors of some kinds.
Left(s, kinds, q, ss) ==
  [s EXCEPT !.tape = <<>>, !.n = 0, !.slots = ss, !.room = q,
            !.mem = [id \in {j \in DOMAIN s.mem : j[1] \in kinds} |-> s.mem[id]]]

\* What a session leaves to the next: an empty tape, and of the tensors only those that outlive it.
LEMMA LeftBare ==
  ASSUME TapeInv, NEW kinds, "weight" \in kinds, NEW q \in Rooms, NEW ss \in [1..MaxParams -> SlotStates],
         NEW Q, Q = {id \in poked : id[1] \in kinds}, NEW r, r = Left(State, kinds, q, ss)
  PROVE  /\ Bare(r, Q) /\ r.room = q /\ r.gpu = gpu /\ r.slots = ss /\ Q \subseteq DOMAIN r.mem
         /\ DOMAIN r.mem = {j \in DOMAIN mem : j[1] \in kinds} /\ r.mem = [id \in {j \in DOMAIN mem : j[1] \in kinds} |-> mem[id]]
<1>1. PICK s : s = State
  OBVIOUS
<1>2. Sound(s, poked) /\ Fields(s) /\ s.misread = {} /\ s.mem = mem /\ s.gpu = gpu /\ Laid(s)
  BY <1>1, StateSound, StateIs
<1>3. PICK g : g = [id \in {j \in DOMAIN s.mem : j[1] \in kinds} |-> s.mem[id]]
  OBVIOUS
<1>4. r = [s EXCEPT !.tape = <<>>, !.n = 0, !.slots = ss, !.room = q, !.mem = g]
  BY <1>1, <1>3 DEF Left
<1>5. /\ Fields(r) /\ r.tape = <<>> /\ r.n = 0 /\ r.slots = ss /\ r.room = q /\ r.mem = g /\ r.gpu = s.gpu /\ r.misread = s.misread
  BY ONLY <1>2, <1>4 DEF Fields
<1>6. DOMAIN g = {j \in DOMAIN mem : j[1] \in kinds} /\ \A id \in DOMAIN g : g[id] = mem[id]
  BY <1>2, <1>3
<1>7. MirrorsIn(r, Q)
  BY <1>2, <1>5, <1>6 DEF MirrorsIn, Sound
<1>8. \A w \in Weights : <<"weight", w>> \in DOMAIN r.mem
  BY <1>2, <1>5, <1>6 DEF Laid
<1>9. r.gpu \in BOOLEAN
  BY <1>2, <1>5 DEF Sound
<1>10. Bare(r, Q)
  BY <1>2, <1>5, <1>7, <1>8, <1>9 DEF Bare
<1>11. Q \subseteq DOMAIN r.mem
  BY <1>5, <1>6, StateSound
<1>12. g = [id \in {j \in DOMAIN mem : j[1] \in kinds} |-> mem[id]]
  BY <1>2, <1>3
<1> QED BY <1>2, <1>5, <1>6, <1>10, <1>11, <1>12

\* nt_tape_start keeps the invariant.
LEMMA Starts == ASSUME TapeInv, Start PROVE TapeInv'
<1>1. /\ Become(Cleared(State)) /\ session < MaxSessions /\ session' = session + 1 /\ UNCHANGED <<gpu, plan, uneven>>
      /\ phase' = "register" /\ ops' = 0 /\ stepped' = {}
      /\ poked' = {id \in poked : id[1] \in {"weight", "slot"}}
  BY DEF Start
<1>2. room' \in Rooms
  BY DEF Start, Rooms
<1>3. PICK kinds : kinds = {"weight", "slot"}
  OBVIOUS
<1>4. PICK Q : Q = {id \in poked : id[1] \in kinds}
  OBVIOUS
<1>5. PICK q \in Rooms : q = room'
  BY <1>2
<1>6. PICK r : r = Left(State, kinds, q, slots)
  OBVIOUS
<1>7. /\ Bare(r, Q) /\ r.room = q /\ r.gpu = gpu /\ r.slots = slots /\ Q \subseteq DOMAIN r.mem
      /\ DOMAIN r.mem = {j \in DOMAIN mem : j[1] \in kinds} /\ r.mem = [id \in {j \in DOMAIN mem : j[1] \in kinds} |-> mem[id]]
  <2>1. "weight" \in kinds /\ slots \in [1..MaxParams -> SlotStates]
    BY <1>3, ParamsHere
  <2> QED BY ONLY TapeInv, <1>4, <1>6, <2>1, q \in Rooms, LeftBare
<1>8. PICK c : c = Cleared(State)
  OBVIOUS
<1>9. c.tape = <<>> /\ c.n = 0 /\ c.slots = slots /\ c.misread = {} /\ c.mem = [id \in {j \in DOMAIN mem : j[1] \in kinds} |-> mem[id]]
  BY <1>3, <1>8 DEF Cleared, State
<1>10. Become(r)
  <2>1. Become(c)
    BY <1>1, <1>8
  <2> QED BY <2>1, <1>7, <1>9 DEF Become, Bare
<1>11. Comes(r) /\ poked' = Q
  BY <1>1, <1>3, <1>4, <1>5, <1>7, <1>10 DEF Comes
<1>12. Sound(r, Q) /\ Laid(r) /\ Own(r.tape, r.n, plan) /\ ParamsOf(r.tape) = {} /\ DOMAIN r.tape = {} /\ Len(r.tape) = 0
  BY <1>7, BareIs
<1>13. Settled'
  BY <1>1, <1>7, <1>11, <1>12, SettledComes
<1>14. tape' = r.tape /\ mem' = r.mem /\ slots' = slots
  BY <1>7, <1>11, StateComes
<1>15. SlotsOwn'
  BY <1>1, <1>14 DEF TapeInv, SlotsOwn
<1>16. AppliedOwn' /\ FrozenBare' /\ SteppedHere'
  BY <1>1, <1>12, <1>14 DEF AppliedOwn, FrozenBare, SteppedHere
<1>17. Blank(State)'
  <2>1. Blank(r)
    BY <1>3, <1>7, <1>12 DEF Blank
  <2> QED BY <2>1, <1>11, BlankComes
<1>18. Underway'
  <2>1. \A j : <<"grad", j>> \notin poked'
    BY <1>1
  <2>2. Len(r.tape) <= Len(plan')
    BY <1>1, <1>12, PlanHere
  <2>3. phase' = "register" /\ "register" # "forward" /\ ParamsOf(tape') = DOMAIN tape' /\ Len(tape') <= Len(plan')
    BY <1>1, <1>12, <1>14, <2>2
  <2> QED BY <2>1, <2>3, <1>17 DEF Underway
<1>19. Shaped'
  BY <1>1, TapeAssumption DEF TapeInv, Shaped, Phases
<1>20. GradientsAreComplete'
  BY <1>1 DEF GradientsAreComplete
<1> QED BY <1>13, <1>15, <1>16, <1>18, <1>19, <1>20 DEF TapeInv

\* nt_tape_destroy keeps the invariant.
LEMMA Destroys == ASSUME TapeInv, Destroy PROVE TapeInv'
<1>1. /\ phase' = "idle" /\ stepped' = {} /\ poked' = {id \in poked : id[1] = "weight"}
      /\ UNCHANGED <<gpu, room, session, plan, ops, summed, uneven>>
  BY DEF Destroy
<1>3. PICK kinds : kinds = {"weight"}
  OBVIOUS
<1>4. PICK Q : Q = {id \in poked : id[1] \in kinds}
  OBVIOUS
<1>5. PICK ss : ss = [k \in 1..MaxParams |-> FreshSlot]
  OBVIOUS
<1>6. PICK r : r = Left(State, kinds, room, ss)
  OBVIOUS
<1>7. /\ Bare(r, Q) /\ r.room = room /\ r.gpu = gpu /\ r.slots = ss /\ Q \subseteq DOMAIN r.mem
      /\ DOMAIN r.mem = {j \in DOMAIN mem : j[1] \in kinds} /\ r.mem = [id \in {j \in DOMAIN mem : j[1] \in kinds} |-> mem[id]]
  <2>1. "weight" \in kinds
    BY <1>3
  <2>2. ss \in [1..MaxParams -> SlotStates]
    BY <1>5 DEF SlotStates, FreshSlot
  <2>3. room \in Rooms
    BY StateSound, StateIs DEF Sound
  <2> QED BY ONLY TapeInv, <1>4, <1>6, <2>1, <2>2, <2>3, LeftBare
<1>8. PICK c : c = Cleared(State)
  OBVIOUS
<1>9. /\ c.tape = <<>> /\ c.n = 0 /\ c.slots = slots /\ c.misread = {} /\ Fields(c)
      /\ c.mem = [id \in {j \in DOMAIN mem : j[1] \in {"weight", "slot"}} |-> mem[id]]
  BY <1>8 DEF Cleared, State, Fields
<1>10. Become(r)
  <2>1. PICK d : d = [c EXCEPT !.slots = ss, !.mem = [id \in {j \in DOMAIN c.mem : j[1] = "weight"} |-> c.mem[id]]]
    OBVIOUS
  <2>2. Become(d)
    BY <1>5, <1>8, <2>1 DEF Destroy
  <2>3. PICK g : g = [id \in {j \in DOMAIN c.mem : j[1] = "weight"} |-> c.mem[id]]
    OBVIOUS
  <2>4. d = [c EXCEPT !.slots = ss, !.mem = g]
    BY ONLY <2>1, <2>3
  <2>5. d.tape = <<>> /\ d.n = 0 /\ d.slots = ss /\ d.misread = {} /\ d.mem = g
    BY ONLY <1>9, <2>4 DEF Fields
  <2>6. {j \in DOMAIN c.mem : j[1] = "weight"} = {j \in DOMAIN mem : j[1] \in kinds}
    BY <1>3, <1>9
  <2>7. \A id \in {j \in DOMAIN mem : j[1] \in kinds} : c.mem[id] = mem[id]
    BY <1>3, <1>9
  <2>8. g = [id \in {j \in DOMAIN mem : j[1] \in kinds} |-> mem[id]]
    BY ONLY <2>3, <2>6, <2>7
  <2> QED BY <2>2, <2>5, <2>8, <1>7 DEF Become, Bare
<1>11. Comes(r) /\ poked' = Q
  BY <1>1, <1>3, <1>4, <1>7, <1>10 DEF Comes
<1>12. Sound(r, Q) /\ Laid(r) /\ Own(r.tape, r.n, plan) /\ ParamsOf(r.tape) = {} /\ DOMAIN r.tape = {} /\ Len(r.tape) = 0
  BY <1>7, BareIs
<1>13. Settled'
  BY <1>1, <1>7, <1>11, <1>12, SettledComes
<1>14. tape' = r.tape /\ slots' = ss
  BY <1>7, <1>11, StateComes
<1>15. SlotsOwn'
  BY <1>5, <1>14 DEF SlotsOwn, FreshSlot
<1>16. AppliedOwn' /\ FrozenBare' /\ SteppedHere'
  BY <1>1, <1>12, <1>14 DEF AppliedOwn, FrozenBare, SteppedHere
<1>18. Shaped' /\ Underway' /\ GradientsAreComplete'
  BY <1>1 DEF TapeInv, Underway, Shaped, Phases, GradientsAreComplete
<1> QED BY <1>13, <1>15, <1>16, <1>18 DEF TapeInv

\* While parameters are registered, the tape holds nothing else.
LEMMA RegisteringHere ==
  ASSUME TapeInv, phase = "register"
  PROVE  /\ Ready(State, poked, plan) /\ Len(tape) \in Nat /\ Len(tape) <= Len(plan) /\ Len(tape) < MaxEntries
         /\ State.tape = tape /\ ParamsOf(tape) = 1..Len(tape) /\ Cardinality(ParamsOf(tape)) = Len(tape)
<1>1. Len(tape) \in Nat /\ DOMAIN tape = 1..Len(tape)
  BY ParamsHere
<1>2. ParamsOf(tape) = DOMAIN tape /\ Len(tape) <= Len(plan) /\ Blank(State)
  BY DEF TapeInv, Underway
<1>3. Cardinality(1..Len(tape)) = Len(tape)
  <2>1. PICK m \in Nat : m = Len(tape)
    BY <1>1
  <2>2. m \in Int /\ 1 \in Int
    BY <2>1
  <2>3. Cardinality(1..m) = IF 1 > m THEN 0 ELSE m - 1 + 1
    BY ONLY <2>2, FS_Interval
  <2> QED BY ONLY <2>1, <2>2, <2>3
<1>4. Sound(State, poked) /\ Laid(State) /\ Own(State.tape, State.n, plan) /\ State.ret \in 0..Len(State.tape)
  BY <1>1, StateSound, StateIs, ParamsHere
<1>5. Ready(State, poked, plan)
  BY <1>2, <1>4 DEF Ready
<1>6. Len(tape) < MaxEntries
  BY <1>1, <1>2, PlanHere, WeightsHere
<1> QED BY <1>1, <1>2, <1>3, <1>5, <1>6, StateIs

\* Two registrations, one after the other, keep what one keeps.
LEMMA KeptTwice ==
  ASSUME NEW s, NEW m, NEW r, Kept(s, m), Kept(m, r)
  PROVE  Kept(s, r)
BY DEF Kept

\* nt_tape_param, with or without the freezing that follows it, keeps the invariant.
LEMMA Registers == ASSUME TapeInv, Register PROVE TapeInv'
<1>1. PICK s : s = State
  OBVIOUS
<1>2. PICK n : n = Len(tape)
  OBVIOUS
<1>3. phase = "register" /\ n < Len(plan)
  BY <1>2 DEF Register
<1>4. /\ Ready(s, poked, plan) /\ n \in Nat /\ n < MaxEntries /\ s.tape = tape /\ ParamsOf(tape) = 1..n
      /\ Cardinality(ParamsOf(tape)) = n /\ Len(plan) \in Nat /\ DOMAIN tape = 1..n
  BY <1>1, <1>2, <1>3, RegisteringHere, PlanHere, ParamsHere
<1>5. PICK w : w = plan[n + 1][1]
  OBVIOUS
<1>6. PICK how : how = plan[n + 1][2]
  OBVIOUS
<1>7. PICK p : p = nt_tape_param(s, w)
  OBVIOUS
<1>8. PICK r : r = CASE how = "param" -> p
                     [] how = "frozen" -> nt_tape_param_frozen(s, w)
                     [] how = "freeze" -> nt_tape_freeze_param(p, p.ret)
  OBVIOUS
<1>9. Become(r) /\ UNCHANGED <<gpu, room, phase, session, plan, ops, poked, stepped, summed, uneven>>
  BY <1>1, <1>2, <1>5, <1>6, <1>7, <1>8 DEF Register
<1>10. n + 1 \in 1..Len(plan) /\ w \in Weights /\ how \in {"param", "frozen", "freeze"}
  <2>1. n + 1 \in 1..Len(plan)
    BY <1>3, <1>4
  <2>2. w \in Base /\ how \in Hows
    BY <2>1, <1>5, <1>6, PlanHere
  <2> QED BY <2>1, <2>2, WeightsHere DEF Hows
<1>11. w = Reg(plan, n + 1) /\ (Unfrozen(plan, n + 1) <=> how # "frozen")
  <2>1. n + 1 <= Len(plan)
    BY <1>10, <1>4
  <2> QED BY <2>1, <1>5, <1>6 DEF Reg, Unfrozen
<1>12. Len(s.tape) < MaxEntries /\ w = Reg(plan, Cardinality(ParamsOf(s.tape)) + 1) /\ Len(s.tape) = n
  BY <1>2, <1>4, <1>11
<1>13. ASSUME how # "frozen"
       PROVE  Ready(p, poked, plan) /\ Kept(s, p) /\ \E e : e.param /\ Enters(s, p, e)
  <2>1. Unfrozen(plan, Cardinality(ParamsOf(s.tape)) + 1)
    BY <1>4, <1>11, <1>13
  <2>2. /\ Ready(p, poked, plan) /\ Kept(s, p)
        /\ \E k \in 0..MaxParams : Enters(s, p, ParamEntry(w, k))
    BY ONLY <1>4, <1>7, <1>10, <1>12, <2>1, ParamEnters
  <2>3. ASSUME NEW k PROVE ParamEntry(w, k).param
    <3>1. PICK no : no = FALSE
      OBVIOUS
    <3>2. ParamEntry(w, k) = Enrolled(w, k, no)
      BY ONLY <3>1, Enrols
    <3>3. Enrolled(w, k, no).param
      BY ONLY TRUE DEF Enrolled
    <3> QED BY <3>2, <3>3
  <2> QED BY <2>2, <2>3
<1>14. /\ Ready(r, poked, plan) /\ Kept(s, r) /\ Len(r.tape) = n + 1 /\ ParamsOf(r.tape) = 1..(n + 1)
  <2>0. (1..n) \cup {n + 1} = 1..(n + 1)
    BY <1>4
  <2>1. CASE how = "param"
    <3>1. r = p
      BY <1>8, <2>1
    <3> QED BY <2>0, <2>1, <3>1, <1>4, <1>12, <1>13 DEF Enters
  <2>2. CASE how = "frozen"
    <3>1. r = nt_tape_param_frozen(s, w)
      BY <1>8, <2>2
    <3>2. ~Unfrozen(plan, Cardinality(ParamsOf(s.tape)) + 1)
      BY <1>4, <1>11, <2>2
    <3>3. Ready(r, poked, plan) /\ Kept(s, r) /\ \E e : Enters(s, r, e)
      BY ONLY <1>4, <1>10, <1>12, <3>1, <3>2, FrozenEnters
    <3> QED BY <2>0, <3>3, <1>4, <1>12 DEF Enters
  <2>3. CASE how = "freeze"
    <3>1. r = nt_tape_freeze_param(p, p.ret)
      BY <1>8, <2>3
    <3>2. PICK e : e.param /\ Enters(s, p, e)
      BY <1>13, <2>3
    <3>3. p.ret = n + 1 /\ Len(p.tape) = n + 1 /\ ParamsOf(p.tape) = 1..(n + 1) /\ p.tape[n + 1].param
      BY <2>0, <3>2, <1>4, <1>12 DEF Enters
    <3>4. Ready(p, poked, plan) /\ Kept(s, p)
      BY <1>13, <2>3
    <3>5. n + 1 \in DOMAIN p.tape
      BY <3>3, <1>4 DEF ParamsOf
    <3>6. PICK i : i = p.ret
      OBVIOUS
    <3>7. i \in DOMAIN p.tape /\ p.tape[i].param /\ r = nt_tape_freeze_param(p, i)
      BY <3>1, <3>3, <3>5, <3>6
    <3>8. Ready(r, poked, plan) /\ Kept(p, r) /\ Len(r.tape) = Len(p.tape) /\ ParamsOf(r.tape) = ParamsOf(p.tape)
      BY ONLY <3>4, <3>7, FreezeReady
    <3> QED BY <3>3, <3>4, <3>8, KeptTwice
  <2> QED BY <1>10, <2>1, <2>2, <2>3
<1>15. ParamsOf(r.tape) = DOMAIN r.tape /\ Len(r.tape) <= Len(plan)
  <2>1. TapeLaid(r.tape)
    BY <1>14 DEF Ready, Laid
  <2>2. DOMAIN r.tape = 1..Len(r.tape)
    BY <2>1, ParamsLaid
  <2> QED BY <1>4, <1>10, <1>14, <2>2
<1>16. /\ ops' \in 0..MaxOps /\ phase' = "register" /\ UNCHANGED <<gpu, room, session, plan, poked, stepped, summed, uneven>>
  BY <1>3, <1>9 DEF TapeInv, Shaped
<1> QED BY <1>1, <1>3, <1>9, <1>14, <1>15, <1>16, ReadyKeeps

\* The input is the first entry behind the parameters.
LEMMA Inputs == ASSUME TapeInv, Input PROVE TapeInv'
<1>1. PICK s : s = State
  OBVIOUS
<1>2. PICK n : n = Len(tape)
  OBVIOUS
<1>3. phase = "register" /\ n = Len(plan)
  BY <1>2 DEF Input
<1>4. /\ Ready(s, poked, plan) /\ n \in Nat /\ n < MaxEntries /\ s.tape = tape /\ ParamsOf(tape) = 1..n /\ Len(s.tape) = n
      /\ Cardinality(ParamsOf(tape)) = n
  BY <1>1, <1>2, <1>3, RegisteringHere
<1>5. PICK none : none = <<>>
  OBVIOUS
<1>6. PICK op : op = "NONE"
  OBVIOUS
<1>7. PICK r : r = Record(s, op, none, Authored)
  OBVIOUS
<1>8. /\ Become(r) /\ phase' = "forward" /\ UNCHANGED <<gpu, room, session, plan, ops, poked, stepped, summed, uneven>>
  BY <1>1, <1>5, <1>6, <1>7 DEF Input
<1>9. Computed(s, r, poked, op, none, FALSE)
  <2>1. Sound(s, poked) /\ Len(s.tape) \in Nat /\ Authored \in Mirrors /\ Truthful(Authored) /\ (Authored.dirty => s.gpu)
    BY <1>4, AuthoredKeeps DEF Ready
  <2> QED BY ONLY <2>1, <1>7, RecordComputes
<1>10. PICK alt \in BOOLEAN : alt = FALSE
  OBVIOUS
<1>11. op \in TapeOps /\ none \in Tuples(Len(s.tape)) /\ WholePair(op, none)
  <2>1. none \in [1..0 -> 0..Len(s.tape)]
    BY <1>5
  <2>2. none \in Tuples(Len(s.tape))
    BY <2>1 DEF Tuples
  <2>3. op \in TapeOps /\ op # "SEQ_MATVEC"
    BY <1>6 DEF TapeOps
  <2> QED BY <2>2, <2>3 DEF WholePair
<1>12. Ready(r, poked, plan) /\ ParamsOf(r.tape) = ParamsOf(s.tape) /\ Kept(s, r)
  <2>1. Computed(s, r, poked, op, none, alt)
    BY <1>9, <1>10
  <2> QED BY ONLY <1>4, <1>11, <2>1, alt \in BOOLEAN, ComputedReady
<1>13. r.tape = Append(tape, Formed(op, n + 1, none, FALSE))
  <2>1. r.ret # 0
    <3>1. Fields(s)
      BY <1>4 DEF Ready, Sound
    <3>2. PICK m : m = With(s, <<"out", n + 1>>, Authored)
      OBVIOUS
    <3>3. Fields(m)
      BY <3>1, <3>2, WithFields
    <3>4. ~(n + 1 > MaxEntries)
      BY <1>4, WeightsHere
    <3>5. r = [m EXCEPT !.tape = Append(@, Entry(op, <<"out", n + 1>>, none)), !.ret = n + 1]
      BY ONLY <3>2, <3>4, <1>4, <1>7 DEF Record
    <3>6. r.ret = n + 1
      BY ONLY <3>3, <3>5 DEF Fields
    <3> QED BY <3>6, <1>4
  <2> QED BY <2>1, <1>4, <1>9 DEF Computed
<1>14. Len(r.tape) = n + 1 /\ ~r.tape[n + 1].param
  <2>1. tape \in Seq(Entries(Weights, MaxParams))
    BY ParamsHere DEF TapeLaid
  <2>2. PICK e : e = Formed(op, n + 1, none, FALSE)
    OBVIOUS
  <2>3. ~e.param
    BY <2>2 DEF Formed
  <2>4. Len(Append(tape, e)) = n + 1 /\ Append(tape, e)[n + 1] = e
    BY <2>1, <1>2
  <2> QED BY <1>13, <2>2, <2>3, <2>4
<1>15. HasInput(r.tape, plan)
  BY <1>3, <1>4, <1>14 DEF HasInput
<1>16. Paired(r.tape, plan)
  <2>1. Cardinality(ParamsOf(r.tape)) = Len(plan) + 2 * 0 /\ 0 \in Nat
    BY <1>3, <1>4, <1>12
  <2> QED BY <2>1 DEF Paired
<1>17. ops' \in 0..MaxOps /\ phase \in {"register", "forward"} /\ phase' \in {"register", "forward"} /\ phase' # "register"
  BY <1>3, <1>8 DEF TapeInv, Shaped
<1>18. Ready(r, poked, plan) /\ Kept(State, r)
  BY <1>1, <1>12
<1> QED BY <1>8, <1>15, <1>16, <1>17, <1>18, ReadyKeeps

\* A forward pass is over whatever room the device has left.
LEMMA PassIsOver ==
  ASSUME TapeInv, phase = "forward", NEW q \in Rooms, NEW s, s = [State EXCEPT !.room = q]
  PROVE  /\ Over(s, poked, LastEntry) /\ s.tape = tape /\ s.mem = mem /\ s.gpu = gpu /\ s.room = q /\ s.n = nParams
         /\ s.slots = slots
<1>1. PICK z : z = State
  OBVIOUS
<1>2. z.tape = tape /\ z.mem = mem /\ z.gpu = gpu /\ z.n = nParams /\ z.slots = slots /\ z.misread = {} /\ Fields(z)
  BY <1>1, StateIs
<1>3. s = [z EXCEPT !.room = q]
  BY <1>1
<1>4. /\ Fields(s) /\ s.tape = z.tape /\ s.mem = z.mem /\ s.gpu = z.gpu /\ s.room = q /\ s.n = z.n /\ s.slots = z.slots
      /\ s.misread = z.misread
  BY ONLY <1>2, <1>3 DEF Fields
<1>5. Sound(z, poked) /\ Blank(z) /\ TapeLaid(tape)
  BY <1>1, StateSound, ParamsHere DEF TapeInv, Underway
<1>6. Sound(s, poked)
  BY ONLY <1>4, <1>5, q \in Rooms DEF Sound, MirrorsIn, Latest
<1>7. Blank(s)
  BY ONLY <1>4, <1>5 DEF Blank
<1>8. LastEntry \in DOMAIN tape /\ ~tape[LastEntry].frozen
  <2>1. LastEntry \in DOMAIN tape /\ ~tape[LastEntry].param
    BY GoingHere DEF X
  <2>2. Placed(tape[LastEntry], LastEntry)
    BY <1>5, <2>1, ParamsLaid
  <2> QED BY <2>1, <2>2 DEF Placed
<1>9. \A j : <<"grad", j>> \notin poked
  BY DEF TapeInv, Underway
<1> QED BY <1>2, <1>4, <1>5, <1>6, <1>7, <1>8, <1>9 DEF Over

\* A step that ends a backward pass.
Passes(r, loss) ==
  /\ Comes(r) /\ phase = "forward" /\ phase' = "graded" /\ loss = LastEntry
  /\ Sound(r, poked) /\ TapeLaid(r.tape) /\ SameBut(tape, r.tape)
  /\ r.n = nParams /\ r.slots = slots /\ DOMAIN mem \subseteq DOMAIN r.mem
  /\ \A j : HasGrad(r, j) => j \in DOMAIN tape /\ ~tape[j].frozen
  /\ r.room = "plenty" => Sums(tape, r.tape, Full(tape, r, 0), loss)
  /\ UNCHANGED <<gpu, session, plan, ops, poked, stepped, summed, uneven>>

\* What the entries owe after the pass is the chain rule's.
LEMMA PassSums ==
  ASSUME TapeInv, NEW r, NEW loss, Passes(r, loss)
  PROVE  GradientsAreComplete'
<1>1. PICK t : t = tape
  OBVIOUS
<1>2. PICK u : u = r.tape
  OBVIOUS
<1>3. /\ tape' = u /\ mem' = r.mem /\ State'.mem = r.mem /\ State'.room = r.room
      /\ DOMAIN u = DOMAIN t /\ Len(u) = Len(t)
      /\ \A j \in DOMAIN t : /\ u[j].op = t[j].op /\ u[j].from = t[j].from /\ u[j].param = t[j].param
                             /\ u[j].frozen = t[j].frozen /\ u[j].alt = t[j].alt
  BY <1>1, <1>2, StateComes DEF Passes, SameBut
<1>4. X' = X
  BY <1>1, <1>3 DEF X
<1>5. LastEntry' = loss
  BY <1>4 DEF Passes, LastEntry
<1>6. \A i : HasGrad(State, i)' <=> HasGrad(r, i)
  BY <1>3 DEF HasGrad
<1>7. PICK D : D = Full(t, r, 0)
  OBVIOUS
<1>8. \A i \in DOMAIN t : i > 0
  BY <1>1, ParamsHere
<1>9. D = {c \in (DOMAIN t) \X (1..3) :
             HasGrad(r, c[1]) /\ c[2] \in Differentiable(t[c[1]].op, t[c[1]].alt) \cap DOMAIN t[c[1]].from}
  BY <1>7, <1>8 DEF Full
<1>10. ASSUME NEW p PROVE ChainRule(p)' = Contribs(t, D, p, loss)
  <2>1. PICK C : C = {c \in (DOMAIN t) \X (1..3) :
            /\ HasGrad(r, c[1]) /\ c[2] \in Differentiable(t[c[1]].op, t[c[1]].alt) \cap DOMAIN t[c[1]].from
            /\ t[c[1]].from[c[2]] = p}
    OBVIOUS
  <2>2. C = {c \in D : t[c[1]].from[c[2]] = p}
    BY <1>9, <2>1
  <2>3. C = {c \in (DOMAIN u) \X (1..3) :
            /\ HasGrad(State, c[1])' /\ c[2] \in Differentiable(u[c[1]].op, u[c[1]].alt) \cap DOMAIN u[c[1]].from
            /\ u[c[1]].from[c[2]] = p}
    BY <1>3, <1>6, <2>1
  <2>4. ChainRule(p)' = C \cup (IF p = loss THEN {<<0, 1>>} ELSE {})
    BY <1>3, <1>5, <2>3 DEF ChainRule, Differentiable
  <2> QED BY <2>2, <2>4 DEF Contribs
<1>11. ASSUME r.room = "plenty", NEW p \in DOMAIN u
       PROVE  u[p].sum = IF u[p].frozen /\ p # LastEntry' THEN {} ELSE ChainRule(p)'
  <2>1. u[p].sum = IF t[p].frozen THEN {} ELSE Contribs(t, D, p, loss)
    BY <1>1, <1>2, <1>3, <1>7, <1>11 DEF Passes, Sums
  <2>2. ~tape[loss].frozen
    BY GoingHere, ParamsHere, ParamsLaid DEF Passes, X, Placed
  <2>3. t[p].frozen => p # loss
    BY <1>1, <2>2
  <2> QED BY <1>3, <1>5, <1>10, <2>1, <2>3
<1>12. room' = r.room
  BY DEF Passes, Comes
<1> QED BY <1>3, <1>11, <1>12 DEF GradientsAreComplete

\* A backward pass from any loss keeps the invariant.
LEMMA PassKeeps ==
  ASSUME TapeInv, NEW r, NEW loss, Passes(r, loss)
  PROVE  TapeInv'
<1>1. /\ tape' = r.tape /\ mem' = r.mem /\ nParams' = nParams /\ slots' = slots
      /\ DOMAIN r.tape = DOMAIN tape
      /\ \A j \in DOMAIN tape : /\ r.tape[j].param = tape[j].param /\ r.tape[j].data = tape[j].data
                                /\ r.tape[j].slot = tape[j].slot /\ r.tape[j].frozen = tape[j].frozen
                                /\ r.tape[j].applied = tape[j].applied
  BY StateComes DEF Passes, SameBut
<1>2. /\ session' = session /\ plan' = plan /\ ops' = ops /\ stepped' = stepped /\ summed' = summed /\ uneven' = uneven
      /\ poked' = poked /\ phase = "forward" /\ phase' = "graded"
  BY DEF Passes
<1>3. Settled'
  <2>1. Own(r.tape, r.n, plan)
    BY <1>1, ParamsHere, OwnSame DEF Passes
  <2>2. Laid(r)
    <3>1. nParams \in 0..MaxParams /\ slots \in [1..MaxParams -> SlotStates]
      BY ParamsHere
    <3>2. \A w \in Weights : <<"weight", w>> \in DOMAIN r.mem
      BY StateSound, StateIs DEF Laid, Passes
    <3> QED BY <3>1, <3>2 DEF Laid, Passes
  <2>3. poked \subseteq DOMAIN r.mem
    BY StateSound DEF Passes
  <2> QED BY <1>2, <2>1, <2>2, <2>3, SettledComes DEF Passes
<1>4. SlotsOwn'
  BY <1>1, <1>2 DEF TapeInv, SlotsOwn
<1>5. AppliedOwn'
  <2>1. \A i \in DOMAIN tape : tape[i].applied = {}
    BY <1>2, StateIs DEF TapeInv, Underway, Blank
  <2> QED BY <1>1, <2>1 DEF AppliedOwn, ParamsOf
<1>6. FrozenBare'
  <2>1. \A i : HasGrad(State, i)' <=> HasGrad(r, i)
    BY StateComes DEF HasGrad, Passes
  <2> QED BY <1>1, <2>1 DEF FrozenBare, Passes
<1>7. SteppedHere'
  <2>1. stepped' = {}
    BY <1>2 DEF TapeInv, SteppedHere
  <2> QED BY <2>1 DEF SteppedHere
<1>8. Shaped' /\ Underway'
  BY <1>2 DEF TapeInv, Shaped, Underway, Phases
<1>9. GradientsAreComplete'
  BY PassSums
<1> QED BY <1>3, <1>4, <1>5, <1>6, <1>7, <1>8, <1>9 DEF TapeInv

\* The backward pass, with the room the device happens to have.
LEMMA Backwards == ASSUME TapeInv, Backward PROVE TapeInv'
<1>1. PICK q \in RoomsLeft : room' = q /\ Become(nt_tape_backward([State EXCEPT !.room = q], LastEntry))
  BY DEF Backward
<1>2. /\ phase = "forward" /\ phase' = "graded"
      /\ UNCHANGED <<gpu, session, plan, ops, poked, stepped, summed, uneven>>
  BY DEF Backward
<1>3. q \in Rooms
  <2>1. room \in Rooms
    BY StateSound, StateIs DEF Sound
  <2> QED BY <2>1 DEF RoomsLeft
<1>4. PICK s : s = [State EXCEPT !.room = q]
  OBVIOUS
<1>5. PICK loss : loss = LastEntry
  OBVIOUS
<1>6. PICK r : r = nt_tape_backward(s, loss)
  OBVIOUS
<1>7. /\ Over(s, poked, loss) /\ s.tape = tape /\ s.mem = mem /\ s.gpu = gpu /\ s.room = q /\ s.n = nParams
      /\ s.slots = slots
  BY ONLY TapeInv, <1>2, <1>3, <1>4, <1>5, PassIsOver
<1>8. Down(s, r, poked, loss, 0)
  BY <1>6, <1>7, PassComes
<1>9. Summing(s, r, poked, Full(tape, r, 0), loss)
  BY <1>7, <1>8 DEF Down
<1>10. Comes(r)
  BY <1>1, <1>2, <1>4, <1>5, <1>6, <1>7, <1>9 DEF Comes, Summing
<1>11. Passes(r, loss)
  BY <1>2, <1>5, <1>7, <1>9, <1>10 DEF Passes, Summing
<1> QED BY <1>11, PassKeeps

-----------------------------------------------------------------------------
(* What the invariant gives. *)
\* Where no parameter without a slot comes before one with a slot, a slot is its parameter's rank.
LEMMA SlotLeads ==
  ASSUME TapeInv, Aligned, NEW i \in ParamsOf(tape), tape[i].slot # 0
  PROVE  Lead(plan, Rank(i, ParamsOf(tape))) /\ tape[i].slot = Rank(i, ParamsOf(tape))
<1>1. PICK S : S = ParamsOf(tape)
  OBVIOUS
<1>2. PICK N : N = Len(tape)
  OBVIOUS
<1>3. /\ N \in Nat /\ S \subseteq 1..N /\ Own(tape, nParams, plan) /\ i \in S /\ Cardinality(S) \in Nat
      /\ \A j \in S : Rank(j, S) \in 1..Cardinality(S)
      /\ \A j \in S : tape[j].slot \in 0..MaxParams
  <2>1. \A j \in DOMAIN tape : tape[j].slot \in 0..MaxParams
    BY ParamsHere, ParamsLaid
  <2>2. S \subseteq DOMAIN tape
    BY <1>1 DEF ParamsOf
  <2> QED BY <1>1, <1>2, <2>1, <2>2, ParamsHere
<1>4. \A j, k \in S : j < k => Rank(j, S) < Rank(k, S)
  BY <1>3, RankType
<1>5. ASSUME NEW j \in S, j < i \/ j = i PROVE tape[j].slot # 0
  <2>1. j \in W /\ i \in W
    BY <1>1, <1>3, ParamsAre
  <2> QED BY <1>5, <2>1 DEF Aligned
<1>6. ASSUME NEW k \in 1..Rank(i, S)
      PROVE  Unfrozen(plan, k) /\ \E j \in S : Rank(j, S) = k /\ (j < i \/ j = i)
  <2>1. k \in 1..Cardinality(S)
    BY <1>3
  <2>2. PICK j \in S : Rank(j, S) = k
    BY <1>3, <2>1, RankTaken
  <2>3. j \in Nat /\ i \in Nat /\ Rank(i, S) \in Nat /\ Rank(j, S) \in Nat
    BY <1>3
  <2>4. j < i \/ j = i
    BY <1>4, <1>3, <2>2, <2>3
  <2>5. tape[j].slot # 0
    BY <1>5, <2>4
  <2> QED BY <1>1, <1>3, <2>2, <2>4, <2>5 DEF Own
<1>7. ASSUME NEW m \in 1..Rank(i, S), m <= MaxParams PROVE Lead(plan, m)
  <2>1. \A k \in 1..m : k \in 1..Rank(i, S)
    BY <1>3
  <2> QED BY <1>6, <1>7, <2>1 DEF Lead, Unfrozen
<1>8. MaxParams \in Nat \ {0} /\ Rank(i, S) \in Nat /\ Rank(i, S) >= 1
  BY <1>3, WeightsHere, TapeAssumption
<1>9. Rank(i, S) <= MaxParams
  <2>1. SUFFICES ASSUME Rank(i, S) > MaxParams PROVE FALSE
    BY <1>8
  <2>2. MaxParams \in 1..Rank(i, S)
    BY <1>8, <2>1
  <2>3. PICK z \in S : Rank(z, S) = MaxParams /\ (z < i \/ z = i)
    BY <1>6, <2>2
  <2>4. z < i
    BY <1>8, <2>1, <2>3
  <2>5. Lead(plan, MaxParams)
    BY <1>7, <1>8, <2>2
  <2>6. tape[z].slot = MaxParams
    BY <1>1, <1>3, <2>3, <2>5 DEF Own
  <2>7. tape[z].slot < tape[i].slot
    BY <1>1, <1>3, <1>5, <2>4 DEF Own
  <2> QED BY <1>3, <1>8, <2>6, <2>7
<1>10. Lead(plan, Rank(i, S))
  BY <1>7, <1>8, <1>9
<1> QED BY <1>1, <1>3, <1>10 DEF Own

\* Then those of the first nParams ranks have a slot.
LEMMA RankLeads ==
  ASSUME TapeInv, Aligned, NEW i \in ParamsOf(tape), Rank(i, ParamsOf(tape)) <= nParams
  PROVE  tape[i].slot # 0
<1>1. PICK S : S = ParamsOf(tape)
  OBVIOUS
<1>2. PICK N : N = Len(tape)
  OBVIOUS
<1>3. /\ N \in Nat /\ S \subseteq 1..N /\ Own(tape, nParams, plan) /\ i \in S /\ Cardinality(S) \in Nat
      /\ \A j \in S : Rank(j, S) \in 1..Cardinality(S)
  BY <1>1, <1>2, ParamsHere
<1>4. nParams \in Nat /\ nParams # 0
  <2>1. nParams \in 0..MaxParams /\ MaxParams \in Nat
    BY ParamsHere, TapeAssumption
  <2>2. Rank(i, S) \in Nat /\ Rank(i, S) >= 1 /\ Rank(i, S) <= nParams
    BY <1>1, <1>3
  <2> QED BY <2>1, <2>2
<1>5. PICK z \in S : tape[z].slot = nParams
  BY <1>1, <1>3, <1>4 DEF Own
<1>6. nParams <= Rank(z, S)
  BY <1>1, <1>3, <1>4, <1>5 DEF Own
<1>7. i \in Nat /\ z \in Nat /\ Rank(i, S) \in Nat /\ Rank(z, S) \in Nat
  BY <1>3
<1>8. ~(z < i)
  <2>1. z < i => Rank(z, S) < Rank(i, S)
    BY <1>3, RankType
  <2> QED BY <1>1, <1>4, <1>6, <1>7, <2>1
<1>9. i < z \/ i = z
  BY <1>7, <1>8
<1>10. i \in W /\ z \in W
  BY <1>1, <1>3, ParamsAre
<1> QED BY <1>4, <1>5, <1>9, <1>10 DEF Aligned

\* The invariant includes what is promised of the moments.
LEMMA MomentsHere == ASSUME TapeInv PROVE MomentsAreOwn
<1>1. ASSUME Aligned, ~uneven, NEW i \in W
      PROVE  /\ tape[i].applied \subseteq {WeightOf(State, i)}
             /\ tape[i].slot # 0 => slots[tape[i].slot].hist \subseteq {WeightOf(State, i)}
  <2>1. PICK k : k = Rank(i, ParamsOf(tape))
    OBVIOUS
  <2>2. i \in ParamsOf(tape) /\ WeightOf(State, i) = Reg(plan, k)
    BY <1>1, <2>1, ParamsAre, ParamsHere
  <2>3. tape[i].applied # {} => tape[i].applied \subseteq {Reg(plan, k)}
    <3>1. SUFFICES ASSUME tape[i].applied # {} PROVE tape[i].applied \subseteq {Reg(plan, k)}
      OBVIOUS
    <3>2. k <= nParams /\ (Lead(plan, k) => tape[i].applied \subseteq {Reg(plan, k)})
      BY <1>1, <2>1, <2>2, <3>1 DEF TapeInv, AppliedOwn
    <3>3. Lead(plan, k)
      BY <1>1, <2>1, <2>2, <3>2, RankLeads, SlotLeads
    <3> QED BY <3>2, <3>3
  <2>4. tape[i].slot # 0 => slots[tape[i].slot].hist \subseteq {Reg(plan, k)}
    <3>1. SUFFICES ASSUME tape[i].slot # 0 PROVE slots[tape[i].slot].hist \subseteq {Reg(plan, k)}
      OBVIOUS
    <3>2. Lead(plan, k) /\ tape[i].slot = k
      BY <1>1, <2>1, <2>2, <3>1, SlotLeads
    <3>3. k \in 1..MaxParams
      <4>1. k \in Nat /\ k >= 1 /\ k <= MaxParams /\ MaxParams \in Nat
        BY <2>1, <2>2, <3>2, ParamsHere, TapeAssumption DEF Lead
      <4> QED BY <4>1
    <3> QED BY <1>1, <3>2, <3>3 DEF TapeInv, SlotsOwn
  <2> QED BY <2>2, <2>3, <2>4
<1>2. ASSUME NEW e \in stepped PROVE e \in Stepping(State)
  BY <1>2 DEF TapeInv, SteppedHere
<1>3. ASSUME Aligned, NEW e \in stepped PROVE tape[e[1]].slot = e[2]
  <2>1. e[1] \in ParamsOf(tape) /\ e[2] = Rank(e[1], ParamsOf(tape)) /\ e[2] <= nParams
    BY <1>2, <1>3, StepIs
  <2> QED BY <1>3, <2>1, RankLeads, SlotLeads
<1>4. ASSUME NEW e \in stepped, tape[e[1]].frozen PROVE summed
  <2>1. e[1] \in ParamsOf(tape) /\ HasGrad(State, e[1])
    BY <1>2, <1>4, StepIs
  <2> QED BY <1>4, <2>1 DEF TapeInv, FrozenBare, ParamsOf
<1> QED BY <1>1, <1>3, <1>4 DEF MomentsAreOwn

\* The invariant includes the types.
LEMMA TypesHere == ASSUME TapeInv PROVE TapeTypeOK
<1>1. TapeLaid(tape) /\ nParams \in 0..MaxParams /\ slots \in [1..MaxParams -> SlotStates]
  BY ParamsHere
<1>2. Sound(State, poked) /\ poked \subseteq DOMAIN mem
  BY StateSound
<1>3. gpu \in BOOLEAN /\ room \in Rooms /\ \A id \in DOMAIN mem : mem[id] \in Mirrors
  BY <1>2, StateIs DEF Sound, MirrorsIn
<1>4. stepped \subseteq (1..MaxEntries) \X (1..MaxParams)
  BY StepIs DEF TapeInv, SteppedHere
<1> QED BY <1>1, <1>2, <1>3, <1>4 DEF TapeTypeOK, TapeLaid, SlotStates, TapeInv, Shaped

\* The invariant includes what is promised of the mirrors.
LEMMA MirrorsHere == ASSUME TapeInv PROVE MirrorsAreTruthful
<1>1. MirrorsIn(State, poked)
  BY StateSound DEF Sound
<1> QED BY <1>1, StateIs, TypesHere DEF MirrorsIn, Truthful, MirrorsAreTruthful

-----------------------------------------------------------------------------
(* The theorems. *)
LEMMA TapeStep == ASSUME TapeInv, [Next]_vars PROVE TapeInv'
<1>1. CASE Next
  BY <1>1, Starts, Registers, Inputs, Unaries, Weighteds, Joineds, Attentions, Backwards, Clips, Guards, Accumulates,
     Applies, Adams, Chucks, Destroys, LoraSaves, Saves, LoraLoads DEF Next
<1>2. CASE UNCHANGED vars
  <2>1. /\ tape' = tape /\ mem' = mem /\ nParams' = nParams /\ slots' = slots /\ gpu' = gpu /\ room' = room
        /\ phase' = phase /\ session' = session /\ plan' = plan /\ ops' = ops /\ misread' = misread /\ poked' = poked
        /\ stepped' = stepped /\ summed' = summed /\ uneven' = uneven
    BY <1>2 DEF vars
  <2>2. State' = State
    BY <2>1 DEF State
  <2>3. Shaped' /\ SlotsOwn' /\ AppliedOwn' /\ FrozenBare'
    BY <2>1, <2>2 DEF TapeInv, Shaped, SlotsOwn, AppliedOwn, FrozenBare
  <2>4. Settled'
    BY <2>1, <2>2 DEF TapeInv, Settled, ReadsAreLatest
  <2>5. SteppedHere' /\ Underway'
    BY <2>1, <2>2 DEF TapeInv, SteppedHere, Underway
  <2>6. X' = X
    BY <2>1 DEF X
  <2>7. \A p : ChainRule(p)' = ChainRule(p)
    BY <2>1, <2>2, <2>6 DEF ChainRule, LastEntry
  <2>8. GradientsAreComplete'
    BY <2>1, <2>6, <2>7 DEF TapeInv, GradientsAreComplete, LastEntry
  <2> QED BY <2>3, <2>4, <2>5, <2>8 DEF TapeInv
<1> QED BY <1>1, <1>2

\* Every reachable state satisfies the inductive invariant: well-formed tape (nt_tape_record,
\* nt_tape_param), settled tensors, slots in order of registration, and what each phase of a session
\* has done.
THEOREM TapeInvariant == Spec => []TapeInv
<1>1. Init => TapeInv
  BY Inits
<1>2. TapeInv /\ [Next]_vars => TapeInv'
  BY TapeStep
<1> QED BY <1>1, <1>2, PTL DEF Spec

\* The flags of a tensor (gpu_valid, cpu_dirty) say where its latest value is, in every state: the
\* device holds it when the host is called stale or the device valid, the host when it is not; but for
\* the tensors the code writes behind the flags.
THEOREM MirrorsAreTruthfulAlways == Spec => []MirrorsAreTruthful
<1>1. TapeInv => MirrorsAreTruthful
  BY MirrorsHere
<1> QED BY <1>1, TapeInvariant, PTL

\* No kernel, and no loop that pulls its operands to the host, ever computes with an older value of a
\* tensor, in forward, backward or the optimizer, however little memory the device has; but for the
\* tensors written behind the flags.
THEOREM ReadsAreLatestAlways == Spec => []ReadsAreLatest
<1>1. TapeInv => ReadsAreLatest
  BY DEF TapeInv, Settled
<1> QED BY <1>1, TapeInvariant, PTL

\* After every nt_tape_backward an entry that is not frozen holds the contribution of each of its uses,
\* once, and a frozen one none, wherever they were added; unless the device had no memory for a
\* gradient.
THEOREM GradientsAreCompleteAlways == Spec => []GradientsAreComplete
<1>1. TapeInv => GradientsAreComplete
  BY DEF TapeInv
<1> QED BY <1>1, TapeInvariant, PTL

\* A slot's moments, and the gradients apply_accum puts back, are those of the one parameter registered
\* for it, over all steps and sessions, when frozen parameters come last and every accumulation met all
\* gradients; no frozen one is stepped.
THEOREM MomentsAreOwnAlways == Spec => []MomentsAreOwn
<1>1. TapeInv => MomentsAreOwn
  BY MomentsHere
<1> QED BY <1>1, TapeInvariant, PTL
=================================================================================
