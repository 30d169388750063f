------------------------------ MODULE NotorchProofs ------------------------------
(* What holds of nt_qmatvec and gguf_dequant for tensors of any shape: every row has one
   writer, however many threads there are and whichever cannot be created, and nothing
   is read behind the data. And of the image operations, for any shape: they compute what
   they are named for.                                                                *)
EXTENDS NotorchQuant, NotorchImage, FiniteSetTheorems, TLAPS

-----------------------------------------------------------------------------
(* Numbers. *)

\* The smaller of two numbers.
LEMMA MinOfTwo ==
  ASSUME NEW a \in Int, NEW b \in Int
  PROVE  Min({a, b}) = IF a <= b THEN a ELSE b
<1>1. CASE a <= b
  <2>1. \A x \in {a, b} : a <= x
    BY <1>1
  <2>2. \A x \in {a, b} : (\A y \in {a, b} : x <= y) => x = a
    BY <1>1
  <2> QED BY <1>1, <2>1, <2>2 DEF Min
<1>2. CASE b < a
  <2>1. \A x \in {a, b} : b <= x
    BY <1>2
  <2>2. \A x \in {a, b} : (\A y \in {a, b} : x <= y) => x = b
    BY <1>2
  <2> QED BY <1>2, <2>1, <2>2 DEF Min
<1> QED BY <1>1, <1>2

\* The larger of two numbers is one of them.
LEMMA MaxOfTwo ==
  ASSUME NEW a \in Int, NEW b \in Int
  PROVE  Max({a, b}) \in Int
<1>1. \E x \in {a, b} : \A y \in {a, b} : x >= y
  <2>1. a >= b \/ b >= a
    OBVIOUS
  <2> QED BY <2>1
<1>2. Max({a, b}) \in {a, b}
  BY <1>1 DEF Max
<1> QED BY <1>2

\* The least of three numbers is one of them.
LEMMA MinOfThree ==
  ASSUME NEW a \in Int, NEW b \in Int, NEW c \in Int
  PROVE  Min({a, b, c}) \in Int
<1>1. \E x \in {a, b, c} : \A y \in {a, b, c} : x <= y
  <2>1. (a <= b /\ a <= c) \/ (b <= a /\ b <= c) \/ (c <= a /\ c <= b)
    OBVIOUS
  <2> QED BY <2>1
<1>2. Min({a, b, c}) \in {a, b, c}
  BY <1>1 DEF Min
<1> QED BY <1>2

\* Rows of n threads, each of which takes one share rounded up, are all the rows.
LEMMA SharesSuffice ==
  ASSUME NEW m \in Nat, NEW n \in Nat \ {0}
  PROVE  /\ (m + n - 1) \div n \in Nat
         /\ n * ((m + n - 1) \div n) >= m
<1> DEFINE a == m + n - 1
           q == a \div n
<1>1. a \in Nat /\ n \in Nat /\ n > 0
  OBVIOUS
<1>2. q \in Nat /\ a = n * q + (a % n) /\ a % n \in 0..(n - 1)
  BY <1>1, Z3
<1>3. n * q \in Int
  BY <1>1, <1>2
<1> HIDE DEF q
<1> QED BY <1>1, <1>2, <1>3 DEF q

\* One share more.
LEMMA OneShareMore ==
  ASSUME NEW t \in Nat, NEW p \in Nat
  PROVE  t * p \in Nat /\ (t + 1) * p = t * p + p
OBVIOUS

-----------------------------------------------------------------------------
(* The rows of one product. *)

Job  == [from : Nat, to : Nat]
Rows == 1..call.m

(* The rows a job, or the caller, has still to do; and those that no thread has been
   asked to do yet. *)
Waits(j, r)    == j.from <= r - 1 /\ r - 1 < j.to
Frontier       == call.t * Per
Unassigned(r)  == call.phase = "launch" /\ Frontier <= r - 1

RowsTypeOK ==
  /\ call \in [phase : {"idle", "launch", "join", "done"}, m : Nat, nt : Int, t : Nat]
  /\ jobs \in Seq(Job) /\ inline \in Job /\ out \in [Rows -> {0, 1}]

(* Jobs are shares of the rows, one behind the other, and the caller's rows are behind all
   of them. *)
SharesInv ==
  /\ \A t \in DOMAIN jobs : jobs[t].from <= jobs[t].to /\ jobs[t].to <= call.m
  /\ \A s, t \in DOMAIN jobs : s < t => jobs[s].to <= jobs[t].from
  /\ inline.from <= inline.to
  /\ inline.from < inline.to => /\ inline.to <= call.m
                                /\ \A t \in DOMAIN jobs : jobs[t].to <= inline.from

(* A row is written when somebody has done it, and not before. *)
WrittenInv ==
  \A r \in Rows :
    out[r] = 0 <=> \/ Waits(inline, r) \/ Unassigned(r)
                   \/ \E t \in DOMAIN jobs : Waits(jobs[t], r)

(* While threads are created the caller does nothing, and what was given out is below
   the frontier. *)
PhaseInv ==
  /\ call.phase = "idle" => jobs = <<>> /\ inline.from = inline.to
  /\ call.phase = "launch" =>
       /\ call.nt \in Nat \ {0} /\ call.t <= call.nt /\ inline.from = inline.to
       /\ \A t \in DOMAIN jobs : jobs[t].to <= Frontier
  /\ call.phase = "done" => inline.from = inline.to /\ \A t \in DOMAIN jobs : jobs[t].from = jobs[t].to

RowsInv == RowsTypeOK /\ SharesInv /\ WrittenInv /\ PhaseInv

-----------------------------------------------------------------------------
\* The types, one by one.
LEMMA TypesTell ==
  ASSUME RowsTypeOK
  PROVE  /\ call.m \in Nat /\ call.nt \in Int /\ call.t \in Nat
         /\ call.phase \in {"idle", "launch", "join", "done"}
         /\ inline.from \in Nat /\ inline.to \in Nat
         /\ \A t \in DOMAIN jobs : jobs[t].from \in Nat /\ jobs[t].to \in Nat
         /\ DOMAIN jobs \subseteq Nat /\ DOMAIN out = Rows /\ Rows \subseteq Int
         /\ \A r \in Rows : out[r] \in {0, 1}
<1>1. call.m \in Nat /\ call.nt \in Int /\ call.t \in Nat /\ call.phase \in {"idle", "launch", "join", "done"}
  BY DEF RowsTypeOK
<1>2. inline.from \in Nat /\ inline.to \in Nat
  BY DEF RowsTypeOK, Job
<1>3. ASSUME NEW t \in DOMAIN jobs PROVE jobs[t].from \in Nat /\ jobs[t].to \in Nat
  <2>1. jobs[t] \in Job
    BY <1>3 DEF RowsTypeOK
  <2> QED BY <2>1 DEF Job
<1>4. DOMAIN jobs = 1..Len(jobs) /\ Len(jobs) \in Nat
  BY DEF RowsTypeOK
<1>5. DOMAIN out = Rows /\ \A r \in Rows : out[r] \in {0, 1}
  BY DEF RowsTypeOK
<1>6. Rows \subseteq Int
  BY <1>1 DEF Rows
<1>7. DOMAIN jobs \subseteq Nat
  BY <1>4
<1> QED BY <1>1, <1>2, <1>3, <1>5, <1>6, <1>7

(* What the invariant says of the rows (RowsAreWrittenOnce). *)
LEMMA OneWriter == RowsInv => RowsAreWrittenOnce
<1> SUFFICES ASSUME RowsInv PROVE RowsAreWrittenOnce
  OBVIOUS
<1>0. /\ call.m \in Nat /\ inline.from \in Nat /\ inline.to \in Nat
      /\ \A t \in DOMAIN jobs : jobs[t].from \in Nat /\ jobs[t].to \in Nat
      /\ DOMAIN jobs \subseteq Nat /\ DOMAIN out = Rows /\ Rows \subseteq Int
      /\ \A r \in Rows : out[r] \in {0, 1}
  BY TypesTell DEF RowsInv
<1>1. ASSUME NEW r \in Rows
      PROVE  out[r] + Cardinality({t \in DOMAIN jobs : r - 1 \in jobs[t].from..(jobs[t].to - 1)})
               + (IF r - 1 \in inline.from..(inline.to - 1) THEN 1 ELSE 0) <= 1
  <2> DEFINE W == {t \in DOMAIN jobs : r - 1 \in jobs[t].from..(jobs[t].to - 1)}
  <2>1. /\ r \in Int /\ W = {t \in DOMAIN jobs : Waits(jobs[t], r)}
        /\ r - 1 \in inline.from..(inline.to - 1) <=> Waits(inline, r)
    BY <1>0, <1>1 DEF Waits
  <2>2. \A s, t \in W : s = t
    <3>1. \A s, t \in DOMAIN jobs : s < t /\ Waits(jobs[s], r) => ~ Waits(jobs[t], r)
      BY <1>0, <2>1 DEF RowsInv, SharesInv, Waits
    <3>2. \A s, t \in DOMAIN jobs : s < t \/ t < s \/ s = t
      BY <1>0
    <3> QED BY <2>1, <3>1, <3>2
  <2>3. Waits(inline, r) => W = {}
    BY <1>0, <2>1 DEF RowsInv, SharesInv, Waits
  <2>4. W # {} \/ Waits(inline, r) => out[r] = 0
    BY <1>1, <2>1 DEF RowsInv, WrittenInv
  <2> HIDE DEF W
  <2>5. CASE W = {}
    <3>1. Cardinality(W) = 0
      BY <2>5, FS_EmptySet
    <3> QED BY <1>0, <1>1, <2>1, <2>4, <3>1 DEF W
  <2>6. CASE W # {}
    <3>1. PICK t : W = {t}
      BY <2>2, <2>6
    <3>2. Cardinality(W) = 1
      BY <3>1, FS_Singleton
    <3> QED BY <2>1, <2>3, <2>4, <2>6, <3>2 DEF W
  <2> QED BY <2>5, <2>6
<1>2. ASSUME call.phase = "done", NEW r \in Rows PROVE out[r] = 1
  <2>1. ~ Waits(inline, r) /\ ~ Unassigned(r) /\ \A t \in DOMAIN jobs : ~ Waits(jobs[t], r)
    BY <1>0, <1>2 DEF RowsInv, PhaseInv, Waits, Unassigned
  <2>2. out[r] # 0
    BY <1>2, <2>1 DEF RowsInv, WrittenInv
  <2> QED BY <1>0, <1>2, <2>2
<1> QED BY <1>0, <1>1, <1>2 DEF RowsAreWrittenOnce

-----------------------------------------------------------------------------
(* The steps. *)

\* The share of a thread, and what has been given out, are numbers while threads are created.
LEMMA FrontierIsNumber ==
  ASSUME RowsInv, call.phase = "launch"
  PROVE  /\ Per \in Nat /\ Frontier \in Nat /\ (call.t + 1) * Per = Frontier + Per
         /\ call.nt * Per >= call.m
<1>1. call.m \in Nat /\ call.nt \in Nat \ {0} /\ call.t \in Nat
  BY TypesTell DEF RowsInv, PhaseInv
<1>2. Per \in Nat /\ call.nt * Per >= call.m
  BY <1>1, SharesSuffice DEF Per
<1>3. Frontier \in Nat /\ (call.t + 1) * Per = Frontier + Per
  BY <1>1, <1>2, OneShareMore DEF Frontier
<1> QED BY <1>2, <1>3

\* Before a call there are no rows.
LEMMA RowsStart == QuantInit => RowsInv
<1> SUFFICES ASSUME QuantInit PROVE RowsInv
  OBVIOUS
<1> USE DEF QuantInit
<1>1. /\ call = [phase |-> "idle", m |-> 0, nt |-> 0, t |-> 0] /\ jobs = <<>> /\ out = <<>>
      /\ inline = [from |-> 0, to |-> 0]
  BY DEF Idle, NoRows
<1>2. Rows = {}
  BY <1>1 DEF Rows
<1>3. RowsTypeOK
  <2>1. out \in [Rows -> {0, 1}]
    BY <1>1, <1>2
  <2>2. jobs \in Seq(Job)
    BY <1>1
  <2>3. inline \in Job
    BY <1>1 DEF Job
  <2> QED BY <1>1, <2>1, <2>2, <2>3 DEF RowsTypeOK
<1>4. SharesInv /\ PhaseInv
  BY <1>1 DEF SharesInv, PhaseInv
<1>5. WrittenInv
  BY <1>2 DEF WrittenInv
<1> QED BY <1>3, <1>4, <1>5 DEF RowsInv

\* A call begins with all rows the caller's, or none given out.
LEMMA BeginsKeeps == RowsInv /\ Begins => RowsInv'
<1> SUFFICES ASSUME RowsInv, Begins PROVE RowsInv'
  OBVIOUS
<1>1. PICK s \in Shapes, cores \in Cores :
        LET nt == Min({Max({cores, 1}), MaxThreads, s.m})
            alone == nt <= 1 \/ s.m * s.k < Gate
        IN  /\ call' = [phase |-> IF alone THEN "join" ELSE "launch", m |-> s.m, nt |-> nt, t |-> 0]
            /\ inline' = IF alone THEN [from |-> 0, to |-> s.m] ELSE NoRows
            /\ out' = [r \in 1..s.m |-> 0] /\ jobs' = <<>>
  BY DEF Begins
<1>2. s.m \in Nat /\ cores \in Int /\ MaxThreads \in Int
  BY QuantLimits
<1>3. PICK nt \in Int : nt = Min({Max({cores, 1}), MaxThreads, s.m})
  <2>1. Max({cores, 1}) \in Int
    BY <1>2, MaxOfTwo
  <2>2. Min({Max({cores, 1}), MaxThreads, s.m}) \in Int
    BY <1>2, <2>1, MinOfThree
  <2> QED BY <2>2
<1>4. PICK m \in Nat : m = s.m
  BY <1>2
<1>5. /\ out' = [r \in 1..m |-> 0] /\ jobs' = <<>> /\ call'.m = m /\ call'.t = 0 /\ call'.nt = nt
      /\ \/ /\ call' = [phase |-> "join", m |-> m, nt |-> nt, t |-> 0]
            /\ inline' = [from |-> 0, to |-> m]
         \/ /\ call' = [phase |-> "launch", m |-> m, nt |-> nt, t |-> 0] /\ nt > 1
            /\ inline' = [from |-> 0, to |-> 0]
  <2>1. out' = [r \in 1..m |-> 0] /\ jobs' = <<>>
    BY <1>1, <1>4
  <2>2. CASE nt <= 1 \/ s.m * s.k < Gate
    <3>1. call' = [phase |-> "join", m |-> m, nt |-> nt, t |-> 0] /\ inline' = [from |-> 0, to |-> m]
      BY <1>1, <1>3, <1>4, <2>2
    <3> QED BY <2>1, <3>1
  <2>3. CASE ~ (nt <= 1 \/ s.m * s.k < Gate)
    <3>1. call' = [phase |-> "launch", m |-> m, nt |-> nt, t |-> 0] /\ inline' = [from |-> 0, to |-> 0]
      BY <1>1, <1>3, <1>4, <2>3 DEF NoRows
    <3> QED BY <2>1, <2>3, <3>1
  <2> QED BY <2>2, <2>3
<1>6. Rows' = 1..m /\ \A r \in Rows' : out'[r] = 0 /\ 0 <= r - 1 /\ r - 1 < m /\ r \in Int
  BY <1>5 DEF Rows
<1>7. RowsTypeOK'
  <2>1. out' \in [Rows' -> {0, 1}] /\ jobs' \in Seq(Job)
    BY <1>5, <1>6
  <2>2. inline' \in Job
    BY <1>5 DEF Job
  <2>3. call' \in [phase : {"idle", "launch", "join", "done"}, m : Nat, nt : Int, t : Nat]
    BY <1>5
  <2> QED BY <2>1, <2>2, <2>3 DEF RowsTypeOK
<1>8. SharesInv'
  BY <1>5 DEF SharesInv
<1>9. call'.phase = "launch" => Frontier' = 0
  <2> SUFFICES ASSUME call'.phase = "launch" PROVE Frontier' = 0
    OBVIOUS
  <2>1. nt \in Nat \ {0}
    BY <1>5
  <2>2. PICK p \in Nat : p = (m + nt - 1) \div nt
    BY <2>1, SharesSuffice
  <2>3. Frontier' = 0 * p
    BY <1>5, <2>2 DEF Frontier, Per
  <2> QED BY <2>2, <2>3
<1>10. WrittenInv'
  BY <1>5, <1>6, <1>9 DEF WrittenInv, Waits, Unassigned
<1>11. PhaseInv'
  BY <1>5, <1>9 DEF PhaseInv
<1> QED BY <1>7, <1>8, <1>10, <1>11 DEF RowsInv

\* A thread that is created is given the next share, and the frontier moves behind it.
LEMMA ThreadCreatedKeeps == RowsInv /\ ThreadCreated => RowsInv'
<1> SUFFICES ASSUME RowsInv, ThreadCreated PROVE RowsInv'
  OBVIOUS
<1>0. /\ call.phase = "launch" /\ call.t < call.nt /\ Frontier < call.m
      /\ call' = [call EXCEPT !.t = @ + 1] /\ UNCHANGED <<inline, out>>
      /\ jobs' = Append(jobs, [from |-> Frontier, to |-> Min({Frontier + Per, call.m})])
  BY DEF ThreadCreated, Frontier
<1>1. /\ call.m \in Nat /\ call.nt \in Int /\ call.t \in Nat /\ inline.from \in Nat /\ inline.to \in Nat
      /\ \A t \in DOMAIN jobs : jobs[t].from \in Nat /\ jobs[t].to \in Nat
      /\ jobs \in Seq(Job) /\ Rows \subseteq Int /\ Per \in Nat /\ Frontier \in Nat
  BY <1>0, TypesTell, FrontierIsNumber DEF RowsInv, RowsTypeOK
<1>2. PICK to \in Nat : /\ to = Min({Frontier + Per, call.m}) /\ Frontier <= to /\ to <= call.m
                        /\ to = Frontier + Per \/ (to = call.m /\ to <= Frontier + Per)
  <2>1. Min({Frontier + Per, call.m}) = IF Frontier + Per <= call.m THEN Frontier + Per ELSE call.m
    BY <1>1, MinOfTwo
  <2> QED BY <1>0, <1>1, <2>1
<1>3. /\ call'.phase = "launch" /\ call'.m = call.m /\ call'.nt = call.nt /\ call'.t = call.t + 1
      /\ call' \in [phase : {"idle", "launch", "join", "done"}, m : Nat, nt : Int, t : Nat]
  <2>1. call \in [phase : {"idle", "launch", "join", "done"}, m : Nat, nt : Int, t : Nat]
    BY DEF RowsInv, RowsTypeOK
  <2>2. call.t + 1 \in Nat
    BY <1>1
  <2> QED BY <1>0, <2>1, <2>2
<1>4. Per' = Per /\ Frontier' = Frontier + Per /\ Rows' = Rows
  <2>1. Per' = Per /\ Rows' = Rows
    BY <1>3 DEF Per, Rows
  <2>2. Frontier' = (call.t + 1) * Per
    BY <1>3, <2>1 DEF Frontier
  <2> QED BY <1>0, <2>1, <2>2, FrontierIsNumber
<1> DEFINE new == [from |-> Frontier, to |-> to]
           n == Len(jobs) + 1
<1>5. new \in Job /\ new.from = Frontier /\ new.to = to
  BY <1>1 DEF Job
<1> HIDE DEF new
<1>6. /\ jobs' \in Seq(Job) /\ n \in Nat \ {0} /\ DOMAIN jobs = 1..(n - 1) /\ DOMAIN jobs' = 1..n
      /\ jobs'[n] = new /\ \A t \in DOMAIN jobs : jobs'[t] = jobs[t]
  BY <1>0, <1>1, <1>2, <1>5 DEF new
<1> HIDE DEF n
<1>7. /\ \A t \in DOMAIN jobs' : t = n \/ t \in DOMAIN jobs
      /\ \A t \in DOMAIN jobs : t < n /\ t \in DOMAIN jobs' /\ t \in Nat
      /\ n \in DOMAIN jobs' /\ n >= 1
  BY <1>6
<1>8. RowsTypeOK'
  BY <1>0, <1>3, <1>4, <1>6 DEF RowsInv, RowsTypeOK
<1>9. SharesInv'
  <2>1. \A t \in DOMAIN jobs : jobs[t].to <= Frontier /\ jobs[t].from <= jobs[t].to
    BY <1>0 DEF RowsInv, PhaseInv, SharesInv
  <2>2. \A t \in DOMAIN jobs' : jobs'[t].from <= jobs'[t].to /\ jobs'[t].to <= call'.m
    BY <1>2, <1>3, <1>5, <1>6, <1>7 DEF RowsInv, SharesInv
  <2>3. ASSUME NEW s \in DOMAIN jobs', NEW t \in DOMAIN jobs', s < t PROVE jobs'[s].to <= jobs'[t].from
    <3>1. s \in DOMAIN jobs
      BY <1>6, <1>7, <2>3
    <3>2. CASE t = n
      BY <1>5, <1>6, <2>1, <3>1, <3>2
    <3>3. CASE t \in DOMAIN jobs
      BY <1>6, <2>3, <3>1, <3>3 DEF RowsInv, SharesInv
    <3> QED BY <1>7, <3>2, <3>3
  <2>4. inline'.from = inline'.to
    BY <1>0 DEF RowsInv, PhaseInv
  <2>5. inline'.from <= inline'.to /\ ~ (inline'.from < inline'.to)
    BY <1>0, <1>1, <2>4
  <2> QED BY <2>2, <2>3, <2>5 DEF SharesInv
<1>10. WrittenInv'
  <2> SUFFICES ASSUME NEW r \in Rows
               PROVE  out[r] = 0 <=> \/ Waits(inline, r) \/ (call'.phase = "launch" /\ Frontier' <= r - 1)
                                     \/ \E t \in DOMAIN jobs' : Waits(jobs'[t], r)
    <3>1. \A r \in Rows' : out'[r] = out[r] /\ (Waits(inline, r)' <=> Waits(inline, r))
      BY <1>0 DEF Waits
    <3>2. \A r \in Rows', t \in DOMAIN jobs' : Waits(jobs[t], r)' <=> Waits(jobs'[t], r)
      BY DEF Waits
    <3>3. \A r \in Rows' : Unassigned(r)' <=> (call'.phase = "launch" /\ Frontier' <= r - 1)
      BY DEF Unassigned
    <3> QED BY <1>4, <3>1, <3>2, <3>3 DEF WrittenInv
  <2>1. r \in Int /\ r - 1 < call.m
    BY <1>1 DEF Rows
  <2>2. (\E t \in DOMAIN jobs' : Waits(jobs'[t], r)) <=> Waits(new, r) \/ \E t \in DOMAIN jobs : Waits(jobs[t], r)
    BY <1>6, <1>7
  <2>3. Frontier <= r - 1 <=> Waits(new, r) \/ Frontier + Per <= r - 1
    BY <1>1, <1>2, <1>5, <2>1 DEF Waits
  <2>4. out[r] = 0 <=> Waits(inline, r) \/ Frontier <= r - 1 \/ \E t \in DOMAIN jobs : Waits(jobs[t], r)
    BY <1>0 DEF RowsInv, WrittenInv, Unassigned
  <2>5. (call'.phase = "launch" /\ Frontier' <= r - 1) <=> Frontier + Per <= r - 1
    BY <1>3, <1>4
  <2> DEFINE A == \E t \in DOMAIN jobs : Waits(jobs[t], r)
             B == \E t \in DOMAIN jobs' : Waits(jobs'[t], r)
  <2> HIDE DEF A, B
  <2>6. (B <=> Waits(new, r) \/ A) /\ (out[r] = 0 <=> Waits(inline, r) \/ Frontier <= r - 1 \/ A)
    BY <2>2, <2>4 DEF A, B
  <2>7. out[r] = 0 <=> Waits(inline, r) \/ (call'.phase = "launch" /\ Frontier' <= r - 1) \/ B
    BY <2>3, <2>5, <2>6
  <2> QED BY <2>7 DEF B
<1>11. PhaseInv'
  <2>1. \A t \in DOMAIN jobs' : jobs'[t].to <= Frontier'
    <3>1. \A t \in DOMAIN jobs : jobs[t].to <= Frontier
      BY <1>0 DEF RowsInv, PhaseInv
    <3> QED BY <1>1, <1>2, <1>4, <1>5, <1>6, <1>7, <3>1
  <2>2. call'.nt \in Nat \ {0} /\ call'.t <= call'.nt /\ inline'.from = inline'.to
    BY <1>0, <1>1, <1>3 DEF RowsInv, PhaseInv
  <2> QED BY <1>3, <2>1, <2>2 DEF PhaseInv
<1> QED BY <1>8, <1>9, <1>10, <1>11 DEF RowsInv

\* When a thread cannot be created the caller takes all the rows that are left.
LEMMA CreateFailsKeeps == RowsInv /\ CreateFails => RowsInv'
<1> SUFFICES ASSUME RowsInv, CreateFails PROVE RowsInv'
  OBVIOUS
<1>0. /\ call.phase = "launch" /\ Frontier < call.m /\ UNCHANGED <<jobs, out>>
      /\ call' = [call EXCEPT !.phase = "join"] /\ inline' = [from |-> Frontier, to |-> call.m]
  BY DEF CreateFails, Frontier
<1>1. /\ call.m \in Nat /\ inline.from \in Nat /\ inline.to \in Nat
      /\ \A t \in DOMAIN jobs : jobs[t].from \in Nat /\ jobs[t].to \in Nat
      /\ Rows \subseteq Int /\ Frontier \in Nat
  BY <1>0, TypesTell, FrontierIsNumber DEF RowsInv
<1>2. /\ call'.phase = "join" /\ call'.m = call.m /\ Rows' = Rows
      /\ call' \in [phase : {"idle", "launch", "join", "done"}, m : Nat, nt : Int, t : Nat]
  BY <1>0 DEF RowsInv, RowsTypeOK, Rows
<1>3. inline' \in Job /\ inline'.from = Frontier /\ inline'.to = call.m
  BY <1>0, <1>1 DEF Job
<1>4. \A t \in DOMAIN jobs : jobs[t].to <= Frontier
  BY <1>0 DEF RowsInv, PhaseInv
<1>5. RowsTypeOK'
  BY <1>0, <1>2, <1>3 DEF RowsInv, RowsTypeOK
<1>6. SharesInv'
  BY <1>0, <1>1, <1>2, <1>3, <1>4 DEF RowsInv, SharesInv
<1>7. WrittenInv'
  <2> SUFFICES ASSUME NEW r \in Rows
               PROVE  out[r] = 0 <=> Waits(inline', r) \/ \E t \in DOMAIN jobs : Waits(jobs[t], r)
    BY <1>0, <1>2 DEF WrittenInv, Unassigned
  <2>1. r \in Int /\ r - 1 < call.m
    BY <1>1 DEF Rows
  <2>2. Waits(inline', r) <=> Frontier <= r - 1
    BY <1>3, <2>1 DEF Waits
  <2>3. ~ Waits(inline, r)
    BY <1>0, <1>1, <2>1 DEF RowsInv, PhaseInv, Waits
  <2> QED BY <1>0, <2>2, <2>3 DEF RowsInv, WrittenInv, Unassigned
<1>8. PhaseInv'
  BY <1>2 DEF PhaseInv
<1> QED BY <1>5, <1>6, <1>7, <1>8 DEF RowsInv

\* When every thread there is to be was created, no row is left.
LEMMA AllLaunchedKeeps == RowsInv /\ AllLaunched => RowsInv'
<1> SUFFICES ASSUME RowsInv, AllLaunched PROVE RowsInv'
  OBVIOUS
<1>0. /\ call.phase = "launch" /\ (call.t = call.nt \/ Frontier >= call.m) /\ UNCHANGED <<jobs, inline, out>>
      /\ call' = [call EXCEPT !.phase = "join"]
  BY DEF AllLaunched, Frontier
<1>1. /\ call.m \in Nat /\ Rows \subseteq Int /\ Frontier \in Nat
  BY <1>0, TypesTell, FrontierIsNumber DEF RowsInv
<1>2. /\ call'.phase = "join" /\ call'.m = call.m /\ Rows' = Rows
      /\ call' \in [phase : {"idle", "launch", "join", "done"}, m : Nat, nt : Int, t : Nat]
  BY <1>0 DEF RowsInv, RowsTypeOK, Rows
<1>3. Frontier >= call.m
  <2>1. call.t = call.nt => Frontier >= call.m
    <3>1. call.t = call.nt => Frontier = call.nt * Per
      BY DEF Frontier
    <3> QED BY <1>0, <3>1, FrontierIsNumber
  <2> QED BY <1>0, <2>1
<1>4. \A r \in Rows : ~ Unassigned(r)
  BY <1>1, <1>3 DEF Rows, Unassigned
<1>5. RowsTypeOK' /\ SharesInv' /\ PhaseInv'
  BY <1>0, <1>2 DEF RowsInv, RowsTypeOK, SharesInv, PhaseInv
<1>6. WrittenInv'
  BY <1>0, <1>2, <1>4 DEF RowsInv, WrittenInv, Unassigned
<1> QED BY <1>5, <1>6 DEF RowsInv

\* A thread writes the next of its rows, which nobody else has to write.
LEMMA WorkerKeeps == RowsInv /\ nt_qworker => RowsInv'
<1> SUFFICES ASSUME RowsInv, nt_qworker PROVE RowsInv'
  OBVIOUS
<1>0. PICK t \in DOMAIN jobs :
        /\ jobs[t].from < jobs[t].to
        /\ out' = [out EXCEPT ![jobs[t].from + 1] = @ + 1]
        /\ jobs' = [jobs EXCEPT ![t].from = @ + 1] /\ UNCHANGED <<call, inline>>
  BY DEF nt_qworker
<1>1. /\ call.m \in Nat /\ inline.from \in Nat /\ inline.to \in Nat
      /\ \A u \in DOMAIN jobs : jobs[u].from \in Nat /\ jobs[u].to \in Nat
      /\ Rows \subseteq Int /\ DOMAIN jobs \subseteq Nat
      /\ DOMAIN out = Rows /\ \A r \in Rows : out[r] \in {0, 1}
  BY TypesTell DEF RowsInv
<1>2. call.phase = "launch" => Frontier \in Nat
  BY FrontierIsNumber
<1>3. PICK row \in Rows : /\ row = jobs[t].from + 1 /\ out[row] = 0
                          /\ out' = [out EXCEPT ![row] = @ + 1]
  <2>1. jobs[t].from + 1 \in Rows
    BY <1>0, <1>1 DEF RowsInv, SharesInv, Rows
  <2>2. Waits(jobs[t], jobs[t].from + 1)
    BY <1>0, <1>1 DEF Waits
  <2> QED BY <1>0, <2>1, <2>2 DEF RowsInv, WrittenInv
<1>4. /\ out' \in [Rows -> {0, 1}] /\ out'[row] = 1 /\ \A r \in Rows : r # row => out'[r] = out[r]
  <2>1. out \in [Rows -> {0, 1}]
    BY DEF RowsInv, RowsTypeOK
  <2>2. out' = [out EXCEPT ![row] = 1]
    BY <1>3
  <2> QED BY <2>1, <2>2
<1>5. /\ jobs' \in Seq(Job) /\ DOMAIN jobs' = DOMAIN jobs
      /\ jobs'[t].from = row /\ jobs'[t].to = jobs[t].to
      /\ \A u \in DOMAIN jobs : /\ jobs'[u].to = jobs[u].to /\ jobs'[u].from >= jobs[u].from
                                /\ u # t => jobs'[u] = jobs[u]
  <2>1. jobs \in Seq(Job) /\ jobs[t] \in Job
    BY DEF RowsInv, RowsTypeOK
  <2>2. [jobs[t] EXCEPT !.from = @ + 1] \in Job
    BY <1>1, <2>1 DEF Job
  <2>3. jobs' = [jobs EXCEPT ![t] = [jobs[t] EXCEPT !.from = @ + 1]]
    BY <1>0
  <2>4. jobs' \in Seq(Job) /\ DOMAIN jobs' = DOMAIN jobs
    BY <2>1, <2>2, <2>3
  <2>5. jobs'[t] = [jobs[t] EXCEPT !.from = @ + 1] /\ \A u \in DOMAIN jobs : u # t => jobs'[u] = jobs[u]
    BY <2>1, <2>3
  <2>6. jobs'[t].from = jobs[t].from + 1 /\ jobs'[t].to = jobs[t].to
    BY <2>1, <2>5 DEF Job
  <2>7. jobs'[t].from = row /\ jobs'[t].from >= jobs[t].from
    BY <1>1, <1>3, <2>6
  <2>8. \A u \in DOMAIN jobs : u # t => jobs'[u].to = jobs[u].to /\ jobs'[u].from >= jobs[u].from
    BY <1>1, <2>5
  <2> QED BY <2>4, <2>5, <2>6, <2>7, <2>8
<1>6. Rows' = Rows /\ Frontier' = Frontier /\ inline' = inline /\ call' = call
  BY <1>0 DEF Rows, Frontier, Per
<1>7. RowsTypeOK'
  BY <1>4, <1>5, <1>6 DEF RowsInv, RowsTypeOK
<1>8. SharesInv'
  <2>1. \A u \in DOMAIN jobs : jobs'[u].from <= jobs'[u].to /\ jobs'[u].to <= call.m
    BY <1>0, <1>1, <1>3, <1>5 DEF RowsInv, SharesInv
  <2>2. \A u, v \in DOMAIN jobs : u < v => jobs'[u].to <= jobs'[v].from
    <3>1. \A u, v \in DOMAIN jobs : u < v => jobs[u].to <= jobs[v].from
      BY DEF RowsInv, SharesInv
    <3>2. \A v \in DOMAIN jobs : jobs'[v].from \in Int
      BY <1>1, <1>3, <1>5
    <3> QED BY <1>1, <1>5, <3>1, <3>2
  <2> QED BY <1>5, <1>6, <2>1, <2>2 DEF RowsInv, SharesInv
<1>9. WrittenInv'
  <2>1. ASSUME NEW r \in Rows, r # row, NEW u \in DOMAIN jobs PROVE Waits(jobs'[u], r) <=> Waits(jobs[u], r)
    BY <1>1, <1>3, <1>5, <2>1 DEF Waits
  <2>2. \A u \in DOMAIN jobs : ~ Waits(jobs'[u], row)
    <3>1. ~ Waits(jobs'[t], row)
      BY <1>1, <1>3, <1>5 DEF Waits
    <3>2. ASSUME NEW u \in DOMAIN jobs, u # t PROVE ~ Waits(jobs'[u], row)
      <4>1. u < t => jobs[u].to <= jobs[t].from
        BY DEF RowsInv, SharesInv
      <4>2. t < u => jobs[t].to <= jobs[u].from
        BY DEF RowsInv, SharesInv
      <4>3. u < t \/ t < u
        BY <1>1, <3>2
      <4> QED BY <1>0, <1>1, <1>3, <1>5, <3>2, <4>1, <4>2, <4>3 DEF Waits
    <3> QED BY <3>1, <3>2
  <2>3. ~ Waits(inline, row)
    BY <1>0, <1>1, <1>3 DEF RowsInv, SharesInv, Waits
  <2>4. ~ Unassigned(row)
    BY <1>0, <1>1, <1>2, <1>3 DEF RowsInv, PhaseInv, Unassigned
  <2>5. \A r \in Rows : Unassigned(r)' <=> Unassigned(r)
    BY <1>6 DEF Unassigned
  <2>6. ASSUME NEW r \in Rows
        PROVE  out'[r] = 0 <=> Waits(inline, r) \/ Unassigned(r) \/ \E u \in DOMAIN jobs : Waits(jobs'[u], r)
    <3>1. CASE r = row
      BY <1>4, <2>2, <2>3, <2>4, <3>1
    <3>2. CASE r # row
      <4>1. out[r] = 0 <=> Waits(inline, r) \/ Unassigned(r) \/ \E u \in DOMAIN jobs : Waits(jobs[u], r)
        BY DEF RowsInv, WrittenInv
      <4> QED BY <1>4, <2>1, <3>2, <4>1
    <3> QED BY <3>1, <3>2
  <2>7. \A r \in Rows : Waits(inline, r)' <=> Waits(inline, r)
    BY <1>6 DEF Waits
  <2>8. \A r \in Rows, u \in DOMAIN jobs : Waits(jobs[u], r)' <=> Waits(jobs'[u], r)
    BY DEF Waits
  <2> QED BY <1>5, <1>6, <2>5, <2>6, <2>7, <2>8 DEF WrittenInv
<1>10. PhaseInv'
  <2>1. call.phase # "idle" /\ call.phase # "done"
    BY <1>0, <1>1 DEF RowsInv, PhaseInv
  <2> QED BY <1>5, <1>6, <2>1 DEF RowsInv, PhaseInv
<1> QED BY <1>7, <1>8, <1>9, <1>10 DEF RowsInv

\* So does the caller, when it has rows to do.
LEMMA InlineKeeps == RowsInv /\ RowInline => RowsInv'
<1> SUFFICES ASSUME RowsInv, RowInline PROVE RowsInv'
  OBVIOUS
<1>0. /\ call.phase = "join" /\ inline.from < inline.to /\ UNCHANGED <<call, jobs>>
      /\ out' = [out EXCEPT ![inline.from + 1] = @ + 1]
      /\ inline' = [inline EXCEPT !.from = @ + 1]
  BY DEF RowInline
<1>1. /\ call.m \in Nat /\ inline.from \in Nat /\ inline.to \in Nat
      /\ \A u \in DOMAIN jobs : jobs[u].from \in Nat /\ jobs[u].to \in Nat
      /\ Rows \subseteq Int /\ DOMAIN out = Rows /\ \A r \in Rows : out[r] \in {0, 1}
  BY TypesTell DEF RowsInv
<1>2. \A u \in DOMAIN jobs : jobs[u].to <= inline.from
  BY <1>0 DEF RowsInv, SharesInv
<1>3. PICK row \in Rows : /\ row = inline.from + 1 /\ out[row] = 0
                          /\ out' = [out EXCEPT ![row] = @ + 1]
  <2>1. inline.from + 1 \in Rows
    BY <1>0, <1>1 DEF RowsInv, SharesInv, Rows
  <2>2. Waits(inline, inline.from + 1)
    BY <1>0, <1>1 DEF Waits
  <2> QED BY <1>0, <2>1, <2>2 DEF RowsInv, WrittenInv
<1>4. /\ out' \in [Rows -> {0, 1}] /\ out'[row] = 1 /\ \A r \in Rows : r # row => out'[r] = out[r]
  <2>1. out \in [Rows -> {0, 1}]
    BY DEF RowsInv, RowsTypeOK
  <2>2. out' = [out EXCEPT ![row] = 1]
    BY <1>3
  <2> QED BY <2>1, <2>2
<1>5. inline' \in Job /\ inline'.from = row /\ inline'.to = inline.to
  <2>1. inline \in Job
    BY DEF RowsInv, RowsTypeOK
  <2> QED BY <1>0, <1>1, <1>3, <2>1 DEF Job
<1>6. Rows' = Rows /\ jobs' = jobs /\ call' = call
  BY <1>0 DEF Rows
<1>7. RowsTypeOK'
  BY <1>4, <1>5, <1>6 DEF RowsInv, RowsTypeOK
<1>8. SharesInv'
  BY <1>0, <1>1, <1>2, <1>3, <1>5, <1>6 DEF RowsInv, SharesInv
<1>9. WrittenInv'
  <2>1. \A r \in Rows : r # row => (Waits(inline', r) <=> Waits(inline, r))
    BY <1>1, <1>3, <1>5 DEF Waits
  <2>2. ~ Waits(inline', row) /\ \A u \in DOMAIN jobs : ~ Waits(jobs[u], row)
    BY <1>1, <1>2, <1>3, <1>5 DEF Waits
  <2>3. \A r \in Rows : ~ Unassigned(r) /\ ~ Unassigned(r)'
    BY <1>0 DEF Unassigned
  <2>4. ASSUME NEW r \in Rows
        PROVE  out'[r] = 0 <=> Waits(inline', r) \/ \E u \in DOMAIN jobs : Waits(jobs[u], r)
    <3>1. CASE r = row
      BY <1>4, <2>2, <3>1
    <3>2. CASE r # row
      <4>1. out[r] = 0 <=> Waits(inline, r) \/ Unassigned(r) \/ \E u \in DOMAIN jobs : Waits(jobs[u], r)
        BY DEF RowsInv, WrittenInv
      <4> QED BY <1>4, <2>1, <2>3, <3>2, <4>1
    <3> QED BY <3>1, <3>2
  <2>5. \A r \in Rows : Waits(inline, r)' <=> Waits(inline', r)
    BY DEF Waits
  <2>6. \A r \in Rows, u \in DOMAIN jobs : Waits(jobs[u], r)' <=> Waits(jobs[u], r)
    BY <1>6 DEF Waits
  <2> QED BY <1>6, <2>3, <2>4, <2>5, <2>6 DEF WrittenInv
<1>10. PhaseInv'
  BY <1>0 DEF PhaseInv
<1> QED BY <1>7, <1>8, <1>9, <1>10 DEF RowsInv

\* The caller returns when nobody has a row left.
LEMMA ReturnKeeps == RowsInv /\ (AllJoined \/ Returned) => RowsInv'
<1>1. ASSUME RowsInv, AllJoined PROVE RowsInv'
  <2>1. /\ call.phase = "join" /\ inline.from = inline.to /\ UNCHANGED <<jobs, inline, out>>
        /\ \A t \in DOMAIN jobs : jobs[t].from = jobs[t].to /\ call' = [call EXCEPT !.phase = "done"]
    BY <1>1 DEF AllJoined
  <2>2. call \in [phase : {"idle", "launch", "join", "done"}, m : Nat, nt : Int, t : Nat]
    BY <1>1 DEF RowsInv, RowsTypeOK
  <2>3. /\ call' \in [phase : {"idle", "launch", "join", "done"}, m : Nat, nt : Int, t : Nat]
        /\ call'.phase = "done" /\ call'.m = call.m
    BY <1>1, <2>2 DEF AllJoined
  <2>4. Rows' = Rows
    BY <2>3 DEF Rows
  <2>5. RowsTypeOK' /\ SharesInv' /\ PhaseInv'
    BY <1>1, <2>1, <2>3, <2>4 DEF RowsInv, RowsTypeOK, SharesInv, PhaseInv
  <2>6. WrittenInv'
    BY <1>1, <2>1, <2>3, <2>4 DEF RowsInv, WrittenInv, Unassigned
  <2> QED BY <2>5, <2>6 DEF RowsInv
<1>2. ASSUME RowsInv, Returned PROVE RowsInv'
  <2>1. /\ call' = [phase |-> "idle", m |-> 0, nt |-> 0, t |-> 0] /\ jobs' = <<>> /\ out' = <<>>
        /\ inline' = inline /\ inline.from = inline.to /\ inline \in Job
    BY <1>2 DEF Returned, Idle, RowsInv, PhaseInv, RowsTypeOK
  <2>2. Rows' = {}
    BY <2>1 DEF Rows
  <2>3. out' \in [Rows' -> {0, 1}] /\ jobs' \in Seq(Job)
    BY <2>1, <2>2
  <2>4. call' \in [phase : {"idle", "launch", "join", "done"}, m : Nat, nt : Int, t : Nat] /\ call'.phase = "idle"
    BY <2>1
  <2>5. RowsTypeOK'
    BY <2>1, <2>3, <2>4 DEF RowsTypeOK
  <2>6. SharesInv' /\ PhaseInv'
    <3>1. inline.from \in Nat /\ inline.to \in Nat
      BY <2>1 DEF Job
    <3> QED BY <2>1, <2>4, <3>1 DEF SharesInv, PhaseInv
  <2>7. WrittenInv'
    BY <2>2 DEF WrittenInv
  <2> QED BY <2>5, <2>6, <2>7 DEF RowsInv
<1> QED BY <1>1, <1>2

-----------------------------------------------------------------------------
(* The theorems. *)

\* The rows, shares and writes of nt_qmatvec agree in every state, for any number of rows,
\* processors and threads and whichever thread cannot be created.
THEOREM RowsInvariant == QuantSpec => []RowsInv
<1>1. RowsInv /\ UNCHANGED quantVars => RowsInv'
  BY DEF RowsInv, RowsTypeOK, SharesInv, WrittenInv, PhaseInv, quantVars, Rows, Waits, Unassigned, Frontier, Per
<1>2. RowsInv /\ [QuantNext]_quantVars => RowsInv'
  BY <1>1, BeginsKeeps, ThreadCreatedKeeps, CreateFailsKeeps, AllLaunchedKeeps, WorkerKeeps, InlineKeeps, ReturnKeeps
  DEF QuantNext
<1> QED BY RowsStart, <1>2, PTL DEF QuantSpec

\* Every row of a packed product has one writer, and all are written when nt_qmatvec returns.
THEOREM EveryRowOnce == QuantSpec => []RowsAreWrittenOnce
<1> QED BY OneWriter, RowsInvariant, PTL

-----------------------------------------------------------------------------
(* Unpacking. *)

\* What fits the word after a division fits it before, and is not cut off.
LEMMA WordsHold ==
  ASSUME NEW w \in Nat, NEW per \in Nat \ {0}, NEW b \in Nat, ~ (b > w \div per)
  PROVE  b * per \in Nat /\ b * per <= w /\ (b * per) % (w + 1) = b * per
<1>1. PICK q \in Nat : q = w \div per
  BY SMT
<1>2. per * q <= w
  <2>1. w = per * q + (w % per) /\ w % per \in 0..(per - 1)
    BY <1>1, Z3
  <2> QED BY <2>1
<1>3. b * per \in Nat
  BY SMT
<1>4. b * per <= per * q
  BY <1>1, SMT
<1>5. per * q \in Nat
  BY SMT
<1>6. b * per <= w
  BY <1>2, <1>3, <1>4, <1>5
<1>7. \A x \in 0..w : x % (w + 1) = x
  BY SMT
<1> QED BY <1>3, <1>6, <1>7

\* The blocks of n elements are no more than n, and n when they divide it.
LEMMA BlocksFit ==
  ASSUME NEW n \in Nat, NEW s \in Nat \ {0}
  PROVE  /\ n \div s \in Nat /\ (n \div s) * s \in Nat /\ (n \div s) * s <= n
         /\ n % s = 0 => (n \div s) * s = n
<1>1. PICK q \in Nat : q = n \div s
  BY SMT
<1>2. n = s * q + (n % s) /\ n % s \in 0..(s - 1)
  BY <1>1, Z3
<1>3. q * s \in Nat /\ q * s = s * q
  BY SMT
<1> QED BY <1>1, <1>2, <1>3

\* A block of each format has elements and bytes.
LEMMA FormatsAreSized ==
  ASSUME NEW d \in DOMAIN nt_qrows_for
  PROVE  nt_qrows_for[d].size \in Nat \ {0} /\ nt_qrows_for[d].bytes \in Nat \ {0}
<1>1. DOMAIN nt_qrows_for = {"F32", "F16", "Q4_0", "Q5_0", "Q8_0", "Q4_K", "Q6_K"}
  BY DEF nt_qrows_for
<1>2. \A e \in {"F32", "F16", "Q4_0", "Q5_0", "Q8_0", "Q4_K", "Q6_K"} :
        nt_qrows_for[e].size \in Nat \ {0} /\ nt_qrows_for[e].bytes \in Nat \ {0}
  BY DEF nt_qrows_for, Format
<1> QED BY <1>1, <1>2

\* No tensor is unpacked from behind the data, however many elements it is said to have and
\* wherever it is said to begin, and one of whole blocks is unpacked whole (gguf_dequant).
THEOREM UnpackingStaysInside ==
  ASSUME NEW d \in Dtypes, NEW n \in Nat, NEW offset \in Nat, NEW size \in Nat,
         gguf_dequant(d, n, offset, size).found
  PROVE  /\ gguf_dequant(d, n, offset, size).read <= size
         /\ gguf_dequant(d, n, offset, size).filled <= n
         /\ n % nt_qrows_for[d].size = 0 => gguf_dequant(d, n, offset, size).filled = n
<1> DEFINE t == gguf_dequant(d, n, offset, size)
           nbytes == gguf_dtype_nbytes(d, n)
<1>1. ~ (nbytes = 0 \/ offset >= size \/ nbytes > size - offset)
  BY DEF gguf_dequant
<1>2. d \in DOMAIN nt_qrows_for
  BY <1>1 DEF gguf_dtype_nbytes
<1>3. PICK per \in Nat \ {0}, s \in Nat \ {0} : per = nt_qrows_for[d].bytes /\ s = nt_qrows_for[d].size
  BY <1>2, FormatsAreSized
<1>4. PICK b \in Nat : b = n \div s
  BY <1>3, BlocksFit
<1>5. nbytes = IF b > WordMax \div per THEN 0 ELSE (b * per) % (WordMax + 1)
  BY <1>2, <1>3, <1>4 DEF gguf_dtype_nbytes
<1>6. nbytes = b * per /\ b * per \in Nat
  BY <1>1, <1>5, WordsHold, QuantLimits
<1>7. t = [found |-> TRUE, read |-> offset + b * per, filled |-> b * s]
  BY <1>1, <1>3, <1>4 DEF gguf_dequant
<1>8. t.read = offset + b * per /\ t.filled = b * s
  BY <1>7
<1>9. b * s \in Nat /\ b * s <= n /\ (n % s = 0 => b * s = n)
  BY <1>4, BlocksFit
<1>10. t.read <= size
  <2> HIDE DEF t, nbytes
  <2> QED BY <1>1, <1>6, <1>8
<1> QED BY <1>3, <1>8, <1>9, <1>10

-----------------------------------------------------------------------------
(* Places in arrays that are numbered row by row. *)

\* A place is its row times the width, and its column.
LEMMA RowAndColumn ==
  ASSUME NEW b \in Nat, b >= 1, NEW a \in Nat, NEW r \in 0..(b - 1), NEW e, e = a * b + r
  PROVE  e \in Nat /\ e \div b = a /\ e % b = r
<1>1. a * b \in Nat
  OBVIOUS
<1>2. e \in Nat
  BY <1>1
<1>3. PICK q, m : q = e \div b /\ m = e % b
  OBVIOUS
<1>4. q \in Int /\ m \in 0..(b - 1) /\ e = b * q + m
  BY <1>2, <1>3
<1>5. q = a
  <2>1. CASE q < a
    <3>1. b * q + b <= b * a
      <4>1. PICK d \in Nat : a = q + 1 + d
        <5>1. a - q - 1 \in Nat /\ a = q + 1 + (a - q - 1)
          BY <1>4, <2>1
        <5> QED BY <5>1
      <4>2. b * d \in Nat /\ q \in Int
        BY <1>4, <4>1
      <4>3. b * (q + 1 + d) = b * q + b + b * d
        BY ONLY <4>1, <4>2, b \in Nat
      <4> QED BY <4>1, <4>2, <4>3
    <3> QED BY <1>4, <3>1
  <2>2. CASE q > a
    <3>1. b * a + b <= b * q
      <4>1. PICK d \in Nat : q = a + 1 + d
        <5>1. q - a - 1 \in Nat /\ q = a + 1 + (q - a - 1)
          BY <1>4, <2>2
        <5> QED BY <5>1
      <4>2. b * q = b * a + b + b * d /\ b * d >= 0
        BY <4>1
      <4> QED BY <4>2
    <3> QED BY <1>4, <3>1
  <2> QED BY <1>4, <2>1, <2>2
<1> QED BY <1>2, <1>3, <1>4, <1>5

\* A place below a times b is in one of a rows.
LEMMA PlaceInRow ==
  ASSUME NEW a \in Nat, NEW b \in Nat, b >= 1, NEW e \in Nat, e < a * b
  PROVE  e \div b \in 0..(a - 1) /\ e % b \in 0..(b - 1) /\ e = (e \div b) * b + (e % b)
<1>1. PICK q, m : q = e \div b /\ m = e % b
  OBVIOUS
<1>2. q \in Int /\ m \in 0..(b - 1) /\ e = b * q + m
  BY <1>1
<1>3. q >= 0
  BY <1>1
<1>4. q < a
  BY <1>2
<1> QED BY <1>1, <1>2, <1>3, <1>4

\* A row below a and a column below b are a place below a times b.
LEMMA PlaceBelow ==
  ASSUME NEW a \in Nat, NEW b \in Nat, NEW i \in 0..(a - 1), NEW j \in 0..(b - 1)
  PROVE  i * b + j \in 0..(a * b - 1)
<1>1. PICK d \in Nat : a = i + 1 + d
  <2>1. a - i - 1 \in Nat /\ a = i + 1 + (a - i - 1)
    OBVIOUS
  <2> QED BY <2>1
<1>2. a * b = i * b + b + d * b /\ d * b >= 0 /\ i * b >= 0 /\ i * b \in Int /\ a * b \in Int
  BY <1>1
<1> QED BY <1>2

-----------------------------------------------------------------------------
(* Upsampling and attention. *)

\* e is a place of C images h high and w wide, s times as large: element x of row y of image c.
CopyAt(C, h, w, s, c, y, x, e) ==
  /\ e \in 0..(C * (h * s) * (w * s) - 1)
  /\ ((e \div (w * s)) % (h * s)) \div s = y
  /\ e \div ((h * s) * (w * s)) = c
  /\ (e % (w * s)) \div s = x

\* The place of a copy of an element tells the channel, the row and the column it is of.
LEMMA PlaceOfACopy ==
  ASSUME NEW C \in Nat, NEW h \in Nat, NEW w \in Nat, NEW s \in Nat, h >= 1, w >= 1, s >= 1,
         NEW c \in 0..(C - 1), NEW y \in 0..(h - 1), NEW x \in 0..(w - 1), NEW i \in 0..(s - 1), NEW j \in 0..(s - 1),
         NEW e, e = (c * h * s + y * s + i) * w * s + x * s + j
  PROVE  CopyAt(C, h, w, s, c, y, x, e)
<1>1. PICK H, W, r, q : H = h * s /\ W = w * s /\ r = y * s + i /\ q = x * s + j
  OBVIOUS
<1>2. H \in Nat /\ W \in Nat /\ H >= 1 /\ W >= 1
  BY <1>1
<1>3. r \in 0..(H - 1)
  BY <1>1, PlaceBelow
<1>4. q \in 0..(W - 1)
  BY <1>1, PlaceBelow
<1>5. PICK R, P, A : R = c * H + r /\ P = r * W + q /\ A = H * W
  OBVIOUS
<1>6. P \in 0..(A - 1) /\ R \in 0..(C * H - 1) /\ A \in Nat /\ R \in Nat /\ C * H \in Nat
  BY <1>2, <1>3, <1>4, <1>5, PlaceBelow
<1>7. e = R * W + q
  <2>1. c * H \in Nat /\ c * h * s = c * H
    BY <1>1, <1>2
  <2>2. c * h * s + y * s + i = R /\ c * h * s + y * s + i \in Nat
    BY <2>1, <1>1, <1>3, <1>5
  <2>3. R * w * s = R * W
    BY <1>1, <1>6
  <2>4. (c * h * s + y * s + i) * w * s = R * w * s
    BY <2>2
  <2>5. R * W \in Nat /\ x * s \in Nat
    BY <1>2, <1>6
  <2> QED BY <2>3, <2>4, <2>5, <1>1
<1>8. e \div W = R /\ e % W = q
  BY ONLY <1>2, <1>4, <1>6, <1>7, RowAndColumn
<1>9. R % H = r
  <2>1. c \in Nat /\ H >= 1
    BY <1>2
  <2> QED BY <2>1, <1>2, <1>3, <1>5, RowAndColumn, Zenon
<1>10. e = c * A + P
  <2>1. R * W = (c * H) * W + r * W
    BY <1>2, <1>3, <1>5
  <2>2. (c * H) * W = c * A
    BY <1>2, <1>5
  <2>3. c * A \in Int /\ r * W \in Int
    BY <1>2, <1>3, <1>6
  <2>4. r * W \in Int /\ R * W \in Int /\ q \in Int
    BY <1>2, <1>4, <1>6, <2>3
  <2>5. R * W + q = (c * A + r * W) + q
    BY ONLY <2>1, <2>2, <2>3, <2>4
  <2> QED BY <1>5, <1>7, <2>3, <2>4, <2>5
<1>11. e \div A = c
  <2>1. A >= 1 /\ c \in Nat
    BY <1>6
  <2> QED BY <2>1, <1>6, <1>10, RowAndColumn, Zenon
<1>12. r \div s = y /\ q \div s = x
  BY <1>1, RowAndColumn
<1>13. e \in 0..(C * H * W - 1)
  <2>1. R * W + q \in 0..((C * H) * W - 1)
    BY ONLY <1>2, <1>4, <1>6, PlaceBelow
  <2> QED BY <1>7, <2>1
<1> QED
  <2>1. e \in 0..(C * (h * s) * (w * s) - 1)
    BY <1>13, <1>1
  <2>2. ((e \div (w * s)) % (h * s)) \div s = y
    BY <1>1, <1>8, <1>9, <1>12
  <2>3. e \div ((h * s) * (w * s)) = c
    BY <1>1, <1>5, <1>11
  <2>4. (e % (w * s)) \div s = x
    BY <1>1, <1>8, <1>12
  <2> QED BY <2>1, <2>2, <2>3, <2>4 DEF CopyAt

\* The sizes of a convolution.
LEMMA GeometryNumbers ==
  ASSUME NEW g \in Geometries
  PROVE  /\ g.c \in Nat /\ g.c >= 1 /\ g.out \in Nat /\ g.out >= 1 /\ g.h \in Nat /\ g.h >= 1 /\ g.w \in Nat /\ g.w >= 1
         /\ g.kh \in Nat /\ g.kh >= 1 /\ g.kw \in Nat /\ g.kw >= 1 /\ g.stride \in Nat /\ g.stride >= 1 /\ g.pad \in Nat
BY ImageLimits

\* Upsampling copies each element to its square (notorch.c, nt_upsample_nearest).
LEMMA UpsamplesWhole ==
  ASSUME NEW g \in Geometries
  PROVE  UpsampledWhole(g, g.stride, nt_upsample_nearest(g, g.stride))
<1>1. PICK C, h, w, s : C = g.c /\ h = g.h /\ w = g.w /\ s = g.stride
  OBVIOUS
<1>2. C \in Nat /\ h \in Nat /\ h >= 1 /\ w \in Nat /\ w >= 1 /\ s \in Nat /\ s >= 1
  BY <1>1, GeometryNumbers
<1>3. PICK copied : copied = nt_upsample_nearest(g, g.stride)
  OBVIOUS
<1>4. copied = [e \in 0..(C * (h * s) * (w * s) - 1) |->
               (e \div ((h * s) * (w * s))) * h * w + (((e \div (w * s)) % (h * s)) \div s) * w + (e % (w * s)) \div s]
  BY <1>1, <1>3 DEF nt_upsample_nearest, Below
<1>5. DOMAIN copied = 0..(C * h * s * w * s - 1)
  <2>1. C * (h * s) * (w * s) = C * h * s * w * s
    BY <1>2
  <2> QED BY <1>4, <2>1
<1>6. ASSUME NEW c \in 0..(C - 1), NEW y \in 0..(h - 1), NEW x \in 0..(w - 1), NEW i \in 0..(s - 1), NEW j \in 0..(s - 1)
      PROVE  copied[(c * h * s + y * s + i) * w * s + x * s + j] = (c * h + y) * w + x
  <2>1. PICK e : e = (c * h * s + y * s + i) * w * s + x * s + j
    OBVIOUS
  <2>2. CopyAt(C, h, w, s, c, y, x, e)
    BY ONLY <1>2, <1>6, <2>1, PlaceOfACopy
  <2>3. copied[e] = c * h * w + y * w + x
    BY ONLY <1>4, <2>2 DEF CopyAt
  <2>4. c * h * w + y * w + x = (c * h + y) * w + x
    BY <1>2
  <2> QED BY <2>1, <2>3, <2>4
<1> QED BY <1>1, <1>3, <1>5, <1>6 DEF UpsampledWhole, Below

\* Attention scores each query with every key and weighs its value (notorch.c, nt_attention).
LEMMA AttendsWhole ==
  ASSUME NEW a \in Attentions, a.t > 0, a.s > 0, a.d > 0
  PROVE  AttendedWhole(a, nt_attention(a))
<1>1. PICK T, S, D : T = a.t /\ S = a.s /\ D = a.d
  OBVIOUS
<1>2. T \in Nat /\ S \in Nat /\ D \in Nat /\ T >= 1 /\ S >= 1 /\ D >= 1
  BY <1>1, ImageLimits
<1>3. PICK scores, product : scores = nt_blas_mmT(T, D, S) /\ product = nt_blas_mm(T, S, D)
  OBVIOUS
<1>4. nt_attention(a) = [e \in Below(T * D) |-> {<<scores[m[1]], m[2]>> : m \in product[e]}]
  BY <1>1, <1>3 DEF nt_attention
<1>5. ASSUME NEW t \in 0..(T - 1), NEW j \in 0..(D - 1)
      PROVE  nt_attention(a)[t * D + j] = {<<{<<t * D + p, s * D + p>> : p \in Below(D)}, s * D + j>> : s \in Below(S)}
  <2>1. PICK e : e = t * D + j
    OBVIOUS
  <2>2. e \in 0..(T * D - 1)
    BY ONLY <1>2, <1>5, <2>1, PlaceBelow
  <2>3. e \div D = t /\ e % D = j
    BY ONLY <1>2, <1>5, <2>1, RowAndColumn
  <2>4. product[e] = {<<t * S + p, p * D + j>> : p \in Below(S)}
    BY <1>3, <2>2, <2>3 DEF nt_blas_mm, Below
  <2>5. ASSUME NEW s \in Below(S)
        PROVE  scores[t * S + s] = {<<t * D + p, s * D + p>> : p \in Below(D)}
    <3>1. PICK f : f = t * S + s
      OBVIOUS
    <3>2. s \in 0..(S - 1)
      BY DEF Below
    <3>3. f \in 0..(T * S - 1)
      BY ONLY <1>2, <1>5, <3>1, <3>2, PlaceBelow
    <3>4. f \div S = t /\ f % S = s
      <4>1. t \in Nat
        OBVIOUS
      <4> QED BY <4>1, <1>2, <3>1, <3>2, RowAndColumn, Zenon
    <3>5. scores[f] = {<<(f \div S) * D + p, (f % S) * D + p>> : p \in Below(D)}
      BY <1>3, <3>3 DEF nt_blas_mmT, Below
    <3> QED BY <3>1, <3>4, <3>5
  <2>6. nt_attention(a)[e] = {<<scores[m[1]], m[2]>> : m \in product[e]}
    BY <1>4, <2>2 DEF Below
  <2>7. {<<scores[m[1]], m[2]>> : m \in product[e]} = {<<scores[t * S + s], s * D + j>> : s \in Below(S)}
    <3> DEFINE Pair(p) == <<t * S + p, p * D + j>>
    <3>1. product[e] = {Pair(p) : p \in Below(S)}
      BY <2>4
    <3>2. \A p \in Below(S) : Pair(p)[1] = t * S + p /\ Pair(p)[2] = p * D + j
      OBVIOUS
    <3> HIDE DEF Pair
    <3>3. {<<scores[m[1]], m[2]>> : m \in product[e]} = {<<scores[Pair(p)[1]], Pair(p)[2]>> : p \in Below(S)}
      BY ONLY <3>1
    <3> QED BY ONLY <3>2, <3>3
  <2>8. {<<scores[t * S + s], s * D + j>> : s \in Below(S)} =
        {<<{<<t * D + p, s * D + p>> : p \in Below(D)}, s * D + j>> : s \in Below(S)}
    BY ONLY <2>5
  <2> QED BY ONLY <2>1, <2>6, <2>7, <2>8
<1> QED BY <1>1, <1>5 DEF AttendedWhole, Below

-----------------------------------------------------------------------------
(* Convolution. *)

\* What a place among the columns tells of the tap that is written there.
TapAt(C, kh, kw, Ho, Wo, c, i, j, y, x, e) ==
  /\ e \in 0..((C * kh * kw) * (Ho * Wo) - 1)
  /\ ((e \div (Ho * Wo)) \div kw) \div kh = c
  /\ ((e \div (Ho * Wo)) \div kw) % kh = i
  /\ (e \div (Ho * Wo)) % kw = j
  /\ (e % (Ho * Wo)) \div Wo = y
  /\ (e % (Ho * Wo)) % Wo = x

\* A place tells its tap.
LEMMA PlaceOfATap ==
  ASSUME NEW C \in Nat, NEW kh \in Nat, NEW kw \in Nat, NEW Ho \in Nat, NEW Wo \in Nat,
         kh >= 1, kw >= 1, Ho >= 1, Wo >= 1,
         NEW c \in 0..(C - 1), NEW i \in 0..(kh - 1), NEW j \in 0..(kw - 1), NEW y \in 0..(Ho - 1), NEW x \in 0..(Wo - 1),
         NEW e, e = ((c * kh + i) * kw + j) * (Ho * Wo) + y * Wo + x
  PROVE  TapAt(C, kh, kw, Ho, Wo, c, i, j, y, x, e)
<1>1. PICK N, r, p, q, R : N = Ho * Wo /\ r = c * kh + i /\ p = r * kw + j /\ q = y * Wo + x /\ R = C * kh
  OBVIOUS
<1>2. N \in Nat /\ N >= 1 /\ R \in Nat /\ R * kw \in Nat
  BY <1>1
<1>3. q \in 0..(N - 1)
  BY <1>1, PlaceBelow
<1>4. r \in 0..(R - 1) /\ r \in Nat
  BY <1>1, PlaceBelow
<1>5. p \in 0..(R * kw - 1) /\ p \in Nat
  BY <1>1, <1>2, <1>4, PlaceBelow
<1>6. e = p * N + q
  <2>1. p * N \in Nat /\ y * Wo \in Nat
    BY <1>2, <1>5
  <2>2. e = p * N + y * Wo + x
    BY <1>1
  <2> QED BY <2>1, <2>2, <1>1
<1>7. e \div N = p /\ e % N = q
  BY <1>2, <1>3, <1>5, <1>6, RowAndColumn, Zenon
<1>8. p \div kw = r /\ p % kw = j
  BY <1>1, <1>4, RowAndColumn, Zenon
<1>9. r \div kh = c /\ r % kh = i
  <2>1. c \in Nat
    OBVIOUS
  <2> QED BY <1>1, <2>1, RowAndColumn, Zenon
<1>10. q \div Wo = y /\ q % Wo = x
  <2>1. y \in Nat
    OBVIOUS
  <2> QED BY <1>1, <2>1, RowAndColumn, Zenon
<1>11. e \in 0..((C * kh * kw) * (Ho * Wo) - 1)
  <2>1. p * N + q \in 0..((R * kw) * N - 1)
    BY <1>2, <1>3, <1>5, PlaceBelow, Zenon
  <2> QED BY <2>1, <1>1, <1>6
<1> QED BY <1>1, <1>7, <1>8, <1>9, <1>10, <1>11 DEF TapAt

\* Row p of the columns is of a tap.
IsATap(C, kh, kw, p) ==
  \E c \in 0..(C - 1), i \in 0..(kh - 1), j \in 0..(kw - 1) : p = (c * kh + i) * kw + j

\* Every row of the columns is of a tap.
LEMMA RowIsATap ==
  ASSUME NEW C \in Nat, NEW kh \in Nat, NEW kw \in Nat, kh >= 1, kw >= 1, NEW p \in 0..(C * kh * kw - 1)
  PROVE  IsATap(C, kh, kw, p)
<1>1. PICK R : R = C * kh
  OBVIOUS
<1>2. R \in Nat /\ p \in Nat /\ p < R * kw
  BY <1>1
<1>3. p \div kw \in 0..(R - 1) /\ p % kw \in 0..(kw - 1) /\ p = (p \div kw) * kw + (p % kw)
  BY <1>2, PlaceInRow, Zenon
<1>4. PICK r, j : r = p \div kw /\ j = p % kw
  OBVIOUS
<1>5. r \in 0..(R - 1) /\ j \in 0..(kw - 1) /\ p = r * kw + j
  BY ONLY <1>3, <1>4
<1>6. r \in Nat /\ r < C * kh
  BY <1>1, <1>2, <1>5
<1>7. r \div kh \in 0..(C - 1) /\ r % kh \in 0..(kh - 1) /\ r = (r \div kh) * kh + (r % kh)
  BY <1>6, PlaceInRow, Zenon
<1> QED BY ONLY <1>5, <1>7 DEF IsATap

\* Place e among the columns is of a tap and of an element of the output.
IsAPlace(C, kh, kw, Ho, Wo, e) ==
  \E c \in 0..(C - 1), i \in 0..(kh - 1), j \in 0..(kw - 1), y \in 0..(Ho - 1), x \in 0..(Wo - 1) :
    e = ((c * kh + i) * kw + j) * (Ho * Wo) + y * Wo + x

\* Every place among the columns is of a tap and of an element of the output.
LEMMA PlaceIsATap ==
  ASSUME NEW C \in Nat, NEW kh \in Nat, NEW kw \in Nat, NEW Ho \in Nat, NEW Wo \in Nat,
         kh >= 1, kw >= 1, Ho >= 1, Wo >= 1, NEW e \in 0..((C * kh * kw) * (Ho * Wo) - 1)
  PROVE  IsAPlace(C, kh, kw, Ho, Wo, e)
<1>1. PICK N, K : N = Ho * Wo /\ K = C * kh * kw
  OBVIOUS
<1>2. N \in Nat /\ N >= 1 /\ C * kh \in Nat
  BY <1>1
<1>3. K \in Nat
  BY <1>1, <1>2
<1>4. e \in Nat /\ e < K * N
  BY <1>1, <1>2, <1>3
<1>5. e \div N \in 0..(K - 1) /\ e % N \in 0..(N - 1) /\ e = (e \div N) * N + (e % N)
  BY <1>2, <1>3, <1>4, PlaceInRow, Zenon
<1>6. PICK p, q : p = e \div N /\ q = e % N
  OBVIOUS
<1>7. p \in 0..(K - 1) /\ q \in 0..(N - 1) /\ e = p * N + q
  BY ONLY <1>5, <1>6
<1>8. PICK c \in 0..(C - 1), i \in 0..(kh - 1), j \in 0..(kw - 1) : p = (c * kh + i) * kw + j
  <2>1. p \in 0..(C * kh * kw - 1)
    BY <1>1, <1>7
  <2>2. IsATap(C, kh, kw, p)
    BY ONLY <2>1, C \in Nat, kh \in Nat, kw \in Nat, kh >= 1, kw >= 1, RowIsATap
  <2> QED BY ONLY <2>2 DEF IsATap
<1>9. q \in Nat /\ q < Ho * Wo
  BY <1>1, <1>2, <1>7
<1>10. q \div Wo \in 0..(Ho - 1) /\ q % Wo \in 0..(Wo - 1) /\ q = (q \div Wo) * Wo + (q % Wo)
  BY <1>9, PlaceInRow, Zenon
<1>11. PICK y \in 0..(Ho - 1), x \in 0..(Wo - 1) : q = y * Wo + x
  BY ONLY <1>10
<1>12. e = ((c * kh + i) * kw + j) * N + y * Wo + x
  <2>1. p * N \in Int /\ y * Wo \in Int
    BY <1>2, <1>3, <1>7
  <2>2. e = p * N + (y * Wo + x)
    BY <1>7, <1>11
  <2>3. e = p * N + y * Wo + x
    BY <2>1, <2>2
  <2> QED BY ONLY <2>3, <1>8
<1> QED BY <1>1, <1>12 DEF IsAPlace

\* Where the tap c, i, j of the element y, x of the output is, among the columns and in the image.
PlaceIn(g, c, i, j, y, x) == ((c * g.kh + i) * g.kw + j) * (Hout(g) * Wout(g)) + y * Wout(g) + x
ElementOf(g, c, i, j, y, x) ==
  IF y * g.stride - g.pad + i \in Below(g.h) /\ x * g.stride - g.pad + j \in Below(g.w)
  THEN (c * g.h + (y * g.stride - g.pad + i)) * g.w + (x * g.stride - g.pad + j) ELSE Padding

\* The sides of the output are numbers.
LEMMA SidesAreNumbers ==
  ASSUME NEW g \in Geometries
  PROVE  Hout(g) \in Int /\ Wout(g) \in Int
<1>1. ASSUME NEW a \in Int, NEW b \in Nat, b >= 1
      PROVE  Quotient(a, b) \in Int
  BY <1>1 DEF Quotient
<1>2. g.h + 2 * g.pad - g.kh \in Int /\ g.w + 2 * g.pad - g.kw \in Int /\ g.stride \in Nat /\ g.stride >= 1
  BY GeometryNumbers
<1>3. Quotient(g.h + 2 * g.pad - g.kh, g.stride) \in Int /\ Quotient(g.w + 2 * g.pad - g.kw, g.stride) \in Int
  BY ONLY <1>1, <1>2
<1> QED BY <1>3 DEF Hout, Wout, OutSide

\* The columns are written once for each tap of each element of the output.
LEMMA ColumnsWritten ==
  ASSUME NEW g \in Geometries
  PROVE  nt_im2col(g) = {<<PlaceIn(g, c, i, j, y, x), ElementOf(g, c, i, j, y, x)>> :
                           c \in Below(g.c), i \in Below(g.kh), j \in Below(g.kw), y \in Below(Hout(g)), x \in Below(Wout(g))}
BY DEF nt_im2col, PlaceIn, ElementOf

\* Two writes to one place are one.
LEMMA PlacesAreApart ==
  ASSUME NEW g \in Geometries, Hout(g) > 0, Wout(g) > 0,
         NEW c \in Below(g.c), NEW i \in Below(g.kh), NEW j \in Below(g.kw), NEW y \in Below(Hout(g)), NEW x \in Below(Wout(g))
  PROVE  TapAt(g.c, g.kh, g.kw, Hout(g), Wout(g), c, i, j, y, x, PlaceIn(g, c, i, j, y, x))
<1>1. PICK C, kh, kw, Ho, Wo : C = g.c /\ kh = g.kh /\ kw = g.kw /\ Ho = Hout(g) /\ Wo = Wout(g)
  OBVIOUS
<1>2. C \in Nat /\ kh \in Nat /\ kw \in Nat /\ Ho \in Nat /\ Wo \in Nat /\ kh >= 1 /\ kw >= 1 /\ Ho >= 1 /\ Wo >= 1
  BY <1>1, GeometryNumbers, SidesAreNumbers
<1>3. c \in 0..(C - 1) /\ i \in 0..(kh - 1) /\ j \in 0..(kw - 1) /\ y \in 0..(Ho - 1) /\ x \in 0..(Wo - 1)
  BY <1>1 DEF Below
<1>4. PICK e : e = ((c * kh + i) * kw + j) * (Ho * Wo) + y * Wo + x
  OBVIOUS
<1>5. TapAt(C, kh, kw, Ho, Wo, c, i, j, y, x, e)
  BY ONLY <1>2, <1>3, <1>4, PlaceOfATap
<1> QED BY <1>1, <1>4, <1>5 DEF PlaceIn

\* What is written at a place of the columns.
Column(g, place) == {w[2] : w \in {v \in nt_im2col(g) : v[1] = place}}

\* A place of the columns holds the element of its tap.
LEMMA ColumnHoldsItsTap ==
  ASSUME NEW g \in Geometries, Hout(g) > 0, Wout(g) > 0,
         NEW c \in Below(g.c), NEW i \in Below(g.kh), NEW j \in Below(g.kw), NEW y \in Below(Hout(g)), NEW x \in Below(Wout(g))
  PROVE  Column(g, PlaceIn(g, c, i, j, y, x)) = {ElementOf(g, c, i, j, y, x)}
<1>1. ASSUME NEW c2 \in Below(g.c), NEW i2 \in Below(g.kh), NEW j2 \in Below(g.kw), NEW y2 \in Below(Hout(g)), NEW x2 \in Below(Wout(g)),
             PlaceIn(g, c2, i2, j2, y2, x2) = PlaceIn(g, c, i, j, y, x)
      PROVE  ElementOf(g, c2, i2, j2, y2, x2) = ElementOf(g, c, i, j, y, x)
  <2>1. PICK e : e = PlaceIn(g, c, i, j, y, x)
    OBVIOUS
  <2>2. TapAt(g.c, g.kh, g.kw, Hout(g), Wout(g), c, i, j, y, x, e)
    BY <2>1, PlacesAreApart
  <2>3. TapAt(g.c, g.kh, g.kw, Hout(g), Wout(g), c2, i2, j2, y2, x2, e)
    BY <1>1, <2>1, PlacesAreApart
  <2>4. c = c2 /\ i = i2 /\ j = j2 /\ y = y2 /\ x = x2
    BY ONLY <2>2, <2>3, Zenon DEF TapAt
  <2> QED BY ONLY <2>4
<1> DEFINE P(c2, i2, j2, y2, x2) == PlaceIn(g, c2, i2, j2, y2, x2)
<1> DEFINE E(c2, i2, j2, y2, x2) == ElementOf(g, c2, i2, j2, y2, x2)
<1>2. nt_im2col(g) = {<<P(c2, i2, j2, y2, x2), E(c2, i2, j2, y2, x2)>> :
        c2 \in Below(g.c), i2 \in Below(g.kh), j2 \in Below(g.kw), y2 \in Below(Hout(g)), x2 \in Below(Wout(g))}
  BY ColumnsWritten
<1>3. \A c2 \in Below(g.c), i2 \in Below(g.kh), j2 \in Below(g.kw), y2 \in Below(Hout(g)), x2 \in Below(Wout(g)) :
        P(c2, i2, j2, y2, x2) = P(c, i, j, y, x) => E(c2, i2, j2, y2, x2) = E(c, i, j, y, x)
  BY <1>1
<1> HIDE DEF P, E
<1>4. ASSUME NEW w \in nt_im2col(g), w[1] = P(c, i, j, y, x)
      PROVE  w[2] = E(c, i, j, y, x)
  <2>1. PICK c2 \in Below(g.c), i2 \in Below(g.kh), j2 \in Below(g.kw), y2 \in Below(Hout(g)), x2 \in Below(Wout(g)) :
          w = <<P(c2, i2, j2, y2, x2), E(c2, i2, j2, y2, x2)>>
    BY <1>2
  <2>2. w[1] = P(c2, i2, j2, y2, x2) /\ w[2] = E(c2, i2, j2, y2, x2)
    BY ONLY <2>1
  <2> QED BY <1>3, <1>4, <2>2
<1>5. \E w \in nt_im2col(g) : w[1] = P(c, i, j, y, x) /\ w[2] = E(c, i, j, y, x)
  <2>1. <<P(c, i, j, y, x), E(c, i, j, y, x)>> \in nt_im2col(g)
    BY <1>2
  <2>2. <<P(c, i, j, y, x), E(c, i, j, y, x)>>[1] = P(c, i, j, y, x) /\ <<P(c, i, j, y, x), E(c, i, j, y, x)>>[2] = E(c, i, j, y, x)
    OBVIOUS
  <2> QED BY <2>1, <2>2
<1>6. {w[2] : w \in {v \in nt_im2col(g) : v[1] = P(c, i, j, y, x)}} = {E(c, i, j, y, x)}
  BY ONLY <1>4, <1>5
<1> QED BY <1>6 DEF P, E, Column

\* Each place of the columns is written once, and nothing else is.
LEMMA ColumnsAreFull ==
  ASSUME NEW g \in Geometries, Hout(g) > 0, Wout(g) > 0
  PROVE  Cardinality(nt_im2col(g)) = g.c * g.kh * g.kw * Hout(g) * Wout(g)
<1>1. PICK C, kh, kw, Ho, Wo : C = g.c /\ kh = g.kh /\ kw = g.kw /\ Ho = Hout(g) /\ Wo = Wout(g)
  OBVIOUS
<1>2. C \in Nat /\ kh \in Nat /\ kw \in Nat /\ Ho \in Nat /\ Wo \in Nat /\ kh >= 1 /\ kw >= 1 /\ Ho >= 1 /\ Wo >= 1
  BY <1>1, GeometryNumbers, SidesAreNumbers
<1>3. PICK M : M = (C * kh * kw) * (Ho * Wo)
  OBVIOUS
<1>4. M \in Nat /\ M = C * kh * kw * Ho * Wo
  <2>1. C * kh \in Nat /\ Ho * Wo \in Nat
    BY <1>2
  <2>2. C * kh * kw \in Nat
    BY <2>1, <1>2
  <2> QED BY <2>1, <2>2, <1>2, <1>3
<1>5. PICK S : S = nt_im2col(g)
  OBVIOUS
<1>6. \A w \in S : \E c \in Below(g.c), i \in Below(g.kh), j \in Below(g.kw), y \in Below(Hout(g)), x \in Below(Wout(g)) :
        w = <<PlaceIn(g, c, i, j, y, x), ElementOf(g, c, i, j, y, x)>>
  BY <1>5, ColumnsWritten
<1>7. ASSUME NEW w \in S
      PROVE  w[1] \in 0..(M - 1)
  <2>1. PICK c \in Below(g.c), i \in Below(g.kh), j \in Below(g.kw), y \in Below(Hout(g)), x \in Below(Wout(g)) :
          w = <<PlaceIn(g, c, i, j, y, x), ElementOf(g, c, i, j, y, x)>>
    BY <1>6
  <2>2. TapAt(g.c, g.kh, g.kw, Hout(g), Wout(g), c, i, j, y, x, PlaceIn(g, c, i, j, y, x))
    BY PlacesAreApart
  <2>3. PlaceIn(g, c, i, j, y, x) \in 0..(M - 1)
    BY ONLY <1>1, <1>3, <2>2 DEF TapAt
  <2> QED BY ONLY <2>1, <2>3
<1>8. ASSUME NEW v \in S, NEW w \in S, v[1] = w[1]
      PROVE  v = w
  <2>1. PICK c \in Below(g.c), i \in Below(g.kh), j \in Below(g.kw), y \in Below(Hout(g)), x \in Below(Wout(g)) :
          v = <<PlaceIn(g, c, i, j, y, x), ElementOf(g, c, i, j, y, x)>>
    BY <1>6
  <2>2. PICK c2 \in Below(g.c), i2 \in Below(g.kh), j2 \in Below(g.kw), y2 \in Below(Hout(g)), x2 \in Below(Wout(g)) :
          w = <<PlaceIn(g, c2, i2, j2, y2, x2), ElementOf(g, c2, i2, j2, y2, x2)>>
    BY <1>6
  <2>3. PICK e : e = PlaceIn(g, c, i, j, y, x)
    OBVIOUS
  <2>4. e = PlaceIn(g, c2, i2, j2, y2, x2)
    BY ONLY <1>8, <2>1, <2>2, <2>3
  <2>5. TapAt(g.c, g.kh, g.kw, Hout(g), Wout(g), c, i, j, y, x, e)
    BY <2>3, PlacesAreApart
  <2>6. TapAt(g.c, g.kh, g.kw, Hout(g), Wout(g), c2, i2, j2, y2, x2, e)
    BY <2>4, PlacesAreApart
  <2>7. c = c2 /\ i = i2 /\ j = j2 /\ y = y2 /\ x = x2
    BY ONLY <2>5, <2>6, Zenon DEF TapAt
  <2> QED BY ONLY <2>1, <2>2, <2>7
<1>9. ASSUME NEW e \in 0..(M - 1)
      PROVE  \E w \in S : w[1] = e
  <2>1. IsAPlace(C, kh, kw, Ho, Wo, e)
    BY ONLY <1>2, <1>3, <1>9, PlaceIsATap
  <2>2. PICK c \in Below(g.c), i \in Below(g.kh), j \in Below(g.kw), y \in Below(Hout(g)), x \in Below(Wout(g)) :
          e = PlaceIn(g, c, i, j, y, x)
    BY ONLY <1>1, <2>1 DEF IsAPlace, PlaceIn, Below
  <2>3. <<PlaceIn(g, c, i, j, y, x), ElementOf(g, c, i, j, y, x)>> \in S
    BY <1>5, ColumnsWritten
  <2>4. <<PlaceIn(g, c, i, j, y, x), ElementOf(g, c, i, j, y, x)>>[1] = e
    BY ONLY <2>2
  <2> QED BY ONLY <2>3, <2>4
<1>10. PICK h : h = [e \in 0..(M - 1) |-> CHOOSE w \in S : w[1] = e]
  OBVIOUS
<1>11. \A e \in 0..(M - 1) : h[e] \in S /\ h[e][1] = e
  BY ONLY <1>9, <1>10
<1>12. h \in Bijection(0..(M - 1), S)
  <2>1. h \in [0..(M - 1) -> S]
    BY ONLY <1>10, <1>11
  <2>2. \A a, b \in 0..(M - 1) : h[a] = h[b] => a = b
    <3>1. SUFFICES ASSUME NEW a \in 0..(M - 1), NEW b \in 0..(M - 1), h[a] = h[b] PROVE a = b
      OBVIOUS
    <3>2. h[a][1] = a /\ h[b][1] = b
      BY <1>11
    <3> QED BY ONLY <3>1, <3>2
  <2>3. \A w \in S : \E a \in 0..(M - 1) : h[a] = w
    <3>1. SUFFICES ASSUME NEW w \in S PROVE \E a \in 0..(M - 1) : h[a] = w
      OBVIOUS
    <3>2. PICK a : a = w[1]
      OBVIOUS
    <3>3. a \in 0..(M - 1)
      BY <1>7, <3>2
    <3>4. h[a] \in S /\ h[a][1] = w[1]
      BY <1>11, <3>2, <3>3
    <3>5. h[a] = w
      BY <1>8, <3>4
    <3> QED BY <3>3, <3>5
  <2> QED BY ONLY <2>1, <2>2, <2>3 DEF Bijection, Injection, Surjection, IsInjective
<1>13. IsFiniteSet(0..(M - 1)) /\ Cardinality(0..(M - 1)) = M
  <2>1. 0 \in Int /\ M - 1 \in Int
    BY <1>4
  <2>2. IsFiniteSet(0..(M - 1)) /\ Cardinality(0..(M - 1)) = IF 0 > M - 1 THEN 0 ELSE M - 1 - 0 + 1
    BY ONLY <2>1, FS_Interval
  <2> QED BY <1>4, <2>2
<1>14. ExistsBijection(0..(M - 1), S)
  BY ONLY <1>12 DEF ExistsBijection
<1>15. Cardinality(S) = M
  BY ONLY <1>13, <1>14, FS_Bijection
<1> QED BY ONLY <1>1, <1>4, <1>5, <1>15

\* What the element co, y, x of the output is summed of: each tap that is not of the padding.
TapsOf(g, co, y, x) ==
  {t \in {<<co * (g.c * g.kh * g.kw) + ((c * g.kh + i) * g.kw + j), ElementOf(g, c, i, j, y, x)>> :
            c \in Below(g.c), i \in Below(g.kh), j \in Below(g.kw)} : t[2] # Padding}

\* The product of the kernels and the columns sums these (notorch.c, nt_conv2d).
LEMMA ConvolutionSumsItsTaps ==
  ASSUME NEW g \in Geometries, Hout(g) > 0, Wout(g) > 0,
         NEW co \in Below(g.out), NEW y \in Below(Hout(g)), NEW x \in Below(Wout(g))
  PROVE  nt_conv2d(g)[(co * Hout(g) + y) * Wout(g) + x] = [taps |-> TapsOf(g, co, y, x), bias |-> co]
<1>1. PICK C, kh, kw, Ho, Wo, O : C = g.c /\ kh = g.kh /\ kw = g.kw /\ Ho = Hout(g) /\ Wo = Wout(g) /\ O = g.out
  OBVIOUS
<1>2. /\ C \in Nat /\ kh \in Nat /\ kw \in Nat /\ Ho \in Nat /\ Wo \in Nat /\ O \in Nat
      /\ kh >= 1 /\ kw >= 1 /\ Ho >= 1 /\ Wo >= 1
  BY <1>1, GeometryNumbers, SidesAreNumbers
<1>3. co \in 0..(O - 1) /\ y \in 0..(Ho - 1) /\ x \in 0..(Wo - 1)
  BY <1>1 DEF Below
<1>4. PICK K, N, q, e : K = C * kh * kw /\ N = Ho * Wo /\ q = y * Wo + x /\ e = (co * Ho + y) * Wo + x
  OBVIOUS
<1>5. K \in Nat /\ N \in Nat /\ N >= 1
  <2>1. C * kh \in Nat
    BY <1>2
  <2> QED BY <1>2, <1>4, <2>1
<1>6. q \in 0..(N - 1)
  BY <1>2, <1>3, <1>4, PlaceBelow
<1>7. e = co * N + q
  <2>1. (co * Ho + y) * Wo = co * (Ho * Wo) + y * Wo
    BY <1>2, <1>3
  <2>2. co * N \in Int /\ y * Wo \in Int /\ x \in Int
    BY <1>2, <1>3, <1>5
  <2>3. e = (co * N + y * Wo) + x
    BY ONLY <1>4, <2>1
  <2> QED BY <1>4, <2>2, <2>3
<1>8. e \div N = co /\ e % N = q
  <2>1. co \in Nat
    BY <1>3
  <2> QED BY <2>1, <1>5, <1>6, <1>7, RowAndColumn, Zenon
<1>9. e \in 0..(O * N - 1)
  <2>1. co * N + q \in 0..(O * N - 1)
    BY ONLY <1>2, <1>3, <1>5, <1>6, PlaceBelow
  <2> QED BY <1>7, <2>1
<1>10. PICK col : col = [place \in Below(K * N) |-> {w[2] : w \in {v \in nt_im2col(g) : v[1] = place}}]
  OBVIOUS
<1>11. PICK gemm : gemm = nt_blas_mm(O, K, N)
  OBVIOUS
<1>12. nt_conv2d(g) = [f \in Below(O * N) |->
         [taps |-> UNION {{<<m[1], v>> : v \in col[m[2]] \ {Padding}} : m \in gemm[f]}, bias |-> f \div N]]
  BY <1>1, <1>4, <1>10, <1>11 DEF nt_conv2d
<1>13. gemm[e] = {<<co * K + p, p * N + q>> : p \in 0..(K - 1)}
  <2>1. gemm[e] = {<<(e \div N) * K + p, p * N + (e % N)>> : p \in Below(K)}
    BY <1>9, <1>11 DEF nt_blas_mm, Below
  <2> QED BY <2>1, <1>8 DEF Below
<1>14. ASSUME NEW c \in Below(g.c), NEW i \in Below(g.kh), NEW j \in Below(g.kw), NEW p, p = (c * kh + i) * kw + j
       PROVE  p \in 0..(K - 1) /\ col[p * N + q] = {ElementOf(g, c, i, j, y, x)}
  <2>1. c \in 0..(C - 1) /\ i \in 0..(kh - 1) /\ j \in 0..(kw - 1)
    BY <1>1 DEF Below
  <2>2. PICK R, r : R = C * kh /\ r = c * kh + i
    OBVIOUS
  <2>3. R \in Nat /\ r \in 0..(R - 1)
    BY <1>2, <2>1, <2>2, PlaceBelow
  <2>4. r * kw + j \in 0..(R * kw - 1)
    BY ONLY <1>2, <2>1, <2>3, PlaceBelow
  <2>5. p \in 0..(K - 1)
    BY ONLY <1>4, <1>14, <2>2, <2>4
  <2>6. p * N + q \in 0..(K * N - 1)
    BY ONLY <1>5, <1>6, <2>5, PlaceBelow
  <2>7. p * N + q = PlaceIn(g, c, i, j, y, x)
    <3>1. p * N \in Int /\ y * Wo \in Int /\ x \in Int
      BY <1>2, <1>3, <1>5, <2>5
    <3>2. p * N + (y * Wo + x) = p * N + y * Wo + x
      BY ONLY <3>1
    <3>3. PlaceIn(g, c, i, j, y, x) = p * N + y * Wo + x
      BY ONLY <1>1, <1>4, <1>14 DEF PlaceIn
    <3> QED BY ONLY <1>4, <3>2, <3>3
  <2>8. col[p * N + q] = Column(g, p * N + q)
    BY <1>10, <2>6 DEF Below, Column
  <2>9. Column(g, PlaceIn(g, c, i, j, y, x)) = {ElementOf(g, c, i, j, y, x)}
    BY ColumnHoldsItsTap
  <2> QED BY ONLY <2>5, <2>7, <2>8, <2>9
<1>15. PICK taps : taps = UNION {{<<m[1], v>> : v \in col[m[2]] \ {Padding}} : m \in gemm[e]}
  OBVIOUS
<1>16. ASSUME NEW t \in taps
       PROVE  t \in TapsOf(g, co, y, x)
  <2>1. PICK m \in gemm[e] : t \in {<<m[1], v>> : v \in col[m[2]] \ {Padding}}
    BY ONLY <1>15, <1>16
  <2>2. PICK p \in 0..(K - 1) : m = <<co * K + p, p * N + q>>
    BY ONLY <1>13, <2>1
  <2>3. PICK v \in col[p * N + q] : v # Padding /\ t = <<co * K + p, v>>
    <3>1. m[1] = co * K + p /\ m[2] = p * N + q
      BY ONLY <2>2
    <3> QED BY ONLY <2>1, <3>1
  <2>4. IsATap(C, kh, kw, p)
    BY ONLY <1>2, <1>4, <2>2, RowIsATap
  <2>5. PICK c \in Below(g.c), i \in Below(g.kh), j \in Below(g.kw) : p = (c * kh + i) * kw + j
    BY ONLY <1>1, <2>4 DEF IsATap, Below
  <2>6. v = ElementOf(g, c, i, j, y, x)
    BY <1>14, <2>3, <2>5
  <2>7. t = <<co * (g.c * g.kh * g.kw) + ((c * g.kh + i) * g.kw + j), ElementOf(g, c, i, j, y, x)>>
    BY ONLY <1>1, <1>4, <2>3, <2>5, <2>6
  <2>8. t[2] # Padding
    BY ONLY <2>3
  <2> QED BY <2>7, <2>8 DEF TapsOf
<1>17. ASSUME NEW t \in TapsOf(g, co, y, x)
       PROVE  t \in taps
  <2>1. PICK c \in Below(g.c), i \in Below(g.kh), j \in Below(g.kw) :
          /\ t = <<co * (g.c * g.kh * g.kw) + ((c * g.kh + i) * g.kw + j), ElementOf(g, c, i, j, y, x)>>
          /\ t[2] # Padding
    BY DEF TapsOf
  <2>2. PICK p : p = (c * kh + i) * kw + j
    OBVIOUS
  <2>3. p \in 0..(K - 1) /\ col[p * N + q] = {ElementOf(g, c, i, j, y, x)}
    BY <1>14, <2>2
  <2>4. PICK m : m = <<co * K + p, p * N + q>>
    OBVIOUS
  <2>5. m \in gemm[e]
    BY ONLY <1>13, <2>3, <2>4
  <2>6. m[1] = co * K + p /\ m[2] = p * N + q
    BY ONLY <2>4
  <2>7. t = <<m[1], ElementOf(g, c, i, j, y, x)>> /\ ElementOf(g, c, i, j, y, x) # Padding
    BY ONLY <1>1, <1>4, <2>1, <2>2, <2>6
  <2>8. t \in {<<m[1], v>> : v \in col[m[2]] \ {Padding}}
    BY ONLY <2>3, <2>6, <2>7
  <2> QED BY ONLY <1>15, <2>5, <2>8
<1>18. taps = TapsOf(g, co, y, x)
  BY ONLY <1>16, <1>17
<1>19. nt_conv2d(g)[e] = [taps |-> taps, bias |-> co]
  BY ONLY <1>8, <1>9, <1>12, <1>15 DEF Below
<1> QED BY ONLY <1>1, <1>4, <1>18, <1>19

\* The kernel co laid over the image at y, x.
KernelLaid(g, co, y, x) ==
  {<<((co * g.c + c) * g.kh + p[1] + g.pad - y * g.stride) * g.kw + p[2] + g.pad - x * g.stride,
     (c * g.h + p[1]) * g.w + p[2]>> : c \in Below(g.c), p \in Covered(g, y, x)}

\* These are the kernel laid over the image where the element is.
LEMMA TapsAreCovered ==
  ASSUME NEW g \in Geometries, Hout(g) > 0, Wout(g) > 0,
         NEW co \in Below(g.out), NEW y \in Below(Hout(g)), NEW x \in Below(Wout(g))
  PROVE  TapsOf(g, co, y, x) = KernelLaid(g, co, y, x)
<1>1. PICK C, kh, kw, h, w, pad : C = g.c /\ kh = g.kh /\ kw = g.kw /\ h = g.h /\ w = g.w /\ pad = g.pad
  OBVIOUS
<1>2. PICK dy, dx : dy = y * g.stride /\ dx = x * g.stride
  OBVIOUS
<1>3. /\ C \in Nat /\ kh \in Nat /\ kw \in Nat /\ h \in Nat /\ w \in Nat /\ pad \in Nat
      /\ dy \in Int /\ dx \in Int /\ co \in Nat
  BY <1>1, <1>2, GeometryNumbers, SidesAreNumbers DEF Below
<1>4. ASSUME NEW c \in 0..(C - 1), NEW i \in Int, NEW j \in Int, NEW iy \in 0..(h - 1), NEW ix \in 0..(w - 1),
             i = iy + pad - dy, j = ix + pad - dx
      PROVE  /\ co * (C * kh * kw) + ((c * kh + i) * kw + j) = ((co * C + c) * kh + iy + pad - dy) * kw + ix + pad - dx
             /\ iy = dy - pad + i /\ ix = dx - pad + j
             /\ (c * h + iy) * w + ix # Padding
  <2>1. co * (C * kh * kw) + ((c * kh + i) * kw + j) = ((co * C + c) * kh + i) * kw + j
    BY <1>3
  <2>2. (co * C + c) * kh \in Int
    BY <1>3
  <2>3. (co * C + c) * kh + iy + pad - dy = (co * C + c) * kh + i
    BY <1>3, <1>4, <2>2
  <2>4. ((co * C + c) * kh + i) * kw \in Int
    BY <1>3, <2>2
  <2>5. ((co * C + c) * kh + i) * kw + ix + pad - dx = ((co * C + c) * kh + i) * kw + j
    BY <1>3, <1>4, <2>4
  <2>6. c * h + iy \in Nat
    BY <1>3
  <2>7. (c * h + iy) * w \in Nat
    BY <1>3, <2>6
  <2>8. (c * h + iy) * w + ix # Padding
    BY <2>7 DEF Padding
  <2> QED BY <1>3, <1>4, <2>1, <2>3, <2>5, <2>8
<1>5. Covered(g, y, x) = {p \in (0..(h - 1)) \X (0..(w - 1)) : p[1] + pad - dy \in 0..(kh - 1) /\ p[2] + pad - dx \in 0..(kw - 1)}
  BY <1>1, <1>2 DEF Covered, Below
<1>6. ASSUME NEW c, NEW i, NEW j
      PROVE  ElementOf(g, c, i, j, y, x) =
               IF dy - pad + i \in 0..(h - 1) /\ dx - pad + j \in 0..(w - 1)
               THEN (c * h + (dy - pad + i)) * w + (dx - pad + j) ELSE Padding
  BY ONLY <1>1, <1>2 DEF ElementOf, Below
<1> DEFINE Laid == {<<((co * C + c) * kh + p[1] + pad - dy) * kw + p[2] + pad - dx, (c * h + p[1]) * w + p[2]>> :
                      c \in 0..(C - 1), p \in Covered(g, y, x)}
<1>7. ASSUME NEW t \in TapsOf(g, co, y, x)
      PROVE  t \in Laid
  <2>1. PICK c \in 0..(C - 1), i \in 0..(kh - 1), j \in 0..(kw - 1) :
          t = <<co * (C * kh * kw) + ((c * kh + i) * kw + j), ElementOf(g, c, i, j, y, x)>> /\ t[2] # Padding
    BY <1>1 DEF TapsOf, Below
  <2>2. ElementOf(g, c, i, j, y, x) # Padding
    BY ONLY <2>1
  <2>3. PICK iy, ix : iy = dy - pad + i /\ ix = dx - pad + j
    OBVIOUS
  <2>4. iy \in 0..(h - 1) /\ ix \in 0..(w - 1) /\ ElementOf(g, c, i, j, y, x) = (c * h + iy) * w + ix
    BY ONLY <1>6, <2>2, <2>3
  <2>5. i \in Int /\ j \in Int /\ i = iy + pad - dy /\ j = ix + pad - dx
    BY <1>3, <2>3
  <2>6. co * (C * kh * kw) + ((c * kh + i) * kw + j) = ((co * C + c) * kh + iy + pad - dy) * kw + ix + pad - dx
    BY <1>4, <2>4, <2>5
  <2>7. <<iy, ix>> \in Covered(g, y, x)
    BY <1>5, <2>4, <2>5
  <2>8. t = <<((co * C + c) * kh + iy + pad - dy) * kw + ix + pad - dx, (c * h + iy) * w + ix>>
    BY ONLY <2>1, <2>4, <2>6
  <2>9. PICK p : p = <<iy, ix>>
    OBVIOUS
  <2>10. p[1] = iy /\ p[2] = ix /\ p \in Covered(g, y, x)
    BY ONLY <2>7, <2>9
  <2>11. t = <<((co * C + c) * kh + p[1] + pad - dy) * kw + p[2] + pad - dx, (c * h + p[1]) * w + p[2]>>
    BY ONLY <2>8, <2>10
  <2> QED BY ONLY <2>10, <2>11, c \in 0..(C - 1)
<1>8. ASSUME NEW t \in Laid
      PROVE  t \in TapsOf(g, co, y, x)
  <2>1. PICK c \in 0..(C - 1), p \in Covered(g, y, x) :
          t = <<((co * C + c) * kh + p[1] + pad - dy) * kw + p[2] + pad - dx, (c * h + p[1]) * w + p[2]>>
    OBVIOUS
  <2>2. PICK iy, ix : iy = p[1] /\ ix = p[2]
    OBVIOUS
  <2>3. PICK i, j : i = iy + pad - dy /\ j = ix + pad - dx
    OBVIOUS
  <2>4. iy \in 0..(h - 1) /\ ix \in 0..(w - 1) /\ i \in 0..(kh - 1) /\ j \in 0..(kw - 1)
    BY <1>5, <2>2, <2>3
  <2>5. /\ co * (C * kh * kw) + ((c * kh + i) * kw + j) = ((co * C + c) * kh + iy + pad - dy) * kw + ix + pad - dx
        /\ iy = dy - pad + i /\ ix = dx - pad + j
        /\ (c * h + iy) * w + ix # Padding
    <3>1. i \in Int /\ j \in Int /\ c \in 0..(C - 1)
      BY <2>4
    <3> QED BY ONLY <1>4, <2>3, <2>4, <3>1
  <2>6. ElementOf(g, c, i, j, y, x) = (c * h + iy) * w + ix
    BY ONLY <1>6, <2>4, <2>5
  <2>7. t = <<co * (C * kh * kw) + ((c * kh + i) * kw + j), ElementOf(g, c, i, j, y, x)>>
    BY ONLY <2>1, <2>2, <2>5, <2>6
  <2>8. t[2] # Padding
    BY ONLY <2>5, <2>6, <2>7
  <2> QED BY <1>1, <2>4, <2>7, <2>8 DEF TapsOf, Below
<1>9. TapsOf(g, co, y, x) = Laid
  BY ONLY <1>7, <1>8
<1> QED BY <1>1, <1>2, <1>9 DEF Below, KernelLaid

\* A convolution lays each kernel over the whole image (notorch.c, nt_conv2d).
LEMMA ConvolvesWhole ==
  ASSUME NEW g \in Geometries, Hout(g) > 0, Wout(g) > 0
  PROVE  ConvolvedWhole(g, nt_conv2d(g))
<1>1. DOMAIN nt_conv2d(g) = Below(g.out * Hout(g) * Wout(g))
  <2>1. g.out * (Hout(g) * Wout(g)) = g.out * Hout(g) * Wout(g)
    BY GeometryNumbers, SidesAreNumbers
  <2> QED BY <2>1 DEF nt_conv2d
<1>2. ASSUME NEW co \in Below(g.out), NEW y \in Below(Hout(g)), NEW x \in Below(Wout(g))
      PROVE  nt_conv2d(g)[(co * Hout(g) + y) * Wout(g) + x] =
               [bias |-> co,
                taps |-> {<<((co * g.c + c) * g.kh + p[1] + g.pad - y * g.stride) * g.kw + p[2] + g.pad - x * g.stride,
                            (c * g.h + p[1]) * g.w + p[2]>> : c \in Below(g.c), p \in Covered(g, y, x)}]
  <2>1. nt_conv2d(g)[(co * Hout(g) + y) * Wout(g) + x] = [taps |-> TapsOf(g, co, y, x), bias |-> co]
    BY ConvolutionSumsItsTaps
  <2>2. TapsOf(g, co, y, x) = KernelLaid(g, co, y, x)
    BY TapsAreCovered
  <2>3. [taps |-> TapsOf(g, co, y, x), bias |-> co] = [bias |-> co, taps |-> TapsOf(g, co, y, x)]
    OBVIOUS
  <2> QED BY ONLY <2>1, <2>2, <2>3 DEF KernelLaid
<1>3. Cardinality(nt_im2col(g)) = g.c * g.kh * g.kw * Hout(g) * Wout(g)
  BY ColumnsAreFull
<1> QED BY ONLY <1>1, <1>2, <1>3 DEF ConvolvedWhole

-----------------------------------------------------------------------------
(* Group norm, and the inductive invariant: a norm that has written c channels. *)

SizeOf(n) == n.c \div n.groups
RoomOf(n) == n.c * n.spatial
GroupOf(n, k) == {f \in 0..(RoomOf(n) - 1) : f \div (SizeOf(n) * n.spatial) = k}
Written(n, c) == [e \in 0..(RoomOf(n) - 1) |->
                    IF e < c * n.spatial THEN <<GroupOf(n, e \div (SizeOf(n) * n.spatial)), e>> ELSE NotYet]

Normable(n) == n \in Norms /\ n.groups > 0 /\ n.c % n.groups = 0 /\ SizeOf(n) * n.spatial > 0

NormAt(n, b, k, c, s) ==
  /\ Normable(n) /\ b \in BOOLEAN /\ k \in 0..n.groups /\ c \in 0..n.c
  /\ k * SizeOf(n) <= c
  /\ IF k = n.groups THEN c = n.c /\ s = {} ELSE c < (k + 1) * SizeOf(n)
  /\ s = {} => c = k * SizeOf(n)
  /\ s # {} => s = GroupOf(n, k)
  /\ image = [op |-> "norm", of |-> n, same |-> b, group |-> k, c |-> c, stats |-> s, out |-> Written(n, c)]

ImageInv ==
  \/ image = NoImage
  \/ \E g \in Geometries : Hout(g) > 0 /\ Wout(g) > 0 /\ image = [op |-> "conv", of |-> g, out |-> nt_conv2d(g)]
  \/ \E g \in Geometries : image = [op |-> "upsample", of |-> g, out |-> nt_upsample_nearest(g, g.stride)]
  \/ \E a \in Attentions : a.t > 0 /\ a.s > 0 /\ a.d > 0 /\ image = [op |-> "attention", of |-> a, out |-> nt_attention(a)]
  \/ \E of : image = [op |-> "refused", of |-> of]
  \/ \E n, b, k, c, s : NormAt(n, b, k, c, s)

\* The sizes of a norm that is not refused.
LEMMA NormNumbers ==
  ASSUME NEW n, Normable(n)
  PROVE  /\ n.c \in Nat /\ n.spatial \in Nat /\ n.groups \in Nat /\ n.groups >= 1
         /\ SizeOf(n) \in Nat /\ SizeOf(n) >= 1 /\ n.spatial >= 1 /\ n.c = n.groups * SizeOf(n)
<1>1. n.c \in Nat /\ n.spatial \in Nat /\ n.groups \in Nat /\ n.groups >= 1
  BY ImageLimits DEF Normable
<1>2. PICK C, G, S, P : C = n.c /\ G = n.groups /\ S = n.c \div n.groups /\ P = n.spatial
  OBVIOUS
<1>3. C = G * S + (C % G) /\ C % G = 0 /\ S * P > 0 /\ S \in Int
  BY <1>1, <1>2 DEF Normable, SizeOf
<1>4. S >= 0
  BY <1>1, <1>2, <1>3
<1>5. S >= 1 /\ P >= 1
  BY <1>1, <1>2, <1>3, <1>4
<1> QED BY <1>1, <1>2, <1>3, <1>5 DEF SizeOf

\* The elements of a group are next to each other.
LEMMA GroupIsARun ==
  ASSUME NEW G \in Nat, NEW S \in Nat, NEW P \in Nat, S >= 1, P >= 1, NEW k \in 0..(G - 1)
  PROVE  /\ {f \in 0..((G * S) * P - 1) : f \div (S * P) = k} = (k * S * P)..(k * S * P + S * P - 1)
         /\ k * S * P >= 0 /\ k * S * P + S * P <= (G * S) * P
<1>1. PICK Z : Z = S * P
  OBVIOUS
<1>2. Z \in Nat /\ Z >= 1 /\ k * S * P = k * Z /\ (G * S) * P = G * Z
  BY <1>1
<1>3. k * Z \in Nat /\ k * Z + Z <= G * Z
  <2>1. PICK d \in Nat : G = k + 1 + d
    <3>1. G - k - 1 \in Nat /\ G = k + 1 + (G - k - 1)
      OBVIOUS
    <3> QED BY <3>1
  <2>2. G * Z = k * Z + Z + d * Z /\ d * Z \in Nat /\ k * Z \in Nat
    BY <1>2, <2>1
  <2> QED BY <1>2, <2>2
<1>4. ASSUME NEW f \in 0..(G * Z - 1), f \div Z = k
      PROVE  f \in (k * Z)..(k * Z + Z - 1)
  <2>1. f \in Nat /\ f < G * Z
    BY <1>2, <1>3
  <2>2. f \div Z \in 0..(G - 1) /\ f % Z \in 0..(Z - 1) /\ f = (f \div Z) * Z + (f % Z)
    BY <1>2, <2>1, PlaceInRow, Zenon
  <2>3. PICK m : m = f % Z
    OBVIOUS
  <2>4. m \in 0..(Z - 1) /\ f = k * Z + m
    BY ONLY <1>4, <2>2, <2>3
  <2> QED BY <1>2, <1>3, <2>4
<1>5. ASSUME NEW f \in (k * Z)..(k * Z + Z - 1)
      PROVE  f \in 0..(G * Z - 1) /\ f \div Z = k
  <2>1. PICK m : m = f - k * Z
    OBVIOUS
  <2>2. m \in 0..(Z - 1) /\ f = k * Z + m /\ k \in Nat
    BY <1>2, <1>3, <2>1
  <2>3. f \div Z = k /\ f % Z = m
    BY <1>2, <2>2, RowAndColumn, Zenon
  <2> QED BY <1>2, <1>3, <2>3
<1>6. {f \in 0..(G * Z - 1) : f \div Z = k} = (k * Z)..(k * Z + Z - 1)
  BY ONLY <1>4, <1>5
<1> QED BY <1>1, <1>2, <1>3, <1>6

\* An element that is not written yet is read as it was given, even where the output is the input.
LEMMA ReadAsGiven ==
  ASSUME NEW n, NEW b, NEW k, NEW c, NEW s, NormAt(n, b, k, c, s),
         NEW e \in 0..(RoomOf(n) - 1), e >= c * n.spatial
  PROVE  ReadAs(e) = e
<1>1. c * n.spatial \in Int
  BY NormNumbers DEF NormAt
<1>2. Written(n, c)[e] = NotYet
  BY <1>1 DEF Written
<1>3. image.out = Written(n, c)
  BY DEF NormAt
<1> QED BY <1>2, <1>3 DEF ReadAs

\* The statistics are taken of a whole group (notorch.c, nt_group_norm).
LEMMA StatisticsAreOfTheGroup ==
  ASSUME NEW n, NEW b, NEW k, NEW c, NEW s, NormAt(n, b, k, c, s), GroupStatistics
  PROVE  NormAt(n, b, k, c, GroupOf(n, k))'
<1>1. PICK C, G, S, P : C = n.c /\ G = n.groups /\ S = SizeOf(n) /\ P = n.spatial
  OBVIOUS
<1>2. C \in Nat /\ G \in Nat /\ S \in Nat /\ P \in Nat /\ G >= 1 /\ S >= 1 /\ P >= 1 /\ C = G * S
  BY <1>1, NormNumbers DEF NormAt
<1>3. image = [op |-> "norm", of |-> n, same |-> b, group |-> k, c |-> c, stats |-> s, out |-> Written(n, c)]
  BY DEF NormAt
<1>4. image.of = n /\ image.group = k /\ image.c = c /\ image.stats = s /\ GroupSize = S
  BY <1>1, <1>3 DEF GroupSize, SizeOf
<1>5. k \in 0..(G - 1) /\ c = k * S /\ c \in Nat
  BY <1>1, <1>2, <1>4 DEF GroupStatistics, NormAt
<1>6. GroupOf(n, k) = (k * S * P)..(k * S * P + S * P - 1) /\ k * S * P >= 0 /\ k * S * P + S * P <= (G * S) * P
  <2>1. /\ {f \in 0..((G * S) * P - 1) : f \div (S * P) = k} = (k * S * P)..(k * S * P + S * P - 1)
        /\ k * S * P >= 0 /\ k * S * P + S * P <= (G * S) * P
    BY <1>2, <1>5, GroupIsARun, Zenon
  <2> QED BY ONLY <1>1, <1>2, <2>1 DEF GroupOf, RoomOf
<1>7. ASSUME NEW e \in (k * S * P)..(k * S * P + S * P - 1)
      PROVE  ReadAs(e) = e
  <2>1. k * S * P \in Nat /\ S * P \in Nat /\ (G * S) * P \in Nat
    BY <1>2, <1>5
  <2>2. RoomOf(n) = (G * S) * P /\ c * n.spatial = k * S * P
    BY ONLY <1>1, <1>2, <1>5 DEF RoomOf
  <2>3. e \in 0..(RoomOf(n) - 1) /\ e >= c * n.spatial
    BY ONLY <1>6, <1>7, <2>1, <2>2
  <2> QED BY <2>3, ReadAsGiven
<1>8. {ReadAs(e) : e \in (k * S * P)..(k * S * P + S * P - 1)} = GroupOf(n, k)
  <2>1. {ReadAs(e) : e \in (k * S * P)..(k * S * P + S * P - 1)} = (k * S * P)..(k * S * P + S * P - 1)
    BY ONLY <1>7
  <2> QED BY ONLY <1>6, <2>1
<1>9. image' = [image EXCEPT !.stats = GroupOf(n, k)]
  BY <1>1, <1>4, <1>8 DEF GroupStatistics
<1>10. image' = [op |-> "norm", of |-> n, same |-> b, group |-> k, c |-> c, stats |-> GroupOf(n, k), out |-> Written(n, c)]
  BY ONLY <1>3, <1>9
<1> QED
  <2>1. Normable(n) /\ b \in BOOLEAN /\ k \in 0..n.groups /\ c \in 0..n.c /\ k * SizeOf(n) <= c
    BY DEF NormAt
  <2>2. k # n.groups /\ c < (k + 1) * SizeOf(n) /\ c = k * SizeOf(n)
    <3>1. k # n.groups
      BY <1>1, <1>5, <1>2
    <3> QED BY <3>1, <1>1, <1>5 DEF NormAt
  <2> QED BY ONLY <2>1, <2>2, <1>10 DEF NormAt

\* The invariant a channel leaves behind: the group is advanced with its last channel.
LEMMA ChannelIsWritten ==
  ASSUME NEW n, NEW b, NEW k, NEW c, NEW s, NormAt(n, b, k, c, s), ChannelWritten
  PROVE  IF c + 1 = (k + 1) * SizeOf(n) THEN NormAt(n, b, k + 1, c + 1, {})' ELSE NormAt(n, b, k, c + 1, s)'
<1>1. PICK C, G, S, P : C = n.c /\ G = n.groups /\ S = SizeOf(n) /\ P = n.spatial
  OBVIOUS
<1>2. C \in Nat /\ G \in Nat /\ S \in Nat /\ P \in Nat /\ G >= 1 /\ S >= 1 /\ P >= 1 /\ C = G * S
  BY <1>1, NormNumbers DEF NormAt
<1>3. image = [op |-> "norm", of |-> n, same |-> b, group |-> k, c |-> c, stats |-> s, out |-> Written(n, c)]
  BY DEF NormAt
<1>4. image.of = n /\ image.group = k /\ image.c = c /\ image.stats = s /\ GroupSize = S /\ image.out = Written(n, c)
  BY <1>1, <1>3 DEF GroupSize, SizeOf
<1>5. k \in 0..(G - 1) /\ c \in Nat /\ k * S <= c /\ c < (k + 1) * S /\ s = GroupOf(n, k) /\ s # {}
  <2>1. s # {}
    BY <1>4 DEF ChannelWritten
  <2>2. s = GroupOf(n, k) /\ k # n.groups /\ c < (k + 1) * SizeOf(n) /\ k * SizeOf(n) <= c /\ k \in 0..n.groups /\ c \in 0..n.c
    BY <2>1 DEF NormAt
  <2> QED BY ONLY <2>1, <2>2, <1>1, <1>2
<1>6. GroupOf(n, k) = (k * S * P)..(k * S * P + S * P - 1) /\ k * S * P >= 0 /\ k * S * P + S * P <= (G * S) * P
  <2>1. /\ {f \in 0..((G * S) * P - 1) : f \div (S * P) = k} = (k * S * P)..(k * S * P + S * P - 1)
        /\ k * S * P >= 0 /\ k * S * P + S * P <= (G * S) * P
    BY <1>2, <1>5, GroupIsARun, Zenon
  <2> QED BY ONLY <1>1, <1>2, <2>1 DEF GroupOf, RoomOf
<1>7. c * P \in Nat /\ k * S * P \in Nat /\ S * P \in Nat /\ (c + 1) * P = c * P + P /\ k * S * P <= c * P /\ c * P + P <= k * S * P + S * P
  <2>1. PICK d \in Nat : c = k * S + d
    <3>1. c - k * S \in Nat /\ c = k * S + (c - k * S)
      BY <1>2, <1>5
    <3> QED BY <3>1
  <2>2. PICK f \in Nat : (k + 1) * S = c + 1 + f
    <3>1. (k + 1) * S - c - 1 \in Nat /\ (k + 1) * S = c + 1 + ((k + 1) * S - c - 1)
      BY <1>2, <1>5
    <3> QED BY <3>1
  <2>3. c * P = k * S * P + d * P /\ d * P \in Nat
    BY <1>2, <1>5, <2>1
  <2>4. (k + 1) * S * P = (c + 1) * P + f * P /\ f * P \in Nat
    BY <1>2, <1>5, <2>2
  <2>5. (k + 1) * S * P = k * S * P + S * P
    BY <1>2, <1>5
  <2>6. c * P \in Nat /\ (c + 1) * P = c * P + P /\ k * S * P \in Nat /\ S * P \in Nat
    BY <1>2, <1>5
  <2> QED BY ONLY <1>2, <2>3, <2>4, <2>5, <2>6
<1>8. ASSUME NEW e \in 0..(RoomOf(n) - 1), e \in (c * P)..(c * P + P - 1)
      PROVE  <<s, ReadAs(e)>> = Written(n, c + 1)[e]
  <2>1. e >= c * n.spatial
    BY <1>1, <1>7, <1>8
  <2>2. ReadAs(e) = e
    BY <2>1, ReadAsGiven
  <2>3. e \in GroupOf(n, k)
    BY ONLY <1>2, <1>6, <1>7, <1>8
  <2>4. e \div (SizeOf(n) * n.spatial) = k
    BY ONLY <2>3 DEF GroupOf
  <2>5. e < (c + 1) * n.spatial
    BY ONLY <1>1, <1>2, <1>7, <1>8
  <2> QED BY ONLY <1>5, <1>8, <2>2, <2>4, <2>5 DEF Written
<1>9. ASSUME NEW e \in 0..(RoomOf(n) - 1), e \notin (c * P)..(c * P + P - 1)
      PROVE  Written(n, c)[e] = Written(n, c + 1)[e]
  <2>1. RoomOf(n) \in Int /\ e \in Int
    BY <1>1, <1>2 DEF RoomOf
  <2>2. e < c * n.spatial <=> e < (c + 1) * n.spatial
    BY ONLY <1>1, <1>2, <1>7, <1>9, <2>1
  <2> QED BY ONLY <1>9, <2>2 DEF Written
<1>10. PICK last : last = (c + 1 = (k + 1) * S)
  OBVIOUS
<1>11. [e \in DOMAIN Written(n, c) |-> IF e \in (c * P)..(c * P + P - 1) THEN <<s, ReadAs(e)>> ELSE Written(n, c)[e]]
         = Written(n, c + 1)
  <2>1. DOMAIN Written(n, c) = 0..(RoomOf(n) - 1) /\ DOMAIN Written(n, c + 1) = 0..(RoomOf(n) - 1)
    BY DEF Written
  <2>2. ASSUME NEW e \in 0..(RoomOf(n) - 1)
        PROVE  (IF e \in (c * P)..(c * P + P - 1) THEN <<s, ReadAs(e)>> ELSE Written(n, c)[e]) = Written(n, c + 1)[e]
    BY <1>8, <1>9
  <2>3. Written(n, c + 1) = [e \in 0..(RoomOf(n) - 1) |-> Written(n, c + 1)[e]]
    BY DEF Written
  <2> QED BY ONLY <2>1, <2>2, <2>3
<1>12. image' = [image EXCEPT !.out = Written(n, c + 1), !.c = c + 1,
                              !.group = IF c + 1 = (k + 1) * S THEN k + 1 ELSE k, !.stats = IF c + 1 = (k + 1) * S THEN {} ELSE s]
  <2>1. image' = [image EXCEPT
           !.out = [e \in DOMAIN image.out |-> IF e \in (image.c * image.of.spatial)..(image.c * image.of.spatial + image.of.spatial - 1)
                                               THEN <<image.stats, ReadAs(e)>> ELSE image.out[e]],
           !.c = image.c + 1, !.group = IF image.c + 1 = (image.group + 1) * GroupSize THEN image.group + 1 ELSE image.group,
           !.stats = IF image.c + 1 = (image.group + 1) * GroupSize THEN {} ELSE image.stats]
    BY DEF ChannelWritten
  <2> QED BY ONLY <1>1, <1>4, <1>11, <2>1
<1>13. Normable(n) /\ b \in BOOLEAN
  BY DEF NormAt
<1>14. (k + 1) * S <= C
  <2>1. PICK d \in Nat : G = k + 1 + d
    <3>1. G - k - 1 \in Nat /\ G = k + 1 + (G - k - 1)
      BY <1>2, <1>5
    <3> QED BY <3>1
  <2>2. G * S = (k + 1) * S + d * S /\ d * S \in Nat /\ (k + 1) * S \in Nat
    BY <1>2, <1>5, <2>1
  <2> QED BY ONLY <1>2, <2>2
<1>15. CASE c + 1 = (k + 1) * S
  <2>1. image' = [op |-> "norm", of |-> n, same |-> b, group |-> k + 1, c |-> c + 1, stats |-> {}, out |-> Written(n, c + 1)]
    BY ONLY <1>3, <1>12, <1>15
  <2>2. k + 1 \in 0..G /\ c + 1 \in 0..C /\ (k + 1) * S <= c + 1
    BY <1>2, <1>5, <1>14, <1>15
  <2>3. k + 1 = G => c + 1 = C
    BY <1>2, <1>15
  <2>4. c + 1 < (k + 1 + 1) * S
    BY <1>2, <1>5, <1>15
  <2>5. NormAt(n, b, k + 1, c + 1, {})'
    BY ONLY <1>1, <1>13, <1>15, <2>1, <2>2, <2>3, <2>4 DEF NormAt
  <2> QED BY ONLY <1>1, <1>15, <2>5
<1>16. CASE c + 1 # (k + 1) * S
  <2>1. image' = [op |-> "norm", of |-> n, same |-> b, group |-> k, c |-> c + 1, stats |-> s, out |-> Written(n, c + 1)]
    BY ONLY <1>3, <1>12, <1>16
  <2>2. k \in 0..G /\ k # G /\ c + 1 \in 0..C /\ k * S <= c + 1 /\ c + 1 < (k + 1) * S
    BY <1>2, <1>5, <1>14, <1>16
  <2>3. NormAt(n, b, k, c + 1, s)'
    BY ONLY <1>1, <1>5, <1>13, <2>1, <2>2 DEF NormAt
  <2> QED BY ONLY <1>1, <1>16, <2>3
<1> QED BY <1>15, <1>16

\* The calls of the image operations keep the invariant.
THEOREM ImageInvariant == ImageSpec => []ImageInv
<1>1. ImageInit => ImageInv
  BY DEF ImageInit, ImageInv
<1>2. ImageInv /\ [ImageNext]_image => ImageInv'
  <2> SUFFICES ASSUME ImageInv, [ImageNext]_image PROVE ImageInv'
    OBVIOUS
  <2>1. CASE Convolve
    <3>1. PICK g \in Geometries : \/ Hout(g) > 0 /\ Wout(g) > 0 /\ image' = [op |-> "conv", of |-> g, out |-> nt_conv2d(g)]
                                  \/ image' = [op |-> "refused", of |-> g]
      BY <2>1 DEF Convolve
    <3> QED BY <3>1 DEF ImageInv
  <2>2. CASE Upsample
    <3>1. PICK g \in Geometries : image' = [op |-> "upsample", of |-> g, out |-> nt_upsample_nearest(g, g.stride)]
      BY <2>2 DEF Upsample
    <3> QED BY <3>1 DEF ImageInv
  <2>3. CASE Attend
    <3>1. PICK a \in Attentions :
            \/ a.t > 0 /\ a.s > 0 /\ a.d > 0 /\ image' = [op |-> "attention", of |-> a, out |-> nt_attention(a)]
            \/ image' = [op |-> "refused", of |-> a]
      BY <2>3 DEF Attend
    <3> QED BY <3>1 DEF ImageInv
  <2>4. CASE NormBegins
    <3>1. PICK n \in Norms, b \in BOOLEAN :
            image' = IF n.groups <= 0 THEN [op |-> "refused", of |-> n]
                     ELSE IF n.c % n.groups # 0 \/ (n.c \div n.groups) * n.spatial <= 0 THEN [op |-> "refused", of |-> n]
                     ELSE [op |-> "norm", of |-> n, same |-> b, group |-> 0, c |-> 0, stats |-> {},
                           out |-> [e \in Below(n.c * n.spatial) |-> NotYet]]
      BY <2>4 DEF NormBegins
    <3>2. CASE image' = [op |-> "refused", of |-> n]
      BY <3>2 DEF ImageInv
    <3>3. CASE /\ n.groups > 0 /\ n.c % n.groups = 0 /\ (n.c \div n.groups) * n.spatial > 0
               /\ image' = [op |-> "norm", of |-> n, same |-> b, group |-> 0, c |-> 0, stats |-> {},
                            out |-> [e \in Below(n.c * n.spatial) |-> NotYet]]
      <4>1. Normable(n)
        BY <3>3 DEF Normable, SizeOf
      <4>2. PICK S : S = SizeOf(n)
        OBVIOUS
      <4>3. n.c \in Nat /\ n.spatial \in Nat /\ n.groups \in Nat /\ n.groups >= 1 /\ S \in Nat /\ S >= 1
        BY <4>1, <4>2, NormNumbers
      <4>4. [e \in Below(n.c * n.spatial) |-> NotYet] = Written(n, 0)
        <5>1. 0 * n.spatial = 0
          BY <4>3
        <5>2. \A e \in 0..(n.c * n.spatial - 1) : ~(e < 0 * n.spatial)
          BY <4>3, <5>1
        <5> QED BY ONLY <5>2 DEF Written, Below, RoomOf
      <4>5. 0 \in 0..n.groups /\ 0 \in 0..n.c /\ 0 * S <= 0 /\ 0 # n.groups /\ 0 < (0 + 1) * S /\ 0 = 0 * S
        BY <4>3
      <4>6. NormAt(n, b, 0, 0, {})'
        BY ONLY <3>1, <3>3, <4>1, <4>2, <4>4, <4>5 DEF NormAt
      <4> QED BY ONLY <4>6 DEF ImageInv
    <3>4. n.groups \in Int /\ n.c \in Nat /\ n.spatial \in Nat
      BY ImageLimits
    <3>5. n.groups > 0 => n.c % n.groups \in Int /\ (n.c \div n.groups) * n.spatial \in Int
      BY <3>4
    <3> QED BY <3>1, <3>2, <3>3, <3>4, <3>5
  <2>5. CASE GroupStatistics
    <3>1. PICK n, b, k, c, s : NormAt(n, b, k, c, s)
      BY <2>5 DEF ImageInv, GroupStatistics, NoImage
    <3>2. NormAt(n, b, k, c, GroupOf(n, k))'
      BY <2>5, <3>1, StatisticsAreOfTheGroup
    <3> QED BY ONLY <3>2 DEF ImageInv
  <2>6. CASE ChannelWritten
    <3>1. PICK n, b, k, c, s : NormAt(n, b, k, c, s)
      BY <2>6 DEF ImageInv, ChannelWritten, NoImage
    <3>2. IF c + 1 = (k + 1) * SizeOf(n) THEN NormAt(n, b, k + 1, c + 1, {})' ELSE NormAt(n, b, k, c + 1, s)'
      BY <2>6, <3>1, ChannelIsWritten
    <3> QED BY ONLY <3>2 DEF ImageInv
  <2>7. CASE ImageReturned
    BY <2>7 DEF ImageReturned, ImageInv
  <2>8. CASE UNCHANGED image
    BY <2>8 DEF ImageInv, NormAt
  <2> QED BY <2>1, <2>2, <2>3, <2>4, <2>5, <2>6, <2>7, <2>8 DEF ImageNext
<1> QED BY <1>1, <1>2, PTL DEF ImageSpec

\* Each channel that is written is scaled by statistics of its whole group, and in the end all are.
LEMMA NormsWhole ==
  ASSUME NEW n, NEW b, NEW k, NEW c, NEW s, NormAt(n, b, k, c, s)
  PROVE  image.op = "norm" /\ NormedWhole
<1>1. image = [op |-> "norm", of |-> n, same |-> b, group |-> k, c |-> c, stats |-> s, out |-> Written(n, c)]
  BY DEF NormAt
<1>2. image.op = "norm" /\ image.of = n /\ image.group = k /\ image.out = Written(n, c)
  BY ONLY <1>1
<1>3. GroupSize = SizeOf(n)
  BY ONLY <1>2 DEF GroupSize, SizeOf
<1>4. DOMAIN Written(n, c) = 0..(RoomOf(n) - 1)
  BY DEF Written
<1>5. ASSUME NEW e \in 0..(RoomOf(n) - 1), Written(n, c)[e] # NotYet
      PROVE  Written(n, c)[e] = <<{f \in 0..(RoomOf(n) - 1) : f \div (SizeOf(n) * n.spatial) = e \div (SizeOf(n) * n.spatial)}, e>>
  <2>1. Written(n, c)[e] = <<GroupOf(n, e \div (SizeOf(n) * n.spatial)), e>>
    BY ONLY <1>5 DEF Written
  <2> QED BY ONLY <2>1 DEF GroupOf
<1>6. ASSUME k = n.groups, NEW e \in 0..(RoomOf(n) - 1)
      PROVE  Written(n, c)[e] # NotYet
  <2>1. c = n.c
    BY <1>6 DEF NormAt
  <2>2. n.c * n.spatial \in Int
    BY NormNumbers DEF NormAt
  <2>3. e < c * n.spatial
    BY ONLY <1>6, <2>1, <2>2 DEF RoomOf
  <2>4. Written(n, c)[e] = <<GroupOf(n, e \div (SizeOf(n) * n.spatial)), e>>
    BY ONLY <1>6, <2>3 DEF Written
  <2> QED BY ONLY <2>4 DEF NotYet
<1>7. NormDone => k = n.groups
  BY ONLY <1>2 DEF NormDone
<1> QED BY ONLY <1>2, <1>3, <1>4, <1>5, <1>6, <1>7 DEF NormedWhole

\* Whatever its shape, an image operation computes what it is named for: a convolution lays each
\* kernel over the image without its padding, a group is scaled by statistics of all of it also in
\* place, an upsampling copies squares, an attention weighs every key (notorch.c).
THEOREM ImagesAreWholeAlways == ImageSpec => []ImagesAreWhole
<1>1. ImageInv => ImagesAreWhole
  <2> SUFFICES ASSUME ImageInv PROVE ImagesAreWhole
    OBVIOUS
  <2>1. CASE image = NoImage
    BY <2>1 DEF ImagesAreWhole, NoImage
  <2>2. ASSUME NEW g \in Geometries, Hout(g) > 0, Wout(g) > 0, image = [op |-> "conv", of |-> g, out |-> nt_conv2d(g)]
        PROVE  ImagesAreWhole
    <3>1. image.op = "conv" /\ image.of = g /\ image.out = nt_conv2d(g)
      BY ONLY <2>2
    <3>2. ConvolvedWhole(g, nt_conv2d(g))
      BY <2>2, ConvolvesWhole
    <3> QED BY ONLY <3>1, <3>2 DEF ImagesAreWhole
  <2>3. ASSUME NEW g \in Geometries, image = [op |-> "upsample", of |-> g, out |-> nt_upsample_nearest(g, g.stride)]
        PROVE  ImagesAreWhole
    <3>1. image.op = "upsample" /\ image.of = g /\ image.out = nt_upsample_nearest(g, g.stride)
      BY ONLY <2>3
    <3>2. UpsampledWhole(g, g.stride, nt_upsample_nearest(g, g.stride))
      BY UpsamplesWhole
    <3> QED BY ONLY <3>1, <3>2 DEF ImagesAreWhole
  <2>4. ASSUME NEW a \in Attentions, a.t > 0, a.s > 0, a.d > 0, image = [op |-> "attention", of |-> a, out |-> nt_attention(a)]
        PROVE  ImagesAreWhole
    <3>1. image.op = "attention" /\ image.of = a /\ image.out = nt_attention(a)
      BY ONLY <2>4
    <3>2. AttendedWhole(a, nt_attention(a))
      BY <2>4, AttendsWhole
    <3> QED BY ONLY <3>1, <3>2 DEF ImagesAreWhole
  <2>5. ASSUME NEW of, image = [op |-> "refused", of |-> of]
        PROVE  ImagesAreWhole
    BY <2>5 DEF ImagesAreWhole
  <2>6. ASSUME NEW n, NEW b, NEW k, NEW c, NEW s, NormAt(n, b, k, c, s)
        PROVE  ImagesAreWhole
    <3>1. image.op = "norm" /\ NormedWhole
      BY <2>6, NormsWhole
    <3> QED BY ONLY <3>1 DEF ImagesAreWhole
  <2> QED BY <2>1, <2>2, <2>3, <2>4, <2>5, <2>6 DEF ImageInv
<1> QED BY <1>1, ImageInvariant, PTL
=============================================================================
