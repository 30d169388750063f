----------------------------- MODULE AmlAsyncProofs -----------------------------
(* Channels and spawned threads of the AML interpreter, for any scripts, any tables and
   any number of threads. First what a thread is at, then the rings: a write puts a value
   at the tail, a read takes the one at the head, both positions turn round the capacity,
   and what is between them is a queue. Nothing of that needs the lock to be held between
   two steps; what does is the tables, and they rest on one thread that launches.         *)
EXTENDS AmlAsync, FiniteSetTheorems, SequenceTheorems, WellFoundedInduction, TLAPS

Thread == [pc : Labels, code : Seq(Commands), i : Nat, n : Nat, slot : Nat, rc : {0, 1}, joins : Nat]
(* The provers do not know the name of a slot not used for a string. *)
Names == STRING \union {""}
Spawned == [name : Names, active : BOOLEAN, joined : BOOLEAN, result : {0, 1},
            thread : Threads \union {Nobody}]
Cells == [0..(Buf - 1) -> Int]
Ring  == [name : Names, active : BOOLEAN, cap : 0..Buf, head : Nat, tail : Nat, count : Nat,
         data : Cells]
Log  == [sent : Seq(Int), got : Seq(Int)]

(* A block is there for each spawn that is left in a script. *)
Named(code) == \A k \in DOMAIN code : code[k].op = "spawn" => code[k].name \in DOMAIN body

(* A thread in the middle of a command is in the one at the head of its code. *)
Fits(label, code, i) ==
  /\ label \in {"create", "load", "store"} => code # <<>> /\ Head(code).op = "spawn"
  /\ label \in {"scan", "join", "joined"} =>
       code # <<>> /\ Head(code).op \in {"await", "awaitall", "init"}
  /\ label = "close" => code # <<>> /\ Head(code).op = "init"
  /\ label = "count" => code # <<>> /\ Head(code).op = "create"
  /\ label \in {"try", "sleep"} => code # <<>> /\ Head(code).op \in {"write", "read"} /\ i \in Rings
  /\ label = "create" => i \in Slots
  /\ label \in {"unborn", "marked", "exited"} => code = <<>>

ThreadAt(t) == Named(th[t].code) /\ Fits(th[t].pc, th[t].code, th[t].i)
ThreadInv == th \in [Threads -> Thread] /\ \A t \in Threads : ThreadAt(t)

BodyInv == \A n \in DOMAIN body : body[n] \in Seq(Commands) /\ Named(body[n])

TableInv == /\ spawns \in [Slots -> Spawned] /\ spawnCount \in Nat /\ ringCount \in Nat
            /\ mutex \in Threads \union {Nobody}

(* Where the k-th value of a ring is, and what a ring holds, position by position. *)
Spot(h, k, c) == (h + k - 1) % c
Held(d, h, n, c) == [k \in 1..n |-> d[Spot(h, k, c)]]

(* The positions of a ring, and what its history says it holds. *)
Queue(r, l) ==
  /\ r.count <= r.cap
  /\ r.head < r.cap \/ (r.cap = 0 /\ r.head = 0)
  /\ IF r.cap = 0 THEN r.tail = 0 ELSE r.tail = Spot(r.head, r.count + 1, r.cap)
  /\ l.sent = l.got \o Held(r.data, r.head, r.count, r.cap)

RingInv == /\ rings \in [Rings -> Ring] /\ log \in [Rings -> Log]
           /\ \A r \in Rings : Queue(rings[r], log[r])

CodeInv == ThreadInv /\ BodyInv /\ TableInv

-----------------------------------------------------------------------------
(* Positions of a ring. *)

(* A position below the capacity is itself, one past it has turned round once. *)
LEMMA ModBelow == \A a, c \in Nat : a < c => a % c = a
OBVIOUS

(* The same, past the capacity. *)
LEMMA ModPast == \A a, c \in Nat : c > 0 /\ c <= a /\ a < 2 * c => a % c = a - c
OBVIOUS

(* A position is one of the ring's. *)
LEMMA ModRange == \A a, c \in Nat : c > 0 => a % c \in Nat /\ a % c < c
OBVIOUS

(* Both, for a position not twice past it. *)
LEMMA ModTurns ==
  \A a, c \in Nat : c > 0 /\ a < 2 * c =>
    /\ a % c \in Nat /\ a % c < c
    /\ a < c => a % c = a
    /\ c <= a => a % c = a - c
BY ModBelow, ModPast, ModRange

(* The tail, moved by one, is where one value more ends. *)
LEMMA TailMoves ==
  ASSUME NEW h \in Nat, NEW a \in Nat, NEW c \in Nat, h < c, a < c
  PROVE  (((h + a) % c) + 1) % c = (h + a + 1) % c
<1>1. CASE h + a < c
  BY <1>1, ModBelow
<1>2. CASE c <= h + a
  <2>1. (h + a) % c = h + a - c
    BY <1>2, ModPast
  <2>2. (h + a - c + 1) % c = h + a - c + 1
    BY <1>2, ModBelow
  <2>3. (h + a + 1) % c = h + a + 1 - c
    BY <1>2, ModPast
  <2> QED BY <2>1, <2>2, <2>3
<1> QED BY <1>1, <1>2

(* The head, moved by one, leaves every other position where it was. *)
LEMMA HeadMoves ==
  ASSUME NEW h \in Nat, NEW a \in Nat, NEW c \in Nat, h < c, a < c,
         NEW y \in Nat, y = (h + 1) % c
  PROVE  (y + a) % c = (h + 1 + a) % c
<1>1. CASE h + 1 < c
  BY <1>1, ModBelow
<1>2. CASE h + 1 = c
  <2>1. y = 0
    BY <1>2, ModPast
  <2>2. a % c = a
    BY ModBelow
  <2>3. (c + a) % c = a
    BY ModPast
  <2> QED BY <1>2, <2>1, <2>2, <2>3
<1> QED BY <1>1, <1>2

(* Two values of a ring are not at one position. *)
LEMMA PlacesDiffer ==
  ASSUME NEW h \in Nat, NEW a \in Nat, NEW b \in Nat, NEW c \in Nat, h < c, a < b, b < c
  PROVE  (h + a) % c # (h + b) % c
<1> DEFINE x == (h + a) % c
           y == (h + b) % c
<1>1. /\ x \in Nat
      /\ h + a < c => x = h + a
      /\ c <= h + a => x = h + a - c
  <2>1. h + a \in Nat /\ h + a < 2 * c /\ c > 0
    OBVIOUS
  <2> QED BY <2>1, ModTurns
<1>2. /\ y \in Nat
      /\ h + b < c => y = h + b
      /\ c <= h + b => y = h + b - c
  <2>1. h + b \in Nat /\ h + b < 2 * c /\ c > 0
    OBVIOUS
  <2> QED BY <2>1, ModTurns
<1> HIDE DEF x, y
<1>3. x # y
  BY <1>1, <1>2
<1> QED BY <1>3 DEF x, y

-----------------------------------------------------------------------------
(* A ring as a queue. *)

(* The content of a ring in these terms. *)
LEMMA ContentIsHeld == \A r : Content(r) = Held(r.data, r.head, r.count, r.cap)
BY DEF Content, Held, Spot

(* The place after k values is k past the head. *)
LEMMA SpotAfter ==
  ASSUME NEW h \in Nat, NEW k \in Nat, NEW c PROVE Spot(h, k + 1, c) = (h + k) % c
<1>1. h + (k + 1) - 1 = h + k
  OBVIOUS
<1> QED BY <1>1 DEF Spot

(* Every place is within the capacity. *)
LEMMA SpotType ==
  ASSUME NEW h \in Nat, NEW k \in Nat \ {0}, NEW c \in Nat, c > 0
  PROVE  Spot(h, k, c) \in 0..(c - 1)
<1>1. h + k - 1 \in Nat
  OBVIOUS
<1>2. \A x \in Nat : x % c \in Nat /\ x % c < c
  BY ModRange
<1>3. Spot(h, k, c) \in Nat /\ Spot(h, k, c) < c
  BY <1>1, <1>2 DEF Spot
<1> QED BY <1>3

(* The places of two values differ. *)
LEMMA SpotsDiffer ==
  ASSUME NEW h \in Nat, NEW k \in Nat \ {0}, NEW m \in Nat, NEW c \in Nat, h < c, k < m, m <= c
  PROVE  Spot(h, k, c) # Spot(h, m, c)
<1>1. PICK a \in Nat : a = k - 1
  OBVIOUS
<1>2. PICK b \in Nat : b = m - 1
  OBVIOUS
<1>3. k = a + 1 /\ m = b + 1 /\ a < b /\ b < c
  BY <1>1, <1>2
<1>4. (h + a) % c # (h + b) % c
  BY <1>3, PlacesDiffer
<1> QED BY <1>3, <1>4, SpotAfter

(* When the head moves by one, the places that stay have one number less. *)
LEMMA SpotsMove ==
  ASSUME NEW h \in Nat, NEW k \in Nat \ {0}, NEW c \in Nat, h < c, k <= c,
         NEW h2 \in Nat, h2 = Spot(h, 2, c)
  PROVE  Spot(h2, k, c) = Spot(h, k + 1, c)
<1>1. PICK a \in Nat : a = k - 1
  OBVIOUS
<1>2. k = a + 1 /\ a < c
  BY <1>1
<1>3. h2 = (h + 1) % c
  <2>1. Spot(h, 1 + 1, c) = (h + 1) % c
    BY SpotAfter
  <2> QED BY <2>1
<1>4. (h2 + a) % c = (h + 1 + a) % c
  BY <1>2, <1>3, HeadMoves
<1>5. h + 1 + a = h + k /\ k \in Nat
  BY <1>2
<1>6. Spot(h2, a + 1, c) = (h2 + a) % c
  BY SpotAfter
<1>7. Spot(h, k + 1, c) = (h + k) % c
  BY <1>5, SpotAfter
<1> QED BY <1>2, <1>4, <1>5, <1>6, <1>7

(* What a ring holds is a sequence of values. *)
LEMMA HeldType ==
  ASSUME NEW c \in Nat, NEW h \in Nat, NEW n \in Nat, c <= Buf, n <= c,
         NEW d \in Cells
  PROVE  /\ Held(d, h, n, c) \in Seq(Int) /\ Len(Held(d, h, n, c)) = n
         /\ \A k \in 1..n : Held(d, h, n, c)[k] = d[Spot(h, k, c)]
<1>1. ASSUME NEW k \in 1..n PROVE d[Spot(h, k, c)] \in Int
  <2>1. k \in Nat \ {0} /\ c > 0
    OBVIOUS
  <2>2. Spot(h, k, c) \in 0..(c - 1)
    BY <2>1, SpotType
  <2>3. Spot(h, k, c) \in 0..(Buf - 1)
    BY <2>2, Limits
  <2> QED BY <2>3 DEF Cells
<1> QED BY <1>1 DEF Held

(* A value put behind the last one is appended. *)
LEMMA HeldWrites ==
  ASSUME NEW c \in Nat, NEW h \in Nat, NEW n \in Nat, c <= Buf, n < c, h < c,
         NEW d \in Cells, NEW e \in Cells, NEW v \in Int,
         e[Spot(h, n + 1, c)] = v,
         \A x \in 0..(Buf - 1) : x # Spot(h, n + 1, c) => e[x] = d[x]
  PROVE  Held(e, h, n + 1, c) = Append(Held(d, h, n, c), v)
<1>1. /\ Held(e, h, n + 1, c) \in Seq(Int) /\ Len(Held(e, h, n + 1, c)) = n + 1
      /\ \A k \in 1..(n + 1) : Held(e, h, n + 1, c)[k] = e[Spot(h, k, c)]
  <2>1. n + 1 \in Nat /\ n + 1 <= c
    OBVIOUS
  <2> QED BY <2>1, HeldType
<1>2. /\ Held(d, h, n, c) \in Seq(Int) /\ Len(Held(d, h, n, c)) = n
      /\ \A k \in 1..n : Held(d, h, n, c)[k] = d[Spot(h, k, c)]
  <2>1. n \in Nat /\ n <= c
    OBVIOUS
  <2> QED BY <2>1, HeldType
<1>3. ASSUME NEW k \in 1..n PROVE e[Spot(h, k, c)] = d[Spot(h, k, c)]
  <2>1. k \in Nat \ {0} /\ c > 0 /\ k < n + 1 /\ n + 1 <= c
    OBVIOUS
  <2>2. Spot(h, k, c) # Spot(h, n + 1, c)
    BY <2>1, SpotsDiffer
  <2>3. Spot(h, k, c) \in 0..(c - 1)
    BY <2>1, SpotType
  <2>4. Spot(h, k, c) \in 0..(Buf - 1)
    BY <2>3, Limits
  <2> QED BY <2>2, <2>4
<1> DEFINE s == Held(d, h, n, c)
           t == Held(e, h, n + 1, c)
<1>4. t[n + 1] = v
  <2>1. n + 1 \in 1..(n + 1)
    OBVIOUS
  <2> QED BY <1>1, <2>1
<1>8. \A k \in 1..n : t[k] = s[k]
  <2>1. \A k \in 1..n : k \in 1..(n + 1)
    OBVIOUS
  <2> QED BY <1>1, <1>2, <1>3, <2>1
<1>5. t \in Seq(Int) /\ s \in Seq(Int) /\ Len(s) = n /\ Len(t) = n + 1
  BY <1>1, <1>2
<1> HIDE DEF s, t
<1>6. t = Append(s, v)
  BY <1>4, <1>5, <1>8
<1> QED BY <1>6 DEF s, t

(* What is left when the value at the head is taken are the values behind it. *)
LEMMA HeldReads ==
  ASSUME NEW c \in Nat, NEW h \in Nat, NEW n \in Nat \ {0}, c <= Buf, n <= c, h < c,
         NEW d \in Cells, NEW h2 \in Nat, h2 = Spot(h, 2, c)
  PROVE  Held(d, h, n, c) = <<d[h]>> \o Held(d, h2, n - 1, c)
<1>1. /\ Held(d, h, n, c) \in Seq(Int) /\ Len(Held(d, h, n, c)) = n
      /\ \A k \in 1..n : Held(d, h, n, c)[k] = d[Spot(h, k, c)]
  <2>1. n \in Nat /\ n <= c
    OBVIOUS
  <2> QED BY <2>1, HeldType
<1>2. /\ Held(d, h2, n - 1, c) \in Seq(Int) /\ Len(Held(d, h2, n - 1, c)) = n - 1
      /\ \A k \in 1..(n - 1) : Held(d, h2, n - 1, c)[k] = d[Spot(h2, k, c)]
  <2>1. n - 1 \in Nat /\ n - 1 <= c
    OBVIOUS
  <2> QED BY <2>1, HeldType
<1>3. ASSUME NEW k \in 1..(n - 1) PROVE d[Spot(h2, k, c)] = d[Spot(h, k + 1, c)]
  <2>1. k \in Nat \ {0} /\ k <= c
    OBVIOUS
  <2> QED BY <2>1, SpotsMove
<1>4. Spot(h, 1, c) = h
  <2>1. h + 1 - 1 = h
    OBVIOUS
  <2>2. h % c = h
    BY ModBelow
  <2> QED BY <2>1, <2>2 DEF Spot
<1> DEFINE s == Held(d, h, n, c)
           t == Held(d, h2, n - 1, c)
           v == d[h]
<1>5. s[1] = v
  <2>1. 1 \in 1..n
    OBVIOUS
  <2> QED BY <1>1, <1>4, <2>1
<1>8. \A k \in 1..(n - 1) : t[k] = s[k + 1]
  <2>1. \A k \in 1..(n - 1) : k + 1 \in 1..n
    OBVIOUS
  <2> QED BY <1>1, <1>2, <1>3, <2>1
<1>6. s \in Seq(Int) /\ t \in Seq(Int) /\ Len(s) = n /\ Len(t) = n - 1 /\ v \in Int
  <2>1. h \in 0..(Buf - 1)
    BY Limits
  <2> QED BY <1>1, <1>2, <2>1 DEF Cells
<1> HIDE DEF s, t, v
<1>7. s = <<v>> \o t
  BY <1>5, <1>6, <1>8
<1> QED BY <1>7 DEF s, t, v

(* The places the code computes when it moves the tail and the head. *)
LEMMA NextPlaces ==
  ASSUME NEW h \in Nat, NEW n \in Nat, NEW c \in Nat, h < c
  PROVE  /\ (h + 1) % c = Spot(h, 2, c)
         /\ n < c => (Spot(h, n + 1, c) + 1) % c = Spot(h, n + 2, c)
<1>1. Spot(h, 1 + 1, c) = (h + 1) % c
  BY SpotAfter
<1>2. ASSUME n < c PROVE (Spot(h, n + 1, c) + 1) % c = Spot(h, n + 2, c)
  <2>1. Spot(h, n + 1, c) = (h + n) % c
    BY SpotAfter
  <2>2. PICK m \in Nat : m = n + 1
    OBVIOUS
  <2>3. Spot(h, m + 1, c) = (h + m) % c
    BY SpotAfter
  <2>4. m + 1 = n + 2 /\ h + m = h + n + 1
    BY <2>2
  <2>5. (((h + n) % c) + 1) % c = (h + n + 1) % c
    BY <1>2, TailMoves
  <2> QED BY <2>1, <2>3, <2>4, <2>5
<1> QED BY <1>1, <1>2

(* Every string is a name, and so is that of what is not used. *)
LEMMA NamesAreNames == "" \in Names /\ \A x \in STRING : x \in Names
BY Zenon DEF Names

(* The types of a ring's fields. *)
LEMMA RingFields ==
  ASSUME NEW r \in Ring
  PROVE  /\ r.count \in Nat /\ r.cap \in Nat /\ r.cap <= Buf /\ r.head \in Nat /\ r.tail \in Nat
         /\ r.data \in Cells /\ r.name \in Names /\ r.active \in BOOLEAN
BY Limits DEF Ring

(* A ring just created, or never used, is an empty queue. *)
LEMMA EmptyQueue ==
  ASSUME NEW r \in Ring, NEW l \in Log, r.head = 0, r.tail = 0, r.count = 0,
         l.sent = <<>>, l.got = <<>>
  PROVE  Queue(r, l)
<1>1. r.count <= r.cap /\ (r.head < r.cap \/ (r.cap = 0 /\ r.head = 0))
  BY RingFields
<1>2. r.cap > 0 => Spot(0, 0 + 1, r.cap) = 0
  <2>1. Spot(0, 0 + 1, r.cap) = (0 + 0) % r.cap
    BY SpotAfter
  <2>2. r.cap > 0 => 0 % r.cap = 0
    BY RingFields, ModBelow
  <2> QED BY <2>1, <2>2
<1>3. IF r.cap = 0 THEN r.tail = 0 ELSE r.tail = Spot(r.head, r.count + 1, r.cap)
  BY <1>2, RingFields
<1>4. l.sent = l.got \o Held(r.data, r.head, r.count, r.cap)
  <2>1. Held(r.data, r.head, r.count, r.cap) = <<>>
    BY DEF Held
  <2> QED BY <2>1
<1> QED BY <1>1, <1>3, <1>4 DEF Queue

(* Appending to what follows. *)
LEMMA AppendOver ==
  ASSUME NEW s \in Seq(Int), NEW t \in Seq(Int), NEW v \in Int
  PROVE  Append(s \o t, v) = s \o Append(t, v)
<1>1. s \o t \in Seq(Int) /\ <<v>> \in Seq(Int)
  OBVIOUS
<1>2. (s \o t) \o <<v>> = s \o (t \o <<v>>)
  BY <1>1, ConcatAssociative
<1> QED BY <1>1, <1>2, AppendIsConcat

(* The first of what follows moves over. *)
LEMMA FirstMovesOver == \A s, t \in Seq(Int), v \in Int : s \o (<<v>> \o t) = Append(s, v) \o t
OBVIOUS

(* The types of a history's two parts. *)
LEMMA LogFields == \A l \in Log : l.sent \in Seq(Int) /\ l.got \in Seq(Int)
BY DEF Log

(* What a queue says of a ring that has a capacity. *)
LEMMA QueueFacts ==
  ASSUME NEW r \in Ring, NEW l \in Log, Queue(r, l), r.cap > 0
  PROVE  /\ r.count <= r.cap /\ r.head < r.cap /\ r.tail = Spot(r.head, r.count + 1, r.cap)
         /\ r.tail \in 0..(r.cap - 1) /\ r.head \in 0..(Buf - 1) /\ r.tail \in 0..(Buf - 1)
         /\ l.sent = l.got \o Held(r.data, r.head, r.count, r.cap)
<1>1. r.cap \in Nat /\ r.count \in Nat /\ r.head \in Nat /\ r.cap <= Buf
  BY RingFields
<1>2. /\ r.count <= r.cap /\ r.head < r.cap /\ r.tail = Spot(r.head, r.count + 1, r.cap)
      /\ l.sent = l.got \o Held(r.data, r.head, r.count, r.cap)
  BY <1>1 DEF Queue
<1>3. r.tail \in 0..(r.cap - 1)
  <2>1. r.count + 1 \in Nat \ {0}
    BY <1>1
  <2> QED BY <1>1, <1>2, <2>1, SpotType
<1> QED BY <1>1, <1>2, <1>3, Limits

(* A value put at the tail is the last of the queue. *)
LEMMA QueueWrites ==
  ASSUME NEW r \in Ring, NEW l \in Log, NEW v \in Int, Queue(r, l), r.count < r.cap,
         NEW r2 \in Ring, NEW l2 \in Log,
         r2.cap = r.cap, r2.head = r.head, r2.count = r.count + 1,
         r2.tail = Spot(r.head, r.count + 2, r.cap),
         r2.data[r.tail] = v, \A x \in 0..(Buf - 1) : x # r.tail => r2.data[x] = r.data[x],
         l2.sent = Append(l.sent, v), l2.got = l.got
  PROVE  Queue(r2, l2)
<1> DEFINE h == r.head
           n == r.count
           c == r.cap
           d == r.data
           e == r2.data
<1>1. /\ n \in Nat /\ c \in Nat /\ c <= Buf /\ h \in Nat /\ d \in Cells /\ e \in Cells
      /\ n < c /\ c > 0
  BY RingFields
<1>2. h < c /\ r.tail = Spot(h, n + 1, c) /\ l.sent = l.got \o Held(d, h, n, c)
  BY <1>1, QueueFacts
<1>3. e[Spot(h, n + 1, c)] = v /\ \A x \in 0..(Buf - 1) : x # Spot(h, n + 1, c) => e[x] = d[x]
  BY <1>2
<1>4. r2.cap = c /\ r2.head = h /\ r2.count = n + 1 /\ r2.tail = Spot(h, n + 2, c)
  OBVIOUS
<1> HIDE DEF h, n, c, d, e
<1>5. Held(e, h, n + 1, c) = Append(Held(d, h, n, c), v)
  BY <1>1, <1>2, <1>3, HeldWrites
<1>6. Held(d, h, n, c) \in Seq(Int) /\ l.got \in Seq(Int)
  <2>1. n <= c
    BY <1>1
  <2> QED BY <1>1, <2>1, HeldType, LogFields
<1>8. l2.sent = l2.got \o Held(e, h, n + 1, c)
  BY <1>2, <1>5, <1>6, AppendOver
<1>9. n + 1 <= c /\ c # 0 /\ n + 1 + 1 = n + 2
  BY <1>1
<1> QED BY <1>2, <1>4, <1>8, <1>9 DEF Queue, e

(* The value taken at the head is the first of the queue. *)
LEMMA QueueReads ==
  ASSUME NEW r \in Ring, NEW l \in Log, Queue(r, l), r.count # 0,
         NEW r2 \in Ring, NEW l2 \in Log,
         r2.cap = r.cap, r2.head = Spot(r.head, 2, r.cap), r2.count = r.count - 1,
         r2.tail = r.tail, r2.data = r.data,
         l2.sent = l.sent, l2.got = Append(l.got, r.data[r.head])
  PROVE  Queue(r2, l2)
<1> DEFINE h == r.head
           n == r.count
           c == r.cap
           d == r.data
           h2 == r2.head
           v == d[h]
<1>1. /\ n \in Nat \ {0} /\ c \in Nat /\ c <= Buf /\ h \in Nat /\ d \in Cells /\ h2 \in Nat
  BY RingFields
<1>2. n <= c /\ c > 0
  BY <1>1 DEF Queue
<1>3. /\ h < c /\ r.tail = Spot(h, n + 1, c) /\ l.sent = l.got \o Held(d, h, n, c)
      /\ h \in 0..(Buf - 1)
  BY <1>2, QueueFacts
<1>4. v \in Int
  BY <1>1, <1>3 DEF Cells
<1>5. h2 = Spot(h, 2, c)
  OBVIOUS
<1>6. /\ r2.head = h2 /\ r2.cap = c /\ r2.count = n - 1 /\ r2.tail = r.tail /\ r2.data = d
      /\ l2.sent = l.sent /\ l2.got = Append(l.got, v)
  OBVIOUS
<1> HIDE DEF h, n, c, d, h2, v
<1>7. h2 < c
  <2>1. h2 = (h + 1) % c
    BY <1>1, <1>3, <1>5, NextPlaces
  <2> QED BY <1>1, <1>2, <2>1, ModRange
<1>8. Spot(h2, n, c) = Spot(h, n + 1, c)
  BY <1>1, <1>2, <1>3, <1>5, SpotsMove
<1>9. Held(d, h, n, c) = <<v>> \o Held(d, h2, n - 1, c)
  <2>1. Held(d, h, n, c) = <<d[h]>> \o Held(d, h2, n - 1, c)
    BY <1>1, <1>2, <1>3, <1>5, HeldReads, SMTT(60)
  <2> QED BY <2>1 DEF v
<1>10. Held(d, h2, n - 1, c) \in Seq(Int) /\ l.got \in Seq(Int)
  <2>1. n - 1 \in Nat /\ n - 1 <= c
    BY <1>1, <1>2
  <2> QED BY <1>1, <2>1, HeldType, LogFields
<1>11. l2.sent = l2.got \o Held(d, h2, n - 1, c)
  <2>1. l.sent = l.got \o (<<v>> \o Held(d, h2, n - 1, c))
    BY <1>3, <1>9
  <2>2. l.got \o (<<v>> \o Held(d, h2, n - 1, c)) = Append(l.got, v) \o Held(d, h2, n - 1, c)
    BY <1>4, <1>10, FirstMovesOver
  <2> QED BY <1>6, <2>1, <2>2
<1>12. n - 1 <= c /\ c # 0 /\ (n - 1) + 1 = n
  BY <1>1, <1>2
<1>13. IF r2.cap = 0 THEN r2.tail = 0 ELSE r2.tail = Spot(r2.head, r2.count + 1, r2.cap)
  BY <1>3, <1>6, <1>8, <1>12
<1>14. r2.count <= r2.cap /\ r2.head < r2.cap
  BY <1>7, <1>6, <1>12
<1>15. l2.sent = l2.got \o Held(r2.data, r2.head, r2.count, r2.cap)
  BY <1>6, <1>11
<1> QED BY <1>13, <1>14, <1>15 DEF Queue

-----------------------------------------------------------------------------
(* Scripts and the threads that run them. *)

(* What a command carries. *)
LEMMA CommandFields ==
  ASSUME NEW c \in Commands
  PROVE  /\ c.op \in {"spawn", "await", "close", "read", "write", "create", "awaitall", "init", "closeall"}
         /\ c.op \in {"spawn", "await", "close", "read", "write", "create"} => c.name \in STRING
         /\ c.op = "write" => c.val \in Int
         /\ c.op = "create" => c.cap \in Int
<1>1. CASE c \in [op : {"spawn", "await", "close"}, name : STRING]
  BY <1>1
<1>2. CASE c \in [op : {"read"}, name : STRING]
  BY <1>2
<1>3. CASE c \in [op : {"write"}, name : STRING, val : Int]
  BY <1>3
<1>4. CASE c \in [op : {"create"}, name : STRING, cap : Int]
  BY <1>4
<1>5. CASE c \in [op : {"awaitall", "init", "closeall"}]
  BY <1>5
<1> QED BY <1>1, <1>2, <1>3, <1>4, <1>5 DEF Commands

(* The command at the head, and those after it. *)
LEMMA CodeParts ==
  ASSUME NEW s \in Seq(Commands), s # <<>>
  PROVE  /\ Head(s) \in Commands /\ Tail(s) \in Seq(Commands)
         /\ Head(s) = s[1] /\ 1 \in DOMAIN s
         /\ \A k \in DOMAIN Tail(s) : k + 1 \in DOMAIN s /\ Tail(s)[k] = s[k + 1]
OBVIOUS

(* The blocks of the spawns that are left are named in what is left. *)
LEMMA NamedTail ==
  ASSUME NEW s \in Seq(Commands), s # <<>>, Named(s) PROVE Named(Tail(s))
BY CodeParts DEF Named

(* A thread at its next command may be anywhere in its script. *)
LEMMA NextFits == \A code, i : Fits("next", code, i)
BY DEF Fits

(* Threads that do not move stay where their command is. *)
LEMMA ThreadFrame ==
  ASSUME NEW u \in Threads, ThreadAt(u), th'[u] = th[u], body' = body PROVE ThreadAt(u)'
BY DEF ThreadAt, Named

(* The fields of a thread. *)
LEMMA ThreadFields ==
  ASSUME NEW x \in Thread
  PROVE  /\ x.pc \in Labels /\ x.code \in Seq(Commands) /\ x.i \in Nat /\ x.n \in Nat
         /\ x.slot \in Nat /\ x.rc \in {0, 1} /\ x.joins \in Nat
BY DEF Thread

(* A thread that goes on in its command is still in it. *)
LEMMA GoesOn ==
  ASSUME ThreadInv, NEW t \in Threads, NEW label \in Labels, NEW i \in Nat, NEW n \in Nat,
         Goto(t, label, i, n), Fits(label, th[t].code, i), body' = body
  PROVE  ThreadInv'
<1>1. th \in [Threads -> Thread] /\ \A u \in Threads : ThreadAt(u)
  BY DEF ThreadInv
<1>2. th[t] \in Thread
  BY <1>1
<1>3. th' = [th EXCEPT ![t] = [th[t] EXCEPT !.pc = label, !.i = i, !.n = n]]
  BY <1>1 DEF Goto
<1>4. [th[t] EXCEPT !.pc = label, !.i = i, !.n = n] \in Thread
  BY <1>2 DEF Thread
<1>5. th' \in [Threads -> Thread] /\ \A u \in Threads \ {t} : th'[u] = th[u]
  BY <1>1, <1>3, <1>4
<1>6. th'[t].pc = label /\ th'[t].i = i /\ th'[t].code = th[t].code
  BY <1>1, <1>2, <1>3 DEF Thread
<1>7. ThreadAt(t)'
  BY <1>1, <1>6 DEF ThreadAt, Named
<1> QED BY <1>1, <1>5, <1>7, ThreadFrame DEF ThreadInv

(* A thread that ends a command is at the next. *)
LEMMA GoesBack ==
  ASSUME ThreadInv, NEW t \in Threads, th[t].code # <<>>, Return(t), body' = body
  PROVE  ThreadInv'
<1>1. th \in [Threads -> Thread] /\ \A u \in Threads : ThreadAt(u)
  BY DEF ThreadInv
<1>2. th[t] \in Thread /\ th[t].code \in Seq(Commands) /\ Tail(th[t].code) \in Seq(Commands)
  BY <1>1, ThreadFields, CodeParts
<1>3. th' = [th EXCEPT ![t] = [th[t] EXCEPT !.pc = "next", !.i = 0, !.n = 0, !.code = Tail(th[t].code)]]
  BY <1>1 DEF Return
<1>4. [th[t] EXCEPT !.pc = "next", !.i = 0, !.n = 0, !.code = Tail(th[t].code)] \in Thread
  BY <1>2 DEF Thread, Labels
<1>5. th' \in [Threads -> Thread] /\ \A u \in Threads \ {t} : th'[u] = th[u]
  BY <1>1, <1>3, <1>4
<1>6. th'[t].pc = "next" /\ th'[t].code = Tail(th[t].code)
  BY <1>1, <1>2, <1>3 DEF Thread
<1>7. ThreadAt(t)'
  <2>1. Named(Tail(th[t].code))
    BY <1>1, <1>2, NamedTail DEF ThreadAt
  <2>2. Named(th[t].code)'
    BY <1>6, <2>1 DEF Named
  <2>3. Fits(th[t].pc, th[t].code, th[t].i)'
    BY <1>6, NextFits
  <2> QED BY <2>2, <2>3 DEF ThreadAt
<1> QED BY <1>1, <1>5, <1>7, ThreadFrame DEF ThreadInv

(* A set of natural numbers that is not empty has the minimum that Min chooses. *)
LEMMA LowestIsFound ==
  ASSUME NEW T, T \subseteq Nat, T # {}
  PROVE  Min(T) \in T /\ \A y \in T : Min(T) <= y
<1> DEFINE Below == {1 .. x : x \in T}
<1>1. Below \subseteq FiniteSubsetsOf(Nat)
  <2>1. \A x \in T : IsFiniteSet(1 .. x) /\ 1 .. x \subseteq Nat
    BY FS_Interval
  <2> QED BY <2>1 DEF FiniteSubsetsOf
<1>2. Below # {}
  OBVIOUS
<1>3. IsWellFoundedOn(StrictSubsetOrdering(Nat), FiniteSubsetsOf(Nat))
  BY FS_StrictSubsetOrderingWellFounded
<1>4. PICK b \in Below : \A c \in Below : ~ (<<c, b>> \in StrictSubsetOrdering(Nat))
  BY <1>1, <1>2, <1>3, WFMin
<1>5. PICK x \in T : b = 1 .. x
  OBVIOUS
<1>6. ASSUME NEW y \in T PROVE x <= y
  <2>1. ~ (<<1 .. y, 1 .. x>> \in StrictSubsetOrdering(Nat))
    BY <1>4, <1>5
  <2>2. <<1 .. y, 1 .. x>> \in (SUBSET Nat) \X (SUBSET Nat)
    OBVIOUS
  <2>3. SUFFICES ASSUME y < x PROVE FALSE
    OBVIOUS
  <2>4. x \in 1 .. x /\ x \notin 1 .. y
    BY <2>3
  <2>5. 1 .. y \subseteq 1 .. x
    BY <2>3
  <2> QED BY <2>1, <2>2, <2>4, <2>5 DEF StrictSubsetOrdering
<1>7. \E m \in T : \A y \in T : m <= y
  BY <1>6
<1> QED BY <1>7 DEF Min

(* The channel a command finds is one of the table. *)
LEMMA FoundIsRing ==
  ASSUME NEW name, Found(name) # {}
  PROVE  Min(Found(name)) \in Found(name) /\ Min(Found(name)) \in Rings /\ Min(Found(name)) \in Nat
<1>1. Rings \subseteq Nat
  BY Limits DEF Rings
<1>2. Found(name) \subseteq Rings
  BY DEF Found
<1> QED BY <1>1, <1>2, LowestIsFound

-----------------------------------------------------------------------------
(* Every step keeps threads, blocks and tables what they are. *)

(* The blocks of a run do not change. *)
LEMMA BodyStays == ASSUME BodyInv, body' = body PROVE BodyInv'
BY DEF BodyInv, Named

(* Tables no command touches. *)
LEMMA TableStays ==
  ASSUME TableInv, UNCHANGED <<spawns, spawnCount, ringCount, mutex>> PROVE TableInv'
BY DEF TableInv

(* A slot not used is one. *)
LEMMA NoSlotIsSpawned == NoSlot \in Spawned
<1>1. \A x \in Names : [name |-> x, active |-> FALSE, joined |-> FALSE, result |-> 0,
                        thread |-> Nobody] \in Spawned
  BY DEF Spawned
<1> QED BY <1>1, NamesAreNames, Zenon DEF NoSlot

(* The host's thread is at the first command of its script, the others are to come. *)
LEMMA CodeInit == ASSUME Init PROVE CodeInv
<1>1. PICK p \in Programs :
        /\ body = p.body
        /\ th = [t \in Threads |-> IF t = Main THEN [Unborn EXCEPT !.pc = "next", !.code = p.main]
                                   ELSE Unborn]
        /\ spawns = [s \in Slots |-> NoSlot] /\ spawnCount = 0
        /\ ringCount = 0 /\ mutex = Nobody
  BY DEF Init
<1>2. /\ p.main \in Seq(Commands) /\ \A n \in DOMAIN p.body : p.body[n] \in Seq(Commands)
      /\ \A k \in DOMAIN p.main : p.main[k].op = "spawn" => p.main[k].name \in DOMAIN body
      /\ \A n \in DOMAIN p.body : \A k \in DOMAIN p.body[n] :
           p.body[n][k].op = "spawn" => p.body[n][k].name \in DOMAIN body
  BY <1>1, ScriptsAreCommands
<1>3. BodyInv
  BY <1>1, <1>2 DEF BodyInv, Named
<1>4. TableInv
  <2>2. spawns \in [Slots -> Spawned]
    BY <1>1, NoSlotIsSpawned
  <2>3. spawnCount \in Nat /\ ringCount \in Nat /\ mutex \in Threads \union {Nobody}
    BY <1>1
  <2> QED BY <2>2, <2>3 DEF TableInv
<1>5. ThreadInv
  <2>1. Unborn \in Thread /\ Unborn.pc = "unborn" /\ Unborn.code = <<>>
    BY DEF Unborn, Thread, Labels
  <2>2. [Unborn EXCEPT !.pc = "next", !.code = p.main] \in Thread
    BY <1>2, <2>1 DEF Unborn, Thread, Labels
  <2>3. th \in [Threads -> Thread]
    BY <1>1, <2>1, <2>2
  <2>4. ASSUME NEW t \in Threads PROVE ThreadAt(t)
    <3>1. CASE t = Main
      <4>1. th[t].pc = "next" /\ th[t].code = p.main
        BY <1>1, <3>1 DEF Unborn
      <4> QED BY <1>2, <4>1, NextFits DEF ThreadAt, Named
    <3>2. CASE t # Main
      <4>1. th[t].pc = "unborn" /\ th[t].code = <<>>
        BY <1>1, <2>1, <3>2
      <4> QED BY <4>1 DEF ThreadAt, Named, Fits
    <3> QED BY <3>1, <3>2
  <2> QED BY <2>3, <2>4 DEF ThreadInv
<1> QED BY <1>3, <1>4, <1>5 DEF CodeInv

(* What the invariant says of one thread. *)
LEMMA AtThread ==
  ASSUME ThreadInv, NEW t \in Threads
  PROVE  /\ th[t] \in Thread /\ Named(th[t].code) /\ Fits(th[t].pc, th[t].code, th[t].i)
         /\ th[t].i \in Nat /\ th[t].n \in Nat /\ th[t].slot \in Nat
         /\ th[t].code \in Seq(Commands) /\ th[t].pc \in Labels
BY ThreadFields DEF ThreadInv, ThreadAt

(* The slots stay slots when one of them is written. *)
LEMMA SlotWritten ==
  ASSUME TableInv, NEW s, NEW x, s \in Slots => x \in Spawned, spawns' = [spawns EXCEPT ![s] = x],
         spawnCount' \in Nat, UNCHANGED <<ringCount, mutex>>
  PROVE  TableInv'
BY DEF TableInv

(* The steps of SPAWN. *)
LEMMA SpawnKeepsCode ==
  ASSUME CodeInv, NEW t \in Threads, SpawnStep(t) PROVE CodeInv'
<1> USE DEF CodeInv
<1>0. /\ th \in [Threads -> Thread] /\ spawns \in [Slots -> Spawned] /\ spawnCount \in Nat
      /\ th[t] \in Thread /\ Named(th[t].code) /\ Fits(th[t].pc, th[t].code, th[t].i)
      /\ th[t].i \in Nat /\ th[t].n \in Nat /\ th[t].slot \in Nat
      /\ th[t].code \in Seq(Commands) /\ th[t].pc \in Labels
  BY AtThread DEF ThreadInv, TableInv
<1>b. body' = body
  BY DEF SpawnStep, LaunchFull, LaunchClaim, LaunchFails, LaunchThread, LaunchLoad, LaunchStore,
         ScriptEnds, ThreadExits, spawnVars
<1>c. BodyInv'
  BY <1>b, BodyStays
<1>1. CASE LaunchFull(t)
  <2>1. ThreadInv'
    BY <1>1, <1>b, GoesBack DEF LaunchFull, Begins
  <2> QED BY <1>1, <1>c, <2>1, TableStays DEF LaunchFull, spawnVars, ringVars
<1>2. CASE LaunchClaim(t)
  <2>1. spawnCount \in Slots
    BY <1>0, <1>2, Limits DEF LaunchClaim, Slots
  <2>2. Fits("create", th[t].code, spawnCount)
    BY <1>2, <2>1 DEF LaunchClaim, Begins, Op, Fits
  <2>3. "create" \in Labels /\ 0 \in Nat
    BY DEF Labels
  <2>4. Goto(t, "create", spawnCount, 0)
    BY <1>2 DEF LaunchClaim
  <2>5. ThreadInv'
    BY <1>0, <1>b, <2>2, <2>3, <2>4, GoesOn
  <2>6. Op(t).name \in Names
    BY <1>0, <1>2, CodeParts, CommandFields, NamesAreNames DEF LaunchClaim, Begins, Op
  <2>7. TableInv'
    <3>1. [spawns[spawnCount] EXCEPT !.name = Op(t).name, !.active = TRUE, !.joined = FALSE,
              !.result = 0] \in Spawned
      BY <1>0, <2>1, <2>6 DEF Spawned
    <3> QED BY <1>0, <1>2, <2>1, <3>1, SlotWritten DEF LaunchClaim, ringVars
  <2> QED BY <1>c, <2>5, <2>7
<1>3. CASE LaunchFails(t)
  <2>1. ThreadInv'
    <3>1. th[t].code # <<>>
      BY <1>0, <1>3 DEF LaunchFails, At, Fits
    <3> QED BY <1>3, <1>b, <3>1, GoesBack DEF LaunchFails
  <2>2. TableInv'
    <3>1. CASE UNCHANGED spawns
      BY <1>3, <3>1, TableStays DEF LaunchFails, ringVars
    <3>2. CASE spawns' = [spawns EXCEPT ![th[t].i].active = FALSE]
      <4>1. th[t].i \in Slots => [spawns[th[t].i] EXCEPT !.active = FALSE] \in Spawned
        BY <1>0 DEF Spawned
      <4>2. spawns' = [spawns EXCEPT ![th[t].i] = [spawns[th[t].i] EXCEPT !.active = FALSE]]
        BY <3>2
      <4> QED BY <1>0, <1>3, <4>1, <4>2, SlotWritten DEF LaunchFails, ringVars
    <3> QED BY <1>3, <3>1, <3>2 DEF LaunchFails
  <2> QED BY <1>c, <2>1, <2>2
<1>4. CASE LaunchThread(t)
  <2>1. PICK u \in Threads :
          /\ At(u, "unborn") /\ spawns' = [spawns EXCEPT ![th[t].i].thread = u]
          /\ th' = [th EXCEPT ![t].pc = "load",
                      ![u] = [@ EXCEPT !.pc = "next", !.slot = th[t].i, !.code = body[Op(t).name]]]
    BY <1>4 DEF LaunchThread
  <2>2. th[t].pc = "create" /\ th[u].pc = "unborn" /\ t # u /\ th[u] \in Thread
    BY <1>0, <1>4, <2>1 DEF LaunchThread, At
  <2>3. th[t].code # <<>> /\ Head(th[t].code).op = "spawn"
    BY <1>0, <2>2 DEF Fits
  <2>4. Op(t).name \in DOMAIN body
    BY <1>0, <2>3, CodeParts DEF Named, Op
  <2>5. body[Op(t).name] \in Seq(Commands) /\ Named(body[Op(t).name])
    BY <2>4 DEF BodyInv
  <2>6. /\ th'[t] = [th[t] EXCEPT !.pc = "load"]
        /\ th'[u] = [th[u] EXCEPT !.pc = "next", !.slot = th[t].i, !.code = body[Op(t).name]]
        /\ \A w \in Threads \ {t, u} : th'[w] = th[w]
        /\ DOMAIN th' = Threads /\ th' = [w \in Threads |-> th'[w]]
    BY <1>0, <2>1, <2>2
  <2>7. [th[t] EXCEPT !.pc = "load"] \in Thread
    BY <1>0 DEF Thread, Labels
  <2>8. [th[u] EXCEPT !.pc = "next", !.slot = th[t].i, !.code = body[Op(t).name]] \in Thread
    BY <1>0, <2>2, <2>5 DEF Thread, Labels
  <2>9. th' \in [Threads -> Thread]
    BY <1>0, <2>6, <2>7, <2>8
  <2>10. ASSUME NEW w \in Threads PROVE ThreadAt(w)'
    <3>1. CASE w = t
      <4>1. th'[t].pc = "load" /\ th'[t].code = th[t].code /\ th'[t].i = th[t].i
        BY <1>0, <2>6 DEF Thread
      <4>2. Fits("load", th[t].code, th[t].i)
        BY <2>3 DEF Fits
      <4> QED BY <1>0, <1>b, <3>1, <4>1, <4>2 DEF ThreadAt, Named
    <3>2. CASE w = u
      <4>1. th'[u].pc = "next" /\ th'[u].code = body[Op(t).name]
        BY <2>2, <2>6 DEF Thread
      <4> QED BY <1>b, <2>5, <3>2, <4>1, NextFits DEF ThreadAt, Named
    <3>3. CASE w # t /\ w # u
      BY <1>b, <2>6, <3>3, ThreadFrame DEF ThreadInv
    <3> QED BY <3>1, <3>2, <3>3
  <2>11. TableInv'
    <3>1. th[t].i \in Slots => [spawns[th[t].i] EXCEPT !.thread = u] \in Spawned
      BY <1>0 DEF Spawned
    <3>2. spawns' = [spawns EXCEPT ![th[t].i] = [spawns[th[t].i] EXCEPT !.thread = u]]
      BY <2>1
    <3> QED BY <1>0, <1>4, <3>1, <3>2, SlotWritten DEF LaunchThread, ringVars
  <2> QED BY <1>c, <2>9, <2>10, <2>11 DEF ThreadInv
<1>5. CASE LaunchLoad(t)
  <2>1. Fits("store", th[t].code, th[t].i) /\ "store" \in Labels
    BY <1>0, <1>5 DEF LaunchLoad, At, Fits, Labels
  <2>2. ThreadInv'
    BY <1>0, <1>5, <1>b, <2>1, GoesOn DEF LaunchLoad
  <2> QED BY <1>5, <1>c, <2>2, TableStays DEF LaunchLoad, spawnVars, ringVars
<1>6. CASE LaunchStore(t)
  <2>1. th[t].code # <<>>
    BY <1>0, <1>6 DEF LaunchStore, At, Fits
  <2>2. ThreadInv'
    BY <1>6, <1>b, <2>1, GoesBack DEF LaunchStore
  <2>3. TableInv'
    BY <1>0, <1>6 DEF LaunchStore, TableInv, ringVars
  <2> QED BY <1>c, <2>2, <2>3
<1>7. CASE ScriptEnds(t)
  <2>1. PICK rc \in {0, 1} :
          /\ th' = [th EXCEPT ![t].pc = "marked", ![t].rc = rc]
          /\ spawns' = [spawns EXCEPT ![th[t].slot].active = FALSE, ![th[t].slot].result = rc]
    BY <1>7 DEF ScriptEnds
  <2>2. th' = [th EXCEPT ![t] = [th[t] EXCEPT !.pc = "marked", !.rc = rc]]
    BY <1>0, <2>1
  <2>3. [th[t] EXCEPT !.pc = "marked", !.rc = rc] \in Thread
    BY <1>0 DEF Thread, Labels
  <2>4. th' \in [Threads -> Thread] /\ \A w \in Threads \ {t} : th'[w] = th[w]
    BY <1>0, <2>2, <2>3
  <2>5. th'[t].pc = "marked" /\ th'[t].code = <<>>
    BY <1>0, <1>7, <2>2 DEF Thread, ScriptEnds
  <2>6. ThreadAt(t)'
    BY <2>5 DEF ThreadAt, Named, Fits
  <2>7. ThreadInv'
    BY <1>b, <2>4, <2>6, ThreadFrame DEF ThreadInv
  <2>8. TableInv'
    <3>1. th[t].slot \in Slots => [spawns[th[t].slot] EXCEPT !.active = FALSE, !.result = rc] \in Spawned
      BY <1>0 DEF Spawned
    <3>2. spawns' = [spawns EXCEPT ![th[t].slot] = [spawns[th[t].slot] EXCEPT !.active = FALSE, !.result = rc]]
      BY <1>0, <2>1
    <3> QED BY <1>0, <1>7, <3>1, <3>2, SlotWritten DEF ScriptEnds, ringVars
  <2> QED BY <1>c, <2>7, <2>8
<1>8. CASE ThreadExits(t)
  <2>1. th' = [th EXCEPT ![t] = [th[t] EXCEPT !.pc = "exited"]]
    BY <1>8 DEF ThreadExits
  <2>2. [th[t] EXCEPT !.pc = "exited"] \in Thread
    BY <1>0 DEF Thread, Labels
  <2>3. th' \in [Threads -> Thread] /\ \A w \in Threads \ {t} : th'[w] = th[w]
    BY <1>0, <2>1, <2>2
  <2>4. th'[t].pc = "exited" /\ th'[t].code = <<>>
    BY <1>0, <1>8, <2>1 DEF Thread, ThreadExits, At, Fits
  <2>5. ThreadAt(t)'
    BY <2>4 DEF ThreadAt, Named, Fits
  <2>6. ThreadInv'
    BY <1>b, <2>3, <2>5, ThreadFrame DEF ThreadInv
  <2> QED BY <1>8, <1>c, <2>6, TableStays DEF ThreadExits, spawnVars, ringVars
<1> QED BY <1>1, <1>2, <1>3, <1>4, <1>5, <1>6, <1>7, <1>8 DEF SpawnStep

(* The steps of AWAIT and of the reset that waits. *)
LEMMA AwaitKeepsCode ==
  ASSUME CodeInv, NEW t \in Threads, AwaitStep(t) PROVE CodeInv'
<1> USE DEF CodeInv
<1>0. /\ th \in [Threads -> Thread] /\ spawns \in [Slots -> Spawned] /\ spawnCount \in Nat
      /\ th[t] \in Thread /\ Named(th[t].code) /\ Fits(th[t].pc, th[t].code, th[t].i)
      /\ th[t].i \in Nat /\ th[t].i + 1 \in Nat /\ 0 \in Nat
      /\ th[t].code \in Seq(Commands)
  BY AtThread DEF ThreadInv, TableInv
<1>b. body' = body
  BY DEF AwaitStep, AwaitBegins, AwaitScan, Join, RecordJoined, AwaitEnds, ResetSpawns, spawnVars
<1>c. BodyInv'
  BY <1>b, BodyStays
<1>l. {"scan", "join", "joined", "close"} \subseteq Labels
  BY DEF Labels
<1>w. ASSUME Awaiting(t), NEW i \in Nat
      PROVE  Fits("scan", th[t].code, i) /\ Fits("join", th[t].code, i) /\ Fits("joined", th[t].code, i)
  BY <1>w DEF Awaiting, Op, Fits
<1>a. ASSUME th[t].pc \in {"scan", "join", "joined"} PROVE Awaiting(t)
  BY <1>0, <1>a DEF Fits, Awaiting, Op
<1>1. CASE AwaitBegins(t)
  <2>1. ThreadInv'
    BY <1>0, <1>1, <1>b, <1>l, <1>w, GoesOn DEF AwaitBegins
  <2> QED BY <1>1, <1>c, <2>1, TableStays DEF AwaitBegins, spawnVars, ringVars
<1>2. CASE AwaitScan(t)
  <2>1. Awaiting(t)
    BY <1>2, <1>a DEF AwaitScan, At
  <2>2. CASE Goto(t, "join", th[t].i, 0)
    BY <1>0, <1>b, <1>l, <1>w, <2>1, <2>2, <1>2, <1>c, GoesOn, TableStays
    DEF AwaitScan, spawnVars, ringVars
  <2>3. CASE Goto(t, "scan", th[t].i + 1, 0)
    BY <1>0, <1>b, <1>l, <1>w, <2>1, <2>3, <1>2, <1>c, GoesOn, TableStays
    DEF AwaitScan, spawnVars, ringVars
  <2> QED BY <1>2, <2>2, <2>3 DEF AwaitScan
<1>3. CASE Join(t)
  <2> DEFINE u == spawns[th[t].i].thread
  <2>1. th[t].pc = "join" /\ th[u].pc = "exited" /\ Awaiting(t)
    BY <1>3, <1>a DEF Join, At
  <2>2. th' = [th EXCEPT ![t].pc = "joined", ![u].joins = @ + 1]
    BY <1>3 DEF Join
  <2> HIDE DEF u
  <2>3. t # u
    BY <2>1
  <2>4. th'[t] = [th[t] EXCEPT !.pc = "joined"] /\ th'[t] \in Thread
    BY <1>0, <1>l, <2>2, <2>3 DEF Thread
  <2>5. ASSUME NEW w \in Threads, w # t
        PROVE  /\ th'[w] \in Thread /\ th'[w].pc = th[w].pc /\ th'[w].code = th[w].code
               /\ th'[w].i = th[w].i
    <3>1. th[w] \in Thread /\ th[w].joins \in Nat /\ th[w].joins + 1 \in Nat
      BY <1>0, ThreadFields
    <3>2. th'[w] = th[w] \/ th'[w] = [th[w] EXCEPT !.joins = @ + 1]
      BY <1>0, <2>2, <2>5
    <3> QED BY <3>1, <3>2 DEF Thread
  <2>6. th' \in [Threads -> Thread]
    <3>1. th' = [w \in Threads |-> th'[w]]
      BY <1>0, <2>2
    <3>2. \A w \in Threads : th'[w] \in Thread
      BY <2>4, <2>5
    <3> QED BY <3>1, <3>2
  <2>7. ASSUME NEW w \in Threads PROVE ThreadAt(w)'
    <3>1. CASE w = t
      <4>1. th'[t].pc = "joined" /\ th'[t].code = th[t].code /\ th'[t].i = th[t].i
        BY <1>0, <2>4 DEF Thread
      <4> QED BY <1>0, <1>b, <1>w, <2>1, <3>1, <4>1 DEF ThreadAt, Named
    <3>2. CASE w # t
      BY <1>b, <2>5, <3>2 DEF ThreadInv, ThreadAt, Named
    <3> QED BY <3>1, <3>2
  <2>8. ThreadInv'
    BY <2>6, <2>7 DEF ThreadInv
  <2> QED BY <1>3, <1>c, <2>8, TableStays DEF Join, spawnVars, ringVars
<1>4. CASE RecordJoined(t)
  <2>1. Awaiting(t) /\ th[t].code # <<>>
    BY <1>4, <1>a DEF RecordJoined, At, Awaiting
  <2>2. ThreadInv'
    <3>1. CASE Return(t)
      BY <1>b, <2>1, <3>1, GoesBack
    <3>2. CASE Goto(t, "scan", th[t].i + 1, 0)
      BY <1>0, <1>b, <1>l, <1>w, <2>1, <3>2, GoesOn
    <3> QED BY <1>4, <3>1, <3>2 DEF RecordJoined
  <2>3. TableInv'
    <3>1. th[t].i \in Slots => [spawns[th[t].i] EXCEPT !.joined = TRUE] \in Spawned
      BY <1>0 DEF Spawned
    <3>2. spawns' = [spawns EXCEPT ![th[t].i] = [spawns[th[t].i] EXCEPT !.joined = TRUE]]
      BY <1>4 DEF RecordJoined
    <3> QED BY <1>0, <1>4, <3>1, <3>2, SlotWritten DEF RecordJoined, ringVars
  <2> QED BY <1>c, <2>2, <2>3
<1>5. CASE AwaitEnds(t)
  <2>1. th[t].code # <<>>
    BY <1>5, <1>a DEF AwaitEnds, At, Awaiting
  <2>2. ThreadInv'
    BY <1>5, <1>b, <2>1, GoesBack DEF AwaitEnds
  <2> QED BY <1>5, <1>c, <2>2, TableStays DEF AwaitEnds, spawnVars, ringVars
<1>6. CASE ResetSpawns(t)
  <2>1. th[t].code # <<>> /\ Head(th[t].code).op = "init"
    BY <1>6, <1>a DEF ResetSpawns, At, Awaiting, Op
  <2>2. Fits("close", th[t].code, 0)
    BY <2>1 DEF Fits
  <2>3. ThreadInv'
    BY <1>0, <1>6, <1>b, <1>l, <2>2, GoesOn DEF ResetSpawns
  <2>4. TableInv'
    <3>1. spawns' \in [Slots -> Spawned]
      BY <1>6, NoSlotIsSpawned DEF ResetSpawns
    <3> QED BY <1>6, <3>1 DEF ResetSpawns, TableInv, ringVars
  <2> QED BY <1>c, <2>3, <2>4
<1> QED BY <1>1, <1>2, <1>3, <1>4, <1>5, <1>6 DEF AwaitStep

(* The steps of CREATE and CLOSE. *)
LEMMA TableKeepsCode ==
  ASSUME CodeInv, NEW t \in Threads, TableStep(t) PROVE CodeInv'
<1> USE DEF CodeInv
<1>0. /\ ringCount \in Nat /\ 0 \in Nat
      /\ Named(th[t].code) /\ Fits(th[t].pc, th[t].code, th[t].i)
  BY AtThread DEF ThreadInv, TableInv
<1>b. body' = body
  BY DEF TableStep, CreateFull, CreateFill, CreateCount, Close, CloseAll, spawnVars
<1>c. BodyInv'
  BY <1>b, BodyStays
<1>1. CASE CreateFull(t)
  <2>1. ThreadInv'
    BY <1>1, <1>b, GoesBack DEF CreateFull, Begins
  <2> QED BY <1>1, <1>c, <2>1, TableStays DEF CreateFull, spawnVars, ringVars
<1>2. CASE CreateFill(t)
  <2>1. Fits("count", th[t].code, ringCount) /\ "count" \in Labels
    BY <1>2 DEF CreateFill, Begins, Op, Fits, Labels
  <2>2. ThreadInv'
    BY <1>0, <1>2, <1>b, <2>1, GoesOn DEF CreateFill
  <2> QED BY <1>2, <1>c, <2>2, TableStays DEF CreateFill, spawnVars
<1>3. CASE CreateCount(t)
  <2>1. th[t].code # <<>>
    BY <1>0, <1>3 DEF CreateCount, At, Fits
  <2>2. ThreadInv'
    BY <1>3, <1>b, <2>1, GoesBack DEF CreateCount
  <2>3. TableInv'
    BY <1>0, <1>3 DEF CreateCount, TableInv, spawnVars
  <2> QED BY <1>c, <2>2, <2>3
<1>4. CASE Close(t)
  <2>1. ThreadInv'
    BY <1>4, <1>b, GoesBack DEF Close, Begins
  <2> QED BY <1>4, <1>c, <2>1, TableStays DEF Close, spawnVars
<1>5. CASE CloseAll(t)
  <2>1. th[t].code # <<>>
    BY <1>0, <1>5 DEF CloseAll, Begins, At, Fits
  <2>2. ThreadInv'
    BY <1>5, <1>b, <2>1, GoesBack DEF CloseAll
  <2>3. TableInv'
    BY <1>0, <1>5 DEF CloseAll, TableInv, spawnVars
  <2> QED BY <1>c, <2>2, <2>3
<1> QED BY <1>1, <1>2, <1>3, <1>4, <1>5 DEF TableStep

(* The steps of a read and of a write. *)
LEMMA RingKeepsCode ==
  ASSUME CodeInv, NEW t \in Threads, RingStep(t) PROVE CodeInv'
<1> USE DEF CodeInv
<1>0. /\ th[t].i \in Nat /\ th[t].n \in Nat /\ th[t].n + 1 \in Nat /\ 0 \in Nat
      /\ Fits(th[t].pc, th[t].code, th[t].i)
  BY AtThread DEF ThreadInv
<1>b. body' = body
  BY DEF RingStep, NoChannel, Lock, Sleep, Wake, TimesOut, Write, Read, spawnVars
<1>c. BodyInv'
  BY <1>b, BodyStays
<1>d. TableInv'
  <2>1. UNCHANGED <<spawns, spawnCount, ringCount>> /\ mutex' \in {mutex, t, Nobody}
    BY DEF RingStep, NoChannel, Lock, Sleep, Wake, TimesOut, Write, Read, spawnVars, ringVars
  <2> QED BY <2>1 DEF TableInv
<1>e. {"try", "sleep"} \subseteq Labels
  BY DEF Labels
<1>t. ASSUME th[t].pc \in {"try", "sleep"}
      PROVE  /\ th[t].code # <<>>
             /\ Fits("try", th[t].code, th[t].i) /\ Fits("sleep", th[t].code, th[t].i)
  BY <1>0, <1>t DEF Fits
<1>1. CASE NoChannel(t)
  <2>1. ThreadInv'
    BY <1>1, <1>b, GoesBack DEF NoChannel, Transfer
  <2> QED BY <1>c, <1>d, <2>1
<1>2. CASE Lock(t)
  <2> DEFINE r == Min(Found(Op(t).name))
  <2>1. r \in Rings /\ r \in Nat
    BY <1>2, FoundIsRing DEF Lock
  <2>2. Goto(t, "try", r, 0) /\ Transfer(t)
    BY <1>2 DEF Lock
  <2> HIDE DEF r
  <2>3. Fits("try", th[t].code, r)
    BY <2>1, <2>2 DEF Transfer, Op, Fits
  <2>4. ThreadInv'
    BY <1>0, <1>b, <1>e, <2>1, <2>2, <2>3, GoesOn
  <2> QED BY <1>c, <1>d, <2>4
<1>3. CASE Sleep(t)
  <2>1. ThreadInv'
    BY <1>0, <1>3, <1>b, <1>e, <1>t, GoesOn DEF Sleep, At
  <2> QED BY <1>c, <1>d, <2>1
<1>4. CASE Wake(t)
  <2>1. ThreadInv'
    BY <1>0, <1>4, <1>b, <1>e, <1>t, GoesOn DEF Wake, At
  <2> QED BY <1>c, <1>d, <2>1
<1>5. CASE TimesOut(t) \/ Write(t) \/ Read(t)
  <2>1. th[t].pc = "try" /\ Return(t)
    BY <1>5 DEF TimesOut, Write, Read, At
  <2>2. ThreadInv'
    BY <1>b, <1>t, <2>1, GoesBack
  <2> QED BY <1>c, <1>d, <2>2
<1> QED BY <1>1, <1>2, <1>3, <1>4, <1>5 DEF RingStep

(* Every step does. *)
LEMMA CodeNext == ASSUME CodeInv, [Next]_vars PROVE CodeInv'
<1>1. CASE Next
  BY <1>1, SpawnKeepsCode, AwaitKeepsCode, TableKeepsCode, RingKeepsCode DEF Next, Step
<1>2. CASE UNCHANGED vars
  BY <1>2 DEF vars, CodeInv, ThreadInv, ThreadAt, Named, BodyInv, TableInv
<1> QED BY <1>1, <1>2

-----------------------------------------------------------------------------
(* Every step keeps every ring a queue. *)

(* Closing a channel takes nothing from its ring. *)
LEMMA QueueStays ==
  ASSUME NEW r, NEW r2, NEW l, Queue(r, l), r2.cap = r.cap, r2.head = r.head, r2.tail = r.tail,
         r2.count = r.count, r2.data = r.data
  PROVE  Queue(r2, l)
BY DEF Queue

(* A ring not used is empty. *)
LEMMA NoRingIsEmpty ==
  NoRing \in Ring /\ NoRing.head = 0 /\ NoRing.tail = 0 /\ NoRing.count = 0
<1>1. \A x \in Names : \A d \in Cells :
        [name |-> x, active |-> FALSE, cap |-> 0, head |-> 0, tail |-> 0, count |-> 0, data |-> d] \in Ring
  BY Limits DEF Ring
<1>2. [i \in 0..(Buf - 1) |-> 0] \in Cells
  BY DEF Cells
<1>3. NoRing \in Ring
  BY <1>1, <1>2, NamesAreNames, Zenon DEF NoRing
<1> QED BY <1>3, Zenon DEF NoRing

(* A history not begun is one. *)
LEMMA NoLog == [sent |-> <<>>, got |-> <<>>] \in Log
BY DEF Log

(* One ring and its history change together. *)
LEMMA OneQueue ==
  ASSUME RingInv, NEW r \in Rings, NEW x \in Ring, NEW l \in Log, Queue(x, l),
         rings' = [rings EXCEPT ![r] = x], log' = [log EXCEPT ![r] = l]
  PROVE  RingInv'
<1>1. rings' \in [Rings -> Ring] /\ log' \in [Rings -> Log]
  BY DEF RingInv
<1>2. rings'[r] = x /\ log'[r] = l
  BY DEF RingInv
<1>3. ASSUME NEW q \in Rings PROVE Queue(rings'[q], log'[q])
  <2>1. CASE q = r
    BY <1>2, <2>1
  <2>2. CASE q # r
    BY <2>2 DEF RingInv
  <2> QED BY <2>1, <2>2
<1> QED BY <1>1, <1>3 DEF RingInv, Queue, Held, Spot

(* Every ring is empty when the host begins. *)
LEMMA RingInit == ASSUME Init PROVE RingInv
<1>1. rings = [r \in Rings |-> NoRing] /\ log = [r \in Rings |-> [sent |-> <<>>, got |-> <<>>]]
  BY DEF Init
<1>2. rings \in [Rings -> Ring] /\ log \in [Rings -> Log]
  BY <1>1, NoRingIsEmpty, NoLog
<1>3. ASSUME NEW r \in Rings PROVE Queue(rings[r], log[r])
  <2>1. rings[r] = NoRing /\ log[r].sent = <<>> /\ log[r].got = <<>>
    BY <1>1
  <2> QED BY <1>2, <2>1, NoRingIsEmpty, EmptyQueue
<1> QED BY <1>2, <1>3 DEF RingInv

(* A channel that is created has an empty ring and a new history. *)
LEMMA CreateKeepsQueues ==
  ASSUME CodeInv, RingInv, NEW t \in Threads, CreateFill(t) PROVE RingInv'
<1> DEFINE x == [NoRing EXCEPT !.name = Op(t).name, !.cap = Capacity(Op(t)), !.active = TRUE]
           l == [sent |-> <<>>, got |-> <<>>]
<1>1. ringCount \in Rings
  BY Limits DEF CodeInv, TableInv, CreateFill, Rings
<1>2. th[t].code # <<>> /\ Op(t).op = "create" /\ th[t].code \in Seq(Commands)
  BY AtThread DEF CodeInv, CreateFill, Begins
<1>3. Op(t).cap \in Int /\ Op(t).name \in Names
  BY <1>2, CodeParts, CommandFields, NamesAreNames DEF Op
<1>4. Capacity(Op(t)) \in 0..Buf
  BY <1>3, Limits DEF Capacity
<1>5. x \in Ring /\ x.head = 0 /\ x.tail = 0 /\ x.count = 0
  BY <1>3, <1>4, NoRingIsEmpty DEF Ring
<1>6. l \in Log /\ l.sent = <<>> /\ l.got = <<>>
  BY NoLog
<1>7. rings' = [rings EXCEPT ![ringCount] = x] /\ log' = [log EXCEPT ![ringCount] = l]
  BY DEF CreateFill
<1> HIDE DEF x, l
<1>8. Queue(x, l)
  BY <1>5, <1>6, EmptyQueue
<1> QED BY <1>1, <1>5, <1>6, <1>7, <1>8, OneQueue

(* A channel that is closed keeps its ring. *)
LEMMA CloseKeepsQueues ==
  ASSUME RingInv, NEW t \in Threads, Close(t) \/ CloseAll(t) PROVE RingInv'
<1>0. rings \in [Rings -> Ring] /\ log \in [Rings -> Log] /\ \A r \in Rings : Queue(rings[r], log[r])
  BY DEF RingInv
<1>1. log' = log
  BY DEF Close, CloseAll
<1>2. DOMAIN rings' = Rings /\ rings' = [r \in Rings |-> rings'[r]]
  BY <1>0 DEF Close, CloseAll
<1>3. ASSUME NEW r \in Rings PROVE rings'[r] = rings[r] \/ rings'[r] = [rings[r] EXCEPT !.active = FALSE]
  BY <1>0 DEF Close, CloseAll
<1>4. ASSUME NEW r \in Rings PROVE rings'[r] \in Ring /\ Queue(rings'[r], log'[r])
  <2>1. CASE rings'[r] = rings[r]
    BY <1>0, <1>1, <2>1
  <2>2. CASE rings'[r] = [rings[r] EXCEPT !.active = FALSE]
    <3>1. rings[r] \in Ring
      BY <1>0
    <3>2. rings'[r] \in Ring
      BY <3>1, <2>2 DEF Ring
    <3>3. /\ rings'[r].cap = rings[r].cap /\ rings'[r].head = rings[r].head
          /\ rings'[r].tail = rings[r].tail /\ rings'[r].count = rings[r].count
          /\ rings'[r].data = rings[r].data
      BY <3>1, <2>2 DEF Ring
    <3> QED BY <1>0, <1>1, <3>2, <3>3, QueueStays
  <2> QED BY <1>3, <2>1, <2>2
<1>5. rings' \in [Rings -> Ring]
  BY <1>2, <1>4
<1> QED BY <1>0, <1>1, <1>4, <1>5 DEF RingInv, Queue, Held, Spot

(* A value that is accepted is the last of its ring. *)
LEMMA WriteKeepsQueues ==
  ASSUME CodeInv, RingInv, NEW t \in Threads, Write(t) PROVE RingInv'
<1>0. rings \in [Rings -> Ring] /\ log \in [Rings -> Log] /\ \A r \in Rings : Queue(rings[r], log[r])
  BY DEF RingInv
<1>1. /\ th[t].pc = "try" /\ th[t].code # <<>> /\ Op(t).op = "write" /\ th[t].i \in Rings
      /\ th[t].code \in Seq(Commands)
  BY AtThread DEF CodeInv, Write, In, At, Fits
<1>2. Op(t).val \in Int
  BY <1>1, CodeParts, CommandFields DEF Op
<1> DEFINE i == th[t].i
           r == rings[th[t].i]
           l == log[th[t].i]
           v == Op(t).val
<1>3. r \in Ring /\ l \in Log /\ Queue(r, l) /\ r.count < r.cap
  BY <1>0, <1>1 DEF Write, Ready
<1>4. r.cap > 0 /\ r.cap \in Nat /\ r.count \in Nat /\ r.tail \in Nat /\ r.head \in Nat /\ r.data \in Cells
  BY <1>3, RingFields
<1>5. r.head < r.cap /\ r.tail = Spot(r.head, r.count + 1, r.cap) /\ r.tail \in 0..(Buf - 1)
  BY <1>3, <1>4, QueueFacts
<1>6. PICK y : y = (r.tail + 1) % r.cap
  OBVIOUS
<1>7. y = Spot(r.head, r.count + 2, r.cap)
  BY <1>3, <1>4, <1>5, <1>6, NextPlaces
<1>8. y \in Nat
  <2>1. r.tail + 1 \in Nat
    BY <1>4
  <2> QED BY <1>4, <1>6, <2>1, ModRange
<1> DEFINE x == [r EXCEPT !.data = [r.data EXCEPT ![r.tail] = v], !.tail = y, !.count = r.count + 1]
           m == [l EXCEPT !.sent = Append(l.sent, v)]
<1>9. rings' = [rings EXCEPT ![i] = x]
  BY <1>0, <1>6 DEF Write
<1>10. log' = [log EXCEPT ![i] = m]
  BY <1>0 DEF Write
<1> HIDE DEF v
<1>v. v \in Int
  BY <1>2 DEF v
<1>11. [r.data EXCEPT ![r.tail] = v] \in Cells
  BY <1>v, <1>4, <1>5 DEF Cells
<1>12. /\ [r.data EXCEPT ![r.tail] = v][r.tail] = v
       /\ \A z \in 0..(Buf - 1) : z # r.tail => [r.data EXCEPT ![r.tail] = v][z] = r.data[z]
  BY <1>4, <1>5 DEF Cells
<1>13. PICK e : e = [r.data EXCEPT ![r.tail] = v]
  OBVIOUS
<1>r. x = [r EXCEPT !.data = e, !.tail = y, !.count = r.count + 1]
  BY <1>13
<1> HIDE DEF i, r, l, x
<1>14. /\ x \in Ring /\ x.cap = r.cap /\ x.head = r.head /\ x.count = r.count + 1 /\ x.tail = y
       /\ x.data = e
  <2>1. r.count + 1 \in Nat /\ e \in Cells
    BY <1>4, <1>11, <1>13
  <2> QED BY <1>r, <1>3, <1>8, <2>1 DEF Ring
<1>15. m \in Log /\ m.sent = Append(l.sent, v) /\ m.got = l.got
  <2>1. Append(l.sent, v) \in Seq(Int)
    BY <1>3, <1>v, LogFields
  <2> QED BY <1>3, <2>1 DEF Log
<1>16. x.data[r.tail] = v /\ \A z \in 0..(Buf - 1) : z # r.tail => x.data[z] = r.data[z]
  BY <1>12, <1>13, <1>14
<1> HIDE DEF m
<1>17. Queue(x, m)
  BY <1>v, <1>3, <1>7, <1>14, <1>15, <1>16, QueueWrites
<1>18. i \in Rings
  BY <1>1 DEF i
<1> QED BY <1>9, <1>10, <1>14, <1>15, <1>17, <1>18, OneQueue

(* A value that is handed out is the first of its ring. *)
LEMMA ReadKeepsQueues ==
  ASSUME CodeInv, RingInv, NEW t \in Threads, Read(t) PROVE RingInv'
<1>0. rings \in [Rings -> Ring] /\ log \in [Rings -> Log] /\ \A r \in Rings : Queue(rings[r], log[r])
  BY DEF RingInv
<1>1. /\ th[t].pc = "try" /\ th[t].code # <<>> /\ Op(t).op = "read" /\ th[t].i \in Rings
  BY AtThread DEF CodeInv, Read, In, At, Fits
<1> DEFINE i == th[t].i
           r == rings[th[t].i]
           l == log[th[t].i]
<1>3. r \in Ring /\ l \in Log /\ Queue(r, l) /\ r.count # 0
  BY <1>0, <1>1 DEF Read, Ready
<1>4. r.cap > 0 /\ r.cap \in Nat /\ r.count \in Nat /\ r.tail \in Nat /\ r.head \in Nat /\ r.data \in Cells
  <2>1. r.cap \in Nat /\ r.count \in Nat /\ r.tail \in Nat /\ r.head \in Nat /\ r.data \in Cells
    BY <1>3, RingFields
  <2>2. r.count <= r.cap
    BY <1>3 DEF Queue
  <2> QED BY <1>3, <2>1, <2>2
<1>5. r.head < r.cap /\ r.head \in 0..(Buf - 1)
  BY <1>3, <1>4, QueueFacts
<1>6. PICK y : y = (r.head + 1) % r.cap
  OBVIOUS
<1>7. y = Spot(r.head, 2, r.cap)
  <2>1. (r.head + 1) % r.cap = Spot(r.head, 2, r.cap)
    BY <1>4, <1>5, NextPlaces
  <2> QED BY <1>6, <2>1
<1>8. y \in Nat
  <2>1. r.head + 1 \in Nat
    BY <1>4
  <2> QED BY <1>4, <1>6, <2>1, ModRange
<1> DEFINE v == r.data[r.head]
<1> DEFINE x == [r EXCEPT !.head = y, !.count = r.count - 1]
           m == [l EXCEPT !.got = Append(l.got, v)]
<1>9. rings' = [rings EXCEPT ![i] = x]
  BY <1>0, <1>6 DEF Read
<1>10. log' = [log EXCEPT ![i] = m]
  BY <1>0 DEF Read
<1>v. v \in Int
  BY <1>4, <1>5 DEF Cells
<1>w. v = r.data[r.head]
  OBVIOUS
<1> HIDE DEF i, r, l, v
<1>14. /\ x \in Ring /\ x.cap = r.cap /\ x.head = y /\ x.count = r.count - 1 /\ x.tail = r.tail
       /\ x.data = r.data
  <2>1. r.count - 1 \in Nat
    BY <1>3, <1>4
  <2> QED BY <1>3, <1>8, <2>1 DEF Ring
<1>15. m \in Log /\ m.sent = l.sent /\ m.got = Append(l.got, v)
  <2>1. Append(l.got, v) \in Seq(Int)
    BY <1>3, <1>v, LogFields
  <2> QED BY <1>3, <2>1 DEF Log
<1> HIDE DEF x, m
<1>17. Queue(x, m)
  BY <1>w, <1>3, <1>7, <1>14, <1>15, QueueReads
<1>18. i \in Rings
  BY <1>1 DEF i
<1> QED BY <1>9, <1>10, <1>14, <1>15, <1>17, <1>18, OneQueue

(* Every step does. *)
LEMMA RingNext == ASSUME CodeInv, RingInv, [Next]_vars PROVE RingInv'
<1>0. ASSUME UNCHANGED <<rings, log>> PROVE RingInv'
  BY <1>0 DEF RingInv, Queue, Held, Spot
<1>1. ASSUME NEW t \in Threads, SpawnStep(t) PROVE RingInv'
  <2>1. UNCHANGED <<rings, log>>
    BY <1>1 DEF SpawnStep, LaunchFull, LaunchClaim, LaunchFails, LaunchThread, LaunchLoad, LaunchStore,
                ScriptEnds, ThreadExits, ringVars
  <2> QED BY <1>0, <2>1
<1>2. ASSUME NEW t \in Threads, AwaitStep(t) PROVE RingInv'
  <2>1. UNCHANGED <<rings, log>>
    BY <1>2 DEF AwaitStep, AwaitBegins, AwaitScan, Join, RecordJoined, AwaitEnds, ResetSpawns, ringVars
  <2> QED BY <1>0, <2>1
<1>3. ASSUME NEW t \in Threads, TableStep(t) PROVE RingInv'
  <2>1. CASE CreateFull(t) \/ CreateCount(t)
    <3>1. UNCHANGED <<rings, log>>
      BY <2>1 DEF CreateFull, CreateCount, ringVars
    <3> QED BY <1>0, <3>1
  <2> QED BY <1>3, <2>1, CreateKeepsQueues, CloseKeepsQueues DEF TableStep
<1>4. ASSUME NEW t \in Threads, RingStep(t) PROVE RingInv'
  <2>1. CASE NoChannel(t) \/ Lock(t) \/ Sleep(t) \/ Wake(t) \/ TimesOut(t)
    <3>1. UNCHANGED <<rings, log>>
      BY <2>1 DEF NoChannel, Lock, Sleep, Wake, TimesOut, ringVars
    <3> QED BY <1>0, <3>1
  <2> QED BY <1>4, <2>1, WriteKeepsQueues, ReadKeepsQueues DEF RingStep
<1>5. CASE Next
  BY <1>1, <1>2, <1>3, <1>4, <1>5 DEF Next, Step
<1>6. CASE UNCHANGED vars
  BY <1>0, <1>6 DEF vars
<1> QED BY <1>5, <1>6

(* The inductive invariant: threads are in their commands, tables have their types, and
   every ring is a queue. *)
THEOREM RingInvariant == Spec => [](CodeInv /\ RingInv)
<1>1. Init => CodeInv /\ RingInv
  BY CodeInit, RingInit
<1>2. (CodeInv /\ RingInv) /\ [Next]_vars => (CodeInv /\ RingInv)'
  BY CodeNext, RingNext
<1> QED BY <1>1, <1>2, PTL DEF Spec

(* What a channel has accepted is what it has handed out followed by what its ring holds,
   and it never holds more than its capacity: for any scripts, whatever they spawn, close
   and create, and however their reads and writes are interleaved. *)
THEOREM RingsAreQueues == Spec => []RingIsQueue
<1>1. RingInv => RingIsQueue
  <2> SUFFICES ASSUME RingInv, NEW r \in Rings
               PROVE  /\ rings[r].count \in 0..rings[r].cap
                      /\ log[r].sent = log[r].got \o Content(rings[r])
    BY DEF RingIsQueue
  <2>1. rings[r] \in Ring /\ Queue(rings[r], log[r])
    BY DEF RingInv
  <2>2. rings[r].count \in Nat /\ rings[r].cap \in Nat /\ rings[r].count <= rings[r].cap
    BY <2>1, RingFields DEF Queue
  <2>3. log[r].sent = log[r].got \o Content(rings[r])
    BY <2>1, ContentIsHeld DEF Queue
  <2> QED BY <2>2, <2>3
<1> QED BY <1>1, RingInvariant, PTL

-----------------------------------------------------------------------------
(* Threads and their slots. *)

(* The slots of threads that were launched: those counted, and the one about to be. *)
Launched == {s \in Slots : s < spawnCount \/ (s = spawnCount /\ th[Main].pc \in {"load", "store"})}

(* Only the host's thread launches, awaits and creates. *)
Transfers(code) == \A k \in DOMAIN code : code[k].op \in {"write", "read", "close"}
HostInv == /\ \A n \in DOMAIN body : Transfers(body[n])
           /\ \A t \in Threads \ {Main} :
                /\ Transfers(th[t].code)
                /\ th[t].pc \in {"unborn", "next", "marked", "exited", "try", "sleep"}
           /\ th[Main].pc \notin {"unborn", "marked", "exited"}

(* Where the host's thread is in the tables: at the slot it fills, at the one it joins, and
   behind the ones it has joined when it waits for all of them. *)
HostAt ==
  /\ th[Main].pc \in {"create", "load", "store"} =>
       th[Main].i = spawnCount /\ spawnCount < MaxSpawns /\ ~spawns[spawnCount].joined
  /\ th[Main].pc = "store" => th[Main].n = spawnCount
  /\ th[Main].pc \in {"join", "joined"} => th[Main].i < spawnCount /\ ~spawns[th[Main].i].joined
  /\ th[Main].pc = "joined" => th[spawns[th[Main].i].thread].pc = "exited"
  /\ th[Main].pc \in {"scan", "join", "joined"} /\ Head(th[Main].code).op # "await" =>
       \A s \in Slots : s < spawnCount /\ s < th[Main].i => spawns[s].joined
  /\ th[Main].pc = "count" => ringCount < MaxChannels

(* How often the thread of a slot has been joined. *)
Joins(s) == IF spawns[s].joined \/ (th[Main].pc = "joined" /\ th[Main].i = s) THEN 1 ELSE 0

(* A slot of a launched thread names it, was joined with it, and tells how it ended. *)
SlotAt(s) ==
  /\ spawns[s].thread \in Threads \ {Main} /\ th[spawns[s].thread].pc # "unborn"
  /\ th[spawns[s].thread].slot = s
  /\ th[spawns[s].thread].joins = Joins(s)
  /\ spawns[s].joined => th[spawns[s].thread].pc = "exited"
  /\ th[spawns[s].thread].pc \in {"marked", "exited"} =>
       ~spawns[s].active /\ spawns[s].result = th[spawns[s].thread].rc

(* A launched thread that has not ended is in its slot. *)
LifeAt(t) ==
  /\ th[t].slot \in Slots /\ th[t].joins <= 1
  /\ th[t].pc = "unborn" => th[t].joins = 0
  /\ th[t].pc \notin {"unborn", "exited"} =>
       th[t].slot \in Launched /\ spawns[th[t].slot].thread = t

CountInv == /\ spawnCount <= MaxSpawns /\ ringCount <= MaxChannels
            /\ th[Main].joins = 0 /\ th[Main].slot \in Slots
            /\ mutex \in Threads \union {Nobody}

LaunchInv == /\ HostInv /\ HostAt /\ CountInv
             /\ \A s \in Launched : SlotAt(s)
             /\ \A t \in Threads \ {Main} : LifeAt(t)

(* What a thread that goes on, or goes back, keeps. *)
LEMMA GoesOnFields ==
  ASSUME ThreadInv, NEW t \in Threads, NEW label, NEW i, NEW n, Goto(t, label, i, n)
  PROVE  /\ th'[t].pc = label /\ th'[t].i = i /\ th'[t].n = n /\ th'[t].code = th[t].code
         /\ th'[t].slot = th[t].slot /\ th'[t].rc = th[t].rc /\ th'[t].joins = th[t].joins
         /\ \A u \in Threads \ {t} : th'[u] = th[u]
<1>1. th \in [Threads -> Thread] /\ th[t] \in Thread
  BY DEF ThreadInv
<1>2. th' = [th EXCEPT ![t] = [th[t] EXCEPT !.pc = label, !.i = i, !.n = n]]
  BY <1>1 DEF Goto
<1> QED BY <1>1, <1>2 DEF Thread

(* The same when it ends a command. *)
LEMMA GoesBackFields ==
  ASSUME ThreadInv, NEW t \in Threads, Return(t)
  PROVE  /\ th'[t].pc = "next" /\ th'[t].code = Tail(th[t].code)
         /\ th'[t].slot = th[t].slot /\ th'[t].rc = th[t].rc /\ th'[t].joins = th[t].joins
         /\ \A u \in Threads \ {t} : th'[u] = th[u]
<1>1. th \in [Threads -> Thread] /\ th[t] \in Thread
  BY DEF ThreadInv
<1>2. th' = [th EXCEPT ![t] = [th[t] EXCEPT !.pc = "next", !.i = 0, !.n = 0, !.code = Tail(th[t].code)]]
  BY <1>1 DEF Return
<1> QED BY <1>1, <1>2 DEF Thread

(* What is left of a script that only transfers does so too. *)
LEMMA TransfersTail ==
  ASSUME NEW s \in Seq(Commands), s # <<>>, Transfers(s) PROVE Transfers(Tail(s))
BY CodeParts DEF Transfers

(* The host's thread has no slot, the others are to come. *)
LEMMA LaunchInit == ASSUME Init PROVE LaunchInv
<1>1. PICK p \in Programs :
        /\ body = p.body
        /\ th = [t \in Threads |-> IF t = Main THEN [Unborn EXCEPT !.pc = "next", !.code = p.main]
                                   ELSE Unborn]
        /\ spawnCount = 0 /\ ringCount = 0 /\ mutex = Nobody
  BY DEF Init
<1>2. \A n \in DOMAIN p.body : \A k \in DOMAIN p.body[n] : p.body[n][k].op \in {"write", "read", "close"}
  BY HostLaunches
<1>3. Main \in Threads /\ 0 \in Slots
  BY Limits DEF Main, Threads, Slots
<1>4. /\ Unborn.pc = "unborn" /\ Unborn.code = <<>> /\ Unborn.slot = 0 /\ Unborn.joins = 0
      /\ [Unborn EXCEPT !.pc = "next", !.code = p.main].pc = "next"
      /\ [Unborn EXCEPT !.pc = "next", !.code = p.main].slot = 0
      /\ [Unborn EXCEPT !.pc = "next", !.code = p.main].joins = 0
  BY DEF Unborn
<1>5. th[Main].pc = "next" /\ th[Main].slot = 0 /\ th[Main].joins = 0
  BY <1>1, <1>3, <1>4
<1>6. \A t \in Threads \ {Main} : /\ th[t].pc = "unborn" /\ th[t].code = <<>> /\ th[t].slot = 0
                                  /\ th[t].joins = 0
  BY <1>1, <1>4
<1>7. HostInv
  BY <1>1, <1>2, <1>5, <1>6 DEF HostInv, Transfers
<1>8. HostAt
  BY <1>5 DEF HostAt
<1>9. CountInv
  BY <1>1, <1>3, <1>5, Limits DEF CountInv
<1>10. Launched = {}
  BY <1>1, <1>5 DEF Launched, Slots
<1>11. \A t \in Threads \ {Main} : LifeAt(t)
  BY <1>3, <1>6 DEF LifeAt
<1> QED BY <1>7, <1>8, <1>9, <1>10, <1>11 DEF LaunchInv

(* A step of one thread that leaves the launched slots alone. *)
LEMMA SlotsRest ==
  ASSUME LaunchInv, NEW t \in Threads,
         Launched' = Launched, \A s \in Launched : spawns'[s] = spawns[s],
         body' = body, HostAt', CountInv',
         \A u \in Threads \ {t} : th'[u] = th[u],
         th'[t].slot = th[t].slot, th'[t].rc = th[t].rc, th'[t].joins = th[t].joins,
         {th[t].pc, th'[t].pc} \cap {"unborn", "marked", "exited", "joined"} = {},
         t # Main => Transfers(th'[t].code) /\ th'[t].pc \in {"next", "try", "sleep"}
  PROVE  LaunchInv'
<1>1. ASSUME NEW u \in Threads
      PROVE  /\ th'[u].slot = th[u].slot /\ th'[u].rc = th[u].rc /\ th'[u].joins = th[u].joins
             /\ \A l \in {"unborn", "marked", "exited", "joined"} : th'[u].pc = l <=> th[u].pc = l
  OBVIOUS
<1>m. Main \in Threads
  BY Limits DEF Main, Threads
<1>2. HostInv'
  <2>1. \A n \in DOMAIN body' : Transfers(body'[n])
    BY DEF LaunchInv, HostInv
  <2>2. th'[Main].pc \notin {"unborn", "marked", "exited"}
    BY <1>1, <1>m DEF LaunchInv, HostInv
  <2>3. ASSUME NEW u \in Threads \ {Main}
        PROVE  /\ Transfers(th'[u].code)
               /\ th'[u].pc \in {"unborn", "next", "marked", "exited", "try", "sleep"}
    BY DEF LaunchInv, HostInv
  <2> QED BY <2>1, <2>2, <2>3 DEF HostInv, Transfers
<1>3. ASSUME NEW s \in Launched PROVE Joins(s)' = Joins(s)
  <2>1. (th[Main].pc # "joined" /\ th'[Main].pc # "joined") \/ th'[Main] = th[Main]
    BY <1>m
  <2> QED BY <2>1 DEF Joins
<1>4. ASSUME NEW s \in Launched' PROVE SlotAt(s)'
  <2>1. SlotAt(s) /\ spawns'[s] = spawns[s] /\ s \in Launched
    BY DEF LaunchInv
  <2> QED BY <1>1, <1>3, <2>1 DEF SlotAt
<1>5. ASSUME NEW u \in Threads \ {Main} PROVE LifeAt(u)'
  <2>1. LifeAt(u)
    BY DEF LaunchInv
  <2> QED BY <1>1, <2>1 DEF LifeAt
<1> QED BY <1>2, <1>4, <1>5 DEF LaunchInv

(* What a spawned thread does. *)
LEMMA OtherSteps ==
  ASSUME CodeInv, LaunchInv, NEW t \in Threads \ {Main}, Step(t)
  PROVE  ScriptEnds(t) \/ ThreadExits(t) \/ Close(t) \/ RingStep(t)
<1>1. th[t].pc \in {"unborn", "next", "marked", "exited", "try", "sleep"} /\ Transfers(th[t].code)
  BY DEF LaunchInv, HostInv
<1>2. th[t].code \in Seq(Commands)
  BY AtThread DEF CodeInv
<1>3. th[t].code # <<>> => Op(t).op \in {"write", "read", "close"}
  BY <1>1, <1>2, CodeParts DEF Op, Transfers
<1>4. ~LaunchFull(t) /\ ~LaunchClaim(t) /\ ~CreateFull(t) /\ ~CreateFill(t) /\ ~AwaitBegins(t)
  BY <1>3 DEF LaunchFull, LaunchClaim, CreateFull, CreateFill, AwaitBegins, Awaiting, Begins
<1>5. ~LaunchFails(t) /\ ~LaunchThread(t) /\ ~LaunchLoad(t) /\ ~LaunchStore(t) /\ ~CreateCount(t)
  BY <1>1 DEF LaunchFails, LaunchThread, LaunchLoad, LaunchStore, CreateCount, At
<1>6. ~AwaitScan(t) /\ ~Join(t) /\ ~RecordJoined(t) /\ ~AwaitEnds(t) /\ ~ResetSpawns(t)
  BY <1>1 DEF AwaitScan, Join, RecordJoined, AwaitEnds, ResetSpawns, At
<1>7. ~CloseAll(t)
  BY <1>1, <1>3 DEF CloseAll, Begins, At
<1> QED BY <1>4, <1>5, <1>6, <1>7 DEF Step, SpawnStep, AwaitStep, TableStep

(* A read, a write or the close of one channel moves one thread. *)
LEMMA TransferSteps ==
  ASSUME CodeInv, NEW t \in Threads, Close(t) \/ RingStep(t)
  PROVE  /\ UNCHANGED <<body, spawns, spawnCount, ringCount>> /\ mutex' \in {mutex, t, Nobody}
         /\ {th[t].pc, th'[t].pc} \subseteq {"next", "try", "sleep"}
         /\ th'[t].code = th[t].code \/ (th[t].code # <<>> /\ th'[t].code = Tail(th[t].code))
         /\ th'[t].slot = th[t].slot /\ th'[t].rc = th[t].rc /\ th'[t].joins = th[t].joins
         /\ \A u \in Threads \ {t} : th'[u] = th[u]
<1>1. ThreadInv
  BY DEF CodeInv
<1>2. UNCHANGED <<body, spawns, spawnCount, ringCount>> /\ mutex' \in {mutex, t, Nobody}
  BY DEF Close, RingStep, NoChannel, Lock, Sleep, Wake, TimesOut, Write, Read, spawnVars, ringVars
<1>3. th[t].pc \in {"next", "try", "sleep"}
  BY DEF Close, RingStep, NoChannel, Lock, Sleep, Wake, TimesOut, Write, Read, Begins, At
<1>4. th[t].pc = "try" => th[t].code # <<>>
  BY <1>1, AtThread DEF Fits
<1>5. CASE Close(t) \/ NoChannel(t) \/ TimesOut(t) \/ Write(t) \/ Read(t)
  <2>1. Return(t) /\ th[t].code # <<>>
    BY <1>4, <1>5 DEF Close, NoChannel, TimesOut, Write, Read, Begins, Transfer, At
  <2> QED BY <1>1, <1>2, <1>3, <2>1, GoesBackFields
<1>6. CASE Lock(t) \/ Sleep(t) \/ Wake(t)
  <2>1. PICK label, i, n : label \in {"try", "sleep"} /\ Goto(t, label, i, n)
    BY <1>6 DEF Lock, Sleep, Wake
  <2> QED BY <1>1, <1>2, <1>3, <2>1, GoesOnFields
<1> QED BY <1>5, <1>6 DEF RingStep

(* The launched slots are the same when none is counted or about to be. *)
LEMMA LaunchedRest ==
  ASSUME spawnCount' = spawnCount,
         th'[Main].pc \in {"load", "store"} <=> th[Main].pc \in {"load", "store"}
  PROVE  Launched' = Launched
BY DEF Launched

(* The host's thread is one. *)
LEMMA MainIsThread == Main \in Threads /\ 0 \in Nat
BY Limits DEF Main, Threads

(* The host's thread stays where it is in the tables when another moves. *)
LEMMA HostStays ==
  ASSUME TableInv, LaunchInv, ThreadInv, UNCHANGED <<spawnCount, ringCount>>, th'[Main] = th[Main],
         \A s \in Slots : spawns'[s].joined = spawns[s].joined /\ spawns'[s].thread = spawns[s].thread,
         \A u \in Threads : th[u].pc = "exited" => th'[u].pc = "exited"
  PROVE  HostAt'
<1>1. /\ HostAt /\ CountInv /\ \A s \in Launched : SlotAt(s)
      /\ spawnCount \in Nat /\ th[Main].i \in Nat
  BY MainIsThread, AtThread DEF LaunchInv, TableInv
<1>2. th[Main].pc \in {"join", "joined"} => th[Main].i \in Slots /\ th[Main].i \in Launched
  BY <1>1, Limits DEF HostAt, CountInv, Slots, Launched
<1>3. spawnCount < MaxSpawns => spawnCount \in Slots
  BY <1>1, Limits DEF Slots
<1>4. th[Main].pc = "joined" => th'[spawns'[th[Main].i].thread].pc = "exited"
  BY <1>1, <1>2 DEF HostAt, SlotAt
<1>5. th[Main].pc \in {"create", "load", "store"} => ~spawns'[spawnCount].joined
  BY <1>1, <1>3 DEF HostAt
<1>6. th[Main].pc \in {"join", "joined"} => ~spawns'[th[Main].i].joined
  BY <1>1, <1>2 DEF HostAt
<1> QED BY <1>1, <1>4, <1>5, <1>6 DEF HostAt

(* Reading, writing and closing one channel leave the slots alone. *)
LEMMA TransferKeepsLaunch ==
  ASSUME CodeInv, LaunchInv, NEW t \in Threads, Close(t) \/ RingStep(t) PROVE LaunchInv'
<1>1. /\ UNCHANGED <<body, spawns, spawnCount, ringCount>> /\ mutex' \in {mutex, t, Nobody}
      /\ {th[t].pc, th'[t].pc} \subseteq {"next", "try", "sleep"}
      /\ th'[t].code = th[t].code \/ (th[t].code # <<>> /\ th'[t].code = Tail(th[t].code))
      /\ th'[t].slot = th[t].slot /\ th'[t].rc = th[t].rc /\ th'[t].joins = th[t].joins
      /\ \A u \in Threads \ {t} : th'[u] = th[u]
  BY TransferSteps
<1>2. Launched' = Launched
  BY <1>1, MainIsThread, LaunchedRest
<1>3. t # Main => Transfers(th'[t].code)
  <2>1. t # Main => Transfers(th[t].code)
    BY DEF LaunchInv, HostInv
  <2>2. th[t].code \in Seq(Commands)
    BY AtThread DEF CodeInv
  <2> QED BY <1>1, <2>1, <2>2, TransfersTail
<1>4. HostAt'
  <2>1. CASE t = Main
    BY <1>1, <2>1 DEF HostAt
  <2>2. CASE t # Main
    <3>1. \A u \in Threads : th[u].pc = "exited" => th'[u].pc = "exited"
      BY <1>1
    <3> QED BY <1>1, <2>2, <3>1, MainIsThread, HostStays DEF CodeInv
  <2> QED BY <2>1, <2>2
<1>5. CountInv'
  BY <1>1, MainIsThread DEF LaunchInv, CountInv
<1> QED BY <1>1, <1>2, <1>3, <1>4, <1>5, SlotsRest

(* The end of a script is marked in the slot of its thread. *)
LEMMA EndKeepsLaunch ==
  ASSUME CodeInv, LaunchInv, NEW t \in Threads, ScriptEnds(t) PROVE LaunchInv'
<1>1. PICK rc \in {0, 1} :
        /\ th' = [th EXCEPT ![t].pc = "marked", ![t].rc = rc]
        /\ spawns' = [spawns EXCEPT ![th[t].slot].active = FALSE, ![th[t].slot].result = rc]
  BY DEF ScriptEnds
<1> DEFINE s == th[t].slot
<1>2. t # Main /\ th[t].pc = "next" /\ UNCHANGED <<body, spawnCount, ringCount, mutex>>
  BY DEF ScriptEnds, At, ringVars
<1>3. th \in [Threads -> Thread] /\ th[t] \in Thread /\ spawns \in [Slots -> Spawned]
  BY DEF CodeInv, ThreadInv, TableInv
<1>4. s \in Launched /\ spawns[s].thread = t /\ s \in Slots /\ SlotAt(s)
  BY <1>2 DEF LaunchInv, LifeAt
<1>5. /\ th'[t].pc = "marked" /\ th'[t].rc = rc /\ th'[t].code = th[t].code /\ th'[t].slot = s
      /\ th'[t].joins = th[t].joins /\ \A u \in Threads \ {t} : th'[u] = th[u]
  BY <1>1, <1>3 DEF Thread
<1>6. /\ ~spawns'[s].active /\ spawns'[s].result = rc
      /\ spawns'[s].joined = spawns[s].joined /\ spawns'[s].thread = spawns[s].thread
  BY <1>1, <1>3, <1>4 DEF Spawned
<1>7. \A q \in Slots \ {s} : spawns'[q] = spawns[q]
  BY <1>1, <1>3
<1>8. th'[Main] = th[Main]
  BY <1>2, <1>5, MainIsThread
<1> HIDE DEF s
<1>9. Launched' = Launched
  BY <1>2, <1>8, LaunchedRest
<1>10. HostInv'
  <2>1. \A n \in DOMAIN body' : Transfers(body'[n])
    BY <1>2 DEF LaunchInv, HostInv
  <2>2. th'[Main].pc \notin {"unborn", "marked", "exited"}
    BY <1>8 DEF LaunchInv, HostInv
  <2>3. ASSUME NEW u \in Threads \ {Main}
        PROVE  /\ Transfers(th'[u].code)
               /\ th'[u].pc \in {"unborn", "next", "marked", "exited", "try", "sleep"}
    BY <1>5 DEF LaunchInv, HostInv
  <2> QED BY <2>1, <2>2, <2>3 DEF HostInv, Transfers
<1>11. HostAt'
  <2>1. \A q \in Slots : spawns'[q].joined = spawns[q].joined /\ spawns'[q].thread = spawns[q].thread
    BY <1>6, <1>7
  <2>2. \A u \in Threads : th[u].pc = "exited" => th'[u].pc = "exited"
    BY <1>2, <1>5
  <2> QED BY <1>2, <1>8, <2>1, <2>2, HostStays DEF CodeInv
<1>12. CountInv'
  BY <1>2, <1>8 DEF LaunchInv, CountInv
<1>13. \A q \in Slots : Joins(q)' = Joins(q)
  BY <1>6, <1>7, <1>8 DEF Joins
<1>14. ASSUME NEW q \in Launched' PROVE SlotAt(q)'
  <2>1. q \in Launched /\ SlotAt(q) /\ q \in Slots
    BY <1>9 DEF LaunchInv, Launched
  <2>2. CASE q = s
    <3>1. ~spawns[s].joined
      BY <1>2, <1>4 DEF SlotAt
    <3> QED BY <1>4, <1>5, <1>6, <1>13, <2>2, <3>1 DEF SlotAt
  <2>3. CASE q # s
    <3>1. spawns[q].thread # t
      BY <2>1, <2>3 DEF SlotAt, s
    <3>2. spawns'[q] = spawns[q] /\ th'[spawns[q].thread] = th[spawns[q].thread]
      BY <1>5, <1>7, <2>1, <2>3, <3>1 DEF SlotAt
    <3> QED BY <1>13, <2>1, <3>2 DEF SlotAt
  <2> QED BY <2>2, <2>3
<1>15. ASSUME NEW u \in Threads \ {Main} PROVE LifeAt(u)'
  <2>1. LifeAt(u)
    BY DEF LaunchInv
  <2>2. \A q \in Slots : spawns'[q].thread = spawns[q].thread
    BY <1>6, <1>7
  <2> QED BY <1>2, <1>4, <1>5, <1>9, <2>1, <2>2 DEF LifeAt, s
<1> QED BY <1>10, <1>11, <1>12, <1>14, <1>15 DEF LaunchInv

(* A thread that has marked its slot ends. *)
LEMMA ExitKeepsLaunch ==
  ASSUME CodeInv, LaunchInv, NEW t \in Threads, ThreadExits(t) PROVE LaunchInv'
<1>1. th' = [th EXCEPT ![t] = [th[t] EXCEPT !.pc = "exited"]] /\ th[t].pc = "marked"
  BY DEF ThreadExits, At
<1>2. UNCHANGED <<body, spawns, spawnCount, ringCount, mutex>>
  BY DEF ThreadExits, spawnVars, ringVars
<1>3. th \in [Threads -> Thread] /\ th[t] \in Thread
  BY DEF CodeInv, ThreadInv
<1>4. t # Main
  BY <1>1 DEF LaunchInv, HostInv
<1>5. /\ th'[t].pc = "exited" /\ th'[t].rc = th[t].rc /\ th'[t].code = th[t].code
      /\ th'[t].slot = th[t].slot /\ th'[t].joins = th[t].joins
      /\ \A u \in Threads \ {t} : th'[u] = th[u]
  BY <1>1, <1>3 DEF Thread
<1>8. th'[Main] = th[Main]
  BY <1>4, <1>5, MainIsThread
<1>9. Launched' = Launched
  BY <1>2, <1>8, LaunchedRest
<1>10. HostInv'
  <2>1. \A n \in DOMAIN body' : Transfers(body'[n])
    BY <1>2 DEF LaunchInv, HostInv
  <2>2. th'[Main].pc \notin {"unborn", "marked", "exited"}
    BY <1>8 DEF LaunchInv, HostInv
  <2>3. ASSUME NEW u \in Threads \ {Main}
        PROVE  /\ Transfers(th'[u].code)
               /\ th'[u].pc \in {"unborn", "next", "marked", "exited", "try", "sleep"}
    BY <1>5 DEF LaunchInv, HostInv
  <2> QED BY <2>1, <2>2, <2>3 DEF HostInv, Transfers
<1>11. HostAt'
  <2>2. \A u \in Threads : th[u].pc = "exited" => th'[u].pc = "exited"
    BY <1>1, <1>5
  <2> QED BY <1>2, <1>8, <2>2, HostStays DEF CodeInv
<1>12. CountInv'
  BY <1>2, <1>8 DEF LaunchInv, CountInv
<1>13. \A q \in Slots : Joins(q)' = Joins(q)
  BY <1>2, <1>8 DEF Joins
<1>14. ASSUME NEW q \in Launched' PROVE SlotAt(q)'
  <2>1. q \in Launched /\ SlotAt(q) /\ q \in Slots
    BY <1>9 DEF LaunchInv, Launched
  <2> QED BY <1>1, <1>2, <1>5, <1>13, <2>1 DEF SlotAt
<1>15. ASSUME NEW u \in Threads \ {Main} PROVE LifeAt(u)'
  <2>1. LifeAt(u)
    BY DEF LaunchInv
  <2> QED BY <1>1, <1>2, <1>5, <1>9, <2>1 DEF LifeAt
<1> QED BY <1>10, <1>11, <1>12, <1>14, <1>15 DEF LaunchInv

(* A step of the host's thread that leaves the launched slots and threads alone. *)
LEMMA HostRests ==
  ASSUME CodeInv, LaunchInv,
         Launched' = Launched, \A s \in Launched : spawns'[s] = spawns[s],
         body' = body, HostAt', spawnCount' <= MaxSpawns, ringCount' <= MaxChannels,
         mutex' = mutex,
         {th[Main].pc, th'[Main].pc} \cap {"unborn", "marked", "exited", "joined"} = {},
         Return(Main) \/ \E label, i, n : Goto(Main, label, i, n)
  PROVE  LaunchInv'
<1>1. ThreadInv
  BY DEF CodeInv
<1>2. /\ th'[Main].slot = th[Main].slot /\ th'[Main].rc = th[Main].rc /\ th'[Main].joins = th[Main].joins
      /\ \A u \in Threads \ {Main} : th'[u] = th[u]
  BY <1>1, MainIsThread, GoesBackFields, GoesOnFields
<1>3. CountInv'
  BY <1>2 DEF LaunchInv, CountInv
<1> QED BY <1>2, <1>3, MainIsThread, SlotsRest

(* The host's thread launches. *)
LEMMA LaunchKeepsLaunch ==
  ASSUME CodeInv, LaunchInv,
         LaunchFull(Main) \/ LaunchClaim(Main) \/ LaunchFails(Main) \/ LaunchLoad(Main) \/ LaunchStore(Main)
  PROVE  LaunchInv'
<1>0. /\ ThreadInv /\ TableInv /\ spawns \in [Slots -> Spawned] /\ spawnCount \in Nat
      /\ HostAt /\ CountInv /\ spawnCount <= MaxSpawns /\ ringCount <= MaxChannels
      /\ th[Main].i \in Nat /\ Main \in Threads
  BY MainIsThread, AtThread DEF CodeInv, TableInv, LaunchInv, CountInv
<1>1. CASE LaunchFull(Main)
  <2>1. /\ th[Main].pc = "next" /\ Return(Main)
        /\ UNCHANGED <<body, spawns, spawnCount, ringCount, mutex>>
    BY <1>1 DEF LaunchFull, Begins, At, spawnVars, ringVars
  <2>2. th'[Main].pc = "next"
    BY <1>0, <2>1, GoesBackFields
  <2>3. Launched' = Launched
    BY <2>1, <2>2, LaunchedRest
  <2>4. HostAt'
    BY <2>2 DEF HostAt
  <2> QED BY <1>0, <2>1, <2>2, <2>3, <2>4, HostRests
<1>2. CASE LaunchClaim(Main)
  <2>1. /\ th[Main].pc = "next" /\ Goto(Main, "create", spawnCount, 0) /\ spawnCount < MaxSpawns
        /\ UNCHANGED <<body, spawnCount, ringCount, mutex>>
        /\ spawns' = [spawns EXCEPT ![spawnCount] =
                        [@ EXCEPT !.name = Op(Main).name, !.active = TRUE, !.joined = FALSE, !.result = 0]]
    BY <1>2 DEF LaunchClaim, Begins, At, ringVars
  <2>2. th'[Main].pc = "create" /\ th'[Main].i = spawnCount
    BY <1>0, <2>1, GoesOnFields
  <2>3. Launched' = Launched
    BY <2>1, <2>2, LaunchedRest
  <2>4. spawnCount \in Slots
    BY <1>0, <2>1, Limits DEF Slots
  <2>5. ~spawns'[spawnCount].joined
    BY <1>0, <2>1, <2>4 DEF Spawned
  <2>6. \A s \in Launched : spawns'[s] = spawns[s]
    BY <1>0, <2>1 DEF Launched
  <2>7. HostAt'
    BY <2>1, <2>2, <2>5 DEF HostAt
  <2> QED BY <1>0, <2>1, <2>2, <2>3, <2>6, <2>7, HostRests
<1>3. CASE LaunchFails(Main)
  <2>1. /\ th[Main].pc = "create" /\ Return(Main) /\ th[Main].i = spawnCount
        /\ UNCHANGED <<body, spawnCount, ringCount, mutex>>
        /\ spawns' = spawns \/ spawns' = [spawns EXCEPT ![th[Main].i].active = FALSE]
    BY <1>0, <1>3 DEF LaunchFails, At, ringVars, HostAt
  <2>2. th'[Main].pc = "next"
    BY <1>0, <2>1, GoesBackFields
  <2>3. Launched' = Launched
    BY <2>1, <2>2, LaunchedRest
  <2>4. HostAt'
    BY <2>2 DEF HostAt
  <2>5. \A s \in Launched : spawns'[s] = spawns[s]
    BY <1>0, <2>1 DEF Launched
  <2> QED BY <1>0, <2>1, <2>2, <2>3, <2>4, <2>5, HostRests
<1>4. CASE LaunchLoad(Main)
  <2>1. /\ th[Main].pc = "load" /\ Goto(Main, "store", th[Main].i, spawnCount)
        /\ UNCHANGED <<body, spawns, spawnCount, ringCount, mutex>>
    BY <1>4 DEF LaunchLoad, At, spawnVars, ringVars
  <2>2. th'[Main].pc = "store" /\ th'[Main].i = th[Main].i /\ th'[Main].n = spawnCount
    BY <1>0, <2>1, GoesOnFields
  <2>3. Launched' = Launched
    BY <2>1, <2>2, LaunchedRest
  <2>4. HostAt'
    BY <1>0, <2>1, <2>2 DEF HostAt
  <2> QED BY <1>0, <2>1, <2>2, <2>3, <2>4, HostRests
<1>5. CASE LaunchStore(Main)
  <2>1. /\ th[Main].pc = "store" /\ Return(Main) /\ spawnCount' = spawnCount + 1 /\ spawnCount < MaxSpawns
        /\ UNCHANGED <<body, spawns, ringCount, mutex>>
    BY <1>0, <1>5 DEF LaunchStore, At, ringVars, HostAt
  <2>2. th'[Main].pc = "next"
    BY <1>0, <2>1, GoesBackFields
  <2>3. Launched' = Launched
    BY <1>0, <2>1, <2>2 DEF Launched, Slots
  <2>4. HostAt'
    BY <2>2 DEF HostAt
  <2>5. spawnCount' <= MaxSpawns
    BY <1>0, <2>1, Limits
  <2> QED BY <1>0, <2>1, <2>2, <2>3, <2>4, <2>5, HostRests
<1> QED BY <1>1, <1>2, <1>3, <1>4, <1>5

(* The host's thread begins to wait, looks for the next thread to join, or has found none. *)
LEMMA ScanKeepsLaunch ==
  ASSUME CodeInv, LaunchInv, AwaitBegins(Main) \/ AwaitScan(Main) \/ AwaitEnds(Main)
  PROVE  LaunchInv'
<1>0. /\ ThreadInv /\ TableInv /\ spawnCount \in Nat
      /\ HostAt /\ CountInv /\ spawnCount <= MaxSpawns /\ ringCount <= MaxChannels
      /\ th[Main].i \in Nat /\ Main \in Threads
  BY MainIsThread, AtThread DEF CodeInv, TableInv, LaunchInv, CountInv
<1>1. UNCHANGED <<body, spawns, spawnCount, ringCount, mutex>>
  BY DEF AwaitBegins, AwaitScan, AwaitEnds, spawnVars, ringVars
<1>2. CASE AwaitBegins(Main)
  <2>1. th[Main].pc = "next" /\ Goto(Main, "scan", 0, 0)
    BY <1>2 DEF AwaitBegins, At
  <2>2. th'[Main].pc = "scan" /\ th'[Main].i = 0
    BY <1>0, <2>1, GoesOnFields
  <2>3. Launched' = Launched
    BY <1>1, <2>1, <2>2, LaunchedRest
  <2>4. HostAt'
    BY <2>2 DEF HostAt, Slots
  <2> QED BY <1>0, <1>1, <2>1, <2>2, <2>3, <2>4, HostRests
<1>3. CASE AwaitScan(Main) /\ Wanted(Main, th[Main].i)
  <2>1. /\ th[Main].pc = "scan" /\ Goto(Main, "join", th[Main].i, 0)
        /\ th[Main].i < spawnCount /\ ~spawns[th[Main].i].joined
    BY <1>3 DEF AwaitScan, At, Wanted
  <2>2. th'[Main].pc = "join" /\ th'[Main].i = th[Main].i /\ th'[Main].code = th[Main].code
    BY <1>0, <2>1, GoesOnFields
  <2>3. Launched' = Launched
    BY <1>1, <2>1, <2>2, LaunchedRest
  <2>4. HostAt'
    BY <1>0, <1>1, <2>1, <2>2 DEF HostAt
  <2> QED BY <1>0, <1>1, <2>1, <2>2, <2>3, <2>4, HostRests
<1>4. CASE AwaitScan(Main) /\ ~Wanted(Main, th[Main].i)
  <2>1. th[Main].pc = "scan" /\ Goto(Main, "scan", th[Main].i + 1, 0) /\ th[Main].i < spawnCount
    BY <1>4 DEF AwaitScan, At
  <2>2. th'[Main].pc = "scan" /\ th'[Main].i = th[Main].i + 1 /\ th'[Main].code = th[Main].code
    BY <1>0, <2>1, GoesOnFields
  <2>3. Launched' = Launched
    BY <1>1, <2>1, <2>2, LaunchedRest
  <2>4. HostAt'
    <3>1. Head(th[Main].code).op # "await" => spawns[th[Main].i].joined
      BY <1>4 DEF Wanted, Op
    <3>2. Head(th[Main].code).op # "await" =>
            \A s \in Slots : s < spawnCount /\ s < th[Main].i + 1 => spawns[s].joined
      <4>1. \A s \in Slots : s < th[Main].i + 1 => s < th[Main].i \/ s = th[Main].i
        BY <1>0, Limits DEF Slots
      <4> QED BY <1>0, <2>1, <3>1, <4>1 DEF HostAt
    <3> QED BY <1>1, <2>2, <3>2 DEF HostAt
  <2> QED BY <1>0, <1>1, <2>1, <2>2, <2>3, <2>4, HostRests
<1>5. CASE AwaitEnds(Main)
  <2>1. th[Main].pc = "scan" /\ Return(Main)
    BY <1>5 DEF AwaitEnds, At
  <2>2. th'[Main].pc = "next"
    BY <1>0, <2>1, GoesBackFields
  <2>3. Launched' = Launched
    BY <1>1, <2>1, <2>2, LaunchedRest
  <2>4. HostAt'
    BY <2>2 DEF HostAt
  <2> QED BY <1>0, <1>1, <2>1, <2>2, <2>3, <2>4, HostRests
<1> QED BY <1>2, <1>3, <1>4, <1>5

(* The host's thread creates and closes channels. *)
LEMMA TableKeepsLaunch ==
  ASSUME CodeInv, LaunchInv,
         CreateFull(Main) \/ CreateFill(Main) \/ CreateCount(Main) \/ CloseAll(Main)
  PROVE  LaunchInv'
<1>0. /\ ThreadInv /\ ringCount \in Nat
      /\ HostAt /\ CountInv /\ spawnCount <= MaxSpawns /\ ringCount <= MaxChannels
      /\ Main \in Threads
  BY MainIsThread, AtThread DEF CodeInv, TableInv, LaunchInv, CountInv
<1>1. UNCHANGED <<body, spawns, spawnCount, mutex>>
  BY DEF CreateFull, CreateFill, CreateCount, CloseAll, spawnVars, ringVars
<1>2. CASE CreateFull(Main) \/ CreateCount(Main) \/ CloseAll(Main)
  <2>1. th[Main].pc \in {"next", "count", "close"} /\ Return(Main)
    BY <1>2 DEF CreateFull, CreateCount, CloseAll, Begins, At
  <2>2. th'[Main].pc = "next"
    BY <1>0, <2>1, GoesBackFields
  <2>3. Launched' = Launched
    BY <1>1, <2>1, <2>2, LaunchedRest
  <2>4. HostAt'
    BY <2>2 DEF HostAt
  <2>5. ringCount' <= MaxChannels
    BY <1>0, <1>2, Limits DEF CreateFull, CreateCount, CloseAll, At, HostAt, ringVars
  <2> QED BY <1>0, <1>1, <2>1, <2>2, <2>3, <2>4, <2>5, HostRests
<1>3. CASE CreateFill(Main)
  <2>1. /\ th[Main].pc = "next" /\ Goto(Main, "count", ringCount, 0) /\ ringCount' = ringCount
        /\ ringCount < MaxChannels
    BY <1>3 DEF CreateFill, Begins, At
  <2>2. th'[Main].pc = "count"
    BY <1>0, <2>1, GoesOnFields
  <2>3. Launched' = Launched
    BY <1>1, <2>1, <2>2, LaunchedRest
  <2>4. HostAt'
    BY <2>1, <2>2 DEF HostAt
  <2> QED BY <1>0, <1>1, <2>1, <2>2, <2>3, <2>4, HostRests
<1> QED BY <1>2, <1>3

(* The host's thread and its script in a step that moves another one besides. *)
LEMMA HostInvFrom ==
  ASSUME HostInv, body' = body, th'[Main].pc \notin {"unborn", "marked", "exited"},
         \A u \in Threads \ {Main} :
           (th'[u].code = th[u].code /\ th'[u].pc = th[u].pc) \/ (Transfers(th'[u].code) /\ th'[u].pc = "next")
  PROVE  HostInv'
<1>1. \A n \in DOMAIN body' : Transfers(body'[n])
  BY DEF HostInv
<1>2. ASSUME NEW u \in Threads \ {Main}
      PROVE  /\ Transfers(th'[u].code)
             /\ th'[u].pc \in {"unborn", "next", "marked", "exited", "try", "sleep"}
  BY DEF HostInv
<1> QED BY <1>1, <1>2 DEF HostInv, Transfers

(* A thread is created: it is in the slot that was claimed, which was nobody's. *)
LEMMA ThreadKeepsLaunch ==
  ASSUME CodeInv, LaunchInv, LaunchThread(Main) PROVE LaunchInv'
<1>0. /\ th \in [Threads -> Thread] /\ spawns \in [Slots -> Spawned] /\ spawnCount \in Nat
      /\ HostInv /\ HostAt /\ CountInv /\ Main \in Threads /\ th[Main] \in Thread
      /\ Named(th[Main].code) /\ Fits(th[Main].pc, th[Main].code, th[Main].i)
      /\ th[Main].code \in Seq(Commands)
  BY MainIsThread, AtThread DEF CodeInv, ThreadInv, TableInv, LaunchInv
<1>1. PICK u \in Threads :
        /\ At(u, "unborn") /\ spawns' = [spawns EXCEPT ![th[Main].i].thread = u]
        /\ th' = [th EXCEPT ![Main].pc = "load",
                    ![u] = [@ EXCEPT !.pc = "next", !.slot = th[Main].i, !.code = body[Op(Main).name]]]
  BY DEF LaunchThread
<1>2. /\ th[Main].pc = "create" /\ th[Main].i = spawnCount /\ spawnCount < MaxSpawns
      /\ ~spawns[spawnCount].joined /\ spawnCount \in Slots
      /\ UNCHANGED <<body, spawnCount, ringCount, mutex>>
  BY <1>0, Limits DEF LaunchThread, At, HostAt, ringVars, Slots
<1>3. th[u].pc = "unborn" /\ u # Main /\ th[u] \in Thread
  BY <1>0, <1>1, <1>2 DEF At
<1> DEFINE s == spawnCount
<1>4. /\ th'[Main] = [th[Main] EXCEPT !.pc = "load"]
      /\ th'[u] = [th[u] EXCEPT !.pc = "next", !.slot = s, !.code = body[Op(Main).name]]
      /\ \A w \in Threads \ {Main, u} : th'[w] = th[w]
  BY <1>0, <1>1, <1>2, <1>3
<1>5. /\ th'[Main].pc = "load" /\ th'[Main].i = s /\ th'[Main].code = th[Main].code
      /\ th'[Main].slot = th[Main].slot /\ th'[Main].joins = th[Main].joins
  BY <1>0, <1>2, <1>4 DEF Thread
<1>6. /\ th'[u].pc = "next" /\ th'[u].slot = s /\ th'[u].code = body[Op(Main).name]
      /\ th'[u].joins = th[u].joins /\ th[u].joins = 0
  <2>1. th[u].joins = 0
    BY <1>3 DEF LaunchInv, LifeAt
  <2> QED BY <1>3, <1>4, <2>1 DEF Thread
<1>7. /\ spawns'[s].thread = u /\ ~spawns'[s].joined /\ \A q \in Slots \ {s} : spawns'[q] = spawns[q]
  BY <1>0, <1>1, <1>2 DEF Spawned
<1> HIDE DEF s
<1>8. Launched' = Launched \union {s} /\ s \notin Launched
  BY <1>0, <1>2, <1>5 DEF Launched, s
<1>9. HostInv'
  <2>1. th[Main].code # <<>> /\ Head(th[Main].code).op = "spawn"
    BY <1>0, <1>2 DEF Fits
  <2>2. Op(Main).name \in DOMAIN body
    BY <1>0, <2>1, CodeParts DEF Named, Op
  <2>3. Transfers(th'[u].code)
    BY <1>0, <1>6, <2>2 DEF HostInv
  <2> QED BY <1>0, <1>2, <1>4, <1>5, <1>6, <2>3, HostInvFrom
<1>10. HostAt'
  BY <1>2, <1>5, <1>7 DEF HostAt, s
<1>11. CountInv'
  BY <1>0, <1>2, <1>5 DEF CountInv
<1>12. ASSUME NEW q \in Launched' PROVE SlotAt(q)'
  <2>1. CASE q = s
    <3>1. Joins(q)' = 0
      BY <1>5, <1>7, <2>1 DEF Joins
    <3> QED BY <1>3, <1>6, <1>7, <2>1, <3>1 DEF SlotAt
  <2>2. CASE q # s
    <3>1. q \in Launched /\ q \in Slots /\ SlotAt(q)
      BY <1>8, <2>2 DEF LaunchInv, Launched
    <3>2. spawns'[q] = spawns[q] /\ th'[spawns[q].thread] = th[spawns[q].thread]
      BY <1>3, <1>4, <1>7, <2>2, <3>1 DEF SlotAt
    <3>3. Joins(q)' = Joins(q)
      BY <1>2, <1>5, <3>2 DEF Joins
    <3> QED BY <3>1, <3>2, <3>3 DEF SlotAt
  <2> QED BY <2>1, <2>2
<1>13. ASSUME NEW w \in Threads \ {Main} PROVE LifeAt(w)'
  <2>1. LifeAt(w)
    BY DEF LaunchInv
  <2>2. CASE w = u
    BY <1>2, <1>6, <1>7, <1>8, <2>1, <2>2 DEF LifeAt, s
  <2>3. CASE w # u
    <3>1. th'[w] = th[w]
      BY <1>4, <2>3
    <3>2. th[w].slot \in Launched => th[w].slot # s /\ th[w].slot \in Slots /\ th[w].slot \in Launched'
      BY <1>8, <2>1 DEF LifeAt
    <3> QED BY <1>7, <2>1, <3>1, <3>2 DEF LifeAt
  <2> QED BY <2>2, <2>3
<1> QED BY <1>9, <1>10, <1>11, <1>12, <1>13 DEF LaunchInv

(* A thread that has ended is joined: the first time, for its slot was not. *)
LEMMA JoinKeepsLaunch ==
  ASSUME CodeInv, LaunchInv, Join(Main) PROVE LaunchInv'
<1>0. /\ th \in [Threads -> Thread] /\ spawnCount \in Nat /\ th[Main].i \in Nat
      /\ HostInv /\ HostAt /\ CountInv /\ Main \in Threads /\ th[Main] \in Thread
  BY MainIsThread, AtThread DEF CodeInv, ThreadInv, TableInv, LaunchInv
<1> DEFINE s == th[Main].i
           u == spawns[s].thread
<1>1. /\ th[Main].pc = "join" /\ th[u].pc = "exited"
      /\ th' = [th EXCEPT ![Main].pc = "joined", ![u].joins = @ + 1]
      /\ UNCHANGED <<body, spawns, spawnCount, ringCount, mutex>>
  BY DEF Join, At, spawnVars, ringVars
<1>2. s < spawnCount /\ ~spawns[s].joined /\ s \in Slots /\ s \in Launched
  BY <1>0, <1>1, Limits DEF HostAt, CountInv, Slots, Launched
<1>3. SlotAt(s) /\ u \in Threads /\ u # Main
  BY <1>2 DEF LaunchInv, SlotAt
<1>4. th[u].joins = 0
  BY <1>1, <1>2, <1>3 DEF SlotAt, Joins
<1> HIDE DEF u
<1>5. /\ th'[Main] = [th[Main] EXCEPT !.pc = "joined"] /\ th'[u] = [th[u] EXCEPT !.joins = 1]
      /\ \A w \in Threads \ {Main, u} : th'[w] = th[w]
  <2>1. th' = [th EXCEPT ![Main] = [th[Main] EXCEPT !.pc = "joined"], ![u] = [th[u] EXCEPT !.joins = th[u].joins + 1]]
    BY <1>0, <1>1, <1>3
  <2>2. th[u].joins + 1 = 1
    BY <1>4
  <2> QED BY <1>0, <1>3, <2>1, <2>2
<1>6. /\ th'[Main].pc = "joined" /\ th'[Main].i = s /\ th'[Main].code = th[Main].code
      /\ th'[Main].slot = th[Main].slot /\ th'[Main].joins = th[Main].joins
  BY <1>0, <1>5 DEF Thread
<1>7. /\ th'[u].pc = "exited" /\ th'[u].joins = 1 /\ th'[u].slot = th[u].slot /\ th'[u].rc = th[u].rc
      /\ th'[u].code = th[u].code
  <2>1. th[u] \in Thread
    BY <1>0, <1>3
  <2> QED BY <1>1, <1>5, <2>1 DEF Thread
<1>u. spawns[s].thread = u
  BY DEF u
<1> HIDE DEF s
<1>8. Launched' = Launched
  BY <1>1, <1>6, LaunchedRest
<1>9. HostInv'
  BY <1>0, <1>1, <1>5, <1>6, <1>7, HostInvFrom
<1>10. HostAt'
  BY <1>0, <1>1, <1>2, <1>6, <1>7, <1>u DEF HostAt, s
<1>11. CountInv'
  BY <1>0, <1>1, <1>6 DEF CountInv
<1>12. ASSUME NEW q \in Launched' PROVE SlotAt(q)'
  <2>1. q \in Launched /\ SlotAt(q) /\ spawns'[q] = spawns[q]
    BY <1>1, <1>8 DEF LaunchInv
  <2>2. CASE q = s
    <3>1. Joins(q)' = 1
      BY <1>6, <2>2 DEF Joins
    <3> QED BY <1>1, <1>3, <1>7, <1>u, <2>1, <2>2, <3>1 DEF SlotAt
  <2>3. CASE q # s
    <3>1. Joins(q)' = Joins(q)
      BY <1>1, <1>6, <2>3 DEF Joins
    <3>2. spawns[q].thread # u /\ spawns[q].thread # Main
      BY <1>3, <1>u, <2>1, <2>3 DEF SlotAt
    <3>3. th'[spawns[q].thread] = th[spawns[q].thread]
      BY <1>5, <2>1, <3>2 DEF SlotAt
    <3> QED BY <2>1, <3>1, <3>3 DEF SlotAt
  <2> QED BY <2>2, <2>3
<1>13. ASSUME NEW w \in Threads \ {Main} PROVE LifeAt(w)'
  <2>1. LifeAt(w)
    BY DEF LaunchInv
  <2>2. CASE w = u
    BY <1>7, <2>1, <2>2 DEF LifeAt
  <2>3. CASE w # u
    <3>1. th'[w] = th[w] /\ spawns' = spawns
      BY <1>1, <1>5, <2>3
    <3> QED BY <1>8, <2>1, <3>1 DEF LifeAt
  <2> QED BY <2>2, <2>3
<1> QED BY <1>9, <1>10, <1>11, <1>12, <1>13 DEF LaunchInv

(* That it was joined is recorded. *)
LEMMA RecordKeepsLaunch ==
  ASSUME CodeInv, LaunchInv, RecordJoined(Main) PROVE LaunchInv'
<1>0. /\ ThreadInv /\ spawns \in [Slots -> Spawned] /\ spawnCount \in Nat /\ th[Main].i \in Nat
      /\ HostInv /\ HostAt /\ CountInv /\ Main \in Threads
  BY MainIsThread, AtThread DEF CodeInv, TableInv, LaunchInv
<1> DEFINE s == th[Main].i
<1>1. /\ th[Main].pc = "joined" /\ spawns' = [spawns EXCEPT ![s].joined = TRUE]
      /\ UNCHANGED <<body, spawnCount, ringCount, mutex>>
  BY DEF RecordJoined, At, ringVars
<1>2. s < spawnCount /\ s \in Slots /\ s \in Launched /\ SlotAt(s) /\ th[spawns[s].thread].pc = "exited"
  BY <1>0, <1>1, Limits DEF HostAt, CountInv, Slots, Launched, LaunchInv
<1>3. /\ th'[Main].pc \in {"next", "scan"}
      /\ th'[Main].pc = "scan" => th'[Main].i = s + 1 /\ Head(th'[Main].code).op # "await" /\ th'[Main].code = th[Main].code
      /\ th'[Main].slot = th[Main].slot /\ th'[Main].joins = th[Main].joins
      /\ \A u \in Threads \ {Main} : th'[u] = th[u]
  <2>1. CASE Op(Main).op = "await"
    BY <1>0, <2>1, GoesBackFields DEF RecordJoined
  <2>2. CASE Op(Main).op # "await"
    BY <1>0, <2>2, GoesOnFields DEF RecordJoined, Op
  <2> QED BY <2>1, <2>2
<1>4. /\ spawns'[s].joined /\ spawns'[s].thread = spawns[s].thread
      /\ spawns'[s].active = spawns[s].active /\ spawns'[s].result = spawns[s].result
      /\ \A q \in Slots \ {s} : spawns'[q] = spawns[q]
  BY <1>0, <1>1, <1>2 DEF Spawned
<1> HIDE DEF s
<1>8. Launched' = Launched
  BY <1>1, <1>3, LaunchedRest
<1>9. HostInv'
  BY <1>0, <1>1, <1>3, HostInvFrom
<1>10. HostAt'
  <2>1. th'[Main].pc = "scan" => \A q \in Slots : q < spawnCount /\ q < s + 1 => spawns'[q].joined
    <3>1. \A q \in Slots : q < s + 1 => q < s \/ q = s
      BY <1>0, Limits DEF Slots, s
    <3>2. th'[Main].pc = "scan" => \A q \in Slots : q < spawnCount /\ q < s => spawns[q].joined
      BY <1>0, <1>1, <1>3 DEF HostAt, s
    <3> QED BY <1>4, <3>1, <3>2
  <2> QED BY <1>1, <1>3, <2>1 DEF HostAt
<1>11. CountInv'
  BY <1>0, <1>1, <1>3 DEF CountInv
<1>12. ASSUME NEW q \in Launched' PROVE SlotAt(q)'
  <2>1. q \in Launched /\ SlotAt(q) /\ q \in Slots
    BY <1>8 DEF LaunchInv, Launched
  <2>2. spawns'[q].thread = spawns[q].thread /\ th'[spawns[q].thread] = th[spawns[q].thread]
    BY <1>3, <1>4, <2>1 DEF SlotAt
  <2>3. Joins(q)' = Joins(q)
    BY <1>1, <1>3, <1>4, <2>1 DEF Joins, s
  <2>4. CASE q = s
    BY <1>2, <1>4, <2>1, <2>2, <2>3, <2>4 DEF SlotAt
  <2>5. CASE q # s
    BY <1>4, <2>1, <2>2, <2>3, <2>5 DEF SlotAt
  <2> QED BY <2>4, <2>5
<1>13. ASSUME NEW w \in Threads \ {Main} PROVE LifeAt(w)'
  <2>1. LifeAt(w)
    BY DEF LaunchInv
  <2>2. \A q \in Slots : spawns'[q].thread = spawns[q].thread
    BY <1>4
  <2> QED BY <1>3, <1>8, <2>1, <2>2 DEF LifeAt
<1> QED BY <1>9, <1>10, <1>11, <1>12, <1>13 DEF LaunchInv

(* When a wait for all of them has come to its end every thread that was launched has ended. *)
LEMMA AllHaveEnded ==
  ASSUME CodeInv, LaunchInv, th[Main].pc = "scan", Head(th[Main].code).op # "await",
         th[Main].i >= spawnCount, NEW t \in Threads \ {Main}
  PROVE  th[t].pc \in {"unborn", "exited"}
<1>0. spawnCount \in Nat /\ th[Main].i \in Nat /\ HostAt /\ LifeAt(t)
  BY MainIsThread, AtThread DEF CodeInv, TableInv, LaunchInv
<1> SUFFICES ASSUME th[t].pc \notin {"unborn", "exited"} PROVE FALSE
  OBVIOUS
<1>1. th[t].slot \in Launched /\ spawns[th[t].slot].thread = t
  BY <1>0 DEF LifeAt
<1>2. th[t].slot \in Slots /\ th[t].slot < spawnCount /\ SlotAt(th[t].slot)
  BY <1>1 DEF Launched, LaunchInv
<1>3. th[t].slot < th[Main].i
  BY <1>0, <1>2, Limits DEF Slots
<1>4. spawns[th[t].slot].joined
  BY <1>0, <1>2, <1>3 DEF HostAt
<1> QED BY <1>1, <1>2, <1>4 DEF SlotAt

(* am_init clears a table whose threads have all ended. *)
LEMMA ResetKeepsLaunch ==
  ASSUME CodeInv, LaunchInv, ResetSpawns(Main) PROVE LaunchInv'
<1>0. /\ ThreadInv /\ HostInv /\ CountInv /\ Main \in Threads
  BY MainIsThread DEF CodeInv, LaunchInv
<1>1. /\ th[Main].pc = "scan" /\ Goto(Main, "close", 0, 0) /\ th[Main].i >= spawnCount
      /\ Head(th[Main].code).op = "init" /\ spawnCount' = 0 /\ UNCHANGED <<body, ringCount, mutex>>
  BY DEF ResetSpawns, At, Op, ringVars
<1>2. /\ th'[Main].pc = "close" /\ th'[Main].slot = th[Main].slot /\ th'[Main].joins = th[Main].joins
      /\ \A u \in Threads \ {Main} : th'[u] = th[u]
  BY <1>0, <1>1, GoesOnFields
<1>3. \A t \in Threads \ {Main} : th[t].pc \in {"unborn", "exited"}
  BY <1>1, AllHaveEnded
<1>4. Launched' = {}
  BY <1>1, <1>2 DEF Launched, Slots
<1>5. HostInv'
  BY <1>0, <1>1, <1>2, HostInvFrom
<1>6. HostAt'
  BY <1>2 DEF HostAt
<1>7. CountInv'
  BY <1>0, <1>1, <1>2, Limits DEF CountInv
<1>8. ASSUME NEW w \in Threads \ {Main} PROVE LifeAt(w)'
  <2>1. LifeAt(w)
    BY DEF LaunchInv
  <2> QED BY <1>2, <1>3, <2>1 DEF LifeAt
<1> QED BY <1>4, <1>5, <1>6, <1>7, <1>8 DEF LaunchInv

(* Every step keeps threads and slots together. *)
LEMMA LaunchNext == ASSUME CodeInv, LaunchInv, [Next]_vars PROVE LaunchInv'
<1>1. ASSUME NEW t \in Threads \ {Main}, Step(t) PROVE LaunchInv'
  BY <1>1, OtherSteps, EndKeepsLaunch, ExitKeepsLaunch, TransferKeepsLaunch
<1>2. CASE Step(Main)
  <2>1. CASE SpawnStep(Main)
    BY <2>1, MainIsThread, LaunchKeepsLaunch, ThreadKeepsLaunch, EndKeepsLaunch, ExitKeepsLaunch DEF SpawnStep
  <2>2. CASE AwaitStep(Main)
    BY <2>2, ScanKeepsLaunch, JoinKeepsLaunch, RecordKeepsLaunch, ResetKeepsLaunch DEF AwaitStep
  <2>3. CASE TableStep(Main)
    BY <2>3, MainIsThread, TableKeepsLaunch, TransferKeepsLaunch DEF TableStep
  <2>4. CASE RingStep(Main)
    BY <2>4, MainIsThread, TransferKeepsLaunch
  <2> QED BY <1>2, <2>1, <2>2, <2>3, <2>4 DEF Step
<1>3. CASE Next
  BY <1>1, <1>2, <1>3 DEF Next
<1>4. CASE UNCHANGED vars
  BY <1>4 DEF vars, LaunchInv, HostInv, HostAt, CountInv, Transfers, Launched, SlotAt, LifeAt, Joins
<1> QED BY <1>3, <1>4

-----------------------------------------------------------------------------
(* Threads that wait and their rings. *)

Waiting(t) == th[t].pc \in {"try", "sleep"}

(* Between the close of every channel and the next that is created there is a wait for every
   thread; and before the next that is created there is one. *)
WaitsForAll(c) == c.op \in {"awaitall", "init"}
Orderly(s) == \A j, k \in DOMAIN s :
                j < k /\ s[j].op = "closeall" /\ s[k].op = "create" => \E m \in j..k : WaitsForAll(s[m])
Rested(s)  == \A k \in DOMAIN s : s[k].op = "create" => \E m \in 1..k : WaitsForAll(s[m])

(* A thread that waits is in a channel of the name it asked for; that channel is in the table,
   or no other takes its place before every thread has ended. *)
KeepInv ==
  /\ Orderly(th[Main].code)
  /\ \A t \in Threads : Waiting(t) => /\ rings[th[t].i].name = Head(th[t].code).name
                                      /\ th[t].i < ringCount \/ Rested(th[Main].code)
  /\ th[Main].pc = "close" => \A t \in Threads \ {Main} : th[t].pc \in {"unborn", "exited"}

(* What follows in a script is in the same order. *)
LEMMA OrderlyTail ==
  ASSUME NEW s \in Seq(Commands), s # <<>>, Orderly(s) PROVE Orderly(Tail(s))
<1> DEFINE r == Tail(s)
<1>1. /\ s \in Seq(Commands) /\ r \in Seq(Commands) /\ Len(r) = Len(s) - 1
      /\ \A k \in 1..Len(r) : r[k] = s[k + 1]
  OBVIOUS
<1> HIDE DEF r
<1>2. ASSUME NEW j \in 1..Len(r), NEW k \in 1..Len(r), j < k, r[j].op = "closeall", r[k].op = "create"
      PROVE  \E m \in j..k : WaitsForAll(r[m])
  <2>1. j + 1 \in DOMAIN s /\ k + 1 \in DOMAIN s /\ j + 1 < k + 1
    BY <1>1, <1>2
  <2>2. PICK m \in (j + 1)..(k + 1) : WaitsForAll(s[m])
    BY <1>1, <1>2, <2>1 DEF Orderly
  <2>3. PICK i \in j..k : m = i + 1
    <3>1. m - 1 \in j..k /\ m = (m - 1) + 1
      OBVIOUS
    <3> QED BY <3>1
  <2>4. i \in 1..Len(r)
    OBVIOUS
  <2> QED BY <1>1, <2>2, <2>3, <2>4
<1>3. Orderly(r)
  BY <1>1, <1>2 DEF Orderly
<1> QED BY <1>3 DEF r

(* When every channel has been closed there is a wait before the next is created. *)
LEMMA RestedAfterClose ==
  ASSUME NEW s \in Seq(Commands), s # <<>>, Orderly(s), Head(s).op = "closeall" PROVE Rested(Tail(s))
<1> DEFINE r == Tail(s)
<1>1. /\ r \in Seq(Commands) /\ Len(r) = Len(s) - 1 /\ s[1].op = "closeall" /\ 1 \in DOMAIN s
      /\ \A k \in 1..Len(r) : r[k] = s[k + 1]
  OBVIOUS
<1> HIDE DEF r
<1>2. ASSUME NEW k \in 1..Len(r), r[k].op = "create" PROVE \E m \in 1..k : WaitsForAll(r[m])
  <2>1. k + 1 \in DOMAIN s /\ 1 < k + 1
    BY <1>1
  <2>2. PICK m \in 1..(k + 1) : WaitsForAll(s[m])
    BY <1>1, <1>2, <2>1 DEF Orderly
  <2>3. m # 1
    BY <1>1, <2>2 DEF WaitsForAll
  <2>4. PICK i \in 1..k : m = i + 1
    <3>1. m - 1 \in 1..k /\ m = (m - 1) + 1
      BY <2>3
    <3> QED BY <3>1
  <2>5. i \in 1..Len(r)
    OBVIOUS
  <2> QED BY <1>1, <2>2, <2>4, <2>5
<1>3. Rested(r)
  BY <1>1, <1>2 DEF Rested
<1> QED BY <1>3 DEF r

(* That wait is still to come when what was done is not one. *)
LEMMA RestedTail ==
  ASSUME NEW s \in Seq(Commands), s # <<>>, Rested(s), ~WaitsForAll(Head(s)) PROVE Rested(Tail(s))
<1> DEFINE r == Tail(s)
<1>1. /\ r \in Seq(Commands) /\ Len(r) = Len(s) - 1 /\ ~WaitsForAll(s[1])
      /\ \A k \in 1..Len(r) : r[k] = s[k + 1]
  OBVIOUS
<1> HIDE DEF r
<1>2. ASSUME NEW k \in 1..Len(r), r[k].op = "create" PROVE \E m \in 1..k : WaitsForAll(r[m])
  <2>1. k + 1 \in DOMAIN s
    BY <1>1
  <2>2. PICK m \in 1..(k + 1) : WaitsForAll(s[m])
    BY <1>1, <1>2, <2>1 DEF Rested
  <2>3. m # 1
    BY <1>1, <2>2
  <2>4. PICK i \in 1..k : m = i + 1
    <3>1. m - 1 \in 1..k /\ m = (m - 1) + 1
      BY <2>3
    <3> QED BY <3>1
  <2>5. i \in 1..Len(r)
    OBVIOUS
  <2> QED BY <1>1, <2>2, <2>4, <2>5
<1>3. Rested(r)
  BY <1>1, <1>2 DEF Rested
<1> QED BY <1>3 DEF r

(* And a channel is not what is created next. *)
LEMMA RestedCreatesLater ==
  ASSUME NEW s \in Seq(Commands), s # <<>>, Rested(s) PROVE Head(s).op # "create"
<1>1. 1 \in DOMAIN s /\ Head(s) = s[1]
  OBVIOUS
<1> SUFFICES ASSUME s[1].op = "create" PROVE FALSE
  BY <1>1
<1>2. PICK m \in 1..1 : WaitsForAll(s[m])
  BY <1>1 DEF Rested
<1>3. m = 1
  OBVIOUS
<1> QED BY <1>2, <1>3 DEF WaitsForAll

(* No thread waits when the host begins. *)
LEMMA KeepInit == ASSUME Init PROVE KeepInv
<1>1. PICK p \in Programs :
        th = [t \in Threads |-> IF t = Main THEN [Unborn EXCEPT !.pc = "next", !.code = p.main] ELSE Unborn]
  BY DEF Init
<1>2. Orderly(p.main)
  BY HostWaits DEF Orderly, WaitsForAll
<1>3. /\ Unborn.pc = "unborn" /\ [Unborn EXCEPT !.pc = "next", !.code = p.main].pc = "next"
      /\ [Unborn EXCEPT !.pc = "next", !.code = p.main].code = p.main
  BY DEF Unborn
<1>4. /\ th[Main].pc = "next" /\ th[Main].code = p.main
      /\ \A t \in Threads : th[t].pc \in {"unborn", "next"}
  BY <1>1, <1>3, MainIsThread
<1> QED BY <1>2, <1>4 DEF KeepInv, Waiting

(* A step that takes no thread from its channel and no channel from the table. *)
LEMMA KeepRests ==
  ASSUME CodeInv, KeepInv,
         \A r \in Rings : rings'[r].name = rings[r].name,
         ringCount' \in Nat, ringCount' >= ringCount,
         th'[Main].code = th[Main].code
           \/ (/\ th[Main].code # <<>> /\ ~WaitsForAll(Head(th[Main].code))
               /\ th'[Main].code = Tail(th[Main].code)),
         \A t \in Threads : th'[t].pc \in {"try", "sleep"} =>
           \/ Waiting(t) /\ th'[t].i = th[t].i /\ th'[t].code = th[t].code
           \/ /\ th'[t].i \in Rings /\ th'[t].i < ringCount
              /\ rings[th'[t].i].name = Head(th'[t].code).name,
         th'[Main].pc = "close" =>
           th[Main].pc = "close" /\ \A t \in Threads \ {Main} : th'[t].pc = th[t].pc
  PROVE  KeepInv'
<1>0. ringCount \in Nat /\ th[Main].code \in Seq(Commands)
  BY MainIsThread, AtThread DEF CodeInv, TableInv
<1>1. Orderly(th'[Main].code) /\ (Rested(th[Main].code) => Rested(th'[Main].code))
  BY <1>0, OrderlyTail, RestedTail DEF KeepInv
<1>2. ASSUME NEW t \in Threads, th'[t].pc \in {"try", "sleep"}
      PROVE  /\ rings'[th'[t].i].name = Head(th'[t].code).name
             /\ th'[t].i < ringCount' \/ Rested(th'[Main].code)
  <2>1. CASE Waiting(t) /\ th'[t].i = th[t].i /\ th'[t].code = th[t].code
    <3>1. th[t].i \in Rings /\ th[t].i \in Nat
      BY <2>1, AtThread DEF CodeInv, Waiting, Fits
    <3>2. /\ rings[th[t].i].name = Head(th[t].code).name
          /\ th[t].i < ringCount \/ Rested(th[Main].code)
      BY <2>1 DEF KeepInv
    <3> QED BY <1>0, <1>1, <2>1, <3>1, <3>2
  <2>2. CASE /\ th'[t].i \in Rings /\ th'[t].i < ringCount
             /\ rings[th'[t].i].name = Head(th'[t].code).name
    BY <1>0, <2>2, Limits DEF Rings
  <2> QED BY <1>2, <2>1, <2>2
<1>3. th'[Main].pc = "close" => \A t \in Threads \ {Main} : th'[t].pc \in {"unborn", "exited"}
  BY DEF KeepInv
<1> QED BY <1>1, <1>2, <1>3 DEF KeepInv, Waiting, Orderly, Rested, WaitsForAll

(* A read, a write or the close of one channel takes no other thread from its channel. *)
LEMMA TransferKeepsRings ==
  ASSUME CodeInv, RingInv, LaunchInv, KeepInv, NEW t \in Threads, Close(t) \/ RingStep(t)
  PROVE  KeepInv'
<1>0. ThreadInv /\ ringCount \in Nat /\ th[t].code \in Seq(Commands) /\ Fits(th[t].pc, th[t].code, th[t].i)
  BY AtThread DEF CodeInv, TableInv
<1>1. /\ UNCHANGED <<body, spawns, spawnCount, ringCount>>
      /\ {th[t].pc, th'[t].pc} \subseteq {"next", "try", "sleep"}
      /\ \A u \in Threads \ {t} : th'[u] = th[u]
  BY TransferSteps
<1>2. ASSUME NEW r \in Rings PROVE rings'[r].name = rings[r].name
  <2>1. rings \in [Rings -> Ring] /\ rings[r] \in Ring
    BY DEF RingInv
  <2>2. CASE UNCHANGED rings
    BY <2>2
  <2>3. CASE Close(t)
    <3>1. rings'[r] = rings[r] \/ rings'[r] = [rings[r] EXCEPT !.active = FALSE]
      BY <2>1, <2>3 DEF Close
    <3> QED BY <2>1, <3>1 DEF Ring
  <2>4. CASE Write(t)
    <3>1. \/ rings'[r] = rings[r]
          \/ rings'[r].name = [rings[r] EXCEPT !.data = [@ EXCEPT ![rings[r].tail] = Op(t).val],
                                !.tail = (@ + 1) % rings[r].cap, !.count = @ + 1].name
      BY <2>1, <2>4 DEF Write
    <3>2. \A d, y, z : [rings[r] EXCEPT !.data = d, !.tail = y, !.count = z].name = rings[r].name
      BY <2>1 DEF Ring
    <3> QED BY <3>1, <3>2
  <2>5. CASE Read(t)
    <3>1. \/ rings'[r] = rings[r]
          \/ rings'[r].name = [rings[r] EXCEPT !.head = (@ + 1) % rings[r].cap, !.count = @ - 1].name
      BY <2>1, <2>5 DEF Read
    <3>2. \A y, z : [rings[r] EXCEPT !.head = y, !.count = z].name = rings[r].name
      BY <2>1 DEF Ring
    <3> QED BY <3>1, <3>2
  <2> QED BY <2>2, <2>3, <2>4, <2>5 DEF RingStep, NoChannel, Lock, Sleep, Wake, TimesOut, ringVars
<1>3. /\ th'[t].code = th[t].code
           \/ (th[t].code # <<>> /\ ~WaitsForAll(Head(th[t].code)) /\ th'[t].code = Tail(th[t].code))
      /\ th'[t].pc \in {"try", "sleep"} =>
           \/ Waiting(t) /\ th'[t].i = th[t].i /\ th'[t].code = th[t].code
           \/ /\ th'[t].i \in Rings /\ th'[t].i < ringCount
              /\ rings[th'[t].i].name = Head(th'[t].code).name
  <2>1. CASE Close(t) \/ NoChannel(t) \/ TimesOut(t) \/ Write(t) \/ Read(t)
    <3>1. Return(t) /\ th[t].code # <<>> /\ Head(th[t].code).op \in {"close", "write", "read"}
      BY <1>0, <2>1 DEF Close, NoChannel, TimesOut, Write, Read, Begins, Transfer, At, Fits, Op
    <3>2. th'[t].pc = "next" /\ th'[t].code = Tail(th[t].code)
      BY <1>0, <3>1, GoesBackFields
    <3> QED BY <3>1, <3>2 DEF WaitsForAll
  <2>2. CASE Lock(t)
    <3> DEFINE i == Min(Found(Op(t).name))
    <3>1. Goto(t, "try", i, 0)
      BY <2>2 DEF Lock
    <3>2. i \in Rings /\ i \in Found(Op(t).name)
      BY <2>2, FoundIsRing DEF Lock
    <3>3. i < ringCount /\ rings[i].name = Head(th[t].code).name
      BY <3>2 DEF Found, Op
    <3> HIDE DEF i
    <3>4. th'[t].i = i /\ th'[t].code = th[t].code
      BY <1>0, <3>1, GoesOnFields
    <3> QED BY <3>2, <3>3, <3>4
  <2>3. CASE Sleep(t) \/ Wake(t)
    <3>1. PICK label, n : Goto(t, label, th[t].i, n)
      BY <2>3 DEF Sleep, Wake
    <3>2. th'[t].i = th[t].i /\ th'[t].code = th[t].code
      BY <1>0, <3>1, GoesOnFields
    <3>3. Waiting(t)
      BY <2>3 DEF Sleep, Wake, At, Waiting
    <3> QED BY <3>2, <3>3
  <2> QED BY <2>1, <2>2, <2>3 DEF RingStep
<1>4. \A u \in Threads \ {t} : th'[u].pc \in {"try", "sleep"} =>
        Waiting(u) /\ th'[u].i = th[u].i /\ th'[u].code = th[u].code
  BY <1>1 DEF Waiting
<1>5. th'[Main].pc = "close" => th[Main].pc = "close" /\ \A u \in Threads \ {Main} : th'[u].pc = th[u].pc
  <2>1. SUFFICES ASSUME th'[Main].pc = "close" PROVE FALSE
    OBVIOUS
  <2>2. t # Main /\ th[Main].pc = "close"
    BY <1>1, <2>1, MainIsThread
  <2>3. th[t].pc \in {"unborn", "exited"}
    BY <2>2 DEF KeepInv
  <2> QED BY <1>1, <2>3
<1>6. th'[Main].code = th[Main].code
        \/ (th[Main].code # <<>> /\ ~WaitsForAll(Head(th[Main].code)) /\ th'[Main].code = Tail(th[Main].code))
  BY <1>1, <1>3, MainIsThread
<1>7. ringCount' \in Nat /\ ringCount' >= ringCount
  BY <1>0, <1>1
<1>8. \A u \in Threads : th'[u].pc \in {"try", "sleep"} =>
        \/ Waiting(u) /\ th'[u].i = th[u].i /\ th'[u].code = th[u].code
        \/ /\ th'[u].i \in Rings /\ th'[u].i < ringCount
           /\ rings[th'[u].i].name = Head(th'[u].code).name
  BY <1>3, <1>4
<1> QED BY <1>2, <1>5, <1>6, <1>7, <1>8, KeepRests

(* A step in which rings rest and no thread begins to wait. *)
LEMMA QuietKeepsRings ==
  ASSUME CodeInv, KeepInv, rings' = rings, ringCount' \in Nat, ringCount' >= ringCount,
         th'[Main].code = th[Main].code
           \/ (/\ th[Main].code # <<>> /\ ~WaitsForAll(Head(th[Main].code))
               /\ th'[Main].code = Tail(th[Main].code)),
         th'[Main].pc # "close",
         \A t \in Threads : th'[t] = th[t] \/ th'[t].pc \notin {"try", "sleep"}
  PROVE  KeepInv'
BY KeepRests DEF Waiting

(* The end of a spawned script. *)
LEMMA EndKeepsRings ==
  ASSUME CodeInv, LaunchInv, KeepInv, NEW t \in Threads \ {Main}, ScriptEnds(t) \/ ThreadExits(t)
  PROVE  KeepInv'
<1>0. ringCount \in Nat /\ th \in [Threads -> Thread] /\ th[t] \in Thread /\ Main \in Threads
  BY MainIsThread DEF CodeInv, TableInv, ThreadInv
<1>1. rings' = rings /\ ringCount' = ringCount
  BY DEF ScriptEnds, ThreadExits, ringVars
<1>2. th[t].pc \notin {"unborn", "exited"}
  BY DEF ScriptEnds, ThreadExits, At
<1>3. th'[t].pc \in {"marked", "exited"} /\ \A u \in Threads \ {t} : th'[u] = th[u]
  <2>1. CASE ScriptEnds(t)
    <3>1. PICK rc \in {0, 1} : th' = [th EXCEPT ![t] = [th[t] EXCEPT !.pc = "marked", !.rc = rc]]
      BY <1>0, <2>1 DEF ScriptEnds
    <3> QED BY <1>0, <3>1 DEF Thread
  <2>2. CASE ThreadExits(t)
    <3>1. th' = [th EXCEPT ![t] = [th[t] EXCEPT !.pc = "exited"]]
      BY <2>2 DEF ThreadExits
    <3> QED BY <1>0, <3>1 DEF Thread
  <2> QED BY <2>1, <2>2
<1>4. th'[Main] = th[Main] /\ th[Main].pc # "close"
  BY <1>0, <1>2, <1>3 DEF KeepInv
<1>5. \A u \in Threads : th'[u] = th[u] \/ th'[u].pc \notin {"try", "sleep"}
  BY <1>3
<1>6. ringCount' \in Nat /\ ringCount' >= ringCount
  BY <1>0, <1>1
<1> QED BY <1>1, <1>4, <1>5, <1>6, QuietKeepsRings

(* The host's thread launches. *)
LEMMA SpawnKeepsRings ==
  ASSUME CodeInv, LaunchInv, KeepInv, SpawnStep(Main) PROVE KeepInv'
<1>0. /\ ringCount \in Nat /\ th \in [Threads -> Thread] /\ th[Main] \in Thread /\ Main \in Threads
      /\ ThreadInv /\ Fits(th[Main].pc, th[Main].code, th[Main].i)
      /\ th[Main].pc \notin {"marked", "exited"}
  BY MainIsThread, AtThread DEF CodeInv, TableInv, ThreadInv, LaunchInv, HostInv
<1>1. rings' = rings /\ ringCount' = ringCount
  BY DEF SpawnStep, LaunchFull, LaunchClaim, LaunchFails, LaunchThread, LaunchLoad, LaunchStore,
         ScriptEnds, ThreadExits, ringVars
<1>2. ringCount' \in Nat /\ ringCount' >= ringCount
  BY <1>0, <1>1
<1>3. CASE LaunchFull(Main) \/ LaunchFails(Main) \/ LaunchStore(Main)
  <2>1. Return(Main) /\ th[Main].code # <<>> /\ Head(th[Main].code).op = "spawn"
    BY <1>0, <1>3 DEF LaunchFull, LaunchFails, LaunchStore, Begins, At, Op, Fits
  <2>2. /\ th'[Main].pc = "next" /\ th'[Main].code = Tail(th[Main].code)
        /\ \A u \in Threads \ {Main} : th'[u] = th[u]
    BY <1>0, <2>1, GoesBackFields
  <2>3. ~WaitsForAll(Head(th[Main].code))
    BY <2>1 DEF WaitsForAll
  <2> QED BY <1>1, <1>2, <2>1, <2>2, <2>3, QuietKeepsRings
<1>4. CASE LaunchClaim(Main) \/ LaunchLoad(Main)
  <2>1. PICK label, i, n : label \in {"create", "store"} /\ Goto(Main, label, i, n)
    BY <1>4 DEF LaunchClaim, LaunchLoad
  <2>2. /\ th'[Main].pc = label /\ th'[Main].code = th[Main].code
        /\ \A u \in Threads \ {Main} : th'[u] = th[u]
    BY <1>0, <2>1, GoesOnFields
  <2> QED BY <1>1, <1>2, <2>1, <2>2, QuietKeepsRings
<1>5. CASE LaunchThread(Main)
  <2>1. PICK u \in Threads :
          /\ At(u, "unborn")
          /\ th' = [th EXCEPT ![Main].pc = "load",
                      ![u] = [@ EXCEPT !.pc = "next", !.slot = th[Main].i, !.code = body[Op(Main).name]]]
    BY <1>5 DEF LaunchThread
  <2>2. u # Main /\ th[u] \in Thread
    BY <1>0, <1>5, <2>1 DEF LaunchThread, At
  <2>3. /\ th'[Main] = [th[Main] EXCEPT !.pc = "load"]
        /\ th'[u] = [th[u] EXCEPT !.pc = "next", !.slot = th[Main].i, !.code = body[Op(Main).name]]
        /\ \A w \in Threads \ {Main, u} : th'[w] = th[w]
    BY <1>0, <2>1, <2>2
  <2>4. th'[Main].pc = "load" /\ th'[Main].code = th[Main].code /\ th'[u].pc = "next"
    BY <1>0, <2>2, <2>3 DEF Thread
  <2>5. \A w \in Threads : th'[w] = th[w] \/ th'[w].pc \notin {"try", "sleep"}
    BY <2>3, <2>4
  <2> QED BY <1>1, <1>2, <2>4, <2>5, QuietKeepsRings
<1>6. ~ScriptEnds(Main) /\ ~ThreadExits(Main)
  BY <1>0 DEF ScriptEnds, ThreadExits, At
<1> QED BY <1>3, <1>4, <1>5, <1>6 DEF SpawnStep

(* It waits, and clears the table of slots when no thread is left to come back. *)
LEMMA AwaitKeepsRings ==
  ASSUME CodeInv, LaunchInv, KeepInv, AwaitStep(Main) PROVE KeepInv'
<1>0. /\ ringCount \in Nat /\ th \in [Threads -> Thread] /\ th[Main] \in Thread /\ Main \in Threads
      /\ ThreadInv /\ Fits(th[Main].pc, th[Main].code, th[Main].i) /\ th[Main].code \in Seq(Commands)
  BY MainIsThread, AtThread DEF CodeInv, TableInv, ThreadInv
<1>1. rings' = rings /\ ringCount' = ringCount
  BY DEF AwaitStep, AwaitBegins, AwaitScan, Join, RecordJoined, AwaitEnds, ResetSpawns, ringVars
<1>2. ringCount' \in Nat /\ ringCount' >= ringCount
  BY <1>0, <1>1
<1>3. th[Main].pc \in {"scan", "join", "joined"} =>
        th[Main].code # <<>> /\ Head(th[Main].code).op \in {"await", "awaitall", "init"}
  BY <1>0 DEF Fits
<1>4. CASE AwaitBegins(Main) \/ AwaitScan(Main) \/ (RecordJoined(Main) /\ Op(Main).op # "await")
  <2>1. PICK label, i, n : label \in {"scan", "join"} /\ Goto(Main, label, i, n)
    BY <1>4 DEF AwaitBegins, AwaitScan, RecordJoined
  <2>2. /\ th'[Main].pc = label /\ th'[Main].code = th[Main].code
        /\ \A u \in Threads \ {Main} : th'[u] = th[u]
    BY <1>0, <2>1, GoesOnFields
  <2> QED BY <1>1, <1>2, <2>1, <2>2, QuietKeepsRings
<1>5. CASE (RecordJoined(Main) \/ AwaitEnds(Main)) /\ Op(Main).op = "await"
  <2>1. Return(Main) /\ th[Main].code # <<>> /\ Head(th[Main].code).op = "await"
    BY <1>3, <1>5 DEF RecordJoined, AwaitEnds, Op, At
  <2>2. /\ th'[Main].pc = "next" /\ th'[Main].code = Tail(th[Main].code)
        /\ \A u \in Threads \ {Main} : th'[u] = th[u]
    BY <1>0, <2>1, GoesBackFields
  <2>3. ~WaitsForAll(Head(th[Main].code))
    BY <2>1 DEF WaitsForAll
  <2> QED BY <1>1, <1>2, <2>1, <2>2, <2>3, QuietKeepsRings
<1>6. CASE Join(Main)
  <2> DEFINE u == spawns[th[Main].i].thread
  <2>1. /\ th[Main].pc = "join" /\ th[u].pc = "exited"
        /\ th' = [th EXCEPT ![Main].pc = "joined", ![u].joins = @ + 1]
    BY <1>6 DEF Join, At
  <2> HIDE DEF u
  <2>2. u # Main
    BY <2>1
  <2>3. th'[Main] = [th[Main] EXCEPT !.pc = "joined"] /\ \A w \in Threads \ {Main, u} : th'[w] = th[w]
    BY <1>0, <2>1, <2>2
  <2>4. th'[Main].pc = "joined" /\ th'[Main].code = th[Main].code
    BY <1>0, <2>3 DEF Thread
  <2>5. u \in Threads => th'[u].pc = "exited"
    <3>1. u \in Threads => th[u] \in Thread /\ th'[u] = [th[u] EXCEPT !.joins = @ + 1]
      BY <1>0, <2>1, <2>2
    <3> QED BY <2>1, <3>1 DEF Thread
  <2>6. \A w \in Threads : th'[w] = th[w] \/ th'[w].pc \notin {"try", "sleep"}
    BY <2>3, <2>4, <2>5
  <2> QED BY <1>1, <1>2, <2>4, <2>6, QuietKeepsRings
<1>7. CASE (AwaitEnds(Main) /\ Op(Main).op # "await") \/ ResetSpawns(Main)
  <2>1. th[Main].pc = "scan" /\ th[Main].i >= spawnCount /\ Head(th[Main].code).op # "await"
    BY <1>7 DEF AwaitEnds, ResetSpawns, At, Op
  <2>2. \A t \in Threads \ {Main} : th[t].pc \in {"unborn", "exited"}
    BY <2>1, AllHaveEnded
  <2>3. th[Main].code # <<>> /\ Orderly(th[Main].code)
    BY <1>3, <2>1 DEF KeepInv
  <2>4. /\ th'[Main].pc \in {"next", "close"} /\ Orderly(th'[Main].code)
        /\ \A u \in Threads \ {Main} : th'[u] = th[u]
    <3>1. CASE Return(Main)
      BY <1>0, <2>3, <3>1, OrderlyTail, GoesBackFields
    <3>2. CASE Goto(Main, "close", 0, 0)
      BY <1>0, <2>3, <3>2, GoesOnFields
    <3> QED BY <1>7, <3>1, <3>2 DEF AwaitEnds, ResetSpawns
  <2> QED BY <2>2, <2>4 DEF KeepInv, Waiting, Orderly, WaitsForAll
<1> QED BY <1>4, <1>5, <1>6, <1>7 DEF AwaitStep

(* It creates a channel where no thread waits, and closes all where those that do keep theirs. *)
LEMMA TableKeepsRings ==
  ASSUME CodeInv, LaunchInv, KeepInv, RingInv,
         CreateFull(Main) \/ CreateFill(Main) \/ CreateCount(Main) \/ CloseAll(Main)
  PROVE  KeepInv'
<1>0. /\ ringCount \in Nat /\ Main \in Threads /\ rings \in [Rings -> Ring]
      /\ ThreadInv /\ Fits(th[Main].pc, th[Main].code, th[Main].i) /\ th[Main].code \in Seq(Commands)
  BY MainIsThread, AtThread DEF CodeInv, TableInv, RingInv
<1>1. CASE CreateFull(Main) \/ CreateCount(Main)
  <2>1. Return(Main) /\ th[Main].code # <<>> /\ Head(th[Main].code).op = "create"
    BY <1>0, <1>1 DEF CreateFull, CreateCount, Begins, At, Op, Fits
  <2>2. /\ th'[Main].pc = "next" /\ th'[Main].code = Tail(th[Main].code)
        /\ \A u \in Threads \ {Main} : th'[u] = th[u]
    BY <1>0, <2>1, GoesBackFields
  <2>3. rings' = rings /\ ringCount' \in Nat /\ ringCount' >= ringCount
    BY <1>0, <1>1 DEF CreateFull, CreateCount, ringVars
  <2>4. ~WaitsForAll(Head(th[Main].code))
    BY <2>1 DEF WaitsForAll
  <2> QED BY <2>1, <2>2, <2>3, <2>4, QuietKeepsRings
<1>2. CASE CreateFill(Main)
  <2>1. /\ Goto(Main, "count", ringCount, 0) /\ ringCount' = ringCount
        /\ th[Main].code # <<>> /\ Head(th[Main].code).op = "create"
        /\ \A r \in Rings \ {ringCount} : rings'[r] = rings[r]
    BY <1>0, <1>2 DEF CreateFill, Begins, Op
  <2>2. /\ th'[Main].pc = "count" /\ th'[Main].code = th[Main].code
        /\ \A u \in Threads \ {Main} : th'[u] = th[u]
    BY <1>0, <2>1, GoesOnFields
  <2>3. ~Rested(th[Main].code)
    BY <1>0, <2>1, RestedCreatesLater
  <2>4. ASSUME NEW t \in Threads, th'[t].pc \in {"try", "sleep"}
        PROVE  /\ rings'[th'[t].i].name = Head(th'[t].code).name
               /\ th'[t].i < ringCount'
    <3>1. t # Main /\ th'[t] = th[t] /\ Waiting(t)
      BY <2>2, <2>4 DEF Waiting
    <3>2. rings[th[t].i].name = Head(th[t].code).name /\ th[t].i < ringCount
      BY <2>3, <3>1 DEF KeepInv
    <3>3. th[t].i \in Rings /\ th[t].i # ringCount
      BY <1>0, <3>1, <3>2, AtThread DEF CodeInv, Waiting, Fits
    <3> QED BY <2>1, <3>1, <3>2, <3>3
  <2>5. Orderly(th'[Main].code)
    BY <2>2 DEF KeepInv
  <2> QED BY <2>2, <2>4, <2>5 DEF KeepInv, Waiting, Orderly, WaitsForAll
<1>3. CASE CloseAll(Main)
  <2>1. Return(Main) /\ th[Main].code # <<>> /\ th[Main].pc \in {"next", "close"}
    BY <1>0, <1>3 DEF CloseAll, Begins, At, Fits
  <2>2. /\ th'[Main].pc = "next" /\ th'[Main].code = Tail(th[Main].code)
        /\ \A u \in Threads \ {Main} : th'[u] = th[u]
    BY <1>0, <2>1, GoesBackFields
  <2>3. Orderly(th[Main].code) /\ Orderly(th'[Main].code)
    BY <1>0, <2>1, <2>2, OrderlyTail DEF KeepInv
  <2>4. ASSUME NEW r \in Rings PROVE rings'[r].name = rings[r].name
    <3>1. rings[r] \in Ring /\ (rings'[r] = rings[r] \/ rings'[r] = [rings[r] EXCEPT !.active = FALSE])
      BY <1>0, <1>3 DEF CloseAll
    <3> QED BY <3>1 DEF Ring
  <2>5. CASE th[Main].pc = "close"
    <3>1. \A t \in Threads : th'[t].pc \notin {"try", "sleep"}
      BY <2>2, <2>5 DEF KeepInv
    <3> QED BY <2>2, <2>3, <3>1 DEF KeepInv, Waiting, Orderly, WaitsForAll
  <2>6. CASE th[Main].pc # "close"
    <3>1. Head(th[Main].code).op = "closeall"
      BY <1>3, <2>6 DEF CloseAll, Begins, At, Op
    <3>2. Rested(th'[Main].code)
      BY <1>0, <2>1, <2>2, <2>3, <3>1, RestedAfterClose
    <3>3. ASSUME NEW t \in Threads, th'[t].pc \in {"try", "sleep"}
          PROVE  rings'[th'[t].i].name = Head(th'[t].code).name
      <4>1. t # Main /\ th'[t] = th[t] /\ Waiting(t)
        BY <2>2, <3>3 DEF Waiting
      <4>2. rings[th[t].i].name = Head(th[t].code).name
        BY <4>1 DEF KeepInv
      <4>3. th[t].i \in Rings
        BY <4>1, AtThread DEF CodeInv, Waiting, Fits
      <4> QED BY <2>4, <4>1, <4>2, <4>3
    <3> QED BY <2>2, <2>3, <3>2, <3>3 DEF KeepInv, Waiting, Orderly, Rested, WaitsForAll
  <2> QED BY <2>5, <2>6
<1> QED BY <1>1, <1>2, <1>3

(* Every step leaves a thread that waits in its channel. *)
LEMMA KeepNext == ASSUME CodeInv, RingInv, LaunchInv, KeepInv, [Next]_vars PROVE KeepInv'
<1>1. ASSUME NEW t \in Threads \ {Main}, Step(t) PROVE KeepInv'
  BY <1>1, OtherSteps, EndKeepsRings, TransferKeepsRings
<1>2. CASE Step(Main)
  <2>1. CASE TableStep(Main)
    BY <2>1, MainIsThread, TableKeepsRings, TransferKeepsRings DEF TableStep
  <2>2. CASE RingStep(Main)
    BY <2>2, MainIsThread, TransferKeepsRings
  <2> QED BY <1>2, <2>1, <2>2, SpawnKeepsRings, AwaitKeepsRings DEF Step
<1>3. CASE Next
  BY <1>1, <1>2, <1>3 DEF Next
<1>4. CASE UNCHANGED vars
  BY <1>4 DEF vars, KeepInv, Waiting, Orderly, Rested, WaitsForAll
<1> QED BY <1>3, <1>4

-----------------------------------------------------------------------------
(* What the runs check. *)

(* The inductive invariant: besides those two, slots and threads are each other's, the host's
   thread is where it was in both tables, and who waits is in the channel it asked for. *)
THEOREM AsyncInvariant == Spec => [](CodeInv /\ RingInv /\ LaunchInv /\ KeepInv)
<1>1. Init => CodeInv /\ RingInv /\ LaunchInv /\ KeepInv
  BY CodeInit, RingInit, LaunchInit, KeepInit
<1>2. (CodeInv /\ RingInv /\ LaunchInv /\ KeepInv) /\ [Next]_vars
        => (CodeInv /\ RingInv /\ LaunchInv /\ KeepInv)'
  BY CodeNext, RingNext, LaunchNext, KeepNext
<1> QED BY <1>1, <1>2, PTL DEF Spec

(* No spawned thread is left behind or joined twice, and a slot that was joined tells how its
   thread ended: for any scripts of which the host's alone launches, any number of slots and
   threads, and any interleaving. *)
THEOREM EveryThreadIsJoinedOnce == Spec => []JoinsAreFinal
<1>1. CodeInv /\ LaunchInv => JoinsAreFinal
  <2> SUFFICES ASSUME CodeInv, LaunchInv PROVE JoinsAreFinal
    OBVIOUS
  <2>1. ASSUME NEW t \in Threads \ {Main}, ~At(t, "unborn"), ~At(t, "exited")
        PROVE  \E s \in Slots : /\ spawns[s].thread = t /\ ~spawns[s].joined
                                /\ \/ s < spawnCount
                                   \/ \E u \in Threads : th[u].i = s /\ (At(u, "load") \/ At(u, "store"))
    <3> DEFINE s == th[t].slot
    <3>1. s \in Launched /\ spawns[s].thread = t
      BY <2>1 DEF LaunchInv, LifeAt, At
    <3>2. s \in Slots /\ SlotAt(s)
      BY <3>1 DEF LaunchInv, Launched
    <3>3. ~spawns[s].joined
      BY <2>1, <3>1, <3>2 DEF SlotAt, At
    <3>4. s < spawnCount \/ (th[Main].i = s /\ (At(Main, "load") \/ At(Main, "store")))
      BY <3>1 DEF Launched, LaunchInv, HostAt, At
    <3> QED BY <3>1, <3>2, <3>3, <3>4, MainIsThread
  <2>2. ASSUME NEW t \in Threads PROVE th[t].joins <= 1
    BY DEF LaunchInv, LifeAt, CountInv
  <2>3. ASSUME NEW s \in Slots, s < spawnCount, spawns[s].joined
        PROVE  /\ At(spawns[s].thread, "exited") /\ ~spawns[s].active
               /\ spawns[s].result = th[spawns[s].thread].rc
    <3>1. SlotAt(s)
      BY <2>3 DEF Launched, LaunchInv
    <3> QED BY <2>3, <3>1 DEF SlotAt, At
  <2> QED BY <2>1, <2>2, <2>3 DEF JoinsAreFinal, NoOrphan
<1> QED BY <1>1, AsyncInvariant, PTL

(* A channel is a queue for every thread that waits on it, whatever is closed and created in
   the meantime, and no index or position leaves its table. *)
THEOREM ChannelsHold == Spec => []ChannelsAreQueues
<1>1. CodeInv /\ RingInv /\ LaunchInv => TypeOK
  <2> SUFFICES ASSUME CodeInv, RingInv, LaunchInv PROVE TypeOK
    OBVIOUS
  <2>1. /\ spawnCount \in Nat /\ ringCount \in Nat /\ spawns \in [Slots -> Spawned]
        /\ spawnCount <= MaxSpawns /\ ringCount <= MaxChannels /\ mutex \in Threads \union {Nobody}
    BY DEF CodeInv, TableInv, LaunchInv, CountInv
  <2>2. spawnCount \in 0..MaxSpawns /\ ringCount \in 0..MaxChannels
    BY <2>1, Limits
  <2>3. ASSUME NEW t \in Threads
        PROVE  /\ th[t].pc \in Labels /\ th[t].n \in Nat /\ th[t].rc \in {0, 1}
               /\ th[t].slot \in Slots /\ th[t].joins \in Nat
               /\ At(t, "create") \/ At(t, "load") \/ At(t, "join") => th[t].i \in Slots
               /\ At(t, "try") \/ At(t, "sleep") => th[t].i \in Rings
    <3>1. th[t] \in Thread /\ th[t].i \in Nat /\ Fits(th[t].pc, th[t].code, th[t].i)
      BY AtThread DEF CodeInv
    <3>2. th[t].pc \in Labels /\ th[t].n \in Nat /\ th[t].rc \in {0, 1} /\ th[t].joins \in Nat
      BY <3>1, ThreadFields
    <3>3. th[t].slot \in Slots
      BY DEF LaunchInv, LifeAt, CountInv
    <3>4. th[t].pc \in {"create", "load", "join"} => th[t].i \in Slots
      <4>1. t # Main => th[t].pc \notin {"create", "load", "join"}
        BY DEF LaunchInv, HostInv
      <4>2. th[Main].pc \in {"create", "load", "join"} => th[Main].i \in Nat /\ th[Main].i < MaxSpawns
        BY <2>1, AtThread, MainIsThread, Limits DEF LaunchInv, HostAt, CodeInv
      <4> QED BY <4>1, <4>2, Limits DEF Slots
    <3>5. th[t].pc \in {"try", "sleep"} => th[t].i \in Rings
      BY <3>1 DEF Fits
    <3> QED BY <3>2, <3>3, <3>4, <3>5 DEF At
  <2>4. ASSUME NEW s \in Slots PROVE spawns[s].thread \in Threads \union {Nobody}
    BY <2>1 DEF Spawned
  <2>5. ASSUME NEW r \in Rings
        PROVE  rings[r].cap \in 0..Buf /\ {rings[r].head, rings[r].tail} \subseteq 0..(Buf - 1)
    <3>1. rings[r] \in Ring /\ log[r] \in Log /\ Queue(rings[r], log[r])
      BY DEF RingInv
    <3>2. rings[r].cap \in Nat /\ rings[r].cap <= Buf
      BY <3>1, RingFields
    <3>3. CASE rings[r].cap > 0
      <4>1. rings[r].head \in 0..(Buf - 1) /\ rings[r].tail \in 0..(Buf - 1)
        BY <3>1, <3>3, QueueFacts
      <4>2. rings[r].cap \in 0..Buf
        BY <3>2, Limits
      <4> QED BY <4>1, <4>2
    <3>4. CASE rings[r].cap = 0
      <4>1. rings[r].head = 0 /\ rings[r].tail = 0
        BY <3>1, <3>4, RingFields DEF Queue
      <4> QED BY <3>2, <4>1, Limits
    <3> QED BY <3>2, <3>3, <3>4
  <2> QED BY <2>1, <2>2, <2>3, <2>4, <2>5 DEF TypeOK
<1>2. CodeInv /\ KeepInv => WaitersKeepTheirRing
  BY DEF KeepInv, Waiting, WaitersKeepTheirRing, At, Op
<1> QED BY <1>1, <1>2, AsyncInvariant, RingsAreQueues, PTL DEF ChannelsAreQueues
=============================================================================
