----------------------------- MODULE JobStreamProofs -----------------------------
(* The job stream for any number of sources, clients, lines and any capacities. First
   where every channel is (IndInv): no closed channel is reached, no channel is in two
   places, and the reaper's close misses nobody. Then, on top of it, what the clients are
   sent (OutputInv): StreamIsWhole, and that JobStream implements StreamContract.      *)
EXTENDS JobStream, FiniteSetTheorems, TLAPS

(* A pump holds subMu exactly while it is in fanOut, and only the holder has drained
   channels in its hands. *)
LockInv ==
  \A p \in Pumps : /\ pump[p] \in {"fan", "stuck"} <=> subMu = p
                   /\ subs[p] # <<>> => subMu = p

(* Channels in the queue or in a pump's hands belong to clients that subscribed. *)
HeldAreJoined == /\ RangeOf(subQ) \subseteq Joined
                 /\ \A p \in Pumps : RangeOf(subs[p]) \subseteq Joined

ClosedAreJoined == closed \subseteq Joined

(* No subscriber is forgotten: it is closed, queued, or in a pump's hands. *)
JoinedAreHeld ==
  \A c \in Joined : \/ c \in closed
                    \/ c \in RangeOf(subQ)
                    \/ \E p \in Pumps : c \in RangeOf(subs[p])

(* No pump runs before Start. *)
UnbornInv == proc = "starting" => \A p \in Pumps : pump[p] = "unborn"

IndInv == /\ TypeOK /\ UnbornInv /\ LockInv /\ HeldAreJoined /\ ClosedAreJoined
          /\ JoinedAreHeld /\ NoPanic /\ ChannelsAreUnique /\ JoinedGetClosed

-----------------------------------------------------------------------------
(* Sequences. *)

(* Appending one element adds that element and nothing else to what is held. *)
LEMMA RangeOfAppend ==
  ASSUME NEW S, NEW s \in Seq(S), NEW e \in S
  PROVE  RangeOf(Append(s, e)) = RangeOf(s) \union {e}
<1>1. /\ DOMAIN s = 1..Len(s) /\ DOMAIN Append(s, e) = 1..Len(s) + 1 /\ Len(s) \in Nat
      /\ \A i \in 1..Len(s) : Append(s, e)[i] = s[i]
      /\ Append(s, e)[Len(s) + 1] = e
  OBVIOUS
<1>2. \A i \in 1..Len(s) + 1 : i \in 1..Len(s) \/ i = Len(s) + 1
  BY <1>1
<1>3. RangeOf(Append(s, e)) \subseteq RangeOf(s) \union {e}
  BY <1>1, <1>2 DEF RangeOf
<1>4. RangeOf(s) \union {e} \subseteq RangeOf(Append(s, e))
  <2>1. \A i \in 1..Len(s) : i \in 1..Len(s) + 1
    BY <1>1
  <2>2. Len(s) + 1 \in 1..Len(s) + 1
    BY <1>1
  <2> QED
    BY <1>1, <2>1, <2>2 DEF RangeOf
<1> QED
  BY <1>3, <1>4

(* A nonempty sequence holds its head and what its tail holds. *)
LEMMA RangeOfTail ==
  ASSUME NEW S, NEW s \in Seq(S), s # <<>>
  PROVE  /\ Head(s) \in S /\ Tail(s) \in Seq(S)
         /\ RangeOf(s) = {Head(s)} \union RangeOf(Tail(s))
<1>1. /\ Head(s) = s[1] /\ Len(s) \in Nat \ {0} /\ Len(Tail(s)) = Len(s) - 1
      /\ \A i \in 1..Len(s) - 1 : Tail(s)[i] = s[i + 1]
      /\ Head(s) \in S /\ Tail(s) \in Seq(S)
  OBVIOUS
<1>2. \A i \in 1..Len(s) : s[i] = Head(s) \/ \E k \in 1..Len(s) - 1 : s[i] = Tail(s)[k]
  <2> SUFFICES ASSUME NEW i \in 1..Len(s), i # 1
               PROVE  \E k \in 1..Len(s) - 1 : s[i] = Tail(s)[k]
    BY <1>1
  <2>1. i - 1 \in 1..Len(s) - 1 /\ i = (i - 1) + 1
    BY <1>1
  <2> QED
    BY <1>1, <2>1
<1>3. DOMAIN s = 1..Len(s) /\ DOMAIN Tail(s) = 1..Len(s) - 1
  BY <1>1
<1>4. RangeOf(s) \subseteq {Head(s)} \union RangeOf(Tail(s))
  BY <1>2, <1>3 DEF RangeOf
<1>5. {Head(s)} \union RangeOf(Tail(s)) \subseteq RangeOf(s)
  <2>1. 1 \in 1..Len(s) /\ \A i \in 1..Len(s) - 1 : i + 1 \in 1..Len(s)
    BY <1>1
  <2> QED
    BY <1>1, <1>3, <2>1 DEF RangeOf
<1> QED
  BY <1>1, <1>4, <1>5

(* The tail of a sequence without repetition has none, and lacks the head. *)
LEMMA DistinctTail ==
  ASSUME NEW S, NEW s \in Seq(S), s # <<>>, Distinct(s)
  PROVE  Distinct(Tail(s)) /\ Head(s) \notin RangeOf(Tail(s))
<1>1. /\ Head(s) = s[1] /\ DOMAIN s = 1..Len(s) /\ Len(s) \in Nat \ {0}
      /\ DOMAIN Tail(s) = 1..Len(s) - 1
      /\ \A i \in 1..Len(s) - 1 : Tail(s)[i] = s[i + 1]
  OBVIOUS
<1> QED
  BY <1>1 DEF Distinct, RangeOf

(* Appending a new element keeps a sequence without repetition. *)
LEMMA DistinctAppend ==
  ASSUME NEW S, NEW s \in Seq(S), NEW e \in S, Distinct(s), e \notin RangeOf(s)
  PROVE  Distinct(Append(s, e))
BY DEF Distinct, RangeOf

(* The ring keeps a sequence of what was appended. *)
LEMMA TrimmedType ==
  ASSUME NEW S, NEW s \in Seq(S)
  PROVE  Trimmed(s) \in Seq(S)
<1>1. CASE Len(s) > RingCap
  <2>1. Len(s) - RingCap + 1 \in 1..(Len(s) + 1)
    BY <1>1, CapacitiesAssumption
  <2>2. SubSeq(s, Len(s) - RingCap + 1, Len(s)) \in Seq(S)
    BY <2>1
  <2> QED
    BY <1>1, <2>2 DEF Trimmed
<1>2. CASE ~(Len(s) > RingCap)
  BY <1>2 DEF Trimmed
<1> QED
  BY <1>1, <1>2

-----------------------------------------------------------------------------
(* Type correctness. *)

(* The types hold before the process has started. *)
LEMMA TypeInit == Init => TypeOK
BY DEF Init, TypeOK, Line

(* Every step of the process, the pumps, the reaper and the clients keeps the types. *)
LEMMA TypeNext == TypeOK /\ [Next]_vars => TypeOK'
<1> SUFFICES ASSUME TypeOK, [Next]_vars PROVE TypeOK'
  OBVIOUS
<1> USE DEF TypeOK
<1>1. CASE StartFails
  BY <1>1 DEF StartFails, outVars, queueVars, clientVars
<1>2. CASE Start
  BY <1>2 DEF Start, outVars, queueVars, clientVars
<1>3. CASE Exit
  BY <1>3 DEF Exit, outVars, queueVars, clientVars
<1>4. CASE WaitReturns
  BY <1>4 DEF WaitReturns, queueVars, clientVars
<1>5. CASE CloseSubscribers
  BY <1>5 DEF CloseSubscribers, outVars, RangeOf, ReleasedClients, ReleasedPumps
<1>6. ASSUME NEW p \in Pumps, Write(p) PROVE TypeOK'
  <2>1. wrote[p] + 1 \in Nat
    OBVIOUS
  <2>2. <<p, wrote[p] + 1>> \in Line
    BY <2>1 DEF Line
  <2>3. Append(pipe[p], <<p, wrote[p] + 1>>) \in Seq(Line)
    BY <2>2
  <2>4. wrote' \in [Pumps -> Nat] /\ pipe' \in [Pumps -> Seq(Line)]
    BY <1>6, <2>1, <2>3 DEF Write
  <2> QED
    BY <1>6, <2>4 DEF Write, queueVars, clientVars
<1>7. ASSUME NEW p \in Pumps, Fill(p) PROVE TypeOK'
  BY <1>7 DEF Fill, queueVars, clientVars
<1>8. ASSUME NEW p \in Pumps, NextLine(p) PROVE TypeOK'
  <2>1. bufio[p] \in Seq(Line) /\ bufio[p] # <<>>
    BY <1>8 DEF NextLine
  <2>2. Head(bufio[p]) \in Line /\ Tail(bufio[p]) \in Seq(Line)
    BY <2>1
  <2> QED
    BY <1>8, <2>2 DEF NextLine, queueVars, clientVars
<1>9. ASSUME NEW p \in Pumps, PumpReturns(p) PROVE TypeOK'
  BY <1>9 DEF PumpReturns, outVars, queueVars, clientVars
<1>10. ASSUME NEW p \in Pumps, AppendBuffer(p) PROVE TypeOK'
  <2>1. cur[p] \in Line \union {NoLine} /\ ring \in Seq(Line \union {NoLine})
    OBVIOUS
  <2>2. ring' \in Seq(Line \union {NoLine})
    <3> HIDE DEF TypeOK
    <3>1. Append(ring, cur[p]) \in Seq(Line \union {NoLine})
      BY <2>1
    <3> QED
      BY <1>10, <3>1, TrimmedType DEF AppendBuffer
  <2> QED
    BY <1>10, <2>2 DEF AppendBuffer, queueVars, clientVars
<1>11. ASSUME NEW p \in Pumps, Drain(p) PROVE TypeOK'
  BY <1>11 DEF Drain, outVars, ReleasedClients, ReleasedPumps
<1>12. ASSUME NEW p \in Pumps, Deliver(p) PROVE TypeOK'
  <2> DEFINE c == Head(subs[p])
  <2>1. subs[p] \in Seq(Clients) /\ subs[p] # <<>>
    BY <1>12 DEF Deliver
  <2>2. c \in Clients /\ Tail(subs[p]) \in Seq(Clients)
    BY <2>1
  <2>3. Append(subQ, c) \in Seq(Clients)
    BY <2>2
  <2>4. chan' \in [Clients -> Seq(Line \union {NoLine})] /\ dropped' \in SUBSET Clients
    <3>1. chan[c] \in Seq(Line \union {NoLine}) /\ cur[p] \in Line \union {NoLine}
      BY <2>2
    <3>2. Append(chan[c], cur[p]) \in Seq(Line \union {NoLine})
      BY <3>1
    <3>3. CASE Len(chan[c]) < ChanCap
      BY <1>12, <2>2, <3>2, <3>3 DEF Deliver
    <3>4. CASE ~(Len(chan[c]) < ChanCap)
      BY <1>12, <2>2, <3>4 DEF Deliver
    <3> QED
      BY <3>3, <3>4
  <2>5. subQ' \in Seq(Clients) /\ subs' \in [Pumps -> Seq(Clients)]
    BY <1>12, <2>2, <2>3 DEF Deliver
  <2>6. pump' \in [Pumps -> {"unborn", "read", "append", "lock", "fan", "stuck", "returned"}]
    BY <1>12 DEF Deliver
  <2> QED
    BY <1>12, <2>4, <2>5, <2>6 DEF Deliver, outVars
<1>13. ASSUME NEW p \in Pumps, FanOutReturns(p) PROVE TypeOK'
  BY <1>13 DEF FanOutReturns, outVars, clientVars
<1>14. ASSUME NEW c \in Clients, Snapshot(c) PROVE TypeOK'
  BY <1>14 DEF Snapshot, outVars, queueVars
<1>15. ASSUME NEW c \in Clients, Subscribe(c) PROVE TypeOK'
  BY <1>15 DEF Subscribe, outVars
<1>16. ASSUME NEW c \in Clients, Receive(c) PROVE TypeOK'
  <2>1. chan[c] \in Seq(Line \union {NoLine}) /\ chan[c] # <<>>
    BY <1>16 DEF Receive
  <2>2. /\ Head(chan[c]) \in Line \union {NoLine}
        /\ Tail(chan[c]) \in Seq(Line \union {NoLine})
    BY <2>1
  <2>3. Append(got[c], Head(chan[c])) \in Seq(Line \union {NoLine})
    BY <2>2
  <2>4. /\ got' \in [Clients -> Seq(Line \union {NoLine})]
        /\ chan' \in [Clients -> Seq(Line \union {NoLine})]
    BY <1>16, <2>2, <2>3 DEF Receive
  <2> QED
    BY <1>16, <2>4 DEF Receive, outVars, queueVars
<1>17. ASSUME NEW c \in Clients, EndStream(c) PROVE TypeOK'
  BY <1>17 DEF EndStream, outVars, queueVars
<1>18. ASSUME NEW c \in Clients, Disconnect(c) PROVE TypeOK'
  BY <1>18 DEF Disconnect, outVars, queueVars
<1>19. CASE UNCHANGED vars
  BY <1>19 DEF vars, outVars, queueVars, clientVars
<1> QED
  BY <1>1, <1>2, <1>3, <1>4, <1>5, <1>6, <1>7, <1>8, <1>9, <1>10, <1>11, <1>12, <1>13,
     <1>14, <1>15, <1>16, <1>17, <1>18, <1>19 DEF Next, PumpStep, ReaperStep, ClientStep

(* The variables of the job stream keep their types, for all capacities. *)
THEOREM TypeCorrect == Spec => []TypeOK
BY TypeInit, TypeNext, PTL DEF Spec

-----------------------------------------------------------------------------
(* The inductive invariant. *)

(* The locking invariant holds before the process has started. *)
LEMMA IndInit == Init => IndInv
<1> SUFFICES ASSUME Init PROVE IndInv
  OBVIOUS
<1>1. TypeOK
  BY TypeInit
<1>2. Joined = {}
  BY DEF Init, Joined
<1>3. RangeOf(subQ) = {} /\ \A p \in Pumps : RangeOf(subs[p]) = {}
  BY DEF Init, RangeOf
<1>4. LockInv /\ UnbornInv
  BY NamesAssumption DEF Init, LockInv, UnbornInv
<1>5. HeldAreJoined /\ ClosedAreJoined /\ JoinedAreHeld /\ NoPanic /\ JoinedGetClosed
  BY <1>2, <1>3 DEF Init, HeldAreJoined, ClosedAreJoined, JoinedAreHeld, NoPanic, JoinedGetClosed
<1>6. ChannelsAreUnique
  BY <1>3 DEF Init, ChannelsAreUnique, Distinct
<1> QED
  BY <1>1, <1>4, <1>5, <1>6 DEF IndInv

(* A step that leaves the queue, the drained lists, the closed channels, the lock
   and the set of subscribers alone keeps the invariant. *)
LEMMA QuietStep ==
  ASSUME IndInv, TypeOK', UnbornInv', UNCHANGED <<queueVars, closed, late>>,
         Joined' = Joined, reap' = "end" => reap = "end",
         \A p \in Pumps : pump'[p] \in {"fan", "stuck"} <=> pump[p] \in {"fan", "stuck"}
  PROVE  IndInv'
<1>1. LockInv'
  BY DEF IndInv, LockInv, queueVars
<1>2. HeldAreJoined' /\ ClosedAreJoined' /\ JoinedAreHeld' /\ NoPanic' /\ JoinedGetClosed'
  BY DEF IndInv, HeldAreJoined, ClosedAreJoined, JoinedAreHeld, NoPanic, JoinedGetClosed,
         RangeOf, queueVars
<1>3. ChannelsAreUnique'
  BY DEF IndInv, ChannelsAreUnique, Distinct, RangeOf, queueVars
<1> QED
  BY <1>1, <1>2, <1>3 DEF IndInv

(* fanOut drains the queue: what was queued is now in p's hands, all else is not
   held by any other pump, because p has just taken the lock. *)
LEMMA DrainStep == ASSUME NEW p \in Pumps, IndInv, TypeOK', Drain(p) PROVE IndInv'
<1> USE DEF IndInv
<1>1. /\ subMu = Nobody /\ subMu' = p /\ subQ' = <<>> /\ subs' = [subs EXCEPT ![p] = subQ]
      /\ closed' = closed /\ late' = late /\ reap' = reap /\ proc' = proc
      /\ pump[p] = "lock" /\ pump' = [ReleasedPumps EXCEPT ![p] = "fan"]
  BY DEF Drain
<1>2. \A q \in Pumps : subs[q] = <<>> /\ pump[q] \notin {"fan", "stuck"}
  BY <1>1, NamesAssumption DEF LockInv
<1>3. /\ subs'[p] = subQ
      /\ \A q \in Pumps \ {p} : subs'[q] = <<>>
  BY <1>1, <1>2 DEF TypeOK
<1>4. RangeOf(subQ') = {} /\ \A q \in Pumps \ {p} : RangeOf(subs'[q]) = {}
  BY <1>1, <1>3 DEF RangeOf
<1>5. Joined' = Joined
  BY DEF Drain, Joined, ReleasedClients
<1>6. pump'[p] = "fan" /\ \A q \in Pumps \ {p} : pump'[q] = pump[q]
  BY <1>1, <1>2 DEF ReleasedPumps, TypeOK
<1>7. LockInv'
  BY <1>1, <1>2, <1>3, <1>6 DEF LockInv
<1>8. UnbornInv'
  BY <1>1 DEF UnbornInv
<1>9. HeldAreJoined' /\ ClosedAreJoined' /\ NoPanic'
  BY <1>1, <1>3, <1>4, <1>5 DEF HeldAreJoined, ClosedAreJoined, NoPanic
<1>10. JoinedAreHeld'
  <2> SUFFICES ASSUME NEW c \in Joined, c \notin closed PROVE c \in RangeOf(subs'[p])
    BY <1>1, <1>5 DEF JoinedAreHeld
  <2>1. \A q \in Pumps : RangeOf(subs[q]) = {}
    BY <1>2 DEF RangeOf
  <2> QED
    BY <2>1, <1>3 DEF JoinedAreHeld
<1>11. ChannelsAreUnique'
  <2>1. Distinct(subQ') /\ \A q \in Pumps : Distinct(subs'[q])
    BY <1>1, <1>2, <1>3 DEF ChannelsAreUnique, Distinct
  <2> QED
    BY <2>1, <1>4 DEF ChannelsAreUnique
<1>12. JoinedGetClosed'
  BY <1>1, <1>5 DEF JoinedGetClosed
<1> QED
  BY <1>7, <1>8, <1>9, <1>10, <1>11, <1>12

(* One round of the loop moves a channel from p's hands to the end of the queue. *)
LEMMA DeliverStep == ASSUME NEW p \in Pumps, IndInv, TypeOK', Deliver(p) PROVE IndInv'
<1> USE DEF IndInv
<1> DEFINE c == Head(subs[p])
<1>1. /\ pump[p] = "fan" /\ subs[p] # <<>> /\ subQ' = Append(subQ, c)
      /\ subs' = [subs EXCEPT ![p] = Tail(@)]
      /\ subMu' = subMu /\ closed' = closed /\ late' = late /\ reap' = reap /\ proc' = proc
      /\ client' = client
      /\ pump' = [pump EXCEPT ![p] = IF Len(subQ) < SubCap THEN "fan" ELSE "stuck"]
  BY DEF Deliver
<1>2. subs[p] \in Seq(Clients) /\ subQ \in Seq(Clients) /\ Distinct(subs[p]) /\ Distinct(subQ)
  BY DEF TypeOK, ChannelsAreUnique
<1>3. /\ c \in Clients /\ Tail(subs[p]) \in Seq(Clients)
      /\ RangeOf(subs[p]) = {c} \union RangeOf(Tail(subs[p]))
  BY <1>1, <1>2, RangeOfTail
<1>4. Distinct(Tail(subs[p])) /\ c \notin RangeOf(Tail(subs[p]))
  BY <1>1, <1>2, DistinctTail
<1>5. RangeOf(subQ') = RangeOf(subQ) \union {c}
  BY <1>1, <1>2, <1>3, RangeOfAppend
<1>6. c \notin RangeOf(subQ) /\ \A q \in Pumps \ {p} : c \notin RangeOf(subs[q])
  BY <1>3 DEF ChannelsAreUnique
<1>7. Distinct(subQ')
  BY <1>1, <1>2, <1>3, <1>6, DistinctAppend
<1>8. subs'[p] = Tail(subs[p]) /\ \A q \in Pumps \ {p} : subs'[q] = subs[q]
  BY <1>1 DEF TypeOK
<1>9. Joined' = Joined
  BY <1>1 DEF Joined
<1>10. c \in Joined /\ c \notin closed
  BY <1>3 DEF HeldAreJoined, NoPanic
<1>11. LockInv'
  <2>1. pump'[p] \in {"fan", "stuck"} /\ \A q \in Pumps \ {p} : pump'[q] = pump[q]
    BY <1>1 DEF TypeOK
  <2>2. subMu = p
    BY <1>1 DEF LockInv
  <2> QED
    BY <1>1, <1>8, <2>1, <2>2 DEF LockInv
<1>12. UnbornInv'
  BY <1>1 DEF UnbornInv
<1>13. HeldAreJoined' /\ ClosedAreJoined' /\ NoPanic' /\ JoinedGetClosed'
  BY <1>1, <1>3, <1>5, <1>8, <1>9, <1>10
     DEF HeldAreJoined, ClosedAreJoined, NoPanic, JoinedGetClosed
<1>14. JoinedAreHeld'
  BY <1>1, <1>3, <1>5, <1>8, <1>9 DEF JoinedAreHeld
<1>15. ChannelsAreUnique'
  <2>1. \A q \in Pumps : RangeOf(subs'[q]) \subseteq RangeOf(subs[q]) /\ c \notin RangeOf(subs'[q])
    BY <1>3, <1>4, <1>6, <1>8
  <2>2. \A q \in Pumps : Distinct(subs'[q])
    BY <1>4, <1>8 DEF ChannelsAreUnique
  <2> QED
    BY <1>5, <1>7, <2>1, <2>2 DEF ChannelsAreUnique
<1> QED
  BY <1>11, <1>12, <1>13, <1>14, <1>15

(* Leaving fanOut gives the lock back and lets those who wait for it in. *)
LEMMA FanOutReturnsStep ==
  ASSUME NEW p \in Pumps, IndInv, TypeOK', FanOutReturns(p) PROVE IndInv'
<1> USE DEF IndInv
<1>1. /\ pump[p] = "fan" /\ subs[p] = <<>> /\ subMu' = Nobody /\ pump' = [pump EXCEPT ![p] = "read"]
      /\ UNCHANGED <<subs, subQ, closed, client, late, reap, proc>>
  BY DEF FanOutReturns, clientVars
<1>2. LockInv'
  <2>1. subMu = p /\ pump'[p] = "read" /\ \A q \in Pumps \ {p} : pump'[q] = pump[q]
    BY <1>1 DEF LockInv, TypeOK
  <2> QED
    BY <1>1, <2>1, NamesAssumption DEF LockInv
<1>3. UnbornInv'
  BY <1>1 DEF UnbornInv
<1>4. HeldAreJoined' /\ ClosedAreJoined' /\ JoinedAreHeld' /\ NoPanic' /\ JoinedGetClosed'
  BY <1>1 DEF HeldAreJoined, ClosedAreJoined, JoinedAreHeld, NoPanic, JoinedGetClosed, Joined, RangeOf
<1>5. ChannelsAreUnique'
  <2>1. subs' = subs /\ subQ' = subQ
    BY <1>1
  <2> QED
    BY <2>1 DEF ChannelsAreUnique
<1> QED
  BY <1>2, <1>3, <1>4, <1>5

(* The reaper closes while no pump holds the lock, so every open channel of a
   subscriber is in the queue and gets closed. *)
LEMMA CloseStep == ASSUME IndInv, TypeOK', CloseSubscribers PROVE IndInv'
<1> USE DEF IndInv
<1>1. /\ subMu = Nobody /\ closed' = closed \union RangeOf(subQ) /\ subQ' = <<>>
      /\ UNCHANGED <<subMu, subs, late, proc>>
      /\ pump' = ReleasedPumps /\ client' = ReleasedClients
  BY DEF CloseSubscribers
<1>2. \A q \in Pumps : subs[q] = <<>> /\ pump[q] \notin {"fan", "stuck"}
  BY <1>1, NamesAssumption DEF LockInv
<1>3. pump' = pump
  BY <1>1, <1>2 DEF ReleasedPumps, TypeOK
<1>4. Joined' = Joined
  BY <1>1 DEF Joined, ReleasedClients
<1>5. RangeOf(subQ') = {} /\ \A q \in Pumps : subs'[q] = <<>> /\ RangeOf(subs[q]) = {}
  BY <1>1, <1>2 DEF RangeOf
<1>6. LockInv' /\ UnbornInv'
  BY <1>1, <1>3 DEF LockInv, UnbornInv
<1>7. ClosedAreJoined'
  BY <1>1, <1>4 DEF ClosedAreJoined, HeldAreJoined
<1>8. Joined \subseteq closed'
  BY <1>1, <1>5 DEF JoinedAreHeld
<1>9. HeldAreJoined' /\ JoinedAreHeld' /\ NoPanic' /\ JoinedGetClosed'
  BY <1>1, <1>4, <1>5, <1>8 DEF HeldAreJoined, JoinedAreHeld, NoPanic, JoinedGetClosed
<1>10. ChannelsAreUnique'
  BY <1>1, <1>5 DEF ChannelsAreUnique, Distinct
<1> QED
  BY <1>6, <1>7, <1>9, <1>10

(* A new subscriber brings a channel that was nowhere before. *)
LEMMA SubscribeStep == ASSUME NEW c \in Clients, IndInv, TypeOK', Subscribe(c) PROVE IndInv'
<1> USE DEF IndInv
<1>1. /\ client[c] = "snapped" /\ subQ' = Append(subQ, c)
      /\ UNCHANGED <<subMu, subs, closed, pump, proc, reap>>
      /\ late' = IF reap = "end" THEN late \union {c} ELSE late
      /\ client' = [client EXCEPT ![c] = IF Len(subQ) < SubCap THEN "live" ELSE "joining"]
  BY DEF Subscribe, outVars
<1>2. c \notin Joined /\ Joined' = Joined \union {c}
  BY <1>1 DEF Joined, TypeOK
<1>3. RangeOf(subQ') = RangeOf(subQ) \union {c}
  BY <1>1, RangeOfAppend DEF TypeOK
<1>4. c \notin RangeOf(subQ) /\ c \notin closed /\ \A p \in Pumps : c \notin RangeOf(subs[p])
  BY <1>2 DEF HeldAreJoined, ClosedAreJoined
<1>5. Distinct(subQ')
  BY <1>1, <1>4, DistinctAppend DEF TypeOK, ChannelsAreUnique
<1>6. \A p \in Pumps : RangeOf(subs'[p]) = RangeOf(subs[p]) /\ Distinct(subs'[p])
  BY <1>1 DEF ChannelsAreUnique
<1>7. LockInv' /\ UnbornInv'
  BY <1>1 DEF LockInv, UnbornInv
<1>8. HeldAreJoined' /\ ClosedAreJoined' /\ JoinedAreHeld' /\ NoPanic' /\ JoinedGetClosed'
  BY <1>1, <1>2, <1>3, <1>4, <1>6
     DEF HeldAreJoined, ClosedAreJoined, JoinedAreHeld, NoPanic, JoinedGetClosed
<1>9. ChannelsAreUnique'
  <2>1. \A p \in Pumps : RangeOf(subs'[p]) \cap RangeOf(subQ') = {}
    BY <1>3, <1>4, <1>6 DEF ChannelsAreUnique
  <2>2. \A p \in Pumps : \A q \in Pumps \ {p} : RangeOf(subs'[p]) \cap RangeOf(subs'[q]) = {}
    BY <1>6 DEF ChannelsAreUnique
  <2> QED
    BY <1>5, <1>6, <2>1, <2>2 DEF ChannelsAreUnique
<1> QED
  BY <1>7, <1>8, <1>9

(* Every step keeps the locking invariant. *)
LEMMA IndNext == IndInv /\ [Next]_vars => IndInv'
<1> SUFFICES ASSUME IndInv, [Next]_vars PROVE IndInv'
  OBVIOUS
<1>0. TypeOK /\ TypeOK'
  BY TypeNext DEF IndInv
<1>1. CASE StartFails
  <2>1. UnbornInv' /\ Joined' = Joined
    BY <1>1 DEF StartFails, UnbornInv, Joined, clientVars
  <2> QED
    BY <1>0, <1>1, <2>1, QuietStep DEF StartFails, clientVars
<1>2. CASE Start
  <2>1. UnbornInv' /\ Joined' = Joined
    BY <1>2 DEF Start, UnbornInv, Joined, clientVars
  <2>2. \A p \in Pumps : pump[p] = "unborn" /\ pump'[p] = "read"
    BY <1>2 DEF Start, IndInv, UnbornInv
  <2> QED
    BY <1>0, <1>2, <2>1, <2>2, QuietStep DEF Start, clientVars
<1>3. CASE Exit
  <2>1. UnbornInv' /\ Joined' = Joined
    BY <1>3 DEF Exit, UnbornInv, Joined, clientVars
  <2> QED
    BY <1>0, <1>3, <2>1, QuietStep DEF Exit, clientVars
<1>4. CASE WaitReturns
  <2>1. UnbornInv' /\ Joined' = Joined
    BY <1>4 DEF WaitReturns, UnbornInv, Joined, clientVars
  <2> QED
    BY <1>0, <1>4, <2>1, QuietStep DEF WaitReturns, clientVars
<1>5. CASE CloseSubscribers
  BY <1>0, <1>5, CloseStep
<1>6. ASSUME NEW p \in Pumps, Write(p) \/ Fill(p) \/ NextLine(p) \/ PumpReturns(p) \/ AppendBuffer(p)
      PROVE IndInv'
  <2>1. /\ UNCHANGED <<queueVars, clientVars, reap, proc>>
        /\ (pump[p] \notin {"fan", "stuck"} /\ pump'[p] \notin {"fan", "stuck"}) \/ pump' = pump
        /\ \A q \in Pumps \ {p} : pump'[q] = pump[q]
    BY <1>0, <1>6 DEF Write, Fill, NextLine, PumpReturns, AppendBuffer, outVars, TypeOK
  <2>2. proc # "starting"
    BY <1>6 DEF Write, Fill, NextLine, PumpReturns, AppendBuffer, IndInv, UnbornInv
  <2>3. UnbornInv' /\ Joined' = Joined
    BY <2>1, <2>2 DEF UnbornInv, Joined, clientVars
  <2> QED
    BY <1>0, <2>1, <2>3, QuietStep DEF clientVars
<1>7. ASSUME NEW p \in Pumps, Drain(p) PROVE IndInv'
  BY <1>0, <1>7, DrainStep
<1>8. ASSUME NEW p \in Pumps, Deliver(p) PROVE IndInv'
  BY <1>0, <1>8, DeliverStep
<1>9. ASSUME NEW p \in Pumps, FanOutReturns(p) PROVE IndInv'
  BY <1>0, <1>9, FanOutReturnsStep
<1>10. ASSUME NEW c \in Clients, Subscribe(c) PROVE IndInv'
  BY <1>0, <1>10, SubscribeStep
<1>11. ASSUME NEW c \in Clients,
              Snapshot(c) \/ Receive(c) \/ EndStream(c) \/ Disconnect(c)
       PROVE IndInv'
  <2>1. UNCHANGED <<queueVars, closed, late, reap, proc, pump>>
    BY <1>11 DEF Snapshot, Receive, EndStream, Disconnect
  <2>2. Joined' = Joined
    BY <1>0, <1>11 DEF Snapshot, Receive, EndStream, Disconnect, Joined, TypeOK
  <2>3. UnbornInv'
    BY <2>1 DEF UnbornInv, IndInv
  <2> QED
    BY <1>0, <2>1, <2>2, <2>3, QuietStep
<1>12. CASE UNCHANGED vars
  <2>1. UnbornInv' /\ Joined' = Joined
    BY <1>12 DEF vars, UnbornInv, Joined, clientVars, IndInv
  <2> QED
    BY <1>0, <1>12, <2>1, QuietStep DEF vars, clientVars
<1> QED
  BY <1>1, <1>2, <1>3, <1>4, <1>5, <1>6, <1>7, <1>8, <1>9, <1>10, <1>11, <1>12
     DEF Next, PumpStep, ReaperStep, ClientStep

(* The lock discipline of subMu as one inductive invariant: who holds it, what it
   has drained, and where each client's channel is meanwhile. *)
THEOREM InductiveInvariant == Spec => []IndInv
BY IndInit, IndNext, PTL DEF Spec

(* No closed channel is ever sent to or closed again, for any number of sources and
   clients and any capacities. *)
THEOREM NeverPanics == Spec => []NoPanic
<1>1. IndInv => NoPanic
  BY DEF IndInv
<1> QED
  BY <1>1, InductiveInvariant, PTL

(* No channel is in two places, or twice in one. *)
THEOREM Uniqueness == Spec => []ChannelsAreUnique
<1>1. IndInv => ChannelsAreUnique
  BY DEF IndInv
<1> QED
  BY <1>1, InductiveInvariant, PTL

(* The reaper's close misses no client that subscribed before it. *)
THEOREM CloseMissesNobody == Spec => []JoinedGetClosed
<1>1. IndInv => JoinedGetClosed
  BY DEF IndInv
<1> QED
  BY <1>1, InductiveInvariant, PTL

-----------------------------------------------------------------------------
(* The output. *)

Text == Line \union {NoLine}

(* A pump between taking a line and having handed it to every channel. *)
Handing(p) == pump[p] \in {"append", "lock", "fan", "stuck"}

(* The number of the line a pump took last. *)
Taken(p) == cur[p][2]

(* The lines of a source on their way, by position: those in the reader follow the line
   its pump took last, those in the pipe follow them, up to the last one written. *)
InputAt(p) ==
  /\ Handing(p) => cur[p][1] = p /\ Taken(p) >= 1
  /\ \A i \in 1..Len(bufio[p]) : bufio[p][i] = <<p, Taken(p) + i>>
  /\ \A i \in 1..Len(pipe[p]) : pipe[p][i] = <<p, Taken(p) + Len(bufio[p]) + i>>
  /\ Taken(p) + Len(bufio[p]) + Len(pipe[p]) <= wrote[p]
  /\ proc # "reaped" => Taken(p) + Len(bufio[p]) + Len(pipe[p]) = wrote[p]

InputInv == \A p \in Pumps : InputAt(p)

(* The last line of a source that its pump has put into the ring. *)
Appended(p) == IF pump[p] = "append" THEN Taken(p) - 1 ELSE Taken(p)

RingHas(p) == \A n \in NumbersOf(ring, p) :
  n <= Appended(p) /\ n..Appended(p) \subseteq NumbersOf(ring, p)

RingInv == Len(ring) <= RingCap /\ Increasing(ring) /\ \A p \in Pumps : RingHas(p)

(* What a client was sent, and will be from its channel. *)
Live(c) == got[c] \o chan[c]

(* The last line of a source that its pump has offered to a client's channel: in the
   middle of a fan-out this differs between the channels served and those still held. *)
Offered(p, c) ==
  IF pump[p] \in {"append", "lock"} \/ c \in RangeOf(subs[p]) THEN Taken(p) - 1 ELSE Taken(p)

Sent(c, p) == NumbersOf(Live(c), p)

LiveHas(c, p) == \A n \in Sent(c, p) :
  /\ n >= 1 /\ n <= Offered(p, c)
  /\ c \notin dropped \union closed => n..Offered(p, c) \subseteq Sent(c, p)

LiveAt(c) == /\ c \notin Joined => got[c] = <<>> /\ chan[c] = <<>>
             /\ Increasing(Live(c))
             /\ \A p \in Pumps : LiveHas(c, p)

LiveInv == \A c \in Clients : LiveAt(c)

(* The backfill ends where the live lines begin. *)
BackHas(c, p) == \A m \in NumbersOf(back[c], p) :
  m <= Appended(p) /\ \A n \in Sent(c, p) : m <= n

BackInv == \A c \in Clients : Increasing(back[c]) /\ \A p \in Pumps : BackHas(c, p)

OutputInv == InputInv /\ RingInv /\ LiveInv /\ BackInv

-----------------------------------------------------------------------------
(* Sequences of lines. *)

(* The count of lines a pump has taken is a number. *)
LEMMA TakenType == ASSUME TypeOK, NEW p \in Pumps PROVE Taken(p) \in Nat
<1>1. cur[p] \in Text
  BY DEF TypeOK, Text
<1> QED
  BY <1>1 DEF Taken, Text, Line, NoLine

(* A line is its source and its number. *)
LEMMA TextParts == \A e \in Text : e[2] \in Nat /\ e = <<e[1], e[2]>>
BY DEF Text, Line, NoLine

(* The numbers of a source are numbers. *)
LEMMA NumbersType ==
  ASSUME NEW s \in Seq(Text), NEW p PROVE NumbersOf(s, p) \subseteq Nat
<1>1. \A j \in DOMAIN s : s[j] \in Text
  OBVIOUS
<1> QED
  BY <1>1, TextParts DEF NumbersOf

(* No line, no number. *)
LEMMA NumbersEmpty == \A p : NumbersOf(<<>>, p) = {}
BY DEF NumbersOf

(* Appending a line adds its number to those of its source. *)
LEMMA NumbersAppend ==
  ASSUME NEW s \in Seq(Text), NEW e \in Text, NEW p
  PROVE  NumbersOf(Append(s, e), p) = NumbersOf(s, p) \union (IF e[1] = p THEN {e[2]} ELSE {})
<1> DEFINE t == Append(s, e)
<1>1. /\ DOMAIN s = 1..Len(s) /\ DOMAIN t = 1..Len(s) + 1 /\ Len(s) \in Nat
      /\ \A i \in 1..Len(s) : t[i] = s[i]
      /\ t[Len(s) + 1] = e
  OBVIOUS
<1>2. \A i \in 1..Len(s) + 1 : i \in 1..Len(s) \/ i = Len(s) + 1
  BY <1>1
<1>3. (\A i \in 1..Len(s) : i \in 1..Len(s) + 1) /\ Len(s) + 1 \in 1..Len(s) + 1
  BY <1>1
<1> HIDE DEF t
<1>4. NumbersOf(t, p) \subseteq NumbersOf(s, p) \union (IF e[1] = p THEN {e[2]} ELSE {})
  BY <1>1, <1>2 DEF NumbersOf
<1>5. NumbersOf(s, p) \subseteq NumbersOf(t, p)
  BY <1>1, <1>3 DEF NumbersOf
<1>6. e[1] = p => e[2] \in NumbersOf(t, p)
  BY <1>1, <1>3 DEF NumbersOf
<1> QED
  BY <1>4, <1>5, <1>6 DEF t

(* A line later than all of its source keeps the sequence in order. *)
LEMMA IncreasingAppend ==
  ASSUME NEW s \in Seq(Text), NEW e \in Text, Increasing(s),
         \A n \in NumbersOf(s, e[1]) : n < e[2]
  PROVE  Increasing(Append(s, e))
<1> DEFINE t == Append(s, e)
<1>1. /\ DOMAIN s = 1..Len(s) /\ DOMAIN t = 1..Len(s) + 1 /\ Len(s) \in Nat
      /\ \A i \in 1..Len(s) : t[i] = s[i]
      /\ t[Len(s) + 1] = e
  OBVIOUS
<1> HIDE DEF t
<1>2. SUFFICES ASSUME NEW i \in 1..Len(s) + 1, NEW j \in 1..Len(s) + 1, i < j, t[i][1] = t[j][1]
               PROVE  t[i][2] < t[j][2]
  BY <1>1 DEF Increasing, t
<1>3. i \in 1..Len(s)
  BY <1>1, <1>2
<1>4. CASE j \in 1..Len(s)
  BY <1>1, <1>2, <1>3, <1>4 DEF Increasing
<1>5. CASE j = Len(s) + 1
  BY <1>1, <1>2, <1>3, <1>5 DEF NumbersOf
<1> QED
  BY <1>1, <1>4, <1>5

(* Appending to a concatenation, and moving a line from the right to the left of it. *)
LEMMA AppendConcat ==
  ASSUME NEW s \in Seq(Text), NEW t \in Seq(Text), NEW e \in Text
  PROVE  s \o Append(t, e) = Append(s \o t, e)
OBVIOUS

(* Moving the first line of the channel to what is received leaves what was sent as it was. *)
LEMMA MoveHead ==
  ASSUME NEW s \in Seq(Text), NEW t \in Seq(Text), t # <<>>
  PROVE  Append(s, Head(t)) \o Tail(t) = s \o t
OBVIOUS

(* The first line of the right sequence comes after all of the left one. *)
LEMMA HeadComesAfter ==
  ASSUME NEW s \in Seq(Text), NEW t \in Seq(Text), t # <<>>, Increasing(s \o t)
  PROVE  /\ Head(t) \in Text
         /\ Head(t)[2] \in NumbersOf(s \o t, Head(t)[1])
         /\ \A n \in NumbersOf(s, Head(t)[1]) : n < Head(t)[2]
<1> DEFINE u == s \o t
           a == Len(s)
<1>1. /\ a \in Nat /\ DOMAIN s = 1..a /\ a + 1 \in DOMAIN u /\ u[a + 1] = Head(t)
      /\ Head(t) \in Text
      /\ \A i \in 1..a : i \in DOMAIN u /\ i < a + 1 /\ u[i] = s[i]
  OBVIOUS
<1> HIDE DEF u, a
<1>2. Head(t)[2] \in NumbersOf(u, Head(t)[1])
  BY <1>1 DEF NumbersOf
<1>3. ASSUME NEW n \in NumbersOf(s, Head(t)[1]) PROVE n < Head(t)[2]
  <2>1. PICK i \in 1..a : s[i][1] = Head(t)[1] /\ s[i][2] = n
    BY <1>1 DEF NumbersOf
  <2> QED
    BY <1>1, <2>1 DEF Increasing, u
<1> QED
  BY <1>1, <1>2, <1>3 DEF u

(* The last elements of a longer sequence, by position. *)
LEMMA LastElements ==
  ASSUME NEW S, NEW s \in Seq(S), NEW R \in Nat \ {0}, NEW d \in Nat \ {0}, Len(s) = R + d
  PROVE  LET t == SubSeq(s, Len(s) - R + 1, Len(s))
         IN  /\ t \in Seq(S) /\ Len(t) = R /\ DOMAIN t = 1..R
             /\ \A i \in 1..R : d + i \in 1..Len(s) /\ t[i] = s[d + i]
             /\ \A i \in 1..Len(s) : i > d => i - d \in 1..R /\ t[i - d] = s[i]
<1> DEFINE t == SubSeq(s, d + 1, Len(s))
<1>1. Len(s) - R + 1 = d + 1 /\ d + 1 \in 1..Len(s) /\ Len(s) - (d + 1) + 1 = R
  OBVIOUS
<1>2. t \in Seq(S) /\ Len(t) = R
  BY <1>1
<1>3. \A i \in 1..R : t[i] = s[(d + 1) + i - 1]
  BY <1>1
<1> HIDE DEF t
<1>4. \A i \in 1..R : d + i \in 1..Len(s) /\ t[i] = s[d + i]
  BY <1>3
<1>5. ASSUME NEW i \in 1..Len(s), i > d PROVE i - d \in 1..R /\ t[i - d] = s[i]
  <2>1. i - d \in 1..R /\ d + (i - d) = i
    BY <1>5
  <2> QED
    BY <1>4, <2>1
<1> QED
  BY <1>1, <1>2, <1>4, <1>5 DEF t

(* Trimming keeps the order, and of each source the lines from some line on. *)
LEMMA TrimmedParts ==
  ASSUME NEW s \in Seq(Text), Increasing(s)
  PROVE  /\ Trimmed(s) \in Seq(Text) /\ Len(Trimmed(s)) <= RingCap /\ Increasing(Trimmed(s))
         /\ \A p : /\ NumbersOf(Trimmed(s), p) \subseteq NumbersOf(s, p)
                   /\ \A n \in NumbersOf(Trimmed(s), p), m \in NumbersOf(s, p) :
                        n <= m => m \in NumbersOf(Trimmed(s), p)
<1>1. CASE ~(Len(s) > RingCap)
  <2>1. Trimmed(s) = s
    BY <1>1 DEF Trimmed
  <2> QED
    BY <1>1, <2>1, CapacitiesAssumption
<1>2. CASE Len(s) > RingCap
  <2> DEFINE d == Len(s) - RingCap
             t == SubSeq(s, Len(s) - RingCap + 1, Len(s))
  <2>1. /\ RingCap \in Nat \ {0} /\ Len(s) \in Nat /\ d \in Nat \ {0} /\ Len(s) = RingCap + d
    BY <1>2, CapacitiesAssumption
  <2>2. /\ t \in Seq(Text) /\ Len(t) = RingCap /\ DOMAIN t = 1..RingCap
        /\ \A i \in 1..RingCap : d + i \in 1..Len(s) /\ t[i] = s[d + i]
        /\ \A i \in 1..Len(s) : i > d => i - d \in 1..RingCap /\ t[i - d] = s[i]
    <3> HIDE DEF d
    <3> QED
      BY <2>1, LastElements
  <2>3. DOMAIN s = 1..Len(s)
    OBVIOUS
  <2> HIDE DEF d, t
  <2>5. Increasing(t)
    <3> SUFFICES ASSUME NEW i \in 1..RingCap, NEW j \in 1..RingCap, i < j, t[i][1] = t[j][1]
                 PROVE  t[i][2] < t[j][2]
      BY <2>2 DEF Increasing
    <3>1. d + i < d + j
      BY <2>1
    <3> QED
      BY <2>2, <2>3, <3>1 DEF Increasing
  <2>6. ASSUME NEW p PROVE NumbersOf(t, p) \subseteq NumbersOf(s, p)
    BY <2>2, <2>3 DEF NumbersOf
  <2>7. ASSUME NEW p, NEW n \in NumbersOf(t, p), NEW m \in NumbersOf(s, p), n <= m
        PROVE  m \in NumbersOf(t, p)
    <3>1. PICK k \in 1..RingCap : t[k][1] = p /\ t[k][2] = n
      BY <2>2 DEF NumbersOf
    <3>2. PICK l \in 1..Len(s) : s[l][1] = p /\ s[l][2] = m
      BY <2>3 DEF NumbersOf
    <3>3. s[d + k] = t[k] /\ d + k \in 1..Len(s)
      BY <2>2
    <3>4. l > d
      <4> SUFFICES ASSUME l <= d PROVE FALSE
        BY <2>1
      <4>1. l < d + k
        BY <2>1
      <4>2. m < n
        BY <2>3, <3>1, <3>2, <3>3, <4>1 DEF Increasing
      <4>3. m \in Nat /\ n \in Nat
        BY <2>2, NumbersType
      <4> QED
        BY <2>7, <4>2, <4>3
    <3>5. l - d \in 1..RingCap /\ t[l - d] = s[l]
      BY <2>2, <3>4
    <3> QED
      BY <2>2, <3>2, <3>5 DEF NumbersOf
  <2>8. Trimmed(s) = t
    BY <1>2 DEF Trimmed, t
  <2> QED
    BY <2>1, <2>2, <2>5, <2>6, <2>7, <2>8
<1> QED
  BY <1>1, <1>2

-----------------------------------------------------------------------------
(* The lines on their way. *)

(* A step that leaves a source alone, or whose pump only goes on with the line it has. *)
LEMMA InputFrame ==
  ASSUME NEW p \in Pumps, InputAt(p), proc' # "reaped" => proc # "reaped",
         wrote'[p] = wrote[p], pipe'[p] = pipe[p], bufio'[p] = bufio[p], cur'[p] = cur[p],
         Handing(p)' => Handing(p)
  PROVE  InputAt(p)'
<1>1. Taken(p)' = Taken(p)
  BY DEF Taken
<1> QED
  BY <1>1 DEF InputAt

(* A write of the process goes to the end of the pipe, in turn. *)
LEMMA InputWrite ==
  ASSUME NEW p \in Pumps, TypeOK, InputAt(p), Write(p) PROVE InputAt(p)'
<1>1. /\ proc = "live" /\ proc' = proc /\ cur'[p] = cur[p] /\ bufio'[p] = bufio[p]
      /\ wrote'[p] = wrote[p] + 1 /\ pipe'[p] = Append(pipe[p], <<p, wrote[p] + 1>>)
      /\ pipe[p] \in Seq(Line)
  BY DEF Write, TypeOK
<1>2. Taken(p)' = Taken(p) /\ Handing(p)' = Handing(p)
  BY DEF Write, Taken, Handing
<1>3. wrote[p] \in Nat /\ Taken(p) \in Nat /\ Len(bufio[p]) \in Nat /\ Len(pipe[p]) \in Nat
  BY TakenType DEF TypeOK
<1>4. Taken(p) + Len(bufio[p]) + Len(pipe[p]) = wrote[p]
  BY <1>1 DEF InputAt
<1>5. /\ Len(pipe'[p]) = Len(pipe[p]) + 1
      /\ pipe'[p][Len(pipe[p]) + 1] = <<p, wrote[p] + 1>>
      /\ \A i \in 1..Len(pipe[p]) : pipe'[p][i] = pipe[p][i]
  BY <1>1
<1>6. /\ wrote[p] + 1 = Taken(p) + Len(bufio[p]) + (Len(pipe[p]) + 1)
      /\ wrote[p] + 1 <= wrote[p] + 1
  BY <1>3, <1>4
<1>7. ASSUME NEW i \in 1..Len(pipe'[p])
      PROVE  pipe'[p][i] = <<p, Taken(p) + Len(bufio[p]) + i>>
  <2>1. i \in 1..Len(pipe[p]) \/ i = Len(pipe[p]) + 1
    BY <1>3, <1>5
  <2>2. CASE i \in 1..Len(pipe[p])
    BY <1>5, <2>2 DEF InputAt
  <2>3. CASE i = Len(pipe[p]) + 1
    BY <1>5, <1>6, <2>3
  <2> QED
    BY <2>1, <2>2, <2>3
<1> QED
  BY <1>1, <1>2, <1>5, <1>6, <1>7 DEF InputAt

(* Filling the scanner's buffer moves the pipe's lines and keeps their order. *)
LEMMA InputFill ==
  ASSUME NEW p \in Pumps, TypeOK, InputAt(p), Fill(p) PROVE InputAt(p)'
<1>1. /\ proc' = proc /\ wrote'[p] = wrote[p] /\ cur'[p] = cur[p]
      /\ bufio[p] = <<>> /\ bufio'[p] = pipe[p] /\ pipe'[p] = <<>>
  BY DEF Fill, TypeOK
<1>2. Taken(p)' = Taken(p) /\ Handing(p)' = Handing(p)
  BY DEF Fill, Taken, Handing
<1>3. Taken(p) \in Nat /\ Len(pipe[p]) \in Nat
  BY TakenType DEF TypeOK
<1>4. Len(bufio[p]) = 0 /\ Len(pipe'[p]) = 0 /\ \A i \in 1..Len(pipe'[p]) : FALSE
  BY <1>1
<1>5. /\ Taken(p) + 0 + Len(pipe[p]) = Taken(p) + Len(pipe[p]) + 0
      /\ \A i \in 1..Len(pipe[p]) : Taken(p) + 0 + i = Taken(p) + i
  BY <1>3
<1>6. \A i \in 1..Len(bufio'[p]) : bufio'[p][i] = <<p, Taken(p) + i>>
  BY <1>1, <1>4, <1>5 DEF InputAt
<1> QED
  BY <1>1, <1>2, <1>4, <1>5, <1>6 DEF InputAt

(* The pump takes the line after the one it took before. *)
LEMMA InputNextLine ==
  ASSUME NEW p \in Pumps, TypeOK, InputAt(p), NextLine(p)
  PROVE  InputAt(p)' /\ cur'[p][1] = p /\ Taken(p)' = Taken(p) + 1
<1>1. /\ bufio[p] # <<>> /\ proc' = proc /\ wrote'[p] = wrote[p] /\ pipe'[p] = pipe[p]
      /\ cur'[p] = Head(bufio[p]) /\ bufio'[p] = Tail(bufio[p]) /\ bufio[p] \in Seq(Line)
  BY DEF NextLine, TypeOK
<1>2. Taken(p) \in Nat /\ Len(bufio[p]) \in Nat \ {0} /\ Len(pipe[p]) \in Nat
  BY <1>1, TakenType DEF TypeOK
<1>3. /\ cur'[p] = bufio[p][1] /\ Len(bufio'[p]) = Len(bufio[p]) - 1
      /\ \A i \in 1..Len(bufio[p]) - 1 : bufio'[p][i] = bufio[p][i + 1]
  BY <1>1
<1>4. cur'[p][1] = p /\ Taken(p)' = Taken(p) + 1
  <2>1. 1 \in 1..Len(bufio[p])
    BY <1>2
  <2>2. cur'[p] = <<p, Taken(p) + 1>>
    BY <1>3, <2>1 DEF InputAt
  <2> QED
    BY <2>2 DEF Taken
<1>5. /\ (Taken(p) + 1) + (Len(bufio[p]) - 1) = Taken(p) + Len(bufio[p])
      /\ Taken(p) + 1 >= 1
      /\ \A i \in 1..Len(bufio[p]) - 1 :
           i + 1 \in 1..Len(bufio[p]) /\ Taken(p) + (i + 1) = (Taken(p) + 1) + i
  BY <1>2
<1>6. \A i \in 1..Len(bufio'[p]) : bufio'[p][i] = <<p, Taken(p)' + i>>
  BY <1>3, <1>4, <1>5 DEF InputAt
<1>7. Taken(p)' + Len(bufio'[p]) = Taken(p) + Len(bufio[p])
  BY <1>3, <1>4, <1>5
<1>8. Taken(p)' >= 1
  BY <1>4, <1>5
<1> QED
  BY <1>1, <1>4, <1>6, <1>7, <1>8 DEF InputAt

(* Wait closes the pipes: what was in them is gone, what the readers hold is not. *)
LEMMA InputWait ==
  ASSUME NEW p \in Pumps, TypeOK, InputAt(p), WaitReturns PROVE InputAt(p)'
<1>1. /\ proc' = "reaped" /\ wrote'[p] = wrote[p] /\ cur'[p] = cur[p] /\ bufio'[p] = bufio[p]
      /\ pipe'[p] = <<>>
  BY DEF WaitReturns
<1>2. Taken(p)' = Taken(p) /\ Handing(p)' = Handing(p)
  BY DEF WaitReturns, Taken, Handing
<1>3. /\ wrote[p] \in Nat /\ Taken(p) \in Nat /\ Len(bufio[p]) \in Nat /\ Len(pipe[p]) \in Nat
  BY TakenType DEF TypeOK
<1>4. Len(pipe'[p]) = 0 /\ \A i \in 1..Len(pipe'[p]) : FALSE
  BY <1>1
<1>5. Taken(p) + Len(bufio[p]) + Len(pipe[p]) <= wrote[p]
  BY DEF InputAt
<1>6. Taken(p) + Len(bufio[p]) + 0 <= wrote[p]
  BY <1>3, <1>5
<1> QED
  BY <1>1, <1>2, <1>4, <1>6 DEF InputAt

(* Every step keeps the lines between the process and the pump in turn, none missing. *)
LEMMA InputNext == ASSUME IndInv, InputInv, [Next]_vars PROVE InputInv'
<1> SUFFICES ASSUME NEW p \in Pumps PROVE InputAt(p)'
  BY DEF InputInv
<1>0. TypeOK /\ InputAt(p)
  BY DEF IndInv, InputInv
<1>1. CASE Write(p) \/ Fill(p) \/ NextLine(p) \/ WaitReturns
  BY <1>0, <1>1, InputWrite, InputFill, InputNextLine, InputWait
<1>2. ASSUME NEW q \in Pumps \ {p}, Write(q) \/ Fill(q) \/ NextLine(q) PROVE InputAt(p)'
  <2>1. /\ proc' = proc /\ wrote'[p] = wrote[p] /\ pipe'[p] = pipe[p]
        /\ bufio'[p] = bufio[p] /\ cur'[p] = cur[p] /\ pump'[p] = pump[p]
    BY <1>0, <1>2 DEF Write, Fill, NextLine, TypeOK
  <2> QED
    BY <1>0, <2>1, InputFrame DEF Handing
<1>3. ASSUME NEW q \in Pumps,
             PumpReturns(q) \/ AppendBuffer(q) \/ Drain(q) \/ Deliver(q) \/ FanOutReturns(q)
      PROVE  InputAt(p)'
  <2>1. UNCHANGED <<proc, wrote, pipe, bufio, cur>>
    BY <1>3 DEF PumpReturns, AppendBuffer, Drain, Deliver, FanOutReturns, outVars
  <2>2. Handing(p)' => Handing(p)
    BY <1>0, <1>3 DEF PumpReturns, AppendBuffer, Drain, Deliver, FanOutReturns, ReleasedPumps,
                      Handing, TypeOK
  <2> QED
    BY <1>0, <2>1, <2>2, InputFrame
<1>4. CASE StartFails \/ Start \/ Exit \/ CloseSubscribers
  <2>1. UNCHANGED <<wrote, pipe, bufio, cur>> /\ (proc' # "reaped" => proc # "reaped")
    BY <1>4 DEF StartFails, Start, Exit, CloseSubscribers, outVars
  <2>2. Handing(p)' => Handing(p)
    BY <1>0, <1>4 DEF StartFails, Start, Exit, CloseSubscribers, ReleasedPumps, Handing, TypeOK
  <2> QED
    BY <1>0, <2>1, <2>2, InputFrame
<1>5. CASE UNCHANGED vars \/ \E c \in Clients : ClientStep(c)
  <2>1. UNCHANGED <<proc, wrote, pipe, bufio, cur, pump>>
    BY <1>5 DEF vars, ClientStep, Snapshot, Subscribe, Receive, EndStream, Disconnect, outVars
  <2> QED
    BY <1>0, <2>1, InputFrame DEF Handing
<1> QED
  BY <1>1, <1>2, <1>3, <1>4, <1>5 DEF Next, PumpStep, ReaperStep

-----------------------------------------------------------------------------
(* The ring. *)

(* What a source has in the ring changes only with its pump. *)
LEMMA AppendedFrame ==
  ASSUME NEW p \in Pumps, cur'[p] = cur[p], pump'[p] = "append" <=> pump[p] = "append"
  PROVE  Appended(p)' = Appended(p)
BY DEF Appended, Taken

(* The last line of a source in the ring has a number. *)
LEMMA AppendedType == ASSUME TypeOK, NEW p \in Pumps PROVE Appended(p) \in Int
BY TakenType DEF Appended

(* Appending a line, and cutting the ring to its capacity, keeps it recent and in order. *)
LEMMA RingAppend ==
  ASSUME NEW p \in Pumps, TypeOK, InputInv, RingInv, AppendBuffer(p) PROVE RingInv'
<1> DEFINE r == Append(ring, cur[p])
<1>1. /\ ring' = Trimmed(r) /\ cur' = cur /\ ring \in Seq(Text) /\ cur[p] \in Text
      /\ pump[p] = "append" /\ pump'[p] = "lock" /\ \A q \in Pumps \ {p} : pump'[q] = pump[q]
  BY DEF AppendBuffer, TypeOK, Text, outVars
<1>2. cur[p][1] = p /\ cur[p][2] = Taken(p)
  BY <1>1 DEF InputInv, InputAt, Handing, Taken
<1>3. Taken(p) \in Nat /\ Appended(p) = Taken(p) - 1 /\ Appended(p)' = Taken(p)
  BY <1>1, TakenType DEF Appended, Taken
<1>4. \A n \in NumbersOf(ring, p) : n \in Nat /\ n < Taken(p)
  BY <1>1, <1>3, NumbersType DEF RingInv, RingHas
<1>5. r \in Seq(Text) /\ Increasing(r)
  BY <1>1, <1>2, <1>4, IncreasingAppend DEF RingInv
<1>6. /\ NumbersOf(r, p) = NumbersOf(ring, p) \union {Taken(p)}
      /\ \A q \in Pumps \ {p} : NumbersOf(r, q) = NumbersOf(ring, q)
  <2>1. \A q : NumbersOf(r, q) = NumbersOf(ring, q) \union (IF cur[p][1] = q THEN {cur[p][2]} ELSE {})
    BY <1>1, NumbersAppend
  <2> QED
    BY <1>2, <2>1
<1> HIDE DEF r
<1>7. ASSUME NEW q \in Pumps, NEW n \in NumbersOf(r, q)
      PROVE  n \in Nat /\ n <= Appended(q)' /\ n..Appended(q)' \subseteq NumbersOf(r, q)
  <2>0. n \in Nat
    BY <1>5, NumbersType
  <2>1. CASE q # p
    <3>1. Appended(q)' = Appended(q)
      BY <1>1, <2>1, AppendedFrame
    <3> QED
      BY <1>6, <2>0, <2>1, <3>1 DEF RingInv, RingHas
  <2>2. CASE q = p /\ n \in NumbersOf(ring, p)
    <3>1. n..(Taken(p) - 1) \subseteq NumbersOf(ring, p)
      BY <1>3, <2>2 DEF RingInv, RingHas
    <3>2. \A m \in n..Taken(p) : m = Taken(p) \/ m \in n..(Taken(p) - 1)
      BY <1>3, <2>0
    <3> QED
      BY <1>3, <1>4, <1>6, <2>0, <2>2, <3>1, <3>2
  <2>3. CASE q = p /\ n = Taken(p)
    <3>1. \A m \in n..Taken(p) : m = Taken(p)
      BY <1>3, <2>3
    <3> QED
      BY <1>3, <1>6, <2>0, <2>3, <3>1
  <2> QED
    BY <1>6, <2>1, <2>2, <2>3
<1>8. /\ Len(ring') <= RingCap /\ Increasing(ring')
      /\ \A q : /\ NumbersOf(ring', q) \subseteq NumbersOf(r, q)
                /\ \A n \in NumbersOf(ring', q), m \in NumbersOf(r, q) :
                     n <= m => m \in NumbersOf(ring', q)
  BY <1>1, <1>5, TrimmedParts
<1>9. ASSUME NEW q \in Pumps, NEW n \in NumbersOf(ring', q)
      PROVE  n <= Appended(q)' /\ n..Appended(q)' \subseteq NumbersOf(ring', q)
  <2>1. /\ n \in NumbersOf(r, q) /\ n \in Nat /\ n <= Appended(q)'
        /\ n..Appended(q)' \subseteq NumbersOf(r, q)
    BY <1>7, <1>8
  <2>2. \A m \in n..Appended(q)' : n <= m
    BY <2>1
  <2> QED
    BY <1>8, <2>1, <2>2
<1> QED
  BY <1>8, <1>9 DEF RingInv, RingHas

(* The line a pump takes is not in the ring, and the last one before it may be. *)
LEMMA AppendedGrows ==
  ASSUME IndInv, InputInv, [Next]_vars, NEW p \in Pumps
  PROVE  Appended(p) <= Appended(p)' /\ (~AppendBuffer(p) => Appended(p)' = Appended(p))
<1>0. TypeOK /\ InputAt(p) /\ Appended(p) \in Int /\ Taken(p) \in Nat
  BY AppendedType, TakenType DEF IndInv, InputInv
<1>1. CASE NextLine(p)
  <2>1. Taken(p)' = Taken(p) + 1 /\ pump[p] = "read" /\ pump'[p] = "append"
    BY <1>0, <1>1, InputNextLine DEF NextLine, TypeOK
  <2>2. Appended(p) = Taken(p) /\ Appended(p)' = (Taken(p) + 1) - 1
    BY <2>1 DEF Appended
  <2> QED
    BY <1>0, <2>2
<1>2. CASE AppendBuffer(p)
  <2>1. Appended(p) = Taken(p) - 1 /\ Appended(p)' = Taken(p)
    BY <1>0, <1>2 DEF AppendBuffer, Appended, Taken, TypeOK
  <2> QED
    BY <1>0, <1>2, <2>1
<1>3. ASSUME NEW q \in Pumps \ {p}, NextLine(q) \/ AppendBuffer(q)
      PROVE  Appended(p)' = Appended(p)
  BY <1>0, <1>3, AppendedFrame DEF NextLine, AppendBuffer, TypeOK
<1>4. ASSUME NEW q \in Pumps,
             Write(q) \/ Fill(q) \/ PumpReturns(q) \/ Drain(q) \/ Deliver(q) \/ FanOutReturns(q)
      PROVE  Appended(p)' = Appended(p)
  <2>1. cur'[p] = cur[p]
    BY <1>4 DEF Write, Fill, PumpReturns, Drain, Deliver, FanOutReturns, outVars
  <2>2. pump'[p] = "append" <=> pump[p] = "append"
    BY <1>0, <1>4 DEF Write, Fill, PumpReturns, Drain, Deliver, FanOutReturns, ReleasedPumps, TypeOK
  <2> QED
    BY <2>1, <2>2, AppendedFrame
<1>5. CASE StartFails \/ Start \/ Exit \/ WaitReturns \/ CloseSubscribers
  <2>1. cur'[p] = cur[p]
    BY <1>5 DEF StartFails, Start, Exit, WaitReturns, CloseSubscribers, outVars
  <2>2. pump'[p] = "append" <=> pump[p] = "append"
    BY <1>0, <1>5 DEF StartFails, Start, Exit, WaitReturns, CloseSubscribers, ReleasedPumps,
                      IndInv, UnbornInv
  <2> QED
    BY <1>0, <2>1, <2>2, AppendedFrame
<1>6. CASE UNCHANGED vars \/ \E c \in Clients : ClientStep(c)
  <2>1. cur'[p] = cur[p] /\ (pump'[p] = "append" <=> pump[p] = "append")
    BY <1>6 DEF vars, ClientStep, Snapshot, Subscribe, Receive, EndStream, Disconnect, outVars
  <2> QED
    BY <1>0, <2>1, AppendedFrame
<1> QED
  BY <1>0, <1>1, <1>2, <1>3, <1>4, <1>5, <1>6 DEF Next, PumpStep, ReaperStep

(* Every step keeps the ring: only appendBuffer changes it. *)
LEMMA RingNext == ASSUME IndInv, InputInv, RingInv, [Next]_vars PROVE RingInv'
<1>0. TypeOK
  BY DEF IndInv
<1>1. CASE \E p \in Pumps : AppendBuffer(p)
  BY <1>0, <1>1, RingAppend
<1>2. CASE ~\E p \in Pumps : AppendBuffer(p)
  <2>1. ring' = ring
    BY <1>2 DEF Next, PumpStep, ReaperStep, ClientStep, StartFails, Start, Exit, WaitReturns,
                CloseSubscribers, Write, Fill, NextLine, PumpReturns, Drain, Deliver, FanOutReturns,
                Snapshot, Subscribe, Receive, EndStream, Disconnect, vars, outVars
  <2>2. \A p \in Pumps : Appended(p)' = Appended(p)
    BY <1>2, AppendedGrows
  <2>3. \A p \in Pumps : RingHas(p)'
    BY <2>1, <2>2 DEF RingInv, RingHas
  <2> QED
    BY <2>1, <2>3 DEF RingInv
<1> QED
  BY <1>1, <1>2

-----------------------------------------------------------------------------
(* The live lines. *)

(* The lock is taken and the drained channels are served between the steps named here:
   every other step leaves what was offered to a client alone. *)
LEMMA OfferedFrame ==
  ASSUME IndInv, InputInv, [Next]_vars, NEW p \in Pumps, NEW c \in Clients,
         ~Drain(p), Deliver(p) => c # Head(subs[p])
  PROVE  Offered(p, c)' = Offered(p, c)
<1>0. TypeOK /\ InputAt(p) /\ Taken(p) \in Nat /\ LockInv
  BY TakenType DEF IndInv, InputInv
<1>1. CASE NextLine(p)
  <2>1. Taken(p)' = Taken(p) + 1 /\ pump'[p] = "append" /\ pump[p] = "read"
    BY <1>0, <1>1, InputNextLine DEF NextLine, TypeOK
  <2>2. c \notin RangeOf(subs[p])
    BY <1>0, <2>1 DEF LockInv, RangeOf
  <2>3. Offered(p, c) = Taken(p) /\ Offered(p, c)' = (Taken(p) + 1) - 1
    BY <2>1, <2>2 DEF Offered
  <2> QED
    BY <1>0, <2>3
<1>2. CASE Deliver(p)
  <2>1. /\ subs[p] \in Seq(Clients) /\ subs[p] # <<>> /\ subs'[p] = Tail(subs[p])
        /\ cur' = cur /\ pump[p] = "fan" /\ pump'[p] \in {"fan", "stuck"}
    BY <1>0, <1>2 DEF Deliver, TypeOK, outVars
  <2>2. RangeOf(subs[p]) = {Head(subs[p])} \union RangeOf(subs'[p])
    BY <2>1, RangeOfTail
  <2>3. c \in RangeOf(subs'[p]) <=> c \in RangeOf(subs[p])
    BY <1>2, <2>2
  <2> QED
    BY <2>1, <2>3 DEF Offered, Taken
<1>3. ASSUME NEW q \in Pumps \ {p},
             NextLine(q) \/ Drain(q) \/ Deliver(q)
      PROVE  Offered(p, c)' = Offered(p, c)
  <2>1. cur'[p] = cur[p] /\ subs'[p] = subs[p]
    BY <1>0, <1>3 DEF NextLine, Drain, Deliver, TypeOK, outVars, queueVars
  <2>2. pump'[p] \in {"append", "lock"} <=> pump[p] \in {"append", "lock"}
    BY <1>0, <1>3 DEF NextLine, Drain, Deliver, TypeOK, ReleasedPumps
  <2> QED
    BY <2>1, <2>2 DEF Offered, Taken
<1>4. ASSUME NEW q \in Pumps,
             Write(q) \/ Fill(q) \/ PumpReturns(q) \/ AppendBuffer(q) \/ FanOutReturns(q)
      PROVE  Offered(p, c)' = Offered(p, c)
  <2>1. cur' = cur /\ subs' = subs
    BY <1>4 DEF Write, Fill, PumpReturns, AppendBuffer, FanOutReturns, outVars, queueVars
  <2>2. pump'[p] \in {"append", "lock"} <=> pump[p] \in {"append", "lock"}
    BY <1>0, <1>4 DEF Write, Fill, PumpReturns, AppendBuffer, FanOutReturns, TypeOK
  <2> QED
    BY <2>1, <2>2 DEF Offered, Taken
<1>5. CASE StartFails \/ Start \/ Exit \/ WaitReturns \/ CloseSubscribers
  <2>1. cur' = cur /\ subs' = subs
    BY <1>5 DEF StartFails, Start, Exit, WaitReturns, CloseSubscribers, outVars, queueVars
  <2>2. pump'[p] \in {"append", "lock"} <=> pump[p] \in {"append", "lock"}
    BY <1>0, <1>5 DEF StartFails, Start, Exit, WaitReturns, CloseSubscribers, ReleasedPumps,
                      IndInv, UnbornInv
  <2> QED
    BY <2>1, <2>2 DEF Offered, Taken
<1>6. CASE UNCHANGED vars \/ \E d \in Clients : ClientStep(d)
  <2>1. cur' = cur /\ subs' = subs /\ pump' = pump
    BY <1>6 DEF vars, ClientStep, Snapshot, Subscribe, Receive, EndStream, Disconnect, outVars, queueVars
  <2> QED
    BY <2>1 DEF Offered, Taken
<1> QED
  BY <1>1, <1>2, <1>3, <1>4, <1>5, <1>6 DEF Next, PumpStep, ReaperStep

(* Lines a client has stay right when no more is offered, and the lines dropped and the
   channels closed are no fewer. *)
LEMMA LiveFrame ==
  ASSUME NEW p \in Pumps, NEW c \in Clients, LiveHas(c, p),
         Live(c)' = Live(c), Offered(p, c)' = Offered(p, c),
         c \in dropped \union closed => c \in dropped' \union closed'
  PROVE  LiveHas(c, p)'
BY DEF LiveHas, Sent

(* The last line offered to a client is the one the pump holds or the one before. *)
LEMMA OfferedType ==
  ASSUME TypeOK, NEW p \in Pumps, NEW c \in Clients
  PROVE  Offered(p, c) \in Int /\ Taken(p) - 1 <= Offered(p, c) /\ Offered(p, c) <= Taken(p)
<1>1. Taken(p) \in Nat
  BY TakenType
<1>2. Offered(p, c) = Taken(p) \/ Offered(p, c) = Taken(p) - 1
  BY DEF Offered
<1> QED
  BY <1>1, <1>2

(* What a client was sent is a sequence of lines. *)
LEMMA LiveType ==
  ASSUME TypeOK, NEW c \in Clients
  PROVE  /\ got[c] \in Seq(Text) /\ chan[c] \in Seq(Text) /\ Live(c) \in Seq(Text)
         /\ \A p : Sent(c, p) \subseteq Nat
<1>1. got[c] \in Seq(Text) /\ chan[c] \in Seq(Text)
  BY DEF TypeOK, Text
<1>2. Live(c) \in Seq(Text)
  BY <1>1 DEF Live
<1> QED
  BY <1>1, <1>2, NumbersType DEF Sent

(* What one round of the loop does to the lines of the client it serves. *)
LEMMA LiveDelivered ==
  ASSUME TypeOK, InputInv, NEW p \in Pumps, Deliver(p), NEW c \in Clients, c = Head(subs[p])
  PROVE  /\ cur[p][1] = p /\ cur[p][2] = Taken(p) /\ Taken(p) >= 1
         /\ Len(chan[c]) < ChanCap =>
              /\ Live(c)' = Append(Live(c), cur[p]) /\ dropped' = dropped
              /\ Sent(c, p)' = Sent(c, p) \union {Taken(p)}
              /\ \A q \in Pumps \ {p} : Sent(c, q)' = Sent(c, q)
         /\ ~(Len(chan[c]) < ChanCap) => Live(c)' = Live(c) /\ c \in dropped'
<1>1. /\ got' = got /\ pump[p] = "fan" /\ chan[c] \in Seq(Text) /\ cur[p] \in Text
      /\ Live(c) \in Seq(Text)
  BY LiveType DEF Deliver, TypeOK, Text
<1>2. cur[p][1] = p /\ cur[p][2] = Taken(p) /\ Taken(p) >= 1
  BY <1>1 DEF InputInv, InputAt, Handing, Taken
<1>3. CASE Len(chan[c]) < ChanCap
  <2>1. chan'[c] = Append(chan[c], cur[p]) /\ dropped' = dropped
    BY <1>3 DEF Deliver, TypeOK
  <2>2. Live(c)' = Append(Live(c), cur[p])
    <3>1. got[c] \in Seq(Text)
      BY LiveType
    <3>2. got[c] \o Append(chan[c], cur[p]) = Append(got[c] \o chan[c], cur[p])
      BY <1>1, <3>1, AppendConcat
    <3> QED
      BY <1>1, <2>1, <3>2 DEF Live
  <2>3. \A q : Sent(c, q)' = NumbersOf(Append(Live(c), cur[p]), q)
    BY <2>2 DEF Sent
  <2>4. \A q : NumbersOf(Append(Live(c), cur[p]), q)
                 = Sent(c, q) \union (IF cur[p][1] = q THEN {cur[p][2]} ELSE {})
    BY <1>1, NumbersAppend DEF Sent
  <2>5. \A q : Sent(c, q)' = Sent(c, q) \union (IF cur[p][1] = q THEN {cur[p][2]} ELSE {})
    BY <2>3, <2>4
  <2>6. Sent(c, p)' = Sent(c, p) \union {Taken(p)}
    BY <1>2, <2>5
  <2>7. \A q \in Pumps \ {p} : Sent(c, q)' = Sent(c, q) \union {}
    BY <1>2, <2>5
  <2> QED
    BY <1>2, <1>3, <2>1, <2>2, <2>6, <2>7
<1>4. CASE ~(Len(chan[c]) < ChanCap)
  <2>1. chan' = chan /\ c \in dropped'
    BY <1>4 DEF Deliver
  <2> QED
    BY <1>1, <1>2, <1>4, <2>1 DEF Live
<1> QED
  BY <1>3, <1>4

(* No other step sends a line to a client's channel, or takes one out but a receive. *)
LEMMA LiveElsewhere ==
  ASSUME TypeOK, [Next]_vars, NEW c \in Clients, ~Receive(c),
         ~\E p \in Pumps : Deliver(p) /\ c = Head(subs[p])
  PROVE  got'[c] = got[c] /\ chan'[c] = chan[c] /\ dropped \subseteq dropped'
<1>1. CASE \E p \in Pumps : Deliver(p)
  BY <1>1 DEF Deliver, TypeOK
<1>2. CASE \E d \in Clients : Receive(d)
  BY <1>2 DEF Receive, TypeOK
<1>3. CASE ~(\E p \in Pumps : Deliver(p)) /\ ~(\E d \in Clients : Receive(d))
  BY <1>3 DEF Next, PumpStep, ReaperStep, ClientStep, StartFails, Start, Exit, WaitReturns,
     CloseSubscribers, Write, Fill, NextLine, PumpReturns, AppendBuffer, Drain, FanOutReturns,
     Snapshot, Subscribe, EndStream, Disconnect, vars, clientVars
<1> QED
  BY <1>1, <1>2, <1>3

(* A line sent to the channel at the head of the list is the next one there; when there
   is no room the client is marked as one that missed it. *)
LEMMA LiveDeliverHead ==
  ASSUME IndInv, InputInv, [Next]_vars, NEW p \in Pumps, Deliver(p),
         NEW c \in Clients, c = Head(subs[p]), LiveAt(c)
  PROVE  LiveAt(c)'
<1>0. TypeOK /\ InputAt(p) /\ LockInv /\ HeldAreJoined /\ Taken(p) \in Nat
  BY TakenType DEF IndInv, InputInv
<1>1. /\ subs[p] \in Seq(Clients) /\ subs[p] # <<>> /\ subs'[p] = Tail(subs[p])
      /\ cur' = cur /\ got' = got /\ client' = client /\ closed' = closed
      /\ pump[p] = "fan" /\ pump'[p] \in {"fan", "stuck"} /\ chan[c] \in Seq(Text)
      /\ cur[p] \in Text
  BY <1>0 DEF Deliver, TypeOK, outVars, Text
<1>2. c \in RangeOf(subs[p]) /\ c \notin RangeOf(subs'[p])
  BY <1>1, RangeOfTail, DistinctTail DEF IndInv, ChannelsAreUnique
<1>3. c \in Joined /\ c \in Joined'
  BY <1>0, <1>1, <1>2 DEF HeldAreJoined, Joined
<1>4. Offered(p, c) = Taken(p) - 1 /\ Offered(p, c)' = Taken(p)
  BY <1>1, <1>2 DEF Offered, Taken
<1>5. cur[p][1] = p /\ cur[p][2] = Taken(p) /\ Taken(p) >= 1
  BY <1>0, LiveDelivered
<1>6. \A q \in Pumps \ {p} : Offered(q, c)' = Offered(q, c)
  <2> SUFFICES ASSUME NEW q \in Pumps \ {p} PROVE ~Drain(q) /\ ~Deliver(q)
    BY OfferedFrame
  <2>1. subMu = p
    BY <1>0, <1>1 DEF LockInv
  <2> QED
    BY <1>0, <2>1, NamesAssumption DEF LockInv, Drain, Deliver
<1>7. Live(c) \in Seq(Text) /\ \A q : Sent(c, q) \subseteq Nat
  BY <1>0, LiveType
<1>8. CASE Len(chan[c]) < ChanCap
  <2>1. /\ dropped' = dropped /\ Live(c)' = Append(Live(c), cur[p])
        /\ Sent(c, p)' = Sent(c, p) \union {Taken(p)}
        /\ \A q \in Pumps \ {p} : Sent(c, q)' = Sent(c, q)
    BY <1>0, <1>8, LiveDelivered
  <2>3. \A n \in Sent(c, p) : n \in Nat /\ n < Taken(p)
    BY <1>0, <1>4, <1>7 DEF LiveAt, LiveHas
  <2>4. Increasing(Live(c)')
    BY <1>1, <1>5, <1>7, <2>1, <2>3, IncreasingAppend DEF LiveAt, Sent
  <2>6. LiveHas(c, p)'
    <3> SUFFICES ASSUME NEW n \in Sent(c, p)'
                 PROVE  /\ n >= 1 /\ n <= Taken(p)
                        /\ c \notin dropped \union closed => n..Taken(p) \subseteq Sent(c, p)'
      BY <1>1, <1>4, <2>1 DEF LiveHas
    <3>1. CASE n = Taken(p)
      <4>1. \A m \in n..Taken(p) : m = Taken(p)
        BY <1>0, <3>1
      <4> QED
        BY <1>0, <1>5, <2>1, <3>1, <4>1
    <3>2. CASE n \in Sent(c, p)
      <4>1. /\ n >= 1 /\ n \in Nat /\ n < Taken(p)
            /\ c \notin dropped \union closed => n..(Taken(p) - 1) \subseteq Sent(c, p)
        BY <1>4, <2>3, <3>2 DEF LiveAt, LiveHas
      <4>2. \A m \in n..Taken(p) : m = Taken(p) \/ m \in n..(Taken(p) - 1)
        BY <1>0, <4>1
      <4> QED
        BY <1>0, <2>1, <4>1, <4>2
    <3> QED
      BY <2>1, <3>1, <3>2
  <2>7. \A q \in Pumps \ {p} : LiveHas(c, q)'
    BY <1>1, <1>6, <2>1 DEF LiveAt, LiveHas
  <2> QED
    BY <1>3, <2>4, <2>6, <2>7 DEF LiveAt
<1>9. CASE ~(Len(chan[c]) < ChanCap)
  <2>1. c \in dropped' \union closed' /\ Live(c)' = Live(c)
    BY <1>0, <1>9, LiveDelivered
  <2>2. LiveHas(c, p)'
    <3>1. \A n \in Sent(c, p) : n \in Nat /\ n >= 1 /\ n <= Taken(p)
      BY <1>0, <1>4, <1>7 DEF LiveAt, LiveHas
    <3> QED
      BY <1>4, <2>1, <3>1 DEF LiveHas, Sent
  <2>3. \A q \in Pumps \ {p} : LiveHas(c, q)'
    BY <1>6, <2>1, LiveFrame DEF LiveAt
  <2> QED
    BY <1>3, <2>1, <2>2, <2>3 DEF LiveAt
<1> QED
  BY <1>8, <1>9

(* A drain offers the line to the queued channels later, and to the others never: they
   are closed, or their clients have not subscribed. *)
LEMMA LiveDrain ==
  ASSUME IndInv, InputInv, [Next]_vars, NEW p \in Pumps, Drain(p), NEW c \in Clients, LiveAt(c)
  PROVE  LiveAt(c)'
<1>0. TypeOK /\ LockInv /\ JoinedAreHeld /\ Taken(p) \in Nat
  BY TakenType DEF IndInv
<1>1. /\ subMu = Nobody /\ pump[p] = "lock" /\ pump'[p] = "fan" /\ subs'[p] = subQ
      /\ UNCHANGED <<cur, got, chan, dropped, closed>> /\ client' = ReleasedClients
  BY <1>0 DEF Drain, TypeOK, outVars, ReleasedPumps
<1>2. Joined' = Joined
  BY <1>1 DEF ReleasedClients, Joined
<1>3. Live(c)' = Live(c)
  BY <1>1 DEF Live
<1>4. ASSUME NEW q \in Pumps \ {p} PROVE LiveHas(c, q)'
  <2>1. ~Drain(q) /\ ~Deliver(q)
    BY <1>0, <1>1, <1>4, NamesAssumption DEF LockInv, Drain, Deliver
  <2> QED
    BY <1>1, <1>3, <2>1, OfferedFrame, LiveFrame DEF LiveAt
<1>5. Offered(p, c) = Taken(p) - 1
  BY <1>1 DEF Offered
<1>6. Taken(p)' = Taken(p)
  BY <1>1 DEF Taken
<1>7. LiveHas(c, p)'
  <2>1. CASE c \in RangeOf(subQ)
    BY <1>1, <1>3, <1>5, <1>6, <2>1, LiveFrame DEF Offered, LiveAt
  <2>2. CASE c \notin RangeOf(subQ) /\ c \in Joined
    <3>1. \A q \in Pumps : c \notin RangeOf(subs[q])
      BY <1>0, <1>1, NamesAssumption DEF LockInv, RangeOf
    <3>2. c \in closed
      BY <1>0, <2>2, <3>1 DEF JoinedAreHeld
    <3>3. Offered(p, c)' = Taken(p)
      BY <1>1, <1>6, <2>2 DEF Offered
    <3>4. \A n \in Sent(c, p) : n \in Nat /\ n >= 1 /\ n <= Taken(p)
      BY <1>0, <1>5, LiveType DEF LiveAt, LiveHas
    <3> QED
      BY <1>1, <1>3, <3>2, <3>3, <3>4 DEF LiveHas, Sent
  <2>3. CASE c \notin Joined
    <3>1. Live(c) = <<>>
      BY <2>3 DEF LiveAt, Live
    <3>2. Sent(c, p)' = {}
      BY <1>3, <3>1, NumbersEmpty DEF Sent
    <3> QED
      BY <3>2 DEF LiveHas
  <2> QED
    BY <2>1, <2>2, <2>3
<1> QED
  BY <1>1, <1>2, <1>3, <1>4, <1>7 DEF LiveAt

(* A client that receives has the line in another place. *)
LEMMA LiveReceive ==
  ASSUME IndInv, InputInv, [Next]_vars, NEW c \in Clients, Receive(c), LiveAt(c)
  PROVE  LiveAt(c)'
<1>0. TypeOK
  BY DEF IndInv
<1>1. /\ chan[c] # <<>> /\ got'[c] = Append(got[c], Head(chan[c])) /\ chan'[c] = Tail(chan[c])
      /\ client[c] = "live" /\ UNCHANGED <<client, dropped, closed, pump, cur, subs>>
  BY <1>0 DEF Receive, TypeOK, outVars, queueVars
<1>2. Live(c)' = Live(c)
  BY <1>0, <1>1, LiveType, MoveHead DEF Live
<1>3. \A p \in Pumps : Offered(p, c)' = Offered(p, c)
  BY <1>1 DEF Offered, Taken
<1>4. c \in Joined'
  BY <1>1 DEF Joined
<1> QED
  BY <1>1, <1>2, <1>3, <1>4, LiveFrame DEF LiveAt

(* Every step keeps what each client was sent live in order and without a gap. *)
LEMMA LiveNext == ASSUME IndInv, InputInv, LiveInv, [Next]_vars PROVE LiveInv'
<1> SUFFICES ASSUME NEW c \in Clients PROVE LiveAt(c)'
  BY DEF LiveInv
<1>0. TypeOK /\ LiveAt(c)
  BY DEF IndInv, LiveInv
<1>1. CASE Receive(c) \/ \E p \in Pumps : Drain(p) \/ (Deliver(p) /\ c = Head(subs[p]))
  BY <1>0, <1>1, LiveReceive, LiveDrain, LiveDeliverHead
<1>2. CASE ~(Receive(c) \/ \E p \in Pumps : Drain(p) \/ (Deliver(p) /\ c = Head(subs[p])))
  <2>1. \A p \in Pumps : Offered(p, c)' = Offered(p, c)
    BY <1>2, OfferedFrame
  <2>2. got'[c] = got[c] /\ chan'[c] = chan[c] /\ dropped \subseteq dropped'
    BY <1>0, <1>2, LiveElsewhere
  <2>5. closed \subseteq closed'
    BY DEF Next, PumpStep, ReaperStep, ClientStep, StartFails, Start, Exit, WaitReturns,
       CloseSubscribers, Write, Fill, NextLine, PumpReturns, AppendBuffer, Drain, Deliver,
       FanOutReturns, Snapshot, Subscribe, Receive, EndStream, Disconnect, vars, clientVars
  <2>3. Joined \subseteq Joined'
    <3>1. CASE \E d \in Clients : Snapshot(d) \/ Subscribe(d) \/ EndStream(d) \/ Disconnect(d)
      BY <1>0, <3>1 DEF Snapshot, Subscribe, EndStream, Disconnect, TypeOK, Joined
    <3>2. CASE CloseSubscribers
      BY <3>2 DEF CloseSubscribers, ReleasedClients, Joined
    <3>3. CASE client' = client
      BY <3>3 DEF Joined
    <3> QED
      BY <1>2, <3>1, <3>2, <3>3
         DEF Next, PumpStep, ReaperStep, ClientStep, StartFails, Start, Exit, WaitReturns,
         Write, Fill, NextLine, PumpReturns, AppendBuffer, FanOutReturns, Deliver, Receive,
         vars, clientVars
  <2>4. Live(c)' = Live(c)
    BY <2>2 DEF Live
  <2> QED
    BY <1>0, <2>1, <2>2, <2>3, <2>4, <2>5, LiveFrame DEF LiveAt
<1> QED
  BY <1>1, <1>2

-----------------------------------------------------------------------------
(* The backfill. *)

(* A line that comes to a client's channel is the last its source's pump appended. *)
LEMMA SentGrows ==
  ASSUME IndInv, InputInv, [Next]_vars, NEW c \in Clients, NEW p \in Pumps,
         NEW n \in Sent(c, p)', n \notin Sent(c, p)
  PROVE  n = Appended(p)
<1>0. TypeOK
  BY DEF IndInv
<1>1. CASE Receive(c)
  <2>1. /\ chan[c] # <<>> /\ got'[c] = Append(got[c], Head(chan[c])) /\ chan'[c] = Tail(chan[c])
    BY <1>0, <1>1 DEF Receive, TypeOK
  <2>2. Live(c)' = Live(c)
    BY <1>0, <2>1, LiveType, MoveHead DEF Live
  <2> QED
    BY <2>2 DEF Sent
<1>2. ASSUME NEW q \in Pumps, Deliver(q), c = Head(subs[q]) PROVE n = Appended(p)
  <2>1. pump[q] = "fan" /\ Appended(q) = Taken(q)
    BY <1>2 DEF Deliver, Appended
  <2>2. CASE Len(chan[c]) < ChanCap
    <3>1. /\ Sent(c, q)' = Sent(c, q) \union {Taken(q)}
          /\ \A r \in Pumps \ {q} : Sent(c, r)' = Sent(c, r)
      BY <1>0, <1>2, <2>2, LiveDelivered
    <3> QED
      BY <2>1, <3>1
  <2>3. CASE ~(Len(chan[c]) < ChanCap)
    <3>1. Live(c)' = Live(c)
      BY <1>0, <1>2, <2>3, LiveDelivered
    <3> QED
      BY <3>1 DEF Sent
  <2> QED
    BY <2>2, <2>3
<1>3. CASE ~Receive(c) /\ ~\E q \in Pumps : Deliver(q) /\ c = Head(subs[q])
  <2>1. Live(c)' = Live(c)
    BY <1>0, <1>3, LiveElsewhere DEF Live
  <2> QED
    BY <2>1 DEF Sent
<1> QED
  BY <1>1, <1>2, <1>3

(* A backfill is a sequence of lines, as the ring it is copied from. *)
LEMMA BackType ==
  ASSUME TypeOK, NEW c \in Clients
  PROVE  /\ back[c] \in Seq(Text) /\ ring \in Seq(Text)
         /\ \A p : NumbersOf(back[c], p) \subseteq Nat /\ NumbersOf(ring, p) \subseteq Nat
<1>1. back[c] \in Seq(Text) /\ ring \in Seq(Text)
  BY DEF TypeOK, Text
<1> QED
  BY <1>1, NumbersType

(* A client whose handler reads the ring has nothing live yet. *)
LEMMA BackSnapshot ==
  ASSUME IndInv, InputInv, RingInv, LiveInv, [Next]_vars, NEW c \in Clients, Snapshot(c)
  PROVE  Increasing(back[c])' /\ \A p \in Pumps : BackHas(c, p)'
<1>0. TypeOK
  BY DEF IndInv
<1>1. /\ client[c] = "away" /\ back'[c] = ring /\ UNCHANGED <<got, chan, cur, pump>>
  BY <1>0 DEF Snapshot, TypeOK, outVars
<1>2. Live(c)' = <<>>
  <2>1. c \notin Joined
    BY <1>1 DEF Joined
  <2> QED
    BY <1>1, <2>1 DEF LiveInv, LiveAt, Live
<1>3. \A p : Sent(c, p)' = {}
  BY <1>2, NumbersEmpty DEF Sent
<1>4. \A p \in Pumps : Appended(p)' = Appended(p)
  BY <1>1 DEF Appended, Taken
<1> QED
  BY <1>1, <1>3, <1>4 DEF RingInv, RingHas, BackHas

(* Every step keeps each backfill in order and before the live lines. *)
LEMMA BackNext ==
  ASSUME IndInv, InputInv, RingInv, LiveInv, BackInv, [Next]_vars PROVE BackInv'
<1> SUFFICES ASSUME NEW c \in Clients
             PROVE  Increasing(back[c])' /\ \A p \in Pumps : BackHas(c, p)'
  BY DEF BackInv
<1>0. TypeOK
  BY DEF IndInv
<1>1. CASE Snapshot(c)
  BY <1>1, BackSnapshot
<1>2. CASE ~Snapshot(c)
  <2>1. back'[c] = back[c]
    BY <1>0, <1>2 DEF Next, PumpStep, ReaperStep, ClientStep, StartFails, Start, Exit, WaitReturns,
       CloseSubscribers, Write, Fill, NextLine, PumpReturns, AppendBuffer, Drain, Deliver,
       FanOutReturns, Snapshot, Subscribe, Receive, EndStream, Disconnect, vars, clientVars, TypeOK
  <2>2. ASSUME NEW p \in Pumps, NEW m \in NumbersOf(back[c], p)
        PROVE  m <= Appended(p)' /\ \A n \in Sent(c, p)' : m <= n
    <3>1. m \in Nat /\ Appended(p) \in Int /\ m <= Appended(p) /\ \A n \in Sent(c, p) : m <= n
      BY <1>0, <2>2, BackType, AppendedType DEF BackInv, BackHas
    <3>2. TypeOK'
      BY <1>0, TypeNext
    <3>3. Appended(p)' \in Int
      <4>1. cur'[p] = NoLine \/ cur'[p] \in Line
        BY <3>2 DEF TypeOK
      <4>2. cur'[p][2] \in Nat
        BY <4>1 DEF Line, NoLine
      <4> QED
        BY <4>2 DEF Appended, Taken
    <3>4. Appended(p) <= Appended(p)'
      BY AppendedGrows
    <3>5. m <= Appended(p)'
      BY <3>1, <3>3, <3>4
    <3>6. \A n \in Sent(c, p)' : n \in Sent(c, p) \/ n = Appended(p)
      BY SentGrows
    <3> QED
      BY <3>1, <3>5, <3>6
  <2> QED
    BY <2>1, <2>2 DEF BackInv, BackHas
<1> QED
  BY <1>1, <1>2

-----------------------------------------------------------------------------
(* The invariant, and what it says of the stream. *)

(* The output invariant holds before the process has written. *)
LEMMA OutputInit == Init => OutputInv
<1> SUFFICES ASSUME Init PROVE OutputInv
  OBVIOUS
<1>1. TypeOK
  BY TypeInit
<1>2. InputInv
  <2> SUFFICES ASSUME NEW p \in Pumps PROVE InputAt(p)
    BY DEF InputInv
  <2>1. /\ wrote[p] = 0 /\ Taken(p) = 0 /\ bufio[p] = <<>> /\ pipe[p] = <<>> /\ ~Handing(p)
    BY DEF Init, Taken, Handing, NoLine
  <2> QED
    BY <2>1 DEF InputAt
<1>3. RingInv
  <2>1. ring = <<>> /\ Len(ring) <= RingCap
    BY CapacitiesAssumption DEF Init
  <2> QED
    BY <2>1, NumbersEmpty DEF RingInv, RingHas, Increasing
<1>4. ASSUME NEW c \in Clients
      PROVE  /\ LiveAt(c) /\ Increasing(back[c]) /\ \A p \in Pumps : BackHas(c, p)
  <2>1. got[c] = <<>> /\ chan[c] = <<>> /\ back[c] = <<>>
    BY <1>4 DEF Init
  <2>2. Live(c) = <<>>
    BY <2>1 DEF Live
  <2> QED
    BY <2>1, <2>2, NumbersEmpty DEF LiveAt, LiveHas, BackHas, Sent, Increasing
<1> QED
  BY <1>2, <1>3, <1>4 DEF OutputInv, LiveInv, BackInv

(* Every step keeps the output invariant. *)
LEMMA OutputNext == IndInv /\ OutputInv /\ [Next]_vars => OutputInv'
BY InputNext, RingNext, LiveNext, BackNext DEF OutputInv

(* In every reachable state of appendBuffer, the pumps and the subscribers, whatever the number
   of clients and the capacities, lines are where the output invariant says. *)
THEOREM OutputInvariant == Spec => [](IndInv /\ OutputInv)
BY IndInit, IndNext, OutputInit, OutputNext, PTL DEF Spec

(* What a client is shown, backfill first, is in the order the process wrote it. *)
LEMMA InOrder == IndInv /\ OutputInv => StreamInOrder
<1> SUFFICES ASSUME IndInv, OutputInv, NEW c \in Clients
             PROVE  /\ Increasing(back[c]) /\ Increasing(Live(c))
                    /\ \A p \in Pumps : Cardinality(NumbersOf(back[c], p) \cap Sent(c, p)) <= 1
  BY DEF StreamInOrder, Live, Sent
<1>1. Increasing(back[c]) /\ Increasing(Live(c))
  BY DEF OutputInv, LiveInv, LiveAt, BackInv
<1>2. ASSUME NEW p \in Pumps PROVE Cardinality(NumbersOf(back[c], p) \cap Sent(c, p)) <= 1
  <2> DEFINE both == NumbersOf(back[c], p) \cap Sent(c, p)
  <2>1. TypeOK
    BY DEF IndInv
  <2>2. \A m, n \in both : m \in Nat /\ n \in Nat /\ m <= n
    BY <2>1, BackType DEF OutputInv, BackInv, BackHas
  <2>3. \A m, n \in both : m = n
    BY <2>2
  <2>4. both = {} \/ \E n : both = {n}
    BY <2>3
  <2>5. Cardinality(both) = 0 \/ Cardinality(both) = 1
    BY <2>4, FS_EmptySet, FS_Singleton
  <2> QED
    BY <2>5
<1> QED
  BY <1>1, <1>2

(* A client that was not cut off has every line since its first live one. *)
LEMMA NoGap == IndInv /\ OutputInv => NoGapOnceLive
<1> SUFFICES ASSUME IndInv, OutputInv, NEW c \in Joined, c \notin dropped \union closed,
                    NEW p \in Pumps, NEW n \in Sent(c, p)
             PROVE  n..FannedOut(p) \subseteq Sent(c, p)
  BY DEF NoGapOnceLive, Live, Sent
<1>1. TypeOK /\ LockInv /\ c \in Clients
  BY DEF IndInv, Joined
<1>2. n \in Nat /\ n..Offered(p, c) \subseteq Sent(c, p)
  BY <1>1, LiveType DEF OutputInv, LiveInv, LiveAt, LiveHas
<1>3. Taken(p) \in Nat /\ Offered(p, c) \in Int /\ Taken(p) - 1 <= Offered(p, c)
  BY <1>1, TakenType, OfferedType
<1>4. FannedOut(p) \in Int /\ FannedOut(p) <= Offered(p, c)
  <2>1. CASE Handing(p)
    <3>1. FannedOut(p) = Taken(p) - 1
      BY <2>1 DEF FannedOut, Handing, Taken
    <3> QED
      BY <1>3, <3>1
  <2>2. CASE ~Handing(p)
    <3>1. subs[p] = <<>>
      BY <1>1, <2>2 DEF LockInv, Handing
    <3>2. c \notin RangeOf(subs[p])
      BY <3>1 DEF RangeOf
    <3>3. FannedOut(p) = Taken(p) /\ Offered(p, c) = Taken(p)
      BY <2>2, <3>2 DEF FannedOut, Handing, Offered, Taken
    <3> QED
      BY <1>3, <3>3
  <2> QED
    BY <2>1, <2>2
<1>5. n..FannedOut(p) \subseteq n..Offered(p, c)
  BY <1>2, <1>3, <1>4
<1> QED
  BY <1>2, <1>5

(* Lines of one source in a row, the second sequence following the first. *)
LEMMA ConsecutiveLines ==
  ASSUME NEW s \in Seq(Line), NEW t \in Seq(Line), NEW k \in Nat, NEW p,
         \A i \in 1..Len(s) : s[i] = <<p, k + i>>,
         \A i \in 1..Len(t) : t[i] = <<p, k + Len(s) + i>>
  PROVE  /\ Increasing(s \o t)
         /\ NumbersOf(s \o t, p) = (k + 1)..(k + Len(s) + Len(t))
<1> DEFINE u == s \o t
<1>1. PICK a \in Nat, b \in Nat : a = Len(s) /\ b = Len(t)
  OBVIOUS
<1>2. /\ DOMAIN u = 1..a + b
      /\ \A i \in 1..a : u[i] = s[i]
      /\ \A i \in 1..b : u[a + i] = t[i]
  BY <1>1
<1> HIDE DEF u
<1>3. ASSUME NEW i \in 1..a + b PROVE u[i] = <<p, k + i>>
  <2>1. CASE i \in 1..a
    BY <1>1, <1>2, <2>1
  <2>2. CASE i \notin 1..a
    <3>1. i - a \in 1..b /\ i = a + (i - a) /\ k + a + (i - a) = k + i
      BY <2>2
    <3>2. u[a + (i - a)] = t[i - a] /\ t[i - a] = <<p, k + a + (i - a)>>
      BY <1>1, <1>2, <3>1
    <3> QED
      BY <3>1, <3>2
  <2> QED
    BY <2>1, <2>2
<1>4. Increasing(u)
  <2>1. \A i, j \in 1..a + b : i < j => k + i < k + j
    OBVIOUS
  <2> QED
    BY <1>2, <1>3, <2>1 DEF Increasing
<1>5. NumbersOf(u, p) = (k + 1)..(k + a + b)
  <2>1. \A i \in 1..a + b : u[i][1] = p /\ u[i][2] = k + i
    BY <1>3
  <2>2. {i \in DOMAIN u : u[i][1] = p} = 1..a + b
    BY <1>2, <2>1
  <2>3. NumbersOf(u, p) = {u[i][2] : i \in 1..a + b}
    BY <2>2 DEF NumbersOf
  <2>4. ASSUME NEW n \in NumbersOf(u, p) PROVE n \in (k + 1)..(k + a + b)
    <3>1. PICK i \in 1..a + b : n = u[i][2]
      BY <2>3, <2>4
    <3>2. n = k + i
      BY <2>1, <3>1
    <3> QED
      BY <3>2
  <2>5. ASSUME NEW n \in (k + 1)..(k + a + b) PROVE n \in NumbersOf(u, p)
    <3>1. n - k \in 1..a + b /\ n = k + (n - k)
      BY <2>5
    <3>2. u[n - k][2] = n
      BY <2>1, <3>1
    <3> QED
      BY <2>3, <3>1, <3>2
  <2> QED
    BY <2>4, <2>5
<1> QED
  BY <1>1, <1>4, <1>5 DEF u

(* The ring holds the last lines of the process, in order. *)
LEMMA Recent == IndInv /\ OutputInv => RingIsRecent
<1> SUFFICES ASSUME IndInv, OutputInv, NEW p \in Pumps
             PROVE  /\ Len(ring) <= RingCap /\ Increasing(ring)
                    /\ \A n \in NumbersOf(ring, p) : n..Appended(p) \subseteq NumbersOf(ring, p)
                                                      /\ n <= Appended(p)
                    /\ Increasing(bufio[p] \o pipe[p])
                    /\ proc # "reaped" => NumbersOf(bufio[p] \o pipe[p], p) = (Taken(p) + 1)..wrote[p]
  BY DEF RingIsRecent, Appended, Taken, OutputInv, RingInv
<1>1. /\ InputAt(p) /\ Taken(p) \in Nat
      /\ bufio[p] \in Seq(Line) /\ pipe[p] \in Seq(Line)
  BY TakenType DEF IndInv, OutputInv, InputInv, TypeOK
<1>2. /\ Increasing(bufio[p] \o pipe[p])
      /\ NumbersOf(bufio[p] \o pipe[p], p)
           = (Taken(p) + 1)..(Taken(p) + Len(bufio[p]) + Len(pipe[p]))
  <2> DEFINE s == bufio[p]
             t == pipe[p]
             k == Taken(p)
  <2>1. /\ s \in Seq(Line) /\ t \in Seq(Line) /\ k \in Nat
        /\ \A i \in 1..Len(s) : s[i] = <<p, k + i>>
        /\ \A i \in 1..Len(t) : t[i] = <<p, k + Len(s) + i>>
    BY <1>1 DEF InputAt
  <2> HIDE DEF s, t, k
  <2>2. /\ Increasing(s \o t)
        /\ NumbersOf(s \o t, p) = (k + 1)..(k + Len(s) + Len(t))
    BY <2>1, ConsecutiveLines
  <2> QED
    BY <2>2 DEF s, t, k
<1>3. proc # "reaped" => Taken(p) + Len(bufio[p]) + Len(pipe[p]) = wrote[p]
  BY <1>1 DEF InputAt
<1> QED
  BY <1>2, <1>3 DEF OutputInv, RingInv, RingHas

(* What a client is sent is the job's output, in order, from its first live line on
   without gap, after the last lines of it: for any sources, clients and capacities. *)
THEOREM StreamWhole == Spec => []StreamIsWhole
<1>1. IndInv /\ OutputInv => StreamIsWhole
  BY InOrder, NoGap, Recent DEF StreamIsWhole
<1> QED
  BY <1>1, OutputInvariant, PTL

-----------------------------------------------------------------------------
(* The refinement of StreamContract. *)

(* The reaper is born with the child, goes on when the child is reaped, and is the only
   one that closes channels, as the last thing it does. *)
ReaperInv == /\ reap = "unborn" <=> proc \in {"starting", "failed"}
             /\ reap \in {"close", "end"} <=> proc = "reaped"
             /\ closed # {} => reap = "end"

(* Of the lines of a source a client was sent, one is the last: Shown chooses it. *)
HasLast(S) == S = {} \/ \E n \in S : \A m \in S : m <= n

LastInv == \A c \in Clients, p \in Pumps : HasLast(NumbersOf(got[c], p))

ContractInv == IndInv /\ OutputInv /\ ReaperInv /\ LastInv

(* A client that receives is sent a line later than those of its source before. *)
LEMMA ReceiveIsLater ==
  ASSUME IndInv, OutputInv, NEW c \in Clients, Receive(c), NEW p \in Pumps
  PROVE  LET e == Head(chan[c])
         IN  /\ e[1] # p => NumbersOf(got'[c], p) = NumbersOf(got[c], p)
             /\ e[1] = p => /\ NumbersOf(got'[c], p) = NumbersOf(got[c], p) \union {e[2]}
                            /\ e[2] \in Nat /\ e[2] >= 1 /\ e[2] <= wrote[p]
                            /\ \A m \in NumbersOf(got[c], p) : m \in Nat /\ m < e[2]
<1> DEFINE e == Head(chan[c])
<1>1. /\ TypeOK /\ chan[c] # <<>> /\ got'[c] = Append(got[c], e)
      /\ got[c] \in Seq(Text) /\ chan[c] \in Seq(Text)
  BY LiveType DEF Receive, IndInv, TypeOK
<1>2. Increasing(got[c] \o chan[c]) /\ LiveHas(c, p) /\ InputAt(p)
  BY DEF OutputInv, LiveInv, LiveAt, Live, InputInv
<1>3. /\ e \in Text /\ e[2] \in NumbersOf(got[c] \o chan[c], e[1])
      /\ \A n \in NumbersOf(got[c], e[1]) : n < e[2]
  BY <1>1, <1>2, HeadComesAfter
<1> HIDE DEF e
<1>4. NumbersOf(got'[c], p) = NumbersOf(got[c], p) \union (IF e[1] = p THEN {e[2]} ELSE {})
  <2>1. NumbersOf(Append(got[c], e), p) = NumbersOf(got[c], p) \union (IF e[1] = p THEN {e[2]} ELSE {})
    BY <1>1, <1>3, NumbersAppend
  <2> QED
    BY <1>1, <2>1
<1>5. ASSUME e[1] = p
      PROVE  /\ e[2] \in Nat /\ e[2] >= 1 /\ e[2] <= wrote[p]
             /\ \A m \in NumbersOf(got[c], p) : m \in Nat /\ m < e[2]
  <2>1. e[2] \in Sent(c, p)
    BY <1>3, <1>5 DEF Sent, Live
  <2>2. e[2] \in Nat /\ e[2] >= 1 /\ e[2] <= Offered(p, c)
    BY <1>1, <1>2, <2>1, LiveType DEF LiveHas
  <2>3. Offered(p, c) \in Int /\ Offered(p, c) <= Taken(p) /\ Taken(p) \in Nat
    BY <1>1, OfferedType, TakenType
  <2>4. Taken(p) <= wrote[p] /\ wrote[p] \in Nat
    <3>1. /\ wrote[p] \in Nat /\ Len(bufio[p]) \in Nat /\ Len(pipe[p]) \in Nat
      BY <1>1 DEF TypeOK
    <3>2. Taken(p) + Len(bufio[p]) + Len(pipe[p]) <= wrote[p]
      BY <1>2 DEF InputAt
    <3> QED
      BY <2>3, <3>1, <3>2
  <2>5. \A m \in NumbersOf(got[c], p) : m \in Nat /\ m < e[2]
    BY <1>1, <1>3, <1>5, NumbersType
  <2> QED
    BY <2>2, <2>3, <2>4, <2>5
<1> QED
  BY <1>4, <1>5 DEF e

(* The later line is the last one. *)
LEMMA ShownLast ==
  ASSUME NEW S \in SUBSET Nat, NEW n \in Nat, \A m \in S : m < n
  PROVE  (CHOOSE k \in S \union {n} : \A m \in S \union {n} : m <= k) = n
<1> DEFINE T == S \union {n}
<1>1. n \in T /\ \A m \in T : m \in Nat /\ m <= n
  OBVIOUS
<1> HIDE DEF T
<1>2. \A k \in T : (\A m \in T : m <= k) => k = n
  BY <1>1
<1>3. (CHOOSE k \in T : \A m \in T : m <= k) = n
  BY <1>1, <1>2
<1> QED
  BY <1>3 DEF T

(* The reaper's place and the state of the process agree after every step. *)
LEMMA ReaperNext == ASSUME TypeOK, ReaperInv, [Next]_vars PROVE ReaperInv'
<1>1. CASE StartFails \/ Start \/ Exit \/ WaitReturns \/ CloseSubscribers
  BY <1>1 DEF StartFails, Start, Exit, WaitReturns, CloseSubscribers, ReaperInv, clientVars,
              TypeOK
<1>2. CASE UNCHANGED <<proc, reap, closed>>
  BY <1>2 DEF ReaperInv
<1> QED
  BY <1>1, <1>2 DEF Next, PumpStep, ReaperStep, ClientStep, Write, Fill, NextLine, PumpReturns,
     AppendBuffer, Drain, Deliver, FanOutReturns, Snapshot, Subscribe, Receive, EndStream,
     Disconnect, vars, clientVars

(* A client that received lines of a source has a last one. *)
LEMMA LastNext == ASSUME IndInv, OutputInv, LastInv, [Next]_vars PROVE LastInv'
<1> SUFFICES ASSUME NEW c \in Clients, NEW p \in Pumps PROVE HasLast(NumbersOf(got'[c], p))
  BY DEF LastInv
<1>1. HasLast(NumbersOf(got[c], p))
  BY DEF LastInv
<1>2. CASE Receive(c)
  <2> DEFINE n == Head(chan[c])[2]
  <2>1. CASE Head(chan[c])[1] = p
    <3>1. /\ NumbersOf(got'[c], p) = NumbersOf(got[c], p) \union {n} /\ n \in Nat
          /\ \A m \in NumbersOf(got[c], p) : m \in Nat /\ m < n
      BY <1>2, <2>1, ReceiveIsLater
    <3>2. \A m \in NumbersOf(got'[c], p) : m <= n
      BY <3>1
    <3> QED
      BY <3>1, <3>2 DEF HasLast
  <2>2. CASE Head(chan[c])[1] # p
    BY <1>1, <1>2, <2>2, ReceiveIsLater
  <2> QED
    BY <2>1, <2>2
<1>3. CASE ~Receive(c)
  <2>1. got'[c] = got[c]
    BY <1>3 DEF IndInv, TypeOK, Next, PumpStep, ReaperStep, ClientStep, StartFails, Start, Exit,
       WaitReturns, CloseSubscribers, Write, Fill, NextLine, PumpReturns, AppendBuffer, Drain, Deliver,
       FanOutReturns, Snapshot, Subscribe, Receive, EndStream, Disconnect, vars, clientVars
  <2> QED
    BY <1>1, <2>1
<1> QED
  BY <1>2, <1>3

(* The state of the contract, as KeepsContract reads it off the job. *)
JobNow    == IF proc \in {"starting", "failed"} THEN "pending"
             ELSE IF reap # "end" THEN "running" ELSE "over"
StreamAt(at) == CASE at \in {"away", "snapped"} -> "absent"
                  [] at \in {"joining", "live"} -> "open"
                  [] at = "ended" -> "ended"
                  [] at = "gone"  -> "left"
StreamNow == [c \in Clients |-> StreamAt(client[c])]
ShownNow  == [c \in Clients |-> [p \in Pumps |-> Shown(got[c], p)]]

(* The job before its start is the contract's initial state. *)
LEMMA ContractInit == Init => Contract!Init
<1> SUFFICES ASSUME Init PROVE Contract!Init
  OBVIOUS
<1>1. JobNow = "pending" /\ wrote = [p \in Pumps |-> 0]
  BY DEF Init, JobNow
<1>2. StreamNow = [c \in Clients |-> "absent"]
  <2>1. StreamAt("away") = "absent"
    BY DEF StreamAt
  <2> QED
    BY <2>1 DEF Init, StreamNow
<1>3. ShownNow = [c \in Clients |-> [p \in Pumps |-> 0]]
  <2>1. \A c \in Clients : got[c] = <<>>
    BY DEF Init
  <2>2. \A c \in Clients, p \in Pumps : Shown(got[c], p) = 0
    BY <2>1, NumbersEmpty DEF Shown
  <2> QED
    BY <2>2 DEF ShownNow
<1> QED
  BY <1>1, <1>2, <1>3 DEF Contract!Init, JobNow, StreamNow, StreamAt, ShownNow

(* A step that moves no client and shows it nothing leaves its stream as it was. *)
LEMMA ShownFrame == got' = got => ShownNow' = ShownNow
BY DEF ShownNow

(* Letting the clients go that wait for the lock changes no stream of the contract. *)
LEMMA StreamReleased ==
  ASSUME TypeOK, client' = ReleasedClients \/ client' = client PROVE StreamNow' = StreamNow
<1>1. CASE client' = client
  BY <1>1 DEF StreamNow
<1>2. CASE client' = ReleasedClients
  <2>1. \A c \in Clients : /\ client[c] = "joining" => client'[c] = "live"
                           /\ client[c] # "joining" => client'[c] = client[c]
    BY <1>2 DEF ReleasedClients
  <2>2. \A c \in Clients : client[c] \in {"away", "snapped", "joining", "live", "ended", "gone"}
    BY DEF TypeOK
  <2>3. \A c \in Clients : StreamAt(client'[c]) = StreamAt(client[c])
    BY <2>1, <2>2 DEF StreamAt
  <2> QED
    BY <2>3 DEF StreamNow
<1> QED
  BY <1>1, <1>2

(* Starting the process begins the job of the contract. *)
LEMMA ContractStart ==
  ASSUME ContractInv, Start PROVE Contract!Begin
<1>1. JobNow = "pending" /\ JobNow' = "running" /\ wrote' = wrote
  BY DEF Start, JobNow, outVars
<1>2. StreamNow' = StreamNow /\ ShownNow' = ShownNow
  BY ShownFrame, StreamReleased DEF Start, clientVars, ContractInv, IndInv
<1> QED
  BY <1>1, <1>2 DEF Contract!Begin, JobNow, StreamNow, StreamAt, ShownNow

(* A client that moves from one place in its handler to another moves its stream only. *)
LEMMA StreamMoves ==
  ASSUME TypeOK, NEW c \in Clients, NEW at, client' = [client EXCEPT ![c] = at]
  PROVE  StreamNow' = [StreamNow EXCEPT ![c] = StreamAt(at)]
BY DEF StreamNow, TypeOK

(* A step that changes nothing the contract sees is a stutter of it. *)
LEMMA ContractQuiet ==
  ASSUME wrote' = wrote, JobNow' = JobNow, StreamNow' = StreamNow, ShownNow' = ShownNow
  PROVE  UNCHANGED Contract!vars
BY DEF Contract!vars, JobNow, StreamNow, StreamAt, ShownNow

(* Closing the subscribers' channels finishes the job of the contract. *)
LEMMA ContractFinish ==
  ASSUME ContractInv, CloseSubscribers PROVE Contract!Finish
<1>1. JobNow = "running" /\ JobNow' = "over" /\ wrote' = wrote
  BY DEF ContractInv, ReaperInv, CloseSubscribers, JobNow, outVars
<1>2. StreamNow' = StreamNow /\ ShownNow' = ShownNow
  BY ShownFrame, StreamReleased DEF CloseSubscribers, ContractInv, IndInv
<1> QED
  BY <1>1, <1>2 DEF Contract!Finish, JobNow, StreamNow, StreamAt, ShownNow

(* A write of the process produces a line of the contract. *)
LEMMA ContractProduce ==
  ASSUME ContractInv, NEW p \in Pumps, Write(p) PROVE Contract!Produce(p)
<1>1. JobNow = "running" /\ JobNow' = JobNow /\ wrote' = [wrote EXCEPT ![p] = @ + 1]
  BY DEF ContractInv, ReaperInv, Write, JobNow
<1>2. StreamNow' = StreamNow /\ ShownNow' = ShownNow
  BY ShownFrame, StreamReleased DEF Write, clientVars, ContractInv, IndInv
<1> QED
  BY <1>1, <1>2 DEF Contract!Produce, JobNow, StreamNow, StreamAt, ShownNow

(* Subscribing opens a stream of the contract. *)
LEMMA ContractOpen ==
  ASSUME ContractInv, NEW c \in Clients, Subscribe(c) PROVE Contract!Open(c)
<1>1. JobNow' = JobNow /\ wrote' = wrote /\ ShownNow' = ShownNow
  BY ShownFrame DEF Subscribe, JobNow, outVars
<1>2. StreamNow[c] = "absent"
  BY DEF Subscribe, StreamNow, StreamAt
<1>3. StreamNow' = [StreamNow EXCEPT ![c] = "open"]
  <2>1. PICK at \in {"live", "joining"} : client' = [client EXCEPT ![c] = at]
    BY DEF Subscribe
  <2>2. StreamAt(at) = "open"
    BY <2>1 DEF StreamAt
  <2> QED
    BY <2>1, <2>2, StreamMoves DEF ContractInv, IndInv
<1> QED
  BY <1>1, <1>2, <1>3 DEF Contract!Open, JobNow, StreamNow, StreamAt, ShownNow

(* The server ends a stream only after the reaper has closed its channel. *)
LEMMA ContractEnd ==
  ASSUME ContractInv, NEW c \in Clients, EndStream(c) PROVE Contract!End(c)
<1>1. JobNow' = JobNow /\ wrote' = wrote /\ ShownNow' = ShownNow
  BY ShownFrame DEF EndStream, JobNow, outVars
<1>2. JobNow = "over" /\ StreamNow[c] = "open"
  BY DEF EndStream, StreamNow, StreamAt, ContractInv, ReaperInv, JobNow
<1>3. StreamNow' = [StreamNow EXCEPT ![c] = "ended"]
  <2>1. client' = [client EXCEPT ![c] = "ended"] /\ StreamAt("ended") = "ended"
    BY DEF EndStream, StreamAt
  <2> QED
    BY <2>1, StreamMoves DEF ContractInv, IndInv
<1> QED
  BY <1>1, <1>2, <1>3 DEF Contract!End, JobNow, StreamNow, StreamAt, ShownNow

(* A client that disconnects leaves its stream of the contract. *)
LEMMA ContractLeave ==
  ASSUME ContractInv, NEW c \in Clients, Disconnect(c) PROVE Contract!Leave(c)
<1>1. JobNow' = JobNow /\ wrote' = wrote /\ ShownNow' = ShownNow
  BY ShownFrame DEF Disconnect, JobNow, outVars
<1>2. StreamNow[c] = "open"
  BY DEF Disconnect, StreamNow, StreamAt
<1>3. StreamNow' = [StreamNow EXCEPT ![c] = "left"]
  <2>1. client' = [client EXCEPT ![c] = "gone"] /\ StreamAt("gone") = "left"
    BY DEF Disconnect, StreamAt
  <2> QED
    BY <2>1, StreamMoves DEF ContractInv, IndInv
<1> QED
  BY <1>1, <1>2, <1>3 DEF Contract!Leave, JobNow, StreamNow, StreamAt, ShownNow

(* A received line is one its source has written, later than the last one shown. *)
LEMMA ContractShow ==
  ASSUME ContractInv, NEW c \in Clients, Receive(c), NEW p \in Pumps, Head(chan[c])[1] = p
  PROVE  Contract!Show(c, p)
<1> DEFINE n == Head(chan[c])[2]
           S == NumbersOf(got[c], p)
<1>1. /\ NumbersOf(got'[c], p) = S \union {n} /\ n \in Nat /\ n >= 1 /\ n <= wrote[p]
      /\ \A m \in S : m \in Nat /\ m < n
      /\ \A q \in Pumps \ {p} : NumbersOf(got'[c], q) = NumbersOf(got[c], q)
  BY ReceiveIsLater DEF ContractInv
<1>2. /\ HasLast(S) /\ TypeOK /\ wrote[p] \in Nat
  BY DEF ContractInv, LastInv, IndInv, TypeOK
<1> HIDE DEF n, S
<1>3. Shown(got'[c], p) = n
  <2>1. NumbersOf(got'[c], p) # {} /\ S \in SUBSET Nat
    BY <1>1
  <2> QED
    BY <1>1, <2>1, ShownLast DEF Shown
<1>4. Shown(got[c], p) \in Nat /\ Shown(got[c], p) < n
  <2>1. CASE S = {}
    BY <1>1, <2>1 DEF Shown, S
  <2>2. CASE S # {}
    <3>1. Shown(got[c], p) = CHOOSE k \in S : \A m \in S : m <= k
      BY <2>2 DEF Shown, S
    <3>2. Shown(got[c], p) \in S
      BY <1>2, <2>2, <3>1 DEF HasLast
    <3> QED
      BY <1>1, <3>2
  <2> QED
    BY <2>1, <2>2
<1>5. \A q \in Pumps \ {p} : Shown(got'[c], q) = Shown(got[c], q)
  <2> SUFFICES ASSUME NEW q \in Pumps \ {p} PROVE Shown(got'[c], q) = Shown(got[c], q)
    OBVIOUS
  <2>1. NumbersOf(got'[c], q) = NumbersOf(got[c], q)
    BY <1>1
  <2> QED
    BY <2>1 DEF Shown
<1>6. got' = [got EXCEPT ![c] = got'[c]]
  BY <1>2 DEF Receive, TypeOK
<1>7. ShownNow' = [ShownNow EXCEPT ![c][p] = n]
  <2> DEFINE Row(g) == [q \in Pumps |-> Shown(g, q)]
  <2>1. Row(got'[c]) = [Row(got[c]) EXCEPT ![p] = n]
    BY <1>3, <1>5
  <2>2. \A d \in Clients \ {c} : got'[d] = got[d]
    BY <1>2, <1>6 DEF TypeOK
  <2>3. ShownNow = [d \in Clients |-> Row(got[d])] /\ ShownNow' = [d \in Clients |-> Row(got'[d])]
    BY DEF ShownNow
  <2> HIDE DEF Row
  <2>4. ShownNow' = [ShownNow EXCEPT ![c] = [Row(got[c]) EXCEPT ![p] = n]]
    BY <2>1, <2>2, <2>3
  <2>5. ShownNow[c] = Row(got[c])
    BY <2>3
  <2> QED
    BY <2>4, <2>5
<1>8. n \in (ShownNow[c][p] + 1)..wrote[p]
  <2>1. ShownNow[c][p] = Shown(got[c], p)
    BY DEF ShownNow
  <2> QED
    BY <1>1, <1>2, <1>4, <2>1
<1>9. JobNow' = JobNow /\ wrote' = wrote /\ StreamNow' = StreamNow /\ StreamNow[c] = "open"
  BY DEF Receive, JobNow, outVars, StreamNow, StreamAt
<1> QED
  BY <1>7, <1>8, <1>9 DEF Contract!Show, JobNow, StreamNow, StreamAt, ShownNow

(* Every step of the job, its pumps, its reaper and the handlers is a step of the
   contract or changes nothing the clients see. *)
LEMMA ContractStep ==
  ASSUME ContractInv, [Next]_vars PROVE [Contract!Next]_(Contract!vars)
<1>0. TypeOK
  BY DEF ContractInv, IndInv
<1>1. CASE Start
  BY <1>1, ContractStart DEF Contract!Next
<1>2. CASE CloseSubscribers
  BY <1>2, ContractFinish DEF Contract!Next
<1>3. ASSUME NEW p \in Pumps, Write(p) PROVE Contract!Next
  BY <1>3, ContractProduce DEF Contract!Next
<1>4. ASSUME NEW c \in Clients, Subscribe(c) \/ EndStream(c) \/ Disconnect(c) PROVE Contract!Next
  BY <1>4, ContractOpen, ContractEnd, ContractLeave DEF Contract!Next
<1>5. ASSUME NEW c \in Clients, Receive(c) PROVE Contract!Next \/ UNCHANGED Contract!vars
  <2>1. CASE Head(chan[c])[1] \in Pumps
    BY <1>5, <2>1, ContractShow DEF Contract!Next
  <2>2. CASE Head(chan[c])[1] \notin Pumps
    <3>1. \A p \in Pumps : NumbersOf(got'[c], p) = NumbersOf(got[c], p)
      BY <1>5, <2>2, ReceiveIsLater DEF ContractInv
    <3>2. \A d \in Clients \ {c} : got'[d] = got[d]
      BY <1>0, <1>5 DEF Receive, TypeOK
    <3>3. \A d \in Clients, p \in Pumps : NumbersOf(got'[d], p) = NumbersOf(got[d], p)
      BY <3>1, <3>2
    <3>4. ASSUME NEW d \in Clients, NEW p \in Pumps PROVE Shown(got'[d], p) = Shown(got[d], p)
      <4>1. NumbersOf(got'[d], p) = NumbersOf(got[d], p)
        BY <3>3
      <4> QED
        BY <4>1 DEF Shown
    <3>5. ShownNow' = ShownNow
      BY <3>4 DEF ShownNow
    <3> QED
      BY <1>5, <3>5, ContractQuiet DEF Receive, JobNow, outVars, StreamNow
  <2> QED
    BY <2>1, <2>2
<1>6. ASSUME NEW c \in Clients, Snapshot(c) PROVE UNCHANGED Contract!vars
  <2>1. client' = [client EXCEPT ![c] = "snapped"] /\ StreamNow[c] = StreamAt("snapped")
    BY <1>6 DEF Snapshot, StreamNow, StreamAt
  <2>2. StreamNow' = StreamNow
    BY <1>0, <2>1, StreamMoves DEF StreamNow
  <2> QED
    BY <1>6, <2>2, ShownFrame, ContractQuiet DEF Snapshot, JobNow, outVars
<1>7. ASSUME NEW p \in Pumps, PumpStep(p) PROVE UNCHANGED Contract!vars
  <2>1. UNCHANGED <<proc, reap, wrote, got>> /\ (client' = ReleasedClients \/ client' = client)
    BY <1>7 DEF PumpStep, Fill, NextLine, PumpReturns, AppendBuffer, Drain, Deliver, FanOutReturns,
                outVars, clientVars
  <2> QED
    BY <1>0, <2>1, ShownFrame, StreamReleased, ContractQuiet DEF JobNow
<1>8. CASE StartFails \/ Exit \/ WaitReturns \/ UNCHANGED vars
  <2>1. UNCHANGED <<wrote, got, client>> /\ JobNow' = JobNow
    BY <1>8 DEF StartFails, Exit, WaitReturns, vars, outVars, clientVars, JobNow
  <2> QED
    BY <1>0, <2>1, ShownFrame, StreamReleased, ContractQuiet
<1> QED
  BY <1>1, <1>2, <1>3, <1>4, <1>5, <1>6, <1>7, <1>8 DEF Next, ReaperStep, ClientStep

(* What the refinement rests on holds at the start. *)
LEMMA ContractInvInit == Init => ContractInv
<1> SUFFICES ASSUME Init PROVE ContractInv
  OBVIOUS
<1>1. ReaperInv
  BY DEF Init, ReaperInv
<1>2. LastInv
  <2>1. \A c \in Clients : got[c] = <<>>
    BY DEF Init
  <2> QED
    BY <2>1, NumbersEmpty DEF LastInv, HasLast
<1> QED
  BY <1>1, <1>2, IndInit, OutputInit DEF ContractInv

(* What the refinement rests on is kept by every step. *)
LEMMA ContractInvNext == ContractInv /\ [Next]_vars => ContractInv'
BY IndNext, OutputNext, ReaperNext, LastNext DEF ContractInv, IndInv

(* The job's goroutines, ring, lock and channels keep what StreamContract promises:
   lines in the order written, none twice or unwritten, no end before the job is over. *)
THEOREM KeepsTheContract == Spec => KeepsContract
<1>1. Init => Contract!Init
  BY ContractInit
<1>2. ContractInv /\ [Next]_vars => [Contract!Next]_(Contract!vars)
  BY ContractStep
<1> QED
  BY <1>1, <1>2, ContractInvInit, ContractInvNext, PTL DEF Spec, KeepsContract, Contract!Spec
=============================================================================
