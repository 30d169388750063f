------------------------------- MODULE JobStream --------------------------------
(* How the output of one job reaches its stream clients: bake/mesh-agent/job.go
   (the pumps, the ring buffer, the subscription channel, the reaper's close) and
   the stream branch of handleJob in server.go.

   A line is <<source, n>>: the n-th line a source (stdout or stderr) wrote. The
   Go channel j.subscribe is the single sequence subQ: its first SubCap elements
   are the channel's buffer, the ones beyond are the values of blocked senders, in
   the order they blocked; the channel of a client is named by the client. A drain
   (subscriptions) is one step: it stops when the channel is empty, and the
   goroutines it unblocks meanwhile only wait on channels of their own.       *)
EXTENDS Integers, Sequences, FiniteSets

CONSTANTS Pumps,     \* the output sources, one pump goroutine each
          Clients,   \* stream requests, one handler and one channel each
          Lines,     \* how many lines each source writes at most (bound)
          SubCap,    \* capacity of j.subscribe (4 in the code)
          ChanCap,   \* capacity of a client's channel (64)
          RingCap,   \* lines the ring buffer keeps (4096)
          PipeCap    \* lines an OS pipe holds (external)

Nobody == "nobody"
Reap   == "reaper"

ASSUME CapacitiesAssumption == /\ SubCap  \in Nat \ {0} /\ ChanCap \in Nat \ {0}
                               /\ RingCap \in Nat \ {0} /\ PipeCap \in Nat \ {0}
ASSUME LinesAssumption == Lines \in [Pumps -> Nat]
ASSUME NamesAssumption == Nobody \notin Pumps

Line   == Pumps \X Nat
NoLine == <<Nobody, 0>>

VARIABLES
  proc,     \* the child: starting, failed (never started), live, exited, reaped
  wrote,    \* per source: lines written so far
  pipe,     \* per source: lines in the OS pipe
  bufio,    \* per source: lines in the pump's bufio.Reader
  pump,     \* per source: where the pump goroutine is
  cur,      \* per source: the line the pump is handing on
  ring,     \* Job.buffer
  subMu,    \* who holds Job.subMu
  subs,     \* per source: the channels its fanOut has drained and not yet served
  subQ,     \* Job.subscribe: buffered channels, then those of blocked senders
  chan,     \* per client: lines in its channel
  closed,   \* clients whose channel is closed
  client,   \* per client: where its handler is
  back,     \* per client: the backfill it was sent
  got,      \* per client: the lines it was sent live
  reap,     \* where the reaper is
  late,     \* history: clients that subscribed after the reaper's close
  dropped   \* history: clients some line was dropped for

outVars    == <<wrote, pipe, bufio, cur, ring>>
queueVars  == <<subMu, subs, subQ>>
clientVars == <<chan, closed, client, back, got, late, dropped>>
vars == <<proc, reap, pump, outVars, queueVars, clientVars>>

Init ==
  /\ proc = "starting" /\ reap = "unborn"
  /\ wrote = [p \in Pumps |-> 0]
  /\ pipe  = [p \in Pumps |-> <<>>]
  /\ bufio = [p \in Pumps |-> <<>>]
  /\ pump  = [p \in Pumps |-> "unborn"]
  /\ cur   = [p \in Pumps |-> NoLine]
  /\ ring  = <<>>
  /\ subMu = Nobody
  /\ subs  = [p \in Pumps |-> <<>>]
  /\ subQ  = <<>>
  /\ chan   = [c \in Clients |-> <<>>]
  /\ closed = {}
  /\ client = [c \in Clients |-> "away"]
  /\ back   = [c \in Clients |-> <<>>]
  /\ got    = [c \in Clients |-> <<>>]
  /\ late = {} /\ dropped = {}

RangeOf(s) == {s[i] : i \in DOMAIN s}

-----------------------------------------------------------------------------
(* invoke: Start fails, or the child runs with its pumps and its reaper. *)

StartFails == /\ proc = "starting" /\ proc' = "failed"
              /\ UNCHANGED <<reap, pump, outVars, queueVars, clientVars>>

Start == /\ proc = "starting" /\ proc' = "live"
         /\ pump' = [p \in Pumps |-> "read"] /\ reap' = "wait"
         /\ UNCHANGED <<outVars, queueVars, clientVars>>

(* The child writes a line, blocking while the pipe is full, and exits. *)
Write(p) ==
  /\ proc = "live" /\ wrote[p] < Lines[p] /\ Len(pipe[p]) < PipeCap
  /\ wrote' = [wrote EXCEPT ![p] = @ + 1]
  /\ pipe'  = [pipe EXCEPT ![p] = Append(@, <<p, wrote[p] + 1>>)]
  /\ UNCHANGED <<proc, reap, pump, bufio, cur, ring, queueVars, clientVars>>

Exit == /\ proc = "live" /\ proc' = "exited"
        /\ UNCHANGED <<reap, pump, outVars, queueVars, clientVars>>

-----------------------------------------------------------------------------
(* pumpReader: one read takes what the pipe holds into the bufio.Reader, lines are
   handed on one by one, and those left there survive the closing of the pipe. *)

Fill(p) ==
  /\ pump[p] = "read" /\ bufio[p] = <<>> /\ pipe[p] # <<>>
  /\ bufio' = [bufio EXCEPT ![p] = pipe[p]]
  /\ pipe'  = [pipe EXCEPT ![p] = <<>>]
  /\ UNCHANGED <<proc, reap, pump, wrote, cur, ring, queueVars, clientVars>>

NextLine(p) ==
  /\ pump[p] = "read" /\ bufio[p] # <<>>
  /\ cur'   = [cur EXCEPT ![p] = Head(bufio[p])]
  /\ bufio' = [bufio EXCEPT ![p] = Tail(@)]
  /\ pump'  = [pump EXCEPT ![p] = "append"]
  /\ UNCHANGED <<proc, reap, wrote, pipe, ring, queueVars, clientVars>>

(* End of file, or the read error of a pipe the reaper's Wait has closed. *)
PumpReturns(p) ==
  /\ pump[p] = "read" /\ bufio[p] = <<>> /\ pipe[p] = <<>>
  /\ proc \in {"exited", "reaped"}
  /\ pump' = [pump EXCEPT ![p] = "returned"]
  /\ UNCHANGED <<proc, reap, outVars, queueVars, clientVars>>

Trimmed(s) == IF Len(s) > RingCap THEN SubSeq(s, Len(s) - RingCap + 1, Len(s)) ELSE s

AppendBuffer(p) ==
  /\ pump[p] = "append"
  /\ ring' = Trimmed(Append(ring, cur[p]))
  /\ pump' = [pump EXCEPT ![p] = "lock"]
  /\ UNCHANGED <<proc, reap, wrote, pipe, bufio, cur, queueVars, clientVars>>

-----------------------------------------------------------------------------
(* fanOut and the subscription channel. *)

(* A drain empties the channel and with it lets every blocked sender go on. *)
ReleasedClients == [c \in Clients |-> IF client[c] = "joining" THEN "live" ELSE client[c]]
ReleasedPumps   == [p \in Pumps |-> IF pump[p] = "stuck" THEN "fan" ELSE pump[p]]

(* Slips: the drained channels stay queued; the lock is not waited for. *)
DrainKeepsQueue(p) ==
  /\ pump[p] = "lock" /\ subMu = Nobody /\ subMu' = p
  /\ subs' = [subs EXCEPT ![p] = subQ]
  /\ pump' = [ReleasedPumps EXCEPT ![p] = "fan"] /\ client' = ReleasedClients
  /\ UNCHANGED <<proc, reap, outVars, subQ, chan, closed, back, got, late, dropped>>

DrainUnlocked(p) ==
  /\ pump[p] = "lock" /\ subMu' = p
  /\ subs' = [subs EXCEPT ![p] = subQ] /\ subQ' = <<>>
  /\ pump' = [ReleasedPumps EXCEPT ![p] = "fan"] /\ client' = ReleasedClients
  /\ UNCHANGED <<proc, reap, outVars, chan, closed, back, got, late, dropped>>

(* fanOut takes subMu and drains the channel. *)
Drain(p) ==
  /\ pump[p] = "lock" /\ subMu = Nobody
  /\ subMu' = p
  /\ subs'  = [subs EXCEPT ![p] = subQ]
  /\ subQ'  = <<>>
  /\ pump'   = [ReleasedPumps EXCEPT ![p] = "fan"]
  /\ client' = ReleasedClients
  /\ UNCHANGED <<proc, reap, outVars, chan, closed, back, got, late, dropped>>

(* Slips: the send waits for a slow client; a slow client is not put back. *)
DeliverWaits(p) ==
  /\ pump[p] = "fan" /\ subs[p] # <<>>
  /\ LET c == Head(subs[p]) IN
       /\ Len(chan[c]) < ChanCap
       /\ chan' = [chan EXCEPT ![c] = Append(@, cur[p])]
       /\ subQ' = Append(subQ, c)
  /\ subs' = [subs EXCEPT ![p] = Tail(@)]
  /\ pump' = [pump EXCEPT ![p] = IF Len(subQ) < SubCap THEN "fan" ELSE "stuck"]
  /\ UNCHANGED <<proc, reap, outVars, subMu, closed, client, back, got, late, dropped>>

DeliverForgetsSlow(p) ==
  /\ pump[p] = "fan" /\ subs[p] # <<>>
  /\ LET c == Head(subs[p]) IN
       IF Len(chan[c]) < ChanCap
         THEN /\ chan' = [chan EXCEPT ![c] = Append(@, cur[p])]
              /\ subQ' = Append(subQ, c) /\ UNCHANGED dropped
         ELSE dropped' = dropped \union {c} /\ UNCHANGED <<chan, subQ>>
  /\ subs' = [subs EXCEPT ![p] = Tail(@)]
  /\ pump' = [pump EXCEPT ![p] = IF Len(subQ) < SubCap THEN "fan" ELSE "stuck"]
  /\ UNCHANGED <<proc, reap, outVars, subMu, closed, client, back, got, late>>

(* One round of the loop: send the line, or drop it when the client's channel is
   full, then put the channel back, blocking (stuck) while j.subscribe is full.
   A stuck pump still holds subMu. *)
Deliver(p) ==
  /\ pump[p] = "fan" /\ subs[p] # <<>>
  /\ LET c == Head(subs[p]) IN
       /\ IF Len(chan[c]) < ChanCap
            THEN chan' = [chan EXCEPT ![c] = Append(@, cur[p])] /\ UNCHANGED dropped
            ELSE dropped' = dropped \union {c} /\ UNCHANGED chan
       /\ subQ' = Append(subQ, c)
  /\ subs' = [subs EXCEPT ![p] = Tail(@)]
  /\ pump' = [pump EXCEPT ![p] = IF Len(subQ) < SubCap THEN "fan" ELSE "stuck"]
  /\ UNCHANGED <<proc, reap, outVars, subMu, closed, client, back, got, late>>

FanOutReturns(p) ==
  /\ pump[p] = "fan" /\ subs[p] = <<>>
  /\ subMu' = Nobody
  /\ pump'  = [pump EXCEPT ![p] = "read"]
  /\ UNCHANGED <<proc, reap, outVars, subs, subQ, clientVars>>

-----------------------------------------------------------------------------
(* The reaper. *)

(* Wait returns once the child has exited and closes the read ends of the pipes:
   what the pumps have not read by then is gone. *)
WaitReturns ==
  /\ reap = "wait" /\ proc = "exited"
  /\ proc' = "reaped" /\ reap' = "close"
  /\ pipe' = [p \in Pumps |-> <<>>]
  /\ UNCHANGED <<pump, wrote, bufio, cur, ring, queueVars, clientVars>>

(* Slips: the channels are closed but stay queued; the lock is not taken; the lock
   is taken and not released. *)
CloseKeepsQueue ==
  /\ reap = "close" /\ subMu = Nobody
  /\ closed' = closed \union RangeOf(subQ)
  /\ client' = ReleasedClients /\ pump' = ReleasedPumps /\ reap' = "end"
  /\ UNCHANGED <<proc, outVars, queueVars, chan, back, got, late, dropped>>

CloseUnlocked ==
  /\ reap = "close"
  /\ closed' = closed \union RangeOf(subQ) /\ subQ' = <<>>
  /\ client' = ReleasedClients /\ pump' = ReleasedPumps /\ reap' = "end"
  /\ UNCHANGED <<proc, outVars, subMu, subs, chan, back, got, late, dropped>>

CloseKeepsLock ==
  /\ reap = "close" /\ subMu = Nobody /\ subMu' = Reap
  /\ closed' = closed \union RangeOf(subQ) /\ subQ' = <<>>
  /\ client' = ReleasedClients /\ pump' = ReleasedPumps /\ reap' = "end"
  /\ UNCHANGED <<proc, outVars, subs, chan, back, got, late, dropped>>

(* Under subMu, drain the channel and close every client channel found. *)
CloseSubscribers ==
  /\ reap = "close" /\ subMu = Nobody
  /\ closed' = closed \union RangeOf(subQ)
  /\ subQ'   = <<>>
  /\ client' = ReleasedClients
  /\ pump'   = ReleasedPumps
  /\ reap'   = "end"
  /\ UNCHANGED <<proc, outVars, subMu, subs, chan, back, got, late, dropped>>

-----------------------------------------------------------------------------
(* The stream handler of a client. *)

(* Backfill: the snapshot of the ring, sent before subscribing. *)
Snapshot(c) ==
  /\ client[c] = "away"
  /\ back'   = [back EXCEPT ![c] = ring]
  /\ client' = [client EXCEPT ![c] = "snapped"]
  /\ UNCHANGED <<proc, reap, pump, outVars, queueVars, chan, closed, got, late, dropped>>

(* subscribeChan: blocks, without looking at ctx.Done, while j.subscribe is full. *)
Subscribe(c) ==
  /\ client[c] = "snapped"
  /\ subQ'   = Append(subQ, c)
  /\ client' = [client EXCEPT ![c] = IF Len(subQ) < SubCap THEN "live" ELSE "joining"]
  /\ late'   = IF reap = "end" THEN late \union {c} ELSE late
  /\ UNCHANGED <<proc, reap, pump, outVars, subMu, subs, chan, closed, back, got, dropped>>

Receive(c) ==
  /\ client[c] = "live" /\ chan[c] # <<>>
  /\ got'  = [got EXCEPT ![c] = Append(@, Head(chan[c]))]
  /\ chan' = [chan EXCEPT ![c] = Tail(@)]
  /\ UNCHANGED <<proc, reap, pump, outVars, queueVars, closed, client, back, late, dropped>>

(* A slip: an empty channel is taken for a closed one. *)
EndStreamWhenIdle(c) ==
  /\ client[c] = "live" /\ chan[c] = <<>>
  /\ client' = [client EXCEPT ![c] = "ended"]
  /\ UNCHANGED <<proc, reap, pump, outVars, queueVars, chan, closed, back, got, late, dropped>>

(* A closed channel that is empty ends the stream with the state event. *)
EndStream(c) ==
  /\ client[c] = "live" /\ chan[c] = <<>> /\ c \in closed
  /\ client' = [client EXCEPT ![c] = "ended"]
  /\ UNCHANGED <<proc, reap, pump, outVars, queueVars, chan, closed, back, got, late, dropped>>

(* ctx.Done: the handler returns; its channel stays where it is. *)
Disconnect(c) ==
  /\ client[c] = "live"
  /\ client' = [client EXCEPT ![c] = "gone"]
  /\ UNCHANGED <<proc, reap, pump, outVars, queueVars, chan, closed, back, got, late, dropped>>

-----------------------------------------------------------------------------
PumpStep(p) == Fill(p) \/ NextLine(p) \/ PumpReturns(p) \/ AppendBuffer(p)
                 \/ Drain(p) \/ Deliver(p) \/ FanOutReturns(p)
ReaperStep  == WaitReturns \/ CloseSubscribers
ClientStep(c) == Snapshot(c) \/ Subscribe(c) \/ Receive(c) \/ EndStream(c) \/ Disconnect(c)

Next == \/ StartFails \/ Start \/ Exit \/ ReaperStep
        \/ \E p \in Pumps   : Write(p) \/ PumpStep(p)
        \/ \E c \in Clients : ClientStep(c)

Spec == Init /\ [][Next]_vars

(* Goroutines that can step do, and sync.Mutex hands subMu to every waiter in the
   end (its starvation mode), hence SF where the lock is taken. The child owes
   nothing, and a handler may be held up for ever by a client that does not read. *)
Fairness == /\ \A p \in Pumps : WF_vars(PumpStep(p)) /\ SF_vars(Drain(p))
            /\ WF_vars(ReaperStep) /\ SF_vars(CloseSubscribers)

FairSpec == Spec /\ Fairness

(* A handler whose client reads what it is sent. *)
Prompt(c) == WF_vars(Subscribe(c)) /\ WF_vars(Receive(c) \/ EndStream(c))

-----------------------------------------------------------------------------
(* Properties. *)

(* Every variable has its type. *)
TypeOK ==
  /\ proc \in {"starting", "failed", "live", "exited", "reaped"}
  /\ reap \in {"unborn", "wait", "close", "end"}
  /\ wrote \in [Pumps -> Nat]
  /\ pipe  \in [Pumps -> Seq(Line)]
  /\ bufio \in [Pumps -> Seq(Line)]
  /\ pump  \in [Pumps -> {"unborn", "read", "append", "lock", "fan", "stuck", "returned"}]
  /\ cur   \in [Pumps -> Line \union {NoLine}]
  /\ ring  \in Seq(Line \union {NoLine})
  /\ subMu \in Pumps \union {Nobody}
  /\ subs  \in [Pumps -> Seq(Clients)]
  /\ subQ  \in Seq(Clients)
  /\ chan  \in [Clients -> Seq(Line \union {NoLine})]
  /\ closed \in SUBSET Clients
  /\ client \in [Clients -> {"away", "snapped", "joining", "live", "ended", "gone"}]
  /\ back  \in [Clients -> Seq(Line \union {NoLine})]
  /\ got   \in [Clients -> Seq(Line \union {NoLine})]
  /\ late \in SUBSET Clients /\ dropped \in SUBSET Clients

(* No goroutine can reach a closed channel: what j.subscribe holds and what a
   fanOut has drained is open, so no send to, and no second close of, a closed
   channel ever panics and takes the daemon down. *)
NoPanic == /\ RangeOf(subQ) \cap closed = {}
           /\ \A p \in Pumps : RangeOf(subs[p]) \cap closed = {}

(* A channel is in one place at a time, once: the queue, or the drained list of the
   one pump in fanOut. Were it twice anywhere, the reaper would close it twice. *)
Distinct(s) == \A i, j \in DOMAIN s : s[i] = s[j] => i = j

ChannelsAreUnique ==
  /\ Distinct(subQ)
  /\ \A p \in Pumps : /\ Distinct(subs[p])
                      /\ RangeOf(subs[p]) \cap RangeOf(subQ) = {}
                      /\ \A q \in Pumps \ {p} : RangeOf(subs[p]) \cap RangeOf(subs[q]) = {}

Joined == {c \in Clients : client[c] \in {"joining", "live", "ended", "gone"}}

(* When the reaper is through, every client that subscribed before has had its
   channel closed, whatever a fanOut was doing with it at that time. *)
JoinedGetClosed == reap = "end" => Joined \subseteq closed \union late

NumbersOf(s, p) == {s[i][2] : i \in {j \in DOMAIN s : s[j][1] = p}}
Gapless(S)      == \A m, n \in S : m..n \subseteq S
Increasing(s)   == \A i, j \in DOMAIN s : i < j /\ s[i][1] = s[j][1] => s[i][2] < s[j][2]

(* What a client is sent live keeps each source's order without repetition, and
   the backfill and the live lines of a source overlap in one line at most: the one
   its pump had appended to the ring and not yet fanned out. *)
StreamInOrder ==
  \A c \in Clients :
    LET live == got[c] \o chan[c] IN
      /\ Increasing(back[c]) /\ Increasing(live)
      /\ \A p \in Pumps :
           Cardinality(NumbersOf(back[c], p) \cap NumbersOf(live, p)) <= 1

(* From its first live line of a source on, a client that is neither closed nor was
   ever dropped for has, or has in its channel, every line that source's pump has
   fanned out: no pump misses it because its channel is in the hands of another. *)
FannedOut(p) == IF pump[p] \in {"append", "lock", "fan", "stuck"} THEN cur[p][2] - 1
                ELSE cur[p][2]

NoGapOnceLive ==
  \A c \in Joined \ (dropped \union closed) : \A p \in Pumps :
    LET live == NumbersOf(got[c] \o chan[c], p)
    IN \A n \in live : n..FannedOut(p) \subseteq live

(* The ring holds the last lines appended, each source's in order, without gap and
   up to the line its pump took last; and until Wait closes the pipes every line
   written and not yet taken is still on its way, in order. *)
RingIsRecent ==
  /\ Len(ring) <= RingCap /\ Increasing(ring)
  /\ \A p \in Pumps :
       LET taken == cur[p][2]
           appended == IF pump[p] = "append" THEN taken - 1 ELSE taken
           coming == bufio[p] \o pipe[p]
       IN /\ \A n \in NumbersOf(ring, p) : n..appended \subseteq NumbersOf(ring, p)
                                           /\ n <= appended
          /\ Increasing(coming)
          /\ proc # "reaped" => NumbersOf(coming, p) = (taken + 1)..wrote[p]

(* What a client is sent is the job's output: in order, from its first live line on
   without gap, and before that what the ring still holds of the last lines. *)
StreamIsWhole == StreamInOrder /\ NoGapOnceLive /\ RingIsRecent

(* The reaper gets to the end of its work once the child has exited, and so do the
   pumps: nothing a client does or fails to do can hold them up. (Holds with at most
   SubCap clients; run stream_many shows what one more does.) *)
JobEnds == proc = "exited" ~> (reap = "end" /\ \A p \in Pumps : pump[p] = "returned")

(* A prompt client whose handler subscribed before the reaper's close gets the end
   of its stream, whether the others are prompt or not. *)
StreamsEnd == \A c \in Clients : Prompt(c) =>
  ((reap = "wait" /\ proc = "exited" /\ client[c] \in {"joining", "live"})
     ~> client[c] \in {"ended", "gone"})

(* The job's stream implements the promise of StreamContract: a step of any
   goroutine is one of its steps or invisible to the clients. *)
Shown(s, p) == IF NumbersOf(s, p) = {} THEN 0
               ELSE CHOOSE n \in NumbersOf(s, p) : \A m \in NumbersOf(s, p) : m <= n

Contract == INSTANCE StreamContract WITH
  Sources <- Pumps,
  job     <- IF proc \in {"starting", "failed"} THEN "pending"
             ELSE IF reap # "end" THEN "running" ELSE "over",
  written <- wrote,
  stream  <- [c \in Clients |-> CASE client[c] \in {"away", "snapped"} -> "absent"
                                  [] client[c] \in {"joining", "live"} -> "open"
                                  [] client[c] = "ended" -> "ended"
                                  [] client[c] = "gone"  -> "left"],
  shown   <- [c \in Clients |-> [p \in Pumps |-> Shown(got[c], p)]]

KeepsContract == Contract!Spec

(* What the source says and the code does not do (checked as a violation). *)

(* job.go:111: "stream stdout + stderr line-by-line into the ring buffer": all of
   it, when the ring is large enough. *)
AllOutputIsBuffered ==
  (reap = "end" /\ \A p \in Pumps : pump[p] = "returned") =>
    \A p \in Pumps : 1..wrote[p] \subseteq NumbersOf(ring, p)
=============================================================================
