------------------------------ MODULE JobLifecycle ------------------------------
(* The life of one job of the mesh agent (bake/mesh-agent/job.go): the goroutine
   that runs invoke, the reaper goroutine it starts, the kill handlers, the
   stream handlers and the status handlers, all touching the same Job record.

   Job.State is a Go string written and read with no lock, so it is two machine
   words: the pointer to the bytes and the length. A store is two word stores and
   a load is two word loads, in either order; every other step of another
   goroutine may fall between them. "text" names the constant whose bytes the
   pointer word points at, "len" is the length word. Memory is otherwise
   sequentially consistent, one word at a time.                              *)
EXTENDS Integers, FiniteSets

CONSTANTS Killers,    \* DELETE /job/{id} handlers, each kills once
          Watchers,   \* GET /job/{id}/stream handlers
          Pollers     \* GET /job/{id} handlers

Inv  == "invoke"      \* the goroutine of handleInvoke
Reap == "reaper"      \* the goroutine that calls c.Wait

ASSUME NamesDiffer == {Inv, Reap} \cap (Killers \union Watchers \union Pollers) = {}
ASSUME RolesDiffer == /\ Killers  \cap Watchers = {}
                      /\ Killers  \cap Pollers  = {}
                      /\ Watchers \cap Pollers  = {}

JobStates   == {"pending", "running", "done", "failed", "killed"}
Terminal    == {"done", "failed", "killed"}
Length      == [s \in JobStates |-> IF s = "done" THEN 4
                                    ELSE IF s \in {"failed", "killed"} THEN 6 ELSE 7]
Words       == {"text", "len"}
StringWords == [text : JobStates, len : {4, 6, 7}]
AsString(s) == [text |-> s, len |-> Length[s]]
(* What a two-word value must be to be one of the five declared constants. *)
Declared    == {AsString(s) : s \in JobStates}

Writers == {Inv, Reap} \union Killers
Readers == Watchers \union Pollers

VARIABLES
  pc,        \* where each goroutine is
  proc,      \* the child: none, live, zombie (exited, not waited for), reaped
  exit,      \* how it exited
  state,     \* Job.State, two words
  finished,  \* Job.FinishedAt is set
  exitCode,  \* Job.ExitCode: 0, 1 (any positive code) or -1 (died of a signal)
  store,     \* per writer: the store to State it is performing
  seen,      \* per reader: the words of State it has loaded
  report,    \* per poller: the FinishedAt and ExitCode it has loaded
  done       \* the channel Job.done is closed

vars == <<pc, proc, exit, state, finished, exitCode, store, seen, report, done>>

Idle     == [to |-> "pending", words |-> {}]
NoWord   == [text |-> "pending", len |-> 0, words |-> {}]
NoReport == [finished |-> FALSE, exitCode |-> 0]

Init ==
  /\ pc = [p \in Writers \union Readers |->
             IF p = Inv THEN "admit" ELSE IF p = Reap THEN "unborn" ELSE "away"]
  /\ proc = "none" /\ exit = "none"
  /\ state = AsString("pending")
  /\ finished = FALSE /\ exitCode = 0
  /\ store = [w \in Writers |-> Idle]
  /\ seen = [r \in Readers |-> NoWord]
  /\ report = [p \in Pollers |-> NoReport]
  /\ done = FALSE

Goto(p, label) == pc' = [pc EXCEPT ![p] = label]

-----------------------------------------------------------------------------
(* Loads and stores of State. *)

(* w starts "j.State = s" and goes on at label once both words are stored. *)
Assign(w, s, label) ==
  /\ store' = [store EXCEPT ![w] = [to |-> s, words |-> Words]]
  /\ Goto(w, label)

Stored(w) == store[w].words = {}

StoreText(w) ==
  /\ "text" \in store[w].words
  /\ state' = [state EXCEPT !.text = store[w].to]
  /\ store' = [store EXCEPT ![w].words = @ \ {"text"}]
  /\ UNCHANGED <<pc, proc, exit, finished, exitCode, seen, report, done>>

StoreLen(w) ==
  /\ "len" \in store[w].words
  /\ state' = [state EXCEPT !.len = Length[store[w].to]]
  /\ store' = [store EXCEPT ![w].words = @ \ {"len"}]
  /\ UNCHANGED <<pc, proc, exit, finished, exitCode, seen, report, done>>

LoadText(r) ==
  /\ pc[r] = "load" /\ "text" \notin seen[r].words
  /\ seen' = [seen EXCEPT ![r].text = state.text, ![r].words = @ \union {"text"}]
  /\ UNCHANGED <<pc, proc, exit, state, finished, exitCode, store, report, done>>

LoadLen(r) ==
  /\ pc[r] = "load" /\ "len" \notin seen[r].words
  /\ seen' = [seen EXCEPT ![r].len = state.len, ![r].words = @ \union {"len"}]
  /\ UNCHANGED <<pc, proc, exit, state, finished, exitCode, store, report, done>>

Loaded(r) == seen[r].words = Words

Rest == <<proc, exit, state, finished, exitCode, seen, report, done>>

-----------------------------------------------------------------------------
(* invoke and handleInvoke. *)

(* An empty Exec or a failed pipe: no job is made, the caller gets an error. *)
Reject == /\ pc[Inv] = "admit" /\ Goto(Inv, "rejected")
          /\ UNCHANGED <<store, Rest>>

(* The job enters jm.jobs in state pending; any handler can now find it. *)
Publish == /\ pc[Inv] = "admit" /\ Goto(Inv, "start")
           /\ UNCHANGED <<store, Rest>>

Published == pc[Inv] \notin {"admit", "rejected"}

StartFails == /\ pc[Inv] = "start" /\ Assign(Inv, "failed", "abort")
              /\ UNCHANGED Rest

(* FinishedAt and close(j.done) of the failed start; no reaper is started. *)
Abort == /\ pc[Inv] = "abort" /\ Stored(Inv)
         /\ finished' = TRUE /\ done' = TRUE /\ Goto(Inv, "reply")
         /\ UNCHANGED <<proc, exit, state, exitCode, store, seen, report>>

StartWorks == /\ pc[Inv] = "start" /\ proc' = "live"
              /\ Assign(Inv, "running", "spawn")
              /\ UNCHANGED <<exit, state, finished, exitCode, seen, report, done>>

(* The go statement of the reaper, after the store of running is complete. *)
SpawnReaper == /\ pc[Inv] = "spawn" /\ Stored(Inv)
               /\ pc' = [pc EXCEPT ![Inv] = "reply", ![Reap] = "wait"]
               /\ UNCHANGED <<store, Rest>>

(* The 202 reply. It carries State, loaded with no lock like that of a status reply. *)
InvokeReply == /\ pc[Inv] = "reply" /\ Goto(Inv, "replied")
               /\ UNCHANGED <<store, Rest>>

-----------------------------------------------------------------------------
(* The child process and the reaper. *)

(* The child exits by itself or by a signal; "lost" stands for a child whose
   wait fails with something other than an ExitError. *)
Exit == /\ proc = "live" /\ proc' = "zombie"
        /\ exit' \in {"ok", "code", "signal", "lost"}
        /\ UNCHANGED <<pc, state, finished, exitCode, store, seen, report, done>>

Wait == /\ pc[Reap] = "wait" /\ proc = "zombie"
        /\ proc' = "reaped" /\ Goto(Reap, "stamp")
        /\ UNCHANGED <<exit, state, finished, exitCode, store, seen, report, done>>

Stamp == /\ pc[Reap] = "stamp" /\ finished' = TRUE /\ Goto(Reap, "verdict")
         /\ UNCHANGED <<proc, exit, state, exitCode, store, seen, report, done>>

(* Slips: the shell's code for a signal; no verdict for a lost child; no ExitCode;
   an early return that forgets the subscribers. *)
VerdictReturnsEarly ==
  /\ pc[Reap] = "verdict"
  /\ exitCode' = CASE exit = "code" -> 1 [] exit = "signal" -> -1 [] OTHER -> exitCode
  /\ Assign(Reap, IF exit = "ok" THEN "done" ELSE "failed",
            IF exit = "lost" THEN "finish" ELSE "close")
  /\ UNCHANGED <<proc, exit, state, finished, seen, report, done>>

VerdictOfShell ==
  /\ pc[Reap] = "verdict"
  /\ exitCode' = CASE exit = "code" -> 1 [] exit = "signal" -> 143 [] OTHER -> exitCode
  /\ Assign(Reap, IF exit = "ok" THEN "done" ELSE "failed", "close")
  /\ UNCHANGED <<proc, exit, state, finished, seen, report, done>>

VerdictSkipsLost ==
  /\ pc[Reap] = "verdict"
  /\ exitCode' = CASE exit = "code" -> 1 [] exit = "signal" -> -1 [] OTHER -> exitCode
  /\ IF exit = "lost" THEN Goto(Reap, "close") /\ UNCHANGED store
     ELSE Assign(Reap, IF exit = "ok" THEN "done" ELSE "failed", "close")
  /\ UNCHANGED <<proc, exit, state, finished, seen, report, done>>

VerdictWithoutCode ==
  /\ pc[Reap] = "verdict"
  /\ Assign(Reap, IF exit = "ok" THEN "done" ELSE "failed", "close")
  /\ UNCHANGED <<proc, exit, state, finished, exitCode, seen, report, done>>

(* An exit error stores ExitCode and then failed; any other wait error stores
   failed alone; a clean exit stores done and then ExitCode 0. *)
Verdict ==
  /\ pc[Reap] = "verdict"
  /\ exitCode' = CASE exit = "code" -> 1 [] exit = "signal" -> -1 [] OTHER -> exitCode
  /\ Assign(Reap, IF exit = "ok" THEN "done" ELSE "failed", "close")
  /\ UNCHANGED <<proc, exit, state, finished, seen, report, done>>

(* A slip: the channels are closed before the verdict is stored. *)
CloseBeforeVerdict ==
  /\ pc[Reap] = "close"
  /\ pc' = [p \in DOMAIN pc |-> IF p = Reap THEN "finish"
                                ELSE IF p \in Watchers /\ pc[p] = "joined" THEN "load"
                                ELSE pc[p]]
  /\ UNCHANGED <<store, Rest>>

(* Under subMu the reaper closes the channel of every subscriber it finds. *)
CloseSubscribers ==
  /\ pc[Reap] = "close" /\ Stored(Reap)
  /\ pc' = [p \in DOMAIN pc |-> IF p = Reap THEN "finish"
                                ELSE IF p \in Watchers /\ pc[p] = "joined" THEN "load"
                                ELSE pc[p]]
  /\ exitCode' = IF exit = "ok" THEN 0 ELSE exitCode
  /\ UNCHANGED <<proc, exit, state, finished, store, seen, report, done>>

CloseDone == /\ pc[Reap] = "finish" /\ done' = TRUE /\ Goto(Reap, "end")
             /\ UNCHANGED <<proc, exit, state, finished, exitCode, store, seen, report>>

-----------------------------------------------------------------------------
(* kill: refused before the process exists and after it is reaped; a signal to a
   zombie is accepted. The state is stored after the signal. *)

KillRefused(k) == /\ Published /\ pc[k] = "away" /\ proc \in {"none", "reaped"}
                  /\ Goto(k, "refused")
                  /\ UNCHANGED <<store, Rest>>

(* A slip: the error of a signal to a reaped child is ignored. *)
SignalIgnoringError(k) == /\ Published /\ pc[k] = "away" /\ proc # "none"
                          /\ Assign(k, "killed", "signalled")
                          /\ UNCHANGED Rest

Signal(k) == /\ Published /\ pc[k] = "away" /\ proc \in {"live", "zombie"}
             /\ Assign(k, "killed", "signalled")
             /\ UNCHANGED Rest

KillReply(k) == /\ pc[k] = "signalled" /\ Stored(k) /\ Goto(k, "replied")
                /\ UNCHANGED <<store, Rest>>

-----------------------------------------------------------------------------
(* A stream handler subscribes. Nobody closes the channel of one that subscribes
   after the reaper's close ("stranded"), or to a job that did not start. *)

Subscribe(w) ==
  /\ Published /\ pc[w] = "away"
  /\ Goto(w, IF pc[Reap] \in {"finish", "end"} THEN "stranded" ELSE "joined")
  /\ UNCHANGED <<store, Rest>>

(* The state event that ends the stream. *)
StateEvent(w) == /\ pc[w] = "load" /\ Loaded(w) /\ Goto(w, "sent")
                 /\ UNCHANGED <<store, Rest>>

(* The client goes away first: ctx.Done. *)
Leave(w) == /\ pc[w] \in {"joined", "stranded"} /\ Goto(w, "gone")
            /\ UNCHANGED <<store, Rest>>

(* GET /job/{id}: the encoder loads State, then FinishedAt, then ExitCode. *)
Poll(p) == /\ Published /\ pc[p] = "away" /\ Goto(p, "load")
           /\ UNCHANGED <<store, Rest>>

PollFinished(p) == /\ pc[p] = "load" /\ Loaded(p) /\ Goto(p, "code")
                   /\ report' = [report EXCEPT ![p].finished = finished]
                   /\ UNCHANGED <<proc, exit, state, finished, exitCode, store, seen, done>>

PollCode(p) == /\ pc[p] = "code" /\ Goto(p, "replied")
               /\ report' = [report EXCEPT ![p].exitCode = exitCode]
               /\ UNCHANGED <<proc, exit, state, finished, exitCode, store, seen, done>>

-----------------------------------------------------------------------------
InvokeStep == Reject \/ Publish \/ StartFails \/ Abort \/ StartWorks
                \/ SpawnReaper \/ InvokeReply
ReaperStep == Wait \/ Stamp \/ Verdict \/ CloseSubscribers \/ CloseDone
StoreStep(w)   == StoreText(w) \/ StoreLen(w)
LoadStep(r)    == LoadText(r) \/ LoadLen(r)
KillStep(k)    == KillRefused(k) \/ Signal(k) \/ KillReply(k)
WatchStep(w)   == Subscribe(w) \/ StateEvent(w) \/ Leave(w)
PollStep(p)    == Poll(p) \/ PollFinished(p) \/ PollCode(p)

Next == \/ InvokeStep \/ ReaperStep \/ Exit
        \/ \E w \in Writers  : StoreStep(w)
        \/ \E r \in Readers  : LoadStep(r)
        \/ \E k \in Killers  : KillStep(k)
        \/ \E w \in Watchers : WatchStep(w)
        \/ \E p \in Pollers  : PollStep(p)

(* A goroutine that can step eventually does. Whether requests arrive, clients
   leave or the child exits is up to the environment: no fairness for those. *)
Fairness ==
  /\ WF_vars(Publish \/ Reject) /\ WF_vars(StartWorks \/ StartFails)
  /\ WF_vars(Abort \/ SpawnReaper \/ InvokeReply)
  /\ WF_vars(ReaperStep)
  /\ \A w \in Writers  : WF_vars(StoreStep(w))
  /\ \A r \in Readers  : WF_vars(LoadStep(r))
  /\ \A k \in Killers  : WF_vars(KillReply(k))
  /\ \A w \in Watchers : WF_vars(StateEvent(w))
  /\ \A p \in Pollers  : WF_vars(PollFinished(p) \/ PollCode(p))

Spec     == Init /\ [][Next]_vars
FairSpec == Spec /\ Fairness

-----------------------------------------------------------------------------
(* Properties. *)

(* The reaper has made its verdict the value of State. *)
Settled == \/ pc[Reap] = "close" /\ Stored(Reap)
           \/ pc[Reap] \in {"finish", "end"}

NoStore == \A w \in Writers : Stored(w)
Accepted(k) == pc[k] \in {"signalled", "replied"}

Labels == {"admit", "rejected", "start", "abort", "spawn", "reply", "load", "replied",
           "unborn", "wait", "stamp", "verdict", "close", "finish", "end", "away",
           "refused", "signalled", "joined", "stranded", "sent", "gone", "code"}

(* Every variable has its type. *)
TypeOK ==
  /\ pc \in [Writers \union Readers -> Labels]
  /\ proc \in {"none", "live", "zombie", "reaped"}
  /\ exit \in {"none", "ok", "code", "signal", "lost"}
  /\ state \in StringWords
  /\ finished \in BOOLEAN /\ done \in BOOLEAN
  /\ exitCode \in {-1, 0, 1}
  /\ store \in [Writers -> [to : JobStates, words : SUBSET Words]]
  /\ seen \in [Readers -> [text : JobStates, len : {0, 4, 6, 7}, words : SUBSET Words]]
  /\ report \in [Pollers -> [finished : BOOLEAN, exitCode : {-1, 0, 1}]]

(* Once the reaper has settled, the text of State is a terminal one for good: the
   "running" of invoke cannot land on top of the verdict, because the reaper is
   started after that store; only kills may still overwrite it, with "killed". *)
SettledIsTerminal == Settled => state.text \in Terminal

(* With no kill accepted and no store under way, State is one of the declared
   constants, and a settled one agrees with how the child exited. *)
QuietStateIsExact ==
  NoStore /\ (\A k \in Killers : ~Accepted(k)) =>
    /\ state \in Declared
    /\ Settled => state.text = IF exit = "ok" THEN "done" ELSE "failed"

(* A stream that ends with a state event ends with a terminal text that does not
   contradict the child's exit: never a success for a child that failed. *)
StreamEndsWithVerdict ==
  \A w \in Watchers : pc[w] = "sent" =>
    /\ seen[w].text \in Terminal
    /\ seen[w].text = "done"   => exit = "ok"
    /\ seen[w].text = "failed" => exit # "ok"

(* A status reply whose state is the reaper's verdict comes with FinishedAt set,
   and a failed one with an exit code other than 0 (a lost wait excepted), though
   the reply loads the three fields one after the other with no lock. *)
PollIsCoherent ==
  \A p \in Pollers : pc[p] = "replied" /\ proc # "none" =>
    /\ seen[p].text \in {"done", "failed"} => report[p].finished
    /\ seen[p].text = "done" => report[p].exitCode = 0
    /\ seen[p].text = "failed" /\ exit # "lost" => report[p].exitCode # 0

(* Once the job is settled and no accepted kill is still storing, the state is the
   final one: a kill that comes later is refused, the child being reaped. *)
Quiet == \A k \in Killers : pc[k] # "signalled"

SettledStateIsFrozen ==
  [][Settled /\ Quiet => state' = state /\ Settled' /\ Quiet']_vars

(* A stream subscribed when the child exits gets its state event, unless its
   client leaves. *)
StreamEnds == \A w \in Watchers :
                (pc[w] = "joined" /\ proc = "zombie") ~> pc[w] \in {"sent", "gone"}

(* What the source says and the code does not do (checked as a violation). *)

(* job.go:25, 234 and server.go:158: a job killed by a signal after kill
   answered {"killed": id} is a killed job. *)
KilledJobEndsKilled ==
  (pc[Reap] = "end" /\ NoStore /\ exit = "signal"
     /\ \E k \in Killers : pc[k] = "replied") => state.text = "killed"
=============================================================================
