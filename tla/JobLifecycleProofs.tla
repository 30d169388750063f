---------------------------- MODULE JobLifecycleProofs ---------------------------
(* What Job.State can be, for any number of kill, stream and status handlers. *)
EXTENDS JobLifecycle, TLAPS

After == {"close", "finish", "end"}   \* the reaper has started to store its verdict

TheVerdict == IF exit = "ok" THEN "done" ELSE "failed"
TheCode    == CASE exit = "code" -> 1 [] exit = "signal" -> -1 [] OTHER -> 0

(* Which step of which goroutine has been reached, and what it implies. *)
ControlInv ==
  /\ pc[Inv] \in {"admit", "rejected", "start", "abort", "spawn", "reply", "replied"}
  /\ pc[Reap] \in {"unborn", "wait", "stamp", "verdict"} \union After
  /\ proc = "none" => pc[Reap] = "unborn"
  /\ pc[Inv] \in {"admit", "rejected", "start", "abort"} => proc = "none"
  /\ pc[Inv] = "spawn" => proc # "none"
  /\ pc[Reap] # "unborn" => pc[Inv] \in {"reply", "replied"}
  /\ pc[Reap] \in {"unborn", "wait"} <=> proc # "reaped"
  /\ exit = "none" <=> proc \in {"none", "live"}
  /\ \A k \in Killers : pc[k] \in {"away", "refused", "signalled", "replied"}

(* Who can be storing what. *)
StoreInv ==
  /\ ~Stored(Inv) => \/ pc[Inv] = "abort" /\ store[Inv].to = "failed"
                     \/ pc[Inv] = "spawn" /\ store[Inv].to = "running"
  /\ ~Stored(Reap) => pc[Reap] = "close" /\ store[Reap].to = TheVerdict
  /\ \A k \in Killers : ~Stored(k) => pc[k] = "signalled" /\ store[k].to = "killed"

(* Before the process exists nobody but invoke has touched the state. *)
PendingInv == pc[Inv] \in {"admit", "rejected", "start"} =>
                state = AsString("pending") /\ \A k \in Killers : pc[k] \in {"away", "refused"}

(* Where the text of the state can come from. *)
TextInv ==
  /\ state.text = "done"   => pc[Reap] \in After /\ exit = "ok"
  /\ state.text = "failed" => \/ proc = "none" /\ pc[Inv] \in {"abort", "reply", "replied"}
                              \/ pc[Reap] \in After /\ exit # "ok"
  /\ (pc[Reap] \in After /\ "text" \notin store[Reap].words)
        => state.text \in {TheVerdict, "killed"}

(* What the reaper has written before the verdict. *)
ReportInv == /\ pc[Reap] \in {"verdict"} \union After => finished
             /\ exitCode = IF pc[Reap] \in After THEN TheCode ELSE 0

(* With no kill accepted, each word of the state is what invoke, and later the
   reaper, stored last. *)
Is(s, words) == /\ "text" \notin words => state.text = s
                /\ "len"  \notin words => state.len = Length[s]

QuietInv ==
  (\A k \in Killers : ~Accepted(k)) =>
    /\ pc[Inv] = "abort" => Is("failed", store[Inv].words)
    /\ pc[Inv] = "spawn" => Is("running", store[Inv].words)
    /\ pc[Inv] \in {"reply", "replied"} =>
         CASE proc = "none" -> Is("failed", {})
           [] pc[Reap] \in After -> Is(TheVerdict, store[Reap].words)
           [] OTHER -> Is("running", {})

CoreInv == ControlInv /\ StoreInv /\ PendingInv /\ TextInv /\ ReportInv /\ QuietInv

(* What a reader has loaded of the state is still justified later. *)
SeenInv ==
  /\ \A r \in Readers : "text" \in seen[r].words =>
       /\ seen[r].text = "done"   => pc[Reap] \in After /\ exit = "ok"
       /\ seen[r].text = "failed" => \/ proc = "none" /\ pc[Inv] \in {"abort", "reply", "replied"}
                                     \/ pc[Reap] \in After /\ exit # "ok"
  /\ \A w \in Watchers :
       /\ pc[w] \in {"away", "joined", "stranded", "load", "sent", "gone"}
       /\ pc[w] \in {"load", "sent"} => pc[Reap] \in {"finish", "end"}
       /\ pc[w] \in {"load", "sent"} /\ "text" \in seen[w].words
            => seen[w].text \in {TheVerdict, "killed"}
       /\ pc[w] = "sent" => Loaded(w)
       /\ pc[w] \in {"away", "joined", "stranded"} => seen[w].words = {}
  /\ \A p \in Pollers :
       /\ pc[p] \in {"away", "load", "code", "replied"}
       /\ pc[p] \in {"code", "replied"} => Loaded(p)
       /\ pc[p] \in {"code", "replied"} /\ proc # "none" /\ seen[p].text \in {"done", "failed"}
            => report[p].finished
       /\ pc[p] = "replied" /\ proc # "none" /\ seen[p].text \in {"done", "failed"}
            => report[p].exitCode = exitCode

IndInv == TypeOK /\ CoreInv /\ SeenInv

-----------------------------------------------------------------------------
(* The handler of invoke, the reaper, the killers, the watchers and the pollers are not each other. *)
LEMMA Distinctness ==
  /\ Inv \notin Readers /\ Reap \notin Readers /\ Inv # Reap
  /\ Inv \in Writers /\ Reap \in Writers
  /\ Killers \subseteq Writers /\ Watchers \subseteq Readers /\ Pollers \subseteq Readers
  /\ \A k \in Killers : k # Inv /\ k # Reap /\ k \notin Readers
  /\ \A w \in Watchers : w # Inv /\ w # Reap /\ w \notin Killers /\ w \notin Pollers
  /\ \A p \in Pollers : p # Inv /\ p # Reap /\ p \notin Killers /\ p \notin Watchers
BY NamesDiffer, RolesDiffer DEF Inv, Reap, Writers, Readers

(* The state types hold when the agent starts, with an empty table of jobs. *)
LEMMA TypeInit == Init => TypeOK
<1> SUFFICES ASSUME Init PROVE TypeOK
  OBVIOUS
<1>1. pc \in [Writers \union Readers -> Labels]
  BY DEF Init, Labels
<1>2. state \in StringWords
  BY DEF Init, AsString, Length, StringWords, JobStates
<1>3. store \in [Writers -> [to : JobStates, words : SUBSET Words]]
  BY DEF Init, Idle, JobStates
<1>4. seen \in [Readers -> [text : JobStates, len : {0, 4, 6, 7}, words : SUBSET Words]]
  BY DEF Init, NoWord, JobStates
<1>5. report \in [Pollers -> [finished : BOOLEAN, exitCode : {-1, 0, 1}]]
  BY DEF Init, NoReport
<1> QED
  BY <1>1, <1>2, <1>3, <1>4, <1>5 DEF Init, TypeOK

(* A goto, a store begun and a store or load of one word keep the types. *)
LEMMA GotoType ==
  ASSUME TypeOK, NEW p \in Writers \union Readers, NEW label \in Labels, Goto(p, label)
  PROVE  pc' \in [Writers \union Readers -> Labels]
BY DEF TypeOK, Goto

(* A record of the job table keeps its type when one of its fields is assigned. *)
LEMMA AssignType ==
  ASSUME TypeOK, NEW w \in Writers, NEW s \in JobStates, NEW label \in Labels, Assign(w, s, label)
  PROVE  /\ pc' \in [Writers \union Readers -> Labels]
         /\ store' \in [Writers -> [to : JobStates, words : SUBSET Words]]
BY GotoType DEF TypeOK, Assign

(* Every step of a handler, the reaper or a killer keeps the types. *)
LEMMA TypeNext == TypeOK /\ [Next]_vars => TypeOK'
<1> SUFFICES ASSUME TypeOK, [Next]_vars PROVE TypeOK'
  OBVIOUS
<1>1. CASE InvokeStep
  <2>1. CASE Reject \/ Publish \/ InvokeReply
    BY <2>1, GotoType, Distinctness DEF Reject, Publish, InvokeReply, TypeOK, Rest, Labels
  <2>2. CASE StartFails \/ StartWorks
    BY <2>2, AssignType, Distinctness DEF StartFails, StartWorks, TypeOK, Rest, Labels, JobStates
  <2>3. CASE Abort
    BY <2>3, GotoType, Distinctness DEF Abort, TypeOK, Labels
  <2>4. CASE SpawnReaper
    <3>1. "reply" \in Labels /\ "wait" \in Labels
      BY DEF Labels
    <3> QED
      BY <2>4, <3>1, Distinctness DEF SpawnReaper, TypeOK, Rest
  <2> QED
    BY <1>1, <2>1, <2>2, <2>3, <2>4 DEF InvokeStep
<1>2. CASE ReaperStep
  <2>1. CASE Wait \/ Stamp \/ CloseDone
    BY <2>1, GotoType, Distinctness DEF Wait, Stamp, CloseDone, TypeOK, Labels
  <2>2. CASE Verdict
    <3>1. exitCode' \in {-1, 0, 1}
      BY <2>2 DEF Verdict, TypeOK
    <3> DEFINE s == IF exit = "ok" THEN "done" ELSE "failed"
    <3>2. s \in JobStates /\ "close" \in Labels
      BY DEF JobStates, Labels
    <3>3. Assign(Reap, s, "close")
      BY <2>2 DEF Verdict
    <3> HIDE DEF s
    <3>4. /\ pc' \in [Writers \union Readers -> Labels]
          /\ store' \in [Writers -> [to : JobStates, words : SUBSET Words]]
      BY <3>2, <3>3, AssignType, Distinctness
    <3> QED
      BY <2>2, <3>1, <3>4 DEF Verdict, TypeOK
  <2>3. CASE CloseSubscribers
    <3>1. "finish" \in Labels /\ "load" \in Labels
      BY DEF Labels
    <3>2. pc' \in [Writers \union Readers -> Labels]
      BY <2>3, <3>1 DEF CloseSubscribers, TypeOK
    <3>3. exitCode' \in {-1, 0, 1}
      BY <2>3 DEF CloseSubscribers, TypeOK
    <3> QED
      BY <2>3, <3>2, <3>3 DEF CloseSubscribers, TypeOK
  <2> QED
    BY <1>2, <2>1, <2>2, <2>3 DEF ReaperStep
<1>3. CASE Exit
  BY <1>3 DEF Exit, TypeOK
<1>4. ASSUME NEW w \in Writers, StoreStep(w) PROVE TypeOK'
  <2>1. Length[store[w].to] \in {4, 6, 7} /\ store[w].to \in JobStates
    BY DEF Length, JobStates, TypeOK
  <2>2. state' \in StringWords
    BY <1>4, <2>1 DEF StoreStep, StoreText, StoreLen, StringWords, TypeOK
  <2>3. store' \in [Writers -> [to : JobStates, words : SUBSET Words]]
    BY <1>4 DEF StoreStep, StoreText, StoreLen, TypeOK
  <2> QED
    BY <1>4, <2>2, <2>3 DEF StoreStep, StoreText, StoreLen, TypeOK
<1>5. ASSUME NEW r \in Readers, LoadStep(r) PROVE TypeOK'
  <2>1. state.text \in JobStates /\ state.len \in {0, 4, 6, 7} /\ "text" \in Words /\ "len" \in Words
    BY DEF TypeOK, StringWords, Words
  <2>2. seen' \in [Readers -> [text : JobStates, len : {0, 4, 6, 7}, words : SUBSET Words]]
    BY <1>5, <2>1 DEF LoadStep, LoadText, LoadLen, TypeOK
  <2> QED
    BY <1>5, <2>2 DEF LoadStep, LoadText, LoadLen, TypeOK
<1>6. ASSUME NEW k \in Killers, KillStep(k) PROVE TypeOK'
  <2>1. CASE KillRefused(k) \/ KillReply(k)
    BY <2>1, GotoType, Distinctness DEF KillRefused, KillReply, TypeOK, Rest, Labels
  <2>2. CASE Signal(k)
    BY <2>2, AssignType, Distinctness DEF Signal, TypeOK, Rest, Labels, JobStates
  <2> QED
    BY <1>6, <2>1, <2>2 DEF KillStep
<1>7. ASSUME NEW w \in Watchers, WatchStep(w) PROVE TypeOK'
  <2>1. PICK label \in Labels : Goto(w, label)
    BY <1>7 DEF WatchStep, Subscribe, StateEvent, Leave, Labels
  <2> QED
    BY <1>7, <2>1, GotoType, Distinctness DEF WatchStep, Subscribe, StateEvent, Leave, TypeOK, Rest
<1>8. ASSUME NEW p \in Pollers, PollStep(p) PROVE TypeOK'
  <2>1. PICK label \in Labels : Goto(p, label)
    BY <1>8 DEF PollStep, Poll, PollFinished, PollCode, Labels
  <2>2. report' \in [Pollers -> [finished : BOOLEAN, exitCode : {-1, 0, 1}]]
    BY <1>8 DEF PollStep, Poll, PollFinished, PollCode, TypeOK, Rest
  <2> QED
    BY <1>8, <2>1, <2>2, GotoType, Distinctness
       DEF PollStep, Poll, PollFinished, PollCode, TypeOK, Rest
<1>9. CASE UNCHANGED vars
  BY <1>9 DEF vars, TypeOK
<1> QED
  BY <1>1, <1>2, <1>3, <1>4, <1>5, <1>6, <1>7, <1>8, <1>9 DEF Next

-----------------------------------------------------------------------------
(* The writers. *)

(* The core invariant holds before any job has been invoked. *)
LEMMA CoreInit == Init => CoreInv
<1> SUFFICES ASSUME Init PROVE CoreInv
  OBVIOUS
<1>1. /\ pc[Inv] = "admit" /\ pc[Reap] = "unborn" /\ \A k \in Killers : pc[k] = "away"
      /\ \A w \in Writers : Stored(w)
      /\ state.text = "pending" /\ proc = "none" /\ exit = "none" /\ state = AsString("pending")
      /\ exitCode = 0
  BY Distinctness DEF Init, Stored, Idle, AsString
<1> QED
  BY <1>1, Distinctness DEF CoreInv, ControlInv, StoreInv, PendingInv, TextInv, ReportInv,
                            QuietInv, After, Accepted

(* Steps of readers touch nothing the writers' invariant speaks of. *)
LEMMA CoreFrame ==
  ASSUME CoreInv, UNCHANGED <<proc, exit, state, finished, exitCode, store>>,
         \A w \in Writers : pc'[w] = pc[w]
  PROVE  CoreInv'
<1>1. pc'[Inv] = pc[Inv] /\ pc'[Reap] = pc[Reap] /\ \A k \in Killers : pc'[k] = pc[k]
  BY Distinctness
<1>2. \A w : Stored(w)' <=> Stored(w)
  BY DEF Stored
<1>3. ControlInv' /\ StoreInv'
  BY <1>1, <1>2 DEF CoreInv, ControlInv, StoreInv, TheVerdict
<1>4. PendingInv' /\ TextInv' /\ ReportInv'
  BY <1>1 DEF CoreInv, PendingInv, TextInv, ReportInv, TheVerdict, TheCode
<1>5. QuietInv'
  BY <1>1 DEF CoreInv, QuietInv, Accepted, Is, TheVerdict
<1> QED
  BY <1>3, <1>4, <1>5 DEF CoreInv

(* The handler of POST /api/invoke keeps the core invariant. *)
LEMMA InvokeCore == TypeOK /\ CoreInv /\ InvokeStep => CoreInv'
<1> SUFFICES ASSUME TypeOK, CoreInv, InvokeStep PROVE CoreInv'
  OBVIOUS
<1> USE Distinctness DEF CoreInv
<1>0. \A k \in Killers : pc'[k] = pc[k] /\ store'[k] = store[k]
  BY DEF InvokeStep, Reject, Publish, StartFails, Abort, StartWorks, SpawnReaper, InvokeReply,
         Goto, Assign, TypeOK, Rest
<1>1. CASE Reject \/ Publish
  <2>1. /\ pc[Inv] = "admit" /\ pc'[Inv] \in {"rejected", "start"} /\ pc'[Reap] = pc[Reap]
        /\ UNCHANGED <<store, Rest>>
    BY <1>1 DEF Reject, Publish, Goto, TypeOK
  <2>2. ControlInv' /\ StoreInv' /\ PendingInv' /\ ReportInv'
    BY <1>0, <2>1 DEF ControlInv, StoreInv, PendingInv, ReportInv, Stored, Rest, After
  <2>3. TextInv' /\ QuietInv'
    BY <1>0, <2>1 DEF TextInv, QuietInv, Rest, ControlInv, PendingInv, AsString, After
  <2> QED
    BY <2>2, <2>3
<1>2. CASE StartFails \/ StartWorks
  <2>1. /\ pc[Inv] = "start" /\ pc'[Reap] = pc[Reap] /\ store'[Reap] = store[Reap]
        /\ store'[Inv].words = Words /\ UNCHANGED <<exit, state, finished, exitCode>>
        /\ \/ pc'[Inv] = "abort" /\ store'[Inv].to = "failed"  /\ proc' = proc
           \/ pc'[Inv] = "spawn" /\ store'[Inv].to = "running" /\ proc' = "live"
    BY <1>2 DEF StartFails, StartWorks, Assign, Goto, TypeOK, Rest
  <2>2. pc[Reap] = "unborn" /\ proc = "none" /\ exit = "none" /\ state.text = "pending"
    BY <2>1 DEF ControlInv, PendingInv, AsString
  <2>3. ControlInv' /\ StoreInv' /\ PendingInv' /\ ReportInv'
    BY <1>0, <2>1, <2>2 DEF ControlInv, StoreInv, PendingInv, ReportInv, Stored, After
  <2>4. TextInv' /\ QuietInv'
    BY <1>0, <2>1, <2>2 DEF TextInv, QuietInv, After, Is, Words
  <2> QED
    BY <2>3, <2>4
<1>3. CASE Abort \/ SpawnReaper
  <2>1. /\ store[Inv].words = {} /\ pc'[Inv] = "reply" /\ UNCHANGED <<proc, exit, state, exitCode, store>>
        /\ \/ pc[Inv] = "abort" /\ pc'[Reap] = pc[Reap]
           \/ pc[Inv] = "spawn" /\ pc'[Reap] = "wait" /\ finished' = finished
    BY <1>3 DEF Abort, SpawnReaper, Goto, TypeOK, Rest, Stored
  <2>2. pc[Reap] = "unborn" /\ (pc[Inv] = "abort" => proc = "none") /\ (pc[Inv] = "spawn" => proc # "none")
    BY <2>1 DEF ControlInv
  <2>3. ControlInv' /\ StoreInv' /\ PendingInv' /\ ReportInv'
    BY <1>0, <2>1, <2>2 DEF ControlInv, StoreInv, PendingInv, ReportInv, Stored, After
  <2>4. TextInv'
    BY <2>1, <2>2 DEF TextInv, After
  <2>5. QuietInv'
    BY <1>0, <2>1, <2>2 DEF QuietInv, After, Is, Accepted
  <2> QED
    BY <2>3, <2>4, <2>5
<1>4. CASE InvokeReply
  <2>1. /\ pc[Inv] = "reply" /\ pc'[Inv] = "replied" /\ pc'[Reap] = pc[Reap]
        /\ UNCHANGED <<proc, exit, state, finished, exitCode, store>>
    BY <1>4 DEF InvokeReply, Goto, TypeOK, Rest
  <2>2. ControlInv' /\ StoreInv' /\ PendingInv' /\ ReportInv'
    BY <1>0, <2>1 DEF ControlInv, StoreInv, PendingInv, ReportInv, Stored, After, TheVerdict, TheCode
  <2>3. TextInv' /\ QuietInv'
    BY <1>0, <2>1 DEF TextInv, QuietInv, After, TheVerdict, Is, Accepted
  <2> QED
    BY <2>2, <2>3
<1> QED
  BY <1>1, <1>2, <1>3, <1>4 DEF InvokeStep

(* The goroutine that waits for the process keeps the core invariant. *)
LEMMA ReaperCore == TypeOK /\ CoreInv /\ (ReaperStep \/ Exit) => CoreInv'
<1> SUFFICES ASSUME TypeOK, CoreInv, ReaperStep \/ Exit PROVE CoreInv'
  OBVIOUS
<1> USE Distinctness DEF CoreInv
<1>0. /\ pc'[Inv] = pc[Inv] /\ \A k \in Killers : pc'[k] = pc[k]
      /\ store'[Inv] = store[Inv] /\ \A k \in Killers : store'[k] = store[k]
      /\ state' = state
  BY DEF ReaperStep, Exit, Wait, Stamp, Verdict, CloseSubscribers, CloseDone, Goto, Assign, TypeOK
<1>1. CASE Exit
  <2>1. /\ proc = "live" /\ proc' = "zombie" /\ exit' \in {"ok", "code", "signal", "lost"}
        /\ UNCHANGED <<pc, state, finished, exitCode, store>>
    BY <1>1 DEF Exit
  <2>2. pc[Reap] \in {"unborn", "wait"} /\ pc[Reap] \notin After
    BY <2>1 DEF ControlInv, After
  <2>3. ControlInv' /\ StoreInv' /\ PendingInv' /\ ReportInv'
    BY <2>1, <2>2 DEF ControlInv, StoreInv, PendingInv, ReportInv, Stored, After
  <2>4. TextInv'
    BY <2>1, <2>2 DEF TextInv, After
  <2>5. QuietInv'
    BY <2>1, <2>2 DEF QuietInv, Accepted, Is, After
  <2> QED
    BY <2>3, <2>4, <2>5
<1>2. CASE Wait \/ Stamp
  <2>1. /\ pc[Reap] \in {"wait", "stamp"} /\ pc'[Reap] \in {"stamp", "verdict"}
        /\ pc[Reap] = "wait"  => /\ proc = "zombie" /\ proc' = "reaped" /\ finished' = finished
                                /\ pc'[Reap] = "stamp"
        /\ pc[Reap] = "stamp" => proc' = proc /\ finished'
        /\ UNCHANGED <<exit, exitCode, store>>
    BY <1>2 DEF Wait, Stamp, Goto, TypeOK
  <2>2. /\ pc[Reap] \notin After /\ pc'[Reap] \notin After /\ proc # "none" /\ proc' # "none"
        /\ pc[Inv] \in {"reply", "replied"}
    BY <2>1 DEF ControlInv, After
  <2>3. ControlInv' /\ StoreInv' /\ PendingInv' /\ ReportInv'
    BY <1>0, <2>1, <2>2 DEF ControlInv, StoreInv, PendingInv, ReportInv, Stored, After
  <2>4. TextInv'
    BY <1>0, <2>1, <2>2 DEF TextInv
  <2>5. QuietInv'
    BY <1>0, <2>1, <2>2 DEF QuietInv, Accepted, Is
  <2> QED
    BY <2>3, <2>4, <2>5
<1>3. CASE Verdict
  <2>1. /\ pc[Reap] = "verdict" /\ pc'[Reap] = "close" /\ store'[Reap].words = Words
        /\ store'[Reap].to = TheVerdict /\ UNCHANGED <<proc, exit, finished>>
        /\ exitCode' = CASE exit = "code" -> 1 [] exit = "signal" -> -1 [] OTHER -> exitCode
    BY <1>3 DEF Verdict, Assign, Goto, TypeOK, TheVerdict
  <2>2. pc[Inv] \in {"reply", "replied"} /\ proc = "reaped"
    BY <2>1 DEF ControlInv
  <2>3. finished /\ exitCode = 0
    BY <2>1 DEF ReportInv, After
  <2>4. ControlInv' /\ StoreInv' /\ PendingInv' /\ ReportInv'
    BY <1>0, <2>1, <2>2, <2>3
       DEF ControlInv, StoreInv, PendingInv, ReportInv, Stored, After, TheVerdict, TheCode
  <2>5. TextInv'
    BY <1>0, <2>1, <2>2 DEF TextInv, After, TheVerdict, Words
  <2>6. QuietInv'
    BY <1>0, <2>1, <2>2 DEF QuietInv, Accepted, Is, After, Words
  <2> QED
    BY <2>4, <2>5, <2>6
<1>4. CASE CloseSubscribers
  <2>1. /\ pc[Reap] = "close" /\ pc'[Reap] = "finish" /\ store[Reap].words = {}
        /\ UNCHANGED <<proc, exit, finished, store>>
        /\ exitCode' = IF exit = "ok" THEN 0 ELSE exitCode
    BY <1>4 DEF CloseSubscribers, TypeOK, Stored
  <2>2. pc[Inv] \in {"reply", "replied"} /\ proc = "reaped"
    BY <2>1 DEF ControlInv, After
  <2>3. ControlInv' /\ StoreInv' /\ PendingInv' /\ ReportInv'
    BY <1>0, <2>1, <2>2
       DEF ControlInv, StoreInv, PendingInv, ReportInv, Stored, After, TheVerdict, TheCode
  <2>4. TextInv'
    BY <1>0, <2>1, <2>2 DEF TextInv, After, TheVerdict
  <2>5. QuietInv'
    BY <1>0, <2>1, <2>2 DEF QuietInv, Accepted, Is, After, TheVerdict
  <2> QED
    BY <2>3, <2>4, <2>5
<1>5. CASE CloseDone
  <2>1. /\ pc[Reap] = "finish" /\ pc'[Reap] = "end"
        /\ UNCHANGED <<proc, exit, finished, exitCode, store>>
    BY <1>5 DEF CloseDone, Goto, TypeOK
  <2>2. pc[Inv] \in {"reply", "replied"} /\ proc = "reaped"
    BY <2>1 DEF ControlInv, After
  <2>3. ControlInv' /\ StoreInv' /\ PendingInv' /\ ReportInv'
    BY <1>0, <2>1, <2>2
       DEF ControlInv, StoreInv, PendingInv, ReportInv, Stored, After, TheVerdict, TheCode
  <2>4. TextInv'
    BY <1>0, <2>1, <2>2 DEF TextInv, After, TheVerdict
  <2>5. QuietInv'
    BY <1>0, <2>1, <2>2 DEF QuietInv, Accepted, Is, After, TheVerdict
  <2> QED
    BY <2>3, <2>4, <2>5
<1> QED
  BY <1>1, <1>2, <1>3, <1>4, <1>5 DEF ReaperStep

(* A word stored by a writer is the word its goroutine is entitled to store. *)
LEMMA StoreCore == ASSUME NEW w \in Writers, TypeOK, CoreInv, StoreStep(w) PROVE CoreInv'
<1> USE Distinctness DEF CoreInv
<1>1. /\ UNCHANGED <<pc, proc, exit, finished, exitCode>> /\ ~Stored(w)
      /\ \A v \in Writers : store'[v].to = store[v].to /\ store'[v].words \subseteq store[v].words
      /\ \A v \in Writers \ {w} : store'[v] = store[v]
      /\ \/ /\ state'.text = store[w].to /\ state'.len = state.len
            /\ store'[w].words = store[w].words \ {"text"}
         \/ /\ state'.len = Length[store[w].to] /\ state'.text = state.text
            /\ store'[w].words = store[w].words \ {"len"}
  <2>1. CASE StoreText(w)
    <3>1. state'.text = store[w].to /\ state'.len = state.len
      BY <2>1 DEF StoreText, TypeOK, StringWords
    <3>2. /\ \A v \in Writers : store'[v].to = store[v].to /\ store'[v].words \subseteq store[v].words
          /\ \A v \in Writers \ {w} : store'[v] = store[v]
          /\ store'[w].words = store[w].words \ {"text"} /\ ~Stored(w)
      BY <2>1 DEF StoreText, TypeOK, Stored
    <3> QED
      BY <2>1, <3>1, <3>2 DEF StoreText
  <2>2. CASE StoreLen(w)
    <3>1. state'.len = Length[store[w].to] /\ state'.text = state.text
      BY <2>2 DEF StoreLen, TypeOK, StringWords
    <3>2. /\ \A v \in Writers : store'[v].to = store[v].to /\ store'[v].words \subseteq store[v].words
          /\ \A v \in Writers \ {w} : store'[v] = store[v]
          /\ store'[w].words = store[w].words \ {"len"} /\ ~Stored(w)
      BY <2>2 DEF StoreLen, TypeOK, Stored
    <3> QED
      BY <2>2, <3>1, <3>2 DEF StoreLen
  <2> QED
    BY <2>1, <2>2 DEF StoreStep
<1>2. ControlInv' /\ StoreInv' /\ ReportInv'
  BY <1>1 DEF ControlInv, StoreInv, ReportInv, Stored, TheVerdict, TheCode
<1>3. \/ w = Inv  /\ pc[Inv] = "abort" /\ store[w].to = "failed"
      \/ w = Inv  /\ pc[Inv] = "spawn" /\ store[w].to = "running"
      \/ w = Reap /\ pc[Reap] = "close" /\ store[w].to = TheVerdict
      \/ w \in Killers /\ pc[w] = "signalled" /\ store[w].to = "killed"
  BY <1>1 DEF StoreInv, Writers
<1>4. PendingInv'
  BY <1>1, <1>3 DEF PendingInv, ControlInv, After
<1>5. TextInv'
  BY <1>1, <1>3 DEF TextInv, ControlInv, After, TheVerdict
<1>6. QuietInv'
  BY <1>1, <1>3 DEF QuietInv, ControlInv, After, TheVerdict, Is, Accepted
<1> QED
  BY <1>2, <1>4, <1>5, <1>6

(* The handler of kill keeps the core invariant. *)
LEMMA KillCore == ASSUME NEW k \in Killers, TypeOK, CoreInv, KillStep(k) PROVE CoreInv'
<1> USE Distinctness DEF CoreInv
<1>1. /\ UNCHANGED <<proc, exit, state, finished, exitCode>>
      /\ pc'[Inv] = pc[Inv] /\ pc'[Reap] = pc[Reap]
      /\ store'[Inv] = store[Inv] /\ store'[Reap] = store[Reap]
      /\ \A l \in Killers \ {k} : pc'[l] = pc[l] /\ store'[l] = store[l]
      /\ \/ pc'[k] = "refused" /\ pc[k] = "away" /\ store' = store
         \/ /\ pc'[k] = "signalled" /\ store'[k].to = "killed" /\ pc[k] = "away"
            /\ proc \in {"live", "zombie"}
         \/ pc'[k] = "replied" /\ pc[k] = "signalled" /\ store' = store /\ Stored(k)
  BY DEF KillStep, KillRefused, Signal, KillReply, Assign, Goto, TypeOK, Rest
<1>2. ControlInv' /\ StoreInv' /\ ReportInv'
  BY <1>1 DEF ControlInv, StoreInv, ReportInv, Stored, TheVerdict, TheCode, After
<1>3. PendingInv'
  BY <1>1 DEF PendingInv, ControlInv
<1>4. TextInv'
  BY <1>1 DEF TextInv, TheVerdict, After
<1>5. QuietInv'
  BY <1>1 DEF QuietInv, TheVerdict, After, Is, Accepted
<1> QED
  BY <1>2, <1>3, <1>4, <1>5

(* Every step keeps the core invariant. *)
LEMMA CoreNext == TypeOK /\ CoreInv /\ [Next]_vars => CoreInv'
<1> SUFFICES ASSUME TypeOK, CoreInv, [Next]_vars PROVE CoreInv'
  OBVIOUS
<1>1. CASE InvokeStep
  BY <1>1, InvokeCore
<1>2. CASE ReaperStep \/ Exit
  BY <1>2, ReaperCore
<1>3. ASSUME NEW w \in Writers, StoreStep(w) PROVE CoreInv'
  BY <1>3, StoreCore
<1>4. ASSUME NEW k \in Killers, KillStep(k) PROVE CoreInv'
  BY <1>4, KillCore
<1>5. ASSUME NEW r \in Readers, LoadStep(r) PROVE CoreInv'
  BY <1>5, CoreFrame DEF LoadStep, LoadText, LoadLen
<1>6. ASSUME NEW w \in Watchers, WatchStep(w) PROVE CoreInv'
  <2>1. UNCHANGED <<proc, exit, state, finished, exitCode, store>> /\ \A v \in Writers : pc'[v] = pc[v]
    BY <1>6, Distinctness DEF WatchStep, Subscribe, StateEvent, Leave, Goto, Rest, TypeOK, Writers
  <2> QED
    BY <2>1, CoreFrame
<1>7. ASSUME NEW p \in Pollers, PollStep(p) PROVE CoreInv'
  <2>1. UNCHANGED <<proc, exit, state, finished, exitCode, store>> /\ \A v \in Writers : pc'[v] = pc[v]
    BY <1>7, Distinctness DEF PollStep, Poll, PollFinished, PollCode, Goto, Rest, TypeOK, Writers
  <2> QED
    BY <2>1, CoreFrame
<1>8. CASE UNCHANGED vars
  BY <1>8, CoreFrame DEF vars
<1> QED
  BY <1>1, <1>2, <1>3, <1>4, <1>5, <1>6, <1>7, <1>8 DEF Next

-----------------------------------------------------------------------------
(* The readers. *)

(* What a reader has seen stays true: a verdict is final for the exit, its code and
   the goroutines that gave it. *)
Final == /\ pc[Reap] \in After => pc'[Reap] \in After /\ exit' = exit /\ exitCode' = exitCode
         /\ pc[Reap] \in {"finish", "end"} => pc'[Reap] \in {"finish", "end"}
         /\ proc = "none" /\ pc[Inv] \in {"abort", "reply", "replied"}
              => proc' = "none" /\ pc'[Inv] \in {"abort", "reply", "replied"}

(* The handler of invoke and the reaper never write over a final state. *)
LEMMA FinalWriters ==
  ASSUME TypeOK, CoreInv, InvokeStep \/ ReaperStep \/ Exit PROVE Final
<1> USE Distinctness DEF CoreInv
<1>1. CASE InvokeStep
  BY <1>1 DEF InvokeStep, Reject, Publish, StartFails, Abort, StartWorks, SpawnReaper, InvokeReply,
              Goto, Assign, TypeOK, Rest, ControlInv, After, Final
<1>2. CASE Wait \/ Stamp \/ CloseDone \/ Exit
  BY <1>2 DEF Wait, Stamp, CloseDone, Exit, Goto, TypeOK, ControlInv, After, Final
<1>3. CASE Verdict
  BY <1>3 DEF Verdict, Assign, Goto, TypeOK, ControlInv, After, Final
<1>4. CASE CloseSubscribers
  <2>1. exitCode' = exitCode
    BY <1>4 DEF CloseSubscribers, ReportInv, After, TheCode
  <2>2. pc'[Reap] = "finish" /\ pc'[Inv] = pc[Inv] /\ UNCHANGED <<proc, exit>>
    BY <1>4 DEF CloseSubscribers, TypeOK
  <2> QED
    BY <1>4, <2>1, <2>2 DEF CloseSubscribers, After, Final
<1> QED
  BY <1>1, <1>2, <1>3, <1>4 DEF ReaperStep

(* A step that touches no reader but those the close releases. *)
LEMMA SeenFrame ==
  ASSUME TypeOK, CoreInv, SeenInv, CoreInv', Final, seen' = seen, report' = report,
         \A p \in Pollers : pc'[p] = pc[p],
         \A w \in Watchers : \/ pc'[w] = pc[w]
                             \/ pc[w] = "joined" /\ pc'[w] = "load" /\ pc'[Reap] = "finish"
  PROVE  SeenInv'
<1> USE Distinctness
<1>1. ASSUME NEW r \in Readers, "text" \in seen[r].words
      PROVE  /\ seen[r].text = "done"   => pc'[Reap] \in After /\ exit' = "ok"
             /\ seen[r].text = "failed" => \/ proc' = "none" /\ pc'[Inv] \in {"abort", "reply", "replied"}
                                           \/ pc'[Reap] \in After /\ exit' # "ok"
  BY <1>1 DEF SeenInv, Final
<1>2. ASSUME NEW w \in Watchers
      PROVE  /\ pc'[w] \in {"away", "joined", "stranded", "load", "sent", "gone"}
             /\ pc'[w] \in {"load", "sent"} => pc'[Reap] \in {"finish", "end"}
             /\ pc'[w] \in {"load", "sent"} /\ "text" \in seen[w].words
                  => seen[w].text \in {TheVerdict', "killed"}
             /\ pc'[w] = "sent" => Loaded(w)'
             /\ pc'[w] \in {"away", "joined", "stranded"} => seen[w].words = {}
  <2>1. CASE pc'[w] = pc[w]
    BY <1>2, <2>1 DEF SeenInv, Final, Loaded, TheVerdict, After
  <2>2. CASE pc[w] = "joined" /\ pc'[w] = "load" /\ pc'[Reap] = "finish"
    BY <1>2, <2>2 DEF SeenInv
  <2> QED
    BY <2>1, <2>2
<1>3. ASSUME NEW p \in Pollers
      PROVE  /\ pc'[p] \in {"away", "load", "code", "replied"}
             /\ pc'[p] \in {"code", "replied"} => Loaded(p)'
             /\ pc'[p] \in {"code", "replied"} /\ proc' # "none" /\ seen[p].text \in {"done", "failed"}
                  => report[p].finished
             /\ pc'[p] = "replied" /\ proc' # "none" /\ seen[p].text \in {"done", "failed"}
                  => report[p].exitCode = exitCode'
  <2>1. pc[p] \in {"code", "replied"} /\ proc' # "none" /\ seen[p].text \in {"done", "failed"}
          => proc # "none" /\ pc[Reap] \in After
    <3>1. pc[p] \in {"code", "replied"} => "text" \in seen[p].words
      BY DEF SeenInv, Loaded, Words
    <3>2. proc = "none" => pc[Reap] \notin After
      BY DEF CoreInv, ControlInv, After
    <3> QED
      BY <3>1, <3>2 DEF SeenInv, Final
  <2> QED
    BY <2>1 DEF SeenInv, Final, Loaded
<1> QED
  BY <1>1, <1>2, <1>3 DEF SeenInv

(* A step of one reader that leaves the writers alone. *)
LEMMA LoadSeen == ASSUME TypeOK, CoreInv, SeenInv, NEW r \in Readers, LoadStep(r) PROVE SeenInv'
<1> USE Distinctness
<1>1. /\ UNCHANGED <<pc, proc, exit, finished, exitCode, report>> /\ pc[r] = "load"
      /\ \A q \in Readers \ {r} : seen'[q] = seen[q]
      /\ \/ seen'[r].text = seen[r].text /\ seen'[r].words = seen[r].words \union {"len"}
         \/ seen'[r].text = state.text /\ seen'[r].words = seen[r].words \union {"text"}
  <2>1. CASE LoadText(r)
    BY <2>1 DEF LoadText, TypeOK
  <2>2. CASE LoadLen(r)
    BY <2>2 DEF LoadLen, TypeOK
  <2> QED
    BY <2>1, <2>2 DEF LoadStep
<1>2. /\ state.text = "done"   => pc[Reap] \in After /\ exit = "ok"
      /\ state.text = "failed" => \/ proc = "none" /\ pc[Inv] \in {"abort", "reply", "replied"}
                                  \/ pc[Reap] \in After /\ exit # "ok"
      /\ pc[Reap] \in {"finish", "end"} => state.text \in {TheVerdict, "killed"}
  BY DEF CoreInv, TextInv, StoreInv, Stored, After
<1>3. \A q \in Readers : "text" \in seen'[q].words =>
       /\ seen'[q].text = "done"   => pc[Reap] \in After /\ exit = "ok"
       /\ seen'[q].text = "failed" => \/ proc = "none" /\ pc[Inv] \in {"abort", "reply", "replied"}
                                      \/ pc[Reap] \in After /\ exit # "ok"
  BY <1>1, <1>2 DEF SeenInv
<1>4. ASSUME NEW w \in Watchers
      PROVE  /\ pc[w] \in {"load", "sent"} /\ "text" \in seen'[w].words
                  => seen'[w].text \in {TheVerdict, "killed"}
             /\ pc[w] = "sent" => Loaded(w)'
             /\ pc[w] \in {"away", "joined", "stranded"} => seen'[w].words = {}
  <2>1. CASE w = r
    BY <1>1, <1>2, <2>1 DEF SeenInv
  <2>2. CASE w # r
    BY <1>1, <2>2 DEF SeenInv, Loaded
  <2> QED
    BY <2>1, <2>2
<1>5. ASSUME NEW p \in Pollers, pc[p] \in {"code", "replied"} PROVE seen'[p] = seen[p]
  BY <1>1, <1>5
<1> QED
  BY <1>1, <1>3, <1>4, <1>5 DEF SeenInv, Loaded, TheVerdict

(* A step of a watcher keeps what readers have seen in line with the writers. *)
LEMMA WatchSeen == ASSUME TypeOK, CoreInv, SeenInv, NEW w \in Watchers, WatchStep(w) PROVE SeenInv'
<1> USE Distinctness
<1>1. /\ UNCHANGED <<proc, exit, finished, exitCode, seen, report>>
      /\ pc'[Inv] = pc[Inv] /\ pc'[Reap] = pc[Reap]
      /\ \A q \in Readers \ {w} : pc'[q] = pc[q]
      /\ \/ pc[w] = "away" /\ pc'[w] \in {"joined", "stranded"}
         \/ pc[w] = "load" /\ pc'[w] = "sent" /\ Loaded(w)
         \/ pc[w] \in {"joined", "stranded"} /\ pc'[w] = "gone"
  BY DEF WatchStep, Subscribe, StateEvent, Leave, Goto, TypeOK, Rest
<1>2. ASSUME NEW v \in Watchers
      PROVE  /\ pc'[v] \in {"away", "joined", "stranded", "load", "sent", "gone"}
             /\ pc'[v] \in {"load", "sent"} => pc[Reap] \in {"finish", "end"}
             /\ pc'[v] \in {"load", "sent"} /\ "text" \in seen[v].words
                  => seen[v].text \in {TheVerdict, "killed"}
             /\ pc'[v] = "sent" => Loaded(v)
             /\ pc'[v] \in {"away", "joined", "stranded"} => seen[v].words = {}
  BY <1>1 DEF SeenInv
<1>3. \A p \in Pollers : pc'[p] = pc[p]
  BY <1>1
<1> QED
  BY <1>1, <1>2, <1>3 DEF SeenInv, Loaded, TheVerdict

(* A step of a poller keeps what pollers have seen true of the job. *)
LEMMA PollSeen == ASSUME TypeOK, CoreInv, SeenInv, NEW p \in Pollers, PollStep(p) PROVE SeenInv'
<1> USE Distinctness
<1>1. /\ UNCHANGED <<proc, exit, finished, exitCode, seen>>
      /\ pc'[Inv] = pc[Inv] /\ pc'[Reap] = pc[Reap]
      /\ \A q \in Readers \ {p} : pc'[q] = pc[q]
      /\ \A q \in Pollers \ {p} : report'[q] = report[q]
      /\ \/ pc[p] = "away" /\ pc'[p] = "load"
         \/ pc[p] = "load" /\ pc'[p] = "code" /\ Loaded(p) /\ report'[p].finished = finished
         \/ /\ pc[p] = "code" /\ pc'[p] = "replied" /\ report'[p].exitCode = exitCode
            /\ report'[p].finished = report[p].finished
  <2>1. CASE Poll(p)
    BY <2>1 DEF Poll, Goto, TypeOK, Rest
  <2>2. CASE PollFinished(p)
    BY <2>2 DEF PollFinished, Goto, TypeOK
  <2>3. CASE PollCode(p)
    BY <2>3 DEF PollCode, Goto, TypeOK
  <2> QED
    BY <2>1, <2>2, <2>3 DEF PollStep
<1>2. Loaded(p) /\ proc # "none" /\ seen[p].text \in {"done", "failed"} => finished
  BY DEF SeenInv, Loaded, Words, CoreInv, ReportInv
<1>3. ASSUME NEW q \in Pollers
      PROVE  /\ pc'[q] \in {"away", "load", "code", "replied"}
             /\ pc'[q] \in {"code", "replied"} => Loaded(q)
             /\ pc'[q] \in {"code", "replied"} /\ proc # "none" /\ seen[q].text \in {"done", "failed"}
                  => report'[q].finished
             /\ pc'[q] = "replied" /\ proc # "none" /\ seen[q].text \in {"done", "failed"}
                  => report'[q].exitCode = exitCode
  BY <1>1, <1>2 DEF SeenInv
<1>4. \A w \in Watchers : pc'[w] = pc[w]
  BY <1>1
<1> QED
  BY <1>1, <1>3, <1>4 DEF SeenInv, Loaded, TheVerdict

(* Nobody has seen anything at the start. *)
LEMMA SeenInit == Init => SeenInv
<1> SUFFICES ASSUME Init PROVE SeenInv
  OBVIOUS
<1>1. \A r \in Readers : pc[r] = "away" /\ seen[r].words = {}
  BY Distinctness DEF Init, NoWord, Writers
<1> QED
  BY <1>1, Distinctness DEF SeenInv

(* Every step keeps what has been seen true of the job. *)
LEMMA SeenNext == TypeOK /\ CoreInv /\ SeenInv /\ [Next]_vars => SeenInv'
<1> SUFFICES ASSUME TypeOK, CoreInv, SeenInv, [Next]_vars PROVE SeenInv'
  OBVIOUS
<1>0. CoreInv'
  BY CoreNext
<1>1. CASE InvokeStep \/ ReaperStep \/ Exit
  <2>1. seen' = seen /\ report' = report
    BY <1>1 DEF InvokeStep, ReaperStep, Exit, Reject, Publish, StartFails, Abort, StartWorks, Rest,
                SpawnReaper, InvokeReply, Wait, Stamp, Verdict, CloseSubscribers, CloseDone
  <2>2. \A p \in Pollers : pc'[p] = pc[p]
    BY <1>1, Distinctness
       DEF InvokeStep, ReaperStep, Exit, Reject, Publish, StartFails, Abort, StartWorks, Goto, Assign,
           SpawnReaper, InvokeReply, Wait, Stamp, Verdict, CloseSubscribers, CloseDone, TypeOK
  <2>3. \A w \in Watchers : \/ pc'[w] = pc[w]
                            \/ pc[w] = "joined" /\ pc'[w] = "load" /\ pc'[Reap] = "finish"
    BY <1>1, Distinctness
       DEF InvokeStep, ReaperStep, Exit, Reject, Publish, StartFails, Abort, StartWorks, Goto, Assign,
           SpawnReaper, InvokeReply, Wait, Stamp, Verdict, CloseSubscribers, CloseDone, TypeOK
  <2>4. Final
    BY <1>1, FinalWriters
  <2> QED
    BY <1>0, <2>1, <2>2, <2>3, <2>4, SeenFrame
<1>2. ASSUME NEW w \in Writers, StoreStep(w) PROVE SeenInv'
  BY <1>0, <1>2, SeenFrame DEF StoreStep, StoreText, StoreLen, Final
<1>3. ASSUME NEW k \in Killers, KillStep(k) PROVE SeenInv'
  <2>1. /\ UNCHANGED <<proc, exit, exitCode, seen, report>>
        /\ pc'[Inv] = pc[Inv] /\ pc'[Reap] = pc[Reap]
        /\ \A r \in Readers : pc'[r] = pc[r]
    BY <1>3, Distinctness DEF KillStep, KillRefused, Signal, KillReply, Assign, Goto, TypeOK, Rest
  <2>2. Final
    BY <2>1 DEF Final
  <2> QED
    BY <1>0, <2>1, <2>2, SeenFrame, Distinctness
<1>4. ASSUME NEW r \in Readers, LoadStep(r) PROVE SeenInv'
  BY <1>4, LoadSeen
<1>5. ASSUME NEW w \in Watchers, WatchStep(w) PROVE SeenInv'
  BY <1>5, WatchSeen
<1>6. ASSUME NEW p \in Pollers, PollStep(p) PROVE SeenInv'
  BY <1>6, PollSeen
<1>7. CASE UNCHANGED vars
  BY <1>0, <1>7, SeenFrame DEF vars, Final
<1> QED
  BY <1>1, <1>2, <1>3, <1>4, <1>5, <1>6, <1>7 DEF Next

-----------------------------------------------------------------------------
(* The results. *)

(* The variables keep their types, whatever the numbers of handlers. *)
THEOREM TypeCorrect == Spec => []TypeOK
<1>1. Init => TypeOK
  BY TypeInit
<1>2. TypeOK /\ [Next]_vars => TypeOK'
  BY TypeNext
<1> QED
  BY <1>1, <1>2, PTL DEF Spec

(* The verdict argument as one inductive invariant: who may store what at each
   step, where the text of State comes from, and what readers have seen of it. *)
THEOREM InductiveInvariant == Spec => []IndInv
<1>1. Init => IndInv
  BY TypeInit, CoreInit, SeenInit DEF IndInv
<1>2. IndInv /\ [Next]_vars => IndInv'
  BY TypeNext, CoreNext, SeenNext DEF IndInv
<1> QED
  BY <1>1, <1>2, PTL DEF Spec

(* The reaper's verdict is never overwritten by the running of invoke. *)
THEOREM VerdictLasts == Spec => []SettledIsTerminal
<1>1. IndInv => SettledIsTerminal
  <2> SUFFICES ASSUME IndInv, Settled PROVE state.text \in Terminal
    BY DEF SettledIsTerminal
  <2>1. pc[Reap] \in After /\ "text" \notin store[Reap].words
    BY DEF Settled, After, Stored, IndInv, CoreInv, StoreInv
  <2>2. state.text \in {TheVerdict, "killed"}
    BY <2>1 DEF IndInv, CoreInv, TextInv
  <2> QED
    BY <2>2 DEF TheVerdict, Terminal
<1> QED
  BY <1>1, InductiveInvariant, PTL

(* A two-word value with the words of a constant is that constant. *)
LEMMA WholeString ==
  ASSUME TypeOK, NEW s \in JobStates, state.text = s, state.len = Length[s]
  PROVE  state = AsString(s) /\ state \in Declared
BY DEF TypeOK, StringWords, AsString, Declared

(* With no kill accepted and no store under way State is a whole constant, and the
   right one. *)
THEOREM QuietStateExact == Spec => []QuietStateIsExact
<1>1. IndInv => QuietStateIsExact
  <2> SUFFICES ASSUME IndInv, NoStore, \A k \in Killers : ~Accepted(k)
               PROVE  /\ state \in Declared
                      /\ Settled => state.text = IF exit = "ok" THEN "done" ELSE "failed"
    BY DEF QuietStateIsExact
  <2> USE DEF IndInv, CoreInv
  <2>0. store[Inv].words = {} /\ store[Reap].words = {}
    BY Distinctness DEF NoStore, Stored
  <2>1. CASE pc[Inv] \in {"admit", "rejected", "start"}
    <3>1. state = AsString("pending") /\ ~Settled
      BY <2>1 DEF PendingInv, ControlInv, Settled
    <3> QED
      BY <3>1 DEF Declared, JobStates
  <2>2. CASE pc[Inv] \notin {"admit", "rejected", "start"}
    <3>1. PICK s \in JobStates : /\ state.text = s /\ state.len = Length[s]
                                 /\ Settled => s = TheVerdict
      <4>1. CASE pc[Inv] = "abort"
        BY <4>1, <2>0 DEF QuietInv, Is, JobStates, Settled, ControlInv
      <4>2. CASE pc[Inv] = "spawn"
        <5>1. ~Settled
          BY <4>2 DEF Settled, ControlInv
        <5>2. state.text = "running" /\ state.len = Length["running"]
          BY <4>2, <2>0 DEF QuietInv, Is
        <5> QED
          BY <5>1, <5>2 DEF JobStates
      <4>3. CASE pc[Inv] \in {"reply", "replied"}
        <5>1. CASE proc = "none"
          <6>1. ~Settled
            BY <5>1 DEF Settled, ControlInv
          <6>2. state.text = "failed" /\ state.len = Length["failed"]
            BY <4>3, <5>1 DEF QuietInv, Is, ControlInv, After
          <6> QED
            BY <6>1, <6>2 DEF JobStates
        <5>2. CASE proc # "none" /\ pc[Reap] \in After
          BY <4>3, <5>2, <2>0 DEF QuietInv, Is, JobStates, TheVerdict
        <5>3. CASE proc # "none" /\ pc[Reap] \notin After
          BY <4>3, <5>3, <2>0 DEF QuietInv, Is, JobStates, Settled, After
        <5> QED
          BY <5>1, <5>2, <5>3
      <4> QED
        BY <2>2, <4>1, <4>2, <4>3 DEF ControlInv
    <3>2. state \in Declared
      BY <3>1, WholeString
    <3> QED
      BY <3>1, <3>2 DEF TheVerdict
  <2> QED
    BY <2>1, <2>2
<1> QED
  BY <1>1, InductiveInvariant, PTL

(* The event a stream ends with never contradicts how the child exited. *)
THEOREM StreamVerdict == Spec => []StreamEndsWithVerdict
<1>1. IndInv => StreamEndsWithVerdict
  <2> SUFFICES ASSUME IndInv, NEW w \in Watchers, pc[w] = "sent"
               PROVE  /\ seen[w].text \in Terminal
                      /\ seen[w].text = "done"   => exit = "ok"
                      /\ seen[w].text = "failed" => exit # "ok"
    BY DEF StreamEndsWithVerdict
  <2>1. seen[w].text \in {TheVerdict, "killed"}
    BY DEF IndInv, SeenInv, Loaded, Words
  <2> QED
    BY <2>1 DEF TheVerdict, Terminal
<1> QED
  BY <1>1, InductiveInvariant, PTL

(* The three fields of a status reply agree although they are loaded unlocked. *)
THEOREM PollCoherence == Spec => []PollIsCoherent
<1>1. IndInv => PollIsCoherent
  <2> SUFFICES ASSUME IndInv, NEW p \in Pollers, pc[p] = "replied", proc # "none"
               PROVE  /\ seen[p].text \in {"done", "failed"} => report[p].finished
                      /\ seen[p].text = "done" => report[p].exitCode = 0
                      /\ seen[p].text = "failed" /\ exit # "lost" => report[p].exitCode # 0
    BY DEF PollIsCoherent
  <2>1. p \in Readers /\ "text" \in seen[p].words
    BY Distinctness DEF IndInv, SeenInv, Loaded, Words
  <2>2. /\ seen[p].text = "done"   => pc[Reap] \in After /\ exit = "ok"
        /\ seen[p].text = "failed" => pc[Reap] \in After /\ exit # "ok"
    BY <2>1 DEF IndInv, SeenInv
  <2>3. exit \in {"ok", "code", "signal", "lost"} \/ proc = "live"
    BY DEF IndInv, TypeOK, CoreInv, ControlInv
  <2>4. pc[Reap] \in After => proc = "reaped" /\ exitCode = TheCode
    BY DEF IndInv, TypeOK, CoreInv, ControlInv, ReportInv, After
  <2>5. seen[p].text \in {"done", "failed"} =>
          report[p].finished /\ report[p].exitCode = exitCode
    BY DEF IndInv, SeenInv
  <2> QED
    BY <2>2, <2>3, <2>4, <2>5 DEF TheCode
<1> QED
  BY <1>1, InductiveInvariant, PTL

(* A settled job with no kill in progress keeps its state: the child is reaped, so
   every later kill is refused. *)
THEOREM SettledFrozen == Spec => SettledStateIsFrozen
<1>1. IndInv /\ [Next]_vars => (Settled /\ Quiet => state' = state /\ Settled' /\ Quiet')
  <2> SUFFICES ASSUME IndInv, [Next]_vars, Settled, Quiet
               PROVE  state' = state /\ Settled' /\ Quiet'
    OBVIOUS
  <2> USE Distinctness DEF IndInv, CoreInv
  <2>1. /\ proc = "reaped" /\ pc[Reap] \in After /\ pc[Inv] \in {"reply", "replied"}
        /\ \A w \in Writers : Stored(w)
    BY DEF Settled, After, ControlInv, StoreInv, Quiet, Writers
  <2>2. CASE InvokeStep
    BY <2>1, <2>2 DEF InvokeStep, Reject, Publish, StartFails, Abort, StartWorks, SpawnReaper,
                      InvokeReply, Goto, TypeOK, Rest, Settled, Quiet, Stored
  <2>3. CASE ReaperStep \/ Exit
    <3>1. CASE CloseSubscribers
      BY <3>1 DEF CloseSubscribers, Settled, Quiet, TypeOK
    <3>2. CASE CloseDone
      BY <3>2 DEF CloseDone, Goto, Settled, Quiet, TypeOK
    <3> QED
      BY <2>1, <2>3, <3>1, <3>2 DEF ReaperStep, Exit, Wait, Stamp, Verdict, After
  <2>4. ASSUME NEW w \in Writers, StoreStep(w) PROVE FALSE
    BY <2>1, <2>4 DEF StoreStep, StoreText, StoreLen, Stored
  <2>5. ASSUME NEW r \in Readers, LoadStep(r) PROVE state' = state /\ Settled' /\ Quiet'
    BY <2>5 DEF LoadStep, LoadText, LoadLen, Settled, Quiet, Stored
  <2>6. ASSUME NEW k \in Killers, KillStep(k) PROVE state' = state /\ Settled' /\ Quiet'
    BY <2>1, <2>6 DEF KillStep, KillRefused, Signal, KillReply, Goto, TypeOK, Rest, Settled, Quiet, Stored
  <2>7. ASSUME NEW w \in Watchers, WatchStep(w) PROVE state' = state /\ Settled' /\ Quiet'
    BY <2>7 DEF WatchStep, Subscribe, StateEvent, Leave, Goto, TypeOK, Rest, Settled, Quiet, Stored
  <2>8. ASSUME NEW p \in Pollers, PollStep(p) PROVE state' = state /\ Settled' /\ Quiet'
    BY <2>8 DEF PollStep, Poll, PollFinished, PollCode, Goto, TypeOK, Rest, Settled, Quiet, Stored
  <2>9. CASE UNCHANGED vars
    BY <2>9 DEF vars, Settled, Quiet, Stored
  <2> QED
    BY <2>2, <2>3, <2>4, <2>5, <2>6, <2>7, <2>8, <2>9 DEF Next
<1> QED
  BY <1>1, InductiveInvariant, PTL DEF Spec, SettledStateIsFrozen
=============================================================================
