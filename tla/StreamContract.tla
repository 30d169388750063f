----------------------------- MODULE StreamContract -----------------------------
(* What the stream of a job promises its clients, with no queue, lock, buffer or
   goroutine: live lines of a source appear in the order they were written, each at
   most once; a stream may miss lines (drops, and what came before it was opened),
   never shows one that was not written, shows nothing after its end, and is ended
   by the server only after the job is over.                                    *)
EXTENDS Naturals

CONSTANTS Sources, Clients

VARIABLES job,      \* pending, running, over
          written,  \* per source: how many lines it has written
          stream,   \* per client: absent, open, ended (by the server), left
          shown     \* per client and source: the last live line shown, 0 for none

vars == <<job, written, stream, shown>>

Init == /\ job = "pending"
        /\ written = [s \in Sources |-> 0]
        /\ stream = [c \in Clients |-> "absent"]
        /\ shown = [c \in Clients |-> [s \in Sources |-> 0]]

Begin  == job = "pending" /\ job' = "running" /\ UNCHANGED <<written, stream, shown>>
Finish == job = "running" /\ job' = "over"    /\ UNCHANGED <<written, stream, shown>>

Produce(s) == /\ job = "running"
              /\ written' = [written EXCEPT ![s] = @ + 1]
              /\ UNCHANGED <<job, stream, shown>>

Open(c)  == /\ stream[c] = "absent"
            /\ stream' = [stream EXCEPT ![c] = "open"]
            /\ UNCHANGED <<job, written, shown>>

Show(c, s) == /\ stream[c] = "open"
              /\ \E n \in (shown[c][s] + 1)..written[s] :
                    shown' = [shown EXCEPT ![c][s] = n]
              /\ UNCHANGED <<job, written, stream>>

End(c)   == /\ stream[c] = "open" /\ job = "over"
            /\ stream' = [stream EXCEPT ![c] = "ended"]
            /\ UNCHANGED <<job, written, shown>>

Leave(c) == /\ stream[c] = "open"
            /\ stream' = [stream EXCEPT ![c] = "left"]
            /\ UNCHANGED <<job, written, shown>>

Next == \/ Begin \/ Finish
        \/ \E s \in Sources : Produce(s)
        \/ \E c \in Clients : Open(c) \/ End(c) \/ Leave(c) \/ \E s \in Sources : Show(c, s)

Spec == Init /\ [][Next]_vars
=============================================================================
