---------------------------- MODULE NotorchMirror ----------------------------
(***************************************************************************)
(* A tensor of notorch with its copy on the device (notorch.c, USE_CUDA):   *)
(* nt_tensor's data, d_data, gpu_valid and cpu_dirty, and the four helpers  *)
(* that keep the two copies in step.  Numbers are not modelled: what a copy *)
(* holds is told apart only as the latest value or an older one.  When the  *)
(* device has no memory left, `room` is "scratch" (no new tensor fits, the  *)
(* scratch buffers are there) or "none" (neither).                          *)
(*                                                                          *)
(* The operators take a state s and return the next one, so that a handler  *)
(* of several calls is one action:                                          *)
(*   s.tape     the entries, 1..g_tape.count                                *)
(*   s.mem      the mirrors: <<"weight", w>>, <<"out", i>>, <<"grad", i>>,  *)
(*              <<"slot", k>> (Adam's m and v of slot k, always alike)      *)
(*   s.gpu      g_use_gpu, s.room the memory of the device                  *)
(*   s.misread  the reads of this call that found an older value            *)
(***************************************************************************)
EXTENDS Naturals, Sequences, FiniteSets, Functions

Rooms == {"plenty", "scratch", "none"}

Mirrors == [host : BOOLEAN, dev : {"absent", "old", "new"}, valid : BOOLEAN, dirty : BOOLEAN]

\* nt_tensor_new, with the values its caller fills in on the host.
Authored == [host |-> TRUE, dev |-> "absent", valid |-> FALSE, dirty |-> FALSE]

\* nt_tensor_ensure_gpu: allocate, then upload unless current or fresher.
EnsureGpu(t, full) ==
  LET b == IF t.dev = "absent" /\ ~full THEN [t EXCEPT !.dev = "old", !.valid = FALSE] ELSE t
  IN  IF b.dev # "absent" /\ ~b.valid /\ ~b.dirty
        THEN [b EXCEPT !.dev = IF b.host THEN "new" ELSE "old", !.valid = TRUE] ELSE b

\* nt_tensor_ensure_cpu, nt_tensor_sync_cpu: download what the device holds fresh.
EnsureCpu(t) ==
  IF t.dev # "absent" /\ t.dirty THEN [t EXCEPT !.host = (t.dev = "new"), !.dirty = FALSE] ELSE t

\* A write of one copy makes the other an older value.
HostWritten(t) == [t EXCEPT !.host = TRUE, !.dev = IF t.dev = "absent" THEN "absent" ELSE "old"]
DevWritten(t)  == [t EXCEPT !.host = FALSE, !.dev = "new"]

\* nt_tensor_mark_gpu_fresh.
MarkGpuFresh(t) == [t EXCEPT !.valid = TRUE, !.dirty = TRUE]

\* nt_tensor_mark_cpu_dirty.
MarkCpuDirty(t) == [t EXCEPT !.valid = FALSE, !.dirty = FALSE]

-----------------------------------------------------------------------------
\* Memory, seen as a partial function of tensors.
Held(s, ids) == ids \cap DOMAIN s.mem
Changed(s, ids, F(_)) == [s EXCEPT !.mem = [id \in DOMAIN s.mem |-> IF id \in ids THEN F(s.mem[id]) ELSE s.mem[id]]]
With(s, id, t) ==
  [s EXCEPT !.mem = [j \in DOMAIN s.mem \cup {id} |-> IF j = id THEN t ELSE s.mem[j]]]

Upload(s, ids) == LET f(t) == EnsureGpu(t, s.room # "plenty") IN Changed(s, ids, f)
Pull(s, ids)   == Changed(s, ids, EnsureCpu)

\* Whether every tensor of ids has a buffer on the device.
OnDevice(s, ids) == \A id \in ids : s.mem[id].dev # "absent"

\* Reads, noting the stale ones.
HostReads(s, side, op, ids) ==
  [s EXCEPT !.misread = @ \cup {[at |-> "host", side |-> side, op |-> op, of |-> id] :
                                  id \in {j \in Held(s, ids) : ~s.mem[j].host}}]
DevReads(s, side, op, ids) ==
  [s EXCEPT !.misread = @ \cup {[at |-> "device", side |-> side, op |-> op, of |-> id] :
                                  id \in {j \in Held(s, ids) : s.mem[j].dev # "new"}}]
=============================================================================
