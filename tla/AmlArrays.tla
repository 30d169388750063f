------------------------------- MODULE AmlArrays -------------------------------
(***************************************************************************)
(* The arrays of AML (ariannamethod.c): reference counts, the copy on the   *)
(* device (USE_CUDA: d_data, gpu_valid, ensure_gpu, ensure_cpu), and the    *)
(* symbol tables that own them: the globals of the running script and the   *)
(* persistent globals, which keep copies from one am_exec to the next.      *)
(* What a copy holds is told apart only as the latest value or an older one.*)
(*                                                                          *)
(* The operators take a state s and return the next one:                    *)
(*   s.heap     the arrays alive                                            *)
(*   s.vars     ctx->globals: name -> array, 0 for a number                 *)
(*   s.kept     g_persistent_globals, likewise                              *)
(*   s.cuda     built with USE_CUDA; s.full: the device fits no new array   *)
(*   s.misread  reads of this call: of an older value, or of a freed array  *)
(*   s.ret      the array an operation returns, 0 for NULL                  *)
(***************************************************************************)
EXTENDS Naturals, Sequences, FiniteSets, FiniteSetsExt, Functions

\* AM_Array.  poked: its host copy was written while the device's counted as valid,
\* and may have been overwritten with that one since.
Arrays == [refs : Nat \ {0}, host : BOOLEAN, dev : {"absent", "old", "new"}, valid : BOOLEAN, poked : BOOLEAN]
Authored == [refs |-> 1, host |-> TRUE, dev |-> "absent", valid |-> FALSE, poked |-> FALSE]
Computed == [Authored EXCEPT !.host = FALSE, !.dev = "new", !.valid = TRUE]

Update(s, id, t) == [s EXCEPT !.heap = [j \in DOMAIN @ \cup {id} |-> IF j = id THEN t ELSE @[j]]]
Changed(s, ids, F(_)) == [s EXCEPT !.heap = [j \in DOMAIN @ |-> IF j \in ids THEN F(@[j]) ELSE @[j]]]

\* am_array_new, am_matrix_new: the allocator may hand out an address again.
am_array_new(s, t) ==
  LET id == Min((1..Cardinality(DOMAIN s.heap) + 1) \ DOMAIN s.heap)
  IN  [Update(s, id, t) EXCEPT !.ret = id]

\* am_array_ref.
am_array_ref(s, id) == Update(s, id, [s.heap[id] EXCEPT !.refs = @ + 1])

\* A use of an array that is gone, as valgrind would report it.
Dangling(s, ids) ==
  [s EXCEPT !.misread = @ \cup {[at |-> "freed", side |-> "memory", op |-> "use", poked |-> FALSE] :
      id \in ids \ DOMAIN s.heap}]

\* am_array_free: the last reference frees it.
am_array_free(s, id) ==
  IF id = 0 THEN s
  ELSE IF id \notin DOMAIN s.heap THEN Dangling(s, {id})
  ELSE IF s.heap[id].refs > 1 THEN Update(s, id, [s.heap[id] EXCEPT !.refs = @ - 1])
  ELSE [s EXCEPT !.heap = [j \in DOMAIN @ \ {id} |-> @[j]]]

-----------------------------------------------------------------------------
\* The device.
HostWritten(t) ==
  [t EXCEPT !.host = TRUE, !.dev = IF t.dev = "absent" THEN "absent" ELSE "old", !.poked = t.valid]

\* ensure_gpu: allocate, then upload unless valid.
EnsureGpu(t, full) ==
  LET b == IF t.dev = "absent" /\ ~full THEN [t EXCEPT !.dev = "old"] ELSE t
  IN  IF b.dev # "absent" /\ ~b.valid
        THEN [b EXCEPT !.dev = IF b.host THEN "new" ELSE "old", !.valid = TRUE] ELSE b

\* ensure_cpu: download whatever the device holds, if it is valid.
EnsureCpu(t) == IF t.dev # "absent" /\ t.valid THEN [t EXCEPT !.host = (t.dev = "new")] ELSE t

\* What the host has is then the value, unless an older one was downloaded over it.
invalidate_gpu(t) == [t EXCEPT !.valid = FALSE, !.poked = @ /\ ~t.host]

Upload(s, ids) == LET f(t) == EnsureGpu(t, s.full) IN Changed(s, ids, f)
Pull(s, ids) == IF s.cuda THEN Changed(s, ids, EnsureCpu) ELSE s

\* d_data && gpu_valid, the condition of every kernel but seq_matvec's.
Resident(s, ids) == s.cuda /\ \A id \in ids : s.heap[id].dev # "absent" /\ s.heap[id].valid

HostReads(s, side, op, ids) ==
  [Dangling(s, ids) EXCEPT !.misread = @ \cup {[at |-> "host", side |-> side, op |-> op, poked |-> s.heap[id].poked] :
      id \in {j \in ids \cap DOMAIN s.heap : ~s.heap[j].host}}]
DevReads(s, side, op, ids) ==
  [Dangling(s, ids) EXCEPT !.misread = @ \cup {[at |-> "device", side |-> side, op |-> op, poked |-> s.heap[id].poked] :
      id \in {j \in ids \cap DOMAIN s.heap : s.heap[j].dev # "new"}}]

\* am_array_clone: copies the host's data, without pulling them.
am_array_clone(s, side, id) == am_array_new(HostReads(s, side, "clone", {id}), Authored)

-----------------------------------------------------------------------------
\* Symbol tables.
Held(table, name) == IF name \in DOMAIN table THEN table[name] ELSE 0
Bind(table, name, id) == [n \in DOMAIN table \cup {name} |-> IF n = name THEN id ELSE table[n]]
Unbind(table, name) == [n \in DOMAIN table \ {name} |-> table[n]]

\* A slip: what the name held before is not freed.
symtab_set_arrayLeaky(s, name, id) == [s EXCEPT !.vars = Bind(s.vars, name, id)]

\* symtab_set_array takes the caller's reference, symtab_set makes it a number:
\* either frees what the name held.
symtab_set_array(s, name, id) == [am_array_free(s, Held(s.vars, name)) EXCEPT !.vars = Bind(s.vars, name, id)]
symtab_set(s, name) == symtab_set_array(s, name, 0)

\* symtab_clear_arrays, at the end of a script.
symtab_clear_arrays(s, names) ==
  LET after[i \in 0..Len(names)] ==
        IF i = 0 THEN s
        ELSE LET r == after[i - 1]
             IN  [am_array_free(r, Held(r.vars, names[i])) EXCEPT !.vars = Unbind(@, names[i])]
  IN  after[Len(names)]

\* am_persistent_clear.
am_persistent_clear(s, names) ==
  LET after[i \in 0..Len(names)] ==
        IF i = 0 THEN s
        ELSE LET r == after[i - 1]
             IN  [am_array_free(r, Held(r.kept, names[i])) EXCEPT !.kept = Unbind(@, names[i])]
  IN  after[Len(names)]

\* A clone of array id, bound to the name in the persistent table.
Keep(s, name, id) ==
  LET c == am_array_clone(s, "persist", id)
  IN  [am_array_free(c, Held(s.kept, name)) EXCEPT !.kept = Bind(s.kept, name, c.ret)]

\* persistent_save: every global of the script, those the table has first.
persistent_save(s, names) ==
  LET after[i \in 0..Len(names)] ==
        IF i = 0 THEN s
        ELSE LET r == after[i - 1]
                 n == names[i]
             IN  IF n \notin DOMAIN s.vars THEN r
                 ELSE IF s.vars[n] # 0 THEN Keep(r, n, s.vars[n])
                 ELSE [am_array_free(r, Held(r.kept, n)) EXCEPT !.kept = Bind(r.kept, n, 0)]
  IN  after[Len(names)]

\* persistent_restore: the script gets copies.
persistent_restore(s, names) ==
  LET after[i \in 0..Len(names)] ==
        IF i = 0 THEN s
        ELSE LET r == after[i - 1]
                 n == names[i]
             IN  IF n \notin DOMAIN s.kept THEN r
                 ELSE IF s.kept[n] = 0 THEN symtab_set(r, n)
                 ELSE LET c == am_array_clone(r, "persist", s.kept[n]) IN symtab_set_array(c, n, c.ret)
  IN  after[Len(names)]

\* am_set_var_array, am_set_var_matrix: the host program's data.
am_set_var_array(s, name) ==
  LET c == am_array_new(s, Authored)
  IN  [am_array_free(c, Held(s.kept, name)) EXCEPT !.kept = Bind(s.kept, name, c.ret)]
=============================================================================
