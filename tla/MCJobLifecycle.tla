----------------------------- MODULE MCJobLifecycle -----------------------------
(* Instances of JobLifecycle for TLC. *)
EXTENDS JobLifecycle
CONSTANTS k1, w1, p1

OneKiller  == {k1}
OneWatcher == {w1}
OnePoller  == {p1}
NoOne      == {}
=============================================================================
