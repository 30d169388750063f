------------------------------- MODULE MCAmlTape -------------------------------
(* Two parameters, an input, two results; graphs of two operations. *)
EXTENDS AmlTape

AllNames == <<"w1", "w2", "x", "h">>
TrainPlans == {<<"w2", "w1">>}
AnyGraphPlans == {<<"w1", "w2">>}
AllPlans == TrainPlans \cup AnyGraphPlans
=============================================================================
