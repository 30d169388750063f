----------------------------- MODULE MCNotorchTape -----------------------------
(* Two tensors registered by the program, two adapters, graphs of two operations. *)
EXTENDS NotorchTape

CONSTANTS w1, w2

StepPlans == {<< <<w1, "param">>, <<w2, "param">> >>, << <<w1, "freeze">>, <<w2, "param">> >>,
              << <<w1, "param">>, <<w2, "frozen">> >>}
AnyGraphPlans == {<< <<w2, "freeze">>, <<w1, "param">> >>}
\* A frozen base; nt_lora_forward registers the adapters.
LoraPlans == {<< <<w1, "frozen">> >>}

TrainPlans == StepPlans \cup AnyGraphPlans
=============================================================================
