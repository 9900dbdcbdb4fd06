---- MODULE MCWorkflow ----
(* A workflow of three phases whose review sends the work back to its first.      *)
EXTENDS Workflow, TLC

MCReviewed == <<"agent", "review", "final">>
MCTwoLoops == 2 :> [to |-> 1, max |-> 2]
MCNothing == <<>>
====
