----------------------- MODULE MCAdmissionController -----------------------
(* Small values for the constants of AdmissionController. *)
EXTENDS AdmissionController, TLC

\* Requests 1 and 2 are of one agent and one model, 3 of another.
MCAgentOf == [r \in Requests |-> IF r = 3 THEN "b" ELSE "a"]
MCModelOf == [r \in Requests |-> "flash"]

\* Process records are told apart by nothing but being different.
ChildSymmetry == Permutations(Children)
============================================================================
