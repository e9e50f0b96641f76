------------------------- MODULE MCAdmissionSystem -------------------------
(* Small values for the constants of AdmissionSystem. *)
EXTENDS AdmissionSystem

MCAgentOf == [r \in Requests |-> IF r = 1 THEN "a" ELSE "b"]
MCModelOf == [r \in Requests |-> "flash"]
\* One connector per request.
MCOwnerOf == [r \in Requests |-> IF r = 1 THEN "o1" ELSE "o2"]
============================================================================
