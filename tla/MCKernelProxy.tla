--------------------------- MODULE MCKernelProxy ---------------------------
(* Values of the constants of KernelProxy for TLC. *)
EXTENDS KernelProxy, TLC

\* The first two prompts share a session.
MCSessionOf == "p1" :> "s1" @@ "p2" :> "s1" @@ "p3" :> "s2"
MCSessionOfOne == [p \in Prompts |-> "s1"]
============================================================================
