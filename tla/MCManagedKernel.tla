-------------------------- MODULE MCManagedKernel --------------------------
(* Values of the constants of ManagedKernel for TLC, and the stores the run *)
(* starts from: a sample of what Init allows, each with two lives to come.  *)
EXTENDS ManagedKernel, TLC

CONSTANTS g1, g2, m1, m2

\* One life that is over, connectors of the first generation, an operator of the second.
MCPinsOf == [p \in Procs |-> IF p = "o1" THEN g2 ELSE g1]
MCLeftovers == {[pins |-> g1, module |-> m1]}
MCUpgrades == {<<m1, m2>>}

NoInstall == install = [g \in Pins |-> NoProc]
ActivePair(g, hasPrevious) ==
  /\ active = "p0" /\ states["p0"].pins = g /\ states["p0"].current.module = m1
  /\ (states["p0"].previous # {}) = hasPrevious

\* All is installed, and a release to roll back to is there.
Installed ==
  /\ official = [g \in Pins |-> "pinned"]
  /\ lock = NoProc /\ NoInstall /\ ActivePair(g1, TRUE)

\* The first installer died with both locks.
Interrupted ==
  /\ official = (g1 :> "other" @@ g2 :> "pinned")
  /\ lock = "p0" /\ written /\ install[g1] = "p0" /\ owned[g1] /\ active = NoProc

\* Another generation is active, and the payload of this one is not there; a writer
\* may have died since.
OtherGeneration ==
  /\ official = (g1 :> "missing" @@ g2 :> "pinned")
  /\ (lock = "p0") = written /\ NoInstall /\ ActivePair(g2, TRUE)

MCInit ==
  /\ Init
  /\ dead \in {{"p0", "o1"}, {"p0", "c2"}} /\ module = m1
  /\ Installed \/ (Interrupted /\ "o1" \in dead) \/ OtherGeneration

MCSpec == MCInit /\ [][Next]_vars /\ Fairness
============================================================================
