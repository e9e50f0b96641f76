--------------------------- MODULE MCLedgerStart ---------------------------
(* Values of the constants of LedgerStart for TLC, and the ledgers the run  *)
(* starts from: a sample of Found.                                          *)
EXTENDS LedgerStart

\* Two policies of three seats that differ in their terms, and one that the first of
\* them becomes when it is drained.
MCPolicyOf ==
  [p \in Lives |-> [seats |-> IF p = "s3" THEN 1 ELSE 3,
                    terms |-> IF p = "s2" THEN "other" ELSE "shared"]]

\* No stray table from version 2 on, and the policy of the first connector, draining
\* or not.
MCFound ==
  {l \in Found : l.version >= 2 =>
     /\ l.schema \cap Strays = {}
     /\ l.row = NoRow \/ l.row.policy = PolicyOf["s1"]}

\* No key that was published by a start which died before it made the ledger.
MCInit == Init /\ db \in MCFound /\ (db.version = 0 => keyFile = NoOne) /\ temps \subseteq {keyFile}

MCSpec == MCInit /\ [][Next]_vars /\ Fairness
============================================================================
