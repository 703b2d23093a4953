---------------------------- MODULE MCSpendLedger ----------------------------
(* Small instance of SpendLedger: three attempts, kept to two regions.     *)
EXTENDS SpendLedger, TLC

MCQuote == {[bounded |-> TRUE, amount |-> 1], [bounded |-> TRUE, amount |-> 2],
            [bounded |-> FALSE, amount |-> 0]}

Symmetry == Permutations(Attempt)

\* One window, two attempts, whatever they are quoted and report.
OneWindow == now = 0 /\ \E a \in Attempt : pc[a] = "new"

\* Any windows and attempts, when all are quoted one unit and report three.
UnitQuotes ==
    \A a \in DOMAIN ledger : LET l == ledger[a] IN
        /\ l.bounded /\ reserved[a] = 1
        /\ {l.observed, l.maxProvider, l.terminalCatalog, l.terminalProvider} \subseteq {None, 3}

Explored == OneWindow \/ UnitQuotes
=============================================================================
