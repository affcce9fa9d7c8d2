--------------------------- MODULE MCDomainLease ---------------------------
EXTENDS DomainLease

CONSTANTS w1, w2, w3
ThreeWorkers == {w1, w2, w3}
OneOrTwo == {1, 2}
OneSlowClock == [w \in ThreeWorkers |-> IF w = w1 THEN 0 ELSE 1]
=============================================================================
