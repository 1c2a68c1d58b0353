----------------------------- MODULE MCDelivery -----------------------------
EXTENDS Delivery

CONSTANTS x1, x2

MCDueIn == [x \in {x2} |-> 1]
=============================================================================
