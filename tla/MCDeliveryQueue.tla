--------------------------- MODULE MCDeliveryQueue ---------------------------
EXTENDS DeliveryQueue

CONSTANTS m1, m2, m3
=============================================================================
