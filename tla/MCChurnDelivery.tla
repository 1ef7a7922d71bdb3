--------------------------- MODULE MCChurnDelivery ---------------------------
EXTENDS ChurnDelivery
=============================================================================
