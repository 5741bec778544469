------------------------------ MODULE MCBilling ------------------------------
EXTENDS Billing

CONSTANTS u1, c1, c2, s1, h1, o1, o2
==============================================================================
