------------------------------ MODULE MCSluice -------------------------------
EXTENDS Sluice

CONSTANTS w1, w2, w3, s1, s2, g1, g2, g3

=============================================================================
