-------------------------- MODULE MCGatewayLifecycle --------------------------
EXTENDS GatewayLifecycle, TLC

CONSTANTS c1, c2, p1, p2
Symmetry == Permutations(Children)

===============================================================================
