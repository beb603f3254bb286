--------------------------- MODULE MCProxyRouting ---------------------------
(* Model-checking instances of ProxyRouting.                                 *)
EXTENDS ProxyRouting, TLC
CONSTANTS cli, panel, gw1, gw2

\* Nothing tells the user's gateways apart.
Gateways == Permutations(Gateway)
=============================================================================
