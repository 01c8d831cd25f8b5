------------------------------- MODULE MCCatalog -------------------------------
EXTENDS Catalog, TLC
CONSTANTS s1, s2, i1, i2

\* s1 is calm, or asked for more than it has; s2 is half loaded.
Quiet == [bandwidth |-> 0, cpu |-> Null, ips |-> Null]
Flooded == [bandwidth |-> Top + 1, cpu |-> 2, ips |-> Null]
Half == [bandwidth |-> 1, cpu |-> 2, ips |-> 0]

MCMeasures == s1 :> {Quiet, Flooded} @@ s2 :> {Half}
MCServerOf == i1 :> s1 @@ i2 :> s2
MCOrder == i1 :> 1 @@ i2 :> 2
=============================================================================
