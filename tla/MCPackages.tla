------------------------------ MODULE MCPackages ------------------------------
(* Packages for TLC: three packages, every graph in which b and c need no a, and a *)
(* file of b that pip stages outside site-packages.                                *)
EXTENDS Packages

MCNames == {"a", "b", "c"}
MCNative == {"c"}
MCStrays == {<<"a", 2>>, <<"b", 2>>}
MCGraphs == {graph \in [MCNames \X MCNames -> {"none", "required", "marker"}] :
               \A n \in MCNames : graph[n, n] = "none" /\ graph[n, "a"] = "none" /\ graph["c", n] # "marker"}
=============================================================================
