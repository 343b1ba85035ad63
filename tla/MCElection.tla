----------------------------- MODULE MCElection -----------------------------
(* Small networks for Election. *)
EXTENDS Election, TLC

Triangle == [s \in Site |-> Site \ {s}]
(* 2 - 1, 1 - 3, 3 - 4: the smallest name is inside, the others around it. *)
Chain == (1 :> {2, 3}) @@ (2 :> {1}) @@ (3 :> {1, 4}) @@ (4 :> {3})
(* 1 - 3, 2 - 3, 3 - 4, 2 - 4: a cycle with a site that hangs on it. *)
Kite == (1 :> {3}) @@ (2 :> {3, 4}) @@ (3 :> {1, 2, 4}) @@ (4 :> {2, 3})

OneEach == [s \in Site |-> 1]
LastTwice == [s \in Site |-> IF s = 4 THEN 2 ELSE 1]
TwoCandidates == [s \in Site |-> IF s \in {1, 2} THEN 1 ELSE 0]
=============================================================================
