----------------------------- MODULE MCFlooding -----------------------------
(* Small networks for Flooding. *)
EXTENDS Flooding, TLC

(* 1 - 2, 1 - 3, 2 - 3, 3 - 4: a cycle with a site that hangs on it. *)
Kite == (1 :> {2, 3}) @@ (2 :> {1, 3}) @@ (3 :> {1, 2, 4}) @@ (4 :> {3})

OneAndOne == [s \in Site |-> IF s \in {1, 2} THEN 1 ELSE 0]
=============================================================================
