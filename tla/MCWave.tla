------------------------------- MODULE MCWave -------------------------------
(* Small networks for Wave. *)
EXTENDS Wave, TLC

Triangle == [s \in Site |-> Site \ {s}]
(* 1 - 2, 2 - 3, 3 - 4, 4 - 2, 2 - 5: a cycle, and two leaves. *)
Kite == (1 :> {2}) @@ (2 :> {1, 3, 4, 5}) @@ (3 :> {2, 4}) @@ (4 :> {2, 3})
        @@ (5 :> {2})
=============================================================================
