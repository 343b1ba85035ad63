----------------------------- MODULE MCSnapshot -----------------------------
(* A small network for Snapshot: 1 - 2 - 3. *)
EXTENDS Snapshot, TLC

Chain == (1 :> {2}) @@ (2 :> {1, 3}) @@ (3 :> {2})

OneEach == [s \in Site |-> 1]
LastSends == [s \in Site |-> IF s = 3 THEN 1 ELSE 0]
FirstClicks == [s \in Site |-> IF s = 1 THEN 1 ELSE 0]
OthersClick == [s \in Site |-> IF s = 1 THEN 0 ELSE 1]
=============================================================================
