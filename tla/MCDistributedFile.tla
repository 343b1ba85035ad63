------------------------- MODULE MCDistributedFile -------------------------
(* Small instances of DistributedFile: which task runs at which site. *)
EXTENDS DistributedFile, TLC

CONSTANTS a, b, c

OneEach2 == (a :> 0) @@ (b :> 1)
TwoOfThree == (a :> 1) @@ (b :> 2)
SameSite == (a :> 0) @@ (b :> 0)
TwoAndOne == (a :> 0) @@ (b :> 0) @@ (c :> 1)

NoClick == [s \in Site |-> 0]
ClickEach == [s \in Site |-> 1]
=============================================================================
