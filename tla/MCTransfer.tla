----------------------------- MODULE MCTransfer -----------------------------
(* Small instances of Transfer: who downloads, and what the users do. *)
EXTENDS Transfer, TLC

CONSTANTS a, b, c, d, x, y, z

(* c and d do not have the file at first, a has it. *)
Downloads == (x :> c) @@ (y :> d) @@ (z :> a)
BadDisk == {<<c, 1>>}

(* Two download and nobody leaves; one downloads and both first holders    *)
(* may leave, also in a network that others have left before; a holder     *)
(* that may leave asks for its own file.                                   *)
TwoDownloads == [asks |-> {x, y}, leavers |-> {}, shared |-> TRUE]
HoldersLeave == [asks |-> {x}, leavers |-> {a, b}, shared |-> TRUE]
HoldersLeaveToo == [HoldersLeave EXCEPT !.shared = FALSE]
HolderAsks == [asks |-> {z}, leavers |-> {a}, shared |-> FALSE]
Plans == {TwoDownloads, HoldersLeave, HoldersLeaveToo, HolderAsks}
=============================================================================
