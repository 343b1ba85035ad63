--------------------------- MODULE SharedRegister ---------------------------
(***************************************************************************)
(* What the sites are promised: ONE register, published under mutual       *)
(* exclusion, of which no publication ever loses what an earlier one said. *)
(* There is no network, no clock and no site here.                         *)
(***************************************************************************)
CONSTANT Task

VARIABLES
    phase,   \* phase[a]: how far task a is with its one publication
    shared   \* the content published last: a set of tasks, each standing for
             \* the fact it records (its site has its file)

Phase == {"transfer", "waiting", "inCS", "published", "done"}
Critical(a) == phase[a] \in {"inCS", "published"}

Init ==
    /\ phase = [a \in Task |-> "transfer"]
    /\ shared = {}

Request(a) ==
    /\ phase[a] = "transfer"
    /\ phase' = [phase EXCEPT ![a] = "waiting"]
    /\ UNCHANGED shared

Enter(a) ==
    /\ phase[a] = "waiting"
    /\ \A b \in Task : ~Critical(b)
    /\ phase' = [phase EXCEPT ![a] = "inCS"]
    /\ UNCHANGED shared

(* The publication holds the fact of a and every fact published before; it *)
(* may also carry facts of tasks that have not published yet.              *)
Write(a) ==
    /\ phase[a] = "inCS"
    /\ phase' = [phase EXCEPT ![a] = "published"]
    /\ \E content \in SUBSET {b \in Task : phase[b] # "transfer"} :
           /\ shared \cup {a} \subseteq content
           /\ shared' = content

Leave(a) ==
    /\ phase[a] = "published"
    /\ phase' = [phase EXCEPT ![a] = "done"]
    /\ UNCHANGED shared

Next == \E a \in Task : Request(a) \/ Enter(a) \/ Write(a) \/ Leave(a)

Spec == Init /\ [][Next]_<<phase, shared>>
=============================================================================
