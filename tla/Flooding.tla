------------------------------ MODULE Flooding ------------------------------
(***************************************************************************)
(* What the flooding of network_controler.go gives to the layers above it: *)
(* the sites send messages that carry nothing of interest and the network  *)
(* routes them.  The queue of the critical section and the snapshot count  *)
(* on the order in which a site hears of them (modules DistributedFile and *)
(* Snapshot).                                                              *)
(***************************************************************************)
EXTENDS Links, FiniteSets

CONSTANT Quota  \* Quota[s]: how many messages of its own s sends

ASSUME QuotaAssumption == Quota \in [Site -> Nat]

VARIABLES
    journal, \* history: journal[s][n] is the n-th message of s, its
             \* destination and the messages that s knew of before it
    knows    \* history: what s sent, what it handled, and all that those who
             \* sent it knew of

vars == <<linkVars, journal, knows>>

Init ==
    /\ LinksInit
    /\ journal = [s \in Site |-> <<>>]
    /\ knows = [s \in Site |-> {}]

DestOf(id) == journal[id[1]][id[2]].dest
Past(id) == journal[id[1]][id[2]].past

Send(s, dest) ==
    /\ sent[s] < Quota[s]
    /\ Originate(s, <<Letter(dest, "data")>>)
    /\ journal' = [journal EXCEPT ![s] =
                      Append(@, [dest |-> dest, past |-> knows[s]])]
    /\ knows' = [knows EXCEPT ![s] = @ \cup {<<s, sent[s] + 1>>}]

Handle(s, t) ==
    LET id == Id(FirstOf(s, t)) IN
    /\ Receives(s, t)
    /\ Take(s, t, <<>>)
    /\ knows' = [knows EXCEPT ![t] = @ \cup {id} \cup Past(id)]
    /\ UNCHANGED journal

Pass(s, t) == Relay(s, t) /\ UNCHANGED <<journal, knows>>

Destinations(s) == (Site \ {s}) \cup {BROADCAST, BROADCAST_NEIGHBORS}

Next ==
    \/ \E s \in Site : \E dest \in Destinations(s) : Send(s, dest)
    \/ \E s, t \in Site : Handle(s, t) \/ Pass(s, t)

Spec == Init /\ [][Next]_vars

(* The pipes deliver and siteLogic handles what it reads; nobody has to    *)
(* send.                                                                   *)
FairSpec == Spec /\ \A s, t \in Site : WF_vars(Handle(s, t) \/ Pass(s, t))
-----------------------------------------------------------------------------
(* The identities of the messages sent so far. *)
SentIds == UNION {{<<s, n>> : n \in 1 .. sent[s]} : s \in Site}

(* Every variable keeps its type, and the journal follows the counters. *)
TypeOK ==
    /\ LinksTypeOK({"data"})
    /\ journal \in [Site ->
           Seq([dest : Site \cup {BROADCAST, BROADCAST_NEIGHBORS},
                past : SUBSET Ids])]
    /\ \A s \in Site : Len(journal[s]) = sent[s]
    /\ knows \in [Site -> SUBSET Ids]

(* A message that is meant for all, or for one site, is flooded. *)
Flooded(id) == DestOf(id) # BROADCAST_NEIGHBORS
Addressed(id, t) == id[1] # t /\ DestOf(id) \in {BROADCAST, t}

(* Flooding keeps the causal order: a site that has seen a message has     *)
(* already seen every flooded message for it that the sender knew of, its  *)
(* own earlier ones or others', whatever path each of them took.           *)
CausalDelivery ==
    \A t \in Site : \A i \in seen[t] : \A j \in Past(i) :
        Addressed(j, t) => j \in seen[t]

(* No link ever carries two copies of a message at once, so that a flood   *)
(* cannot feed on the cycles of the network.                               *)
NoTwinsOnLink ==
    \A s, t \in Site : \A i, j \in DOMAIN link[s][t] :
        Id(link[s][t][i]) = Id(link[s][t][j]) => i = j

(* A message for the neighbours only is never seen by anybody else         *)
(* (proved in FloodingProofs).                                             *)
NeighboursOnly ==
    \A t \in Site : \A i \in seen[t] :
        DestOf(i) = BROADCAST_NEIGHBORS => t \in Neighbours[i[1]]

(* Every message sent is in the end seen by all those it is meant for ... *)
EveryoneHears ==
    <>[](\A id \in SentIds : \A t \in Site : Addressed(id, t) => id \in seen[t])

(* ... and every flood dies out. *)
FloodsDieOut == <>[](\A s, t \in Site : link[s][t] = <<>>)
=============================================================================
