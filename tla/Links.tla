------------------------------- MODULE Links -------------------------------
(***************************************************************************)
(* The links between the sites and the routing of network_controler.go.    *)
(* The out fifo of a site is copied by cat | tee into the in fifo of each  *)
(* of its neighbours (simulations/reseau.sh), so every message a site      *)
(* writes goes to all of them, and each link keeps the order.  A message   *)
(* is flooded: whoever sees it for the first time, and is not the site it  *)
(* was meant for, writes it again.                                         *)
(*                                                                         *)
(* This module is what every protocol of the network controller is built   *)
(* on: each of them EXTENDS it and adds the state its handlers change.     *)
(***************************************************************************)
EXTENDS Integers, Sequences, FiniteSets

CONSTANTS
    Site,       \* the sites: a number stands for the rank of a site's name
    Neighbours  \* Neighbours[s]: the sites that read what s writes at first

ASSUME SiteAssumption == Site \subseteq Nat \ {0}
(* A site is a process that a script starts, one after the other. *)
ASSUME SiteFinite == IsFiniteSet(Site)
ASSUME NeighboursAssumption ==
    /\ Neighbours \in [Site -> SUBSET Site]
    /\ \A s, t \in Site : t \in Neighbours[s] <=> s \in Neighbours[t]
    /\ \A s \in Site : s \notin Neighbours[s]

(* The two destinations that are no site, "-1" and "-2", and the name of *)
(* none: empty, or "USER".                                               *)
BROADCAST == -1
BROADCAST_NEIGHBORS == -2
NoSite == 0

VARIABLES
    link,  \* link[s][t]: what s wrote and t has yet to handle, in order
    seen,  \* seen[s]: NetworkControler.SeenMessages, the ids handled by s
    sent   \* sent[s]: how many messages of its own s has written

linkVars == <<link, seen, sent>>

(* The id is drawn once, when a message is encoded for the first time: the *)
(* site and the rank of the message among those it sent.                   *)
Id(m) == m.id
Ids == Site \X (Nat \ {0})

(* What a handler returns, and the same once Encode has drawn the ids. *)
Letter(dest, body) == [dest |-> dest, body |-> body]
Stamped(s, letters) ==
    [i \in 1 .. Len(letters) |->
        [id |-> <<s, sent[s] + i>>, sender |-> s,
         dest |-> letters[i].dest, body |-> letters[i].body]]

LinksInit ==
    /\ link = [s \in Site |-> [t \in Site |-> <<>>]]
    /\ seen = [s \in Site |-> {}]
    /\ sent = [s \in Site |-> 0]

(* Mutant: a message for everybody is handled but not written again. *)
ForwardsNoBroadcast(t, m) ==
    m.sender # t /\ m.dest \notin {BROADCAST, BROADCAST_NEIGHBORS, t}

(* routeMessage. *)
Forwards(t, m) == m.sender # t /\ m.dest \notin {BROADCAST_NEIGHBORS, t}
Processes(t, m) ==
    m.sender # t /\ m.dest \in {BROADCAST, BROADCAST_NEIGHBORS, t}

(* Mutant: the handler runs again for each copy of a message. *)
IsNewAlways(t, m) == TRUE

IsNew(t, m) == Id(m) \notin seen[t]

(* What s writes goes to all the readers of its out fifo. *)
Written(links, s, readers, messages) ==
    [links EXCEPT ![s] =
        [t \in Site |-> IF t \in readers THEN @[t] \o messages ELSE @[t]]]

(* Mutant: the id of the last message is used again. *)
OriginateToSameId(s, readers, letters) ==
    /\ link' = Written(link, s, readers, Stamped(s, letters))
    /\ UNCHANGED <<seen, sent>>

(* The handler of a local event of s writes its letters. *)
OriginateTo(s, readers, letters) ==
    /\ link' = Written(link, s, readers, Stamped(s, letters))
    /\ sent' = [sent EXCEPT ![s] = @ + Len(letters)]
    /\ UNCHANGED seen
Originate(s, letters) == OriginateTo(s, Neighbours[s], letters)

(* HandleIncomingFromNetwork at t, on the first message of a neighbour: a  *)
(* new message is written again first, then come the answers of t, those   *)
(* that keep the id of the message last.                                   *)
FirstOf(s, t) == Head(link[s][t])
TakeAmong(links, s, t, readers, letters, copies) ==
    LET m == FirstOf(s, t)
        again == IF IsNew(t, m) /\ Forwards(t, m) THEN <<m>> ELSE <<>>
    IN
    /\ link' = Written([links EXCEPT ![s][t] = Tail(@)], t, readers,
                       again \o Stamped(t, letters) \o copies)
    /\ seen' = [seen EXCEPT ![t] = @ \cup {Id(m)}]
    /\ sent' = [sent EXCEPT ![t] = @ + Len(letters)]
TakeWith(s, t, readers, letters, copies) ==
    TakeAmong(link, s, t, readers, letters, copies)
TakeTo(s, t, readers, letters) == TakeWith(s, t, readers, letters, <<>>)
Take(s, t, letters) == TakeTo(s, t, Neighbours[t], letters)

(* t has no part in the message: a copy, its own, or one for another site. *)
RelayTo(s, t, readers) ==
    /\ link[s][t] # <<>>
    /\ ~ (IsNew(t, FirstOf(s, t)) /\ Processes(t, FirstOf(s, t)))
    /\ TakeTo(s, t, readers, <<>>)
Relay(s, t) == RelayTo(s, t, Neighbours[t])

(* The message concerns t: the action of its handler follows. *)
Receives(s, t) ==
    /\ link[s][t] # <<>>
    /\ IsNew(t, FirstOf(s, t)) /\ Processes(t, FirstOf(s, t))

Message(Body) ==
    [id : Ids, sender : Site \cup {NoSite},
     dest : Site \cup {NoSite, BROADCAST, BROADCAST_NEIGHBORS}, body : Body]

(* The links hold messages, each known by an id its sender has drawn. *)
LinksTypeOK(Body) ==
    /\ link \in [Site -> [Site -> Seq(Message(Body))]]
    /\ seen \in [Site -> SUBSET Ids]
    /\ sent \in [Site -> Nat]
=============================================================================
