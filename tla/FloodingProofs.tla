--------------------------- MODULE FloodingProofs ---------------------------
(***************************************************************************)
(* What the flooding promises to the layers above, for every network and   *)
(* every number of messages: no link carries two copies of a message, a    *)
(* message for the neighbours stays with them, and whoever has seen a      *)
(* message has seen all that its sender knew of and that was meant for him *)
(* (CausalDelivery), whatever cycles the network has.                      *)
(*                                                                         *)
(* The argument: whoever has passed a message on has put it on each of his *)
(* links (PassedOn), before whatever he writes later; so on every link a   *)
(* message comes after those that it depends on (InOrder).  A message for  *)
(* one site is not passed on by that site, which is why "settled" has a    *)
(* third case.                                                             *)
(***************************************************************************)
EXTENDS Flooding, TLAPS, SequenceTheorems

Packet == Message({"data"})
Queue == Seq(Packet)

-----------------------------------------------------------------------------
(* The invariants. *)

(* The id was drawn: a message with that id exists. *)
Drawn(id) == id \in Ids /\ id[2] <= sent[id[1]]

(* A link holds what its writer sent or has seen, as it was sent. *)
CarriedWell(s, t, m) ==
    /\ Drawn(m.id) /\ m.sender = m.id[1] /\ m.dest = DestOf(m.id)
    /\ t \in Neighbours[s]
    /\ m.id[1] = s \/ m.id \in seen[s]
    /\ m.dest = BROADCAST_NEIGHBORS => m.id[1] = s
Carried ==
    \A s, t \in Site : \A k \in 1 .. Len(link[s][t]) :
        CarriedWell(s, t, link[s][t][k])

(* Nobody knows of a message that does not exist, and nobody writes to     *)
(* himself.                                                                *)
History ==
    /\ \A s \in Site : \A i \in seen[s] \cup knows[s] : Drawn(i)
    /\ \A i \in Ids : Drawn(i) => DestOf(i) # i[1] /\ \A j \in Past(i) : Drawn(j)

(* Nothing that t does later can depend on j and overtake it. *)
Settled(j, t) ==
    \/ j[1] = t
    \/ j \in seen[t]
    \/ DestOf(j) \in Site /\ j \in seen[DestOf(j)]
Before(q, k, j) == \E i \in 1 .. k - 1 : q[i].id = j
OnLink(s, t, j) == Before(link[s][t], Len(link[s][t]) + 1, j)

PassedOn ==
    \A s \in Site : \A t \in Neighbours[s] : \A j \in Ids :
        Drawn(j) /\ (j[1] = s \/ j \in seen[s]) /\ Flooded(j) /\ DestOf(j) # s
            => Settled(j, t) \/ OnLink(s, t, j)
InOrder ==
    \A s, t \in Site : \A k \in 1 .. Len(link[s][t]) :
        \A j \in Past(link[s][t][k].id) :
            Flooded(j) => Settled(j, t) \/ Before(link[s][t], k, j)
SeenInOrder ==
    \A t \in Site : \A i \in seen[t] : \A j \in Past(i) :
        Flooded(j) => Settled(j, t)
KnownSettled ==
    \A t \in Site : \A j \in knows[t] : Flooded(j) => Settled(j, t)

LinksInv == Carried /\ History /\ NoTwinsOnLink /\ NeighboursOnly
OrderInv == PassedOn /\ InOrder /\ SeenInOrder /\ KnownSettled

-----------------------------------------------------------------------------
(* Sequences. *)

(* The elements of the tail are those of the sequence, one place earlier. *)
LEMMA TailFacts ==
    ASSUME NEW q \in Queue, q # <<>>
    PROVE  /\ Tail(q) \in Queue
           /\ Head(q) \in Packet /\ Head(q) = q[1]
           /\ Len(q) \in Nat \ {0} /\ Len(Tail(q)) = Len(q) - 1
           /\ \A i \in 1 .. Len(Tail(q)) : Tail(q)[i] = q[i + 1]
  BY DEF Queue

LEMMA AppendFacts ==
    ASSUME NEW q \in Queue, NEW m \in Packet
    PROVE  /\ Append(q, m) \in Queue
           /\ Len(q) \in Nat /\ Len(Append(q, m)) = Len(q) + 1
           /\ \A i \in 1 .. Len(q) : Append(q, m)[i] = q[i]
           /\ Append(q, m)[Len(q) + 1] = m
  BY DEF Queue

LEMMA ConcatFacts ==
    ASSUME NEW q \in Queue, NEW m \in Packet
    PROVE  q \o <<m>> = Append(q, m) /\ q \o <<>> = q
  <1>1. q \o <<>> = q
    BY ConcatEmptySeq DEF Queue
  <1>2. q \o <<m>> = Append(q, m)
    BY DEF Queue
  <1> QED BY <1>1, <1>2

(* A handler of Flooding answers nothing, and a sender writes one message. *)
LEMMA StampedFacts ==
    ASSUME NEW s \in Site, sent[s] \in Nat, NEW dest
    PROVE  /\ Stamped(s, <<>>) = <<>>
           /\ Stamped(s, <<Letter(dest, "data")>>) =
                 <<[id |-> <<s, sent[s] + 1>>, sender |-> s, dest |-> dest,
                    body |-> "data"]>>
  <1>1. Stamped(s, <<>>) = <<>>
    BY DEF Stamped
  <1>2. Stamped(s, <<Letter(dest, "data")>>) =
           <<[id |-> <<s, sent[s] + 1>>, sender |-> s, dest |-> dest,
              body |-> "data"]>>
    BY DEF Stamped, Letter
  <1> QED BY <1>1, <1>2

-----------------------------------------------------------------------------
(* What a step does to the links. *)

Drafted(s, dest) ==
    [id |-> <<s, sent[s] + 1>>, sender |-> s, dest |-> dest, body |-> "data"]

(* The sites that t passes the message m on to. *)
Readers(t, m) == {v \in Neighbours[t] : IsNew(t, m) /\ Forwards(t, m)}

LEMMA TypeFacts ==
    ASSUME TypeOK
    PROVE  /\ link \in [Site -> [Site -> Queue]]
           /\ \A u, v \in Site : link[u][v] \in Queue
           /\ seen \in [Site -> SUBSET Ids] /\ sent \in [Site -> Nat]
           /\ \A u \in Site : seen[u] \subseteq Ids /\ sent[u] \in Nat
  BY DEF TypeOK, LinksTypeOK, Queue, Packet

(* Writing on some links leaves the others alone. *)
LEMMA WrittenAt ==
    ASSUME NEW links \in [Site -> [Site -> Queue]], NEW s \in Site, NEW readers,
           NEW messages, NEW u \in Site, NEW v \in Site
    PROVE  Written(links, s, readers, messages)[u][v] =
             IF u = s /\ v \in readers THEN links[u][v] \o messages
             ELSE links[u][v]
  BY DEF Written

LEMMA SendStep ==
    ASSUME TypeOK, NEW s \in Site, NEW dest \in Destinations(s), Send(s, dest)
    PROVE  /\ Drafted(s, dest) \in Packet
           /\ \A u, v \in Site : link'[u][v] =
                IF u = s /\ v \in Neighbours[s]
                THEN Append(link[u][v], Drafted(s, dest)) ELSE link[u][v]
           /\ seen' = seen /\ sent' = [sent EXCEPT ![s] = @ + 1]
  <1> DEFINE m == Drafted(s, dest)
  <1>1. m \in Packet
    BY TypeFacts DEF Drafted, Packet, Message, Ids, Destinations
  <1>2. Stamped(s, <<Letter(dest, "data")>>) = <<m>>
    BY TypeFacts, StampedFacts DEF Drafted
  <1>3. /\ link' = Written(link, s, Neighbours[s], <<m>>)
        /\ seen' = seen /\ sent' = [sent EXCEPT ![s] = @ + 1]
    BY <1>2 DEF Send, Originate, OriginateTo
  <1> HIDE DEF m
  <1>4. ASSUME NEW u \in Site, NEW v \in Site
        PROVE  link'[u][v] = IF u = s /\ v \in Neighbours[s]
                             THEN Append(link[u][v], m) ELSE link[u][v]
    <2>1. link'[u][v] = IF u = s /\ v \in Neighbours[s]
                        THEN link[u][v] \o <<m>> ELSE link[u][v]
      BY <1>3, TypeFacts, WrittenAt
    <2>2. link[u][v] \o <<m>> = Append(link[u][v], m)
      BY <1>1, TypeFacts, ConcatFacts
    <2> QED BY <2>1, <2>2
  <1> QED BY <1>1, <1>3, <1>4 DEF m

LEMMA TakeStep ==
    ASSUME TypeOK, NEW s \in Site, NEW t \in Site, link[s][t] # <<>>,
           Take(s, t, <<>>)
    PROVE  /\ FirstOf(s, t) \in Packet
           /\ \A u, v \in Site : link'[u][v] =
                IF u = s /\ v = t THEN Tail(link[u][v])
                ELSE IF u = t /\ v \in Readers(t, FirstOf(s, t))
                THEN Append(link[u][v], FirstOf(s, t)) ELSE link[u][v]
           /\ seen' = [seen EXCEPT ![t] = @ \cup {FirstOf(s, t).id}]
           /\ sent' = sent
  <1> DEFINE m == FirstOf(s, t)
             news == IsNew(t, m) /\ Forwards(t, m)
             again == IF news THEN <<m>> ELSE <<>>
             popped == [link EXCEPT ![s][t] = Tail(@)]
  <1>1. m \in Packet /\ Tail(link[s][t]) \in Queue
    BY TypeFacts, TailFacts DEF FirstOf
  <1>2. /\ popped \in [Site -> [Site -> Queue]]
        /\ \A u, v \in Site : popped[u][v] =
               IF u = s /\ v = t THEN Tail(link[u][v]) ELSE link[u][v]
    BY <1>1, TypeFacts
  <1>3. again \o Stamped(t, <<>>) \o <<>> = again
    <2>1. Stamped(t, <<>>) = <<>>
      BY TypeFacts, StampedFacts
    <2>2. again \in Queue
      BY <1>1 DEF Queue
    <2> QED BY <2>1, <2>2, ConcatFacts, <1>1
  <1>4. /\ link' = Written(popped, t, Neighbours[t], again \o Stamped(t, <<>>) \o <<>>)
        /\ seen' = [seen EXCEPT ![t] = @ \cup {m.id}]
        /\ sent' = [sent EXCEPT ![t] = @ + Len(<<>>)]
    BY DEF Take, TakeTo, TakeWith, TakeAmong, Id
  <1>5. sent' = sent
    BY <1>4, TypeFacts
  <1>6. link' = Written(popped, t, Neighbours[t], again)
    BY <1>3, <1>4
  <1> HIDE DEF m, popped
  <1>7. ASSUME NEW u \in Site, NEW v \in Site
        PROVE  link'[u][v] = IF u = s /\ v = t THEN Tail(link[u][v])
                             ELSE IF u = t /\ v \in Readers(t, m)
                             THEN Append(link[u][v], m) ELSE link[u][v]
    <2>1. link'[u][v] = IF u = t /\ v \in Neighbours[t]
                        THEN popped[u][v] \o again ELSE popped[u][v]
      <3> HIDE DEF again
      <3> QED BY <1>2, <1>6, WrittenAt
    <2>2. v \in Readers(t, m) <=> v \in Neighbours[t] /\ news
      BY DEF Readers
    <2>3. popped[u][v] \in Queue
      BY <1>2
    <2>4. /\ popped[u][v] \o <<m>> = Append(popped[u][v], m)
          /\ popped[u][v] \o <<>> = popped[u][v]
      BY <1>1, <2>3, ConcatFacts
    <2>5. u = s /\ v = t => ~(u = t /\ v \in Neighbours[t])
      BY NeighboursAssumption
    <2> QED BY <1>2, <2>1, <2>2, <2>4, <2>5
  <1> QED BY <1>1, <1>4, <1>5, <1>7 DEF m

(* A site that handles or relays a message takes it from the link. *)
LEMMA StepTakes ==
    ASSUME NEW s \in Site, NEW t \in Site, Handle(s, t) \/ Pass(s, t)
    PROVE  link[s][t] # <<>> /\ Take(s, t, <<>>) /\ journal' = journal
  BY DEF Handle, Pass, Receives, Relay, RelayTo, Take

-----------------------------------------------------------------------------
(* What a step does to the journal. *)

Fresh(s) == <<s, sent[s] + 1>>

(* A message that is sent is new, and leaves what was sent before as it is. *)
LEMMA SendJournal ==
    ASSUME TypeOK, NEW s \in Site, NEW dest \in Destinations(s), Send(s, dest),
           NEW f, f = Fresh(s)
    PROVE  /\ f \in Ids /\ ~Drawn(f) /\ Drawn(f)'
           /\ DestOf(f)' = dest /\ Past(f)' = knows[s]
           /\ \A i \in Ids : Drawn(i)' => Drawn(i) \/ i = f
           /\ \A i : Drawn(i) => /\ Drawn(i)' /\ i # f
                                 /\ DestOf(i)' = DestOf(i) /\ Past(i)' = Past(i)
  <1> DEFINE entry == [dest |-> dest, past |-> knows[s]]
  <1>1. /\ sent \in [Site -> Nat] /\ sent' = [sent EXCEPT ![s] = @ + 1]
        /\ journal \in [Site -> Seq([dest : Site \cup {BROADCAST, BROADCAST_NEIGHBORS},
                                     past : SUBSET Ids])]
        /\ journal' = [journal EXCEPT ![s] = Append(@, entry)]
        /\ \A u \in Site : Len(journal[u]) = sent[u]
    BY SendStep, TypeFacts DEF TypeOK, Send
  <1>2. entry \in [dest : Site \cup {BROADCAST, BROADCAST_NEIGHBORS}, past : SUBSET Ids]
    BY DEF TypeOK, Destinations
  <1>3. /\ \A k \in 1 .. sent[s] : journal'[s][k] = journal[s][k]
        /\ journal'[s][sent[s] + 1] = entry
        /\ \A u \in Site \ {s} : journal'[u] = journal[u]
    <2> HIDE DEF entry
    <2>1. journal[s] \in Seq([dest : Site \cup {BROADCAST, BROADCAST_NEIGHBORS},
                             past : SUBSET Ids])
      BY <1>1
    <2>2. journal'[s] = Append(journal[s], entry)
      BY <1>1
    <2>3. \A u \in Site \ {s} : journal'[u] = journal[u]
      BY <1>1
    <2>4. Len(journal[s]) = sent[s]
      BY <1>1
    <2> QED BY <1>2, <2>1, <2>2, <2>3, <2>4
  <1>4. /\ f \in Ids /\ f[1] = s /\ f[2] = sent[s] + 1
        /\ \A i \in Ids : i[1] \in Site /\ i[2] \in Nat \ {0} /\ i = <<i[1], i[2]>>
    BY <1>1 DEF Fresh, Ids
  <1>5. /\ \A u \in Site \ {s} : sent'[u] = sent[u]
        /\ sent'[s] = sent[s] + 1 /\ \A u \in Site : sent[u] \in Nat
    BY <1>1
  <1>6. ~Drawn(f) /\ Drawn(f)'
    BY <1>4, <1>5 DEF Drawn
  <1>7. DestOf(f)' = dest /\ Past(f)' = knows[s]
    <2>1. /\ DestOf(f)' = journal'[f[1]][f[2]].dest
          /\ Past(f)' = journal'[f[1]][f[2]].past
      BY DEF DestOf, Past
    <2> QED BY <1>3, <1>4, <2>1
  <1>8. ASSUME NEW i \in Ids, Drawn(i)' PROVE Drawn(i) \/ i = f
    <2>1. CASE i[1] = s
      BY <1>4, <1>5, <1>8, <2>1 DEF Drawn
    <2>2. CASE i[1] # s
      BY <1>4, <1>5, <1>8, <2>2 DEF Drawn
    <2> QED BY <2>1, <2>2
  <1>9. ASSUME NEW i, Drawn(i)
        PROVE  /\ Drawn(i)' /\ DestOf(i)' = DestOf(i) /\ Past(i)' = Past(i)
    <2>1. i[1] \in Site /\ i[2] \in 1 .. sent[i[1]]
      BY <1>4, <1>5, <1>9 DEF Drawn
    <2>2. journal'[i[1]][i[2]] = journal[i[1]][i[2]]
      BY <1>3, <2>1
    <2>3. Drawn(i)'
      BY <1>4, <1>5, <1>9, <2>1 DEF Drawn
    <2> QED BY <2>2, <2>3 DEF DestOf, Past
  <1> QED BY <1>4, <1>6, <1>7, <1>8, <1>9

LEMMA TakeJournal ==
    ASSUME sent' = sent, journal' = journal, NEW i
    PROVE  Drawn(i)' = Drawn(i) /\ DestOf(i)' = DestOf(i) /\ Past(i)' = Past(i)
  BY DEF Drawn, DestOf, Past

(* The first message of a link, and what it depends on. *)
LEMMA FirstFacts ==
    ASSUME TypeOK, Carried, NEW s \in Site, NEW t \in Site, link[s][t] # <<>>
    PROVE  LET m == FirstOf(s, t) IN
           /\ m \in Packet /\ m = link[s][t][1] /\ CarriedWell(s, t, m)
           /\ m.id \in Ids /\ Past(m.id) \subseteq Ids
  <1> DEFINE m == FirstOf(s, t)
  <1>1. /\ m \in Packet /\ m = link[s][t][1] /\ 1 \in 1 .. Len(link[s][t])
    BY TypeFacts, TailFacts DEF FirstOf
  <1>2. CarriedWell(s, t, m) /\ m.id \in Ids /\ m.id[2] <= sent[m.id[1]]
    BY <1>1 DEF Carried, CarriedWell, Drawn
  <1> HIDE DEF m
  <1>3. m.id[1] \in Site /\ m.id[2] \in 1 .. Len(journal[m.id[1]])
    BY <1>2, TypeFacts DEF Ids, TypeOK
  <1>4. \A u \in Site : \A k \in 1 .. Len(journal[u]) : journal[u][k].past \subseteq Ids
    <2> SUFFICES ASSUME NEW u \in Site, NEW k \in 1 .. Len(journal[u])
                 PROVE  journal[u][k].past \subseteq Ids
      OBVIOUS
    <2>1. journal[u] \in Seq([dest : Site \cup {BROADCAST, BROADCAST_NEIGHBORS},
                             past : SUBSET Ids])
      BY DEF TypeOK
    <2>2. journal[u][k] \in [dest : Site \cup {BROADCAST, BROADCAST_NEIGHBORS},
                             past : SUBSET Ids]
      BY <2>1, ElementOfSeq
    <2> QED BY <2>2
  <1>5. Past(m.id) \subseteq Ids
    BY <1>3, <1>4 DEF Past
  <1> QED BY <1>1, <1>2, <1>5 DEF m

-----------------------------------------------------------------------------
(* Type correctness. *)

LEMMA InitAll ==
    ASSUME Init PROVE TypeOK /\ LinksInv /\ OrderInv
  <1>1. /\ \A u, v \in Site : link[u][v] = <<>>
        /\ \A u \in Site : seen[u] = {} /\ knows[u] = {} /\ sent[u] = 0 /\ journal[u] = <<>>
        /\ seen = [u \in Site |-> {}] /\ knows = [u \in Site |-> {}]
        /\ sent = [u \in Site |-> 0] /\ journal = [u \in Site |-> <<>>]
        /\ link = [u \in Site |-> [v \in Site |-> <<>>]]
    BY DEF Init, LinksInit
  <1>2. TypeOK
    BY <1>1 DEF TypeOK, LinksTypeOK
  <1>3. ~ \E i \in Ids : Drawn(i)
    BY <1>1 DEF Drawn, Ids
  <1>4. \A i \in 1 .. Len(<<>>) : FALSE
    OBVIOUS
  <1>5. Carried /\ NoTwinsOnLink /\ InOrder
    BY <1>1, <1>4 DEF Carried, NoTwinsOnLink, InOrder
  <1>6. History /\ NeighboursOnly /\ SeenInOrder /\ KnownSettled
    BY <1>1, <1>3 DEF History, NeighboursOnly, SeenInOrder, KnownSettled
  <1>7. PassedOn
    BY <1>3 DEF PassedOn
  <1> QED BY <1>2, <1>5, <1>6, <1>7 DEF LinksInv, OrderInv

LEMMA TypeStep ==
    ASSUME TypeOK, Carried, Next PROVE TypeOK'
  <1> DEFINE Record == [dest : Site \cup {BROADCAST, BROADCAST_NEIGHBORS},
                        past : SUBSET Ids]
  <1>types. /\ knows \in [Site -> SUBSET Ids] /\ journal \in [Site -> Seq(Record)]
            /\ \A u \in Site : Len(journal[u]) = sent[u]
    BY DEF TypeOK
  <1>1. ASSUME NEW s \in Site, NEW dest \in Destinations(s), Send(s, dest)
        PROVE  TypeOK'
    <2> DEFINE entry == [dest |-> dest, past |-> knows[s]]
    <2>1. entry \in Record
      BY <1>types DEF Destinations
    <2>2. /\ journal' = [journal EXCEPT ![s] = Append(@, entry)]
          /\ knows' = [knows EXCEPT ![s] = @ \cup {Fresh(s)}]
      BY <1>1 DEF Send, Fresh
    <2> HIDE DEF entry
    <2>3. link' \in [Site -> [Site -> Queue]]
      <3>1. ASSUME NEW u \in Site, NEW v \in Site PROVE link'[u][v] \in Queue
        <4>1. link[u][v] \in Queue /\ Drafted(s, dest) \in Packet
          BY <1>1, SendStep, TypeFacts
        <4>2. Append(link[u][v], Drafted(s, dest)) \in Queue
          BY <4>1, AppendFacts
        <4> QED BY <1>1, <4>1, <4>2, SendStep
      <3>2. link' = [u \in Site |-> [v \in Site |-> link'[u][v]]]
        BY <1>1, TypeFacts DEF Send, Originate, OriginateTo, Written
      <3> QED BY <3>1, <3>2
    <2>4. sent' \in [Site -> Nat] /\ seen' \in [Site -> SUBSET Ids]
      BY <1>1, SendStep, TypeFacts
    <2> HIDE DEF Record
    <2>5. /\ journal[s] \in Seq(Record) /\ Append(journal[s], entry) \in Seq(Record)
          /\ Len(Append(journal[s], entry)) = Len(journal[s]) + 1
      BY <1>types, <2>1
    <2>6. journal' \in [Site -> Seq(Record)]
      BY <1>types, <2>2, <2>5
    <2>7. \A u \in Site : Len(journal'[u]) = sent'[u]
      <3>1. sent' = [sent EXCEPT ![s] = @ + 1] /\ sent \in [Site -> Nat]
        BY <1>1, SendStep, TypeFacts
      <3>2. Len(journal'[s]) = sent'[s]
        BY <1>types, <2>2, <2>5, <3>1
      <3>3. \A u \in Site \ {s} : Len(journal'[u]) = sent'[u]
        BY <1>types, <2>2, <3>1
      <3> QED BY <3>2, <3>3
    <2>8. knows' \in [Site -> SUBSET Ids]
      BY <1>1, <1>types, <2>2, SendJournal
    <2> QED BY <2>3, <2>4, <2>6, <2>7, <2>8
            DEF TypeOK, LinksTypeOK, Queue, Packet, Record
  <1>2. ASSUME NEW s \in Site, NEW t \in Site, Handle(s, t) \/ Pass(s, t)
        PROVE  TypeOK'
    <2>1. link[s][t] # <<>> /\ Take(s, t, <<>>) /\ journal' = journal
      BY <1>2, StepTakes
    <2>2. link' \in [Site -> [Site -> Queue]]
      <3>1. ASSUME NEW u \in Site, NEW v \in Site PROVE link'[u][v] \in Queue
        <4>1. link[u][v] \in Queue /\ FirstOf(s, t) \in Packet
          BY <2>1, TakeStep, TypeFacts
        <4>2. Append(link[u][v], FirstOf(s, t)) \in Queue
          BY <4>1, AppendFacts
        <4>3. u = s /\ v = t => Tail(link[u][v]) \in Queue
          BY <2>1, <4>1, TailFacts
        <4> QED BY <2>1, <4>1, <4>2, <4>3, TakeStep
      <3>2. link' = [u \in Site |-> [v \in Site |-> link'[u][v]]]
        BY <2>1, TypeFacts DEF Take, TakeTo, TakeWith, TakeAmong, Written
      <3> QED BY <3>1, <3>2
    <2>3. FirstOf(s, t).id \in Ids /\ Past(FirstOf(s, t).id) \subseteq Ids
      BY <2>1, FirstFacts
    <2>4. sent' = sent /\ seen' \in [Site -> SUBSET Ids]
      BY <2>1, <2>3, TakeStep, TypeFacts
    <2>5. knows' \in [Site -> SUBSET Ids]
      BY <1>2, <1>types, <2>3 DEF Handle, Pass, Id
    <2> QED BY <1>types, <2>1, <2>2, <2>4, <2>5, TypeFacts
            DEF TypeOK, LinksTypeOK, Queue, Packet
  <1> QED BY <1>1, <1>2 DEF Next

-----------------------------------------------------------------------------
(* What becomes of one queue: r is q without its first message, or with    *)
(* one more.                                                               *)

Popped(q, r, m) ==
    /\ Len(q) \in Nat \ {0} /\ Len(r) = Len(q) - 1 /\ q[1] = m
    /\ \A k \in 1 .. Len(r) : r[k] = q[k + 1]
Grown(q, r, m) ==
    /\ Len(q) \in Nat /\ Len(r) = Len(q) + 1 /\ r[Len(q) + 1] = m
    /\ \A k \in 1 .. Len(q) : r[k] = q[k]
NoTwins(q) == \A i, j \in 1 .. Len(q) : q[i].id = q[j].id => i = j

LEMMA SendShapes ==
    ASSUME TypeOK, NEW s \in Site, NEW dest \in Destinations(s), Send(s, dest),
           NEW u \in Site, NEW v \in Site
    PROVE  \/ u = s /\ v \in Neighbours[s]
              /\ Grown(link[u][v], link'[u][v], Drafted(s, dest))
           \/ ~(u = s /\ v \in Neighbours[s]) /\ link'[u][v] = link[u][v]
  <1>1. link[u][v] \in Queue /\ Drafted(s, dest) \in Packet
    BY SendStep, TypeFacts
  <1>2. Grown(link[u][v], Append(link[u][v], Drafted(s, dest)), Drafted(s, dest))
    BY <1>1, AppendFacts DEF Grown
  <1> QED BY <1>2, SendStep

LEMMA TakeShapes ==
    ASSUME TypeOK, NEW s \in Site, NEW t \in Site, link[s][t] # <<>>,
           Take(s, t, <<>>), NEW m, m = FirstOf(s, t)
    PROVE  \A u, v \in Site :
              \/ u = s /\ v = t /\ Popped(link[u][v], link'[u][v], m)
              \/ /\ u = t /\ v \in Readers(t, m) /\ ~(u = s /\ v = t)
                 /\ Grown(link[u][v], link'[u][v], m)
              \/ /\ ~(u = s /\ v = t) /\ ~(u = t /\ v \in Readers(t, m))
                 /\ link'[u][v] = link[u][v]
  <1> SUFFICES ASSUME NEW u \in Site, NEW v \in Site
               PROVE  \/ u = s /\ v = t /\ Popped(link[u][v], link'[u][v], m)
                      \/ /\ u = t /\ v \in Readers(t, m) /\ ~(u = s /\ v = t)
                         /\ Grown(link[u][v], link'[u][v], m)
                      \/ /\ ~(u = s /\ v = t) /\ ~(u = t /\ v \in Readers(t, m))
                         /\ link'[u][v] = link[u][v]
    OBVIOUS
  <1>1. link[u][v] \in Queue /\ m \in Packet
    BY TakeStep, TypeFacts
  <1>2. Grown(link[u][v], Append(link[u][v], m), m)
    BY <1>1, AppendFacts DEF Grown
  <1>3. u = s /\ v = t => Popped(link[u][v], Tail(link[u][v]), m)
    BY <1>1, TailFacts DEF Popped, FirstOf
  <1>4. link'[u][v] = IF u = s /\ v = t THEN Tail(link[u][v])
                      ELSE IF u = t /\ v \in Readers(t, m)
                      THEN Append(link[u][v], m) ELSE link[u][v]
    BY TakeStep
  <1> QED BY <1>2, <1>3, <1>4

LEMMA PoppedTwins ==
    ASSUME NEW q, NEW r, NEW m, Popped(q, r, m), NoTwins(q) PROVE NoTwins(r)
  <1> SUFFICES ASSUME NEW i \in 1 .. Len(r), NEW j \in 1 .. Len(r), r[i].id = r[j].id
               PROVE  i = j
    BY DEF NoTwins
  <1>1. i + 1 \in 1 .. Len(q) /\ j + 1 \in 1 .. Len(q) /\ q[i + 1].id = q[j + 1].id
    BY DEF Popped
  <1>2. i + 1 = j + 1
    BY <1>1 DEF NoTwins
  <1> QED BY <1>2

LEMMA GrownTwins ==
    ASSUME NEW q, NEW r, NEW m, Grown(q, r, m), NoTwins(q),
           \A i \in 1 .. Len(q) : q[i].id # m.id
    PROVE  NoTwins(r)
  <1>1. \A i \in 1 .. Len(r) : (i \in 1 .. Len(q) /\ r[i] = q[i]) \/ (i = Len(r) /\ r[i] = m)
    BY DEF Grown
  <1> QED BY <1>1 DEF NoTwins

LEMMA TwinsOnLinks ==
    ASSUME TypeOK
    PROVE  NoTwinsOnLink <=> \A u, v \in Site : NoTwins(link[u][v])
  <1>1. \A u, v \in Site : DOMAIN link[u][v] = 1 .. Len(link[u][v])
    BY TypeFacts, LenProperties DEF Queue
  <1> QED BY SMTT(30), <1>1 DEF NoTwinsOnLink, NoTwins, Id

LEMMA PoppedBefore ==
    ASSUME NEW q, NEW r, NEW m, Popped(q, r, m), NEW k \in 1 .. Len(r) + 1, NEW j,
           Before(q, k + 1, j)
    PROVE  j = m.id \/ Before(r, k, j)
  <1> PICK i \in 1 .. k + 1 - 1 : q[i].id = j
    BY DEF Before
  <1>1. CASE i = 1
    BY <1>1 DEF Popped
  <1>2. CASE i # 1
    <2>1. i - 1 \in 1 .. k - 1 /\ i - 1 \in 1 .. Len(r)
      BY <1>2 DEF Popped
    <2>2. r[i - 1] = q[i - 1 + 1] /\ i - 1 + 1 = i
      BY <2>1 DEF Popped
    <2> QED BY <2>1, <2>2 DEF Before
  <1> QED BY <1>1, <1>2

LEMMA GrownBefore ==
    ASSUME NEW q, NEW r, NEW m, Grown(q, r, m), NEW k \in 1 .. Len(q) + 1, NEW j,
           Before(q, k, j)
    PROVE  Before(r, k, j) /\ Before(r, Len(r) + 1, j)
  <1> PICK i \in 1 .. k - 1 : q[i].id = j
    BY DEF Before
  <1>1. i \in 1 .. Len(q) /\ r[i] = q[i] /\ i \in 1 .. Len(r) + 1 - 1
    BY DEF Grown
  <1> QED BY <1>1 DEF Before

(* A message on a link of before is on it as it was. *)
LEMMA CarriedKept ==
    ASSUME NEW u \in Site, NEW v \in Site, NEW x, CarriedWell(u, v, x),
           seen[u] \subseteq seen'[u], Drawn(x.id)', DestOf(x.id)' = DestOf(x.id)
    PROVE  CarriedWell(u, v, x)'
  BY DEF CarriedWell

LEMMA SendLinks ==
    ASSUME TypeOK, LinksInv, NEW s \in Site, NEW dest \in Destinations(s),
           Send(s, dest)
    PROVE  LinksInv'
  <1> PICK f : f = Fresh(s)
    OBVIOUS
  <1> PICK m : m = Drafted(s, dest)
    OBVIOUS
  <1>1. /\ f \in Ids /\ ~Drawn(f) /\ Drawn(f)'
        /\ DestOf(f)' = dest /\ Past(f)' = knows[s]
        /\ \A i \in Ids : Drawn(i)' => Drawn(i) \/ i = f
        /\ \A i : Drawn(i) => /\ Drawn(i)' /\ i # f
                              /\ DestOf(i)' = DestOf(i) /\ Past(i)' = Past(i)
    BY SendJournal
  <1>2. /\ m.id = f /\ m.sender = s /\ m.dest = dest /\ f[1] = s
        /\ seen' = seen /\ knows' = [knows EXCEPT ![s] = @ \cup {f}]
    BY SendStep DEF Drafted, Fresh, Send
  <1>3. Carried'
    <2>1. ASSUME NEW u \in Site, NEW v \in Site, NEW x, CarriedWell(u, v, x)
          PROVE  CarriedWell(u, v, x)'
      <3>1. Drawn(x.id)
        BY <2>1 DEF CarriedWell
      <3> QED BY <1>1, <1>2, <2>1, <3>1, CarriedKept
    <2>2. ASSUME NEW v \in Neighbours[s] PROVE CarriedWell(s, v, m)'
      BY <1>1, <1>2 DEF CarriedWell
    <2> SUFFICES ASSUME NEW u \in Site, NEW v \in Site, NEW k \in 1 .. Len(link'[u][v]),
                        NEW x, x = link'[u][v][k]
                 PROVE  CarriedWell(u, v, x)'
      BY DEF Carried, CarriedWell
    <2>3. \/ \E i \in 1 .. Len(link[u][v]) : x = link[u][v][i]
          \/ u = s /\ v \in Neighbours[s] /\ x = m
      BY SendShapes DEF Grown
    <2> QED BY <2>1, <2>2, <2>3 DEF LinksInv, Carried
  <1>4. History'
    <2>1. \A u \in Site : \A i \in seen'[u] \cup knows'[u] : Drawn(i)'
      <3>1. \A u \in Site : \A i \in seen[u] \cup knows[u] : Drawn(i)
        BY DEF LinksInv, History
      <3>2. \A u \in Site : knows'[u] \subseteq knows[u] \cup {f}
        BY <1>2 DEF TypeOK
      <3> QED BY <1>1, <1>2, <3>1, <3>2
    <2>2. ASSUME NEW i \in Ids, Drawn(i)'
          PROVE  DestOf(i)' # i[1] /\ \A j \in Past(i)' : Drawn(j)'
      <3>1. CASE i = f
        <4>1. dest # s
          BY SiteAssumption DEF Destinations, BROADCAST, BROADCAST_NEIGHBORS
        <4>2. \A j \in knows[s] : Drawn(j)
          BY DEF LinksInv, History
        <4> QED BY <1>1, <1>2, <3>1, <4>1, <4>2
      <3>2. CASE Drawn(i)
        BY <1>1, <3>2 DEF LinksInv, History
      <3> QED BY <1>1, <2>2, <3>1, <3>2
    <2> QED BY <2>1, <2>2 DEF History
  <1>5. NoTwinsOnLink'
    <2>1. \A u, v \in Site : NoTwins(link[u][v])
      BY TwinsOnLinks DEF LinksInv
    <2>2. ASSUME NEW u \in Site, NEW v \in Site PROVE NoTwins(link'[u][v])
      <3>1. \A i \in 1 .. Len(link[u][v]) : link[u][v][i].id # m.id
        BY <1>1, <1>2 DEF LinksInv, Carried, CarriedWell
      <3> QED BY <2>1, <3>1, SendShapes, GrownTwins
    <2>3. TypeOK'
      BY TypeStep DEF LinksInv, Next
    <2>4. (NoTwinsOnLink <=> \A u, v \in Site : NoTwins(link[u][v]))'
      BY <2>3, TwinsOnLinks, PTL
    <2> QED BY <2>2, <2>4
  <1>6. NeighboursOnly'
    <2>1. \A u \in Site : \A i \in seen[u] : DestOf(i)' = DestOf(i)
      BY <1>1 DEF LinksInv, History
    <2> QED BY <1>2, <2>1 DEF LinksInv, NeighboursOnly
  <1> QED BY <1>3, <1>4, <1>5, <1>6 DEF LinksInv

(* What a site takes from a link existed, and what it passes on is new to  *)
(* it and not its own.                                                     *)
LEMMA TakeFacts ==
    ASSUME TypeOK, LinksInv, NEW s \in Site, NEW t \in Site,
           Handle(s, t) \/ Pass(s, t), NEW m, m = FirstOf(s, t)
    PROVE  /\ link[s][t] # <<>> /\ Take(s, t, <<>>) /\ CarriedWell(s, t, m)
           /\ m.id \in Ids /\ Drawn(m.id) /\ Past(m.id) \subseteq Ids
           /\ m = link[s][t][1] /\ 1 \in 1 .. Len(link[s][t])
           /\ seen' = [seen EXCEPT ![t] = @ \cup {m.id}]
           /\ \A u \in Site : seen[u] \subseteq seen'[u]
           /\ \A u \in Site : knows'[u] \subseteq
                 knows[u] \cup (IF u = t THEN {m.id} \cup Past(m.id) ELSE {})
           /\ \A i : Drawn(i)' = Drawn(i) /\ DestOf(i)' = DestOf(i) /\ Past(i)' = Past(i)
           /\ \A v \in Readers(t, m) :
                 /\ v \in Neighbours[t] /\ m.id \notin seen[t] /\ m.id[1] # t
                 /\ m.dest \notin {BROADCAST_NEIGHBORS, t}
  <1>1. link[s][t] # <<>> /\ Take(s, t, <<>>) /\ journal' = journal
    BY StepTakes
  <1>2. /\ m = link[s][t][1] /\ CarriedWell(s, t, m)
        /\ m.id \in Ids /\ Past(m.id) \subseteq Ids
    BY <1>1, FirstFacts DEF LinksInv
  <1>3. Drawn(m.id) /\ m.sender = m.id[1]
    BY <1>2 DEF CarriedWell
  <1>4. 1 \in 1 .. Len(link[s][t])
    BY <1>1, TypeFacts, TailFacts
  <1>5. /\ seen' = [seen EXCEPT ![t] = @ \cup {m.id}] /\ sent' = sent
        /\ \A u \in Site : seen[u] \subseteq seen'[u]
    <2>1. seen' = [seen EXCEPT ![t] = @ \cup {m.id}] /\ sent' = sent
      BY <1>1, TakeStep
    <2> QED BY <2>1, TypeFacts
  <1>6. \A u \in Site : knows'[u] \subseteq
            knows[u] \cup (IF u = t THEN {m.id} \cup Past(m.id) ELSE {})
    BY DEF Handle, Pass, Id, TypeOK
  <1>7. \A i : Drawn(i)' = Drawn(i) /\ DestOf(i)' = DestOf(i) /\ Past(i)' = Past(i)
    BY <1>1, <1>5, TakeJournal
  <1>8. \A v \in Readers(t, m) :
            /\ v \in Neighbours[t] /\ m.id \notin seen[t] /\ m.id[1] # t
            /\ m.dest \notin {BROADCAST_NEIGHBORS, t}
    BY <1>3 DEF Readers, IsNew, Forwards, Id
  <1> QED BY <1>1, <1>2, <1>3, <1>4, <1>5, <1>6, <1>7, <1>8

LEMMA TakeLinks ==
    ASSUME TypeOK, LinksInv, NEW s \in Site, NEW t \in Site,
           Handle(s, t) \/ Pass(s, t)
    PROVE  LinksInv'
  <1> PICK m : m = FirstOf(s, t)
    OBVIOUS
  <1>1. /\ link[s][t] # <<>> /\ Take(s, t, <<>>) /\ CarriedWell(s, t, m)
        /\ m.id \in Ids /\ Drawn(m.id) /\ Past(m.id) \subseteq Ids
        /\ m = link[s][t][1] /\ 1 \in 1 .. Len(link[s][t])
    BY TakeFacts
  <1>2. /\ seen' = [seen EXCEPT ![t] = @ \cup {m.id}]
        /\ \A u \in Site : seen[u] \subseteq seen'[u]
        /\ \A u \in Site : knows'[u] \subseteq
              knows[u] \cup (IF u = t THEN {m.id} \cup Past(m.id) ELSE {})
    BY TakeFacts
  <1>3. \A i : Drawn(i)' = Drawn(i) /\ DestOf(i)' = DestOf(i) /\ Past(i)' = Past(i)
    BY TakeFacts
  <1>4. \A v \in Readers(t, m) :
            /\ v \in Neighbours[t] /\ m.id \notin seen[t] /\ m.id[1] # t
            /\ m.dest \notin {BROADCAST_NEIGHBORS, t}
    BY TakeFacts
  <1>shapes. \A u, v \in Site :
                \/ u = s /\ v = t /\ Popped(link[u][v], link'[u][v], m)
                \/ /\ u = t /\ v \in Readers(t, m) /\ ~(u = s /\ v = t)
                   /\ Grown(link[u][v], link'[u][v], m)
                \/ /\ ~(u = s /\ v = t) /\ ~(u = t /\ v \in Readers(t, m))
                   /\ link'[u][v] = link[u][v]
    <2>1. link[s][t] # <<>> /\ Take(s, t, <<>>)
      BY <1>1
    <2> QED BY <2>1, TakeShapes
  <1>5. ASSUME NEW u \in Site, NEW v \in Site, NEW k \in 1 .. Len(link'[u][v])
        PROVE  \/ \E i \in 1 .. Len(link[u][v]) : link'[u][v][k] = link[u][v][i]
               \/ u = t /\ v \in Readers(t, m) /\ link'[u][v][k] = m
    <2>1. CASE Popped(link[u][v], link'[u][v], m)
      BY <2>1 DEF Popped
    <2>2. CASE u = t /\ v \in Readers(t, m) /\ Grown(link[u][v], link'[u][v], m)
      BY <2>2 DEF Grown
    <2>3. CASE link'[u][v] = link[u][v]
      BY <2>3
    <2> QED BY <1>shapes, <2>1, <2>2, <2>3
  <1>6. Carried'
    <2>1. ASSUME NEW u \in Site, NEW v \in Site, NEW x, CarriedWell(u, v, x)
          PROVE  CarriedWell(u, v, x)'
      <3>1. Drawn(x.id)
        BY <2>1 DEF CarriedWell
      <3> QED BY <1>2, <1>3, <2>1, <3>1, CarriedKept
    <2>2. ASSUME NEW v \in Readers(t, m) PROVE CarriedWell(t, v, m)'
      <3>1. m.id \in seen'[t]
        BY <1>1, <1>2, TypeFacts
      <3> QED BY <1>1, <1>3, <1>4, <3>1 DEF CarriedWell
    <2> SUFFICES ASSUME NEW u \in Site, NEW v \in Site, NEW k \in 1 .. Len(link'[u][v]),
                        NEW x, x = link'[u][v][k]
                 PROVE  CarriedWell(u, v, x)'
      BY DEF Carried, CarriedWell
    <2>3. CASE \E i \in 1 .. Len(link[u][v]) : x = link[u][v][i]
      <3>1. CarriedWell(u, v, x)
        BY <2>3 DEF LinksInv, Carried
      <3> QED BY <2>1, <3>1
    <2>4. CASE u = t /\ v \in Readers(t, m) /\ x = m
      BY <2>2, <2>4
    <2> QED BY <1>5, <2>3, <2>4
  <1>7. History'
    <2>1. \A u \in Site : \A i \in seen'[u] \cup knows'[u] : Drawn(i)'
      <3>1. \A u \in Site : \A i \in seen[u] \cup knows[u] : Drawn(i)
        BY DEF LinksInv, History
      <3>2. \A u \in Site : seen'[u] \subseteq seen[u] \cup {m.id}
        BY <1>2, TypeFacts
      <3>3. \A i \in Past(m.id) : Drawn(i)
        BY <1>1 DEF LinksInv, History
      <3> QED BY <1>1, <1>2, <1>3, <3>1, <3>2, <3>3
    <2>2. \A i \in Ids : Drawn(i)' => DestOf(i)' # i[1] /\ \A j \in Past(i)' : Drawn(j)'
      BY <1>3 DEF LinksInv, History
    <2> QED BY <2>1, <2>2 DEF History
  <1>8. NoTwinsOnLink'
    <2>1. \A u, v \in Site : NoTwins(link[u][v])
      BY TwinsOnLinks DEF LinksInv
    <2>2. ASSUME NEW u \in Site, NEW v \in Site PROVE NoTwins(link'[u][v])
      <3>1. CASE Popped(link[u][v], link'[u][v], m)
        BY <2>1, <3>1, PoppedTwins
      <3>2. CASE u = t /\ v \in Readers(t, m) /\ Grown(link[u][v], link'[u][v], m)
        <4>1. \A i \in 1 .. Len(link[u][v]) : link[u][v][i].id # m.id
          BY <1>4, <3>2 DEF LinksInv, Carried, CarriedWell
        <4> QED BY <2>1, <3>2, <4>1, GrownTwins
      <3>3. CASE link'[u][v] = link[u][v]
        BY <2>1, <3>3
      <3> QED BY <1>shapes, <3>1, <3>2, <3>3
    <2>3. TypeOK'
      BY TypeStep DEF LinksInv, Next
    <2>4. (NoTwinsOnLink <=> \A u, v \in Site : NoTwins(link[u][v]))'
      BY <2>3, TwinsOnLinks, PTL
    <2> QED BY <2>2, <2>4
  <1>9. NeighboursOnly'
    <2>1. \A u \in Site \ {t} : seen'[u] = seen[u]
      BY <1>2
    <2>2. \A i \in seen'[t] : i \in seen[t] \/ i = m.id
      BY <1>2, TypeFacts
    <2>3. DestOf(m.id) = BROADCAST_NEIGHBORS => t \in Neighbours[m.id[1]]
      BY <1>1 DEF CarriedWell
    <2> QED BY <1>3, <2>1, <2>2, <2>3 DEF LinksInv, NeighboursOnly
  <1> QED BY <1>6, <1>7, <1>8, <1>9 DEF LinksInv

-----------------------------------------------------------------------------
(* The order of the messages. *)

LEMMA SettledKept ==
    ASSUME NEW j, NEW t, \A u \in Site : seen[u] \subseteq seen'[u], t \in Site,
           DestOf(j)' = DestOf(j), Settled(j, t)
    PROVE  Settled(j, t)'
  BY DEF Settled

(* What is settled at s is settled at a neighbour, or on the link to it:   *)
(* what s writes next comes after.                                         *)
LEMMA WriteAfter ==
    ASSUME LinksInv, OrderInv, NEW s \in Site, NEW r \in Neighbours[s],
           NEW j \in Ids, Drawn(j), Flooded(j), Settled(j, s)
    PROVE  Settled(j, r) \/ OnLink(s, r, j)
  <1>1. DestOf(j) # j[1]
    BY DEF LinksInv, History
  <1>2. CASE DestOf(j) \in Site /\ j \in seen[DestOf(j)]
    BY <1>2 DEF Settled
  <1>3. CASE (j[1] = s \/ j \in seen[s]) /\ DestOf(j) # s
    BY <1>3 DEF OrderInv, PassedOn
  <1>4. CASE (j[1] = s \/ j \in seen[s]) /\ DestOf(j) = s
    BY <1>1, <1>4 DEF Settled
  <1> QED BY <1>2, <1>3, <1>4 DEF Settled

LEMMA SendOrder ==
    ASSUME TypeOK, LinksInv, OrderInv, NEW s \in Site, NEW dest \in Destinations(s),
           Send(s, dest)
    PROVE  OrderInv'
  <1> PICK f : f = Fresh(s)
    OBVIOUS
  <1> PICK m : m = Drafted(s, dest)
    OBVIOUS
  <1>1. /\ f \in Ids /\ ~Drawn(f) /\ Past(f)' = knows[s]
        /\ \A i \in Ids : Drawn(i)' => Drawn(i) \/ i = f
        /\ \A i : Drawn(i) => DestOf(i)' = DestOf(i) /\ Past(i)' = Past(i)
    BY SendJournal
  <1>2. /\ m.id = f /\ f[1] = s /\ seen' = seen
        /\ knows' = [knows EXCEPT ![s] = @ \cup {f}]
    BY SendStep DEF Drafted, Fresh, Send
  <1>3. /\ \A u \in Site : \A i \in seen[u] \cup knows[u] : i \in Ids /\ Drawn(i)
        /\ \A i \in Ids : Drawn(i) => \A j \in Past(i) : j \in Ids /\ Drawn(j)
    BY DEF LinksInv, History, Drawn
  <1>4. ASSUME NEW j \in Ids, Drawn(j), NEW t \in Site, Settled(j, t)
        PROVE  Settled(j, t)'
    BY <1>1, <1>2, <1>4, SettledKept
  <1>5. \A j \in Ids : Drawn(j) => Flooded(j)' = Flooded(j)
    BY <1>1 DEF Flooded
  <1>6. \A u, v \in Site :
           \/ /\ u = s /\ v \in Neighbours[s]
              /\ Grown(link[u][v], link'[u][v], m)
           \/ ~(u = s /\ v \in Neighbours[s]) /\ link'[u][v] = link[u][v]
    BY SendShapes
  <1>7. PassedOn'
    <2> SUFFICES ASSUME NEW u \in Site, NEW v \in Neighbours[u], NEW j \in Ids,
                        Drawn(j)', j[1] = u \/ j \in seen'[u], Flooded(j)',
                        DestOf(j)' # u
                 PROVE  Settled(j, v)' \/ Before(link'[u][v], Len(link'[u][v]) + 1, j)
      BY DEF PassedOn, OnLink
    <2>1. v \in Site
      BY NeighboursAssumption
    <2>2. CASE j = f
      <3>1. u = s
        BY <1>1, <1>2, <1>3, <2>2
      <3>2. Grown(link[u][v], link'[u][v], m)
        BY <1>6, <2>1, <3>1
      <3> QED BY <1>2, <2>2, <3>2 DEF Grown, Before
    <2>3. CASE Drawn(j)
      <3>1. Settled(j, v) \/ Before(link[u][v], Len(link[u][v]) + 1, j)
        BY <1>1, <1>2, <1>5, <2>3 DEF OrderInv, PassedOn, OnLink
      <3>2. ASSUME Grown(link[u][v], link'[u][v], m),
                   Before(link[u][v], Len(link[u][v]) + 1, j)
            PROVE  Before(link'[u][v], Len(link'[u][v]) + 1, j)
        <4>1. Len(link[u][v]) + 1 \in 1 .. Len(link[u][v]) + 1
          BY <3>2 DEF Grown
        <4> QED BY <3>2, <4>1, GrownBefore
      <3> QED BY <1>4, <1>6, <2>1, <2>3, <3>1, <3>2
    <2> QED BY <1>1, <2>2, <2>3
  <1>8. InOrder'
    <2> SUFFICES ASSUME NEW u \in Site, NEW v \in Site, NEW k \in 1 .. Len(link'[u][v]),
                        NEW x, x = link'[u][v][k], NEW j, j \in Past(x.id)',
                        Flooded(j)'
                 PROVE  Settled(j, v)' \/ Before(link'[u][v], k, j)
      BY DEF InOrder
    <2>1. ASSUME k \in 1 .. Len(link[u][v]), x = link[u][v][k]
          PROVE  Settled(j, v)' \/ Before(link[u][v], k, j)
      <3>1. x.id \in Ids /\ Drawn(x.id)
        BY <2>1 DEF LinksInv, Carried, CarriedWell, Drawn
      <3>2. j \in Past(x.id) /\ j \in Ids /\ Drawn(j) /\ Flooded(j)
        BY <1>1, <1>3, <1>5, <3>1
      <3>3. Settled(j, v) \/ Before(link[u][v], k, j)
        BY <2>1, <3>2 DEF OrderInv, InOrder
      <3> QED BY <1>4, <3>2, <3>3
    <2>2. CASE link'[u][v] = link[u][v]
      BY <2>1, <2>2
    <2>3. CASE u = s /\ v \in Neighbours[s] /\ Grown(link[u][v], link'[u][v], m)
      <3>1. CASE k \in 1 .. Len(link[u][v])
        <4>1. x = link[u][v][k] /\ k \in 1 .. Len(link[u][v]) + 1
          BY <2>3, <3>1 DEF Grown
        <4>2. Settled(j, v)' \/ Before(link[u][v], k, j)
          BY <2>1, <3>1, <4>1
        <4> QED BY <2>3, <4>1, <4>2, GrownBefore
      <3>2. CASE k \notin 1 .. Len(link[u][v])
        <4>1. k = Len(link[u][v]) + 1 /\ x = m /\ k \in 1 .. Len(link[u][v]) + 1
          BY <2>3, <3>2 DEF Grown
        <4>2. j \in knows[s] /\ j \in Ids /\ Drawn(j) /\ Flooded(j)
          BY <1>1, <1>2, <1>3, <1>5, <4>1
        <4>3. Settled(j, s)
          BY <4>2 DEF OrderInv, KnownSettled
        <4>4. Settled(j, v) \/ Before(link[u][v], k, j)
          BY <2>3, <4>1, <4>2, <4>3, WriteAfter DEF OnLink
        <4> QED BY <1>4, <2>3, <4>1, <4>2, <4>4, GrownBefore
      <3> QED BY <3>1, <3>2
    <2> QED BY <1>6, <2>2, <2>3
  <1>9. SeenInOrder' /\ KnownSettled'
    <2>1. ASSUME NEW t \in Site, NEW i, i \in seen'[t], NEW j, j \in Past(i)', Flooded(j)'
          PROVE  Settled(j, t)'
      <3>1. i \in seen[t] /\ j \in Past(i) /\ j \in Ids /\ Drawn(j) /\ Flooded(j)
        BY <1>1, <1>2, <1>3, <1>5, <2>1
      <3> QED BY <1>4, <3>1 DEF OrderInv, SeenInOrder
    <2>2. ASSUME NEW t \in Site, NEW j, j \in knows'[t], Flooded(j)'
          PROVE  Settled(j, t)'
      <3>1. CASE j \in knows[t]
        BY <1>3, <1>4, <1>5, <2>2, <3>1 DEF OrderInv, KnownSettled
      <3>2. CASE j \notin knows[t]
        <4>1. t = s /\ j = f
          BY <1>2, <2>2, <3>2 DEF TypeOK
        <4> QED BY <1>2, <4>1 DEF Settled
      <3> QED BY <3>1, <3>2
    <2> QED BY <2>1, <2>2 DEF SeenInOrder, KnownSettled
  <1> QED BY <1>7, <1>8, <1>9 DEF OrderInv

LEMMA TakeOrder ==
    ASSUME TypeOK, LinksInv, OrderInv, NEW s \in Site, NEW t \in Site,
           Handle(s, t) \/ Pass(s, t)
    PROVE  OrderInv'
  <1> PICK m : m = FirstOf(s, t)
    OBVIOUS
  <1>1. /\ m.id \in Ids /\ Drawn(m.id) /\ CarriedWell(s, t, m)
        /\ m = link[s][t][1] /\ 1 \in 1 .. Len(link[s][t])
    BY TakeFacts
  <1>2. /\ seen' = [seen EXCEPT ![t] = @ \cup {m.id}]
        /\ \A u \in Site : seen[u] \subseteq seen'[u]
        /\ \A u \in Site : knows'[u] \subseteq
              knows[u] \cup (IF u = t THEN {m.id} \cup Past(m.id) ELSE {})
    BY TakeFacts
  <1>3. \A i : /\ Drawn(i)' = Drawn(i) /\ DestOf(i)' = DestOf(i)
              /\ Past(i)' = Past(i) /\ Flooded(i)' = Flooded(i)
    BY TakeFacts DEF Flooded
  <1>4. \A v \in Readers(t, m) : v \in Neighbours[t]
    BY TakeFacts
  <1>5. /\ \A u \in Site : \A i \in seen[u] \cup knows[u] : i \in Ids /\ Drawn(i)
        /\ \A i \in Ids : Drawn(i) => \A j \in Past(i) : j \in Ids /\ Drawn(j)
    BY DEF LinksInv, History, Drawn
  <1>6. ASSUME NEW j, NEW u \in Site, Settled(j, u) PROVE Settled(j, u)'
    BY <1>2, <1>3, <1>6, SettledKept
  <1>7. \A u, v \in Site :
           \/ u = s /\ v = t /\ Popped(link[u][v], link'[u][v], m)
           \/ /\ u = t /\ v \in Readers(t, m) /\ ~(u = s /\ v = t)
              /\ Grown(link[u][v], link'[u][v], m)
           \/ /\ ~(u = s /\ v = t) /\ ~(u = t /\ v \in Readers(t, m))
              /\ link'[u][v] = link[u][v]
    <2>1. link[s][t] # <<>> /\ Take(s, t, <<>>)
      BY StepTakes
    <2> QED BY <2>1, TakeShapes
  (* The message taken is settled at t from now on, and all that it depends *)
  (* on was settled there already.                                          *)
  <1>8. m.id \in seen'[t] /\ Settled(m.id, t)'
    BY <1>1, <1>2, TypeFacts DEF Settled
  <1>9. ASSUME NEW j \in Past(m.id), Flooded(j) PROVE Settled(j, t)
    <2>1. ~Before(link[s][t], 1, j)
      BY DEF Before
    <2> QED BY <1>1, <1>9, <2>1 DEF OrderInv, InOrder
  <1>10. PassedOn'
    <2> SUFFICES ASSUME NEW u \in Site, NEW v \in Neighbours[u], NEW j \in Ids,
                        Drawn(j)', j[1] = u \/ j \in seen'[u], Flooded(j)',
                        DestOf(j)' # u
                 PROVE  Settled(j, v)' \/ Before(link'[u][v], Len(link'[u][v]) + 1, j)
      BY DEF PassedOn, OnLink
    <2>1. v \in Site /\ Drawn(j) /\ Flooded(j) /\ DestOf(j) # u
      BY <1>3, NeighboursAssumption
    <2>2. CASE j[1] = u \/ j \in seen[u]
      <3>1. Settled(j, v) \/ Before(link[u][v], Len(link[u][v]) + 1, j)
        BY <2>1, <2>2 DEF OrderInv, PassedOn, OnLink
      <3>2. CASE Settled(j, v)
        BY <1>6, <2>1, <3>2
      <3>3. CASE Before(link[u][v], Len(link[u][v]) + 1, j)
        <4>1. CASE v = t /\ Popped(link[u][v], link'[u][v], m)
          <5>1. /\ Len(link[u][v]) = Len(link'[u][v]) + 1
                /\ Len(link'[u][v]) + 1 \in 1 .. Len(link'[u][v]) + 1
            BY <4>1 DEF Popped
          <5>2. j = m.id \/ Before(link'[u][v], Len(link'[u][v]) + 1, j)
            BY <3>3, <4>1, <5>1, PoppedBefore
          <5> QED BY <1>8, <4>1, <5>2
        <4>2. CASE Grown(link[u][v], link'[u][v], m)
          <5>1. Len(link[u][v]) + 1 \in 1 .. Len(link[u][v]) + 1
            BY <4>2 DEF Grown
          <5> QED BY <3>3, <4>2, <5>1, GrownBefore
        <4>3. CASE link'[u][v] = link[u][v]
          BY <3>3, <4>3
        <4> QED BY <1>7, <2>1, <4>1, <4>2, <4>3
      <3> QED BY <3>1, <3>2, <3>3
    <2>3. CASE ~(j[1] = u \/ j \in seen[u])
      <3>1. u = t /\ j = m.id
        BY <1>2, <2>3, TypeFacts
      <3>2. m.sender # t /\ m.dest \notin {BROADCAST_NEIGHBORS, t}
        BY <1>1, <2>1, <2>3, <3>1 DEF CarriedWell, Flooded
      <3>3. v \in Readers(t, m)
        BY <2>3, <3>1, <3>2 DEF Readers, IsNew, Forwards, Id
      <3>4. ~(u = s /\ v = t)
        BY <3>1, NeighboursAssumption
      <3>5. Grown(link[u][v], link'[u][v], m)
        BY <1>7, <2>1, <3>1, <3>3, <3>4
      <3> QED BY <3>1, <3>5 DEF Grown, Before
    <2> QED BY <2>2, <2>3
  <1>11. InOrder'
    <2> SUFFICES ASSUME NEW u \in Site, NEW v \in Site, NEW k \in 1 .. Len(link'[u][v]),
                        NEW x, x = link'[u][v][k], NEW j, j \in Past(x.id)',
                        Flooded(j)'
                 PROVE  Settled(j, v)' \/ Before(link'[u][v], k, j)
      BY DEF InOrder
    <2>1. j \in Past(x.id) /\ Flooded(j)
      BY <1>3
    <2>2. ASSUME NEW n \in 1 .. Len(link[u][v]), x = link[u][v][n]
          PROVE  Settled(j, v)' \/ Before(link[u][v], n, j)
      <3>1. Settled(j, v) \/ Before(link[u][v], n, j)
        BY <2>1, <2>2 DEF OrderInv, InOrder
      <3> QED BY <1>6, <3>1
    <2>3. CASE link'[u][v] = link[u][v]
      BY <2>2, <2>3
    <2>4. CASE v = t /\ Popped(link[u][v], link'[u][v], m)
      <3>1. /\ k + 1 \in 1 .. Len(link[u][v]) /\ x = link[u][v][k + 1]
            /\ k \in 1 .. Len(link'[u][v]) + 1
        BY SMTT(30), <2>4 DEF Popped
      <3>2. Settled(j, v)' \/ Before(link[u][v], k + 1, j)
        BY <2>2, <3>1
      <3>3. Before(link[u][v], k + 1, j) => j = m.id \/ Before(link'[u][v], k, j)
        BY <2>4, <3>1, PoppedBefore
      <3> QED BY <1>8, <2>4, <3>2, <3>3
    <2>5. CASE u = t /\ v \in Readers(t, m) /\ Grown(link[u][v], link'[u][v], m)
      <3>1. CASE k \in 1 .. Len(link[u][v])
        <4>1. x = link[u][v][k] /\ k \in 1 .. Len(link[u][v]) + 1
          BY <2>5, <3>1 DEF Grown
        <4>2. Settled(j, v)' \/ Before(link[u][v], k, j)
          BY <2>2, <3>1, <4>1
        <4> QED BY <2>5, <4>1, <4>2, GrownBefore
      <3>2. CASE k \notin 1 .. Len(link[u][v])
        <4>1. k = Len(link[u][v]) + 1 /\ x = m /\ k \in 1 .. Len(link[u][v]) + 1
          BY <2>5, <3>2 DEF Grown
        <4>2. j \in Ids /\ Drawn(j) /\ Settled(j, t) /\ v \in Neighbours[t]
          BY <1>1, <1>4, <1>5, <1>9, <2>1, <2>5, <4>1
        <4>3. Settled(j, v) \/ Before(link[u][v], k, j)
          BY <2>1, <2>5, <4>1, <4>2, WriteAfter DEF OnLink
        <4> QED BY <1>6, <2>5, <4>1, <4>3, GrownBefore
      <3> QED BY <3>1, <3>2
    <2> QED BY <1>7, <2>3, <2>4, <2>5
  <1>12. SeenInOrder' /\ KnownSettled'
    <2>1. ASSUME NEW u \in Site, NEW i, i \in seen'[u], NEW j, j \in Past(i)', Flooded(j)'
          PROVE  Settled(j, u)'
      <3>1. j \in Past(i) /\ Flooded(j)
        BY <1>3, <2>1
      <3>2. CASE i \in seen[u]
        BY <1>6, <3>1, <3>2 DEF OrderInv, SeenInOrder
      <3>3. CASE i \notin seen[u]
        <4>1. u = t /\ i = m.id
          BY <1>2, <2>1, <3>3, TypeFacts
        <4> QED BY <1>6, <1>9, <3>1, <4>1
      <3> QED BY <3>2, <3>3
    <2>2. ASSUME NEW u \in Site, NEW j, j \in knows'[u], Flooded(j)'
          PROVE  Settled(j, u)'
      <3>1. Flooded(j)
        BY <1>3, <2>2
      <3>2. CASE j \in knows[u]
        BY <1>6, <3>1, <3>2 DEF OrderInv, KnownSettled
      <3>3. CASE j \notin knows[u]
        <4>1. u = t /\ (j = m.id \/ j \in Past(m.id))
          BY <1>2, <2>2, <3>3
        <4> QED BY <1>6, <1>8, <1>9, <3>1, <4>1
      <3> QED BY <3>2, <3>3
    <2> QED BY <2>1, <2>2 DEF SeenInOrder, KnownSettled
  <1> QED BY <1>10, <1>11, <1>12 DEF OrderInv

LEMMA FloodingInvariant == Spec => [](TypeOK /\ LinksInv /\ OrderInv)
  <1>1. Init => TypeOK /\ LinksInv /\ OrderInv
    BY InitAll
  <1>2. TypeOK /\ LinksInv /\ OrderInv /\ [Next]_vars
           => TypeOK' /\ LinksInv' /\ OrderInv'
    <2> SUFFICES ASSUME TypeOK, LinksInv, OrderInv, [Next]_vars
                 PROVE  TypeOK' /\ LinksInv' /\ OrderInv'
      OBVIOUS
    <2>1. CASE Next
      <3>1. TypeOK'
        BY <2>1, TypeStep DEF LinksInv
      <3>2. LinksInv' /\ OrderInv'
        BY <2>1, SendLinks, TakeLinks, SendOrder, TakeOrder DEF Next
      <3> QED BY <3>1, <3>2
    <2>2. CASE UNCHANGED vars
      <3>1. UNCHANGED <<link, seen, sent, journal, knows>>
        BY <2>2 DEF vars, linkVars
      <3>2. \A i : /\ Drawn(i)' = Drawn(i) /\ DestOf(i)' = DestOf(i)
                  /\ Past(i)' = Past(i) /\ Flooded(i)' = Flooded(i)
        BY <3>1 DEF Drawn, DestOf, Past, Flooded
      <3>3. TypeOK'
        BY <3>1 DEF TypeOK, LinksTypeOK
      <3>4. LinksInv'
        BY <3>1, <3>2 DEF LinksInv, Carried, CarriedWell, History, NoTwinsOnLink,
           NeighboursOnly
      <3>5. OrderInv'
        BY <3>1, <3>2 DEF OrderInv, PassedOn, InOrder, SeenInOrder, KnownSettled,
           Settled, OnLink
      <3> QED BY <3>3, <3>4, <3>5
    <2> QED BY <2>1, <2>2
  <1> QED BY <1>1, <1>2, PTL DEF Spec

-----------------------------------------------------------------------------
(* The theorems. *)

(* Every variable of the network keeps its type, for every network, every  *)
(* number of messages and any destinations.                                *)
THEOREM TypeCorrect == Spec => []TypeOK
  BY FloodingInvariant, PTL

(* A flood does not feed on the cycles of the network: no link carries two *)
(* copies of a message.                                                    *)
THEOREM FloodsDoNotMultiply == Spec => []NoTwinsOnLink
  <1>1. LinksInv => NoTwinsOnLink
    BY DEF LinksInv
  <1> QED BY <1>1, FloodingInvariant, PTL

(* What is sent to BROADCAST_NEIGHBORS is seen by neighbours only.         *)
THEOREM StaysWithNeighbours == Spec => []NeighboursOnly
  <1>1. LinksInv => NeighboursOnly
    BY DEF LinksInv
  <1> QED BY <1>1, FloodingInvariant, PTL

(* Whatever ways the messages take through the network, a site that has    *)
(* seen one has seen every flooded one for it that the sender knew of.     *)
THEOREM CausalOrder == Spec => []CausalDelivery
  <1>1. TypeOK /\ LinksInv /\ OrderInv => CausalDelivery
    <2> SUFFICES ASSUME TypeOK, LinksInv, OrderInv, NEW t \in Site, NEW i \in seen[t],
                        NEW j \in Past(i), Addressed(j, t)
                 PROVE  j \in seen[t]
      BY DEF CausalDelivery
    <2>1. j[1] # t /\ DestOf(j) \in {BROADCAST, t}
      BY DEF Addressed
    <2>2. DestOf(j) # BROADCAST_NEIGHBORS /\ BROADCAST \notin Site
      BY <2>1, SiteAssumption DEF BROADCAST, BROADCAST_NEIGHBORS
    <2>3. Settled(j, t)
      BY <2>2 DEF OrderInv, SeenInOrder, Flooded
    <2> QED BY <2>1, <2>2, <2>3 DEF Settled
  <1> QED BY <1>1, FloodingInvariant, PTL
=============================================================================
