---------------------------- MODULE LinksProofs ----------------------------
(***************************************************************************)
(* What the links promise to every protocol of the network controller,     *)
(* whatever its messages and handlers are: what a step can do to the       *)
(* links, which messages a link can hold, and, when the network is a tree, *)
(* that each message reaches each site once, from the side of its sender.  *)
(*                                                                         *)
(* The modules WaveProofs and ElectionProofs build on it.                  *)
(***************************************************************************)
EXTENDS Links, TLAPS, SequenceTheorems, FiniteSetTheorems, WellFoundedInduction

-----------------------------------------------------------------------------
(* Trees. *)

(* S and the other sites are joined by the link between n and t alone. *)
Cut(S, n, t) ==
    /\ n \in S /\ t \in Site \ S
    /\ \A u \in S, v \in Site \ S : v \in Neighbours[u] => u = n /\ v = t

(* Every link is a bridge. *)
Acyclic ==
    \A n \in Site : \A t \in Neighbours[n] : \E S \in SUBSET Site : Cut(S, n, t)
(* No set of sites is shut off from the others. *)
Closed(S) == \A s \in S : Neighbours[s] \subseteq S
Connected == \A S \in SUBSET Site : S # {} /\ Closed(S) => S = Site
Tree == Acyclic /\ Connected

(* There are trees: a site in the middle with all the others linked to it. *)
LEMMA StarIsTree ==
    ASSUME NEW hub \in Site, Neighbours[hub] = Site \ {hub},
           \A s \in Site \ {hub} : Neighbours[s] = {hub}
    PROVE  Tree
  <1>1. Acyclic
    <2> SUFFICES ASSUME NEW n \in Site, NEW t \in Neighbours[n]
                 PROVE  \E S \in SUBSET Site : Cut(S, n, t)
      BY DEF Acyclic
    <2>1. CASE n = hub
      <3>1. t \in Site /\ t # hub
        BY <2>1
      <3>2. Cut(Site \ {t}, n, t)
        BY <2>1, <3>1 DEF Cut
      <3> QED BY <3>2
    <2>2. CASE n # hub
      <3>1. t = hub
        BY <2>2
      <3>2. Cut({n}, n, t)
        BY <2>2, <3>1 DEF Cut
      <3> QED BY <3>2
    <2> QED BY <2>1, <2>2
  <1>2. Connected
    <2> SUFFICES ASSUME NEW S \in SUBSET Site, S # {}, Closed(S) PROVE S = Site
      BY DEF Connected
    <2>1. hub \in S
      <3> PICK s \in S : TRUE
        OBVIOUS
      <3> QED BY DEF Closed
    <2> QED BY <2>1 DEF Closed
  <1> QED BY <1>1, <1>2 DEF Tree

(* p is the neighbour of s on the side of w. *)
Toward(s, p, w) ==
    p \in Neighbours[s] /\ \E S \in SUBSET Site : Cut(S, p, s) /\ w \in S

(* Two neighbours always see a third site on different sides. *)
LEMMA EveryLinkPoints ==
    ASSUME Tree, NEW s \in Site, NEW v \in Neighbours[s], NEW w \in Site
    PROVE  Toward(v, s, w) \/ Toward(s, v, w)
  <1>1. v \in Site /\ s \in Neighbours[v]
    BY NeighboursAssumption
  <1>2. PICK S \in SUBSET Site : Cut(S, s, v)
    BY DEF Tree, Acyclic
  <1>3. CASE w \in S
    BY <1>1, <1>2, <1>3 DEF Toward
  <1>4. CASE w \notin S
    <2>1. \A x \in S, y \in Site \ S : y \in Neighbours[x] <=> x \in Neighbours[y]
      BY NeighboursAssumption
    <2>2. Cut(Site \ S, v, s)
      BY <1>2, <2>1 DEF Cut
    <2> QED BY <1>4, <2>2 DEF Toward
  <1> QED BY <1>3, <1>4

LEMMA NotBothWays ==
    ASSUME Tree, NEW s \in Site, NEW v \in Site, NEW w,
           Toward(s, v, w), Toward(v, s, w)
    PROVE  FALSE
  <1>1. PICK S \in SUBSET Site : Cut(S, v, s) /\ w \in S
    BY DEF Toward
  <1>2. PICK T \in SUBSET Site : Cut(T, s, v) /\ w \in T
    BY DEF Toward
  <1>3. Closed(S \cap T)
    <2> SUFFICES ASSUME NEW x \in S \cap T, NEW y \in Neighbours[x], y \notin S \cap T
                 PROVE  FALSE
      BY DEF Closed
    <2>1. y \in Site
      BY NeighboursAssumption
    <2> QED BY <1>1, <1>2, <2>1 DEF Cut
  <1>4. S \cap T = Site
    BY <1>1, <1>2, <1>3 DEF Tree, Connected
  <1> QED BY <1>1, <1>4 DEF Cut

LEMMA OneWay ==
    ASSUME Tree, NEW s \in Site, NEW v \in Site, NEW w \in Site, NEW p \in Site,
           Toward(s, v, w), Toward(s, p, w)
    PROVE  v = p
  <1> SUFFICES ASSUME v # p PROVE FALSE
    OBVIOUS
  <1>1. PICK S \in SUBSET Site : Cut(S, v, s) /\ w \in S
    BY DEF Toward
  <1>2. PICK T \in SUBSET Site : Cut(T, p, s) /\ w \in T
    BY DEF Toward
  <1>3. s \in Neighbours[v] /\ s \in Neighbours[p]
    BY NeighboursAssumption DEF Toward
  <1>4. Closed(S \cap T)
    <2> SUFFICES ASSUME NEW x \in S \cap T, NEW y \in Neighbours[x], y \notin S \cap T
                 PROVE  FALSE
      BY DEF Closed
    <2>1. y \in Site
      BY NeighboursAssumption
    <2> QED BY <1>1, <1>2, <1>3, <2>1 DEF Cut
  <1>5. S \cap T = Site
    BY <1>1, <1>2, <1>4 DEF Tree, Connected
  <1> QED BY <1>1, <1>5 DEF Cut

(* Nobody is on the way to a site from that site. *)
LEMMA NotFromThere ==
    ASSUME NEW s, NEW p, NEW w, Toward(s, p, w)
    PROVE  s # w /\ p \in Neighbours[s]
  BY DEF Toward, Cut

(* The neighbours of a site that are not on the way to w are behind it. *)
LEMMA OthersBehind ==
    ASSUME Tree, NEW s \in Site, NEW v \in Neighbours[s], NEW w \in Site,
           NEW p \in Site, Toward(s, p, w), v # p
    PROVE  Toward(v, s, w)
  <1>1. v \in Site
    BY NeighboursAssumption
  <1> QED BY <1>1, EveryLinkPoints, OneWay

LEMMA AllBehindOrigin ==
    ASSUME Tree, NEW w \in Site, NEW v \in Neighbours[w]
    PROVE  Toward(v, w, w)
  BY EveryLinkPoints, NotFromThere

(* A set that holds w, and with a site those behind it, holds them all. *)
DownClosed(G, w) ==
    /\ w \in G
    /\ \A s \in G : \A v \in Neighbours[s] : Toward(v, s, w) => v \in G

LEMMA Descent ==
    ASSUME Tree, NEW w \in Site, NEW G \in SUBSET Site, DownClosed(G, w)
    PROVE  G = Site
  <1> DEFINE Least == {s \in Site : \A H \in SUBSET Site : DownClosed(H, w) => s \in H}
  <1>1. w \in Least /\ Least \subseteq G
    BY DEF DownClosed
  <1>2. DownClosed(Least, w)
    BY NeighboursAssumption, <1>1 DEF DownClosed
  <1>3. \A H \in SUBSET Site : DownClosed(H, w) => Least \subseteq H
    OBVIOUS
  <1> HIDE DEF Least
  <1>4. Least \in SUBSET Site
    BY <1>1
  (* Take a site out of the least such set that is not the one behind which *)
  (* it is: a smaller one is left.                                          *)
  <1>5. Closed(Least)
    <2> SUFFICES ASSUME NEW s \in Least, NEW p \in Neighbours[s], p \notin Least
                 PROVE  FALSE
      BY DEF Closed
    <2>1. p \in Site /\ s \in Site /\ s \in Neighbours[p]
      BY <1>4, NeighboursAssumption
    <2>2. ~Toward(p, s, w)
      BY <1>2 DEF DownClosed
    <2>3. Toward(s, p, w)
      BY <2>1, <2>2, EveryLinkPoints
    <2>4. s # w
      BY <2>3, NotFromThere
    <2>5. DownClosed(Least \ {s}, w)
      <3> SUFFICES ASSUME NEW x \in Least \ {s}, NEW v \in Neighbours[x], Toward(v, x, w)
                   PROVE  v \in Least \ {s}
        BY <1>1, <2>4 DEF DownClosed
      <3>1. v \in Least
        BY <1>2 DEF DownClosed
      <3>2. v # s
        BY <1>4, <2>1, <2>3, OneWay
      <3> QED BY <3>1, <3>2
    <2> QED BY <1>3, <1>4, <2>5
  <1> QED BY <1>1, <1>4, <1>5 DEF Tree, Connected

(* A set of sites of which each has one of the set behind it is empty: one *)
(* cannot go away from w for ever.                                         *)
LEMMA NoEndlessDescent ==
    ASSUME Tree, NEW w \in Site, NEW U \in SUBSET Site,
           \A u \in U : \E v \in U : Toward(v, u, w)
    PROVE  U = {}
  <1> SUFFICES ASSUME U # {} PROVE FALSE
    OBVIOUS
  <1> DEFINE Behind == {Site \ S : S \in {T \in SUBSET Site :
                         w \in T /\ \E u \in U, p \in Site : Cut(T, p, u)}}
  <1>1. Behind # {} /\ Behind \subseteq FiniteSubsetsOf(Site)
    <2>1. PICK u \in U, v \in U : Toward(v, u, w)
      OBVIOUS
    <2>2. PICK S \in SUBSET Site : Cut(S, u, v) /\ w \in S
      BY <2>1 DEF Toward
    <2>3. \A T \in SUBSET Site : IsFiniteSet(T)
      BY SiteFinite, FS_Subset
    <2>4. Behind # {}
      BY <2>2
    <2>5. Behind \subseteq SUBSET Site
      OBVIOUS
    <2> QED BY <2>3, <2>4, <2>5 DEF FiniteSubsetsOf
  <1>2. PICK B \in Behind : \A C \in Behind : <<C, B>> \notin StrictSubsetOrdering(Site)
    <2>1. IsWellFoundedOn(StrictSubsetOrdering(Site), FiniteSubsetsOf(Site))
      BY SiteFinite, FS_StrictSubsetOrderingWellFounded
    <2> QED BY <1>1, <2>1, WFMin
  <1>3. PICK S \in SUBSET Site, u \in U, p \in Site :
           B = Site \ S /\ w \in S /\ Cut(S, p, u)
    OBVIOUS
  <1>4. PICK v \in U : Toward(v, u, w)
    OBVIOUS
  <1>5. PICK T \in SUBSET Site : Cut(T, u, v) /\ w \in T
    BY <1>4 DEF Toward
  (* What is behind v is behind u, and u itself is not behind v. *)
  <1>6. S \ T = {}
    <2>1. Closed(S \ T)
      <3> SUFFICES ASSUME NEW x \in S \ T, NEW y \in Neighbours[x], y \notin S \ T
                   PROVE  FALSE
        BY DEF Closed
      <3>1. y \in Site /\ x \in Neighbours[y]
        BY NeighboursAssumption
      <3>2. CASE y \in T
        <4>1. y = u /\ x = v
          BY <1>5, <3>1, <3>2 DEF Cut
        <4>2. v = p /\ v \in Neighbours[u]
          BY <1>3, <3>1, <4>1 DEF Cut
        <4>3. Toward(u, v, w)
          BY <1>3, <4>2 DEF Toward
        <4> QED BY <1>4, <4>3, NotBothWays
      <3>3. CASE y \notin S /\ y \notin T
        BY <1>3, <1>5, <3>1, <3>3 DEF Cut
      <3> QED BY <3>2, <3>3
    <2>2. S \ T # Site
      BY <1>3 DEF Cut
    <2> QED BY <2>1, <2>2 DEF Tree, Connected
  <1>7. Site \ T \subseteq B /\ u \in B /\ u \notin Site \ T
    BY <1>3, <1>5, <1>6 DEF Cut
  <1>8. Site \ T \in Behind
    BY <1>5
  <1>9. <<Site \ T, B>> \in StrictSubsetOrdering(Site)
    <2>1. Site \ T # B /\ B \in SUBSET Site
      BY <1>3, <1>7
    <2> QED BY <1>7, <2>1 DEF StrictSubsetOrdering
  <1> QED BY <1>2, <1>8, <1>9

-----------------------------------------------------------------------------
(* What a step does to a link. *)

(* r is q without its first message; r is q and one more message, x. *)
Popped(q, r) ==
    /\ Len(r) \in Nat /\ Len(q) = Len(r) + 1
    /\ \A i \in 1 .. Len(r) : r[i] = q[i + 1]
Grown(q, r, x) ==
    /\ Len(q) \in Nat /\ Len(r) = Len(q) + 1
    /\ \A i \in 1 .. Len(q) : r[i] = q[i]
    /\ r[Len(q) + 1] = x

(* x is the next message of s. *)
FromNext(s, x) == x.id = <<s, sent[s] + 1>> /\ x.sender = s
Draws(s) == sent' = [sent EXCEPT ![s] = @ + 1]

(* s writes a message of its own. *)
Sending(s, x) ==
    /\ FromNext(s, x) /\ Draws(s) /\ seen' = seen
    /\ \A u, v \in Site :
          IF u = s /\ v \in Neighbours[s] THEN Grown(link[u][v], link'[u][v], x)
          ELSE link'[u][v] = link[u][v]

(* The first message of s is gone from its link to t, and on all the links *)
(* of t is what it writes.                                                 *)
Moves(s, t, out) ==
    \A u, v \in Site :
        IF u = s /\ v = t THEN Popped(link[u][v], link'[u][v])
        ELSE IF u = t /\ v \in Neighbours[t] /\ out # {}
        THEN \E x \in out : Grown(link[u][v], link'[u][v], x)
        ELSE link'[u][v] = link[u][v]

(* t takes the first message of s and writes the messages of out, which    *)
(* are one at most: the message again, or an answer.                       *)
Taking(s, t, out) ==
    LET m == FirstOf(s, t) IN
    /\ link[s][t] # <<>> /\ m = link[s][t][1]
    /\ seen' = [seen EXCEPT ![t] = @ \cup {m.id}]
    /\ \/ out = {} /\ sent' = sent
       \/ out = {m} /\ IsNew(t, m) /\ Forwards(t, m) /\ sent' = sent
       \/ \E x : out = {x} /\ FromNext(t, x) /\ Draws(t)
    /\ Moves(s, t, out)

Typed(links, Packet) == links \in [Site -> [Site -> Seq(Packet)]]

LEMMA PoppedFacts ==
    ASSUME NEW Packet, NEW q \in Seq(Packet), q # <<>>
    PROVE  /\ Tail(q) \in Seq(Packet) /\ Popped(q, Tail(q))
           /\ Head(q) = q[1] /\ q[1] \in Packet
  BY DEF Popped

LEMMA GrownFacts ==
    ASSUME NEW Packet, NEW q \in Seq(Packet), NEW x \in Packet
    PROVE  /\ q \o <<x>> \in Seq(Packet) /\ Grown(q, q \o <<x>>, x)
           /\ q \o <<>> = q
  <1>1. q \o <<>> = q
    BY ConcatEmptySeq
  <1>2. q \o <<x>> = Append(q, x)
    OBVIOUS
  <1> QED BY <1>1, <1>2 DEF Grown

LEMMA StampedFacts ==
    ASSUME NEW s \in Site, sent[s] \in Nat, NEW dest, NEW body
    PROVE  /\ Stamped(s, <<>>) = <<>>
           /\ Stamped(s, <<Letter(dest, body)>>) =
                 <<[id |-> <<s, sent[s] + 1>>, sender |-> s, dest |-> dest,
                    body |-> body]>>
  <1>1. Stamped(s, <<>>) = <<>>
    BY DEF Stamped
  <1>2. Stamped(s, <<Letter(dest, body)>>) =
           <<[id |-> <<s, sent[s] + 1>>, sender |-> s, dest |-> dest, body |-> body]>>
    BY DEF Stamped, Letter
  <1> QED BY <1>1, <1>2

LEMMA WrittenNothing ==
    ASSUME NEW Packet, NEW links, Typed(links, Packet), NEW s \in Site, NEW readers
    PROVE  Written(links, s, readers, <<>>) = links
  <1>1. \A u, v \in Site : links[u][v] \o <<>> = links[u][v]
    <2> SUFFICES ASSUME NEW u \in Site, NEW v \in Site
                 PROVE  links[u][v] \o <<>> = links[u][v]
      OBVIOUS
    <2>1. links[u][v] \in Seq(Packet)
      BY DEF Typed
    <2> QED BY <2>1, ConcatEmptySeq
  <1> QED BY <1>1 DEF Typed, Written

LEMMA WrittenOne ==
    ASSUME NEW Packet, NEW links, Typed(links, Packet), NEW s \in Site,
           NEW readers, NEW x \in Packet
    PROVE  /\ Typed(Written(links, s, readers, <<x>>), Packet)
           /\ \A u, v \in Site :
                 IF u = s /\ v \in readers
                 THEN Grown(links[u][v], Written(links, s, readers, <<x>>)[u][v], x)
                 ELSE Written(links, s, readers, <<x>>)[u][v] = links[u][v]
  <1>1. \A u, v \in Site : links[u][v] \in Seq(Packet)
    BY DEF Typed
  <1>2. \A u, v \in Site : /\ links[u][v] \o <<x>> \in Seq(Packet)
                          /\ Grown(links[u][v], links[u][v] \o <<x>>, x)
    BY <1>1, GrownFacts
  <1>3. \A u, v \in Site :
           Written(links, s, readers, <<x>>)[u][v] =
               IF u = s /\ v \in readers THEN links[u][v] \o <<x>> ELSE links[u][v]
    BY DEF Typed, Written
  <1>4. Typed(Written(links, s, readers, <<x>>), Packet)
    BY <1>1, <1>2 DEF Typed, Written
  <1> QED BY <1>2, <1>3, <1>4

(* The handler of a local event writes one letter. *)
LEMMA OriginateIsSending ==
    ASSUME NEW Body, LinksTypeOK(Body), NEW s \in Site, NEW dest, NEW body,
           NEW x \in Message(Body),
           x = [id |-> <<s, sent[s] + 1>>, sender |-> s, dest |-> dest, body |-> body],
           OriginateTo(s, Neighbours[s], <<Letter(dest, body)>>)
    PROVE  LinksTypeOK(Body)' /\ Sending(s, x)
  <1>1. sent \in [Site -> Nat] /\ seen \in [Site -> SUBSET Ids] /\ Typed(link, Message(Body))
    BY DEF LinksTypeOK, Typed
  <1>2. Stamped(s, <<Letter(dest, body)>>) = <<x>>
    BY <1>1, StampedFacts
  <1>3. /\ link' = Written(link, s, Neighbours[s], <<x>>)
        /\ sent' = [sent EXCEPT ![s] = @ + 1] /\ seen' = seen
    BY <1>2 DEF OriginateTo
  <1>4. /\ Typed(Written(link, s, Neighbours[s], <<x>>), Message(Body))
        /\ \A u, v \in Site :
              IF u = s /\ v \in Neighbours[s]
              THEN Grown(link[u][v], Written(link, s, Neighbours[s], <<x>>)[u][v], x)
              ELSE Written(link, s, Neighbours[s], <<x>>)[u][v] = link[u][v]
    <2>1. Typed(link, Message(Body))
      BY <1>1
    <2> QED BY <2>1, WrittenOne
  <1>5. \A u, v \in Site :
           IF u = s /\ v \in Neighbours[s] THEN Grown(link[u][v], link'[u][v], x)
           ELSE link'[u][v] = link[u][v]
    BY <1>3, <1>4
  <1>6. LinksTypeOK(Body)'
    <2>1. link' \in [Site -> [Site -> Seq(Message(Body))]]
      BY <1>3, <1>4 DEF Typed
    <2>2. seen' \in [Site -> SUBSET Ids] /\ sent' \in [Site -> Nat]
      BY <1>1, <1>3
    <2> QED BY <2>1, <2>2 DEF LinksTypeOK
  <1>7. FromNext(s, x)
    BY DEF FromNext
  <1> QED BY <1>3, <1>5, <1>6, <1>7 DEF Sending, Draws

(* What t writes when it takes a message: nothing, or one message. *)
Writes(q, out, Packet) ==
    \/ q = <<>> /\ out = {}
    \/ \E x \in Packet : q = <<x>> /\ out = {x}

Rest(s, t) == [link EXCEPT ![s][t] = Tail(@)]

LEMMA TakeWritten ==
    ASSUME NEW Packet, Typed(link, Packet), NEW s \in Site, NEW t \in Site,
           link[s][t] # <<>>, NEW q, NEW out, Writes(q, out, Packet),
           link' = Written(Rest(s, t), t, Neighbours[t], q)
    PROVE  /\ Typed(link', Packet)
           /\ FirstOf(s, t) = link[s][t][1] /\ FirstOf(s, t) \in Packet
           /\ Moves(s, t, out)
  <1> DEFINE rest == Rest(s, t)
  <1>1. link[s][t] \in Seq(Packet)
    BY DEF Typed
  <1>2. /\ Tail(link[s][t]) \in Seq(Packet) /\ Popped(link[s][t], Tail(link[s][t]))
        /\ Head(link[s][t]) = link[s][t][1] /\ link[s][t][1] \in Packet
    BY <1>1, PoppedFacts
  <1>3. Typed(rest, Packet)
    BY <1>2 DEF Typed, Rest
  <1>4. \A u, v \in Site : rest[u][v] = IF u = s /\ v = t THEN Tail(link[u][v])
                                        ELSE link[u][v]
    BY DEF Typed, Rest
  <1>5. t \notin Neighbours[t]
    BY NeighboursAssumption
  <1>6. FirstOf(s, t) = link[s][t][1]
    BY <1>2 DEF FirstOf
  <1> HIDE DEF rest
  <1>7. CASE q = <<>> /\ out = {}
    <2>1. link' = rest
      BY <1>3, <1>7, WrittenNothing DEF rest
    <2> QED BY <1>2, <1>3, <1>4, <1>6, <1>7, <2>1 DEF Moves
  <1>8. ASSUME NEW x \in Packet, q = <<x>>, out = {x}
        PROVE  /\ Typed(link', Packet)
               /\ Moves(s, t, out)
    <2>1. /\ Typed(Written(rest, t, Neighbours[t], <<x>>), Packet)
          /\ \A u, v \in Site :
                IF u = t /\ v \in Neighbours[t]
                THEN Grown(rest[u][v], Written(rest, t, Neighbours[t], <<x>>)[u][v], x)
                ELSE Written(rest, t, Neighbours[t], <<x>>)[u][v] = rest[u][v]
      BY <1>3, WrittenOne
    <2>2. link' = Written(rest, t, Neighbours[t], <<x>>)
      BY <1>8 DEF rest
    <2>3. ASSUME NEW u \in Site, NEW v \in Site
          PROVE  IF u = s /\ v = t THEN Popped(link[u][v], link'[u][v])
                 ELSE IF u = t /\ v \in Neighbours[t] /\ out # {}
                 THEN \E y \in out : Grown(link[u][v], link'[u][v], y)
                 ELSE link'[u][v] = link[u][v]
      <3>1. IF u = t /\ v \in Neighbours[t] THEN Grown(rest[u][v], link'[u][v], x)
            ELSE link'[u][v] = rest[u][v]
        BY <2>1, <2>2
      <3>2. CASE u = s /\ v = t
        BY <1>2, <1>4, <1>5, <3>1, <3>2
      <3>3. CASE ~(u = s /\ v = t)
        BY <1>4, <1>8, <3>1, <3>3
      <3> QED BY <3>2, <3>3
    <2> QED BY <2>1, <2>2, <2>3 DEF Moves
  <1> QED BY <1>2, <1>6, <1>7, <1>8 DEF Writes

LEMMA TakeSeen ==
    ASSUME NEW Body, LinksTypeOK(Body), NEW s \in Site, NEW t \in Site,
           NEW letters, TakeTo(s, t, Neighbours[t], letters), Len(letters) \in Nat,
           FirstOf(s, t) \in Message(Body)
    PROVE  /\ seen' = [seen EXCEPT ![t] = @ \cup {FirstOf(s, t).id}]
           /\ sent' = [sent EXCEPT ![t] = @ + Len(letters)]
           /\ seen' \in [Site -> SUBSET Ids] /\ sent' \in [Site -> Nat]
  <1>1. FirstOf(s, t).id \in Ids
    BY DEF Message
  <1> QED BY <1>1 DEF TakeTo, TakeWith, TakeAmong, Id, LinksTypeOK

(* A message to which t answers nothing. *)
Again(s, t) ==
    IF IsNew(t, FirstOf(s, t)) /\ Forwards(t, FirstOf(s, t)) THEN {FirstOf(s, t)}
    ELSE {}

LEMMA TakeSilent ==
    ASSUME NEW Body, LinksTypeOK(Body), NEW s \in Site, NEW t \in Site,
           link[s][t] # <<>>, TakeTo(s, t, Neighbours[t], <<>>)
    PROVE  LinksTypeOK(Body)' /\ Taking(s, t, Again(s, t))
  <1> DEFINE m == FirstOf(s, t)
             again == IF IsNew(t, m) /\ Forwards(t, m) THEN <<m>> ELSE <<>>
             Packet == Message(Body)
  <1>1. Typed(link, Packet) /\ sent[t] \in Nat
    BY DEF LinksTypeOK, Typed
  <1>2. m \in Packet
    <2>1. link[s][t] \in Seq(Packet)
      BY <1>1 DEF Typed
    <2> HIDE DEF Packet
    <2> QED BY <2>1, PoppedFacts DEF FirstOf
  <1>3. again \o Stamped(t, <<>>) \o <<>> = again
    <2>1. Stamped(t, <<>>) = <<>>
      BY <1>1, StampedFacts
    <2>2. again \in Seq(Packet)
      BY <1>2
    <2> HIDE DEF again, Packet
    <2> QED BY <2>1, <2>2, ConcatEmptySeq
  <1>4. link' = Written(Rest(s, t), t, Neighbours[t], again)
    BY <1>3 DEF TakeTo, TakeWith, TakeAmong, Rest
  <1>5. Writes(again, Again(s, t), Packet)
    BY <1>2 DEF Writes, Again
  <1>6. /\ seen' = [seen EXCEPT ![t] = @ \cup {m.id}]
        /\ sent' = [sent EXCEPT ![t] = @ + Len(<<>>)]
        /\ seen' \in [Site -> SUBSET Ids] /\ sent' \in [Site -> Nat]
    <2>1. Len(<<>>) \in Nat
      OBVIOUS
    <2> QED BY <1>2, <2>1, TakeSeen
  <1>7. sent' = sent
    BY <1>6 DEF LinksTypeOK
  <1> HIDE DEF again, Packet
  <1>8. /\ Typed(link', Packet) /\ m = link[s][t][1]
        /\ Moves(s, t, Again(s, t))
    BY <1>1, <1>4, <1>5, TakeWritten
  <1>9. LinksTypeOK(Body)'
    BY <1>6, <1>8 DEF Packet, Typed, LinksTypeOK
  <1>10. \/ Again(s, t) = {}
         \/ Again(s, t) = {m} /\ IsNew(t, m) /\ Forwards(t, m)
    <2>1. CASE IsNew(t, m) /\ Forwards(t, m)
      BY <2>1 DEF Again
    <2>2. CASE ~(IsNew(t, m) /\ Forwards(t, m))
      BY <2>2 DEF Again
    <2> QED BY <2>1, <2>2
  <1> HIDE DEF m
  <1> QED BY <1>6, <1>7, <1>8, <1>9, <1>10 DEF Taking, m

(* A message that t does not pass on, and that it answers by a letter. *)
LEMMA TakeAnswer ==
    ASSUME NEW Body, LinksTypeOK(Body), NEW s \in Site, NEW t \in Site,
           link[s][t] # <<>>, ~Forwards(t, FirstOf(s, t)),
           NEW dest, NEW body, NEW x \in Message(Body),
           x = [id |-> <<t, sent[t] + 1>>, sender |-> t, dest |-> dest, body |-> body],
           TakeTo(s, t, Neighbours[t], <<Letter(dest, body)>>)
    PROVE  LinksTypeOK(Body)' /\ Taking(s, t, {x})
  <1> DEFINE m == FirstOf(s, t)
             again == IF IsNew(t, m) /\ Forwards(t, m) THEN <<m>> ELSE <<>>
             Packet == Message(Body)
             letters == <<Letter(dest, body)>>
  <1>1. Typed(link, Packet) /\ sent[t] \in Nat
    BY DEF LinksTypeOK, Typed
  <1>0. ASSUME NEW q, NEW out, Writes(q, out, Packet),
               link' = Written(Rest(s, t), t, Neighbours[t], q)
        PROVE  /\ Typed(link', Packet) /\ m = link[s][t][1]
               /\ Moves(s, t, out)
    <2> HIDE DEF Packet
    <2> QED BY <1>0, <1>1, TakeWritten
  <1>2. m \in Packet
    <2>1. link[s][t] \in Seq(Packet)
      BY <1>1 DEF Typed
    <2> HIDE DEF Packet
    <2> QED BY <2>1, PoppedFacts DEF FirstOf
  <1>3. again \o Stamped(t, letters) \o <<>> = <<x>>
    <2>1. Stamped(t, letters) = <<x>>
      BY <1>1, StampedFacts
    <2>2. again = <<>>
      OBVIOUS
    <2> HIDE DEF again, letters, Packet
    <2> QED BY <2>1, <2>2, ConcatEmptySeq
  <1>4. link' = Written(Rest(s, t), t, Neighbours[t], <<x>>)
    BY <1>3 DEF TakeTo, TakeWith, TakeAmong, Rest
  <1>5. Writes(<<x>>, {x}, Packet)
    BY DEF Writes
  <1>6. /\ seen' = [seen EXCEPT ![t] = @ \cup {m.id}]
        /\ sent' = [sent EXCEPT ![t] = @ + Len(letters)]
        /\ seen' \in [Site -> SUBSET Ids] /\ sent' \in [Site -> Nat]
    <2>1. Len(letters) \in Nat
      OBVIOUS
    <2> HIDE DEF letters
    <2> QED BY <1>2, <2>1, TakeSeen DEF letters
  <1>7. Draws(t)
    BY <1>6 DEF Draws
  <1> HIDE DEF again, Packet, letters
  <1>8. /\ Typed(link', Packet) /\ m = link[s][t][1]
        /\ Moves(s, t, {x})
    BY <1>0, <1>4, <1>5
  <1>9. LinksTypeOK(Body)'
    BY <1>6, <1>8 DEF Packet, Typed, LinksTypeOK
  <1>10. FromNext(t, x)
    BY DEF FromNext
  <1> HIDE DEF m
  <1> QED BY <1>6, <1>7, <1>8, <1>9, <1>10 DEF Taking, m

-----------------------------------------------------------------------------
(* Where the messages of a link come from, and where they go. *)

Places(u, v) == 1 .. Len(link[u][v])

(* The place that the message at place k of a link had before t has taken  *)
(* the first message of s.                                                 *)
Was(s, t, u, v, k) == IF u = s /\ v = t THEN k + 1 ELSE k

LEMMA SendingWhence ==
    ASSUME NEW Body, LinksTypeOK(Body), NEW s \in Site, NEW x, Sending(s, x),
           NEW u \in Site, NEW v \in Site, NEW k \in Places(u, v)'
    PROVE  \/ k \in Places(u, v) /\ link'[u][v][k] = link[u][v][k]
           \/ /\ u = s /\ v \in Neighbours[s] /\ link'[u][v][k] = x
              /\ k = Len(link[u][v]) + 1 /\ \A l \in Places(u, v) : l < k
  <1>1. Len(link[u][v]) \in Nat
    BY DEF LinksTypeOK
  <1>2. CASE u = s /\ v \in Neighbours[s] /\ Grown(link[u][v], link'[u][v], x)
    BY <1>1, <1>2 DEF Grown, Places
  <1>3. CASE link'[u][v] = link[u][v]
    BY <1>3 DEF Places
  <1> QED BY <1>2, <1>3 DEF Sending

LEMMA SendingKeeps ==
    ASSUME NEW Body, LinksTypeOK(Body), NEW s \in Site, NEW x, Sending(s, x),
           NEW u \in Site, NEW v \in Site
    PROVE  /\ \A l \in Places(u, v) : l \in Places(u, v)' /\ link'[u][v][l] = link[u][v][l]
           /\ u = s /\ v \in Neighbours[s] =>
                 \E k \in Places(u, v)' : link'[u][v][k] = x /\ \A l \in Places(u, v) : l < k
  <1>1. Len(link[u][v]) \in Nat
    BY DEF LinksTypeOK
  <1>2. CASE u = s /\ v \in Neighbours[s]
    <2>1. Grown(link[u][v], link'[u][v], x)
      BY <1>2 DEF Sending
    <2>2. Len(link[u][v]) + 1 \in Places(u, v)'
      BY <1>1, <2>1 DEF Grown, Places
    <2> QED BY SMTT(30), <1>1, <1>2, <2>1, <2>2 DEF Grown, Places
  <1>3. CASE ~(u = s /\ v \in Neighbours[s])
    BY <1>3 DEF Places, Sending
  <1> QED BY <1>2, <1>3

LEMMA TakingWhence ==
    ASSUME NEW Body, LinksTypeOK(Body), NEW s \in Site, NEW t \in Site, NEW out,
           Taking(s, t, out), NEW u \in Site, NEW v \in Site, NEW k \in Places(u, v)'
    PROVE  \/ /\ Was(s, t, u, v, k) \in Places(u, v)
              /\ link'[u][v][k] = link[u][v][Was(s, t, u, v, k)]
           \/ /\ u = t /\ v \in Neighbours[t] /\ link'[u][v][k] \in out
              /\ ~(u = s /\ v = t)
              /\ k = Len(link[u][v]) + 1 /\ \A l \in Places(u, v) : l < k
  <1>1. Len(link[u][v]) \in Nat
    BY DEF LinksTypeOK
  <1>2. CASE u = s /\ v = t
    <2>1. Popped(link[u][v], link'[u][v])
      BY <1>2 DEF Taking, Moves
    <2> QED BY <1>1, <1>2, <2>1 DEF Popped, Places, Was
  <1>3. CASE ~(u = s /\ v = t) /\ u = t /\ v \in Neighbours[t] /\ out # {}
    <2>1. PICK x \in out : Grown(link[u][v], link'[u][v], x)
      BY <1>3 DEF Taking, Moves
    <2> QED BY <1>1, <1>3, <2>1 DEF Grown, Places, Was
  <1>4. CASE ~(u = s /\ v = t) /\ ~(u = t /\ v \in Neighbours[t] /\ out # {})
    <2>1. link'[u][v] = link[u][v]
      BY <1>4 DEF Taking, Moves
    <2> QED BY <1>4, <2>1 DEF Places, Was
  <1> QED BY <1>2, <1>3, <1>4

LEMMA TakingKeeps ==
    ASSUME NEW Body, LinksTypeOK(Body), NEW s \in Site, NEW t \in Site, NEW out,
           Taking(s, t, out), NEW u \in Site, NEW v \in Site
    PROVE  /\ \A l \in Places(u, v) :
                 \/ u = s /\ v = t /\ l = 1
                 \/ \E k \in Places(u, v)' :
                       l = Was(s, t, u, v, k) /\ link'[u][v][k] = link[u][v][l]
           /\ \A x \in out : u = t /\ v \in Neighbours[t] =>
                 \E k \in Places(u, v)' : link'[u][v][k] = x /\ \A l \in Places(u, v) : l < k
  <1>1. Len(link[u][v]) \in Nat
    BY DEF LinksTypeOK
  <1>2. CASE u = s /\ v = t
    <2>1. Popped(link[u][v], link'[u][v])
      BY <1>2 DEF Taking, Moves
    <2>2. ~(u = t /\ v \in Neighbours[t])
      BY <1>2, NeighboursAssumption
    <2>3. ASSUME NEW l \in Places(u, v), l # 1
          PROVE  \E k \in Places(u, v)' :
                    l = Was(s, t, u, v, k) /\ link'[u][v][k] = link[u][v][l]
      <3>1. l - 1 \in Places(u, v)' /\ l = (l - 1) + 1
        BY <1>1, <2>1, <2>3 DEF Popped, Places
      <3> QED BY <1>1, <1>2, <2>1, <3>1 DEF Popped, Places, Was
    <2> QED BY <1>2, <2>2, <2>3
  <1>3. CASE ~(u = s /\ v = t) /\ u = t /\ v \in Neighbours[t] /\ out # {}
    <2>1. PICK x \in out : Grown(link[u][v], link'[u][v], x)
      BY <1>3 DEF Taking, Moves
    <2>2. \A y \in out : y = x
      BY DEF Taking
    <2>3. Len(link[u][v]) + 1 \in Places(u, v)'
      BY <1>1, <2>1 DEF Grown, Places
    <2>4. ASSUME NEW l \in Places(u, v)
          PROVE  l \in Places(u, v)' /\ link'[u][v][l] = link[u][v][l] /\ l < Len(link[u][v]) + 1
      BY <1>1, <2>1 DEF Grown, Places
    <2> QED BY <1>3, <2>1, <2>2, <2>3, <2>4 DEF Grown, Was
  <1>4. CASE ~(u = s /\ v = t) /\ ~(u = t /\ v \in Neighbours[t] /\ out # {})
    <2>1. link'[u][v] = link[u][v]
      BY <1>4 DEF Taking, Moves
    <2> QED BY <1>4, <2>1 DEF Places, Was
  <1> QED BY <1>2, <1>3, <1>4

-----------------------------------------------------------------------------
(* The messages of a kind K on a link. *)

On(u, v, K) == \E k \in Places(u, v) : link[u][v][k] \in K
Single(u, v, K) ==
    \A k, l \in Places(u, v) : link[u][v][k] \in K /\ link[u][v][l] \in K => k = l
(* Behind each message of the kind K comes one of the kind L. *)
Followed(u, v, K, L) ==
    \A k \in Places(u, v) : link[u][v][k] \in K =>
        \E l \in Places(u, v) : k < l /\ link[u][v][l] \in L

LEMMA SendingOn ==
    ASSUME NEW Body, LinksTypeOK(Body), NEW s \in Site, NEW x, Sending(s, x),
           NEW u \in Site, NEW v \in Site, NEW K
    PROVE  /\ On(u, v, K)' <=> On(u, v, K) \/ (u = s /\ v \in Neighbours[s] /\ x \in K)
           /\ Single(u, v, K) /\ (x \in K => ~On(u, v, K)) => Single(u, v, K)'
  <1>1. On(u, v, K)' => On(u, v, K) \/ (u = s /\ v \in Neighbours[s] /\ x \in K)
    BY SendingWhence DEF On
  <1>2. On(u, v, K) \/ (u = s /\ v \in Neighbours[s] /\ x \in K) => On(u, v, K)'
    BY SendingKeeps DEF On
  <1>3. ASSUME Single(u, v, K), x \in K => ~On(u, v, K),
               NEW k \in Places(u, v)', NEW l \in Places(u, v)',
               link'[u][v][k] \in K, link'[u][v][l] \in K
        PROVE  k = l
    <2>1. CASE k \in Places(u, v) /\ l \in Places(u, v)
      BY <1>3, <2>1, SendingWhence DEF Single
    <2>2. CASE k \notin Places(u, v) /\ l \notin Places(u, v)
      BY <2>2, SendingWhence
    <2>3. CASE k \notin Places(u, v) /\ l \in Places(u, v)
      BY <1>3, <2>3, SendingWhence DEF On
    <2>4. CASE l \notin Places(u, v) /\ k \in Places(u, v)
      BY <1>3, <2>4, SendingWhence DEF On
    <2> QED BY <2>1, <2>2, <2>3, <2>4
  <1> QED BY <1>1, <1>2, <1>3 DEF Single

LEMMA SendingFollowed ==
    ASSUME NEW Body, LinksTypeOK(Body), NEW s \in Site, NEW x, Sending(s, x),
           NEW u \in Site, NEW v \in Site, NEW K, NEW L, Followed(u, v, K, L),
           ~(u = s /\ x \in K)
    PROVE  Followed(u, v, K, L)'
  <1> SUFFICES ASSUME NEW k \in Places(u, v)', link'[u][v][k] \in K
               PROVE  \E l \in Places(u, v)' : k < l /\ link'[u][v][l] \in L
    BY DEF Followed
  <1>1. k \in Places(u, v) /\ link[u][v][k] \in K
    BY SendingWhence
  <1>2. PICK l \in Places(u, v) : k < l /\ link[u][v][l] \in L
    BY <1>1 DEF Followed
  <1> QED BY <1>2, SendingKeeps

LEMMA TakingOn ==
    ASSUME NEW Body, LinksTypeOK(Body), NEW s \in Site, NEW t \in Site, NEW out,
           Taking(s, t, out), NEW m, m = FirstOf(s, t),
           NEW u \in Site, NEW v \in Site, NEW K
    PROVE  /\ On(u, v, K)' =>
                 \/ On(u, v, K)
                 \/ u = t /\ v \in Neighbours[t] /\ out \cap K # {}
           /\ On(u, v, K) /\ ~(u = s /\ v = t /\ m \in K) => On(u, v, K)'
           /\ u = t /\ v \in Neighbours[t] /\ out \cap K # {} => On(u, v, K)'
           /\ u = s /\ v = t /\ m \in K /\ Single(u, v, K) => ~On(u, v, K)'
  <1>1. m = link[s][t][1]
    BY DEF Taking
  <1>2. ASSUME On(u, v, K)'
        PROVE  \/ On(u, v, K)
               \/ u = t /\ v \in Neighbours[t] /\ out \cap K # {}
    BY <1>2, TakingWhence DEF On
  <1>3. ASSUME On(u, v, K), ~(u = s /\ v = t /\ m \in K) PROVE On(u, v, K)'
    <2>1. PICK l \in Places(u, v) : link[u][v][l] \in K
      BY <1>3 DEF On
    <2>2. ~(u = s /\ v = t /\ l = 1)
      BY <1>1, <1>3, <2>1
    <2> QED BY <2>1, <2>2, TakingKeeps DEF On
  <1>4. ASSUME u = t, v \in Neighbours[t], out \cap K # {} PROVE On(u, v, K)'
    BY <1>4, TakingKeeps DEF On
  <1>5. ASSUME u = s, v = t, m \in K, Single(u, v, K), On(u, v, K)' PROVE FALSE
    <2>1. PICK k \in Places(u, v)' : link'[u][v][k] \in K
      BY <1>5 DEF On
    <2>2. k + 1 \in Places(u, v) /\ link[u][v][k + 1] \in K
      BY <1>5, <2>1, TakingWhence, NeighboursAssumption DEF Was
    <2>3. k \in Nat \ {0} /\ 1 \in Places(u, v)
      BY <2>2 DEF Places
    <2>4. 1 = k + 1
      BY <1>1, <1>5, <2>2, <2>3 DEF Single
    <2> QED BY <2>3, <2>4
  <1> QED BY <1>2, <1>3, <1>4, <1>5

LEMMA TakingSingle ==
    ASSUME NEW Body, LinksTypeOK(Body), NEW s \in Site, NEW t \in Site, NEW out,
           Taking(s, t, out), NEW u \in Site, NEW v \in Site, NEW K,
           Single(u, v, K), u = t /\ out \cap K # {} => ~On(u, v, K)
    PROVE  Single(u, v, K)'
  <1> SUFFICES ASSUME NEW k \in Places(u, v)', NEW l \in Places(u, v)',
                      link'[u][v][k] \in K, link'[u][v][l] \in K
               PROVE  k = l
    BY DEF Single
  <1>1. ASSUME NEW j \in Places(u, v)', link'[u][v][j] \in K
        PROVE  \/ /\ Was(s, t, u, v, j) \in Places(u, v)
                  /\ link[u][v][Was(s, t, u, v, j)] \in K
               \/ u = t /\ out \cap K # {} /\ j = Len(link[u][v]) + 1
    BY <1>1, TakingWhence
  <1>2. CASE /\ Was(s, t, u, v, k) \in Places(u, v) /\ Was(s, t, u, v, l) \in Places(u, v)
             /\ link[u][v][Was(s, t, u, v, k)] \in K
             /\ link[u][v][Was(s, t, u, v, l)] \in K
    <2>1. Was(s, t, u, v, k) = Was(s, t, u, v, l)
      BY <1>2 DEF Single
    <2>2. k \in Int /\ l \in Int
      BY DEF Places
    <2> QED BY <2>1, <2>2 DEF Was
  <1>3. CASE u = t /\ out \cap K # {}
    <2>1. ~On(u, v, K)
      BY <1>3
    <2> QED BY <1>1, <2>1 DEF On
  <1> QED BY <1>1, <1>2, <1>3

LEMMA TakingFollowed ==
    ASSUME NEW Body, LinksTypeOK(Body), NEW s \in Site, NEW t \in Site, NEW out,
           Taking(s, t, out), NEW u \in Site, NEW v \in Site, NEW K, NEW L,
           Followed(u, v, K, L), ~(u = t /\ out \cap K # {})
    PROVE  Followed(u, v, K, L)'
  <1> SUFFICES ASSUME NEW k \in Places(u, v)', link'[u][v][k] \in K
               PROVE  \E l \in Places(u, v)' : k < l /\ link'[u][v][l] \in L
    BY DEF Followed
  <1>1. /\ Was(s, t, u, v, k) \in Places(u, v)
        /\ link[u][v][Was(s, t, u, v, k)] \in K
    BY TakingWhence
  <1>2. PICK l \in Places(u, v) : Was(s, t, u, v, k) < l /\ link[u][v][l] \in L
    BY <1>1 DEF Followed
  <1>3. k \in Nat \ {0} /\ l \in Nat
    BY <1>2 DEF Places
  <1>4. ~(u = s /\ v = t /\ l = 1)
    BY <1>2, <1>3 DEF Was
  <1>5. PICK j \in Places(u, v)' : l = Was(s, t, u, v, j) /\ link'[u][v][j] = link[u][v][l]
    BY <1>4, TakingKeeps
  <1>6. j \in Nat
    BY <1>5 DEF Places
  <1>7. k < j
    BY <1>2, <1>3, <1>5, <1>6 DEF Was
  <1> QED BY <1>2, <1>5, <1>7

(* What t writes comes behind all that was on the link. *)
LEMMA TakingAppends ==
    ASSUME NEW Body, LinksTypeOK(Body), NEW s \in Site, NEW t \in Site, NEW out,
           Taking(s, t, out), NEW v \in Neighbours[t], NEW K, NEW L,
           out \cap L # {}, out \cap K = {}
    PROVE  Followed(t, v, K, L)'
  <1>1. v \in Site /\ v # t
    BY NeighboursAssumption
  <1>2. PICK x \in out : x \in L
    OBVIOUS
  <1>3. PICK l \in Places(t, v)' :
           link'[t][v][l] = x /\ \A k \in Places(t, v) : k < l
    BY <1>1, TakingKeeps
  <1>4. ASSUME NEW k \in Places(t, v)', link'[t][v][k] \in K
        PROVE  k < l
    <2>1. Was(s, t, t, v, k) = k
      BY <1>1 DEF Was
    <2>2. k \in Places(t, v)
      BY <1>1, <1>4, <2>1, TakingWhence
    <2> QED BY <1>3, <2>2
  <1> QED BY <1>2, <1>3, <1>4 DEF Followed

(* t writes the messages of out: of its own accord, or because it takes the *)
(* first message m of a neighbour s, who is NoSite when there is none.      *)
Moved(t, out, s, m) ==
    \/ s \in Site /\ m = FirstOf(s, t) /\ Taking(s, t, out)
    \/ s = NoSite /\ \E x : out = {x} /\ Sending(t, x)

LEMMA MovedOn ==
    ASSUME NEW Body, LinksTypeOK(Body), NEW t \in Site, NEW out, NEW s, NEW m,
           Moved(t, out, s, m), NEW u \in Site, NEW v \in Site, NEW K
    PROVE  /\ On(u, v, K)' =>
                 \/ On(u, v, K)
                 \/ u = t /\ v \in Neighbours[t] /\ out \cap K # {}
           /\ On(u, v, K) /\ ~(u = s /\ v = t /\ m \in K) => On(u, v, K)'
           /\ u = t /\ v \in Neighbours[t] /\ out \cap K # {} => On(u, v, K)'
           /\ u = s /\ v = t /\ m \in K /\ Single(u, v, K) => ~On(u, v, K)'
           /\ Single(u, v, K) /\ (u = t /\ out \cap K # {} => ~On(u, v, K)) =>
                 Single(u, v, K)'
  <1>1. CASE s \in Site /\ m = FirstOf(s, t) /\ Taking(s, t, out)
    BY <1>1, TakingOn, TakingSingle
  <1>2. ASSUME s = NoSite, NEW x, out = {x}, Sending(t, x)
        PROVE  /\ On(u, v, K)' =>
                     \/ On(u, v, K)
                     \/ u = t /\ v \in Neighbours[t] /\ out \cap K # {}
               /\ On(u, v, K) => On(u, v, K)'
               /\ u = t /\ v \in Neighbours[t] /\ out \cap K # {} => On(u, v, K)'
               /\ u # s
               /\ Single(u, v, K) /\ (u = t /\ out \cap K # {} => ~On(u, v, K)) =>
                     Single(u, v, K)'
    <2>1. u # s
      BY <1>2, SiteAssumption DEF NoSite
    <2>2. On(u, v, K)' <=> On(u, v, K) \/ (u = t /\ v \in Neighbours[t] /\ x \in K)
      BY <1>2, SendingOn
    <2>3. CASE u = t
      BY <1>2, <2>1, <2>2, <2>3, SendingOn
    <2>4. CASE u # t
      <3>1. Single(u, v, K) => Single(u, v, K)'
        BY <1>2, <2>4 DEF Sending, Single, Places
      <3> QED BY <1>2, <2>1, <2>2, <2>4, <3>1
    <2> QED BY <2>3, <2>4
  <1> QED BY <1>1, <1>2 DEF Moved

LEMMA MovedFollowed ==
    ASSUME NEW Body, LinksTypeOK(Body), NEW t \in Site, NEW out, NEW s, NEW m,
           Moved(t, out, s, m), NEW u \in Site, NEW v \in Site, NEW K, NEW L,
           Followed(u, v, K, L), ~(u = t /\ out \cap K # {})
    PROVE  Followed(u, v, K, L)'
  <1>1. CASE s \in Site /\ Taking(s, t, out)
    BY <1>1, TakingFollowed
  <1>2. ASSUME NEW x, out = {x}, Sending(t, x) PROVE Followed(u, v, K, L)'
    BY <1>2, SendingFollowed
  <1> QED BY <1>1, <1>2 DEF Moved

LEMMA MovedAppends ==
    ASSUME NEW Body, LinksTypeOK(Body), NEW t \in Site, NEW out, NEW s, NEW m,
           Moved(t, out, s, m), NEW v \in Neighbours[t], NEW K, NEW L,
           out \cap L # {}, out \cap K = {}
    PROVE  Followed(t, v, K, L)'
  <1>1. CASE s \in Site /\ Taking(s, t, out)
    BY <1>1, TakingAppends
  <1>2. ASSUME NEW x, out = {x}, Sending(t, x) PROVE Followed(t, v, K, L)'
    <2>1. v \in Site /\ x \in L /\ x \notin K
      BY <1>2, NeighboursAssumption
    <2>2. PICK l \in Places(t, v)' :
             link'[t][v][l] = x /\ \A k \in Places(t, v) : k < l
      BY <1>2, <2>1, SendingKeeps
    <2>3. ASSUME NEW k \in Places(t, v)', link'[t][v][k] \in K PROVE k < l
      BY <1>2, <2>1, <2>2, <2>3, SendingWhence
    <2> QED BY <2>1, <2>2, <2>3 DEF Followed
  <1> QED BY <1>1, <1>2 DEF Moved

LEMMA MovedWhence ==
    ASSUME NEW Body, LinksTypeOK(Body), NEW t \in Site, NEW out, NEW s, NEW m,
           Moved(t, out, s, m), NEW u \in Site, NEW v \in Site, NEW k \in Places(u, v)'
    PROVE  \/ \E l \in Places(u, v) : link'[u][v][k] = link[u][v][l]
           \/ u = t /\ v \in Neighbours[t] /\ link'[u][v][k] \in out
  <1>1. CASE s \in Site /\ Taking(s, t, out)
    BY <1>1, TakingWhence
  <1>2. ASSUME NEW x, out = {x}, Sending(t, x)
        PROVE  \/ \E l \in Places(u, v) : link'[u][v][k] = link[u][v][l]
               \/ u = t /\ v \in Neighbours[t] /\ link'[u][v][k] \in out
    BY <1>2, SendingWhence
  <1> QED BY <1>1, <1>2 DEF Moved

-----------------------------------------------------------------------------
(* What the links hold in every network. *)

(* The id was drawn: a message with that id exists. *)
Drawn(id) == id \in Ids /\ id[2] <= sent[id[1]]

(* A link holds what its writer sent or has seen. *)
CarriedWell(u, v, m) ==
    /\ Drawn(m.id) /\ m.sender = m.id[1]
    /\ v \in Neighbours[u]
    /\ m.sender = u \/ m.id \in seen[u]
    /\ m.dest = BROADCAST_NEIGHBORS => m.sender = u
Carried ==
    \A u, v \in Site : \A k \in Places(u, v) : CarriedWell(u, v, link[u][v][k])
SeenDrawn == \A s \in Site : \A i \in seen[s] : Drawn(i)
(* No link carries two copies of a message. *)
NoTwins ==
    \A u, v \in Site : \A k, l \in Places(u, v) :
        link[u][v][k].id = link[u][v][l].id => k = l
LinksInv == Carried /\ SeenDrawn /\ NoTwins

LEMMA LinksInitFacts ==
    ASSUME LinksInit, NEW Body
    PROVE  /\ LinksTypeOK(Body) /\ LinksInv
           /\ \A u, v \in Site : Places(u, v) = {}
           /\ \A s \in Site : seen[s] = {}
  <1>1. /\ \A u, v \in Site : link[u][v] = <<>>
        /\ \A s \in Site : seen[s] = {}
    BY DEF LinksInit
  <1>2. \A u, v \in Site : Places(u, v) = {}
    BY <1>1 DEF Places
  <1>3. LinksTypeOK(Body)
    BY DEF LinksInit, LinksTypeOK
  <1>4. LinksInv
    BY <1>1, <1>2 DEF LinksInv, Carried, SeenDrawn, NoTwins
  <1> QED BY <1>1, <1>2, <1>3, <1>4

(* The id that a message of s gets is new. *)
LEMMA DrawnFacts ==
    ASSUME NEW s \in Site, NEW f, f = <<s, sent[s] + 1>>, Draws(s),
           sent \in [Site -> Nat]
    PROVE  /\ f \in Ids /\ f[1] = s /\ ~Drawn(f) /\ Drawn(f)'
           /\ \A i : Drawn(i) => Drawn(i)'
  <1>1. sent[s] \in Nat /\ sent' = [sent EXCEPT ![s] = @ + 1]
    BY DEF Draws
  <1>2. f \in Ids /\ f[1] = s /\ f[2] = sent[s] + 1
    BY <1>1 DEF Ids
  <1>3. ~Drawn(f) /\ Drawn(f)'
    BY <1>1, <1>2 DEF Drawn
  <1>4. ASSUME NEW i, Drawn(i) PROVE Drawn(i)'
    <2>1. i[1] \in Site /\ i[2] \in Nat
      BY <1>4 DEF Drawn, Ids
    <2> QED BY <1>1, <1>4, <2>1 DEF Drawn
  <1> QED BY <1>2, <1>3, <1>4

LEMMA SendingLinks ==
    ASSUME NEW Body, LinksTypeOK(Body), LinksInv, NEW s \in Site, NEW x, Sending(s, x)
    PROVE  LinksInv' /\ ~Drawn(x.id) /\ \A i : Drawn(i) => Drawn(i)'
  <1>1. /\ x.id \in Ids /\ x.id[1] = s /\ ~Drawn(x.id) /\ Drawn(x.id)'
        /\ \A i : Drawn(i) => Drawn(i)'
    BY DrawnFacts DEF Sending, FromNext, LinksTypeOK
  <1>2. seen' = seen /\ x.sender = s
    BY DEF Sending, FromNext
  <1>3. Carried'
    <2> SUFFICES ASSUME NEW u \in Site, NEW v \in Site, NEW k \in Places(u, v)'
                 PROVE  CarriedWell(u, v, link[u][v][k])'
      BY DEF Carried
    <2>1. CASE k \in Places(u, v) /\ link'[u][v][k] = link[u][v][k]
      <3>1. CarriedWell(u, v, link[u][v][k])
        BY <2>1 DEF LinksInv, Carried
      <3> QED BY <1>1, <1>2, <2>1, <3>1 DEF CarriedWell
    <2>2. CASE u = s /\ v \in Neighbours[s] /\ link'[u][v][k] = x
      BY <1>1, <1>2, <2>2 DEF CarriedWell
    <2> QED BY <2>1, <2>2, SendingWhence
  <1>4. SeenDrawn'
    BY <1>1, <1>2 DEF LinksInv, SeenDrawn
  <1>5. NoTwins'
    <2> SUFFICES ASSUME NEW u \in Site, NEW v \in Site, NEW k \in Places(u, v)',
                        NEW l \in Places(u, v)', link'[u][v][k].id = link'[u][v][l].id
                 PROVE  k = l
      BY DEF NoTwins
    <2>1. ASSUME NEW i \in Places(u, v)
          PROVE  link[u][v][i].id # x.id
      BY <1>1 DEF LinksInv, Carried, CarriedWell
    <2>2. CASE k \in Places(u, v) /\ l \in Places(u, v)
      BY <2>2, SendingWhence DEF LinksInv, NoTwins
    <2>3. CASE k \notin Places(u, v) /\ l \notin Places(u, v)
      BY <2>3, SendingWhence
    <2>4. CASE k \in Places(u, v) /\ l \notin Places(u, v)
      BY <2>1, <2>4, SendingWhence
    <2>5. CASE l \in Places(u, v) /\ k \notin Places(u, v)
      BY <2>1, <2>5, SendingWhence
    <2> QED BY <2>2, <2>3, <2>4, <2>5
  <1> QED BY <1>1, <1>3, <1>4, <1>5 DEF LinksInv

(* The message that t takes is one of the link. *)
LEMMA FirstFacts ==
    ASSUME NEW Body, LinksTypeOK(Body), LinksInv, NEW s \in Site, NEW t \in Site,
           link[s][t] # <<>>, NEW m, m = link[s][t][1]
    PROVE  /\ 1 \in Places(s, t) /\ m \in Message(Body) /\ CarriedWell(s, t, m)
           /\ m.id \in Ids /\ FirstOf(s, t) = m
  <1>1. link[s][t] \in Seq(Message(Body))
    BY DEF LinksTypeOK
  <1>2. Len(link[s][t]) \in Nat \ {0} /\ Head(link[s][t]) = m /\ m \in Message(Body)
    <2> DEFINE Packet == Message(Body)
    <2>1. link[s][t] \in Seq(Packet)
      BY <1>1
    <2> HIDE DEF Packet
    <2>2. Len(link[s][t]) \in Nat \ {0} /\ Head(link[s][t]) = m /\ m \in Packet
      BY <2>1, PoppedFacts
    <2> QED BY <2>2 DEF Packet
  <1>3. 1 \in Places(s, t)
    BY <1>2 DEF Places
  <1>4. CarriedWell(s, t, m)
    BY <1>3 DEF LinksInv, Carried
  <1> QED BY <1>2, <1>3, <1>4 DEF CarriedWell, Drawn, FirstOf

(* What a taking does, for the message m that is taken: each message that  *)
(* is written is m, passed on, or one that nobody has seen.                *)
TakesAndWrites(s, t, m, out) ==
    /\ m = link[s][t][1] /\ 1 \in Places(s, t) /\ CarriedWell(s, t, m)
    /\ seen' = [seen EXCEPT ![t] = @ \cup {m.id}]
    /\ \A u \in Site : seen'[u] = IF u = t THEN seen[u] \cup {m.id} ELSE seen[u]
    /\ \A i : Drawn(i) => Drawn(i)'
    /\ \A x, y \in out : x = y
    /\ \A x \in out :
          \/ x = m /\ IsNew(t, m) /\ Forwards(t, m)
          \/ /\ FromNext(t, x) /\ x.id[1] = t /\ x.id \in Ids
             /\ ~Drawn(x.id) /\ Drawn(x.id)'

(* What a taking writes was known or is new. *)
LEMMA TakingFacts ==
    ASSUME NEW Body, LinksTypeOK(Body), LinksInv, NEW s \in Site, NEW t \in Site,
           NEW out, Taking(s, t, out), NEW m, m = FirstOf(s, t)
    PROVE  TakesAndWrites(s, t, m, out)
  <1>1. /\ link[s][t] # <<>> /\ m = link[s][t][1]
        /\ seen' = [seen EXCEPT ![t] = @ \cup {m.id}]
        /\ \/ out = {} /\ sent' = sent
           \/ out = {m} /\ IsNew(t, m) /\ Forwards(t, m) /\ sent' = sent
           \/ \E x : out = {x} /\ FromNext(t, x) /\ Draws(t)
    BY DEF Taking
  <1>2. 1 \in Places(s, t) /\ CarriedWell(s, t, m)
    BY <1>1, FirstFacts
  <1>3. \A u \in Site : seen'[u] = IF u = t THEN seen[u] \cup {m.id} ELSE seen[u]
    BY <1>1 DEF LinksTypeOK
  <1>4. ASSUME sent' = sent, NEW i PROVE Drawn(i)' <=> Drawn(i)
    BY <1>4 DEF Drawn
  <1>5. ASSUME NEW x, out = {x}, FromNext(t, x), Draws(t)
        PROVE  /\ \A i : Drawn(i) => Drawn(i)'
               /\ x.id[1] = t /\ x.id \in Ids /\ ~Drawn(x.id) /\ Drawn(x.id)'
    BY <1>5, DrawnFacts DEF FromNext, LinksTypeOK
  <1> QED BY <1>1, <1>2, <1>3, <1>4, <1>5 DEF TakesAndWrites

LEMMA TakingLinks ==
    ASSUME NEW Body, LinksTypeOK(Body), LinksInv, NEW s \in Site, NEW t \in Site,
           NEW out, Taking(s, t, out)
    PROVE  LinksInv'
  <1> PICK m : m = FirstOf(s, t)
    OBVIOUS
  <1>0. TakesAndWrites(s, t, m, out)
    BY TakingFacts
  <1>1. /\ m = link[s][t][1] /\ 1 \in Places(s, t) /\ CarriedWell(s, t, m)
        /\ seen' = [seen EXCEPT ![t] = @ \cup {m.id}]
        /\ \A u \in Site : seen'[u] = IF u = t THEN seen[u] \cup {m.id} ELSE seen[u]
        /\ \A i : Drawn(i) => Drawn(i)'
        /\ \A x, y \in out : x = y
        /\ \A x \in out :
              \/ x = m /\ IsNew(t, m) /\ Forwards(t, m)
              \/ /\ FromNext(t, x) /\ x.id[1] = t /\ x.id \in Ids
                 /\ ~Drawn(x.id) /\ Drawn(x.id)'
    BY <1>0 DEF TakesAndWrites
  <1>2. \A u \in Site : seen[u] \subseteq seen'[u]
    BY <1>1
  <1>3. Carried'
    <2> SUFFICES ASSUME NEW u \in Site, NEW v \in Site, NEW k \in Places(u, v)'
                 PROVE  CarriedWell(u, v, link[u][v][k])'
      BY DEF Carried
    <2>1. ASSUME NEW l \in Places(u, v), link'[u][v][k] = link[u][v][l]
          PROVE  CarriedWell(u, v, link[u][v][k])'
      <3>1. CarriedWell(u, v, link[u][v][l])
        BY DEF LinksInv, Carried
      <3> QED BY <1>1, <1>2, <2>1, <3>1 DEF CarriedWell
    <2>2. ASSUME u = t, v \in Neighbours[t], NEW x \in out, link'[u][v][k] = x
          PROVE  CarriedWell(u, v, link[u][v][k])'
      <3>1. CASE x = m /\ IsNew(t, m) /\ Forwards(t, m)
        <4>1. m.dest # BROADCAST_NEIGHBORS
          BY <3>1 DEF Forwards
        <4>2. m.id \in seen'[t] /\ Drawn(m.id)' /\ m.sender = m.id[1]
          BY <1>1 DEF CarriedWell
        <4> QED BY <2>2, <3>1, <4>1, <4>2 DEF CarriedWell
      <3>2. CASE FromNext(t, x) /\ x.id[1] = t /\ Drawn(x.id)'
        BY <2>2, <3>2 DEF CarriedWell, FromNext
      <3> QED BY <1>1, <3>1, <3>2
    <2> QED BY <2>1, <2>2, TakingWhence
  <1>4. SeenDrawn'
    <2> SUFFICES ASSUME NEW u \in Site, NEW i \in seen'[u] PROVE Drawn(i)'
      BY DEF SeenDrawn
    <2>1. i \in seen[u] \/ i = m.id
      BY <1>1
    <2>2. Drawn(i)
      BY <1>1, <2>1 DEF LinksInv, SeenDrawn, CarriedWell
    <2> QED BY <1>1, <2>2
  <1>5. NoTwins'
    <2> SUFFICES ASSUME NEW u \in Site, NEW v \in Site, NEW k \in Places(u, v)',
                        NEW l \in Places(u, v)', link'[u][v][k].id = link'[u][v][l].id
                 PROVE  k = l
      BY DEF NoTwins
    <2>1. ASSUME NEW x \in out, NEW i \in Places(t, v), v \in Neighbours[t]
          PROVE  link[t][v][i].id # x.id
      <3>1. CarriedWell(t, v, link[t][v][i])
        BY DEF LinksInv, Carried
      <3>2. CASE x = m /\ IsNew(t, m) /\ Forwards(t, m)
        <4>1. m.sender # t /\ m.id \notin seen[t] /\ m.sender = m.id[1]
          BY <1>1, <3>2 DEF CarriedWell, IsNew, Forwards, Id
        <4> QED BY <3>1, <3>2, <4>1 DEF CarriedWell
      <3>3. CASE ~Drawn(x.id)
        BY <3>1, <3>3 DEF CarriedWell
      <3> QED BY <1>1, <3>2, <3>3
    <2>2. CASE /\ Was(s, t, u, v, k) \in Places(u, v) /\ Was(s, t, u, v, l) \in Places(u, v)
               /\ link'[u][v][k] = link[u][v][Was(s, t, u, v, k)]
               /\ link'[u][v][l] = link[u][v][Was(s, t, u, v, l)]
      <3>1. Was(s, t, u, v, k) = Was(s, t, u, v, l)
        BY <2>2 DEF LinksInv, NoTwins
      <3>2. k \in Int /\ l \in Int
        BY DEF Places
      <3> QED BY <3>1, <3>2 DEF Was
    <2>3. ASSUME NEW i \in Places(u, v)', NEW j \in Places(u, v)',
                 Was(s, t, u, v, i) \in Places(u, v),
                 link'[u][v][i] = link[u][v][Was(s, t, u, v, i)],
                 u = t, v \in Neighbours[t], link'[u][v][j] \in out
          PROVE  link'[u][v][i].id # link'[u][v][j].id
      BY <2>1, <2>3
    <2> QED BY <2>2, <2>3, TakingWhence
  <1> QED BY <1>3, <1>4, <1>5 DEF LinksInv

-----------------------------------------------------------------------------
(* What the links of a tree hold. *)

(* A message is new to a site if and only if it comes from the side of its *)
(* sender.                                                                 *)
Directed ==
    \A u, v \in Site : \A k \in Places(u, v) :
        LET m == link[u][v][k] IN
        Toward(v, u, m.sender) <=> m.id \notin seen[v] /\ m.sender # v
(* Who has seen a message has it from a site that has seen it. *)
SeenOnTheWay ==
    \A v \in Site : \A t \in Neighbours[v] : \A i \in seen[v] :
        Toward(v, t, i[1]) => i \in seen[t] \/ i[1] = t
TreeInv == Directed /\ SeenOnTheWay

LEMMA TreeInit ==
    ASSUME LinksInit PROVE TreeInv
  <1>1. /\ \A u, v \in Site : Places(u, v) = {}
        /\ \A s \in Site : seen[s] = {}
    BY LinksInitFacts
  <1> QED BY <1>1 DEF TreeInv, Directed, SeenOnTheWay

LEMMA SendingTree ==
    ASSUME NEW Body, LinksTypeOK(Body), LinksInv, Tree, TreeInv, NEW s \in Site,
           NEW x, Sending(s, x)
    PROVE  TreeInv'
  <1>1. ~Drawn(x.id) /\ seen' = seen /\ x.sender = s
    BY SendingLinks DEF Sending, FromNext
  <1>2. Directed'
    <2> SUFFICES ASSUME NEW u \in Site, NEW v \in Site, NEW k \in Places(u, v)',
                        NEW y, y = link'[u][v][k]
                 PROVE  Toward(v, u, y.sender) <=> y.id \notin seen[v] /\ y.sender # v
      BY <1>1 DEF Directed
    <2>1. CASE k \in Places(u, v) /\ y = link[u][v][k]
      BY <2>1 DEF TreeInv, Directed
    <2>2. CASE u = s /\ v \in Neighbours[s] /\ y = x
      <3>1. x.id \notin seen[v]
        BY <1>1 DEF LinksInv, SeenDrawn
      <3>2. Toward(v, s, s) /\ s # v
        BY <2>2, AllBehindOrigin, NotFromThere
      <3> QED BY <1>1, <2>2, <3>1, <3>2
    <2> QED BY <2>1, <2>2, SendingWhence
  <1>3. SeenOnTheWay'
    BY <1>1 DEF TreeInv, SeenOnTheWay
  <1> QED BY <1>2, <1>3 DEF TreeInv

LEMMA TakingTree ==
    ASSUME NEW Body, LinksTypeOK(Body), LinksInv, Tree, TreeInv, NEW s \in Site,
           NEW t \in Site, NEW out, Taking(s, t, out)
    PROVE  TreeInv'
  <1> PICK m : m = FirstOf(s, t)
    OBVIOUS
  <1>0. TakesAndWrites(s, t, m, out)
    BY TakingFacts
  <1>1. /\ m = link[s][t][1] /\ 1 \in Places(s, t) /\ CarriedWell(s, t, m)
        /\ seen' = [seen EXCEPT ![t] = @ \cup {m.id}]
        /\ \A u \in Site : seen'[u] = IF u = t THEN seen[u] \cup {m.id} ELSE seen[u]
        /\ \A i : Drawn(i) => Drawn(i)'
        /\ \A x, y \in out : x = y
        /\ \A x \in out :
              \/ x = m /\ IsNew(t, m) /\ Forwards(t, m)
              \/ /\ FromNext(t, x) /\ x.id[1] = t /\ x.id \in Ids
                 /\ ~Drawn(x.id) /\ Drawn(x.id)'
    BY <1>0 DEF TakesAndWrites
  <1>2. m.sender = m.id[1] /\ m.sender \in Site /\ s \in Neighbours[t]
    BY <1>1, NeighboursAssumption DEF CarriedWell, Drawn, Ids
  <1>3. Toward(t, s, m.sender) <=> m.id \notin seen[t] /\ m.sender # t
    BY <1>1 DEF TreeInv, Directed
  <1>4. Directed'
    <2> SUFFICES ASSUME NEW u \in Site, NEW v \in Site, NEW k \in Places(u, v)',
                        NEW y, y = link'[u][v][k]
                 PROVE  Toward(v, u, y.sender) <=> y.id \notin seen'[v] /\ y.sender # v
      BY DEF Directed
    <2>1. ASSUME NEW l \in Places(u, v), y = link[u][v][l], l = Was(s, t, u, v, k)
          PROVE  Toward(v, u, y.sender) <=> y.id \notin seen'[v] /\ y.sender # v
      <3>1. Toward(v, u, y.sender) <=> y.id \notin seen[v] /\ y.sender # v
        BY <2>1 DEF TreeInv, Directed
      <3>2. CASE ~(v = t /\ y.id = m.id)
        BY <1>1, <3>1, <3>2
      <3>3. CASE v = t /\ y.id = m.id
        <4>1. y.sender = m.sender
          BY <1>2, <2>1, <3>3 DEF LinksInv, Carried, CarriedWell
        <4>2. u = s => FALSE
          <5>1. u = s => l = 1
            BY <1>1, <2>1, <3>3 DEF LinksInv, NoTwins
          <5>2. u = s => l = k + 1 /\ k \in 1 .. Len(link'[u][v])
            BY <2>1, <3>3 DEF Was, Places
          <5> QED BY <5>1, <5>2
        <4>3. Toward(t, u, m.sender) => Toward(t, s, m.sender)
          BY <1>3, <3>1, <3>3, <4>1
        <4>4. ~Toward(t, u, m.sender)
          BY <1>2, <4>2, <4>3, OneWay
        <4> QED BY <1>1, <3>3, <4>1, <4>4
      <3> QED BY <3>2, <3>3
    <2>2. ASSUME u = t, v \in Neighbours[t], y \in out
          PROVE  Toward(v, u, y.sender) <=> y.id \notin seen'[v] /\ y.sender # v
      <3>1. v # t /\ seen'[v] = seen[v]
        BY <1>1, <2>2, NeighboursAssumption
      <3>2. CASE y = m /\ IsNew(t, m) /\ Forwards(t, m)
        <4>1. Toward(t, s, m.sender) /\ m.id \notin seen[t] /\ m.sender # t
          BY <1>3, <3>2 DEF IsNew, Forwards, Id
        <4>2. CASE v = s
          <5>1. ~Toward(s, t, m.sender)
            BY <4>1, NotBothWays
          <5>2. m.sender = s \/ m.id \in seen[s]
            BY <1>1 DEF CarriedWell
          <5> QED BY <2>2, <3>1, <3>2, <4>2, <5>1, <5>2
        <4>3. CASE v # s
          <5>1. Toward(v, t, m.sender)
            BY <1>2, <2>2, <4>1, <4>3, OthersBehind
          <5>2. v # m.sender
            BY <5>1, NotFromThere
          <5>3. t \in Neighbours[v]
            BY <2>2, NeighboursAssumption
          <5>4. m.id \notin seen[v]
            BY <1>2, <4>1, <5>1, <5>3 DEF TreeInv, SeenOnTheWay
          <5> QED BY <2>2, <3>1, <3>2, <5>1, <5>2, <5>4
        <4> QED BY <4>2, <4>3
      <3>3. CASE FromNext(t, y) /\ ~Drawn(y.id)
        <4>1. y.sender = t /\ y.id \notin seen[v]
          BY <3>3 DEF FromNext, LinksInv, SeenDrawn
        <4>2. Toward(v, t, t)
          BY <2>2, AllBehindOrigin
        <4> QED BY <2>2, <3>1, <4>1, <4>2
      <3> QED BY <1>1, <2>2, <3>2, <3>3
    <2> QED BY <2>1, <2>2, TakingWhence
  <1>5. SeenOnTheWay'
    <2> SUFFICES ASSUME NEW v \in Site, NEW u \in Neighbours[v], NEW i \in seen'[v],
                        Toward(v, u, i[1]), i[1] # u
                 PROVE  i \in seen'[u]
      BY DEF SeenOnTheWay
    <2>1. u \in Site
      BY NeighboursAssumption
    <2>2. CASE i \in seen[v]
      BY <1>1, <2>1, <2>2 DEF TreeInv, SeenOnTheWay
    <2>3. CASE i \notin seen[v]
      <3>1. v = t /\ i = m.id
        BY <1>1, <2>3
      <3>2. v # m.sender
        BY <1>2, <3>1, NotFromThere
      <3>3. u = s
        BY <1>2, <1>3, <2>1, <2>3, <3>1, <3>2, OneWay
      <3>4. m.id \in seen[s]
        BY <1>1, <1>2, <3>1, <3>3 DEF CarriedWell
      <3> QED BY <1>1, <2>1, <3>1, <3>3, <3>4
    <2> QED BY <2>2, <2>3
  <1> QED BY <1>4, <1>5 DEF TreeInv

(* On a tree, what a site gets from its sender is new.                     *)
LEMMA DirectIsNew ==
    ASSUME Tree, LinksInv, TreeInv, NEW u \in Site, NEW v \in Site,
           NEW k \in Places(u, v), link[u][v][k].sender = u
    PROVE  link[u][v][k].id \notin seen[v] /\ u # v
  <1>1. v \in Neighbours[u]
    BY DEF LinksInv, Carried, CarriedWell
  <1>2. Toward(v, u, u)
    BY <1>1, AllBehindOrigin
  <1> QED BY <1>2 DEF TreeInv, Directed

(* What is new comes from a neighbour directly, when a neighbour sent it.  *)
LEMMA NewIsDirect ==
    ASSUME Tree, LinksInv, TreeInv, NEW u \in Site, NEW v \in Site,
           NEW k \in Places(u, v), NEW m, m = link[u][v][k],
           m.sender \in Neighbours[v], m.id \notin seen[v], m.sender # v
    PROVE  u = m.sender
  <1>1. m.sender \in Site /\ v \in Neighbours[m.sender]
    BY NeighboursAssumption
  <1>2. Toward(v, m.sender, m.sender)
    BY <1>1, AllBehindOrigin
  <1>3. Toward(v, u, m.sender)
    BY DEF TreeInv, Directed
  <1> QED BY <1>1, <1>2, <1>3, OneWay

=============================================================================
