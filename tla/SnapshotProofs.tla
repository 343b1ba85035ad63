--------------------------- MODULE SnapshotProofs ---------------------------
(***************************************************************************)
(* What is proved of the snapshots of snapshot_handler.go, in every        *)
(* network that the links allow, whoever clicks and whenever: the types,   *)
(* that an export is a cut the system could have been in, and that a click *)
(* is exported once at most.                                               *)
(*                                                                         *)
(* The invariant follows each initiator: who has joined its snapshot has   *)
(* passed its marker on; what he sends after that is red and comes behind  *)
(* the marker; what the initiator has collected, and what is still on its  *)
(* way to him, fits his two counters.                                      *)
(***************************************************************************)
EXTENDS Snapshot, LinksProofs

-----------------------------------------------------------------------------
(* A step of a site: it takes the first message of a link, or none, and    *)
(* writes a few messages on all its links.                                 *)

Packet == Message(Body)
(* t takes m from s, from no link if s is NoSite, and writes q. *)
Acts(s, t, m, q) ==
    /\ t \in Site /\ s \in Site \cup {NoSite} /\ q \in Seq(Packet)
    /\ s = NoSite => /\ link' = Written(link, t, Neighbours[t], q)
                     /\ seen' = seen
    /\ s \in Site => /\ link[s][t] # <<>> /\ m = FirstOf(s, t)
                     /\ link' = Written(Rest(s, t), t, Neighbours[t], q)
                     /\ seen' = [seen EXCEPT ![t] = @ \cup {m.id}]
Got(s, m) == IF s \in Site THEN {m} ELSE {}
Elems(q) == {q[k] : k \in 1 .. Len(q)}

(* Only neighbours write to each other. *)
Adjacent == \A u, v \in Site : link[u][v] # <<>> => v \in Neighbours[u]
Wire == UNION {{link[e[1]][e[2]][k] : k \in Places(e[1], e[2])} : e \in Site \X Site}

(* v has handled the message, or it is its own. *)
Knows(v, i) == i \in seen[v] \/ i[1] = v
(* The message has come to c, or will: it is on the link from b. *)
Reaches(b, c, i) == Knows(c, i) \/ \E k \in Places(b, c) : link[b][c][k].id = i
(* Whoever knows the message has written it. *)
PassedOn(i) ==
    \A b \in Site : Knows(b, i) => \A c \in Neighbours[b] : Reaches(b, c, i)
(* What is at place k of a link comes to b after the message i. *)
Ahead(a, b, k, i) == Knows(b, i) \/ \E l \in Places(a, b) : l < k /\ link[a][b][l].id = i
Behind(i, K) ==
    \A a, b \in Site : \A k \in Places(a, b) : link[a][b][k] \in K => Ahead(a, b, k, i)

LEMMA NoSiteFacts ==
    /\ NoSite \notin Site /\ BROADCAST \notin Site /\ BROADCAST_NEIGHBORS \notin Site
    /\ NoSite # BROADCAST /\ NoSite # BROADCAST_NEIGHBORS
    /\ BROADCAST # BROADCAST_NEIGHBORS
  BY SiteAssumption DEF NoSite, BROADCAST, BROADCAST_NEIGHBORS

LEMMA OnWire ==
    ASSUME NEW n
    PROVE  n \in Wire <=> \E a, b \in Site : \E k \in Places(a, b) : n = link[a][b][k]
  <1>1. ASSUME NEW a \in Site, NEW b \in Site, NEW k \in Places(a, b), n = link[a][b][k]
        PROVE  n \in Wire
    <2>1. <<a, b>> \in Site \X Site /\ <<a, b>>[1] = a /\ <<a, b>>[2] = b
      OBVIOUS
    <2>2. n \in {link[<<a, b>>[1]][<<a, b>>[2]][l] : l \in Places(<<a, b>>[1], <<a, b>>[2])}
      BY <1>1, <2>1
    <2> QED BY <2>1, <2>2 DEF Wire
  <1>2. ASSUME n \in Wire
        PROVE  \E a, b \in Site : \E k \in Places(a, b) : n = link[a][b][k]
    <2>1. PICK e \in Site \X Site : n \in {link[e[1]][e[2]][k] : k \in Places(e[1], e[2])}
      BY <1>2 DEF Wire
    <2>2. e[1] \in Site /\ e[2] \in Site
      BY <2>1
    <2> QED BY <2>1, <2>2
  <1> QED BY <1>1, <1>2

LEMMA WrittenAll ==
    ASSUME NEW links, Typed(links, Packet), NEW t \in Site, NEW q \in Seq(Packet)
    PROVE  /\ Typed(Written(links, t, Neighbours[t], q), Packet)
           /\ \A u, v \in Site :
                 Written(links, t, Neighbours[t], q)[u][v] =
                    IF u = t /\ v \in Neighbours[t] THEN links[u][v] \o q
                    ELSE links[u][v]
  <1>1. \A u, v \in Site : links[u][v] \in Seq(Packet)
    BY DEF Typed
  <1>2. \A u, v \in Site : links[u][v] \o q \in Seq(Packet)
    BY <1>1
  <1>3. \A u, v \in Site :
           Written(links, t, Neighbours[t], q)[u][v] =
              IF u = t /\ v \in Neighbours[t] THEN links[u][v] \o q ELSE links[u][v]
    BY DEF Written, Typed
  <1>4. Written(links, t, Neighbours[t], q) \in [Site -> [Site -> Seq(Packet)]]
    BY <1>1, <1>2 DEF Written, Typed
  <1> QED BY <1>3, <1>4 DEF Typed

(* The link from s to t has lost its first message, those of t have grown. *)
LEMMA ActsLinks ==
    ASSUME LinksTypeOK(Body), Adjacent, NEW s, NEW t, NEW m, NEW q, Acts(s, t, m, q)
    PROVE  /\ Typed(link', Packet) /\ Adjacent' /\ t \in Site
           /\ \A u, v \in Site :
                 IF u = s /\ v = t THEN Popped(link[u][v], link'[u][v])
                 ELSE IF u = t /\ v \in Neighbours[t]
                 THEN link'[u][v] = link[u][v] \o q
                 ELSE link'[u][v] = link[u][v]
           /\ s \in Site => /\ 1 \in Places(s, t) /\ m = link[s][t][1] /\ s \in Neighbours[t]
                            /\ s # t /\ t \in Neighbours[s]
  <1> DEFINE base == IF s = NoSite THEN link ELSE Rest(s, t)
  <1>1. t \in Site /\ s \in Site \cup {NoSite} /\ q \in Seq(Packet) /\ Typed(link, Packet)
    BY DEF Acts, LinksTypeOK, Typed, Packet
  <1>2. link' = Written(base, t, Neighbours[t], q)
    BY NoSiteFacts DEF Acts
  <1>3. ASSUME s \in Site
        PROVE  /\ Popped(link[s][t], Tail(link[s][t])) /\ Tail(link[s][t]) \in Seq(Packet)
               /\ m = link[s][t][1] /\ 1 \in Places(s, t)
               /\ s \in Neighbours[t] /\ t \in Neighbours[s] /\ s # t
    <2>1. link[s][t] \in Seq(Packet) /\ link[s][t] # <<>>
      BY <1>1, <1>3 DEF Acts, Typed
    <2>2. /\ Tail(link[s][t]) \in Seq(Packet) /\ Popped(link[s][t], Tail(link[s][t]))
          /\ Head(link[s][t]) = link[s][t][1]
      BY <2>1, PoppedFacts
    <2>3. 1 \in Places(s, t)
      BY <2>1 DEF Places
    <2>4. t \in Neighbours[s] /\ s \in Neighbours[t] /\ s # t
      BY <1>1, <1>3, <2>1, NeighboursAssumption DEF Adjacent
    <2> QED BY <1>3, <2>2, <2>3, <2>4 DEF Acts, FirstOf
  <1>4. Typed(base, Packet) /\ \A u, v \in Site :
           base[u][v] = IF u = s /\ v = t THEN Tail(link[u][v]) ELSE link[u][v]
    <2>1. CASE s = NoSite
      BY <1>1, <2>1, NoSiteFacts
    <2>2. CASE s \in Site
      BY <1>1, <1>3, <2>2, NoSiteFacts DEF Rest, Typed
    <2> QED BY <1>1, <2>1, <2>2
  <1> HIDE DEF base
  <1>5. /\ Typed(link', Packet)
        /\ \A u, v \in Site : link'[u][v] = IF u = t /\ v \in Neighbours[t]
                                            THEN base[u][v] \o q ELSE base[u][v]
    BY <1>1, <1>2, <1>4, WrittenAll
  <1>6. ASSUME NEW u \in Site, NEW v \in Site
        PROVE  IF u = s /\ v = t THEN Popped(link[u][v], link'[u][v])
               ELSE IF u = t /\ v \in Neighbours[t]
               THEN link'[u][v] = link[u][v] \o q
               ELSE link'[u][v] = link[u][v]
    <2>1. CASE u = s /\ v = t
      <3>1. s \in Site /\ s # t
        BY <1>3, <2>1
      <3>2. link'[s][t] = Tail(link[s][t])
        BY <1>1, <1>4, <1>5, <3>1
      <3> QED BY <1>3, <2>1, <3>1, <3>2
    <2>2. CASE ~(u = s /\ v = t)
      BY <1>4, <1>5, <2>2
    <2> QED BY <2>1, <2>2
  <1>7. Adjacent'
    <2> SUFFICES ASSUME NEW u \in Site, NEW v \in Site, link'[u][v] # <<>>
                 PROVE  v \in Neighbours[u]
      BY DEF Adjacent
    <2>1. CASE u = s /\ v = t
      BY <1>3, <2>1
    <2>2. CASE ~(u = s /\ v = t)
      BY <1>6, <2>2 DEF Adjacent
    <2> QED BY <2>1, <2>2
  <1> QED BY <1>1, <1>3, <1>5, <1>6, <1>7

(* What is on a link was there before, at the same place or one behind it, *)
(* or t has written it.                                                    *)
LEMMA ActsWhence ==
    ASSUME LinksTypeOK(Body), Adjacent, NEW s, NEW t, NEW m, NEW q, Acts(s, t, m, q),
           NEW u \in Site, NEW v \in Site, NEW k \in Places(u, v)'
    PROVE  \/ /\ Was(s, t, u, v, k) \in Places(u, v)
              /\ link'[u][v][k] = link[u][v][Was(s, t, u, v, k)]
           \/ /\ u = t /\ v \in Neighbours[t] /\ ~(u = s /\ v = t)
              /\ link'[u][v][k] \in Elems(q)
              /\ \A l \in Places(u, v) : l < k
  <1>1. Len(link[u][v]) \in Nat /\ link[u][v] \in Seq(Packet)
    BY DEF LinksTypeOK, Packet
  <1>2. CASE u = s /\ v = t
    <2>1. Popped(link[u][v], link'[u][v])
      BY <1>2, ActsLinks
    <2> QED BY <1>1, <1>2, <2>1 DEF Popped, Places, Was
  <1>3. CASE ~(u = s /\ v = t) /\ u = t /\ v \in Neighbours[t]
    <2>1. link'[u][v] = link[u][v] \o q
      BY <1>3, ActsLinks
    <2>2. /\ Len(link'[u][v]) = Len(link[u][v]) + Len(q)
          /\ Len(q) \in Nat
          /\ \A l \in 1 .. Len(link[u][v]) + Len(q) :
                link'[u][v][l] = IF l <= Len(link[u][v]) THEN link[u][v][l]
                                 ELSE q[l - Len(link[u][v])]
      <3>1. q \in Seq(Packet)
        BY DEF Acts
      <3> QED BY <1>1, <2>1, <3>1
    <2>3. CASE k <= Len(link[u][v])
      BY <1>1, <1>3, <2>2, <2>3 DEF Places, Was
    <2>4. CASE k > Len(link[u][v])
      <3>1. k - Len(link[u][v]) \in 1 .. Len(q)
        BY <1>1, <2>2, <2>4 DEF Places
      <3>2. link'[u][v][k] = q[k - Len(link[u][v])]
        BY <1>1, <2>2, <2>4 DEF Places
      <3>3. link'[u][v][k] \in Elems(q)
        BY <3>1, <3>2 DEF Elems
      <3> QED BY <1>1, <1>3, <2>4, <3>3 DEF Places
    <2> QED BY <1>1, <2>3, <2>4 DEF Places
  <1>4. CASE ~(u = s /\ v = t) /\ ~(u = t /\ v \in Neighbours[t])
    <2>1. link'[u][v] = link[u][v]
      BY <1>4, ActsLinks
    <2> QED BY <1>4, <2>1 DEF Places, Was
  <1> QED BY <1>2, <1>3, <1>4

(* What is not taken stays on its link, and what t writes comes behind it. *)
LEMMA ActsKeeps ==
    ASSUME LinksTypeOK(Body), Adjacent, NEW s, NEW t, NEW m, NEW q, Acts(s, t, m, q),
           NEW u \in Site, NEW v \in Site
    PROVE  /\ \A l \in Places(u, v) :
                 \/ u = s /\ v = t /\ l = 1
                 \/ \E k \in Places(u, v)' :
                       l = Was(s, t, u, v, k) /\ link'[u][v][k] = link[u][v][l]
           /\ u = t /\ v \in Neighbours[t] =>
                 \A x \in Elems(q) : \E k \in Places(u, v)' : link'[u][v][k] = x
  <1>1. Len(link[u][v]) \in Nat /\ link[u][v] \in Seq(Packet)
    BY DEF LinksTypeOK, Packet
  <1>2. CASE u = s /\ v = t
    <2>1. Popped(link[u][v], link'[u][v]) /\ s # t
      BY <1>2, ActsLinks
    <2>2. ASSUME NEW l \in Places(u, v), l # 1
          PROVE  \E k \in Places(u, v)' :
                    l = Was(s, t, u, v, k) /\ link'[u][v][k] = link[u][v][l]
      <3>1. l - 1 \in Places(u, v)'
        BY <1>1, <2>1, <2>2 DEF Popped, Places
      <3>2. link'[u][v][l - 1] = link[u][v][l] /\ l = Was(s, t, u, v, l - 1)
        BY <1>1, <1>2, <2>1, <2>2, <3>1 DEF Popped, Places, Was
      <3> QED BY <3>1, <3>2
    <2> QED BY <1>2, <2>1, <2>2
  <1>3. CASE ~(u = s /\ v = t) /\ u = t /\ v \in Neighbours[t]
    <2>1. link'[u][v] = link[u][v] \o q
      BY <1>3, ActsLinks
    <2>2. /\ Len(link'[u][v]) = Len(link[u][v]) + Len(q)
          /\ Len(q) \in Nat
          /\ \A l \in 1 .. Len(link[u][v]) + Len(q) :
                link'[u][v][l] = IF l <= Len(link[u][v]) THEN link[u][v][l]
                                 ELSE q[l - Len(link[u][v])]
      <3>1. q \in Seq(Packet)
        BY DEF Acts
      <3> QED BY <1>1, <2>1, <3>1
    <2>3. \A l \in Places(u, v) : l \in Places(u, v)' /\ link'[u][v][l] = link[u][v][l]
      BY <1>1, <2>2 DEF Places
    <2>4. ASSUME NEW x \in Elems(q) PROVE \E k \in Places(u, v)' : link'[u][v][k] = x
      <3>1. PICK l \in 1 .. Len(q) : x = q[l]
        BY DEF Elems
      <3>2. /\ Len(link[u][v]) + l \in 1 .. Len(link[u][v]) + Len(q)
            /\ ~(Len(link[u][v]) + l <= Len(link[u][v]))
            /\ Len(link[u][v]) + l - Len(link[u][v]) = l
        BY <1>1, <2>2, <3>1
      <3>3. link'[u][v][Len(link[u][v]) + l] = x
        <4> DEFINE k == Len(link[u][v]) + l
        <4>1. k \in 1 .. Len(link[u][v]) + Len(q) /\ ~(k <= Len(link[u][v]))
              /\ k - Len(link[u][v]) = l
          BY <3>2
        <4> HIDE DEF k
        <4>2. link'[u][v][k] = q[l]
          BY <2>2, <4>1
        <4> QED BY <3>1, <4>2 DEF k
      <3>4. Len(link[u][v]) + l \in Places(u, v)'
        BY <2>2, <3>2 DEF Places
      <3> QED BY <3>3, <3>4
    <2>5. \A l \in Places(u, v) : l = Was(s, t, u, v, l)
      BY <1>3 DEF Was
    <2> QED BY <2>3, <2>4, <2>5
  <1>4. CASE ~(u = s /\ v = t) /\ ~(u = t /\ v \in Neighbours[t])
    <2>1. link'[u][v] = link[u][v]
      BY <1>4, ActsLinks
    <2> QED BY <1>4, <2>1 DEF Places, Was
  <1> QED BY <1>2, <1>3, <1>4

LEMMA ActsKnows ==
    ASSUME LinksTypeOK(Body), NEW s, NEW t, NEW m, NEW q, Acts(s, t, m, q),
           NEW v \in Site, NEW i
    PROVE  Knows(v, i)' <=> Knows(v, i) \/ (v = t /\ s \in Site /\ i = m.id)
  <1>1. seen \in [Site -> SUBSET Ids] /\ t \in Site /\ s \in Site \cup {NoSite}
    BY DEF LinksTypeOK, Acts
  <1>2. CASE s = NoSite
    BY <1>2, NoSiteFacts DEF Acts, Knows
  <1>3. CASE s \in Site
    <2>1. seen' = [seen EXCEPT ![t] = @ \cup {m.id}]
      BY <1>3 DEF Acts
    <2> QED BY <1>1, <1>3, <2>1 DEF Knows
  <1> QED BY <1>1, <1>2, <1>3

LEMMA ActsWire ==
    ASSUME LinksTypeOK(Body), Adjacent, NEW s, NEW t, NEW m, NEW q, Acts(s, t, m, q)
    PROVE  /\ \A n : n \in Wire' => n \in Wire \/ n \in Elems(q)
           /\ Got(s, m) \subseteq Wire
  <1>1. ASSUME NEW n, n \in Wire' PROVE n \in Wire \/ n \in Elems(q)
    <2>1. PICK e \in Site \X Site :
             n \in {link'[e[1]][e[2]][k] : k \in Places(e[1], e[2])'}
      BY <1>1 DEF Wire
    <2>2. e[1] \in Site /\ e[2] \in Site
      BY <2>1
    <2>3. PICK k \in Places(e[1], e[2])' : n = link'[e[1]][e[2]][k]
      BY <2>1
    <2> QED BY <2>2, <2>3, ActsWhence, OnWire
  <1>2. ASSUME s \in Site PROVE m \in Wire
    BY <1>2, ActsLinks, OnWire
  <1> QED BY <1>1, <1>2 DEF Got

(* A message that came behind i goes on doing so: t knows i when it takes  *)
(* it, and has written i before.                                           *)
LEMMA ActsBehind ==
    ASSUME LinksTypeOK(Body), Adjacent, NEW s, NEW t, NEW m, NEW q, Acts(s, t, m, q),
           NEW i, NEW K, PassedOn(i), Behind(i, K),
           \A n \in Elems(q) : n \in K => n \in Got(s, m) \/ Knows(t, i)
    PROVE  Behind(i, K)'
  <1> SUFFICES ASSUME NEW a \in Site, NEW b \in Site, NEW k \in Places(a, b)',
                      link'[a][b][k] \in K
               PROVE  Ahead(a, b, k, i)'
    BY DEF Behind
  <1>0. /\ Knows(b, i) => Knows(b, i)'
        /\ s \in Site => 1 \in Places(s, t) /\ m = link[s][t][1] /\ Knows(t, m.id)'
        /\ t \in Site
    BY ActsKnows, ActsLinks
  <1>1. ASSUME NEW l \in Places(a, b), link[a][b][l].id = i,
               \A j \in Places(a, b)' : l = Was(s, t, a, b, j) => j < k
        PROVE  Ahead(a, b, k, i)'
    <2>1. CASE a = s /\ b = t /\ l = 1
      BY <1>0, <1>1, <2>1 DEF Ahead
    <2>2. CASE ~(a = s /\ b = t /\ l = 1)
      <3>1. PICK j \in Places(a, b)' :
               l = Was(s, t, a, b, j) /\ link'[a][b][j] = link[a][b][l]
        BY <2>2, ActsKeeps
      <3> QED BY <1>1, <3>1 DEF Ahead
    <2> QED BY <2>1, <2>2
  <1>2. CASE /\ Was(s, t, a, b, k) \in Places(a, b)
             /\ link'[a][b][k] = link[a][b][Was(s, t, a, b, k)]
    <2>1. Ahead(a, b, Was(s, t, a, b, k), i)
      BY <1>2 DEF Behind
    <2>2. CASE Knows(b, i)
      BY <1>0, <2>2 DEF Ahead
    <2>3. ASSUME NEW l \in Places(a, b), l < Was(s, t, a, b, k), link[a][b][l].id = i
          PROVE  Ahead(a, b, k, i)'
      <3>1. k \in Int
        BY DEF Places
      <3>2. \A j \in Places(a, b)' : l = Was(s, t, a, b, j) => j < k
        BY <2>3, <3>1 DEF Was, Places
      <3> QED BY <1>1, <2>3, <3>2
    <2> QED BY <2>1, <2>2, <2>3 DEF Ahead
  <1>3. CASE /\ a = t /\ b \in Neighbours[t] /\ ~(a = s /\ b = t)
             /\ link'[a][b][k] \in Elems(q) /\ \A l \in Places(a, b) : l < k
    <2>1. Knows(t, i)
      <3>1. CASE link'[a][b][k] \in Got(s, m)
        <4>1. s \in Site /\ link[s][t][1] \in K /\ 1 \in Places(s, t)
          BY <1>0, <3>1 DEF Got
        <4>2. Ahead(s, t, 1, i)
          BY <1>0, <4>1 DEF Behind
        <4> QED BY <4>2 DEF Ahead, Places
      <3> QED BY <1>3, <3>1
    <2>2. Reaches(t, b, i)
      BY <1>0, <1>3, <2>1 DEF PassedOn
    <2>3. CASE Knows(b, i)
      BY <1>0, <2>3 DEF Ahead
    <2>4. ASSUME NEW l \in Places(t, b), link[t][b][l].id = i
          PROVE  Ahead(a, b, k, i)'
      <3>1. \A j \in Places(a, b)' : l = Was(s, t, a, b, j) => j < k
        BY <1>3, <2>4 DEF Was
      <3> QED BY <1>1, <1>3, <2>4, <3>1
    <2> QED BY <2>2, <2>3, <2>4 DEF Reaches
  <1> QED BY <1>2, <1>3, ActsWhence

(* Who knows a message has written it: t does when it takes a new one. *)
LEMMA ActsReaches ==
    ASSUME LinksTypeOK(Body), Adjacent, NEW s, NEW t, NEW m, NEW q, Acts(s, t, m, q),
           NEW b \in Site, NEW c \in Site, NEW i
    PROVE  /\ Reaches(b, c, i) => Reaches(b, c, i)'
           /\ b = t /\ c \in Neighbours[t] /\ (\E x \in Elems(q) : x.id = i) =>
                 Reaches(b, c, i)'
  <1>1. /\ Knows(c, i) => Knows(c, i)'
        /\ s \in Site => m = link[s][t][1] /\ Knows(t, m.id)'
    BY ActsKnows, ActsLinks
  <1>2. ASSUME NEW l \in Places(b, c), link[b][c][l].id = i
        PROVE  Reaches(b, c, i)'
    <2>1. CASE b = s /\ c = t /\ l = 1
      BY <1>1, <1>2, <2>1 DEF Reaches
    <2>2. CASE ~(b = s /\ c = t /\ l = 1)
      <3>1. PICK j \in Places(b, c)' : link'[b][c][j] = link[b][c][l]
        BY <2>2, ActsKeeps
      <3> QED BY <1>2, <3>1 DEF Reaches
    <2> QED BY <2>1, <2>2
  <1>3. ASSUME b = t, c \in Neighbours[t], NEW x \in Elems(q), x.id = i
        PROVE  Reaches(b, c, i)'
    <2>1. PICK j \in Places(b, c)' : link'[b][c][j] = x
      BY <1>3, ActsKeeps
    <2> QED BY <1>3, <2>1 DEF Reaches
  <1> QED BY <1>1, <1>2, <1>3 DEF Reaches

LEMMA ActsPassedOn ==
    ASSUME LinksTypeOK(Body), Adjacent, NEW s, NEW t, NEW m, NEW q, Acts(s, t, m, q),
           NEW i, PassedOn(i),
           s \in Site /\ i = m.id => Knows(t, i) \/ m \in Elems(q)
    PROVE  PassedOn(i)'
  <1> SUFFICES ASSUME NEW b \in Site, Knows(b, i)', NEW c \in Neighbours[b]
               PROVE  Reaches(b, c, i)'
    BY DEF PassedOn
  <1>1. c \in Site
    BY NeighboursAssumption
  <1>2. Knows(b, i) \/ (b = t /\ s \in Site /\ i = m.id)
    BY ActsKnows
  <1>3. CASE Knows(b, i)
    BY <1>1, <1>3, ActsReaches DEF PassedOn
  <1>4. CASE ~Knows(b, i) /\ b = t /\ s \in Site /\ i = m.id
    BY <1>1, <1>4, ActsReaches
  <1> QED BY <1>2, <1>3, <1>4

LEMMA FreshPassedOn ==
    ASSUME LinksTypeOK(Body), Adjacent, NEW s, NEW t, NEW m, NEW q, Acts(s, t, m, q),
           NEW x \in Elems(q), \A v \in Site : Knows(v, x.id)' => v = t
    PROVE  PassedOn(x.id)'
  <1> SUFFICES ASSUME NEW b \in Site, Knows(b, x.id)', NEW c \in Neighbours[b]
               PROVE  Reaches(b, c, x.id)'
    BY DEF PassedOn
  <1>1. c \in Site /\ b = t
    BY NeighboursAssumption
  <1> QED BY <1>1, ActsReaches

-----------------------------------------------------------------------------
(* What the links carry. *)

IsApp(n) == n.body.action = "App"
IsState(n) == n.body.action = "STATE_COLLECT"
IsPrepost(n) == n.body.action = "PREPOST_COLLECT"

(* The marker that a red site passes on for its user is from nobody; what  *)
(* is meant for one site says for which, except that a site whose marker   *)
(* came from nobody answers to nobody.                                     *)
WellSent(n) ==
    /\ n.sender = n.id[1] \/ (n.sender = NoSite /\ n.body = Marker)
    /\ IsApp(n) => n.dest \in Site
    /\ IsState(n) \/ IsPrepost(n) => n.dest \in Site \cup {NoSite}
    /\ n.body = Marker \/ n.body = Reset => n.dest = BROADCAST
Routed == \A n \in Wire : n \in Packet /\ Drawn(n.id) /\ WellSent(n)
(* Only copies of a message have its id. *)
OneMessage == \A n, o \in Wire : n.id = o.id => n = o
Carriage == LinksTypeOK(Body) /\ Adjacent /\ Routed /\ OneMessage /\ SeenDrawn

(* A step that writes what it has taken again, and the messages of X, one  *)
(* at most, which are new.                                                 *)
Adds(s, t, m, q, X) ==
    /\ Acts(s, t, m, q)
    /\ X \subseteq Elems(q) /\ Elems(q) \subseteq Got(s, m) \cup X
    /\ \/ X = {} /\ sent' = sent
       \/ \E x \in Packet : /\ X = {x} /\ x.id = <<t, sent[t] + 1>>
                            /\ WellSent(x) /\ Draws(t)

LEMMA AddsFacts ==
    ASSUME Carriage, NEW s, NEW t, NEW m, NEW q, NEW X, Adds(s, t, m, q, X)
    PROVE  /\ sent' \in [Site -> Nat]
           /\ \A i : Drawn(i) => Drawn(i)'
           /\ \A x \in X : /\ x \in Packet /\ WellSent(x) /\ X = {x}
                           /\ x.id = <<t, sent[t] + 1>> /\ x.id \in Ids /\ x.id[1] = t
                           /\ ~Drawn(x.id) /\ Drawn(x.id)'
                           /\ \A n \in Wire : n.id # x.id
                           /\ \A v \in Site : x.id \notin seen[v]
                           /\ \A v \in Site : Knows(v, x.id)' => v = t
           /\ \A n : n \in Wire' => n \in Wire \/ n \in X
           /\ Acts(s, t, m, q) /\ t \in Site
  <1>1. /\ sent \in [Site -> Nat] /\ Acts(s, t, m, q) /\ t \in Site
        /\ LinksTypeOK(Body) /\ Adjacent
    BY DEF Carriage, LinksTypeOK, Adds, Acts
  <1>2. \A n : n \in Wire' => n \in Wire \/ n \in X
    BY <1>1, ActsWire DEF Adds
  <1>3. CASE X = {} /\ sent' = sent
    <2>1. \A i : Drawn(i) => Drawn(i)'
      BY <1>3 DEF Drawn
    <2> QED BY <1>1, <1>2, <1>3, <2>1
  <1>4. ASSUME NEW x \in Packet, X = {x}, x.id = <<t, sent[t] + 1>>, WellSent(x), Draws(t)
        PROVE  /\ sent' \in [Site -> Nat]
               /\ \A i : Drawn(i) => Drawn(i)'
               /\ x.id \in Ids /\ x.id[1] = t /\ ~Drawn(x.id) /\ Drawn(x.id)'
               /\ \A n \in Wire : n.id # x.id
               /\ \A v \in Site : x.id \notin seen[v]
               /\ \A v \in Site : Knows(v, x.id)' => v = t
    <2>1. /\ x.id \in Ids /\ x.id[1] = t /\ ~Drawn(x.id) /\ Drawn(x.id)'
          /\ \A i : Drawn(i) => Drawn(i)'
      BY <1>1, <1>4, DrawnFacts
    <2>2. sent' \in [Site -> Nat]
      BY <1>1, <1>4 DEF Draws
    <2>3. \A n \in Wire : n.id # x.id
      BY <2>1 DEF Carriage, Routed
    <2>4. \A v \in Site : x.id \notin seen[v]
      BY <2>1 DEF Carriage, SeenDrawn
    <2>5. ASSUME NEW v \in Site, Knows(v, x.id)' PROVE v = t
      <3>1. Knows(v, x.id) \/ (v = t /\ s \in Site /\ x.id = m.id)
        BY <1>1, <2>5, ActsKnows
      <3> QED BY <2>1, <2>4, <3>1 DEF Knows
    <2> QED BY <2>1, <2>2, <2>3, <2>4, <2>5
  <1> QED BY <1>1, <1>2, <1>3, <1>4 DEF Adds

LEMMA CarriageKept ==
    ASSUME Carriage, NEW s, NEW t, NEW m, NEW q, NEW X, Adds(s, t, m, q, X)
    PROVE  Carriage'
  <1>1. /\ sent' \in [Site -> Nat] /\ \A i : Drawn(i) => Drawn(i)'
        /\ \A x \in X : x \in Packet /\ WellSent(x) /\ Drawn(x.id)' /\ X = {x}
        /\ \A x \in X : \A n \in Wire : n.id # x.id
        /\ \A n : n \in Wire' => n \in Wire \/ n \in X
        /\ Acts(s, t, m, q) /\ t \in Site
    BY AddsFacts
  <1>2. /\ LinksTypeOK(Body) /\ Adjacent /\ Routed /\ OneMessage /\ SeenDrawn
        /\ s \in Site \cup {NoSite}
    BY <1>1 DEF Carriage, Acts
  <1>3. Typed(link', Packet) /\ Adjacent'
    BY <1>1, <1>2, ActsLinks
  <1>4. s \in Site => m \in Wire /\ m.id \in Ids /\ Drawn(m.id)
    BY <1>1, <1>2, ActsWire DEF Got, Routed, Drawn
  <1>5. seen' \in [Site -> SUBSET Ids] /\ SeenDrawn'
    <2>1. seen \in [Site -> SUBSET Ids]
      BY <1>2 DEF LinksTypeOK
    <2>2. CASE s = NoSite
      BY <1>1, <1>2, <2>1, <2>2, NoSiteFacts DEF Acts, SeenDrawn
    <2>3. CASE s \in Site
      <3>1. seen' = [seen EXCEPT ![t] = @ \cup {m.id}]
        BY <1>1, <2>3 DEF Acts
      <3>2. seen' \in [Site -> SUBSET Ids]
        BY <1>4, <2>1, <2>3, <3>1
      <3>3. \A v \in Site : \A i \in seen'[v] : i \in seen[v] \/ i = m.id
        BY <2>1, <3>1
      <3> QED BY <1>1, <1>2, <1>4, <2>3, <3>2, <3>3 DEF SeenDrawn
    <2> QED BY <1>2, <2>2, <2>3
  <1>6. LinksTypeOK(Body)'
    BY <1>1, <1>3, <1>5 DEF LinksTypeOK, Typed, Packet
  <1>7. Routed' /\ OneMessage'
    BY <1>1, <1>2 DEF Routed, OneMessage
  <1> QED BY <1>3, <1>5, <1>6, <1>7 DEF Carriage

(* What t knows of the message it receives. *)
LEMMA GotFacts ==
    ASSUME Carriage, NEW s \in Site, NEW t \in Site, NEW m, NEW q, Acts(s, t, m, q)
    PROVE  /\ m \in Wire /\ m \in Packet /\ Drawn(m.id) /\ m.id \in Ids /\ WellSent(m)
           /\ m.body \in Body /\ m.id[1] \in Site /\ m = FirstOf(s, t)
           /\ link[s][t] # <<>> /\ 1 \in Places(s, t) /\ m = link[s][t][1]
  <1>1. LinksTypeOK(Body) /\ Adjacent
    BY DEF Carriage
  <1>2. m \in Wire /\ 1 \in Places(s, t) /\ m = link[s][t][1]
    BY <1>1, ActsWire, ActsLinks DEF Got
  <1>3. m \in Packet /\ Drawn(m.id) /\ WellSent(m)
    BY <1>2 DEF Carriage, Routed
  <1>4. m.id \in Ids /\ m.body \in Body /\ m.id[1] \in Site
    BY <1>3 DEF Drawn, Packet, Message, Ids
  <1> QED BY <1>2, <1>3, <1>4 DEF Acts

(* The handlers take and write that way. *)
New1(s, dest, body) ==
    [id |-> <<s, sent[s] + 1>>, sender |-> s, dest |-> dest, body |-> body]
AddsSome(s, t, m, X) ==
    \E q : /\ Adds(s, t, m, q, X)
           /\ IsNew(t, m) /\ Forwards(t, m) => m \in Elems(q)

LEMMA ElemsFacts ==
    /\ <<>> \in Seq(Packet) /\ Elems(<<>>) = {}
    /\ \A x \in Packet : <<x>> \in Seq(Packet) /\ Elems(<<x>>) = {x}
    /\ \A a, b \in Seq(Packet) :
          a \o b \in Seq(Packet) /\ Elems(a \o b) = Elems(a) \cup Elems(b)
  <1>1. <<>> \in Seq(Packet) /\ Elems(<<>>) = {}
    BY DEF Elems
  <1>2. \A x \in Packet : <<x>> \in Seq(Packet) /\ Elems(<<x>>) = {x}
    BY DEF Elems
  <1>3. ASSUME NEW a \in Seq(Packet), NEW b \in Seq(Packet)
        PROVE  a \o b \in Seq(Packet) /\ Elems(a \o b) = Elems(a) \cup Elems(b)
    <2> DEFINE c == a \o b
    <2>1. /\ c \in Seq(Packet) /\ Len(c) = Len(a) + Len(b)
          /\ Len(a) \in Nat /\ Len(b) \in Nat
          /\ \A k \in 1 .. Len(a) + Len(b) :
                c[k] = IF k <= Len(a) THEN a[k] ELSE b[k - Len(a)]
      OBVIOUS
    <2> HIDE DEF c
    <2>2. ASSUME NEW x \in Elems(c) PROVE x \in Elems(a) \cup Elems(b)
      <3>1. PICK k \in 1 .. Len(c) : x = c[k]
        BY <2>2 DEF Elems
      <3>2. CASE k <= Len(a)
        BY <2>1, <3>1, <3>2 DEF Elems
      <3>3. CASE ~(k <= Len(a))
        <4>1. k - Len(a) \in 1 .. Len(b) /\ x = b[k - Len(a)]
          BY <2>1, <3>1, <3>3
        <4> QED BY <4>1 DEF Elems
      <3> QED BY <3>2, <3>3
    <2>3. ASSUME NEW x \in Elems(a) PROVE x \in Elems(c)
      <3>1. PICK k \in 1 .. Len(a) : x = a[k]
        BY <2>3 DEF Elems
      <3>2. k \in 1 .. Len(c) /\ c[k] = x
        BY <2>1, <3>1
      <3> QED BY <3>2 DEF Elems
    <2>4. ASSUME NEW x \in Elems(b) PROVE x \in Elems(c)
      <3>1. PICK k \in 1 .. Len(b) : x = b[k]
        BY <2>4 DEF Elems
      <3> DEFINE l == Len(a) + k
      <3>2. l \in 1 .. Len(a) + Len(b) /\ ~(l <= Len(a)) /\ l - Len(a) = k
        BY <2>1, <3>1
      <3> HIDE DEF l
      <3>3. l \in 1 .. Len(c) /\ c[l] = x
        BY <2>1, <3>1, <3>2
      <3> QED BY <3>3 DEF Elems
    <2>5. Elems(c) = Elems(a) \cup Elems(b)
      BY <2>2, <2>3, <2>4
    <2> QED BY <2>1, <2>5 DEF c
  <1> QED BY <1>1, <1>2, <1>3

LEMMA TakeAdds ==
    ASSUME Carriage, NEW s \in Site, NEW t \in Site, link[s][t] # <<>>,
           NEW m, m = FirstOf(s, t), NEW letters, NEW copies,
           TakeWith(s, t, Neighbours[t], letters, copies),
           copies = <<>> \/ copies = <<m>>,
           NEW X,
           \/ letters = <<>> /\ X = {}
           \/ \E dest, body : /\ letters = <<Letter(dest, body)>>
                              /\ X = {New1(t, dest, body)}
                              /\ New1(t, dest, body) \in Packet
                              /\ WellSent(New1(t, dest, body))
    PROVE  AddsSome(s, t, m, X)
  <1> DEFINE again == IF IsNew(t, m) /\ Forwards(t, m) THEN <<m>> ELSE <<>>
             q == again \o Stamped(t, letters) \o copies
  <1>1. sent[t] \in Nat /\ sent \in [Site -> Nat] /\ link[s][t] \in Seq(Packet)
    BY DEF Carriage, LinksTypeOK, Packet
  <1>2. m \in Packet
    BY <1>1 DEF FirstOf
  <1>3. again = <<>> \/ (again = <<m>>)
    OBVIOUS
  <1>4. \/ Stamped(t, letters) = <<>> /\ X = {} /\ Len(letters) = 0
        \/ \E x \in Packet : /\ Stamped(t, letters) = <<x>> /\ X = {x} /\ Len(letters) = 1
                             /\ x.id = <<t, sent[t] + 1>> /\ WellSent(x)
    <2>1. CASE letters = <<>> /\ X = {}
      BY <1>1, <2>1, StampedFacts
    <2>2. ASSUME NEW dest, NEW body, letters = <<Letter(dest, body)>>,
                 X = {New1(t, dest, body)}, New1(t, dest, body) \in Packet,
                 WellSent(New1(t, dest, body))
          PROVE  \E x \in Packet : /\ Stamped(t, letters) = <<x>> /\ X = {x} /\ Len(letters) = 1
                                   /\ x.id = <<t, sent[t] + 1>> /\ WellSent(x)
      <3>1. Stamped(t, letters) = <<New1(t, dest, body)>>
        BY <1>1, <2>2, StampedFacts DEF New1
      <3>2. New1(t, dest, body).id = <<t, sent[t] + 1>> /\ Len(letters) = 1
        BY <2>2 DEF New1
      <3> QED BY <2>2, <3>1, <3>2
    <2> QED BY <2>1, <2>2
  <1>5. /\ q \in Seq(Packet)
        /\ X \subseteq Elems(q) /\ Elems(q) \subseteq {m} \cup X
        /\ IsNew(t, m) /\ Forwards(t, m) => m \in Elems(q)
    <2> DEFINE st == Stamped(t, letters)
    <2>0. (st = <<>> /\ X = {}) \/ \E x \in Packet : st = <<x>> /\ X = {x}
      BY <1>4
    <2>1. IsNew(t, m) /\ Forwards(t, m) => again = <<m>>
      OBVIOUS
    <2> HIDE DEF st, again
    <2>2. q = again \o st \o copies
      BY DEF st
    <2> HIDE DEF q
    <2>3. st \in Seq(Packet) /\ Elems(st) = X
      BY <2>0, ElemsFacts
    <2>4. /\ again \in Seq(Packet) /\ Elems(again) \subseteq {m}
          /\ IsNew(t, m) /\ Forwards(t, m) => m \in Elems(again)
      BY <1>2, <1>3, <2>1, ElemsFacts
    <2>5. copies \in Seq(Packet) /\ Elems(copies) \subseteq {m}
      BY <1>2, ElemsFacts
    <2>6. again \o st \in Seq(Packet) /\ Elems(again \o st) = Elems(again) \cup X
      BY <2>3, <2>4, ElemsFacts
    <2>7. q \in Seq(Packet) /\ Elems(q) = Elems(again \o st) \cup Elems(copies)
      BY <2>2, <2>5, <2>6, ElemsFacts
    <2> QED BY <2>4, <2>5, <2>6, <2>7
  <1>6. /\ link' = Written(Rest(s, t), t, Neighbours[t], q)
        /\ seen' = [seen EXCEPT ![t] = @ \cup {m.id}]
        /\ sent' = [sent EXCEPT ![t] = @ + Len(letters)]
    BY DEF TakeWith, TakeAmong, Rest, Id
  <1>7. Acts(s, t, m, q)
    BY <1>5, <1>6, NoSiteFacts DEF Acts
  <1> HIDE DEF q
  <1>8. \/ X = {} /\ sent' = sent
        \/ \E x \in Packet : /\ X = {x} /\ x.id = <<t, sent[t] + 1>>
                             /\ WellSent(x) /\ Draws(t)
    <2>1. CASE X = {} /\ Len(letters) = 0
      BY <1>1, <1>6, <2>1
    <2>2. CASE Len(letters) = 1
      <3>1. Draws(t)
        BY <1>6, <2>2 DEF Draws
      <3> QED BY <1>4, <2>2, <3>1
    <2> QED BY <1>4, <2>1, <2>2
  <1>9. Adds(s, t, m, q, X)
    BY <1>5, <1>7, <1>8 DEF Adds, Got
  <1> QED BY <1>5, <1>9 DEF AddsSome

LEMMA WriteAdds ==
    ASSUME Carriage, NEW t \in Site, NEW x \in Packet, x.id = <<t, sent[t] + 1>>,
           WellSent(x), link' = Written(link, t, Neighbours[t], <<x>>),
           sent' = [sent EXCEPT ![t] = @ + 1], seen' = seen
    PROVE  Adds(NoSite, t, x, <<x>>, {x})
  <1>1. <<x>> \in Seq(Packet) /\ Elems(<<x>>) = {x}
    BY DEF Elems
  <1>2. Acts(NoSite, t, x, <<x>>)
    BY <1>1, NoSiteFacts DEF Acts
  <1>3. Draws(t)
    BY DEF Draws
  <1> QED BY <1>1, <1>2, <1>3 DEF Adds

LEMMA OriginateAdds ==
    ASSUME Carriage, NEW t \in Site, NEW dest, NEW body,
           NEW x, x = New1(t, dest, body), x \in Packet, WellSent(x),
           Originate(t, <<Letter(dest, body)>>)
    PROVE  Adds(NoSite, t, x, <<x>>, {x})
  <1>1. sent[t] \in Nat
    BY DEF Carriage, LinksTypeOK
  <1>2. Stamped(t, <<Letter(dest, body)>>) = <<x>> /\ x.id = <<t, sent[t] + 1>>
    BY <1>1, StampedFacts DEF New1
  <1>3. /\ link' = Written(link, t, Neighbours[t], <<x>>)
        /\ sent' = [sent EXCEPT ![t] = @ + 1] /\ seen' = seen
    BY <1>2 DEF Originate, OriginateTo
  <1> QED BY <1>2, <1>3, WriteAdds

-----------------------------------------------------------------------------
(* The types, and what the sites have sent to each other. *)

SnapshotState ==
    [myColor : {White, Red}, isInitiator : BOOLEAN,
     initiatorID : Site \cup {NoSite}, bilan : Int, nbEtats : Int, nbMsg : Int,
     states : SUBSET SiteState, preposts : SUBSET Ids]
WorkState == [sent : SUBSET Ids, received : SUBSET Ids]
StateTypes ==
    /\ snap \in [Site -> SnapshotState] /\ work \in [Site -> WorkState]
    /\ exports \in Seq(Export) /\ clicksLeft \in [Site -> Nat]

(* A message is received once, by the site it is for, and the balance of a *)
(* site counts what it has sent and received.                              *)
Worked ==
    /\ \A v \in Site : \A i \in work[v].sent : i[1] = v /\ Drawn(i)
    /\ \A v \in Site : IsFiniteSet(work[v].sent) /\ IsFiniteSet(work[v].received)
    /\ \A v \in Site : \A i \in work[v].received : i \in seen[v] /\ i \in work[i[1]].sent
    /\ \A u, v \in Site : \A i \in work[u].received : i \in work[v].received => u = v
    /\ \A v \in Site : snap[v].bilan =
          Cardinality(work[v].sent) - Cardinality(work[v].received)
Shipped ==
    \A n \in Wire : IsApp(n) =>
        /\ n.id \in work[n.id[1]].sent
        /\ \A v \in Site : n.id \in work[v].received => n.dest = v
Base == Carriage /\ StateTypes /\ Worked /\ Shipped

(* A step of t leaves its Snapshot as sn and its work as wk. *)
Event(s, t, m, q, X, sn, wk) ==
    /\ Adds(s, t, m, q, X)
    /\ s \in Site /\ IsNew(t, m) /\ Forwards(t, m) => m \in Elems(q)
    /\ sn \in SnapshotState /\ snap' = [snap EXCEPT ![t] = sn]
    /\ wk \in WorkState /\ work' = [work EXCEPT ![t] = wk]
NoWork(t, X, sn, wk) ==
    /\ wk = work[t] /\ sn.bilan = snap[t].bilan
    /\ \A x \in X : ~IsApp(x)
SendsApp(s, t, X, sn, wk) ==
    /\ s = NoSite /\ \E x : X = {x} /\ IsApp(x) /\ x.body.color = snap[t].myColor
                            /\ wk.sent = work[t].sent \cup {x.id}
    /\ wk.received = work[t].received
    /\ sn.bilan = snap[t].bilan + 1
GetsApp(s, t, m, X, sn, wk) ==
    /\ s \in Site /\ IsApp(m) /\ m.dest = t /\ m.id \notin seen[t] /\ m.sender # t
    /\ wk.sent = work[t].sent /\ wk.received = work[t].received \cup {m.id}
    /\ sn.bilan = snap[t].bilan - 1
    /\ \A x \in X : ~IsApp(x)
Works(s, t, m, X, sn, wk) ==
    NoWork(t, X, sn, wk) \/ SendsApp(s, t, X, sn, wk) \/ GetsApp(s, t, m, X, sn, wk)

LEMMA EventFacts ==
    ASSUME Base, NEW s, NEW t, NEW m, NEW q, NEW X, NEW sn, NEW wk,
           Event(s, t, m, q, X, sn, wk)
    PROVE  /\ t \in Site /\ Adds(s, t, m, q, X) /\ Acts(s, t, m, q) /\ Carriage
           /\ s \in Site \cup {NoSite}
           /\ snap' \in [Site -> SnapshotState] /\ work' \in [Site -> WorkState]
           /\ snap'[t] = sn /\ work'[t] = wk
           /\ \A v \in Site : v # t => snap'[v] = snap[v] /\ work'[v] = work[v]
           /\ \A v \in Site : \A i : Knows(v, i) => Knows(v, i)'
           /\ \A n : n \in Wire' => n \in Wire \/ n \in X
  <1>1. t \in Site /\ Adds(s, t, m, q, X) /\ Acts(s, t, m, q) /\ Carriage
        /\ s \in Site \cup {NoSite}
    BY DEF Event, Adds, Acts, Base
  <1>2. snap \in [Site -> SnapshotState] /\ work \in [Site -> WorkState]
    BY DEF Base, StateTypes
  <1>3. /\ snap' = [snap EXCEPT ![t] = sn] /\ sn \in SnapshotState
        /\ work' = [work EXCEPT ![t] = wk] /\ wk \in WorkState
    BY DEF Event
  <1>4. /\ snap' \in [Site -> SnapshotState] /\ snap'[t] = sn
        /\ \A v \in Site : v # t => snap'[v] = snap[v]
    BY <1>1, <1>2, <1>3
  <1>5. /\ work' \in [Site -> WorkState] /\ work'[t] = wk
        /\ \A v \in Site : v # t => work'[v] = work[v]
    BY <1>1, <1>2, <1>3
  <1>6. \A v \in Site : \A i : Knows(v, i) => Knows(v, i)'
    BY <1>1, ActsKnows DEF Carriage
  <1>7. \A n : n \in Wire' => n \in Wire \/ n \in X
    BY <1>1, AddsFacts
  <1> QED BY <1>1, <1>4, <1>5, <1>6, <1>7

(* What becomes of the work of the sites. *)
LEMMA WorkFacts ==
    ASSUME Base, NEW s, NEW t, NEW m, NEW q, NEW X, NEW sn, NEW wk,
           Event(s, t, m, q, X, sn, wk), Works(s, t, m, X, sn, wk)
    PROVE  /\ \A v \in Site : /\ work[v].sent \subseteq work'[v].sent
                              /\ work[v].received \subseteq work'[v].received
           /\ \A v \in Site : \A i \in work'[v].sent :
                 \/ i \in work[v].sent
                 \/ /\ v = t /\ SendsApp(s, t, X, sn, wk)
                    /\ \E x \in X : IsApp(x) /\ i = x.id /\ \A u \in Site : i \notin seen[u]
           /\ \A v \in Site : \A i \in work'[v].received :
                 \/ i \in work[v].received
                 \/ v = t /\ i = m.id /\ GetsApp(s, t, m, X, sn, wk)
           /\ GetsApp(s, t, m, X, sn, wk) =>
                 /\ m.id \in work[m.id[1]].sent /\ m.id[1] \in Site
                 /\ \A v \in Site : m.id \notin work[v].received
                 /\ m.id \in seen'[t]
           /\ \A x \in X : IsApp(x) => SendsApp(s, t, X, sn, wk) /\ x.id \in work'[t].sent
  <1>1. /\ t \in Site /\ work'[t] = wk /\ Acts(s, t, m, q) /\ Carriage
        /\ Adds(s, t, m, q, X)
        /\ \A v \in Site : v # t => work'[v] = work[v]
    BY EventFacts
  <1>2. NoWork(t, X, sn, wk) => wk = work[t]
    BY DEF NoWork
  <1>3. \A x \in X : \A u \in Site : x.id \notin seen[u]
    BY <1>1, AddsFacts
  <1>4. ASSUME GetsApp(s, t, m, X, sn, wk)
        PROVE  /\ m.id \in work[m.id[1]].sent /\ m.id[1] \in Site
               /\ \A v \in Site : m.id \notin work[v].received
               /\ m.id \in seen'[t]
    <2>1. s \in Site /\ m.dest = t /\ m.id \notin seen[t] /\ IsApp(m)
      BY <1>4 DEF GetsApp
    <2>2. m \in Wire /\ m.id[1] \in Site
      BY <1>1, <2>1, GotFacts
    <2>3. m.id \in work[m.id[1]].sent
      BY <2>1, <2>2 DEF Base, Shipped
    <2>4. ASSUME NEW v \in Site, m.id \in work[v].received PROVE FALSE
      <3>1. v = t
        BY <2>1, <2>2, <2>4 DEF Base, Shipped
      <3>2. m.id \in seen[t]
        BY <2>4, <3>1 DEF Base, Worked
      <3> QED BY <2>1, <3>2
    <2>5. m.id \in seen'[t]
      <3>1. seen \in [Site -> SUBSET Ids]
        BY <1>1 DEF Carriage, LinksTypeOK
      <3>2. seen' = [seen EXCEPT ![t] = @ \cup {m.id}]
        BY <1>1, <2>1 DEF Acts
      <3> QED BY <1>1, <3>1, <3>2
    <2> QED BY <2>2, <2>3, <2>4, <2>5
  <1>5. \A v \in Site : \A i \in work'[v].received :
           \/ i \in work[v].received
           \/ v = t /\ i = m.id /\ GetsApp(s, t, m, X, sn, wk)
    BY <1>1, <1>2 DEF Works, SendsApp, GetsApp
  <1>6. ASSUME NEW v \in Site, NEW i \in work'[v].sent
        PROVE  \/ i \in work[v].sent
               \/ /\ v = t /\ SendsApp(s, t, X, sn, wk)
                  /\ \E x \in X : IsApp(x) /\ i = x.id /\ \A u \in Site : i \notin seen[u]
    <2>1. CASE v # t \/ ~SendsApp(s, t, X, sn, wk)
      BY <1>1, <1>2, <1>6, <2>1 DEF Works, GetsApp
    <2>2. CASE v = t /\ SendsApp(s, t, X, sn, wk)
      <3>1. PICK x : X = {x} /\ IsApp(x) /\ wk.sent = work[t].sent \cup {x.id}
        BY <2>2 DEF SendsApp
      <3> QED BY <1>1, <1>3, <1>6, <2>2, <3>1
    <2> QED BY <2>1, <2>2
  <1>7. \A v \in Site : /\ work[v].sent \subseteq work'[v].sent
                        /\ work[v].received \subseteq work'[v].received
    BY <1>1, <1>2 DEF Works, SendsApp, GetsApp
  <1>8. ASSUME NEW x \in X, IsApp(x)
        PROVE  SendsApp(s, t, X, sn, wk) /\ x.id \in work'[t].sent
    <2>1. SendsApp(s, t, X, sn, wk)
      BY <1>8 DEF Works, NoWork, GetsApp
    <2>2. PICK y : X = {y} /\ wk.sent = work[t].sent \cup {y.id}
      BY <2>1 DEF SendsApp
    <2> QED BY <1>1, <1>8, <2>1, <2>2
  <1> QED BY <1>4, <1>5, <1>6, <1>7, <1>8

LEMMA BaseKept ==
    ASSUME Base, NEW s, NEW t, NEW m, NEW q, NEW X, NEW sn, NEW wk,
           Event(s, t, m, q, X, sn, wk), Works(s, t, m, X, sn, wk),
           exports' \in Seq(Export), clicksLeft' \in [Site -> Nat]
    PROVE  Base'
  <1>1. /\ t \in Site /\ Adds(s, t, m, q, X) /\ Acts(s, t, m, q) /\ Carriage
        /\ snap' \in [Site -> SnapshotState] /\ work' \in [Site -> WorkState]
        /\ snap'[t] = sn /\ work'[t] = wk
        /\ \A v \in Site : v # t => snap'[v] = snap[v] /\ work'[v] = work[v]
        /\ \A n : n \in Wire' => n \in Wire \/ n \in X
    BY EventFacts
  <1>2. Carriage'
    BY <1>1, CarriageKept
  <1>3. StateTypes'
    BY <1>1 DEF StateTypes
  <1>4. /\ \A i : Drawn(i) => Drawn(i)'
        /\ \A x \in X : x.id[1] = t /\ Drawn(x.id)' /\ ~Drawn(x.id)
                        /\ (IsApp(x) => x.id \in work'[t].sent)
        /\ \A v \in Site : \A i \in seen[v] : i \in seen'[v]
    <2>1. \A v \in Site : \A i \in seen[v] : i \in seen'[v]
      <3>1. seen \in [Site -> SUBSET Ids]
        BY <1>1 DEF Carriage, LinksTypeOK
      <3> QED BY <1>1, <3>1, NoSiteFacts DEF Acts
    <2> QED BY <1>1, <2>1, AddsFacts, WorkFacts
  <1>5. /\ \A v \in Site : \A i \in work[v].sent : i[1] = v /\ Drawn(i)
        /\ \A v \in Site : IsFiniteSet(work[v].sent) /\ IsFiniteSet(work[v].received)
        /\ \A v \in Site : \A i \in work[v].received : i \in seen[v] /\ i \in work[i[1]].sent
        /\ \A u, v \in Site : \A i \in work[u].received : i \in work[v].received => u = v
        /\ \A v \in Site : snap[v].bilan =
              Cardinality(work[v].sent) - Cardinality(work[v].received)
        /\ work \in [Site -> WorkState]
    BY DEF Base, Worked, StateTypes
  <1>6. \A v \in Site : \A i \in work'[v].sent : i[1] = v /\ Drawn(i)'
    BY <1>4, <1>5, WorkFacts
  <1>7. ASSUME NEW v \in Site, NEW i \in work'[v].received
        PROVE  i \in seen'[v] /\ i \in work'[i[1]].sent
    <2>1. CASE i \in work[v].received
      <3>1. i \in seen'[v] /\ i \in work[i[1]].sent
        BY <1>4, <1>5, <2>1
      <3>2. i[1] \in Site
        BY <1>5, <2>1 DEF WorkState, Ids
      <3> QED BY <3>1, <3>2, WorkFacts
    <2>2. CASE v = t /\ i = m.id /\ GetsApp(s, t, m, X, sn, wk)
      BY <2>2, WorkFacts
    <2> QED BY <2>1, <2>2, WorkFacts
  <1>8. ASSUME NEW u \in Site, NEW v \in Site, NEW i \in work'[u].received,
               i \in work'[v].received
        PROVE  u = v
    <2>1. CASE i \in work[u].received /\ i \in work[v].received
      BY <1>5, <2>1
    <2>2. CASE GetsApp(s, t, m, X, sn, wk)
      <3>1. \A w \in Site : m.id \notin work[w].received
        BY <2>2, WorkFacts
      <3> QED BY <1>5, <1>8, <3>1, WorkFacts
    <2> QED BY <1>8, <2>1, <2>2, WorkFacts
  <1>9. \A v \in Site : /\ IsFiniteSet(work'[v].sent) /\ IsFiniteSet(work'[v].received)
                        /\ snap'[v].bilan =
                              Cardinality(work'[v].sent) - Cardinality(work'[v].received)
    <2>1. SUFFICES /\ IsFiniteSet(wk.sent) /\ IsFiniteSet(wk.received)
                   /\ sn.bilan = Cardinality(wk.sent) - Cardinality(wk.received)
      BY <1>1, <1>5
    <2>2. CASE NoWork(t, X, sn, wk)
      BY <1>1, <1>5, <2>2 DEF NoWork
    <2>0. Cardinality(work[t].sent) \in Int /\ Cardinality(work[t].received) \in Int
      BY <1>1, <1>5, FS_CardinalityType
    <2>3. CASE SendsApp(s, t, X, sn, wk)
      <3>1. PICK x : X = {x} /\ wk.sent = work[t].sent \cup {x.id}
        BY <2>3 DEF SendsApp
      <3>2. x.id \notin work[t].sent
        BY <1>1, <1>4, <1>5, <3>1
      <3>3. /\ IsFiniteSet(wk.sent)
            /\ Cardinality(wk.sent) = Cardinality(work[t].sent) + 1
        <4>1. IsFiniteSet(work[t].sent) /\ x.id \notin work[t].sent
          BY <1>1, <1>5, <3>1, <3>2
        <4>2. /\ IsFiniteSet(work[t].sent \cup {x.id})
              /\ Cardinality(work[t].sent \cup {x.id}) = Cardinality(work[t].sent) + 1
          BY <4>1, FS_AddElement
        <4> QED BY <3>1, <4>2
      <3> QED BY <1>1, <1>5, <2>0, <2>3, <3>3 DEF SendsApp
    <2>4. CASE GetsApp(s, t, m, X, sn, wk)
      <3>1. m.id \notin work[t].received /\ wk.received = work[t].received \cup {m.id}
        BY <1>1, <2>4, WorkFacts DEF GetsApp
      <3>2. /\ IsFiniteSet(wk.received)
            /\ Cardinality(wk.received) = Cardinality(work[t].received) + 1
        <4>1. IsFiniteSet(work[t].received) /\ m.id \notin work[t].received
          BY <1>1, <1>5, <3>1
        <4>2. /\ IsFiniteSet(work[t].received \cup {m.id})
              /\ Cardinality(work[t].received \cup {m.id}) = Cardinality(work[t].received) + 1
          BY <4>1, FS_AddElement
        <4> QED BY <3>1, <4>2
      <3> QED BY <1>1, <1>5, <2>0, <2>4, <3>2 DEF GetsApp
    <2> QED BY <2>2, <2>3, <2>4 DEF Works
  <1>10. Worked'
    BY <1>6, <1>7, <1>8, <1>9 DEF Worked
  <1>11. Shipped'
    <2> SUFFICES ASSUME NEW n \in Wire', IsApp(n)
                 PROVE  /\ n.id \in work'[n.id[1]].sent
                        /\ \A v \in Site : n.id \in work'[v].received => n.dest = v
      BY DEF Shipped
    <2>1. CASE n \in Wire
      <3>1. /\ n.id \in work[n.id[1]].sent /\ n.id[1] \in Site
            /\ \A v \in Site : n.id \in work[v].received => n.dest = v
        BY <1>1, <2>1 DEF Base, Shipped, Carriage, Routed, Drawn, Ids
      <3>2. ASSUME NEW v \in Site, n.id \in work'[v].received PROVE n.dest = v
        <4>1. CASE n.id \in work[v].received
          BY <3>1, <4>1
        <4>2. CASE v = t /\ n.id = m.id /\ GetsApp(s, t, m, X, sn, wk)
          <5>1. m \in Wire /\ m.dest = t
            BY <1>1, <4>2, GotFacts DEF GetsApp
          <5>2. n = m
            BY <1>1, <2>1, <4>2, <5>1 DEF Carriage, OneMessage
          <5> QED BY <4>2, <5>1, <5>2
        <4> QED BY <3>2, <4>1, <4>2, WorkFacts
      <3> QED BY <3>1, <3>2, WorkFacts
    <2>2. CASE n \in X
      <3>1. n.id \in work'[t].sent /\ n.id[1] = t /\ \A v \in Site : n.id \notin seen[v]
        BY <1>1, <1>4, <2>2, AddsFacts
      <3>2. SendsApp(s, t, X, sn, wk)
        BY <2>2, WorkFacts
      <3>3. \A v \in Site : n.id \notin work'[v].received
        <4>1. ~GetsApp(s, t, m, X, sn, wk)
          BY <2>2 DEF GetsApp
        <4> QED BY <1>5, <3>1, <4>1, WorkFacts
      <3> QED BY <3>1, <3>3
    <2> QED BY <1>1, <2>1, <2>2
  <1> QED BY <1>2, <1>3, <1>10, <1>11 DEF Base

-----------------------------------------------------------------------------
(* The handlers, by what they do to the snapshot. *)

IsRed(v) == snap[v].myColor = Red
Live(v) == snap[v].isInitiator

(* t goes on as it was: it has sent or received for a transfer, passed a   *)
(* message on, or told the initiator of a prepost.                         *)
Reported(s, t, m, x, sn, wk) ==
    /\ IsPrepost(x) /\ x.dest = snap[t].initiatorID /\ x.body.item = m.id
    /\ GetsApp(s, t, m, {x}, sn, wk) /\ m.body.color = White /\ IsRed(t) /\ ~Live(t)
GoesOn(s, t, m, X, sn, wk) ==
    /\ sn = [snap[t] EXCEPT !.bilan = sn.bilan] /\ exports' = exports
    /\ s \in Site /\ m.body = Reset => Knows(t, m.id)
    /\ \A x \in X : \/ IsApp(x)
                    \/ x.body = Marker /\ x.sender = NoSite
                    \/ Reported(s, t, m, x, sn, wk)
(* The user of the white site t asks for a snapshot. *)
Starts(s, t, X, sn, wk) ==
    /\ s = NoSite /\ ~IsRed(t) /\ wk = work[t] /\ sn = Initiated(t)
    /\ exports' = exports
    /\ \E x : X = {x} /\ x.body = Marker /\ x.sender = t
    /\ clicksLeft[t] > 0 /\ clicksLeft' = [clicksLeft EXCEPT ![t] = @ - 1]
(* The white site t turns red. *)
Joins(s, t, m, X, sn, wk) ==
    /\ s \in Site /\ ~IsRed(t) /\ wk = work[t] /\ sn = Clicked(t, m.sender)
    /\ exports' = exports
    /\ m.body = Marker /\ m.sender # t /\ m.id \notin seen[t]
    /\ X = {New1(t, m.sender, StateCollect(t))}
(* A state, or a prepost, is counted as cn. *)
Counts(s, t, m, cn, wk) ==
    /\ s \in Site /\ m.dest = t
    /\ \/ /\ IsState(m) /\ ~Knows(t, m.id) /\ wk = work[t]
          /\ cn = [snap[t] EXCEPT !.nbEtats = @ - 1, !.nbMsg = @ + m.body.bilan,
                                  !.states = @ \cup {m.body.state}]
       \/ /\ IsPrepost(m) /\ ~Knows(t, m.id) /\ wk = work[t]
          /\ cn = WithPrepost(snap[t], m.body.item)
       \/ /\ GetsApp(s, t, m, {}, cn, wk) /\ m.body.color = White /\ IsRed(t) /\ Live(t)
          /\ cn = WithPrepost([snap[t] EXCEPT !.bilan = @ - 1], m.id)
GoesOnCounting(s, t, m, X, sn, wk) ==
    /\ Counts(s, t, m, sn, wk) /\ ~Ready(sn) /\ X = {} /\ exports' = exports
Concludes(s, t, m, X, sn, wk) ==
    \E cn \in SnapshotState :
        /\ Counts(s, t, m, cn, wk) /\ Ready(cn) /\ sn = Concluded(cn)
        /\ X = {New1(t, BROADCAST, Reset)}
        /\ exports' = Append(exports, Exported(t, cn))
(* t turns white. *)
TurnsWhite(s, t, m, X, sn, wk) ==
    /\ s \in Site /\ X = {} /\ wk = work[t] /\ exports' = exports
    /\ m.body = Reset /\ ~Knows(t, m.id)
    /\ sn = IF IsRed(t) THEN [snap[t] EXCEPT !.myColor = White, !.isInitiator = FALSE]
            ELSE snap[t]

Does(s, t, m, X, sn, wk) ==
    \/ GoesOn(s, t, m, X, sn, wk) \/ Starts(s, t, X, sn, wk) \/ Joins(s, t, m, X, sn, wk)
    \/ GoesOnCounting(s, t, m, X, sn, wk) \/ Concludes(s, t, m, X, sn, wk)
    \/ TurnsWhite(s, t, m, X, sn, wk)
(* What every step but a click leaves alone. *)
Happens(t) ==
    \E s, m, q, X, sn, wk : /\ Event(s, t, m, q, X, sn, wk) /\ Works(s, t, m, X, sn, wk)
                            /\ Does(s, t, m, X, sn, wk)

LEMMA BodyFacts ==
    ASSUME NEW b \in Body
    PROVE  /\ b.action \in {"App", "MARKER", "PREPOST_COLLECT", "STATE_COLLECT",
                            "RESET_SNAPSHOT"}
           /\ b.action = "MARKER" <=> b = Marker
           /\ b.action = "RESET_SNAPSHOT" <=> b = Reset
           /\ b.action = "App" => b.color \in {White, Red}
           /\ b.action = "PREPOST_COLLECT" => b.item \in Ids
           /\ b.action = "STATE_COLLECT" => b.bilan \in Int /\ b.state \in SiteState
  BY DEF Body, Marker, Reset

LEMMA OwnMessage ==
    ASSUME Base, NEW t \in Site, NEW body \in Body,
           NEW dest \in Site \cup {NoSite, BROADCAST},
           body.action = "App" => dest \in Site,
           body.action \in {"STATE_COLLECT", "PREPOST_COLLECT"} => dest \in Site \cup {NoSite},
           body.action \in {"MARKER", "RESET_SNAPSHOT"} => dest = BROADCAST
    PROVE  /\ New1(t, dest, body) \in Packet /\ WellSent(New1(t, dest, body))
           /\ New1(t, dest, body).id = <<t, sent[t] + 1>>
           /\ New1(t, dest, body).body = body /\ New1(t, dest, body).sender = t
           /\ New1(t, dest, body).dest = dest
  <1>1. sent[t] \in Nat
    BY DEF Base, Carriage, LinksTypeOK
  <1>2. <<t, sent[t] + 1>> \in Ids
    BY <1>1 DEF Ids
  <1>3. New1(t, dest, body) \in Packet
    BY <1>2 DEF New1, Packet, Message
  <1>4. WellSent(New1(t, dest, body))
    BY BodyFacts DEF New1, WellSent, IsApp, IsState, IsPrepost, Marker, Reset
  <1> QED BY <1>3, <1>4 DEF New1

LEMMA BodiesAre ==
    ASSUME Base, NEW t \in Site
    PROVE  /\ App(snap[t].myColor) \in Body /\ Marker \in Body /\ Reset \in Body
           /\ \A i \in Ids : Prepost(i) \in Body
           /\ StateCollect(t) \in Body /\ StateOf(t) \in SiteState
           /\ snap[t] \in SnapshotState /\ work[t] \in WorkState
  <1>1. snap[t] \in SnapshotState /\ work[t] \in WorkState
    BY DEF Base, StateTypes
  <1>2. StateOf(t) \in SiteState
    BY <1>1 DEF StateOf, SiteState, WorkState
  <1>3. App(snap[t].myColor) \in Body /\ Marker \in Body /\ Reset \in Body
    BY <1>1 DEF App, Body, SnapshotState
  <1>4. \A i \in Ids : Prepost(i) \in Body
    BY DEF Prepost, Body
  <1>5. StateCollect(t) \in Body
    BY <1>1, <1>2 DEF StateCollect, Body, SnapshotState
  <1> QED BY <1>1, <1>2, <1>3, <1>4, <1>5

LEMMA SendDoes ==
    ASSUME Base, NEW t \in Site, NEW dest \in Site, Send(t, dest)
    PROVE  Happens(t) /\ clicksLeft' = clicksLeft
  <1> DEFINE x == New1(t, dest, App(snap[t].myColor))
             sn == [snap[t] EXCEPT !.bilan = @ + 1]
             wk == [work[t] EXCEPT !.sent = @ \cup {x.id}]
  <1>1. /\ App(snap[t].myColor) \in Body /\ snap[t] \in SnapshotState
        /\ work[t] \in WorkState
        /\ snap \in [Site -> SnapshotState] /\ work \in [Site -> WorkState]
    BY BodiesAre DEF Base, StateTypes
  <1>2. /\ x \in Packet /\ WellSent(x) /\ x.id = <<t, sent[t] + 1>>
        /\ x.body = App(snap[t].myColor)
    BY <1>1, OwnMessage DEF App
  <1>3. IsApp(x) /\ x.body.color = snap[t].myColor /\ x.id \in Ids
    BY <1>2 DEF IsApp, App, Packet, Message
  <1>4. Adds(NoSite, t, x, <<x>>, {x})
    <2>1. Carriage /\ Originate(t, <<Letter(dest, App(snap[t].myColor))>>)
      BY DEF Base, Send
    <2> QED BY <1>2, <2>1, OriginateAdds
  <1>5. sn \in SnapshotState /\ wk \in WorkState
    BY <1>1, <1>3 DEF SnapshotState, WorkState
  <1>6. snap' = [snap EXCEPT ![t] = sn] /\ work' = [work EXCEPT ![t] = wk]
    BY <1>1, <1>2 DEF Send
  <1>7. /\ sn.bilan = snap[t].bilan + 1 /\ sn = [snap[t] EXCEPT !.bilan = sn.bilan]
        /\ wk.sent = work[t].sent \cup {x.id} /\ wk.received = work[t].received
    BY <1>1 DEF SnapshotState, WorkState
  <1>8. exports' = exports /\ clicksLeft' = clicksLeft
    BY DEF Send
  <1> HIDE DEF x, sn, wk
  <1>9. Event(NoSite, t, x, <<x>>, {x}, sn, wk)
    BY <1>4, <1>5, <1>6, NoSiteFacts DEF Event
  <1>10. Works(NoSite, t, x, {x}, sn, wk)
    BY <1>3, <1>7 DEF Works, SendsApp
  <1>11. Does(NoSite, t, x, {x}, sn, wk)
    BY <1>3, <1>7, <1>8, NoSiteFacts DEF Does, GoesOn
  <1> QED BY <1>8, <1>9, <1>10, <1>11 DEF Happens

LEMMA ClickDoes ==
    ASSUME Base, NEW t \in Site, Click(t)
    PROVE  /\ Happens(t)
           /\ clicksLeft[t] > 0 /\ clicksLeft' = [clicksLeft EXCEPT ![t] = @ - 1]
  <1> DEFINE x == New1(t, BROADCAST, Marker)
             u == [x EXCEPT !.sender = NoSite]
  <1>1. /\ snap[t] \in SnapshotState /\ work[t] \in WorkState /\ Marker \in Body
        /\ snap \in [Site -> SnapshotState] /\ work \in [Site -> WorkState]
        /\ StateOf(t) \in SiteState
    BY BodiesAre DEF Base, StateTypes
  <1>2. /\ x \in Packet /\ WellSent(x) /\ x.id = <<t, sent[t] + 1>>
        /\ x.body = Marker /\ x.sender = t
    BY <1>1, OwnMessage DEF Marker
  <1>3. /\ u \in Packet /\ u.id = <<t, sent[t] + 1>> /\ u.body = Marker /\ u.sender = NoSite
        /\ WellSent(u)
    <2>1. x.dest = BROADCAST
      BY DEF New1
    <2>2. /\ u \in Packet /\ u.id = <<t, sent[t] + 1>> /\ u.body = Marker
          /\ u.sender = NoSite /\ u.dest = BROADCAST
      BY <1>2, <2>1 DEF Packet, Message
    <2> QED BY <2>2 DEF WellSent, IsApp, IsState, IsPrepost, Marker
  <1>4. /\ clicksLeft[t] > 0 /\ clicksLeft' = [clicksLeft EXCEPT ![t] = @ - 1]
        /\ work' = work /\ exports' = exports
    BY DEF Click
  <1>5. work' = [work EXCEPT ![t] = work[t]]
    BY <1>1, <1>4
  <1>6. ~IsApp(x) /\ ~IsApp(u)
    BY <1>2, <1>3 DEF IsApp, Marker
  <1>7. CASE snap[t].myColor = White /\ snap' = [snap EXCEPT ![t] = Initiated(t)]
             /\ Originate(t, <<Letter(BROADCAST, Marker)>>)
    <2> DEFINE sn == Initiated(t)
    <2>1. Cardinality(Site) \in Nat
      BY SiteFinite, FS_CardinalityType
    <2>2. sn \in SnapshotState /\ sn.bilan = snap[t].bilan
      <3>1. Clicked(t, t) \in SnapshotState /\ Clicked(t, t).bilan = snap[t].bilan
        BY <1>1 DEF Clicked, SnapshotState
      <3>2. snap[t].bilan \in Int /\ Cardinality(Site) - 1 \in Int
        BY <1>1, <2>1 DEF SnapshotState
      <3> QED BY <1>1, <3>1, <3>2 DEF Initiated, SnapshotState
    <2>3. Adds(NoSite, t, x, <<x>>, {x})
      BY <1>2, <1>7, OriginateAdds DEF Base
    <2>4. sn = Initiated(t)
      OBVIOUS
    <2> HIDE DEF sn, x, u
    <2>5. Event(NoSite, t, x, <<x>>, {x}, sn, work[t])
      BY <1>1, <1>5, <1>7, <2>2, <2>3, <2>4, NoSiteFacts DEF Event
    <2>6. Works(NoSite, t, x, {x}, sn, work[t])
      BY <1>6, <2>2 DEF Works, NoWork
    <2>7. Starts(NoSite, t, {x}, sn, work[t])
      BY <1>2, <1>4, <1>7, <2>4 DEF Starts, IsRed, White, Red
    <2> QED BY <1>4, <2>5, <2>6, <2>7 DEF Happens, Does
  <1>8. CASE UNCHANGED <<linkVars, snap>>
    <2>1. link' = link /\ seen' = seen /\ sent' = sent /\ snap' = snap
      BY <1>8 DEF linkVars
    <2>2. Written(link, t, Neighbours[t], <<>>) = link
      BY WrittenNothing DEF Base, Carriage, LinksTypeOK, Typed
    <2>3. <<>> \in Seq(Packet) /\ Elems(<<>>) = {}
      BY ElemsFacts
    <2>4. Adds(NoSite, t, x, <<>>, {})
      BY <2>1, <2>2, <2>3, NoSiteFacts DEF Adds, Acts
    <2>5. snap' = [snap EXCEPT ![t] = snap[t]] /\ snap[t] = [snap[t] EXCEPT !.bilan = snap[t].bilan]
      BY <1>1, <2>1 DEF SnapshotState
    <2> HIDE DEF x, u
    <2>6. Event(NoSite, t, x, <<>>, {}, snap[t], work[t])
      BY <1>1, <1>5, <2>4, <2>5, NoSiteFacts DEF Event
    <2>7. Works(NoSite, t, x, {}, snap[t], work[t])
      BY DEF Works, NoWork
    <2>8. GoesOn(NoSite, t, x, {}, snap[t], work[t])
      BY <1>4, <2>5, NoSiteFacts DEF GoesOn
    <2> QED BY <1>4, <2>6, <2>7, <2>8 DEF Happens, Does
  <1>9. CASE /\ link' = Written(link, t, Neighbours[t],
                                <<ByUser(Stamped(t, <<Letter(BROADCAST, Marker)>>)[1])>>)
             /\ sent' = [sent EXCEPT ![t] = @ + 1]
             /\ UNCHANGED <<seen, snap>>
    <2>1. ByUser(Stamped(t, <<Letter(BROADCAST, Marker)>>)[1]) = u
      <3>1. sent[t] \in Nat
        BY DEF Base, Carriage, LinksTypeOK
      <3>2. Stamped(t, <<Letter(BROADCAST, Marker)>>) = <<x>>
        BY <3>1, StampedFacts DEF New1
      <3> QED BY <3>2 DEF ByUser
    <2>2. snap' = [snap EXCEPT ![t] = snap[t]] /\ snap[t] = [snap[t] EXCEPT !.bilan = snap[t].bilan]
      BY <1>1, <1>9 DEF SnapshotState
    <2> HIDE DEF x, u
    <2>3. Adds(NoSite, t, u, <<u>>, {u})
      BY <1>3, <1>9, <2>1, WriteAdds DEF Base
    <2>4. Event(NoSite, t, u, <<u>>, {u}, snap[t], work[t])
      BY <1>1, <1>5, <2>2, <2>3, NoSiteFacts DEF Event
    <2>5. Works(NoSite, t, u, {u}, snap[t], work[t])
      BY <1>6 DEF Works, NoWork
    <2>6. GoesOn(NoSite, t, u, {u}, snap[t], work[t])
      BY <1>3, <1>4, <2>2, NoSiteFacts DEF GoesOn
    <2> QED BY <1>4, <2>4, <2>5, <2>6 DEF Happens, Does
  <1> QED BY <1>7, <1>8, <1>9 DEF Click

LEMMA FirstMessage ==
    ASSUME Base, NEW s \in Site, NEW t \in Site, link[s][t] # <<>>,
           NEW m, m = FirstOf(s, t)
    PROVE  /\ m \in Wire /\ m \in Packet /\ WellSent(m) /\ m.body \in Body
           /\ m.id \in Ids /\ m.id[1] \in Site
           /\ m.sender \in Site \cup {NoSite}
  <1>1. link[s][t] \in Seq(Packet)
    BY DEF Base, Carriage, LinksTypeOK, Packet
  <1>2. m = link[s][t][1] /\ 1 \in Places(s, t)
    BY <1>1 DEF FirstOf, Places
  <1>3. m \in Wire
    BY <1>2, OnWire
  <1>4. m \in Packet /\ WellSent(m)
    BY <1>3 DEF Base, Carriage, Routed
  <1> QED BY <1>3, <1>4 DEF Packet, Message, Ids

LEMMA Received ==
    ASSUME Base, NEW s \in Site, NEW t \in Site, Receives(s, t),
           NEW m, m = FirstOf(s, t)
    PROVE  /\ link[s][t] # <<>> /\ m.id \notin seen[t] /\ m.sender # t
           /\ m.body # Marker => ~Knows(t, m.id)
           /\ IsApp(m) \/ IsState(m) \/ IsPrepost(m) => m.dest = t
  <1>1. link[s][t] # <<>> /\ m.id \notin seen[t] /\ Processes(t, m)
    BY DEF Receives, IsNew, Id
  <1>2. m.sender # t /\ m.dest \in {BROADCAST, BROADCAST_NEIGHBORS, t}
    BY <1>1 DEF Processes
  <1>3. WellSent(m)
    BY <1>1, FirstMessage
  <1>4. m.body # Marker => ~Knows(t, m.id)
    BY <1>1, <1>2, <1>3 DEF WellSent, Knows
  <1>5. IsApp(m) \/ IsState(m) \/ IsPrepost(m) => m.dest = t
    BY <1>2, <1>3, NoSiteFacts DEF WellSent
  <1> QED BY <1>1, <1>2, <1>4, <1>5

(* A step of t that takes m becomes an event once its parts are known. *)
LEMMA TakesEvent ==
    ASSUME Base, NEW s \in Site, NEW t \in Site, link[s][t] # <<>>,
           NEW m, m = FirstOf(s, t), NEW X, AddsSome(s, t, m, X),
           NEW sn \in SnapshotState, snap' = [snap EXCEPT ![t] = sn],
           NEW wk \in WorkState, work' = [work EXCEPT ![t] = wk],
           Works(s, t, m, X, sn, wk), Does(s, t, m, X, sn, wk)
    PROVE  Happens(t)
  <1>1. PICK q : Adds(s, t, m, q, X) /\ (IsNew(t, m) /\ Forwards(t, m) => m \in Elems(q))
    BY DEF AddsSome
  <1>2. Event(s, t, m, q, X, sn, wk)
    BY <1>1 DEF Event
  <1> QED BY <1>2 DEF Happens

(* t answers nothing, or one message. *)
LEMMA SilentAdds ==
    ASSUME Base, NEW s \in Site, NEW t \in Site, link[s][t] # <<>>,
           NEW m, m = FirstOf(s, t), NEW copies, copies = <<>> \/ copies = <<m>>,
           TakeWith(s, t, Neighbours[t], <<>>, copies)
    PROVE  AddsSome(s, t, m, {})
  <1>1. Carriage
    BY DEF Base
  <1> QED BY <1>1, TakeAdds

LEMMA AnswerAdds ==
    ASSUME Base, NEW s \in Site, NEW t \in Site, link[s][t] # <<>>,
           NEW m, m = FirstOf(s, t), NEW copies, copies = <<>> \/ copies = <<m>>,
           NEW dest \in Site \cup {NoSite, BROADCAST}, NEW body \in Body,
           body.action = "App" => dest \in Site,
           body.action \in {"STATE_COLLECT", "PREPOST_COLLECT"} => dest \in Site \cup {NoSite},
           body.action \in {"MARKER", "RESET_SNAPSHOT"} => dest = BROADCAST,
           TakeWith(s, t, Neighbours[t], <<Letter(dest, body)>>, copies)
    PROVE  AddsSome(s, t, m, {New1(t, dest, body)})
  <1>1. Carriage
    BY DEF Base
  <1>2. New1(t, dest, body) \in Packet /\ WellSent(New1(t, dest, body))
    BY OwnMessage
  <1> QED BY <1>1, <1>2, TakeAdds

LEMMA PassDoes ==
    ASSUME Base, NEW s \in Site, NEW t \in Site, Pass(s, t)
    PROVE  Happens(t) /\ clicksLeft' = clicksLeft
  <1> DEFINE m == FirstOf(s, t)
  <1>1. /\ link[s][t] # <<>> /\ TakeWith(s, t, Neighbours[t], <<>>, <<>>)
        /\ ~(IsNew(t, m) /\ Processes(t, m))
        /\ snap' = snap /\ work' = work /\ exports' = exports /\ clicksLeft' = clicksLeft
    BY DEF Pass, Relay, RelayTo, TakeTo
  <1>2. /\ snap[t] \in SnapshotState /\ work[t] \in WorkState
        /\ snap \in [Site -> SnapshotState] /\ work \in [Site -> WorkState]
    BY DEF Base, StateTypes
  <1>3. /\ snap' = [snap EXCEPT ![t] = snap[t]] /\ work' = [work EXCEPT ![t] = work[t]]
        /\ snap[t] = [snap[t] EXCEPT !.bilan = snap[t].bilan]
    BY <1>1, <1>2 DEF SnapshotState
  <1>4. m.body = Reset => Knows(t, m.id)
    <2> HAVE m.body = Reset
    <2>1. m.dest = BROADCAST /\ m.sender = m.id[1]
      <3>1. WellSent(m)
        BY <1>1, FirstMessage
      <3> QED BY <3>1 DEF WellSent, Reset, Marker
    <2>2. m.sender = t \/ m.id \in seen[t]
      BY <1>1, <2>1 DEF IsNew, Processes, Id
    <2> QED BY <2>1, <2>2 DEF Knows
  <1>5. AddsSome(s, t, m, {})
    BY <1>1, SilentAdds
  <1> HIDE DEF m
  <1>6. Works(s, t, m, {}, snap[t], work[t])
    BY DEF Works, NoWork
  <1>7. Does(s, t, m, {}, snap[t], work[t])
    BY <1>1, <1>3, <1>4 DEF Does, GoesOn
  <1> QED BY <1>1, <1>2, <1>3, <1>5, <1>6, <1>7, TakesEvent DEF m

LEMMA ResetDoes ==
    ASSUME Base, NEW s \in Site, NEW t \in Site, ReceiveReset(s, t)
    PROVE  Happens(t) /\ clicksLeft' = clicksLeft
  <1> DEFINE m == FirstOf(s, t)
             sn == IF IsRed(t) THEN [snap[t] EXCEPT !.myColor = White, !.isInitiator = FALSE]
                   ELSE snap[t]
  <1>1. /\ Receives(s, t) /\ m.body.action = "RESET_SNAPSHOT" /\ link[s][t] # <<>>
        /\ work' = work /\ exports' = exports /\ clicksLeft' = clicksLeft
    BY DEF ReceiveReset, Gets, Receives
  <1>2. /\ snap[t] \in SnapshotState /\ work[t] \in WorkState
        /\ snap \in [Site -> SnapshotState] /\ work \in [Site -> WorkState]
    BY DEF Base, StateTypes
  <1>3. m.body = Reset
    BY <1>1, FirstMessage, BodyFacts
  <1>4. ~Knows(t, m.id)
    <2>1. m.body # Marker
      BY <1>3 DEF Reset, Marker
    <2> QED BY <1>1, <2>1, Received
  <1>5. /\ sn \in SnapshotState /\ sn.bilan = snap[t].bilan
        /\ work' = [work EXCEPT ![t] = work[t]]
    BY <1>1, <1>2 DEF SnapshotState
  <1>6. snap' = [snap EXCEPT ![t] = sn] /\ AddsSome(s, t, m, {})
    <2>1. CASE snap[t].myColor = White /\ Take(s, t, <<>>) /\ snap' = snap
      <3>1. snap' = [snap EXCEPT ![t] = sn]
        BY <1>2, <2>1 DEF IsRed, White, Red
      <3>2. TakeWith(s, t, Neighbours[t], <<>>, <<>>)
        BY <2>1 DEF Take, TakeTo
      <3> QED BY <1>1, <3>1, <3>2, SilentAdds
    <2>2. CASE /\ snap[t].myColor = Red
               /\ snap' = [snap EXCEPT ![t].myColor = White, ![t].isInitiator = FALSE]
               /\ TakeWith(s, t, Neighbours[t], <<>>, <<FirstOf(s, t)>>)
      <3>1. snap' = [snap EXCEPT ![t] = sn]
        BY <1>2, <2>2 DEF IsRed
      <3>2. AddsSome(s, t, m, {})
        BY <1>1, <2>2, SilentAdds
      <3> QED BY <3>1, <3>2
    <2> QED BY <2>1, <2>2 DEF ReceiveReset
  <1>7. sn = IF IsRed(t) THEN [snap[t] EXCEPT !.myColor = White, !.isInitiator = FALSE]
             ELSE snap[t]
    OBVIOUS
  <1> HIDE DEF m, sn
  <1>8. Works(s, t, m, {}, sn, work[t])
    BY <1>5 DEF Works, NoWork
  <1>9. Does(s, t, m, {}, sn, work[t])
    BY <1>1, <1>3, <1>4, <1>7 DEF Does, TurnsWhite
  <1> QED BY <1>1, <1>2, <1>5, <1>6, <1>8, <1>9, TakesEvent DEF m

LEMMA MarkerDoes ==
    ASSUME Base, NEW s \in Site, NEW t \in Site, ReceiveMarker(s, t)
    PROVE  Happens(t) /\ clicksLeft' = clicksLeft
  <1> DEFINE m == FirstOf(s, t)
  <1>1. /\ Receives(s, t) /\ m.body.action = "MARKER" /\ link[s][t] # <<>>
        /\ work' = work /\ exports' = exports /\ clicksLeft' = clicksLeft
    BY DEF ReceiveMarker, Gets, Receives
  <1>2. /\ snap[t] \in SnapshotState /\ work[t] \in WorkState
        /\ snap \in [Site -> SnapshotState] /\ work \in [Site -> WorkState]
        /\ StateCollect(t) \in Body
    BY BodiesAre DEF Base, StateTypes
  <1>3. m.body = Marker /\ m.sender \in Site \cup {NoSite}
    BY <1>1, FirstMessage, BodyFacts
  <1>4. m.id \notin seen[t] /\ m.sender # t
    BY <1>1, Received
  <1>5. work' = [work EXCEPT ![t] = work[t]]
    BY <1>1, <1>2
  <1>6. CASE /\ snap[t].myColor = White
             /\ snap' = [snap EXCEPT ![t] = Clicked(t, m.sender)]
             /\ TakeWith(s, t, Neighbours[t], <<Letter(m.sender, StateCollect(t))>>, <<m>>)
    <2> DEFINE sn == Clicked(t, m.sender)
               X == {New1(t, m.sender, StateCollect(t))}
    <2>1. sn \in SnapshotState /\ sn.bilan = snap[t].bilan
      BY <1>2, <1>3 DEF Clicked, SnapshotState
    <2>2. StateCollect(t).action = "STATE_COLLECT"
      BY DEF StateCollect
    <2>3. AddsSome(s, t, m, X)
      BY <1>1, <1>2, <1>3, <1>6, <2>2, AnswerAdds
    <2>4. \A x \in X : ~IsApp(x)
      BY <2>2 DEF IsApp, New1
    <2>5. sn = Clicked(t, m.sender) /\ X = {New1(t, m.sender, StateCollect(t))}
      OBVIOUS
    <2> HIDE DEF m, sn, X
    <2>6. Works(s, t, m, X, sn, work[t])
      BY <2>1, <2>4 DEF Works, NoWork
    <2>7. Does(s, t, m, X, sn, work[t])
      BY <1>1, <1>3, <1>4, <1>6, <2>5 DEF Does, Joins, IsRed, White, Red
    <2> QED BY <1>1, <1>2, <1>5, <1>6, <2>1, <2>3, <2>5, <2>6, <2>7, TakesEvent DEF m
  <1>7. CASE /\ snap' = snap
             /\ TakeWith(s, t, Neighbours[t], <<>>,
                         IF snap[t].isInitiator THEN <<>> ELSE <<m>>)
    <2>1. AddsSome(s, t, m, {})
      BY <1>1, <1>7, SilentAdds
    <2>2. /\ snap' = [snap EXCEPT ![t] = snap[t]]
          /\ snap[t] = [snap[t] EXCEPT !.bilan = snap[t].bilan]
      BY <1>2, <1>7 DEF SnapshotState
    <2>3. m.body # Reset
      BY <1>3 DEF Marker, Reset
    <2> HIDE DEF m
    <2>4. Works(s, t, m, {}, snap[t], work[t])
      BY DEF Works, NoWork
    <2>5. Does(s, t, m, {}, snap[t], work[t])
      BY <1>1, <2>2, <2>3 DEF Does, GoesOn
    <2> QED BY <1>1, <1>2, <1>5, <2>1, <2>2, <2>4, <2>5, TakesEvent DEF m
  <1> QED BY <1>1, <1>6, <1>7 DEF ReceiveMarker

LEMMA ConcludedFacts ==
    ASSUME NEW cn \in SnapshotState
    PROVE  /\ Concluded(cn) \in SnapshotState
           /\ Concluded(cn).myColor = White /\ Concluded(cn).isInitiator = FALSE
           /\ Concluded(cn).bilan = cn.bilan
  <1>1. Concluded(cn) \in SnapshotState
    <2> DEFINE half == [cn EXCEPT !.myColor = White, !.isInitiator = FALSE]
    <2>1. half \in SnapshotState
      BY DEF SnapshotState
    <2>2. [half EXCEPT !.nbEtats = 0, !.nbMsg = 0] = Concluded(cn)
      BY DEF Concluded, SnapshotState
    <2> HIDE DEF half
    <2>3. ASSUME NEW a \in Int
          PROVE  [half EXCEPT !.nbEtats = a, !.nbMsg = a] \in SnapshotState
      BY <2>1 DEF SnapshotState
    <2>4. 0 \in Int
      OBVIOUS
    <2>5. [half EXCEPT !.nbEtats = 0, !.nbMsg = 0] \in SnapshotState
      BY <2>3, <2>4, Zenon
    <2> QED BY <2>2, <2>5
  <1>2. Concluded(cn).myColor = White /\ Concluded(cn).isInitiator = FALSE
    BY DEF Concluded, SnapshotState
  <1>3. Concluded(cn).bilan = cn.bilan
    BY DEF Concluded, SnapshotState
  <1> QED BY <1>1, <1>2, <1>3

LEMMA CountDoes ==
    ASSUME Base, NEW s \in Site, NEW t \in Site, link[s][t] # <<>>,
           NEW m, m = FirstOf(s, t), NEW cn \in SnapshotState,
           NEW wk \in WorkState, work' = [work EXCEPT ![t] = wk],
           Counts(s, t, m, cn, wk), Works(s, t, m, {}, cn, wk), Count(s, t, cn)
    PROVE  Happens(t)
  <1>1. CASE /\ Ready(cn) /\ snap' = [snap EXCEPT ![t] = Concluded(cn)]
             /\ exports' = Append(exports, Exported(t, cn))
             /\ Take(s, t, <<Letter(BROADCAST, Reset)>>)
    <2> DEFINE sn == Concluded(cn)
               X == {New1(t, BROADCAST, Reset)}
    <2>1. sn \in SnapshotState /\ sn.bilan = cn.bilan
      BY ConcludedFacts
    <2>2. Reset.action = "RESET_SNAPSHOT" /\ Reset \in Body
      BY BodiesAre DEF Reset
    <2>3. TakeWith(s, t, Neighbours[t], <<Letter(BROADCAST, Reset)>>, <<>>)
      BY <1>1 DEF Take, TakeTo
    <2>4. AddsSome(s, t, m, X)
      BY <2>2, <2>3, AnswerAdds
    <2>5. \A x \in X : ~IsApp(x)
      BY <2>2 DEF IsApp, New1
    <2>6. sn = Concluded(cn) /\ X = {New1(t, BROADCAST, Reset)}
      OBVIOUS
    <2> HIDE DEF sn, X
    <2>7. Works(s, t, m, X, sn, wk)
      <3>1. ~SendsApp(s, t, {}, cn, wk)
        BY NoSiteFacts DEF SendsApp
      <3> QED BY <2>1, <2>5, <3>1 DEF Works, NoWork, GetsApp
    <2>8. Concludes(s, t, m, X, sn, wk)
      BY <1>1, <2>6 DEF Concludes
    <2>9. Does(s, t, m, X, sn, wk)
      BY <2>8 DEF Does
    <2> QED BY <1>1, <2>1, <2>4, <2>6, <2>7, <2>9, TakesEvent
  <1>2. CASE ~Ready(cn) /\ snap' = [snap EXCEPT ![t] = cn] /\ exports' = exports
             /\ Take(s, t, <<>>)
    <2>1. TakeWith(s, t, Neighbours[t], <<>>, <<>>)
      BY <1>2 DEF Take, TakeTo
    <2>2. AddsSome(s, t, m, {})
      BY <2>1, SilentAdds
    <2>3. Does(s, t, m, {}, cn, wk)
      BY <1>2 DEF Does, GoesOnCounting
    <2> QED BY <1>2, <2>2, <2>3, TakesEvent
  <1> QED BY <1>1, <1>2 DEF Count

LEMMA StateDoes ==
    ASSUME Base, NEW s \in Site, NEW t \in Site, ReceiveState(s, t)
    PROVE  Happens(t) /\ clicksLeft' = clicksLeft
  <1> DEFINE m == FirstOf(s, t)
             cn == [snap[t] EXCEPT !.nbEtats = @ - 1, !.nbMsg = @ + m.body.bilan,
                                   !.states = @ \cup {m.body.state}]
  <1>1. /\ Receives(s, t) /\ m.body.action = "STATE_COLLECT" /\ link[s][t] # <<>>
        /\ work' = work /\ clicksLeft' = clicksLeft /\ Count(s, t, cn)
    BY DEF ReceiveState, Gets, Receives
  <1>2. /\ snap[t] \in SnapshotState /\ work[t] \in WorkState
        /\ work \in [Site -> WorkState]
    BY DEF Base, StateTypes
  <1>3. m.body.bilan \in Int /\ m.body.state \in SiteState /\ IsState(m) /\ m.body # Marker
    BY <1>1, FirstMessage, BodyFacts DEF IsState, Marker
  <1>4. ~Knows(t, m.id) /\ m.dest = t
    BY <1>1, <1>3, Received
  <1>5. /\ cn \in SnapshotState /\ cn.bilan = snap[t].bilan
        /\ work' = [work EXCEPT ![t] = work[t]]
    <2>1. cn \in SnapshotState
      <3>1. /\ snap[t].nbEtats - 1 \in Int /\ snap[t].nbMsg + m.body.bilan \in Int
            /\ snap[t].states \cup {m.body.state} \in SUBSET SiteState
        BY <1>2, <1>3 DEF SnapshotState
      <3> HIDE DEF m
      <3> QED BY <1>2, <3>1 DEF SnapshotState
    <2>2. cn.bilan = snap[t].bilan
      BY <1>2 DEF SnapshotState
    <2>3. work' = [work EXCEPT ![t] = work[t]]
      BY <1>1, <1>2
    <2> QED BY <2>1, <2>2, <2>3
  <1>6. Works(s, t, m, {}, cn, work[t])
    BY <1>5 DEF Works, NoWork
  <1>7. Counts(s, t, m, cn, work[t])
    BY <1>3, <1>4 DEF Counts
  <1>8. m = FirstOf(s, t)
    OBVIOUS
  <1> HIDE DEF m, cn
  <1> QED BY <1>1, <1>2, <1>5, <1>6, <1>7, <1>8, CountDoes

LEMMA WithPrepostFacts ==
    ASSUME NEW cn \in SnapshotState, NEW i \in Ids
    PROVE  /\ WithPrepost(cn, i) \in SnapshotState
           /\ WithPrepost(cn, i).bilan = cn.bilan
  <1>1. [cn EXCEPT !.nbMsg = @ - 1, !.preposts = @ \cup {i}] \in SnapshotState
    <2>1. cn.nbMsg - 1 \in Int /\ cn.preposts \cup {i} \in SUBSET Ids
      BY DEF SnapshotState
    <2> QED BY <2>1 DEF SnapshotState
  <1>2. [cn EXCEPT !.nbMsg = @ - 1, !.preposts = @ \cup {i}].bilan = cn.bilan
    BY DEF SnapshotState
  <1> QED BY <1>1, <1>2 DEF WithPrepost

LEMMA PrepostDoes ==
    ASSUME Base, NEW s \in Site, NEW t \in Site, ReceivePrepost(s, t)
    PROVE  Happens(t) /\ clicksLeft' = clicksLeft
  <1> DEFINE m == FirstOf(s, t)
             cn == WithPrepost(snap[t], m.body.item)
  <1>1. /\ Receives(s, t) /\ m.body.action = "PREPOST_COLLECT" /\ link[s][t] # <<>>
        /\ work' = work /\ clicksLeft' = clicksLeft /\ Count(s, t, cn)
    BY DEF ReceivePrepost, Gets, Receives
  <1>2. /\ snap[t] \in SnapshotState /\ work[t] \in WorkState
        /\ work \in [Site -> WorkState]
    BY DEF Base, StateTypes
  <1>3. m.body.item \in Ids /\ IsPrepost(m) /\ m.body # Marker
    BY <1>1, FirstMessage, BodyFacts DEF IsPrepost, Marker
  <1>4. ~Knows(t, m.id) /\ m.dest = t
    BY <1>1, <1>3, Received
  <1>5. /\ cn \in SnapshotState /\ cn.bilan = snap[t].bilan
        /\ work' = [work EXCEPT ![t] = work[t]]
    BY <1>1, <1>2, <1>3, WithPrepostFacts
  <1>6. Works(s, t, m, {}, cn, work[t])
    BY <1>5 DEF Works, NoWork
  <1>7. Counts(s, t, m, cn, work[t])
    BY <1>3, <1>4 DEF Counts
  <1>8. m = FirstOf(s, t)
    OBVIOUS
  <1> HIDE DEF m, cn
  <1> QED BY <1>1, <1>2, <1>5, <1>6, <1>7, <1>8, CountDoes

LEMMA AppDoes ==
    ASSUME Base, NEW s \in Site, NEW t \in Site, ReceiveApp(s, t)
    PROVE  Happens(t) /\ clicksLeft' = clicksLeft
  <1> DEFINE m == FirstOf(s, t)
             sn == [snap[t] EXCEPT !.bilan = @ - 1]
             wk == [work[t] EXCEPT !.received = @ \cup {m.id}]
             isPrepost == m.body.color = White /\ sn.myColor = Red
  <1>1. /\ Receives(s, t) /\ m.body.action = "App" /\ link[s][t] # <<>>
        /\ work' = [work EXCEPT ![t].received = @ \cup {m.id}] /\ clicksLeft' = clicksLeft
    BY DEF ReceiveApp, Gets, Receives, Id
  <1>2. /\ snap[t] \in SnapshotState /\ work[t] \in WorkState
        /\ snap \in [Site -> SnapshotState] /\ work \in [Site -> WorkState]
    BY DEF Base, StateTypes
  <1>3. m.id \in Ids /\ IsApp(m) /\ m.body # Marker /\ m.body # Reset
    BY <1>1, FirstMessage DEF IsApp, Marker, Reset
  <1>4. ~Knows(t, m.id) /\ m.dest = t /\ m.id \notin seen[t] /\ m.sender # t
    BY <1>1, <1>3, Received
  <1>5. /\ sn \in SnapshotState /\ sn.bilan = snap[t].bilan - 1
        /\ sn = [snap[t] EXCEPT !.bilan = sn.bilan]
        /\ sn.myColor = snap[t].myColor /\ sn.isInitiator = snap[t].isInitiator
        /\ sn.initiatorID = snap[t].initiatorID
    BY <1>2 DEF SnapshotState
  <1>6. /\ wk \in WorkState /\ wk.sent = work[t].sent
        /\ wk.received = work[t].received \cup {m.id}
        /\ work' = [work EXCEPT ![t] = wk]
    BY <1>1, <1>2, <1>3 DEF WorkState
  <1>7. m = FirstOf(s, t) /\ sn = [snap[t] EXCEPT !.bilan = @ - 1]
        /\ Id(m) = m.id
    BY DEF Id
  <1>8. CASE ~isPrepost /\ snap' = [snap EXCEPT ![t] = sn] /\ Take(s, t, <<>>)
             /\ exports' = exports
    <2>1. TakeWith(s, t, Neighbours[t], <<>>, <<>>)
      BY <1>8 DEF Take, TakeTo
    <2> HIDE DEF m, sn, wk
    <2>2. AddsSome(s, t, m, {})
      BY <1>1, <1>7, <2>1, SilentAdds
    <2>3. Works(s, t, m, {}, sn, wk)
      BY <1>3, <1>4, <1>5, <1>6 DEF Works, GetsApp
    <2>4. Does(s, t, m, {}, sn, wk)
      BY <1>3, <1>5, <1>8 DEF Does, GoesOn
    <2> QED BY <1>1, <1>5, <1>6, <1>7, <1>8, <2>2, <2>3, <2>4, TakesEvent
  <1>9. CASE isPrepost /\ sn.isInitiator /\ Count(s, t, WithPrepost(sn, Id(m)))
    <2> DEFINE cn == WithPrepost(sn, m.id)
    <2>1. cn \in SnapshotState /\ cn.bilan = snap[t].bilan - 1
      BY <1>3, <1>5, WithPrepostFacts
    <2>2. Count(s, t, cn)
      BY <1>7, <1>9
    <2>3. IsRed(t) /\ Live(t) /\ m.body.color = White
      BY <1>5, <1>9 DEF IsRed, Live
    <2>4. cn = WithPrepost([snap[t] EXCEPT !.bilan = @ - 1], m.id)
      OBVIOUS
    <2> HIDE DEF m, sn, wk, cn
    <2>5. GetsApp(s, t, m, {}, cn, wk)
      BY <1>3, <1>4, <1>6, <2>1 DEF GetsApp
    <2>6. Works(s, t, m, {}, cn, wk)
      BY <2>5 DEF Works
    <2>7. Counts(s, t, m, cn, wk)
      BY <1>4, <2>3, <2>4, <2>5 DEF Counts
    <2> QED BY <1>1, <1>6, <1>7, <2>1, <2>2, <2>6, <2>7, CountDoes
  <1>10. CASE /\ isPrepost /\ ~sn.isInitiator /\ snap' = [snap EXCEPT ![t] = sn]
              /\ Take(s, t, <<Letter(sn.initiatorID, Prepost(Id(m)))>>)
              /\ exports' = exports
    <2> DEFINE x == New1(t, sn.initiatorID, Prepost(m.id))
    <2>1. /\ Prepost(m.id) \in Body /\ sn.initiatorID \in Site \cup {NoSite}
          /\ Prepost(m.id).action = "PREPOST_COLLECT" /\ Prepost(m.id).item = m.id
      BY <1>2, <1>3, <1>5, BodiesAre DEF SnapshotState, Prepost
    <2>2. TakeWith(s, t, Neighbours[t], <<Letter(sn.initiatorID, Prepost(m.id))>>, <<>>)
      BY <1>7, <1>10 DEF Take, TakeTo
    <2>3. AddsSome(s, t, m, {x})
      BY <1>1, <1>7, <2>1, <2>2, AnswerAdds
    <2>4. IsPrepost(x) /\ x.dest = snap[t].initiatorID /\ x.body.item = m.id /\ ~IsApp(x)
      BY <1>5, <2>1 DEF New1, IsPrepost, IsApp
    <2>5. IsRed(t) /\ ~Live(t) /\ m.body.color = White
      BY <1>5, <1>10 DEF IsRed, Live
    <2> HIDE DEF m, sn, wk, x
    <2>6. GetsApp(s, t, m, {x}, sn, wk)
      BY <1>3, <1>4, <1>5, <1>6, <2>4 DEF GetsApp
    <2>7. Works(s, t, m, {x}, sn, wk)
      BY <2>6 DEF Works
    <2>8. Does(s, t, m, {x}, sn, wk)
      BY <1>3, <1>5, <1>10, <2>4, <2>5, <2>6 DEF Does, GoesOn, Reported
    <2> QED BY <1>1, <1>5, <1>6, <1>7, <1>10, <2>3, <2>7, <2>8, TakesEvent
  <1> QED BY <1>8, <1>9, <1>10 DEF ReceiveApp

(* Every step is one of these. *)
LEMMA StepDoes ==
    ASSUME Base, Next
    PROVE  \E t \in Site :
              /\ Happens(t)
              /\ \/ clicksLeft' = clicksLeft
                 \/ clicksLeft[t] > 0 /\ clicksLeft' = [clicksLeft EXCEPT ![t] = @ - 1]
  <1>1. ASSUME NEW t \in Site, Click(t) \/ \E dest \in Site : Send(t, dest)
        PROVE  \E u \in Site :
                 /\ Happens(u)
                 /\ \/ clicksLeft' = clicksLeft
                    \/ clicksLeft[u] > 0 /\ clicksLeft' = [clicksLeft EXCEPT ![u] = @ - 1]
    BY <1>1, ClickDoes, SendDoes
  <1>2. ASSUME NEW s \in Site, NEW t \in Site, Step(s, t)
        PROVE  Happens(t) /\ clicksLeft' = clicksLeft
    BY <1>2, AppDoes, MarkerDoes, StateDoes, PrepostDoes, ResetDoes, PassDoes DEF Step
  <1> QED BY <1>1, <1>2 DEF Next

LEMMA ExportedTyped ==
    ASSUME Base, NEW t \in Site, NEW cn \in SnapshotState
    PROVE  Exported(t, cn) \in Export
  <1>1. cn.states \subseteq SiteState /\ cn.preposts \subseteq Ids
        /\ work[t].received \subseteq Ids
    BY DEF SnapshotState, Base, StateTypes, WorkState
  <1>2. ASSUME NEW st \in cn.states
        PROVE  [site |-> st.site, sent |-> st.sent, received |-> st.received,
                register |-> IF st.site = t THEN work[t].received ELSE st.received]
               \in [site : Site, sent : SUBSET Ids, received : SUBSET Ids,
                    register : SUBSET Ids]
    <2>1. st.site \in Site /\ st.sent \subseteq Ids /\ st.received \subseteq Ids
      BY <1>1 DEF SiteState
    <2> QED BY <1>1, <2>1
  <1> QED BY <1>1, <1>2 DEF Exported, Export

LEMMA BaseInit == Init => Base
  <1> SUFFICES ASSUME Init PROVE Base
    OBVIOUS
  <1>1. /\ LinksInit /\ snap = [s \in Site |-> NoSnapshot]
        /\ work = [s \in Site |-> [sent |-> {}, received |-> {}]]
        /\ exports = <<>> /\ clicksLeft = Clicks
    BY DEF Init
  <1>2. /\ LinksTypeOK(Body) /\ SeenDrawn
        /\ \A u, v \in Site : Places(u, v) = {} /\ link[u][v] = <<>>
    BY <1>1, LinksInitFacts DEF LinksInv, LinksInit
  <1>3. \A n : n \notin Wire
    BY <1>2, OnWire
  <1>4. Carriage /\ Shipped
    BY <1>2, <1>3 DEF Carriage, Adjacent, Routed, OneMessage, Shipped
  <1>5. StateTypes
    <2>1. NoSnapshot \in SnapshotState
      BY DEF NoSnapshot, SnapshotState
    <2>2. [sent |-> {}, received |-> {}] \in WorkState
      BY DEF WorkState
    <2> QED BY <1>1, <2>1, <2>2, ClicksAssumption DEF StateTypes
  <1>6. Worked
    <2>1. \A v \in Site : work[v].sent = {} /\ work[v].received = {} /\ snap[v].bilan = 0
      BY <1>1 DEF NoSnapshot
    <2>2. IsFiniteSet({}) /\ Cardinality({}) = 0 /\ 0 - 0 = 0
      BY FS_EmptySet
    <2>3. \A v \in Site : /\ IsFiniteSet(work[v].sent) /\ IsFiniteSet(work[v].received)
                          /\ snap[v].bilan =
                                Cardinality(work[v].sent) - Cardinality(work[v].received)
      BY <2>1, <2>2
    <2> QED BY <2>1, <2>3 DEF Worked
  <1> QED BY <1>4, <1>5, <1>6 DEF Base

LEMMA HappensBase ==
    ASSUME Base, NEW t \in Site, Happens(t), clicksLeft' \in [Site -> Nat]
    PROVE  Base'
  <1>1. PICK s, m, q, X, sn, wk : /\ Event(s, t, m, q, X, sn, wk)
                                  /\ Works(s, t, m, X, sn, wk)
                                  /\ Does(s, t, m, X, sn, wk)
    BY DEF Happens
  <1>2. exports' = exports \/ \E cn \in SnapshotState :
                                 exports' = Append(exports, Exported(t, cn))
    BY <1>1 DEF Does, GoesOn, Starts, Joins, GoesOnCounting, Concludes, TurnsWhite
  <1>3. exports' \in Seq(Export)
    <2>1. exports \in Seq(Export)
      BY DEF Base, StateTypes
    <2> QED BY <1>2, <2>1, ExportedTyped
  <1> QED BY <1>1, <1>3, BaseKept

LEMMA BaseNext == Base /\ [Next]_vars => Base'
  <1>1. ASSUME Base, Next PROVE Base'
    <2>1. PICK t \in Site :
             /\ Happens(t)
             /\ \/ clicksLeft' = clicksLeft
                \/ clicksLeft[t] > 0 /\ clicksLeft' = [clicksLeft EXCEPT ![t] = @ - 1]
      BY <1>1, StepDoes
    <2>2. clicksLeft \in [Site -> Nat]
      BY <1>1 DEF Base, StateTypes
    <2>3. clicksLeft' \in [Site -> Nat]
      BY <2>1, <2>2
    <2> QED BY <1>1, <2>1, <2>3, HappensBase
  <1>2. ASSUME Base, UNCHANGED vars PROVE Base'
    <2>1. /\ link' = link /\ seen' = seen /\ sent' = sent /\ snap' = snap /\ work' = work
          /\ exports' = exports /\ clicksLeft' = clicksLeft
      BY <1>2 DEF vars, linkVars
    <2>2. Wire' = Wire
      BY <2>1 DEF Wire, Places
    <2> QED BY <1>2, <2>1, <2>2
            DEF Base, Carriage, LinksTypeOK, Adjacent, Routed, OneMessage, SeenDrawn,
                Drawn, StateTypes, Worked, Shipped
  <1> QED BY <1>1, <1>2

LEMMA BaseTypes == Base => TypeOK
  <1> SUFFICES ASSUME Base PROVE TypeOK
    OBVIOUS
  <1>1. /\ LinksTypeOK(Body) /\ StateTypes /\ Worked
    BY DEF Base, Carriage
  <1>2. ASSUME NEW s \in Site
        PROVE  /\ snap[s].myColor \in {White, Red}
               /\ snap[s].isInitiator \in BOOLEAN
               /\ snap[s].initiatorID \in Site \cup {NoSite}
               /\ {snap[s].bilan, snap[s].nbEtats, snap[s].nbMsg} \subseteq Int
               /\ snap[s].states \subseteq SiteState
               /\ snap[s].preposts \subseteq Ids
    <2>1. snap[s] \in SnapshotState
      BY <1>1 DEF StateTypes
    <2> QED BY <2>1 DEF SnapshotState
  <1>3. ASSUME NEW s \in Site, NEW id \in work[s].sent
        PROVE  id[1] = s /\ id[2] \in 1 .. sent[s]
    <2>1. id[1] = s /\ id \in Ids /\ id[2] <= sent[id[1]] /\ sent[s] \in Nat
      BY <1>1, <1>3 DEF Worked, Drawn, LinksTypeOK
    <2>2. id[2] \in Nat \ {0}
      BY <2>1 DEF Ids
    <2> QED BY <2>1, <2>2
  <1>4. ASSUME NEW s \in Site PROVE work[s].received \subseteq AllSent
    <2> SUFFICES ASSUME NEW i \in work[s].received PROVE i \in AllSent
      OBVIOUS
    <2>1. i \in work[i[1]].sent /\ i \in Ids
      BY <1>1 DEF Worked, StateTypes, WorkState
    <2>2. i[1] \in Site
      BY <2>1 DEF Ids
    <2> QED BY <2>1, <2>2 DEF AllSent
  <1>5. \A i \in DOMAIN exports : exports[i] \in Export
    BY <1>1 DEF StateTypes
  <1> QED BY <1>1, <1>2, <1>3, <1>4, <1>5 DEF TypeOK, StateTypes

(* Every variable of the snapshots keeps its type, in every network and    *)
(* however often the users click, and what a site has received had been    *)
(* sent by the site that its id names (HandleIncomingFromNetwork).         *)
THEOREM SnapshotTypeCorrect == Spec => []TypeOK
  <1> QED BY BaseInit, BaseNext, BaseTypes, PTL DEF Spec

-----------------------------------------------------------------------------
(* The snapshot in progress.  Four things that no variable keeps: mk[v] is *)
(* the id of the marker for which v last took its snapshot, sv[v] what it  *)
(* saved then, r the id of the last reset that was sent, and cut the       *)
(* messages that had been sent in the last snapshot that was exported.     *)

NoId == <<NoSite, 0>>
(* v has heard of the last reset. *)
UpToDate(v, r) == r = NoId \/ Knows(v, r)

Saved(mk, sv, r) ==
    /\ mk \in [Site -> Ids \cup {NoId}] /\ sv \in [Site -> SiteState]
    /\ \A v \in Site : /\ mk[v] = NoId \/ Drawn(mk[v])
                       /\ sv[v].site = v /\ sv[v].sent \subseteq work[v].sent
                       /\ sv[v].received \subseteq work[v].received
    /\ r = NoId \/ Drawn(r)

(* The sites that have joined the snapshot of c wait for its end. *)
Follow(c, mk, r) ==
    /\ IsRed(c) /\ mk[c][1] = c /\ Drawn(mk[c])
    /\ \A v \in Site : mk[v] = mk[c] =>
          /\ IsRed(v) /\ Knows(v, mk[c]) /\ UpToDate(v, r)
          /\ v # c => ~Live(v) /\ snap[v].initiatorID = c
Called(c, mk) == \A n \in Wire : n.id = mk[c] => n.body = Marker /\ n.sender = c
(* What a site has sent since it joined is red, and comes after the marker. *)
Late(c, mk, sv) ==
    {n \in Packet : IsApp(n) /\ mk[n.id[1]] = mk[c] /\ n.id \notin sv[n.id[1]].sent}
LateIsRed(c, mk, sv) ==
    /\ Behind(mk[c], Late(c, mk, sv))
    /\ \A n \in Wire : n \in Late(c, mk, sv) => n.body.color = Red
(* So nobody has received any of it before it joined. *)
Consistent(c, mk, sv) ==
    \A u \in Site : mk[u] = mk[c] => \A v \in Site :
        /\ ~Knows(v, mk[c]) => \A i \in work[v].received :
              i \in work[u].sent => i \in sv[u].sent
        /\ mk[v] = mk[c] => \A i \in sv[v].received :
              i \in work[u].sent => i \in sv[u].sent
Core(c, mk, sv, r) ==
    /\ Follow(c, mk, r) /\ Called(c, mk) /\ PassedOn(mk[c])
    /\ LateIsRed(c, mk, sv) /\ Consistent(c, mk, sv)

(* A step that lets t join the snapshot of c, and what it does to the sites *)
(* that have joined it.                                                     *)
Enters(c, t, X, wk, mk, sv2, r) ==
    /\ t # c /\ ~Knows(t, mk[c]) /\ Knows(t, mk[c])' /\ UpToDate(t, r)
    /\ wk = work[t] /\ sv2[t] = StateOf(t) /\ \A x \in X : ~IsApp(x)
    /\ IsRed(t)' /\ ~Live(t)' /\ snap'[t].initiatorID = c
Stays(c, t, X, wk, mk, sv, mk2, sv2, r) ==
    /\ mk2[c] = mk[c]
    /\ \A v \in Site : mk2[v] = mk[c] =>
          \/ /\ mk[v] = mk[c] /\ sv2[v] = sv[v]
             /\ snap'[v].myColor = snap[v].myColor
             /\ snap'[v].isInitiator = snap[v].isInitiator
             /\ snap'[v].initiatorID = snap[v].initiatorID
          \/ v = t /\ Enters(c, t, X, wk, mk, sv2, r)

LEMMA PlaceHolds ==
    ASSUME Carriage, NEW s, NEW t, NEW m, NEW q, NEW X, Adds(s, t, m, q, X),
           NEW a \in Site, NEW b \in Site, NEW k \in Places(a, b)'
    PROVE  link'[a][b][k] \in Wire \/ link'[a][b][k] \in X
  <1>1. Acts(s, t, m, q) /\ LinksTypeOK(Body) /\ Adjacent /\ Got(s, m) \subseteq Wire
    BY ActsWire DEF Adds, Carriage
  <1>2. CASE /\ Was(s, t, a, b, k) \in Places(a, b)
             /\ link'[a][b][k] = link[a][b][Was(s, t, a, b, k)]
    BY <1>2, OnWire
  <1>3. CASE link'[a][b][k] \in Elems(q)
    BY <1>1, <1>3 DEF Adds
  <1> QED BY <1>1, <1>2, <1>3, ActsWhence

LEMMA CoreKept ==
    ASSUME Base, NEW s, NEW t, NEW m, NEW q, NEW X, NEW sn, NEW wk,
           Event(s, t, m, q, X, sn, wk), Works(s, t, m, X, sn, wk),
           NEW c \in Site, NEW mk, NEW sv, NEW r, NEW mk2, NEW sv2,
           Saved(mk, sv, r), Core(c, mk, sv, r),
           Stays(c, t, X, wk, mk, sv, mk2, sv2, r)
    PROVE  Core(c, mk2, sv2, r)'
  <1> DEFINE i == mk[c]
             K == Late(c, mk, sv)
             J(v) == mk[v] = mk[c]
  <1>1. /\ t \in Site /\ Adds(s, t, m, q, X) /\ Acts(s, t, m, q) /\ Carriage
        /\ s \in Site \cup {NoSite} /\ LinksTypeOK(Body) /\ Adjacent
        /\ snap'[t] = sn /\ work'[t] = wk
        /\ \A v \in Site : v # t => snap'[v] = snap[v] /\ work'[v] = work[v]
        /\ \A v \in Site : \A j : Knows(v, j) => Knows(v, j)'
        /\ \A n : n \in Wire' => n \in Wire \/ n \in X
    BY EventFacts DEF Carriage
  <1>2. /\ Follow(c, mk, r) /\ Called(c, mk) /\ PassedOn(i)
        /\ LateIsRed(c, mk, sv) /\ Consistent(c, mk, sv)
        /\ Drawn(i) /\ i[1] = c /\ mk2[c] = i
    BY DEF Core, Follow, Stays
  <1>3. /\ \A j : Drawn(j) => Drawn(j)'
        /\ \A x \in X : ~Drawn(x.id) /\ x \in Packet /\ x.id[1] = t
    BY <1>1, AddsFacts
  <1>4. ASSUME NEW v \in Site, mk2[v] = i
        PROVE  \/ /\ J(v) /\ sv2[v] = sv[v] /\ snap'[v].myColor = snap[v].myColor
                  /\ snap'[v].isInitiator = snap[v].isInitiator
                  /\ snap'[v].initiatorID = snap[v].initiatorID
               \/ v = t /\ Enters(c, t, X, wk, mk, sv2, r)
    BY <1>4 DEF Stays
  <1>5. Follow(c, mk2, r)'
    <2>1. ASSUME NEW v \in Site, mk2[v] = mk2[c]
          PROVE  /\ IsRed(v)' /\ Knows(v, i)' /\ UpToDate(v, r)'
                 /\ v # c => ~Live(v)' /\ snap'[v].initiatorID = c
      <3>1. CASE /\ J(v) /\ snap'[v].myColor = snap[v].myColor
                 /\ snap'[v].isInitiator = snap[v].isInitiator
                 /\ snap'[v].initiatorID = snap[v].initiatorID
        <4>1. /\ IsRed(v) /\ Knows(v, i) /\ UpToDate(v, r)
              /\ v # c => ~Live(v) /\ snap[v].initiatorID = c
          BY <1>2, <3>1 DEF Follow
        <4> QED BY <1>1, <3>1, <4>1 DEF IsRed, Live, UpToDate
      <3>2. CASE v = t /\ Enters(c, t, X, wk, mk, sv2, r)
        BY <1>1, <3>2 DEF Enters, UpToDate
      <3> QED BY <1>2, <1>4, <2>1, <3>1, <3>2
    <2>2. IsRed(c)'
      BY <1>2, <2>1
    <2> QED BY <1>2, <1>3, <2>1, <2>2 DEF Follow
  <1>6. Called(c, mk2)'
    BY <1>1, <1>2, <1>3 DEF Called
  <1>7. PassedOn(i)'
    <2>1. ASSUME s \in Site, i = m.id, ~Knows(t, i) PROVE m \in Elems(q)
      <3>1. m \in Wire /\ WellSent(m) /\ m.body = Marker /\ m.sender = c
        BY <1>1, <1>2, <2>1, GotFacts DEF Called
      <3>2. m.dest = BROADCAST /\ c # t /\ m.id \notin seen[t]
        BY <1>2, <2>1, <3>1 DEF WellSent, Knows
      <3>3. IsNew(t, m) /\ Forwards(t, m)
        BY <1>1, <3>1, <3>2, NoSiteFacts DEF IsNew, Id, Forwards
      <3> QED BY <2>1, <3>3 DEF Event
    <2> QED BY <1>1, <1>2, <2>1, ActsPassedOn
  <1>8. ASSUME NEW n, n \in Wire \/ n \in X, n \in Late(c, mk2, sv2) PROVE n \in K
    <2>1. /\ n \in Packet /\ IsApp(n) /\ mk2[n.id[1]] = i
          /\ n.id \notin sv2[n.id[1]].sent /\ n.id[1] \in Site
      BY <1>2, <1>8 DEF Late, Packet, Message, Ids
    <2>2. CASE n.id[1] = t /\ Enters(c, t, X, wk, mk, sv2, r)
      <3>1. n \in Wire /\ sv2[t].sent = work[t].sent
        BY <1>8, <2>1, <2>2 DEF Enters, StateOf
      <3>2. n.id \in work[t].sent
        BY <2>1, <2>2, <3>1 DEF Base, Shipped
      <3> QED BY <2>1, <2>2, <3>1, <3>2
    <2>3. CASE J(n.id[1]) /\ sv2[n.id[1]] = sv[n.id[1]]
      BY <2>1, <2>3 DEF Late
    <2> QED BY <1>4, <2>1, <2>2, <2>3
  <1>9. ASSUME NEW n \in X, n \in K
        PROVE  Knows(t, i) /\ n.body.color = Red
    <2>1. IsApp(n) /\ J(t)
      BY <1>3, <1>9 DEF Late
    <2>2. SendsApp(s, t, X, sn, wk)
      BY <1>9, <2>1, WorkFacts
    <2>3. n.body.color = snap[t].myColor
      BY <1>9, <2>2 DEF SendsApp
    <2> QED BY <1>1, <1>2, <2>1, <2>3 DEF Follow, IsRed
  <1>10. LateIsRed(c, mk2, sv2)'
    <2>1. Behind(i, K)'
      <3>1. Behind(i, K)
        BY <1>2 DEF LateIsRed
      <3>2. \A n \in Elems(q) : n \in K => n \in Got(s, m) \/ Knows(t, i)
        BY <1>1, <1>9 DEF Adds
      <3> HIDE DEF i, K
      <3> QED BY <1>1, <1>2, <3>1, <3>2, ActsBehind
    <2>2. Behind(i, Late(c, mk2, sv2))'
      <3> SUFFICES ASSUME NEW a \in Site, NEW b \in Site, NEW k \in Places(a, b)',
                          link'[a][b][k] \in Late(c, mk2, sv2)
                   PROVE  Ahead(a, b, k, i)'
        BY DEF Behind, Late
      <3>1. link'[a][b][k] \in K
        BY <1>1, <1>8, PlaceHolds
      <3> HIDE DEF K, i
      <3> QED BY <2>1, <3>1 DEF Behind
    <2>3. ASSUME NEW n \in Wire', n \in Late(c, mk2, sv2) PROVE n.body.color = Red
      <3>1. n \in K /\ (n \in Wire \/ n \in X)
        BY <1>1, <1>8, <2>3
      <3> QED BY <1>2, <1>9, <3>1 DEF LateIsRed
    <2> QED BY <1>2, <2>2, <2>3 DEF LateIsRed, Late
  <1>11. Consistent(c, mk2, sv2)'
    <2>0. /\ \A v \in Site : \A j \in work[v].received : j \in seen[v]
          /\ \A v \in Site : \A j \in work[v].sent : j[1] = v
          /\ \A v \in Site : sv[v].received \subseteq work[v].received
      BY DEF Base, Worked, Saved
    (* What is new has been received by nobody. *)
    <2>1. ASSUME NEW u \in Site, NEW j \in work'[u].sent, NEW v \in Site,
                 j \in work[v].received \/ (GetsApp(s, t, m, X, sn, wk) /\ j = m.id)
          PROVE  j \in work[u].sent
      <3>1. CASE SendsApp(s, t, X, sn, wk) /\ \A w \in Site : j \notin seen[w]
        BY <1>1, <2>0, <2>1, <3>1, NoSiteFacts DEF SendsApp, GetsApp
      <3> QED BY <3>1, WorkFacts
    <2>2. ASSUME NEW u \in Site, mk2[u] = i, NEW v \in Site, ~Knows(v, i)',
                 NEW j \in work'[v].received, j \in work'[u].sent
          PROVE  j \in sv2[u].sent
      <3>1. j \in work[u].sent
        BY <2>1, <2>2, WorkFacts
      <3>2. CASE u = t /\ Enters(c, t, X, wk, mk, sv2, r)
        BY <3>1, <3>2 DEF Enters, StateOf
      <3>3. CASE J(u) /\ sv2[u] = sv[u] /\ j \in work[v].received
        <4>1. ~Knows(v, i)
          BY <1>1, <2>2
        <4> QED BY <1>2, <3>1, <3>3, <4>1 DEF Consistent
      <3>4. CASE J(u) /\ sv2[u] = sv[u] /\ v = t /\ j = m.id /\ GetsApp(s, t, m, X, sn, wk)
        <4> SUFFICES ASSUME j \notin sv[u].sent PROVE FALSE
          BY <3>4
        <4>1. s \in Site /\ IsApp(m)
          BY <3>4 DEF GetsApp
        <4>2. m \in Packet /\ 1 \in Places(s, t) /\ m = link[s][t][1]
          BY <1>1, <4>1, GotFacts
        <4>3. m \in K
          BY <2>0, <3>1, <3>4, <4>1, <4>2 DEF Late
        <4>4. Ahead(s, t, 1, i)
          BY <1>1, <1>2, <4>1, <4>2, <4>3 DEF LateIsRed, Behind
        <4>5. Knows(t, i)
          BY <4>4 DEF Ahead, Places
        <4> QED BY <1>1, <2>2, <3>4, <4>5
      <3> QED BY <1>4, <2>2, <3>2, <3>3, <3>4, WorkFacts
    <2>3. ASSUME NEW u \in Site, mk2[u] = i, NEW v \in Site, mk2[v] = i,
                 NEW j \in sv2[v].received, j \in work'[u].sent
          PROVE  j \in sv2[u].sent
      <3>1. j \in work[v].received
        <4>1. CASE sv2[v] = sv[v]
          BY <2>0, <2>3, <4>1
        <4>2. CASE v = t /\ Enters(c, t, X, wk, mk, sv2, r)
          BY <2>3, <4>2 DEF Enters, StateOf
        <4> QED BY <1>4, <2>3, <4>1, <4>2
      <3>2. j \in work[u].sent
        BY <2>1, <2>3, <3>1
      <3>3. CASE u = t /\ Enters(c, t, X, wk, mk, sv2, r)
        BY <3>2, <3>3 DEF Enters, StateOf
      <3>4. CASE J(u) /\ sv2[u] = sv[u] /\ J(v) /\ sv2[v] = sv[v]
        BY <1>2, <2>3, <3>2, <3>4 DEF Consistent
      <3>5. CASE J(u) /\ sv2[u] = sv[u] /\ v = t /\ Enters(c, t, X, wk, mk, sv2, r)
        BY <1>2, <2>3, <3>1, <3>2, <3>5 DEF Consistent, Enters
      <3> QED BY <1>4, <2>3, <3>3, <3>4, <3>5
    <2> QED BY <1>2, <2>2, <2>3 DEF Consistent
  <1> QED BY <1>2, <1>5, <1>6, <1>7, <1>10, <1>11 DEF Core

-----------------------------------------------------------------------------
(* What the initiator counts. *)

SentBy(states) == UNION {st.sent : st \in states}
ReceivedBy(states) == UNION {st.received : st \in states}

(* The work of the sites, and what the sites have saved of it. *)
Traffic(w) ==
    /\ w \in [Site -> WorkState]
    /\ \A v \in Site : \A i \in w[v].sent : i[1] = v
    /\ \A v \in Site : IsFiniteSet(w[v].sent) /\ IsFiniteSet(w[v].received)
    /\ \A v \in Site : \A i \in w[v].received : i[1] \in Site /\ i \in w[i[1]].sent
    /\ \A u, v \in Site : \A i \in w[u].received : i \in w[v].received => u = v
Backed(sv, w) ==
    \A v \in Site : /\ sv[v].site = v /\ sv[v].sent \subseteq w[v].sent
                    /\ sv[v].received \subseteq w[v].received
Agree(c, mk, sv, w) ==
    \A u, v \in Site : mk[u] = mk[c] /\ mk[v] = mk[c] =>
        \A i \in sv[v].received : i \in w[u].sent => i \in sv[u].sent

(* A message that was on its way when the snapshot was taken. *)
Prior(i, c, mk, sv, w) ==
    /\ \E v \in Site : mk[v] = mk[c] /\ i \in w[v].received /\ i \notin sv[v].received
    /\ i[1] \in Site /\ i \in w[i[1]].sent
    /\ mk[i[1]] = mk[c] => i \in sv[i[1]].sent
(* The counters of c fit what it has collected. *)
Tally(cn, c, mk, sv, w) ==
    /\ \A st \in cn.states : \E v \in Site : mk[v] = mk[c] /\ st = sv[v]
    /\ IsFiniteSet(cn.states) /\ IsFiniteSet(cn.preposts)
    /\ IsFiniteSet(SentBy(cn.states)) /\ IsFiniteSet(ReceivedBy(cn.states))
    /\ cn.nbEtats = Cardinality(Site) - Cardinality(cn.states)
    /\ cn.nbMsg = Cardinality(SentBy(cn.states)) - Cardinality(ReceivedBy(cn.states))
                  - Cardinality(cn.preposts)
    /\ \A i \in cn.preposts : Prior(i, c, mk, sv, w)

(* A site is counted once: when no state is missing all sites have joined. *)
LEMMA TallyStates ==
    ASSUME NEW cn, NEW c \in Site, NEW mk, NEW sv, NEW w, Tally(cn, c, mk, sv, w),
           Backed(sv, w)
    PROVE  /\ cn.nbEtats \in Nat
           /\ cn.nbEtats = 0 => /\ \A v \in Site : mk[v] = mk[c] /\ sv[v] \in cn.states
                                /\ \A st \in cn.states : \E v \in Site : st = sv[v]
  <1> DEFINE f == [st \in cn.states |-> st.site]
  <1>1. \A st \in cn.states : st.site \in Site /\ mk[st.site] = mk[c] /\ st = sv[st.site]
    BY DEF Tally, Backed
  <1>2. f \in Injection(cn.states, Site)
    <2>1. f \in [cn.states -> Site]
      BY <1>1
    <2>2. \A a, b \in cn.states : f[a] = f[b] => a = b
      BY <1>1
    <2> QED BY <2>1, <2>2 DEF Injection, IsInjective
  <1>3. /\ IsFiniteSet(cn.states) /\ Cardinality(cn.states) <= Cardinality(Site)
        /\ Cardinality(cn.states) = Cardinality(Site) => f \in Surjection(cn.states, Site)
    BY <1>2, SiteFinite, FS_Injection
  <1>4. Cardinality(cn.states) \in Nat /\ Cardinality(Site) \in Nat
    BY <1>3, SiteFinite, FS_CardinalityType
  <1>5. cn.nbEtats = Cardinality(Site) - Cardinality(cn.states)
    BY DEF Tally
  <1>6. ASSUME cn.nbEtats = 0, NEW v \in Site PROVE mk[v] = mk[c] /\ sv[v] \in cn.states
    <2>1. f \in Surjection(cn.states, Site)
      BY <1>3, <1>4, <1>5, <1>6
    <2>2. PICK st \in cn.states : f[st] = v
      BY <2>1 DEF Surjection
    <2> QED BY <1>1, <2>2
  <1> QED BY <1>1, <1>3, <1>4, <1>5, <1>6

(* Then the messages that are missing are those that the balances leave. *)
LEMMA TallyMessages ==
    ASSUME NEW cn, NEW c \in Site, NEW mk, NEW sv, NEW w, Tally(cn, c, mk, sv, w),
           Traffic(w), Backed(sv, w), Agree(c, mk, sv, w), cn.nbEtats = 0,
           NEW S, S = SentBy(cn.states), NEW R, R = ReceivedBy(cn.states)
    PROVE  /\ R \subseteq S
           /\ \A i : Prior(i, c, mk, sv, w) => i \in S \ R
           /\ IsFiniteSet((S \ R) \ cn.preposts)
           /\ cn.nbMsg = Cardinality((S \ R) \ cn.preposts)
  <1>1. /\ \A v \in Site : mk[v] = mk[c] /\ sv[v] \in cn.states
        /\ \A st \in cn.states : \E v \in Site : st = sv[v]
    BY TallyStates
  <1>2. /\ \A i : i \in S <=> \E v \in Site : i \in sv[v].sent
        /\ \A i : i \in R <=> \E v \in Site : i \in sv[v].received
    BY <1>1 DEF SentBy, ReceivedBy
  <1>3. ASSUME NEW i \in R PROVE i \in S
    <2>1. PICK v \in Site : i \in sv[v].received
      BY <1>2
    <2>2. i \in w[v].received
      BY <2>1 DEF Backed
    <2>3. i[1] \in Site /\ i \in w[i[1]].sent
      BY <2>2 DEF Traffic
    <2>4. i \in sv[i[1]].sent
      BY <1>1, <2>1, <2>3 DEF Agree
    <2> QED BY <1>2, <2>3, <2>4
  <1>4. ASSUME NEW i, Prior(i, c, mk, sv, w) PROVE i \in S \ R
    <2>1. PICK v \in Site : i \in w[v].received /\ i \notin sv[v].received
      BY <1>4 DEF Prior
    <2>2. i[1] \in Site /\ i \in sv[i[1]].sent
      BY <1>1, <1>4 DEF Prior
    <2>3. ASSUME NEW u \in Site, i \in sv[u].received PROVE FALSE
      <3>1. i \in w[u].received
        BY <2>3 DEF Backed
      <3>2. u = v
        BY <2>1, <3>1 DEF Traffic
      <3> QED BY <2>1, <2>3, <3>2
    <2> QED BY <1>2, <2>2, <2>3
  <1>5. cn.preposts \subseteq S \ R
    BY <1>4 DEF Tally
  <1>6. /\ IsFiniteSet(S) /\ IsFiniteSet(R) /\ IsFiniteSet(cn.preposts)
        /\ cn.nbMsg = Cardinality(S) - Cardinality(R) - Cardinality(cn.preposts)
    BY DEF Tally
  <1>7. /\ IsFiniteSet(S \ R) /\ Cardinality(S \ R) = Cardinality(S) - Cardinality(S \cap R)
    BY <1>6, FS_Difference
  <1>8. /\ IsFiniteSet((S \ R) \ cn.preposts)
        /\ Cardinality((S \ R) \ cn.preposts) =
              Cardinality(S \ R) - Cardinality((S \ R) \cap cn.preposts)
    BY <1>7, FS_Difference
  <1>9. S \cap R = R /\ (S \ R) \cap cn.preposts = cn.preposts
    BY <1>3, <1>5
  <1>10. /\ Cardinality(S) \in Nat /\ Cardinality(R) \in Nat
         /\ Cardinality(cn.preposts) \in Nat
    BY <1>6, FS_CardinalityType
  <1>11. cn.nbMsg = Cardinality((S \ R) \ cn.preposts)
    BY <1>6, <1>7, <1>8, <1>9, <1>10
  <1> QED BY <1>3, <1>4, <1>8, <1>11

(* A prepost that has not been counted is waited for. *)
LEMMA TallyWaits ==
    ASSUME NEW cn, NEW c \in Site, NEW mk, NEW sv, NEW w, Tally(cn, c, mk, sv, w),
           Traffic(w), Backed(sv, w), Agree(c, mk, sv, w),
           NEW i, Prior(i, c, mk, sv, w), i \notin cn.preposts
    PROVE  Counting(cn)
  <1>1. cn.nbEtats \in Nat
    BY TallyStates
  <1>2. CASE cn.nbEtats = 0
    <2> DEFINE S == SentBy(cn.states)
               R == ReceivedBy(cn.states)
               D == (S \ R) \ cn.preposts
    <2>1. i \in D /\ IsFiniteSet(D) /\ cn.nbMsg = Cardinality(D)
      BY <1>2, TallyMessages
    <2> HIDE DEF D
    <2>2. Cardinality(D) \in Nat /\ Cardinality(D) # 0
      BY <2>1, FS_CardinalityType, FS_EmptySet
    <2> QED BY <2>1, <2>2 DEF Counting
  <1>3. CASE cn.nbEtats # 0
    BY <1>1, <1>3 DEF Counting
  <1> QED BY <1>2, <1>3

LEMMA TallyPrepost ==
    ASSUME NEW cn \in SnapshotState, NEW c \in Site, NEW mk, NEW sv, NEW w,
           Tally(cn, c, mk, sv, w), Counting(cn),
           NEW i \in Ids, Prior(i, c, mk, sv, w), i \notin cn.preposts
    PROVE  Tally(WithPrepost(cn, i), c, mk, sv, w)
  <1> DEFINE dn == [cn EXCEPT !.nbMsg = @ - 1, !.preposts = @ \cup {i}]
  <1>1. WithPrepost(cn, i) = dn
    BY DEF WithPrepost
  <1>2. /\ dn.states = cn.states /\ dn.nbEtats = cn.nbEtats
        /\ dn.nbMsg = cn.nbMsg - 1 /\ dn.preposts = cn.preposts \cup {i}
    BY DEF SnapshotState
  <1>3. IsFiniteSet(cn.preposts)
    BY DEF Tally
  <1>4. /\ IsFiniteSet(cn.preposts \cup {i})
        /\ Cardinality(cn.preposts \cup {i}) = Cardinality(cn.preposts) + 1
    BY <1>3, FS_AddElement
  <1>5. /\ Cardinality(SentBy(cn.states)) \in Nat
        /\ Cardinality(ReceivedBy(cn.states)) \in Nat
        /\ Cardinality(cn.preposts) \in Nat
    BY FS_CardinalityType DEF Tally
  <1> HIDE DEF dn
  <1>6. dn.nbMsg = Cardinality(SentBy(dn.states)) - Cardinality(ReceivedBy(dn.states))
                   - Cardinality(dn.preposts)
    BY <1>2, <1>4, <1>5 DEF Tally
  <1>7. \A j \in dn.preposts : Prior(j, c, mk, sv, w)
    BY <1>2 DEF Tally
  <1> QED BY <1>1, <1>2, <1>4, <1>6, <1>7 DEF Tally

LEMMA TallyState ==
    ASSUME NEW cn \in SnapshotState, NEW c \in Site, NEW mk, NEW sv, NEW w,
           Tally(cn, c, mk, sv, w), Traffic(w), Backed(sv, w),
           NEW v \in Site, mk[v] = mk[c], sv[v] \notin cn.states,
           NEW dn, dn = [cn EXCEPT !.nbEtats = @ - 1,
                            !.nbMsg = @ + (Cardinality(sv[v].sent) - Cardinality(sv[v].received)),
                            !.states = @ \cup {sv[v]}]
    PROVE  Tally(dn, c, mk, sv, w)
  <1> DEFINE S == SentBy(cn.states)
             R == ReceivedBy(cn.states)
             a == sv[v].sent
             b == sv[v].received
  <1>1. /\ dn.states = cn.states \cup {sv[v]} /\ dn.nbEtats = cn.nbEtats - 1
        /\ dn.nbMsg = cn.nbMsg + (Cardinality(a) - Cardinality(b))
        /\ dn.preposts = cn.preposts
    BY DEF SnapshotState
  <1>2. /\ IsFiniteSet(cn.states) /\ IsFiniteSet(S) /\ IsFiniteSet(R)
        /\ IsFiniteSet(cn.preposts)
        /\ \A st \in cn.states : \E u \in Site : mk[u] = mk[c] /\ st = sv[u]
    BY DEF Tally
  <1>3. IsFiniteSet(a) /\ IsFiniteSet(b)
    <2>1. /\ IsFiniteSet(w[v].sent) /\ IsFiniteSet(w[v].received)
          /\ a \in SUBSET w[v].sent /\ b \in SUBSET w[v].received
      BY DEF Traffic, Backed
    <2> QED BY <2>1, FS_Subset
  <1>4. SentBy(dn.states) = S \cup a /\ ReceivedBy(dn.states) = R \cup b
    BY <1>1 DEF SentBy, ReceivedBy
  <1>5. S \cap a = {} /\ R \cap b = {}
    <2>1. ASSUME NEW st \in cn.states, NEW i, (i \in st.sent /\ i \in a) \/
                                              (i \in st.received /\ i \in b)
          PROVE  FALSE
      <3>1. PICK u \in Site : st = sv[u]
        BY <1>2
      <3>2. u # v
        BY <2>1, <3>1
      <3>3. CASE i \in st.sent /\ i \in a
        <4>1. i \in w[u].sent /\ i \in w[v].sent
          BY <3>1, <3>3 DEF Backed
        <4> QED BY <3>2, <4>1 DEF Traffic
      <3>4. CASE i \in st.received /\ i \in b
        <4>1. i \in w[u].received /\ i \in w[v].received
          BY <3>1, <3>4 DEF Backed
        <4> QED BY <3>2, <4>1 DEF Traffic
      <3> QED BY <2>1, <3>3, <3>4
    <2> QED BY <2>1 DEF SentBy, ReceivedBy
  <1> HIDE DEF S, R, a, b
  <1>6. /\ IsFiniteSet(S \cup a) /\ IsFiniteSet(R \cup b)
        /\ Cardinality(S \cup a) = Cardinality(S) + Cardinality(a)
        /\ Cardinality(R \cup b) = Cardinality(R) + Cardinality(b)
    <2>1. /\ Cardinality(S \cup a) = Cardinality(S) + Cardinality(a) - Cardinality(S \cap a)
          /\ Cardinality(R \cup b) = Cardinality(R) + Cardinality(b) - Cardinality(R \cap b)
          /\ IsFiniteSet(S \cup a) /\ IsFiniteSet(R \cup b)
      BY <1>2, <1>3, FS_Union
    <2>2. Cardinality(S \cap a) = 0 /\ Cardinality(R \cap b) = 0
      BY <1>5, FS_EmptySet
    <2>3. /\ Cardinality(S) \in Nat /\ Cardinality(a) \in Nat
          /\ Cardinality(R) \in Nat /\ Cardinality(b) \in Nat
      BY <1>2, <1>3, FS_CardinalityType
    <2> QED BY <2>1, <2>2, <2>3
  <1>7. /\ IsFiniteSet(cn.states \cup {sv[v]})
        /\ Cardinality(cn.states \cup {sv[v]}) = Cardinality(cn.states) + 1
    BY <1>2, FS_AddElement
  <1>8. /\ Cardinality(S) \in Nat /\ Cardinality(a) \in Nat
        /\ Cardinality(R) \in Nat /\ Cardinality(b) \in Nat
        /\ Cardinality(cn.preposts) \in Nat /\ Cardinality(cn.states) \in Nat
        /\ Cardinality(Site) \in Nat
    BY <1>2, <1>3, SiteFinite, FS_CardinalityType
  <1>9. /\ cn.nbEtats = Cardinality(Site) - Cardinality(cn.states)
        /\ cn.nbMsg = Cardinality(S) - Cardinality(R) - Cardinality(cn.preposts)
        /\ \A i \in cn.preposts : Prior(i, c, mk, sv, w)
    BY DEF Tally, S, R
  <1>10. dn.nbEtats = Cardinality(Site) - Cardinality(dn.states)
    BY <1>1, <1>7, <1>8, <1>9
  <1>11. dn.nbMsg = Cardinality(SentBy(dn.states)) - Cardinality(ReceivedBy(dn.states))
                    - Cardinality(dn.preposts)
    <2>1. dn.nbMsg = (Cardinality(S) - Cardinality(R) - Cardinality(cn.preposts))
                     + (Cardinality(a) - Cardinality(b))
      BY <1>1, <1>9
    <2>2. dn.nbMsg = (Cardinality(S) + Cardinality(a)) - (Cardinality(R) + Cardinality(b))
                     - Cardinality(cn.preposts)
      BY <1>8, <2>1
    <2>3. dn.nbMsg = Cardinality(S \cup a) - Cardinality(R \cup b) - Cardinality(dn.preposts)
      BY <1>1, <1>6, <2>2
    <2> QED BY <1>4, <2>3
  <1> QED BY <1>1, <1>2, <1>4, <1>6, <1>7, <1>9, <1>10, <1>11 DEF Tally


(* Sites that join a snapshot, and messages that the sites send and        *)
(* receive, leave what has been counted as it is.                          *)
Lasts(c, mk, sv, w, mk2, sv2, w2) ==
    /\ mk2[c] = mk[c]
    /\ \A v \in Site : /\ w[v].sent \subseteq w2[v].sent
                       /\ w[v].received \subseteq w2[v].received
                       /\ mk[v] = mk[c] => mk2[v] = mk[c] /\ sv2[v] = sv[v]
                       /\ mk2[v] = mk[c] => mk[v] = mk[c] \/ sv2[v].sent = w[v].sent

LEMMA PriorKept ==
    ASSUME NEW c \in Site, NEW mk, NEW sv, NEW w, NEW mk2, NEW sv2, NEW w2,
           Lasts(c, mk, sv, w, mk2, sv2, w2), NEW i, Prior(i, c, mk, sv, w)
    PROVE  Prior(i, c, mk2, sv2, w2)
  <1>1. \E v \in Site : mk2[v] = mk2[c] /\ i \in w2[v].received /\ i \notin sv2[v].received
    BY DEF Prior, Lasts
  <1>2. i[1] \in Site /\ i \in w[i[1]].sent /\ i \in w2[i[1]].sent
    BY DEF Prior, Lasts
  <1>3. mk2[i[1]] = mk2[c] => i \in sv2[i[1]].sent
    BY <1>2 DEF Prior, Lasts
  <1> QED BY <1>1, <1>2, <1>3 DEF Prior

LEMMA TallyKept ==
    ASSUME NEW c \in Site, NEW mk, NEW sv, NEW w, NEW mk2, NEW sv2, NEW w2,
           Lasts(c, mk, sv, w, mk2, sv2, w2), NEW cn, Tally(cn, c, mk, sv, w)
    PROVE  Tally(cn, c, mk2, sv2, w2)
  <1>1. \A st \in cn.states : \E v \in Site : mk2[v] = mk2[c] /\ st = sv2[v]
    BY DEF Tally, Lasts
  <1>2. \A i \in cn.preposts : Prior(i, c, mk2, sv2, w2)
    BY PriorKept DEF Tally
  <1> QED BY <1>1, <1>2 DEF Tally

(* The balance is not one of the counters. *)
LEMMA TallySame ==
    ASSUME NEW cn, NEW dn, dn.states = cn.states, dn.preposts = cn.preposts,
           dn.nbEtats = cn.nbEtats, dn.nbMsg = cn.nbMsg,
           NEW c, NEW mk, NEW sv, NEW w, Tally(cn, c, mk, sv, w)
    PROVE  Tally(dn, c, mk, sv, w)
  BY DEF Tally

-----------------------------------------------------------------------------
(* The invariant of the snapshot in progress. *)

(* What is on its way to an initiator fits its counters, and is there once. *)
Awaited(n) == n.dest \in Site /\ ~Knows(n.dest, n.id)
StateFits(n, mk, sv) ==
    /\ Live(n.dest) /\ mk[n.id[1]] = mk[n.dest] /\ n.body.state = sv[n.id[1]]
    /\ n.body.bilan =
          Cardinality(sv[n.id[1]].sent) - Cardinality(sv[n.id[1]].received)
    /\ sv[n.id[1]] \notin snap[n.dest].states
PrepostFits(n, mk, sv) ==
    /\ Live(n.dest) /\ Prior(n.body.item, n.dest, mk, sv, work)
    /\ n.body.item \notin snap[n.dest].preposts
Fits(n, mk, sv) ==
    (IsState(n) => StateFits(n, mk, sv)) /\ (IsPrepost(n) => PrepostFits(n, mk, sv))
Same(n, o) ==
    \/ IsState(n) /\ IsState(o) /\ n.id[1] = o.id[1]
    \/ IsPrepost(n) /\ IsPrepost(o) /\ n.body.item = o.body.item
Collected(mk, sv) ==
    \A n \in Wire : Awaited(n) =>
        /\ Fits(n, mk, sv)
        /\ \A o \in Wire : Awaited(o) /\ o.dest = n.dest /\ Same(n, o) => o = n

AllKnow(i) == \A v \in Site : Knows(v, i)
(* A marker that somebody has not seen is the one of an initiator. *)
Marks(mk) ==
    \A n \in Wire : n.body = Marker /\ n.sender \in Site =>
        AllKnow(n.id) \/ (Live(n.sender) /\ n.id = mk[n.sender])
(* The last reset comes before what was sent white since. *)
WhiteSince(cut) == {n \in Packet : IsApp(n) /\ n.body.color = White /\ n.id \notin cut}
Resets(r, cut) ==
    /\ \A n \in Wire : n.body = Reset => n.id = r \/ AllKnow(n.id)
    /\ r # NoId => /\ PassedOn(r) /\ Behind(r, WhiteSince(cut))
                   /\ \A n \in Wire : n.id = r => n.body = Reset
    /\ \A i \in cut : \E v \in Site : i \in work[v].received
(* Who has not heard of the last reset is red, who has heard of it and is   *)
(* red follows an initiator, unless his marker came from nobody.           *)
Trails(v, c, mk) == c = NoSite \/ (c \in Site /\ Live(c) /\ mk[v] = mk[c])
Hue(v, mk, r) ==
    /\ UpToDate(v, r) /\ IsRed(v) /\ ~Live(v) => Trails(v, snap[v].initiatorID, mk)
    /\ ~UpToDate(v, r) => IsRed(v) /\ ~Live(v)

Progress(mk, sv, r, cut) ==
    /\ Saved(mk, sv, r)
    /\ \A c \in Site : Live(c) => Core(c, mk, sv, r) /\ Tally(snap[c], c, mk, sv, work)
    /\ Collected(mk, sv) /\ Marks(mk) /\ Resets(r, cut)
    /\ \A v \in Site : Hue(v, mk, r)

(* A step lets t alone join a snapshot, or start one. *)
Renewed(t, mk, sv, mk2, sv2) ==
    /\ mk2 \in [Site -> Ids \cup {NoId}] /\ sv2 \in [Site -> SiteState]
    /\ \A v \in Site : v # t => mk2[v] = mk[v] /\ sv2[v] = sv[v]
    /\ \/ mk2[t] = mk[t] /\ sv2[t] = sv[t]
       \/ /\ ~IsRed(t) /\ Drawn(mk2[t])' /\ sv2[t] = StateOf(t) /\ work'[t] = work[t]


LEMMA SavedKept ==
    ASSUME Base, NEW s, NEW t, NEW m, NEW q, NEW X, NEW sn, NEW wk,
           Event(s, t, m, q, X, sn, wk), Works(s, t, m, X, sn, wk),
           NEW mk, NEW sv, NEW r, NEW mk2, NEW sv2, NEW r2, Saved(mk, sv, r),
           Renewed(t, mk, sv, mk2, sv2), r2 = r \/ Drawn(r2)'
    PROVE  Saved(mk2, sv2, r2)'
  <1>1. t \in Site /\ \A i : Drawn(i) => Drawn(i)'
    BY EventFacts, AddsFacts
  <1>2. \A v \in Site : /\ work[v].sent \subseteq work'[v].sent
                        /\ work[v].received \subseteq work'[v].received
    BY WorkFacts
  <1>3. r2 = NoId \/ Drawn(r2)'
    BY <1>1 DEF Saved
  <1>4. ASSUME NEW v \in Site
        PROVE  /\ mk2[v] = NoId \/ Drawn(mk2[v])'
               /\ sv2[v].site = v /\ sv2[v].sent \subseteq work'[v].sent
               /\ sv2[v].received \subseteq work'[v].received
    <2>1. CASE mk2[v] = mk[v] /\ sv2[v] = sv[v]
      BY <1>1, <1>2, <2>1 DEF Saved
    <2>2. CASE /\ v = t /\ Drawn(mk2[t])' /\ sv2[t] = StateOf(t) /\ work'[t] = work[t]
      BY <2>2 DEF StateOf
    <2> QED BY <2>1, <2>2 DEF Renewed
  <1> QED BY <1>3, <1>4 DEF Saved, Renewed

(* A snapshot in progress goes on when its initiator does. *)
Steady(t) ==
    /\ snap'[t].myColor = snap[t].myColor /\ snap'[t].isInitiator = snap[t].isInitiator
    /\ snap'[t].initiatorID = snap[t].initiatorID
LEMMA LiveKept ==
    ASSUME Base, NEW s, NEW t, NEW m, NEW q, NEW X, NEW sn, NEW wk,
           Event(s, t, m, q, X, sn, wk), Works(s, t, m, X, sn, wk),
           NEW c \in Site, NEW mk, NEW sv, NEW r, NEW mk2, NEW sv2,
           Saved(mk, sv, r), Core(c, mk, sv, r), Renewed(t, mk, sv, mk2, sv2),
           mk[t] = mk[c] => Steady(t),
           mk2[t] = mk[c] /\ mk[t] # mk[c] => Enters(c, t, X, wk, mk, sv2, r)
    PROVE  /\ Core(c, mk2, sv2, r)'
           /\ Lasts(c, mk, sv, work, mk2, sv2, work')
  <1>1. /\ t \in Site
        /\ \A v \in Site : v # t => snap'[v] = snap[v]
    BY EventFacts
  <1>2. \A v \in Site : mk[v] = mk[c] => IsRed(v)
    BY DEF Core, Follow
  <1>3. mk[t] = mk[c] => mk2[t] = mk[t] /\ sv2[t] = sv[t]
    BY <1>1, <1>2 DEF Renewed
  <1>4. mk2[c] = mk[c]
    BY <1>3 DEF Renewed
  <1>5. ASSUME NEW v \in Site, mk2[v] = mk[c]
        PROVE  \/ /\ mk[v] = mk[c] /\ sv2[v] = sv[v]
                  /\ snap'[v].myColor = snap[v].myColor
                  /\ snap'[v].isInitiator = snap[v].isInitiator
                  /\ snap'[v].initiatorID = snap[v].initiatorID
               \/ v = t /\ Enters(c, t, X, wk, mk, sv2, r)
    <2>1. CASE v # t
      <3>1. mk2[v] = mk[v] /\ sv2[v] = sv[v]
        BY <2>1 DEF Renewed
      <3> QED BY <1>1, <1>5, <2>1, <3>1
    <2>2. CASE v = t /\ mk[t] = mk[c]
      BY <1>3, <2>2 DEF Steady
    <2>3. CASE v = t /\ mk[t] # mk[c]
      BY <1>5, <2>3
    <2> QED BY <2>1, <2>2, <2>3
  <1>6. Stays(c, t, X, wk, mk, sv, mk2, sv2, r)
    BY <1>4, <1>5 DEF Stays
  <1>7. Core(c, mk2, sv2, r)'
    BY <1>6, CoreKept
  <1>8. ASSUME NEW v \in Site
        PROVE  /\ work[v].sent \subseteq work'[v].sent
               /\ work[v].received \subseteq work'[v].received
               /\ mk[v] = mk[c] => mk2[v] = mk[c] /\ sv2[v] = sv[v]
               /\ mk2[v] = mk[c] => mk[v] = mk[c] \/ sv2[v].sent = work[v].sent
    <2>1. mk[v] = mk[c] => mk2[v] = mk[c] /\ sv2[v] = sv[v]
      BY <1>3 DEF Renewed
    <2>2. mk2[v] = mk[c] => mk[v] = mk[c] \/ sv2[v].sent = work[v].sent
      BY <1>5 DEF Enters, StateOf
    <2> QED BY <2>1, <2>2, WorkFacts
  <1> QED BY <1>4, <1>7, <1>8 DEF Lasts

LEMMA MarksKept ==
    ASSUME Base, NEW s, NEW t, NEW m, NEW q, NEW X, NEW sn, NEW wk,
           Event(s, t, m, q, X, sn, wk), NEW mk, NEW mk2, Marks(mk),
           \A c \in Site : Live(c) => Live(c)' /\ mk2[c] = mk[c],
           \A x \in X : x.body = Marker /\ x.sender \in Site =>
              Live(x.sender)' /\ x.id = mk2[x.sender]
    PROVE  Marks(mk2)'
  <1> SUFFICES ASSUME NEW n \in Wire', n.body = Marker, n.sender \in Site
               PROVE  AllKnow(n.id)' \/ (Live(n.sender)' /\ n.id = mk2[n.sender])
    BY DEF Marks
  <1>1. n \in Wire \/ n \in X
    BY EventFacts
  <1>2. AllKnow(n.id) => AllKnow(n.id)'
    BY EventFacts DEF AllKnow
  <1> QED BY <1>1, <1>2 DEF Marks

LEMMA ResetsKept ==
    ASSUME Base, NEW s, NEW t, NEW m, NEW q, NEW X, NEW sn, NEW wk,
           Event(s, t, m, q, X, sn, wk), Works(s, t, m, X, sn, wk),
           NEW mk, NEW sv, NEW r, NEW cut, Progress(mk, sv, r, cut),
           \A x \in X : x.body # Reset
    PROVE  Resets(r, cut)'
  <1>1. /\ t \in Site /\ Adds(s, t, m, q, X) /\ Acts(s, t, m, q) /\ Carriage
        /\ s \in Site \cup {NoSite} /\ LinksTypeOK(Body) /\ Adjacent
        /\ \A v \in Site : \A j : Knows(v, j) => Knows(v, j)'
        /\ \A n : n \in Wire' => n \in Wire \/ n \in X
    BY EventFacts DEF Carriage
  <1>2. /\ \A n \in Wire : n.body = Reset => n.id = r \/ AllKnow(n.id)
        /\ r # NoId => /\ PassedOn(r) /\ Behind(r, WhiteSince(cut))
                       /\ \A n \in Wire : n.id = r => n.body = Reset
        /\ \A i \in cut : \E v \in Site : i \in work[v].received
    BY DEF Progress, Resets
  <1>3. \A x \in X : ~Drawn(x.id)
    BY <1>1, AddsFacts
  <1>4. \A n \in Wire' : n.body = Reset => n.id = r \/ AllKnow(n.id)'
    BY <1>1, <1>2 DEF AllKnow
  <1>5. \A i \in cut : \E v \in Site : i \in work'[v].received
    BY <1>2, WorkFacts
  <1>6. ASSUME r # NoId
        PROVE  /\ PassedOn(r)' /\ Behind(r, WhiteSince(cut))'
               /\ \A n \in Wire' : n.id = r => n.body = Reset
    <2>1. Drawn(r)
      BY <1>6 DEF Progress, Saved
    <2>2. \A n \in Wire' : n.id = r => n.body = Reset
      BY <1>1, <1>2, <1>3, <1>6, <2>1
    <2>3. ASSUME s \in Site, r = m.id, ~Knows(t, r) PROVE m \in Elems(q)
      <3>1. m \in Wire /\ WellSent(m) /\ m.body = Reset
        BY <1>1, <1>2, <1>6, <2>3, GotFacts
      <3>2. m.dest = BROADCAST /\ m.sender = m.id[1] /\ m.id[1] # t /\ m.id \notin seen[t]
        BY <2>3, <3>1 DEF WellSent, Knows, Marker, Reset
      <3>3. IsNew(t, m) /\ Forwards(t, m)
        BY <1>1, <3>1, <3>2, NoSiteFacts DEF IsNew, Id, Forwards
      <3> QED BY <2>3, <3>3 DEF Event
    <2>4. PassedOn(r)'
      BY <1>1, <1>2, <1>6, <2>3, ActsPassedOn
    <2>5. ASSUME NEW n \in Elems(q), n \in WhiteSince(cut)
          PROVE  n \in Got(s, m) \/ Knows(t, r)
      <3>1. CASE n \in X
        <4>1. SendsApp(s, t, X, sn, wk)
          BY <2>5, <3>1, WorkFacts DEF WhiteSince
        <4>2. ~IsRed(t)
          BY <2>5, <3>1, <4>1 DEF SendsApp, WhiteSince, IsRed, White, Red
        <4>3. UpToDate(t, r)
          BY <1>1, <4>2 DEF Progress, Hue
        <4> QED BY <1>6, <4>3 DEF UpToDate
      <3> QED BY <1>1, <2>5, <3>1 DEF Adds
    <2>6. Behind(r, WhiteSince(cut))'
      <3> DEFINE K == WhiteSince(cut)
      <3>1. Behind(r, K) /\ PassedOn(r) /\ \A n \in Elems(q) : n \in K => n \in Got(s, m) \/ Knows(t, r)
        BY <1>2, <1>6, <2>5
      <3>2. K' = K
        BY DEF WhiteSince
      <3> HIDE DEF K
      <3>3. Behind(r, K)'
        BY <1>1, <3>1, <3>2, ActsBehind
      <3> QED BY <3>2, <3>3 DEF K
    <2> QED BY <2>2, <2>4, <2>6
  <1> QED BY <1>4, <1>5, <1>6 DEF Resets, WhiteSince


LEMMA HueKept ==
    ASSUME Base, NEW s, NEW t, NEW m, NEW q, NEW X, NEW sn, NEW wk,
           Event(s, t, m, q, X, sn, wk), NEW mk, NEW sv, NEW r, NEW mk2, NEW sv2,
           Renewed(t, mk, sv, mk2, sv2),
           \A c \in Site : Live(c) => Live(c)' /\ mk2[c] = mk[c],
           NEW v \in Site, v # t, Hue(v, mk, r)
    PROVE  Hue(v, mk2, r)'
  <1>1. snap'[v] = snap[v] /\ Acts(s, t, m, q) /\ LinksTypeOK(Body)
    BY EventFacts DEF Carriage
  <1>2. Knows(v, r)' <=> Knows(v, r)
    BY <1>1, ActsKnows
  <1>3. mk2[v] = mk[v]
    BY DEF Renewed
  <1>4. /\ UpToDate(v, r)' <=> UpToDate(v, r)
        /\ IsRed(v)' <=> IsRed(v)
        /\ Live(v)' <=> Live(v)
    BY <1>1, <1>2 DEF UpToDate, IsRed, Live
  <1>5. ASSUME UpToDate(v, r)', IsRed(v)', ~Live(v)'
        PROVE  Trails(v, snap[v].initiatorID, mk2)'
    <2>1. PICK c : c = snap[v].initiatorID
      OBVIOUS
    <2>2. Trails(v, c, mk)
      BY <1>4, <1>5, <2>1 DEF Hue
    <2>3. Trails(v, c, mk2)'
      BY <1>3, <2>2 DEF Trails
    <2> QED BY <1>1, <2>1, <2>3
  <1>6. ~UpToDate(v, r)' => IsRed(v)' /\ ~Live(v)'
    BY <1>4 DEF Hue
  <1> QED BY <1>5, <1>6 DEF Hue

(* No initiator ends its snapshot. *)
LEMMA ProgressKept ==
    ASSUME Base, NEW s, NEW t, NEW m, NEW q, NEW X, NEW sn, NEW wk,
           Event(s, t, m, q, X, sn, wk), Works(s, t, m, X, sn, wk),
           NEW mk, NEW sv, NEW r, NEW cut, Progress(mk, sv, r, cut),
           NEW mk2, NEW sv2, Renewed(t, mk, sv, mk2, sv2),
           Live(t) => Live(t)',
           \A c \in Site : Live(c) =>
              /\ mk[t] = mk[c] => Steady(t)
              /\ mk2[t] = mk[c] /\ mk[t] # mk[c] => Enters(c, t, X, wk, mk, sv2, r),
           Live(t)' => /\ Live(t) \/ Core(t, mk2, sv2, r)'
                       /\ Tally(sn, t, mk2, sv2, work'),
           \A x \in X : x.body # Reset,
           \A x \in X : x.body = Marker /\ x.sender \in Site =>
              Live(x.sender)' /\ x.id = mk2[x.sender],
           Hue(t, mk2, r)',
           \A n \in Wire : Awaited(n)' /\ Live(t) /\ n.dest = t /\ Fits(n, mk, sv) =>
              /\ IsState(n) => sv[n.id[1]] \notin sn.states
              /\ IsPrepost(n) => n.body.item \notin sn.preposts,
           \A x \in X : Awaited(x)' => Fits(x, mk2, sv2)',
           \A x \in X, n \in Wire :
              Awaited(x)' /\ Awaited(n) /\ Fits(n, mk, sv) /\ n.dest = x.dest =>
              ~Same(x, n)
    PROVE  Progress(mk2, sv2, r, cut)'
  <1>1. /\ t \in Site /\ snap'[t] = sn /\ Adds(s, t, m, q, X) /\ Carriage
        /\ \A v \in Site : v # t => snap'[v] = snap[v]
        /\ \A v \in Site : \A j : Knows(v, j) => Knows(v, j)'
        /\ \A n : n \in Wire' => n \in Wire \/ n \in X
    BY EventFacts
  <1>2. /\ Saved(mk, sv, r) /\ Collected(mk, sv) /\ Marks(mk) /\ Resets(r, cut)
        /\ \A c \in Site : Live(c) => Core(c, mk, sv, r) /\ Tally(snap[c], c, mk, sv, work)
        /\ \A v \in Site : Hue(v, mk, r)
    BY DEF Progress
  <1>3. Saved(mk2, sv2, r)'
    BY <1>2, SavedKept
  <1>4. ASSUME NEW c \in Site, Live(c)
        PROVE  /\ Core(c, mk2, sv2, r)' /\ Lasts(c, mk, sv, work, mk2, sv2, work')
               /\ Live(c)' /\ mk2[c] = mk[c]
    <2>1. Core(c, mk2, sv2, r)' /\ Lasts(c, mk, sv, work, mk2, sv2, work')
      BY <1>2, <1>4, LiveKept
    <2>2. Live(c)'
      BY <1>1, <1>4 DEF Live
    <2> QED BY <2>1, <2>2 DEF Lasts
  <1>5. ASSUME NEW c \in Site, Live(c)'
        PROVE  Core(c, mk2, sv2, r)' /\ Tally(snap'[c], c, mk2, sv2, work')
    <2>1. CASE c = t
      BY <1>1, <1>4, <1>5, <2>1
    <2>2. CASE c # t
      <3>1. Live(c) /\ snap'[c] = snap[c]
        BY <1>1, <1>5, <2>2 DEF Live
      <3>2. Tally(snap[c], c, mk2, sv2, work')
        BY <1>2, <1>4, <3>1, TallyKept
      <3> QED BY <1>4, <3>1, <3>2
    <2> QED BY <2>1, <2>2
  <1>6. Marks(mk2)'
    BY <1>2, <1>4, MarksKept
  <1>7. Resets(r, cut)'
    BY ResetsKept
  <1>8. \A v \in Site : Hue(v, mk2, r)'
    BY <1>2, <1>4, HueKept
  <1>9. ASSUME NEW n \in Wire, Awaited(n)' PROVE Awaited(n) /\ Fits(n, mk, sv)
    BY <1>1, <1>2, <1>9 DEF Awaited, Collected
  <1>10. ASSUME NEW n \in Wire, Awaited(n)' PROVE Fits(n, mk2, sv2)'
    <2> DEFINE d == n.dest
               o == n.id[1]
    <2>1. d \in Site /\ o \in Site /\ Awaited(n) /\ Fits(n, mk, sv)
      BY <1>1, <1>9, <1>10 DEF Awaited, Carriage, Routed, Drawn, Ids
    <2>2. ASSUME IsState(n) PROVE StateFits(n, mk2, sv2)'
      <3>1. StateFits(n, mk, sv)
        BY <2>1, <2>2 DEF Fits
      <3>2. Live(d)' /\ mk2[d] = mk[d] /\ mk2[o] = mk[d] /\ sv2[o] = sv[o]
        BY <1>4, <2>1, <3>1 DEF StateFits, Lasts
      <3>3. sv[o] \notin snap'[d].states
        <4>1. CASE d = t
          BY <1>1, <1>10, <2>1, <2>2, <3>1, <4>1 DEF StateFits
        <4>2. CASE d # t
          BY <1>1, <2>1, <3>1, <4>2 DEF StateFits
        <4> QED BY <4>1, <4>2
      <3> QED BY <3>1, <3>2, <3>3 DEF StateFits
    <2>3. ASSUME IsPrepost(n) PROVE PrepostFits(n, mk2, sv2)'
      <3>1. PrepostFits(n, mk, sv)
        BY <2>1, <2>3 DEF Fits
      <3>2. Live(d)' /\ Prior(n.body.item, d, mk2, sv2, work')
        <4>1. Live(d) /\ Prior(n.body.item, d, mk, sv, work)
          BY <3>1 DEF PrepostFits
        <4>2. Live(d)' /\ Lasts(d, mk, sv, work, mk2, sv2, work')
          BY <1>4, <2>1, <4>1
        <4> QED BY <2>1, <4>1, <4>2, PriorKept
      <3>3. n.body.item \notin snap'[d].preposts
        <4>1. CASE d = t
          BY <1>1, <1>10, <2>1, <2>3, <3>1, <4>1 DEF PrepostFits
        <4>2. CASE d # t
          BY <1>1, <2>1, <3>1, <4>2 DEF PrepostFits
        <4> QED BY <4>1, <4>2
      <3> QED BY <3>2, <3>3 DEF PrepostFits
    <2> QED BY <2>2, <2>3 DEF Fits, IsState, IsPrepost
  <1>11. Collected(mk2, sv2)'
    <2>1. ASSUME NEW n \in Wire', Awaited(n)' PROVE Fits(n, mk2, sv2)'
      BY <1>1, <1>10, <2>1
    <2>2. ASSUME NEW n \in Wire', NEW o \in Wire', Awaited(n)', Awaited(o)',
                 o.dest = n.dest, Same(n, o)
          PROVE  o = n
      <3>1. CASE n \in Wire /\ o \in Wire
        <4>1. Awaited(n) /\ Awaited(o)
          BY <1>9, <2>2, <3>1
        <4> QED BY <1>2, <2>2, <3>1, <4>1 DEF Collected
      <3>2. CASE n \in X /\ o \in Wire
        BY <1>9, <2>2, <3>2
      <3>3. CASE n \in Wire /\ o \in X
        <4>1. Same(o, n)
          BY <2>2 DEF Same
        <4> QED BY <1>9, <2>2, <3>3, <4>1
      <3>4. CASE n \in X /\ o \in X
        <4>1. X = {n} /\ X = {o}
          BY <1>1, <3>4, AddsFacts
        <4> QED BY <4>1
      <3> QED BY <1>1, <3>1, <3>2, <3>3, <3>4
    <2> QED BY <2>1, <2>2 DEF Collected, Same, IsState, IsPrepost
  <1> QED BY <1>3, <1>5, <1>6, <1>7, <1>8, <1>11 DEF Progress


-----------------------------------------------------------------------------
(* Step by step. *)

LEMMA LiveFacts ==
    ASSUME NEW mk, NEW sv, NEW r, NEW cut, Progress(mk, sv, r, cut), NEW c \in Site,
           Live(c)
    PROVE  /\ IsRed(c) /\ UpToDate(c, r) /\ mk[c][1] = c /\ Drawn(mk[c])
           /\ \A v \in Site : mk[v] = mk[c] =>
                 /\ IsRed(v) /\ UpToDate(v, r) /\ Knows(v, mk[c])
                 /\ v # c => ~Live(v) /\ snap[v].initiatorID = c
  BY DEF Progress, Core, Follow

(* A message sent white that comes to a member of a snapshot was on its way. *)
LEMMA ArrivedPrior ==
    ASSUME Base, NEW s, NEW t, NEW m, NEW q, NEW X, NEW sn, NEW wk,
           Event(s, t, m, q, X, sn, wk), Works(s, t, m, X, sn, wk),
           NEW mk, NEW sv, NEW r, NEW cut, Progress(mk, sv, r, cut),
           GetsApp(s, t, m, X, sn, wk), m.body.color = White,
           NEW c \in Site, Live(c), mk[t] = mk[c]
    PROVE  /\ Prior(m.id, c, mk, sv, work') /\ m.id \in Ids
           /\ \A i, b : Prior(i, b, mk, sv, work) => i # m.id
  <1>1. /\ t \in Site /\ Acts(s, t, m, q) /\ Carriage /\ work'[t] = wk
    BY EventFacts
  <1>2. s \in Site /\ IsApp(m) /\ wk.received = work[t].received \cup {m.id}
    BY DEF GetsApp
  <1>3. m \in Wire /\ m \in Packet /\ m.id \in Ids /\ m.id[1] \in Site
    BY <1>1, <1>2, GotFacts
  <1>4. /\ m.id \in work[m.id[1]].sent
        /\ \A v \in Site : m.id \notin work[v].received
        /\ work[m.id[1]].sent \subseteq work'[m.id[1]].sent
    BY <1>3, WorkFacts
  <1>5. m.id \notin sv[t].received
    BY <1>1, <1>4 DEF Progress, Saved
  <1>6. mk[m.id[1]] = mk[c] => m.id \in sv[m.id[1]].sent
    <2>1. m \in Late(c, mk, sv) => m.body.color = Red
      BY <1>3 DEF Progress, Core, LateIsRed
    <2>2. White # Red
      BY DEF White, Red
    <2> QED BY <1>2, <1>3, <2>1, <2>2 DEF Late
  <1>7. Prior(m.id, c, mk, sv, work')
    BY <1>1, <1>2, <1>3, <1>4, <1>5, <1>6 DEF Prior
  <1>8. \A i, b : Prior(i, b, mk, sv, work) => i # m.id
    BY <1>4 DEF Prior
  <1> QED BY <1>3, <1>7, <1>8


LEMMA CountedPrepost ==
    ASSUME NEW cn \in SnapshotState, NEW c \in Site, NEW mk, NEW sv, NEW w,
           Tally(cn, c, mk, sv, w), Traffic(w), Backed(sv, w), Agree(c, mk, sv, w),
           NEW i \in Ids, Prior(i, c, mk, sv, w), i \notin cn.preposts,
           NEW dn, dn = WithPrepost(cn, i)
    PROVE  /\ Tally(dn, c, mk, sv, w) /\ dn.states = cn.states
           /\ dn.preposts = cn.preposts \cup {i}
           /\ dn.myColor = cn.myColor /\ dn.isInitiator = cn.isInitiator
           /\ dn.initiatorID = cn.initiatorID
  <1>1. Counting(cn)
    BY TallyWaits
  <1>2. dn = [cn EXCEPT !.nbMsg = @ - 1, !.preposts = @ \cup {i}]
    BY <1>1 DEF WithPrepost
  <1>3. /\ dn.states = cn.states /\ dn.preposts = cn.preposts \cup {i}
        /\ dn.myColor = cn.myColor /\ dn.isInitiator = cn.isInitiator
        /\ dn.initiatorID = cn.initiatorID
    BY <1>2 DEF SnapshotState
  <1> QED BY <1>1, <1>3, TallyPrepost

(* The counters after a state or a prepost has been counted. *)
LEMMA CountsFacts ==
    ASSUME Base, Base', NEW s, NEW t, NEW m, NEW q, NEW X, NEW sn, NEW wk,
           Event(s, t, m, q, X, sn, wk), Works(s, t, m, X, sn, wk),
           NEW mk, NEW sv, NEW r, NEW cut, Progress(mk, sv, r, cut),
           NEW cn \in SnapshotState, Counts(s, t, m, cn, wk), sn.bilan = cn.bilan,
           \A x \in X : ~IsApp(x)
    PROVE  /\ Live(t) /\ Tally(cn, t, mk, sv, work')
           /\ Traffic(work') /\ Backed(sv, work') /\ Agree(t, mk, sv, work')
           /\ cn.myColor = snap[t].myColor /\ cn.isInitiator = snap[t].isInitiator
           /\ cn.initiatorID = snap[t].initiatorID
           /\ \A n \in Wire : Awaited(n)' /\ n.dest = t /\ Fits(n, mk, sv) =>
                 /\ IsState(n) => sv[n.id[1]] \notin cn.states
                 /\ IsPrepost(n) => n.body.item \notin cn.preposts
  <1>1. /\ t \in Site /\ Acts(s, t, m, q) /\ Carriage /\ work'[t] = wk
        /\ \A v \in Site : \A j : Knows(v, j) => Knows(v, j)'
        /\ LinksTypeOK(Body)
    BY EventFacts DEF Carriage
  <1>2. s \in Site /\ m.dest = t
    BY DEF Counts
  <1>3. /\ m \in Wire /\ m.id \in Ids /\ m.id[1] \in Site /\ m.body \in Body
        /\ Knows(t, m.id)'
    BY <1>1, <1>2, GotFacts, ActsKnows
  <1>4. snap[t] \in SnapshotState
    BY <1>1 DEF Base, StateTypes
  <1>5. /\ Saved(mk, sv, r) /\ Collected(mk, sv)
        /\ \A c \in Site : Live(c) => Core(c, mk, sv, r) /\ Tally(snap[c], c, mk, sv, work)
    BY DEF Progress
  <1>6. \A n \in Wire : Awaited(n)' => n # m /\ Awaited(n)
    BY <1>1, <1>2, <1>3 DEF Awaited
  <1>7. /\ Traffic(work') /\ Backed(sv, work')
        /\ \A v \in Site : sv[v].site = v
    <2>1. /\ work' \in [Site -> WorkState]
          /\ \A v \in Site : \A i \in work'[v].sent : i[1] = v
          /\ \A v \in Site : IsFiniteSet(work'[v].sent) /\ IsFiniteSet(work'[v].received)
          /\ \A v \in Site : \A i \in work'[v].received : i \in work'[i[1]].sent
          /\ \A u, v \in Site : \A i \in work'[u].received : i \in work'[v].received => u = v
      BY DEF Base, Worked, StateTypes
    <2>2. \A v \in Site : \A i \in work'[v].received : i[1] \in Site
      BY <2>1 DEF WorkState, Ids
    <2> QED BY <1>5, <2>1, <2>2, WorkFacts DEF Traffic, Backed, Saved
  <1>8. ASSUME Live(t)
        PROVE  Tally(snap[t], t, mk, sv, work') /\ Agree(t, mk, sv, work')
    <2>1. Lasts(t, mk, sv, work, mk, sv, work')
      BY WorkFacts DEF Lasts
    <2>2. Tally(snap[t], t, mk, sv, work')
      BY <1>1, <1>5, <1>8, <2>1, TallyKept
    <2>3. ASSUME NEW u \in Site, NEW v \in Site, mk[u] = mk[t], mk[v] = mk[t],
                 NEW i \in sv[v].received, i \in work'[u].sent
          PROVE  i \in sv[u].sent
      <3>1. i \in work[v].received
        BY <1>5, <2>3 DEF Saved
      <3>2. i \in work[i[1]].sent
        BY <3>1 DEF Base, Worked
      <3>3. i[1] = u
        BY <1>7, <2>3 DEF Traffic
      <3> QED BY <1>1, <1>5, <1>8, <2>3, <3>2, <3>3 DEF Core, Consistent
    <2> QED BY <2>2, <2>3 DEF Agree
  <1>9. CASE /\ IsState(m) /\ ~Knows(t, m.id)
             /\ cn = [snap[t] EXCEPT !.nbEtats = @ - 1, !.nbMsg = @ + m.body.bilan,
                                     !.states = @ \cup {m.body.state}]
    <2> DEFINE o == m.id[1]
    <2>1. Awaited(m) /\ StateFits(m, mk, sv)
      BY <1>1, <1>2, <1>3, <1>5, <1>9 DEF Awaited, Collected, Fits
    <2>2. /\ Live(t) /\ mk[o] = mk[t] /\ m.body.state = sv[o] /\ sv[o] \notin snap[t].states
          /\ m.body.bilan = Cardinality(sv[o].sent) - Cardinality(sv[o].received)
      BY <1>2, <2>1 DEF StateFits
    <2>3. cn = [snap[t] EXCEPT !.nbEtats = @ - 1,
                    !.nbMsg = @ + (Cardinality(sv[o].sent) - Cardinality(sv[o].received)),
                    !.states = @ \cup {sv[o]}]
      BY <1>9, <2>2
    <2>4. Tally(cn, t, mk, sv, work')
      BY <1>1, <1>3, <1>4, <1>7, <1>8, <2>2, <2>3, TallyState
    <2>5. /\ cn.myColor = snap[t].myColor /\ cn.isInitiator = snap[t].isInitiator
          /\ cn.initiatorID = snap[t].initiatorID
          /\ cn.states = snap[t].states \cup {sv[o]} /\ cn.preposts = snap[t].preposts
      BY <1>4, <2>3 DEF SnapshotState
    <2>6. ASSUME NEW n \in Wire, Awaited(n)', n.dest = t, Fits(n, mk, sv)
          PROVE  /\ IsState(n) => sv[n.id[1]] \notin cn.states
                 /\ IsPrepost(n) => n.body.item \notin cn.preposts
      <3>1. ASSUME IsState(n) PROVE sv[n.id[1]] \notin cn.states
        <4>1. n # m /\ Awaited(n)
          BY <1>6, <2>6
        <4>2. o # n.id[1]
          BY <1>2, <1>3, <1>5, <1>9, <2>1, <2>6, <3>1, <4>1 DEF Collected, Same
        <4>3. n.id[1] \in Site
          BY <1>1, <2>6 DEF Carriage, Routed, Drawn, Ids
        <4>4. sv[n.id[1]] # sv[o]
          BY <1>3, <1>7, <4>2, <4>3
        <4> QED BY <2>5, <2>6, <3>1, <4>4 DEF Fits, StateFits
      <3>2. IsPrepost(n) => n.body.item \notin cn.preposts
        BY <2>5, <2>6 DEF Fits, PrepostFits
      <3> QED BY <3>1, <3>2
    <2> QED BY <1>7, <1>8, <2>2, <2>4, <2>5, <2>6
  <1>10. CASE IsPrepost(m) /\ ~Knows(t, m.id) /\ cn = WithPrepost(snap[t], m.body.item)
    <2> DEFINE i == m.body.item
    <2>1. Awaited(m) /\ PrepostFits(m, mk, sv) /\ i \in Ids
      BY <1>1, <1>2, <1>3, <1>5, <1>10, BodyFacts DEF Awaited, Collected, Fits, IsPrepost
    <2>2. Live(t) /\ Prior(i, t, mk, sv, work) /\ i \notin snap[t].preposts
      BY <1>2, <2>1 DEF PrepostFits
    <2>3. Prior(i, t, mk, sv, work')
      <3>1. Lasts(t, mk, sv, work, mk, sv, work')
        BY WorkFacts DEF Lasts
      <3> QED BY <1>1, <2>2, <3>1, PriorKept
    <2>4. /\ Tally(cn, t, mk, sv, work') /\ cn.states = snap[t].states
          /\ cn.preposts = snap[t].preposts \cup {i}
          /\ cn.myColor = snap[t].myColor /\ cn.isInitiator = snap[t].isInitiator
          /\ cn.initiatorID = snap[t].initiatorID
      BY <1>1, <1>4, <1>7, <1>8, <1>10, <2>1, <2>2, <2>3, CountedPrepost
    <2>5. ASSUME NEW n \in Wire, Awaited(n)', n.dest = t, Fits(n, mk, sv)
          PROVE  /\ IsState(n) => sv[n.id[1]] \notin cn.states
                 /\ IsPrepost(n) => n.body.item \notin cn.preposts
      <3>1. n # m /\ Awaited(n)
        BY <1>6, <2>5
      <3>2. IsPrepost(n) => n.body.item # i
        BY <1>2, <1>3, <1>5, <1>10, <2>1, <2>5, <3>1 DEF Collected, Same
      <3> QED BY <2>4, <2>5, <3>2 DEF Fits, StateFits, PrepostFits
    <2> QED BY <1>7, <1>8, <2>2, <2>4, <2>5
  <1>11. CASE /\ GetsApp(s, t, m, {}, cn, wk) /\ m.body.color = White /\ Live(t)
              /\ cn = WithPrepost([snap[t] EXCEPT !.bilan = @ - 1], m.id)
    <2> DEFINE i == m.id
               bn == [snap[t] EXCEPT !.bilan = @ - 1]
    <2>1. GetsApp(s, t, m, X, sn, wk)
      BY <1>11 DEF GetsApp
    <2>2. /\ Prior(i, t, mk, sv, work') /\ i \in Ids
          /\ \A j, b : Prior(j, b, mk, sv, work) => j # i
      BY <1>1, <1>11, <2>1, ArrivedPrior
    <2>3. /\ bn \in SnapshotState /\ bn.states = snap[t].states
          /\ bn.preposts = snap[t].preposts /\ bn.nbEtats = snap[t].nbEtats
          /\ bn.nbMsg = snap[t].nbMsg /\ bn.myColor = snap[t].myColor
          /\ bn.isInitiator = snap[t].isInitiator /\ bn.initiatorID = snap[t].initiatorID
      BY <1>4 DEF SnapshotState
    <2>4. cn = WithPrepost(bn, i)
      BY <1>11
    <2> HIDE DEF bn
    <2>5. Tally(bn, t, mk, sv, work') /\ i \notin bn.preposts
      BY <1>1, <1>5, <1>8, <1>11, <2>2, <2>3, TallySame DEF Tally
    <2>6. /\ Tally(cn, t, mk, sv, work') /\ cn.states = snap[t].states
          /\ cn.preposts = snap[t].preposts \cup {i}
          /\ cn.myColor = snap[t].myColor /\ cn.isInitiator = snap[t].isInitiator
          /\ cn.initiatorID = snap[t].initiatorID
      BY <1>1, <1>7, <1>8, <1>11, <2>2, <2>3, <2>4, <2>5, CountedPrepost
    <2>7. ASSUME NEW n \in Wire, Awaited(n)', n.dest = t, Fits(n, mk, sv)
          PROVE  /\ IsState(n) => sv[n.id[1]] \notin cn.states
                 /\ IsPrepost(n) => n.body.item \notin cn.preposts
      BY <2>2, <2>6, <2>7 DEF Fits, StateFits, PrepostFits
    <2> QED BY <1>7, <1>8, <1>11, <2>6, <2>7
  <1> QED BY <1>9, <1>10, <1>11 DEF Counts


Goes == \E mk, sv, r, cut : Progress(mk, sv, r, cut)'

LEMMA RenewedNot ==
    ASSUME NEW t, NEW mk, NEW sv, NEW r, Saved(mk, sv, r)
    PROVE  Renewed(t, mk, sv, mk, sv)
  BY DEF Saved, Renewed

LEMMA CountingGoes ==
    ASSUME Base, Base', NEW s, NEW t, NEW m, NEW q, NEW X, NEW sn, NEW wk,
           Event(s, t, m, q, X, sn, wk), Works(s, t, m, X, sn, wk),
           NEW mk, NEW sv, NEW r, NEW cut, Progress(mk, sv, r, cut),
           GoesOnCounting(s, t, m, X, sn, wk)
    PROVE  Progress(mk, sv, r, cut)'
  <1>1. /\ t \in Site /\ snap'[t] = sn /\ X = {} /\ sn \in SnapshotState
        /\ Counts(s, t, m, sn, wk)
        /\ \A v \in Site : \A j : Knows(v, j) => Knows(v, j)'
    BY EventFacts DEF GoesOnCounting, Event
  <1>2. /\ Live(t) /\ Tally(sn, t, mk, sv, work')
        /\ sn.myColor = snap[t].myColor /\ sn.isInitiator = snap[t].isInitiator
        /\ sn.initiatorID = snap[t].initiatorID
        /\ \A n \in Wire : Awaited(n)' /\ n.dest = t /\ Fits(n, mk, sv) =>
              /\ IsState(n) => sv[n.id[1]] \notin sn.states
              /\ IsPrepost(n) => n.body.item \notin sn.preposts
    BY <1>1, CountsFacts
  <1>3. Steady(t) /\ Live(t)'
    BY <1>1, <1>2 DEF Steady, Live
  <1>4. Hue(t, mk, r)'
    <2>1. UpToDate(t, r)
      BY <1>1, <1>2, LiveFacts
    <2> QED BY <1>1, <1>3, <2>1 DEF Hue, UpToDate
  <1>5. Renewed(t, mk, sv, mk, sv)
    BY RenewedNot DEF Progress
  <1> QED BY <1>1, <1>2, <1>3, <1>4, <1>5, ProgressKept

LEMMA GoesOnGoes ==
    ASSUME Base, NEW s, NEW t, NEW m, NEW q, NEW X, NEW sn, NEW wk,
           Event(s, t, m, q, X, sn, wk), Works(s, t, m, X, sn, wk),
           NEW mk, NEW sv, NEW r, NEW cut, Progress(mk, sv, r, cut),
           GoesOn(s, t, m, X, sn, wk)
    PROVE  Progress(mk, sv, r, cut)'
  <1>1. /\ t \in Site /\ snap'[t] = sn /\ Acts(s, t, m, q) /\ Carriage
        /\ s \in Site \cup {NoSite} /\ LinksTypeOK(Body)
        /\ \A v \in Site : \A j : Knows(v, j) => Knows(v, j)'
        /\ \A v \in Site : v # t => snap'[v] = snap[v]
    BY EventFacts DEF Carriage
  <1>2. snap[t] \in SnapshotState
    BY <1>1 DEF Base, StateTypes
  <1>3. /\ sn.myColor = snap[t].myColor /\ sn.isInitiator = snap[t].isInitiator
        /\ sn.initiatorID = snap[t].initiatorID /\ sn.states = snap[t].states
        /\ sn.preposts = snap[t].preposts /\ sn.nbEtats = snap[t].nbEtats
        /\ sn.nbMsg = snap[t].nbMsg
    <2>1. PICK b : sn = [snap[t] EXCEPT !.bilan = b]
      BY DEF GoesOn
    <2> QED BY <1>2, <2>1 DEF SnapshotState
  <1>4. Steady(t) /\ (Live(t) <=> Live(t)')
    BY <1>1, <1>3 DEF Steady, Live
  <1>5. Renewed(t, mk, sv, mk, sv)
    BY RenewedNot DEF Progress
  <1>6. ASSUME Live(t) PROVE Tally(sn, t, mk, sv, work')
    <2>1. Lasts(t, mk, sv, work, mk, sv, work')
      BY WorkFacts DEF Lasts
    <2>2. Tally(snap[t], t, mk, sv, work)
      BY <1>1, <1>6 DEF Progress
    <2>3. Tally(snap[t], t, mk, sv, work')
      BY <1>1, <2>1, <2>2, TallyKept
    <2> QED BY <1>3, <2>3, TallySame
  <1>7. \A c \in Site : Live(c) => Live(c)'
    BY <1>1, <1>4 DEF Live
  <1>8. Hue(t, mk, r)'
    <2>1. Hue(t, mk, r)
      BY <1>1 DEF Progress
    <2>2. Knows(t, r)' => Knows(t, r)
      <3>1. ASSUME s \in Site, r = m.id PROVE Knows(t, r)
        <4>1. m \in Wire /\ Drawn(m.id)
          BY <1>1, <3>1, GotFacts
        <4>2. r # NoId
          BY <3>1, <4>1, NoSiteFacts DEF Drawn, Ids, NoId
        <4>3. m.body = Reset
          BY <3>1, <4>1, <4>2 DEF Progress, Resets
        <4> QED BY <3>1, <4>3 DEF GoesOn
      <3> QED BY <1>1, <3>1, ActsKnows
    <2>3. UpToDate(t, r)' <=> UpToDate(t, r)
      BY <1>1, <2>2 DEF UpToDate
    <2>4. /\ IsRed(t)' <=> IsRed(t)
          /\ snap'[t].initiatorID = snap[t].initiatorID
      BY <1>1, <1>3 DEF IsRed
    <2>5. Trails(t, snap[t].initiatorID, mk) => Trails(t, snap[t].initiatorID, mk)'
      <3>1. PICK c : c = snap[t].initiatorID
        OBVIOUS
      <3>2. Trails(t, c, mk) => Trails(t, c, mk)'
        BY <1>7 DEF Trails
      <3> QED BY <2>4, <3>1, <3>2
    <2> QED BY <1>4, <2>1, <2>3, <2>4, <2>5 DEF Hue
  <1>9. \A x \in X : /\ x.body # Reset
                     /\ x.body = Marker /\ x.sender \in Site =>
                           Live(x.sender)' /\ x.id = mk[x.sender]
    <2>1. ASSUME NEW x \in X
          PROVE  x.body.action \in {"App", "PREPOST_COLLECT"} \/
                 (x.body = Marker /\ x.sender = NoSite)
      BY DEF GoesOn, IsApp, Reported, IsPrepost
    <2>2. /\ Marker.action = "MARKER" /\ Reset.action = "RESET_SNAPSHOT"
          /\ NoSite \notin Site
      BY NoSiteFacts DEF Marker, Reset
    <2> QED BY <2>1, <2>2
  <1>10. ASSUME NEW x \in X, IsState(x) \/ IsPrepost(x), Awaited(x)'
         PROVE  /\ Fits(x, mk, sv)' /\ IsPrepost(x) /\ x.body.item = m.id
                /\ \A i, b : Prior(i, b, mk, sv, work) => i # m.id
    <2> DEFINE d == x.dest
    <2>1. Reported(s, t, m, x, sn, wk)
      BY <1>10 DEF GoesOn, IsApp, IsState, IsPrepost, Marker
    <2>2. /\ IsPrepost(x) /\ d = snap[t].initiatorID /\ x.body.item = m.id
          /\ GetsApp(s, t, m, {x}, sn, wk) /\ m.body.color = White /\ IsRed(t) /\ ~Live(t)
      BY <2>1 DEF Reported
    <2>3. GetsApp(s, t, m, X, sn, wk)
      <3>1. X = {x}
        BY <1>1, <1>10, EventFacts, AddsFacts
      <3> QED BY <2>2, <3>1
    <2>4. UpToDate(t, r)
      <3> SUFFICES ASSUME r # NoId PROVE Knows(t, r)
        BY DEF UpToDate
      <3>1. s \in Site /\ IsApp(m)
        BY <2>3 DEF GetsApp
      <3>2. m \in Packet /\ 1 \in Places(s, t) /\ m = link[s][t][1]
        BY <1>1, <3>1, GotFacts
      <3>3. m.id \notin cut
        <4>1. \A v \in Site : m.id \notin work[v].received
          BY <2>3, WorkFacts
        <4> QED BY <4>1 DEF Progress, Resets
      <3>4. link[s][t][1] \in WhiteSince(cut)
        BY <2>2, <3>1, <3>2, <3>3 DEF WhiteSince
      <3>5. Ahead(s, t, 1, r)
        BY <1>1, <3>1, <3>2, <3>4 DEF Progress, Resets, Behind
      <3> QED BY <3>5 DEF Ahead, Places
    <2>5. d \in Site /\ Live(d) /\ mk[t] = mk[d]
      <3>1. Trails(t, d, mk)
        BY <1>1, <2>2, <2>4 DEF Progress, Hue
      <3>2. d \in Site
        BY <1>10 DEF Awaited
      <3> QED BY <3>1, <3>2, NoSiteFacts DEF Trails
    <2>6. /\ Prior(m.id, d, mk, sv, work')
          /\ \A i, b : Prior(i, b, mk, sv, work) => i # m.id
      BY <2>2, <2>3, <2>5, ArrivedPrior
    <2>7. m.id \notin snap[d].preposts
      BY <2>5, <2>6 DEF Progress, Tally
    <2>8. m.id \notin snap'[d].preposts
      BY <1>1, <1>3, <2>5, <2>7
    <2>9. PrepostFits(x, mk, sv)'
      BY <1>7, <2>2, <2>5, <2>6, <2>8 DEF PrepostFits
    <2> QED BY <2>2, <2>6, <2>9 DEF Fits, IsState, IsPrepost
  <1>11. \A x \in X : Awaited(x)' => Fits(x, mk, sv)'
    BY <1>10 DEF Fits, IsState, IsPrepost
  <1>12. ASSUME NEW x \in X, NEW n \in Wire, Awaited(x)', Fits(n, mk, sv), Same(x, n)
         PROVE  FALSE
    <2>1. IsState(x) \/ IsPrepost(x)
      BY <1>12 DEF Same
    <2>2. /\ IsPrepost(x) /\ x.body.item = m.id
          /\ \A i, b : Prior(i, b, mk, sv, work) => i # m.id
      BY <1>10, <1>12, <2>1
    <2>3. IsPrepost(n) /\ n.body.item = m.id
      BY <1>12, <2>2 DEF Same, IsState, IsPrepost
    <2> QED BY <1>12, <2>2, <2>3 DEF Fits, PrepostFits
  <1>13. ASSUME NEW n \in Wire, n.dest = t, Fits(n, mk, sv)
         PROVE  /\ IsState(n) => sv[n.id[1]] \notin sn.states
                /\ IsPrepost(n) => n.body.item \notin sn.preposts
    BY <1>3, <1>13 DEF Fits, StateFits, PrepostFits
  <1> QED BY <1>4, <1>5, <1>6, <1>8, <1>9, <1>11, <1>12, <1>13, ProgressKept


(* Only its initiator has joined a snapshot that starts. *)
LEMMA StartsCore ==
    ASSUME Base, NEW s, NEW t, NEW m, NEW q, NEW X, NEW sn, NEW wk,
           Event(s, t, m, q, X, sn, wk), Works(s, t, m, X, sn, wk),
           NEW mk, NEW sv, NEW r, Saved(mk, sv, r),
           UpToDate(t, r), Starts(s, t, X, sn, wk),
           NEW x \in X, x.body = Marker, x.sender = t,
           NEW mk2, NEW sv2, mk2[t] = x.id, sv2[t] = StateOf(t),
           \A v \in Site : v # t => mk2[v] = mk[v] /\ sv2[v] = sv[v]
    PROVE  Core(t, mk2, sv2, r)'
  <1>1. /\ t \in Site /\ snap'[t] = sn /\ work'[t] = wk /\ Acts(s, t, m, q) /\ Carriage
        /\ Adds(s, t, m, q, X) /\ LinksTypeOK(Body) /\ Adjacent
        /\ \A v \in Site : \A j : Knows(v, j) => Knows(v, j)'
        /\ \A n : n \in Wire' => n \in Wire \/ n \in X
    BY EventFacts DEF Carriage
  <1>2. /\ x.id[1] = t /\ ~Drawn(x.id) /\ Drawn(x.id)' /\ X = {x}
        /\ \A n \in Wire : n.id # x.id
        /\ \A v \in Site : Knows(v, x.id)' => v = t
        /\ x \in Elems(q)
    <2>1. x \in Elems(q)
      BY <1>1 DEF Adds
    <2> QED BY <1>1, <2>1, AddsFacts
  <1>3. \A v \in Site : mk2[v] = x.id => v = t
    <2>1. x.id # NoId
      BY <1>1, <1>2, NoSiteFacts DEF NoId
    <2> QED BY <1>2, <2>1 DEF Saved
  <1>4. snap[t] \in SnapshotState
    BY <1>1 DEF Base, StateTypes
  <1>5. snap'[t].myColor = Red /\ work'[t] = work[t]
    BY <1>1, <1>4 DEF Starts, Initiated, Clicked, SnapshotState
  <1>6. Follow(t, mk2, r)'
    <2>1. Knows(t, x.id)' /\ UpToDate(t, r)'
      BY <1>1, <1>2 DEF Knows, UpToDate
    <2> QED BY <1>2, <1>3, <1>5, <2>1 DEF Follow, IsRed
  <1>7. Called(t, mk2)'
    BY <1>1, <1>2 DEF Called
  <1>8. PassedOn(x.id)'
    BY <1>1, <1>2, FreshPassedOn
  <1>9. ASSUME NEW n, n \in Wire \/ n \in X, n \in Late(t, mk2, sv2) PROVE FALSE
    <2>1. /\ IsApp(n) /\ n.id[1] \in Site /\ mk2[n.id[1]] = x.id
          /\ n.id \notin sv2[n.id[1]].sent
      BY <1>9 DEF Late, Packet, Message, Ids
    <2>2. n.id[1] = t /\ n.id \notin work[t].sent
      BY <1>3, <2>1 DEF StateOf
    <2>3. n \notin Wire
      BY <2>1, <2>2 DEF Base, Shipped
    <2>4. n = x
      BY <1>2, <1>9, <2>3
    <2> QED BY <2>1, <2>4 DEF IsApp, Marker
  <1>10. LateIsRed(t, mk2, sv2)'
    <2>1. \A a, b \in Site : \A k \in Places(a, b)' : link'[a][b][k] \notin Late(t, mk2, sv2)
      BY <1>1, <1>9, PlaceHolds
    <2>2. \A n \in Wire' : n \notin Late(t, mk2, sv2)
      BY <1>1, <1>9
    <2>3. Late(t, mk2, sv2)' = Late(t, mk2, sv2)
      BY DEF Late
    <2> QED BY <2>1, <2>2, <2>3 DEF LateIsRed, Behind
  <1>11. Consistent(t, mk2, sv2)'
    BY <1>3, <1>5 DEF Consistent, StateOf
  <1> QED BY <1>6, <1>7, <1>8, <1>10, <1>11 DEF Core

LEMMA StartsTally ==
    ASSUME Base, NEW t \in Site, NEW mk2, NEW sv2, sv2[t] = StateOf(t)
    PROVE  Tally(Initiated(t), t, mk2, sv2, work)
  <1> DEFINE sn == Initiated(t)
             st == StateOf(t)
  <1>1. snap[t] \in SnapshotState
    BY DEF Base, StateTypes
  <1>2. /\ sn.nbEtats = Cardinality(Site) - 1 /\ sn.nbMsg = snap[t].bilan
        /\ sn.states = {st} /\ sn.preposts = {}
    BY <1>1 DEF Initiated, Clicked, SnapshotState
  <1>3. /\ IsFiniteSet({st}) /\ Cardinality({st}) = 1
        /\ IsFiniteSet({}) /\ Cardinality({}) = 0
    BY FS_Singleton, FS_EmptySet
  <1>4. SentBy({st}) = work[t].sent /\ ReceivedBy({st}) = work[t].received
    BY DEF SentBy, ReceivedBy, StateOf
  <1>5. /\ IsFiniteSet(work[t].sent) /\ IsFiniteSet(work[t].received)
        /\ snap[t].bilan = Cardinality(work[t].sent) - Cardinality(work[t].received)
    BY DEF Base, Worked
  <1>6. Cardinality(work[t].sent) \in Nat /\ Cardinality(work[t].received) \in Nat
    BY <1>5, FS_CardinalityType
  <1> HIDE DEF sn, st
  <1>7. sn.nbMsg = Cardinality(SentBy(sn.states)) - Cardinality(ReceivedBy(sn.states))
                   - Cardinality(sn.preposts)
    <2>1. sn.nbMsg = Cardinality(work[t].sent) - Cardinality(work[t].received) - 0
      BY <1>2, <1>5, <1>6
    <2> QED BY <1>2, <1>3, <1>4, <2>1
  <1>8. sn.nbEtats = Cardinality(Site) - Cardinality(sn.states)
    BY <1>2, <1>3
  <1>9. \A e \in sn.states : \E v \in Site : mk2[v] = mk2[t] /\ e = sv2[v]
    BY <1>2 DEF st
  <1>10. Tally(sn, t, mk2, sv2, work)
    BY <1>2, <1>3, <1>4, <1>5, <1>7, <1>8, <1>9 DEF Tally
  <1> QED BY <1>10 DEF sn

LEMMA StartsGoes ==
    ASSUME Base, NEW s, NEW t, NEW m, NEW q, NEW X, NEW sn, NEW wk,
           Event(s, t, m, q, X, sn, wk), Works(s, t, m, X, sn, wk),
           NEW mk, NEW sv, NEW r, NEW cut, Progress(mk, sv, r, cut),
           Starts(s, t, X, sn, wk)
    PROVE  Goes
  <1>1. /\ t \in Site /\ snap'[t] = sn /\ work'[t] = wk /\ Adds(s, t, m, q, X) /\ Carriage
        /\ \A v \in Site : \A j : Knows(v, j) => Knows(v, j)'
    BY EventFacts
  <1>2. PICK x \in X : X = {x} /\ x.body = Marker /\ x.sender = t
    BY DEF Starts
  <1>3. /\ x.id \in Ids /\ ~Drawn(x.id) /\ Drawn(x.id)'
    BY <1>1, AddsFacts
  <1>4. ~IsRed(t) /\ sn = Initiated(t) /\ wk = work[t]
    BY DEF Starts
  <1>5. UpToDate(t, r) /\ ~Live(t)
    BY <1>1, <1>4, LiveFacts DEF Progress, Hue
  <1>6. Saved(mk, sv, r)
    BY DEF Progress
  <1>7. snap[t] \in SnapshotState /\ StateOf(t) \in SiteState
    BY <1>1, BodiesAre
  <1>8. Live(t)'
    BY <1>1, <1>4, <1>7 DEF Live, Initiated, Clicked, SnapshotState
  <1> DEFINE mk2 == [mk EXCEPT ![t] = x.id]
             sv2 == [sv EXCEPT ![t] = StateOf(t)]
  <1>9. /\ mk2 \in [Site -> Ids \cup {NoId}] /\ sv2 \in [Site -> SiteState]
        /\ mk2[t] = x.id /\ sv2[t] = StateOf(t)
        /\ \A v \in Site : v # t => mk2[v] = mk[v] /\ sv2[v] = sv[v]
    BY <1>1, <1>3, <1>6, <1>7 DEF Saved
  <1> HIDE DEF mk2, sv2
  <1>10. PICK mk3, sv3 : mk3 = mk2 /\ sv3 = sv2
    OBVIOUS
  <1>11. Progress(mk3, sv3, r, cut)'
    <2>1. Renewed(t, mk, sv, mk3, sv3)
      BY <1>1, <1>3, <1>4, <1>9, <1>10 DEF Renewed
    <2>2. Core(t, mk3, sv3, r)'
      BY <1>2, <1>5, <1>6, <1>9, <1>10, StartsCore
    <2>3. Tally(sn, t, mk3, sv3, work')
      <3>1. Lasts(t, mk3, sv3, work, mk3, sv3, work')
        BY WorkFacts DEF Lasts
      <3>2. Tally(sn, t, mk3, sv3, work)
        BY <1>1, <1>4, <1>9, <1>10, StartsTally
      <3> QED BY <1>1, <3>1, <3>2, TallyKept
    <2>4. ASSUME NEW c \in Site, Live(c)
          PROVE  /\ mk[t] = mk[c] => Steady(t)
                 /\ mk3[t] = mk[c] /\ mk[t] # mk[c] => Enters(c, t, X, wk, mk, sv3, r)
      BY <1>1, <1>3, <1>4, <1>9, <1>10, <2>4, LiveFacts
    <2>5. Hue(t, mk3, r)'
      BY <1>1, <1>5, <1>8 DEF Hue, UpToDate
    <2>6. x.body # Reset /\ ~IsState(x) /\ ~IsPrepost(x)
      BY <1>2 DEF Marker, Reset, IsState, IsPrepost
    <2>7. \A y \in X : y.body # Reset /\ Fits(y, mk3, sv3)' /\ \A n : ~Same(y, n)
      BY <1>2, <2>6 DEF Fits, Same, IsState, IsPrepost
    <2>8. \A y \in X : Live(y.sender)' /\ y.id = mk3[y.sender]
      BY <1>2, <1>8, <1>9, <1>10
    <2> QED BY <1>5, <1>8, <2>1, <2>2, <2>3, <2>4, <2>5, <2>7, <2>8, ProgressKept
  <1> QED BY <1>11 DEF Goes


LEMMA JoinsGoes ==
    ASSUME Base, NEW s, NEW t, NEW m, NEW q, NEW X, NEW sn, NEW wk,
           Event(s, t, m, q, X, sn, wk), Works(s, t, m, X, sn, wk),
           NEW mk, NEW sv, NEW r, NEW cut, Progress(mk, sv, r, cut),
           Joins(s, t, m, X, sn, wk)
    PROVE  Goes
  <1> DEFINE c0 == m.sender
             x == New1(t, c0, StateCollect(t))
  <1>1. /\ t \in Site /\ snap'[t] = sn /\ work'[t] = wk /\ Adds(s, t, m, q, X)
        /\ Acts(s, t, m, q) /\ Carriage /\ LinksTypeOK(Body)
        /\ \A v \in Site : v # t => snap'[v] = snap[v]
        /\ \A v \in Site : \A j : Knows(v, j) => Knows(v, j)'
    BY EventFacts DEF Carriage
  <1>2. /\ s \in Site /\ ~IsRed(t) /\ wk = work[t] /\ sn = Clicked(t, c0)
        /\ m.body = Marker /\ c0 # t /\ m.id \notin seen[t] /\ X = {x}
    BY DEF Joins
  <1>3. m \in Wire /\ m \in Packet /\ m.id \in Ids /\ Drawn(m.id) /\ Drawn(m.id)'
        /\ WellSent(m) /\ Knows(t, m.id)'
    BY <1>1, <1>2, GotFacts, ActsKnows, AddsFacts
  <1>4. UpToDate(t, r) /\ UpToDate(t, r)' /\ ~Live(t)
    <2>1. UpToDate(t, r) /\ ~Live(t)
      BY <1>1, <1>2, LiveFacts DEF Progress, Hue
    <2> QED BY <1>1, <2>1 DEF UpToDate
  <1>5. /\ Saved(mk, sv, r)
        /\ \A c \in Site : Live(c) => /\ Tally(snap[c], c, mk, sv, work)
                                      /\ mk[c][1] = c /\ mk[t] # mk[c]
    BY <1>1, <1>2, LiveFacts DEF Progress
  <1>6. snap[t] \in SnapshotState /\ StateOf(t) \in SiteState
    BY <1>1, BodiesAre
  <1>7. ~Live(t)' /\ IsRed(t)' /\ snap'[t].initiatorID = c0
    BY <1>1, <1>2, <1>6 DEF Live, IsRed, Clicked, SnapshotState
  <1>8. \A c \in Site : Live(c) => Live(c)' /\ snap'[c] = snap[c]
    BY <1>1, <1>4 DEF Live
  <1>9. /\ x.id[1] = t /\ x.dest = c0 /\ x.body = StateCollect(t)
        /\ x.body.state = StateOf(t) /\ x.body.bilan = snap[t].bilan
        /\ IsState(x) /\ ~IsPrepost(x) /\ x.body # Reset /\ x.body # Marker
    BY DEF New1, StateCollect, IsState, IsPrepost, Reset, Marker
  <1> HIDE DEF c0, x
  <1>10. CASE c0 = NoSite
    <2>1. Renewed(t, mk, sv, mk, sv)
      BY <1>5, RenewedNot
    <2>2. Hue(t, mk, r)'
      BY <1>1, <1>4, <1>7, <1>10 DEF Hue, Trails
    <2>3. \A y \in X : y = x /\ ~Awaited(y)'
      BY <1>2, <1>9, <1>10, NoSiteFacts DEF Awaited
    <2>4. \A c \in Site : Live(c) =>
             /\ mk[t] = mk[c] => Steady(t)
             /\ mk[t] = mk[c] /\ mk[t] # mk[c] => Enters(c, t, X, wk, mk, sv, r)
      BY <1>5
    <2>5. \A y \in X : y.body # Reset /\ y.body # Marker /\ ~Awaited(y)'
      BY <1>9, <2>3
    <2>6. Progress(mk, sv, r, cut)'
      BY <1>4, <1>7, <2>1, <2>2, <2>4, <2>5, ProgressKept
    <2> QED BY <2>6 DEF Goes
  <1>11. CASE c0 \in Site
    <2>1. m.id[1] = c0 /\ ~Knows(t, m.id)
      BY <1>2, <1>3, <1>11, NoSiteFacts DEF WellSent, Knows, c0
    <2>2. Live(c0) /\ m.id = mk[c0]
      BY <1>1, <1>2, <1>3, <1>11, <2>1 DEF Progress, Marks, AllKnow, c0
    <2> DEFINE mk2 == [mk EXCEPT ![t] = m.id]
               sv2 == [sv EXCEPT ![t] = StateOf(t)]
    <2>3. /\ mk2 \in [Site -> Ids \cup {NoId}] /\ sv2 \in [Site -> SiteState]
          /\ mk2[t] = m.id /\ sv2[t] = StateOf(t)
          /\ \A v \in Site : v # t => mk2[v] = mk[v] /\ sv2[v] = sv[v]
      BY <1>1, <1>3, <1>5, <1>6 DEF Saved
    <2> HIDE DEF mk2, sv2
    <2>4. PICK mk3, sv3 : mk3 = mk2 /\ sv3 = sv2
      OBVIOUS
    <2>5. Renewed(t, mk, sv, mk3, sv3)
      BY <1>1, <1>2, <1>3, <2>3, <2>4 DEF Renewed
    <2>6. ASSUME NEW c \in Site, Live(c)
          PROVE  /\ mk[t] = mk[c] => Steady(t)
                 /\ mk3[t] = mk[c] /\ mk[t] # mk[c] => Enters(c, t, X, wk, mk, sv3, r)
      <3>1. mk[t] # mk[c]
        BY <1>5, <2>6
      <3>2. ASSUME mk3[t] = mk[c] PROVE Enters(c, t, X, wk, mk, sv3, r)
        <4>1. c = c0 /\ m.id = mk[c]
          BY <1>5, <1>11, <2>1, <2>2, <2>3, <2>4, <2>6, <3>2
        <4>2. \A y \in X : ~IsApp(y)
          BY <1>2, <1>9 DEF IsApp, IsState
        <4> QED BY <1>2, <1>3, <1>4, <1>7, <2>1, <2>3, <2>4, <4>1, <4>2 DEF Enters, c0
      <3> QED BY <3>1, <3>2
    <2>7. mk3[c0] = mk[c0] /\ mk3[t] = mk3[c0]
      BY <1>2, <1>11, <2>2, <2>3, <2>4 DEF c0
    <2>8. Hue(t, mk3, r)'
      <3>1. PICK c : c = c0
        OBVIOUS
      <3>2. Trails(t, c, mk3)'
        BY <1>8, <1>11, <2>2, <2>7, <3>1 DEF Trails
      <3> QED BY <1>1, <1>4, <1>7, <3>1, <3>2 DEF Hue
    <2>9. PICK y : y = x
      OBVIOUS
    <2>10. Fits(y, mk3, sv3)'
      <3>1. y.dest \in Site /\ y.dest = c0 /\ y.id[1] = t
        BY <1>9, <1>11, <2>9
      <3>2. Live(y.dest)' /\ mk3[t] = mk3[y.dest]
        BY <1>8, <1>11, <2>2, <2>7, <3>1
      <3>3. y.body.state = sv3[t]
        BY <1>9, <2>3, <2>4, <2>9
      <3>4. y.body.bilan = Cardinality(sv3[t].sent) - Cardinality(sv3[t].received)
        <4>1. snap[t].bilan = Cardinality(work[t].sent) - Cardinality(work[t].received)
          BY <1>1 DEF Base, Worked
        <4> QED BY <1>9, <2>3, <2>4, <2>9, <4>1 DEF StateOf
      <3>5. sv3[t] \notin snap'[y.dest].states
        <4>1. \A st \in snap[c0].states : \E v \in Site : mk[v] = mk[c0] /\ st = sv[v]
          BY <1>5, <1>11, <2>2 DEF Tally
        <4>2. \A v \in Site : sv[v].site = v
          BY <1>5 DEF Saved
        <4>3. sv3[t].site = t
          BY <2>3, <2>4 DEF StateOf
        <4>4. sv3[t] \notin snap[c0].states
          BY <1>5, <1>11, <2>2, <4>1, <4>2, <4>3
        <4> QED BY <1>8, <1>11, <2>2, <3>1, <4>4
      <3>6. StateFits(y, mk3, sv3)'
        BY <3>1, <3>2, <3>3, <3>4, <3>5 DEF StateFits
      <3> QED BY <1>9, <2>9, <3>6 DEF Fits, IsPrepost
    <2>11. ASSUME NEW n \in Wire, Fits(n, mk, sv), Same(y, n), n.dest = y.dest PROVE FALSE
      <3>1. IsState(n) /\ n.id[1] = t /\ n.dest = c0
        BY <1>9, <2>9, <2>11 DEF Same
      <3>2. mk[t] = mk[c0]
        BY <2>11, <3>1 DEF Fits, StateFits
      <3> QED BY <1>5, <1>11, <2>2, <3>2
    <2>12. \A z \in X : z = y /\ z.body # Reset /\ z.body # Marker
      BY <1>2, <1>9, <2>9
    <2>13. Progress(mk3, sv3, r, cut)'
      BY <1>4, <1>7, <2>5, <2>6, <2>8, <2>10, <2>11, <2>12, ProgressKept
    <2> QED BY <2>13 DEF Goes
  <1> QED BY <1>3, <1>10, <1>11 DEF Packet, Message, c0


(* Only a site that follows no initiator turns white at a reset. *)
LEMMA WhiteGoes ==
    ASSUME Base, NEW s, NEW t, NEW m, NEW q, NEW X, NEW sn, NEW wk,
           Event(s, t, m, q, X, sn, wk), Works(s, t, m, X, sn, wk),
           NEW mk, NEW sv, NEW r, NEW cut, Progress(mk, sv, r, cut),
           TurnsWhite(s, t, m, X, sn, wk)
    PROVE  Goes
  <1>1. /\ t \in Site /\ snap'[t] = sn /\ Acts(s, t, m, q) /\ Carriage
        /\ LinksTypeOK(Body)
    BY EventFacts DEF Carriage
  <1>2. /\ s \in Site /\ X = {} /\ m.body = Reset /\ ~Knows(t, m.id)
    BY DEF TurnsWhite
  <1>3. m \in Wire /\ Drawn(m.id) /\ m.id \in Ids /\ Knows(t, m.id)'
    BY <1>1, <1>2, GotFacts, ActsKnows
  <1>4. m.id = r
    BY <1>1, <1>2, <1>3 DEF Progress, Resets, AllKnow
  <1>5. ~UpToDate(t, r) /\ UpToDate(t, r)'
    BY <1>2, <1>3, <1>4, NoSiteFacts DEF UpToDate, NoId, Ids
  <1>6. IsRed(t) /\ ~Live(t)
    BY <1>1, <1>5 DEF Progress, Hue
  <1>7. snap[t] \in SnapshotState
    BY <1>1 DEF Base, StateTypes
  <1>8. ~IsRed(t)' /\ ~Live(t)'
    BY <1>1, <1>6, <1>7 DEF TurnsWhite, IsRed, Live, SnapshotState, White, Red
  <1>9. Hue(t, mk, r)'
    BY <1>5, <1>8 DEF Hue
  <1>10. Renewed(t, mk, sv, mk, sv)
    BY RenewedNot DEF Progress
  <1>11. \A c \in Site : Live(c) => mk[t] # mk[c]
    BY <1>1, <1>5, LiveFacts
  <1>12. Progress(mk, sv, r, cut)'
    BY <1>2, <1>6, <1>8, <1>9, <1>10, <1>11, ProgressKept
  <1> QED BY <1>12 DEF Goes


(* A snapshot that is ready is a consistent cut. *)
LEMMA ReadyIsCut ==
    ASSUME NEW t \in Site, NEW cn, NEW mk, NEW sv, NEW w, Tally(cn, t, mk, sv, w),
           Traffic(w), Backed(sv, w), Agree(t, mk, sv, w), Ready(cn)
    PROVE  /\ ConsistentCut(Exported(t, cn))
           /\ \A v \in Site : mk[v] = mk[t] /\ sv[v] \in cn.states
           /\ \A i \in SentBy(cn.states) : \E v \in Site : i \in w[v].received
           /\ \A v \in Site : \A i \in sv[v].sent : i \in SentBy(cn.states)
  <1> DEFINE S == SentBy(cn.states)
             R == ReceivedBy(cn.states)
             D == (S \ R) \ cn.preposts
             Shown(st) == [site |-> st.site, sent |-> st.sent, received |-> st.received,
                           register |-> IF st.site = t THEN work[t].received
                                        ELSE st.received]
             e == Exported(t, cn)
  <1>1. cn.nbEtats = 0 /\ cn.nbMsg = 0
    BY DEF Ready
  <1>2. /\ \A v \in Site : mk[v] = mk[t] /\ sv[v] \in cn.states
        /\ \A st \in cn.states : \E v \in Site : st = sv[v]
    BY <1>1, TallyStates
  <1>3. /\ R \subseteq S /\ IsFiniteSet(D) /\ cn.nbMsg = Cardinality(D)
        /\ \A i : Prior(i, t, mk, sv, w) => i \in S \ R
    BY SMTT(30), <1>1, TallyMessages
  <1>4. cn.preposts = S \ R
    <2>1. D = {}
      BY <1>1, <1>3, FS_EmptySet
    <2>2. \A i \in cn.preposts : i \in S \ R
      BY <1>3 DEF Tally
    <2> QED BY <2>1, <2>2
  <1>5. e.states = {Shown(st) : st \in cn.states} /\ e.preposts = cn.preposts
    BY DEF Exported
  <1>6. \A st \in cn.states : /\ Shown(st).site = st.site /\ Shown(st).sent = st.sent
                              /\ Shown(st).received = st.received
    OBVIOUS
  <1> HIDE DEF e, Shown
  <1>7. \A v \in Site : sv[v].site = v
    BY DEF Backed
  <1>8. {st.site : st \in e.states} = Site
    BY <1>2, <1>5, <1>6, <1>7
  <1>9. Cardinality(e.states) = Cardinality(Site)
    <2> DEFINE f == [v \in Site |-> Shown(sv[v])]
    <2>1. f \in [Site -> e.states]
      BY <1>2, <1>5
    <2>2. \A u, v \in Site : f[u] = f[v] => u = v
      <3>1. \A v \in Site : f[v].site = v
        BY <1>2, <1>6, <1>7
      <3> QED BY <3>1
    <2>3. \A y \in e.states : \E v \in Site : f[v] = y
      BY <1>2, <1>5
    <2>4. f \in Bijection(Site, e.states)
      BY <2>1, <2>2, <2>3 DEF Bijection, Injection, Surjection, IsInjective
    <2>5. ExistsBijection(Site, e.states)
      BY <2>4 DEF ExistsBijection
    <2> QED BY <2>5, SiteFinite, FS_Bijection
  <1>10. SentIn(e) = S /\ ReceivedIn(e) = R
    BY <1>5, <1>6 DEF SentIn, ReceivedIn, SentBy, ReceivedBy
  <1>11. ConsistentCut(e)
    BY <1>3, <1>4, <1>5, <1>8, <1>9, <1>10 DEF ConsistentCut
  <1>12. ASSUME NEW i \in S PROVE \E v \in Site : i \in w[v].received
    <2>1. CASE i \in R
      BY <1>2, <2>1 DEF ReceivedBy, Backed
    <2>2. CASE i \in cn.preposts
      BY <2>2 DEF Tally, Prior
    <2> QED BY <1>4, <2>1, <2>2
  <1>13. \A v \in Site : \A i \in sv[v].sent : i \in S
    BY <1>2 DEF SentBy
  <1> QED BY <1>2, <1>11, <1>12, <1>13 DEF e

LEMMA ConcludesGoes ==
    ASSUME Base, Base', NEW s, NEW t, NEW m, NEW q, NEW X, NEW sn, NEW wk,
           Event(s, t, m, q, X, sn, wk), Works(s, t, m, X, sn, wk),
           NEW mk, NEW sv, NEW r, NEW cut, Progress(mk, sv, r, cut),
           Concludes(s, t, m, X, sn, wk)
    PROVE  /\ Goes /\ Live(t) /\ ~Live(t)'
           /\ \E e \in Export : ConsistentCut(e) /\ exports' = Append(exports, e)
  <1>1. /\ t \in Site /\ snap'[t] = sn /\ Adds(s, t, m, q, X) /\ Acts(s, t, m, q)
        /\ Carriage
        /\ \A v \in Site : v # t => snap'[v] = snap[v]
        /\ \A v \in Site : \A j : Knows(v, j) => Knows(v, j)'
        /\ \A n : n \in Wire' => n \in Wire \/ n \in X
    BY EventFacts
  <1>2. PICK cn \in SnapshotState :
           /\ Counts(s, t, m, cn, wk) /\ Ready(cn) /\ sn = Concluded(cn)
           /\ X = {New1(t, BROADCAST, Reset)}
           /\ exports' = Append(exports, Exported(t, cn))
    BY DEF Concludes
  <1>3. PICK x : x = New1(t, BROADCAST, Reset)
    OBVIOUS
  <1>4. /\ X = {x} /\ x.body = Reset
        /\ ~IsApp(x) /\ ~IsState(x) /\ ~IsPrepost(x) /\ x.body # Marker
    BY <1>2, <1>3 DEF New1, Reset, Marker, IsApp, IsState, IsPrepost
  <1>5. sn.bilan = cn.bilan /\ sn.myColor = White /\ ~sn.isInitiator
    BY <1>2, ConcludedFacts
  <1>6. /\ Live(t) /\ Tally(cn, t, mk, sv, work')
        /\ Traffic(work') /\ Backed(sv, work') /\ Agree(t, mk, sv, work')
        /\ \A n \in Wire : Awaited(n)' /\ n.dest = t /\ Fits(n, mk, sv) =>
              /\ IsState(n) => sv[n.id[1]] \notin cn.states
              /\ IsPrepost(n) => n.body.item \notin cn.preposts
    BY <1>2, <1>4, <1>5, CountsFacts
  <1>7. /\ ConsistentCut(Exported(t, cn))
        /\ \A v \in Site : mk[v] = mk[t] /\ sv[v] \in cn.states
        /\ \A i \in SentBy(cn.states) : \E v \in Site : i \in work'[v].received
        /\ \A v \in Site : \A i \in sv[v].sent : i \in SentBy(cn.states)
    BY <1>1, <1>2, <1>6, ReadyIsCut
  <1>8. \A v \in Site : /\ IsRed(v) /\ UpToDate(v, r) /\ Knows(v, mk[t])
                        /\ v # t => ~Live(v)
    BY <1>1, <1>6, <1>7, LiveFacts
  <1>9. /\ ~IsRed(t)' /\ \A v \in Site : ~Live(v)'
        /\ \A v \in Site : v # t => IsRed(v)'
    BY <1>1, <1>5, <1>8 DEF IsRed, Live, White, Red
  <1>10. /\ x.id \in Ids /\ x.id[1] = t /\ ~Drawn(x.id) /\ Drawn(x.id)'
         /\ \A n \in Wire : n.id # x.id
         /\ \A v \in Site : Knows(v, x.id)' => v = t
    BY <1>1, <1>4, AddsFacts
  <1>11. /\ Saved(mk, sv, r) /\ Collected(mk, sv) /\ Marks(mk) /\ Resets(r, cut)
         /\ Core(t, mk, sv, r)
    BY <1>1, <1>6 DEF Progress
  <1>12. Saved(mk, sv, x.id)'
    BY <1>10, <1>11, RenewedNot, SavedKept
  <1>13. ASSUME NEW n \in Wire', Awaited(n)', IsState(n) \/ IsPrepost(n) PROVE FALSE
    <2>1. n \in Wire /\ Awaited(n)
      BY <1>1, <1>4, <1>13 DEF Awaited
    <2>2. Fits(n, mk, sv) /\ n.dest \in Site
      BY <1>11, <2>1 DEF Collected, Awaited
    <2>3. n.dest = t
      BY <1>8, <1>13, <2>2 DEF Fits, StateFits, PrepostFits
    <2>4. CASE IsState(n)
      <3>1. n.id[1] \in Site
        BY <1>1, <2>1 DEF Carriage, Routed, Drawn, Ids
      <3> QED BY <1>6, <1>7, <1>13, <2>1, <2>2, <2>3, <2>4, <3>1
    <2>5. CASE IsPrepost(n)
      <3>1. Prior(n.body.item, t, mk, sv, work) /\ n.body.item \notin cn.preposts
        BY <1>6, <1>13, <2>1, <2>2, <2>3, <2>5 DEF Fits, PrepostFits
      <3>2. Lasts(t, mk, sv, work, mk, sv, work')
        BY WorkFacts DEF Lasts
      <3>3. Prior(n.body.item, t, mk, sv, work')
        BY <1>1, <3>1, <3>2, PriorKept
      <3>4. Counting(cn)
        BY <1>1, <1>6, <3>1, <3>3, TallyWaits
      <3>5. cn.nbEtats = 0 /\ cn.nbMsg = 0
        BY <1>2 DEF Ready
      <3> QED BY <3>4, <3>5 DEF Counting
    <2> QED BY <1>13, <2>4, <2>5
  <1>14. Collected(mk, sv)'
    BY <1>13 DEF Collected, Fits, Same, IsState, IsPrepost
  <1>15. Marks(mk)'
    <2> SUFFICES ASSUME NEW n \in Wire', n.body = Marker, n.sender \in Site
                 PROVE  AllKnow(n.id)'
      BY DEF Marks
    <2>1. n \in Wire
      BY <1>1, <1>4
    <2>2. AllKnow(n.id)
      BY <1>8, <1>11, <2>1 DEF Marks, AllKnow
    <2> QED BY <1>1, <2>2 DEF AllKnow
  <1> DEFINE S == SentBy(cn.states)
  <1>16. PICK cut2 : cut2 = S
    OBVIOUS
  <1> HIDE DEF S
  <1>17. Resets(x.id, cut2)'
    <2>1. ASSUME NEW n \in Wire', n.body = Reset PROVE n.id = x.id \/ AllKnow(n.id)'
      <3>1. CASE n \in Wire
        <4>1. AllKnow(n.id)
          <5>1. CASE n.id = r
            <6>1. r # NoId
              BY <1>1, <3>1, <5>1, NoSiteFacts DEF Carriage, Routed, Drawn, Ids, NoId
            <6> QED BY <1>8, <5>1, <6>1 DEF UpToDate, AllKnow
          <5> QED BY <1>11, <2>1, <3>1, <5>1 DEF Resets
        <4> QED BY <1>1, <4>1 DEF AllKnow
      <3> QED BY <1>1, <1>4, <2>1, <3>1
    <2>2. PassedOn(x.id)'
      <3>1. x \in Elems(q) /\ LinksTypeOK(Body) /\ Adjacent
        BY <1>1, <1>4 DEF Adds, Carriage
      <3> QED BY <1>1, <1>10, <3>1, FreshPassedOn
    <2>3. ASSUME NEW n, n \in Wire \/ n \in X, n \in WhiteSince(cut2) PROVE FALSE
      <3>1. IsApp(n) /\ n.body.color = White /\ n.id \notin cut2 /\ n \in Packet
        BY <2>3 DEF WhiteSince
      <3>2. n \in Wire /\ n.id[1] \in Site
        BY <1>1, <1>4, <2>3, <3>1 DEF Carriage, Routed, Drawn, Ids
      <3>3. n.id \notin sv[n.id[1]].sent /\ mk[n.id[1]] = mk[t]
        BY <1>7, <1>16, <3>1, <3>2 DEF S
      <3>4. n \in Late(t, mk, sv)
        BY <3>1, <3>3 DEF Late
      <3>5. n.body.color = Red
        BY <1>11, <3>2, <3>4 DEF Core, LateIsRed
      <3> QED BY <3>1, <3>5 DEF White, Red
    <2>4. Behind(x.id, WhiteSince(cut2))'
      <3>1. \A a, b \in Site : \A k \in Places(a, b)' : link'[a][b][k] \notin WhiteSince(cut2)
        BY <1>1, <2>3, PlaceHolds
      <3>2. WhiteSince(cut2)' = WhiteSince(cut2)
        BY DEF WhiteSince
      <3> QED BY <3>1, <3>2 DEF Behind
    <2>5. \A n \in Wire' : n.id = x.id => n.body = Reset
      BY <1>1, <1>4, <1>10
    <2>6. \A i \in cut2 : \E v \in Site : i \in work'[v].received
      BY <1>7, <1>16 DEF S
    <2> QED BY <2>1, <2>2, <2>4, <2>5, <2>6 DEF Resets
  <1>18. ASSUME NEW v \in Site PROVE Hue(v, mk, x.id)'
    <2>1. x.id # NoId
      BY <1>1, <1>10, NoSiteFacts DEF NoId
    <2>2. CASE v = t
      BY <1>9, <1>10, <2>2 DEF Hue, UpToDate, Knows
    <2>3. CASE v # t
      BY <1>9, <1>10, <2>1, <2>3 DEF Hue, UpToDate
    <2> QED BY <2>2, <2>3
  <1>19. Progress(mk, sv, x.id, cut2)'
    BY <1>9, <1>12, <1>14, <1>15, <1>17, <1>18 DEF Progress
  <1>20. PICK i : i = x.id
    OBVIOUS
  <1>21. Goes
    BY <1>19, <1>20 DEF Goes
  <1>22. Exported(t, cn) \in Export
    BY <1>1, ExportedTyped
  <1> QED BY <1>1, <1>2, <1>6, <1>7, <1>9, <1>21, <1>22


-----------------------------------------------------------------------------
(* The theorems. *)

Going == \E mk, sv, r, cut : Progress(mk, sv, r, cut)
Lively == {v \in Site : Live(v)}
Clicking(t) == clicksLeft[t] > 0 /\ clicksLeft' = [clicksLeft EXCEPT ![t] = @ - 1]
(* What a step does to the initiators and to the files. *)
Outcome(t) ==
    \/ exports' = exports /\ Lively' \subseteq Lively
    \/ exports' = exports /\ Lively' \subseteq Lively \cup {t} /\ Clicking(t)
    \/ /\ t \in Lively /\ Lively' \subseteq Lively \ {t}
       /\ \E e \in Export : ConsistentCut(e) /\ exports' = Append(exports, e)

LEMMA HappensGoes ==
    ASSUME Base, Base', Going, NEW t \in Site, Happens(t)
    PROVE  Going' /\ Outcome(t)
  <1>1. PICK s, m, q, X, sn, wk : /\ Event(s, t, m, q, X, sn, wk)
                                  /\ Works(s, t, m, X, sn, wk)
                                  /\ Does(s, t, m, X, sn, wk)
    BY DEF Happens
  <1>2. PICK mk, sv, r, cut : Progress(mk, sv, r, cut)
    BY DEF Going
  <1>3. /\ snap'[t] = sn /\ \A v \in Site : v # t => snap'[v] = snap[v]
        /\ snap[t] \in SnapshotState /\ sn \in SnapshotState
    BY <1>1, EventFacts DEF Base, StateTypes, Event
  <1>4. /\ \A v \in Site : v # t => (Live(v)' <=> Live(v))
        /\ Live(t)' <=> sn.isInitiator
        /\ Live(t) <=> snap[t].isInitiator
    BY <1>3 DEF Live
  <1>5. Goes => Going'
    BY DEF Goes, Going
  <1>6. (sn.isInitiator => snap[t].isInitiator) => Lively' \subseteq Lively
    BY <1>4 DEF Lively
  <1>7. CASE GoesOn(s, t, m, X, sn, wk)
    <2>1. Goes
      BY <1>1, <1>2, <1>7, GoesOnGoes DEF Goes
    <2>2. sn.isInitiator = snap[t].isInitiator
      <3>1. PICK b : sn = [snap[t] EXCEPT !.bilan = b]
        BY <1>7 DEF GoesOn
      <3> QED BY <1>3, <3>1 DEF SnapshotState
    <2> QED BY <1>5, <1>6, <1>7, <2>1, <2>2 DEF GoesOn, Outcome
  <1>8. CASE Starts(s, t, X, sn, wk)
    <2>1. Goes
      BY <1>1, <1>2, <1>8, StartsGoes
    <2>2. Lively' \subseteq Lively \cup {t}
      BY <1>4 DEF Lively
    <2> QED BY <1>5, <1>8, <2>1, <2>2 DEF Starts, Outcome, Clicking
  <1>9. CASE Joins(s, t, m, X, sn, wk)
    <2>1. Goes
      BY <1>1, <1>2, <1>9, JoinsGoes
    <2>2. ~sn.isInitiator
      BY <1>3, <1>9 DEF Joins, Clicked, SnapshotState
    <2> QED BY <1>5, <1>6, <1>9, <2>1, <2>2 DEF Joins, Outcome
  <1>10. CASE GoesOnCounting(s, t, m, X, sn, wk)
    <2>1. Goes
      BY <1>1, <1>2, <1>10, CountingGoes DEF Goes
    <2>2. Live(t)
      BY <1>1, <1>2, <1>3, <1>10, CountsFacts DEF GoesOnCounting
    <2> QED BY <1>4, <1>5, <1>6, <1>10, <2>1, <2>2 DEF GoesOnCounting, Outcome
  <1>11. CASE Concludes(s, t, m, X, sn, wk)
    <2>1. /\ Goes /\ Live(t) /\ ~Live(t)'
          /\ \E e \in Export : ConsistentCut(e) /\ exports' = Append(exports, e)
      BY <1>1, <1>2, <1>11, ConcludesGoes
    <2>2. t \in Lively /\ Lively' \subseteq Lively \ {t}
      BY <1>4, <2>1 DEF Lively
    <2> QED BY <1>5, <2>1, <2>2 DEF Outcome
  <1>12. CASE TurnsWhite(s, t, m, X, sn, wk)
    <2>1. Goes
      BY <1>1, <1>2, <1>12, WhiteGoes
    <2>2. sn.isInitiator => snap[t].isInitiator
      BY <1>3, <1>12 DEF TurnsWhite, SnapshotState
    <2> QED BY <1>5, <1>6, <1>12, <2>1, <2>2 DEF TurnsWhite, Outcome
  <1> QED BY <1>1, <1>7, <1>8, <1>9, <1>10, <1>11, <1>12 DEF Does

(* As many exports and initiators as clicks, at most. *)
ClickSet == UNION {{s} \X (clicksLeft[s] + 1 .. Clicks[s]) : s \in Site}
Counted ==
    /\ \A v \in Site : clicksLeft[v] <= Clicks[v]
    /\ IsFiniteSet(ClickSet) /\ IsFiniteSet(Lively)
    /\ Len(exports) + Cardinality(Lively) <= Cardinality(ClickSet)
SnapInv == Base /\ Going /\ ExportsAreCuts /\ Counted

LEMMA ClicksGrow ==
    ASSUME Base, Counted, NEW t \in Site, Clicking(t)
    PROVE  /\ \A v \in Site : clicksLeft'[v] <= Clicks[v]
           /\ IsFiniteSet(ClickSet') /\ Cardinality(ClickSet') = Cardinality(ClickSet) + 1
  <1> DEFINE k == clicksLeft[t]
  <1>1. /\ clicksLeft \in [Site -> Nat] /\ Clicks \in [Site -> Nat]
        /\ k > 0 /\ clicksLeft' = [clicksLeft EXCEPT ![t] = k - 1]
        /\ \A v \in Site : clicksLeft[v] <= Clicks[v]
        /\ IsFiniteSet(ClickSet)
    BY ClicksAssumption DEF Base, StateTypes, Counted, Clicking
  <1>2. /\ k \in Nat /\ Clicks[t] \in Nat /\ clicksLeft'[t] = k - 1 /\ k <= Clicks[t]
        /\ \A v \in Site : v # t => clicksLeft'[v] = clicksLeft[v]
    BY <1>1
  <1>3. \A v \in Site : clicksLeft'[v] <= Clicks[v]
    BY <1>1, <1>2
  <1>4. (k - 1) + 1 .. Clicks[t] = (k + 1 .. Clicks[t]) \cup {k} /\ k \notin k + 1 .. Clicks[t]
    BY <1>2
  <1> HIDE DEF k
  <1>5. \A p : p \in ClickSet <=>
           \E s \in Site : p \in {s} \X (clicksLeft[s] + 1 .. Clicks[s])
    BY DEF ClickSet
  <1>6. \A p : p \in ClickSet' <=>
           \E s \in Site : p \in {s} \X (clicksLeft'[s] + 1 .. Clicks[s])
    BY DEF ClickSet
  <1>7. {t} \X (clicksLeft'[t] + 1 .. Clicks[t]) =
           ({t} \X (clicksLeft[t] + 1 .. Clicks[t])) \cup {<<t, k>>}
    <2>1. /\ clicksLeft'[t] + 1 .. Clicks[t] = (k - 1) + 1 .. Clicks[t]
          /\ clicksLeft[t] + 1 .. Clicks[t] = k + 1 .. Clicks[t]
      BY <1>2 DEF k
    <2>2. ASSUME NEW A PROVE {t} \X (A \cup {k}) = ({t} \X A) \cup {<<t, k>>}
      OBVIOUS
    <2>3. {t} \X ((k + 1 .. Clicks[t]) \cup {k}) =
             ({t} \X (k + 1 .. Clicks[t])) \cup {<<t, k>>}
      BY <2>2
    <2> QED BY <1>4, <2>1, <2>3
  <1>8. ClickSet' = ClickSet \cup {<<t, k>>}
    BY <1>2, <1>5, <1>6, <1>7
  <1>9. <<t, k>> \notin ClickSet
    <2>1. ASSUME NEW s \in Site, <<t, k>> \in {s} \X (clicksLeft[s] + 1 .. Clicks[s])
          PROVE  FALSE
      <3>1. s = t /\ k \in clicksLeft[t] + 1 .. Clicks[t]
        BY <2>1
      <3> QED BY <1>4, <3>1 DEF k
    <2> QED BY <1>5, <2>1
  <1>10. /\ IsFiniteSet(ClickSet \cup {<<t, k>>})
         /\ Cardinality(ClickSet \cup {<<t, k>>}) = Cardinality(ClickSet) + 1
    BY <1>1, <1>9, FS_AddElement
  <1> QED BY <1>3, <1>8, <1>10


LEMMA SnapHappens ==
    ASSUME SnapInv, NEW t \in Site, Happens(t), Base',
           clicksLeft' = clicksLeft \/ Clicking(t)
    PROVE  SnapInv'
  <1>1. Base /\ Going /\ ExportsAreCuts /\ Counted
    BY DEF SnapInv
  <1>2. Going' /\ Outcome(t)
    BY <1>1, HappensGoes
  <1>3. exports \in Seq(Export)
    BY <1>1 DEF Base, StateTypes
  <1>4. /\ Len(exports) \in Nat /\ IsFiniteSet(Lively) /\ IsFiniteSet(ClickSet)
        /\ Len(exports) + Cardinality(Lively) <= Cardinality(ClickSet)
        /\ Cardinality(Lively) \in Nat /\ Cardinality(ClickSet) \in Nat
    BY <1>1, <1>3, FS_CardinalityType DEF Counted
  <1>5. ExportsAreCuts'
    <2>1. CASE exports' = exports
      BY <1>1, <2>1 DEF ExportsAreCuts, ConsistentCut, SentIn, ReceivedIn
    <2>2. ASSUME NEW e \in Export, ConsistentCut(e), exports' = Append(exports, e)
          PROVE  ExportsAreCuts'
      <3>1. \A i \in DOMAIN exports' : exports'[i] = e \/
                                       (i \in DOMAIN exports /\ exports'[i] = exports[i])
        BY <1>3, <2>2
      <3> QED BY <1>1, <2>2, <3>1 DEF ExportsAreCuts, ConsistentCut, SentIn, ReceivedIn
    <2> QED BY <1>2, <2>1, <2>2 DEF Outcome
  <1>6. /\ \A v \in Site : clicksLeft'[v] <= Clicks[v]
        /\ IsFiniteSet(ClickSet') /\ Cardinality(ClickSet') \in Nat
        /\ Cardinality(ClickSet') >= Cardinality(ClickSet)
        /\ Clicking(t) => Cardinality(ClickSet') = Cardinality(ClickSet) + 1
    <2>1. CASE clicksLeft' = clicksLeft
      <3>1. ClickSet' = ClickSet
        BY <2>1 DEF ClickSet
      <3>2. ~Clicking(t)
        <4>1. clicksLeft \in [Site -> Nat]
          BY <1>1 DEF Base, StateTypes
        <4> QED BY <2>1, <4>1 DEF Clicking
      <3> QED BY <1>1, <1>4, <2>1, <3>1, <3>2 DEF Counted
    <2>2. CASE Clicking(t)
      BY <1>1, <1>4, <2>2, ClicksGrow
    <2> QED BY <2>1, <2>2
  <1>7. /\ IsFiniteSet(Lively')
        /\ Len(exports') + Cardinality(Lively') <= Cardinality(ClickSet')
    <2>1. CASE exports' = exports /\ Lively' \subseteq Lively
      <3>1. /\ IsFiniteSet(Lively') /\ Cardinality(Lively') <= Cardinality(Lively)
            /\ Cardinality(Lively') \in Nat
        BY <1>4, <2>1, FS_Subset, FS_CardinalityType
      <3> QED BY <1>4, <1>6, <2>1, <3>1
    <2>2. CASE exports' = exports /\ Lively' \subseteq Lively \cup {t} /\ Clicking(t)
      <3>1. /\ IsFiniteSet(Lively \cup {t})
            /\ Cardinality(Lively \cup {t}) <= Cardinality(Lively) + 1
            /\ Cardinality(Lively \cup {t}) \in Nat
        <4>1. /\ IsFiniteSet(Lively \cup {t})
              /\ Cardinality(Lively \cup {t}) =
                    IF t \in Lively THEN Cardinality(Lively) ELSE Cardinality(Lively) + 1
          BY <1>4, FS_AddElement
        <4> QED BY <1>4, <4>1
      <3>2. /\ IsFiniteSet(Lively') /\ Cardinality(Lively') <= Cardinality(Lively \cup {t})
            /\ Cardinality(Lively') \in Nat
        BY <2>2, <3>1, FS_Subset, FS_CardinalityType
      <3> QED BY <1>4, <1>6, <2>2, <3>1, <3>2
    <2>3. ASSUME t \in Lively, Lively' \subseteq Lively \ {t}, NEW e \in Export,
                 exports' = Append(exports, e)
          PROVE  /\ IsFiniteSet(Lively')
                 /\ Len(exports') + Cardinality(Lively') <= Cardinality(ClickSet')
      <3>1. /\ IsFiniteSet(Lively \ {t})
            /\ Cardinality(Lively \ {t}) = Cardinality(Lively) - 1
        BY <1>4, <2>3, FS_RemoveElement
      <3>2. /\ IsFiniteSet(Lively') /\ Cardinality(Lively') <= Cardinality(Lively \ {t})
            /\ Cardinality(Lively') \in Nat
        BY <2>3, <3>1, FS_Subset, FS_CardinalityType
      <3>3. Len(exports') = Len(exports) + 1
        BY <1>3, <2>3
      <3> QED BY <1>4, <1>6, <3>1, <3>2, <3>3
    <2> QED BY <1>2, <2>1, <2>2, <2>3 DEF Outcome
  <1>8. Counted'
    BY <1>6, <1>7 DEF Counted
  <1> QED BY <1>2, <1>5, <1>8 DEF SnapInv

LEMMA SnapInit == Init => SnapInv
  <1> SUFFICES ASSUME Init PROVE SnapInv
    OBVIOUS
  <1>1. Base
    BY BaseInit
  <1>2. /\ LinksInit /\ snap = [s \in Site |-> NoSnapshot]
        /\ exports = <<>> /\ clicksLeft = Clicks
    BY DEF Init
  <1>3. /\ \A v \in Site : ~Live(v) /\ ~IsRed(v)
        /\ \A n : n \notin Wire
    <2>1. \A u, v \in Site : Places(u, v) = {}
      BY <1>2, LinksInitFacts DEF LinksInit
    <2>2. \A n : n \notin Wire
      BY <2>1, OnWire
    <2> QED BY <1>2, <2>2 DEF Live, IsRed, NoSnapshot, White, Red
  <1> DEFINE mk == [v \in Site |-> NoId]
             sv == [v \in Site |-> [site |-> v, sent |-> {}, received |-> {}]]
  <1>4. Saved(mk, sv, NoId)
    <2>1. /\ mk \in [Site -> Ids \cup {NoId}] /\ sv \in [Site -> SiteState]
          /\ \A v \in Site : mk[v] = NoId /\ sv[v].site = v
                             /\ sv[v].sent = {} /\ sv[v].received = {}
      BY DEF SiteState
    <2> QED BY <2>1 DEF Saved
  <1>5. Progress(mk, sv, NoId, {})
    <2>1. Resets(NoId, {})
      BY <1>3 DEF Resets
    <2>2. \A v \in Site : Hue(v, mk, NoId)
      BY <1>3 DEF Hue, UpToDate
    <2>3. Collected(mk, sv) /\ Marks(mk)
      BY <1>3 DEF Collected, Marks
    <2> QED BY <1>3, <1>4, <2>1, <2>2, <2>3 DEF Progress
  <1>6. ExportsAreCuts
    BY <1>2 DEF ExportsAreCuts
  <1>7. Counted
    <2>1. Lively = {}
      BY <1>3 DEF Lively
    <2>2. ClickSet = {}
      <3>1. \A s \in Site : clicksLeft[s] + 1 .. Clicks[s] = {}
        BY <1>2, ClicksAssumption
      <3>2. \A p : p \notin ClickSet
        BY <3>1 DEF ClickSet
      <3> QED BY <3>2
    <2>3. \A v \in Site : clicksLeft[v] <= Clicks[v]
      BY <1>2, ClicksAssumption
    <2>4. IsFiniteSet({}) /\ Cardinality({}) = 0 /\ Len(exports) = 0
      BY <1>2, FS_EmptySet
    <2> QED BY <2>1, <2>2, <2>3, <2>4 DEF Counted
  <1> HIDE DEF mk, sv
  <1>8. Going
    BY <1>5 DEF Going
  <1> QED BY <1>1, <1>6, <1>7, <1>8 DEF SnapInv

LEMMA SnapNext == SnapInv /\ [Next]_vars => SnapInv'
  <1>1. ASSUME SnapInv, Next PROVE SnapInv'
    <2>1. Base
      BY <1>1 DEF SnapInv
    <2>2. Base'
      BY <1>1, <2>1, BaseNext
    <2>3. PICK t \in Site : Happens(t) /\ (clicksLeft' = clicksLeft \/ Clicking(t))
      BY <1>1, <2>1, StepDoes DEF Clicking
    <2> QED BY <1>1, <2>2, <2>3, SnapHappens
  <1>2. ASSUME SnapInv, UNCHANGED vars PROVE SnapInv'
    <2>1. /\ link' = link /\ seen' = seen /\ sent' = sent /\ snap' = snap /\ work' = work
          /\ exports' = exports /\ clicksLeft' = clicksLeft
      BY <1>2 DEF vars, linkVars
    <2>2. Base'
      BY <1>2, BaseNext DEF SnapInv
    <2>3. /\ ExportsAreCuts' /\ Counted'
      BY <1>2, <2>1 DEF SnapInv, ExportsAreCuts, ConsistentCut, SentIn, ReceivedIn,
                        Counted, ClickSet, Lively, Live
    <2>4. Going'
      <3>1. PICK mk, sv, r, cut : Progress(mk, sv, r, cut)
        BY <1>2 DEF SnapInv, Going
      <3>2. Wire' = Wire /\ \A u, v : Places(u, v)' = Places(u, v)
        BY <2>1 DEF Wire, Places
      <3>3. /\ \A v, i : Knows(v, i)' <=> Knows(v, i)
            /\ \A v : (IsRed(v)' <=> IsRed(v)) /\ (Live(v)' <=> Live(v))
            /\ \A i : Drawn(i)' <=> Drawn(i)
        BY <2>1 DEF Knows, IsRed, Live, Drawn
      <3>4. \A i, K : /\ PassedOn(i)' <=> PassedOn(i)
                      /\ Behind(i, K)' <=> Behind(i, K)
        <4>1. \A b, c, i : Reaches(b, c, i)' <=> Reaches(b, c, i)
          BY <2>1, <3>2, <3>3 DEF Reaches
        <4>2. \A a, b, k, i : Ahead(a, b, k, i)' <=> Ahead(a, b, k, i)
          BY <2>1, <3>2, <3>3 DEF Ahead
        <4> QED BY <2>1, <3>2, <3>3, <4>1, <4>2 DEF PassedOn, Behind
      <3>5. Saved(mk, sv, r)'
        BY <2>1, <3>1, <3>3 DEF Progress, Saved
      <3>6. ASSUME NEW c \in Site, Live(c)'
            PROVE  Core(c, mk, sv, r)' /\ Tally(snap'[c], c, mk, sv, work')
        <4>1. Core(c, mk, sv, r) /\ Tally(snap[c], c, mk, sv, work)
          BY <3>1, <3>3, <3>6 DEF Progress
        <4>2. Follow(c, mk, r)'
          BY <2>1, <3>3, <4>1 DEF Core, Follow, UpToDate
        <4>3. Called(c, mk)' /\ PassedOn(mk[c])'
          BY <3>2, <3>4, <4>1 DEF Core, Called
        <4>4. LateIsRed(c, mk, sv)'
          BY <3>2, <3>4, <4>1 DEF Core, LateIsRed, Late
        <4>5. Consistent(c, mk, sv)'
          BY <2>1, <3>3, <4>1 DEF Core, Consistent
        <4> QED BY <2>1, <4>1, <4>2, <4>3, <4>4, <4>5 DEF Core
      <3>7. Collected(mk, sv)'
        BY <2>1, <3>1, <3>2, <3>3
           DEF Progress, Collected, Awaited, Fits, StateFits, PrepostFits, Same,
               IsState, IsPrepost
      <3>8. Marks(mk)'
        BY <3>1, <3>2, <3>3 DEF Progress, Marks, AllKnow
      <3>9. Resets(r, cut)'
        BY <2>1, <3>1, <3>2, <3>3, <3>4 DEF Progress, Resets, AllKnow, WhiteSince
      <3>10. \A v \in Site : Hue(v, mk, r)'
        BY <2>1, <3>1, <3>3 DEF Progress, Hue, UpToDate, Trails
      <3>11. Progress(mk, sv, r, cut)'
        BY <3>5, <3>6, <3>7, <3>8, <3>9, <3>10 DEF Progress
      <3> QED BY <3>11 DEF Going
    <2> QED BY <2>2, <2>3, <2>4 DEF SnapInv
  <1> QED BY <1>1, <1>2

(* A snapshot shows a cut the system could have been in: finalizeSnapshot   *)
(* writes the state of every site, no message that was received and not    *)
(* sent, and the preposts that were on their way, and only these.          *)
THEOREM SnapshotCuts == Spec => []ExportsAreCuts
  <1>1. SnapInv => ExportsAreCuts
    BY DEF SnapInv
  <1> QED BY <1>1, SnapInit, SnapNext, PTL DEF Spec

(* A click is exported once at most, also when two users click at the same *)
(* time, and none of the late messages concludes it a second time.         *)
THEOREM SnapshotOnce == Spec => []OneExportPerClick
  <1>1. SnapInv => OneExportPerClick
    <2> SUFFICES ASSUME SnapInv PROVE OneExportPerClick
      OBVIOUS
    <2>1. Counted /\ exports \in Seq(Export)
      BY DEF SnapInv, Base, StateTypes
    <2>2. ClicksMade = Cardinality(ClickSet)
      BY DEF ClicksMade, ClickSet
    <2>3. /\ Len(exports) \in Nat /\ Cardinality(Lively) \in Nat
          /\ Cardinality(ClickSet) \in Nat
          /\ Len(exports) + Cardinality(Lively) <= Cardinality(ClickSet)
      BY <2>1, FS_CardinalityType DEF Counted
    <2> QED BY <2>2, <2>3 DEF OneExportPerClick
  <1> QED BY <1>1, SnapInit, SnapNext, PTL DEF Spec

=============================================================================
