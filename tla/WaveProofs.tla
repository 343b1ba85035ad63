----------------------------- MODULE WaveProofs -----------------------------
(***************************************************************************)
(* What is proved of the waves of vague.go: the types in every network,    *)
(* and, when the network is a tree, that a wave meets each site once, that *)
(* a complete wave has met all of them, and that no wave is abandoned.     *)
(*                                                                         *)
(* The last three are about trees because they fail elsewhere: behind a    *)
(* cycle an echo may overtake the wave it answers, and is counted twice.   *)
(***************************************************************************)
EXTENDS Wave, LinksProofs

-----------------------------------------------------------------------------
(* The types, in every network. *)

(* A parent is a neighbour, and only an initiator has none. *)
KnownParent(s, w) ==
    \/ waves[s][w].parent \in Neighbours[s]
    \/ waves[s][w].parent = NoSite /\ s = w
StatesTyped ==
    \A s \in Site : DOMAIN waves[s] \subseteq Initiators /\
        \A w \in DOMAIN waves[s] : waves[s][w] \in WaveState /\ KnownParent(s, w)
(* A wave goes over one link, an echo is meant for one site. *)
Addressed(m) ==
    /\ m.body.action = "WAVE" => m.dest = BROADCAST_NEIGHBORS
    /\ m.body.action = "RETURN_WAVE" => m.dest \in Site
AllAddressed == \A u, v \in Site : \A k \in Places(u, v) : Addressed(link[u][v][k])
Types ==
    /\ LinksTypeOK(Body) /\ LinksInv /\ AllAddressed
    /\ waves = [s \in Site |-> waves[s]] /\ StatesTyped
    /\ met \in [Initiators -> Seq(Site)]
    /\ complete \subseteq Initiators

(* The messages that the handlers write. *)
WaveOf(t, w, parent) ==
    [id |-> <<t, sent[t] + 1>>, sender |-> t, dest |-> BROADCAST_NEIGHBORS,
     body |-> [action |-> "WAVE", wave |-> w, parent |-> parent]]
EchoOf(t, w, dest) ==
    [id |-> <<t, sent[t] + 1>>, sender |-> t, dest |-> dest,
     body |-> [action |-> "RETURN_WAVE", wave |-> w, parent |-> NoSite]]

LEMMA NbNeighborsFacts ==
    ASSUME NEW s \in Site
    PROVE  IsFiniteSet(Neighbours[s]) /\ NbNeighbors(s) \in Nat
  <1>1. Neighbours[s] \subseteq Site
    BY NeighboursAssumption
  <1> QED BY <1>1, SiteFinite, FS_Subset, FS_CardinalityType DEF NbNeighbors

LEMMA OnlyNeighbour ==
    ASSUME NEW s \in Site, NbNeighbors(s) = 1, NEW u \in Neighbours[s]
    PROVE  Neighbours[s] = {u}
  <1>1. IsFiniteSet(Neighbours[s]) /\ Cardinality(Neighbours[s]) = 1
    BY NbNeighborsFacts DEF NbNeighbors
  <1>2. IsFiniteSet(Neighbours[s] \ {u}) /\ Cardinality(Neighbours[s] \ {u}) = 0
    BY <1>1, FS_RemoveElement
  <1>3. Neighbours[s] \ {u} = {}
    BY <1>2, FS_EmptySet
  <1> QED BY <1>3

(* The messages that a site writes are messages. *)
LEMMA WrittenIsMessage ==
    ASSUME LinksTypeOK(Body), NEW t \in Site, NEW w \in Initiators,
           NEW parent \in Site \cup {NoSite}, NEW dest \in Site
    PROVE  /\ WaveOf(t, w, parent) \in Message(Body) /\ Addressed(WaveOf(t, w, parent))
           /\ EchoOf(t, w, dest) \in Message(Body) /\ Addressed(EchoOf(t, w, dest))
  <1>1. <<t, sent[t] + 1>> \in Ids
    BY DEF LinksTypeOK, Ids
  <1>2. Addressed(WaveOf(t, w, parent)) /\ Addressed(EchoOf(t, w, dest))
    BY DEF Addressed, WaveOf, EchoOf
  <1>3. WaveOf(t, w, parent) \in Message(Body)
    BY <1>1 DEF WaveOf, Message, Body
  <1>4. EchoOf(t, w, dest) \in Message(Body)
    BY <1>1 DEF EchoOf, Message, Body
  <1> QED BY <1>2, <1>3, <1>4

(* What t knows of the message it receives. *)
LEMMA ReceivedFacts ==
    ASSUME Types, NEW s \in Site, NEW t \in Site, Receives(s, t),
           NEW m, m = FirstOf(s, t)
    PROVE  /\ link[s][t] # <<>> /\ 1 \in Places(s, t) /\ m = link[s][t][1]
           /\ m \in Message(Body) /\ m.body \in Body /\ m.body.wave \in Initiators
           /\ ~Forwards(t, m) /\ m.id \notin seen[t] /\ m.sender # t
           /\ CarriedWell(s, t, m) /\ s \in Neighbours[t]
           /\ m.body.action = "WAVE" => m.sender = s
           /\ m.body.action = "RETURN_WAVE" => m.dest = t
           /\ Again(s, t) = {}
  <1>1. link[s][t] # <<>> /\ IsNew(t, m) /\ Processes(t, m)
    BY DEF Receives
  <1>2. link[s][t] \in Seq(Message(Body))
    BY DEF Types, LinksTypeOK
  <1>3. m = link[s][t][1]
    BY <1>1, <1>2 DEF FirstOf
  <1>4. 1 \in Places(s, t) /\ m \in Message(Body) /\ CarriedWell(s, t, m)
    BY <1>1, <1>3, FirstFacts DEF Types
  <1>5. m.body \in Body /\ m.body.wave \in Initiators
    BY <1>4 DEF Message, Body
  <1>6. Addressed(m)
    BY <1>3, <1>4 DEF Types, AllAddressed
  <1>7. BROADCAST \notin Site /\ BROADCAST_NEIGHBORS \notin Site
    BY SiteAssumption DEF BROADCAST, BROADCAST_NEIGHBORS
  <1>8. m.body.action = "WAVE" \/ m.body.action = "RETURN_WAVE"
    BY <1>5 DEF Body
  <1>9. ~Forwards(t, m) /\ (m.body.action = "RETURN_WAVE" => m.dest = t)
    BY <1>1, <1>6, <1>7, <1>8 DEF Addressed, Processes, Forwards
  <1>10. m.id \notin seen[t] /\ m.sender # t
    BY <1>1 DEF IsNew, Id, Processes
  <1>11. s \in Neighbours[t] /\ (m.body.action = "WAVE" => m.sender = s)
    BY <1>4, <1>6, NeighboursAssumption DEF CarriedWell, Addressed
  <1>12. Again(s, t) = {}
    BY <1>9 DEF Again
  <1> QED BY <1>1, <1>3, <1>4, <1>5, <1>9, <1>10, <1>11, <1>12

(* t answers nothing, a wave, or an echo. *)
LEMMA NoAnswer ==
    ASSUME Types, NEW s \in Site, NEW t \in Site, Receives(s, t), Take(s, t, <<>>)
    PROVE  LinksTypeOK(Body)' /\ Taking(s, t, {})
  <1>1. link[s][t] # <<>> /\ Again(s, t) = {}
    BY ReceivedFacts
  <1>2. LinksTypeOK(Body)' /\ Taking(s, t, Again(s, t))
    BY <1>1, TakeSilent DEF Types, Take
  <1> QED BY <1>1, <1>2

LEMMA WaveAnswer ==
    ASSUME Types, NEW s \in Site, NEW t \in Site, Receives(s, t),
           NEW w \in Initiators, NEW parent \in Site,
           Take(s, t, <<BuildWave(w, parent)>>)
    PROVE  LinksTypeOK(Body)' /\ Taking(s, t, {WaveOf(t, w, parent)})
  <1> DEFINE body == [action |-> "WAVE", wave |-> w, parent |-> parent]
  <1>1. link[s][t] # <<>> /\ ~Forwards(t, FirstOf(s, t))
    BY ReceivedFacts
  <1>2. WaveOf(t, w, parent) \in Message(Body)
    BY WrittenIsMessage DEF Types
  <1>3. TakeTo(s, t, Neighbours[t], <<Letter(BROADCAST_NEIGHBORS, body)>>)
    BY DEF Take, BuildWave
  <1>4. WaveOf(t, w, parent) = [id |-> <<t, sent[t] + 1>>, sender |-> t,
                                dest |-> BROADCAST_NEIGHBORS, body |-> body]
    BY DEF WaveOf
  <1> HIDE DEF body
  <1> QED BY <1>1, <1>2, <1>3, <1>4, TakeAnswer DEF Types

LEMMA EchoAnswer ==
    ASSUME Types, NEW s \in Site, NEW t \in Site, Receives(s, t),
           NEW w \in Initiators, NEW dest \in Site,
           Take(s, t, BuildEcho(w, dest))
    PROVE  LinksTypeOK(Body)' /\ Taking(s, t, {EchoOf(t, w, dest)})
  <1> DEFINE body == [action |-> "RETURN_WAVE", wave |-> w, parent |-> NoSite]
  <1>1. link[s][t] # <<>> /\ ~Forwards(t, FirstOf(s, t))
    BY ReceivedFacts
  <1>2. EchoOf(t, w, dest) \in Message(Body)
    BY WrittenIsMessage DEF Types
  <1>3. dest # NoSite
    BY SiteAssumption DEF NoSite
  <1>4. TakeTo(s, t, Neighbours[t], <<Letter(dest, body)>>)
    BY <1>3 DEF Take, BuildEcho
  <1>5. EchoOf(t, w, dest) = [id |-> <<t, sent[t] + 1>>, sender |-> t,
                              dest |-> dest, body |-> body]
    BY DEF EchoOf
  <1> HIDE DEF body
  <1> QED BY <1>1, <1>2, <1>4, <1>5, TakeAnswer DEF Types

LEMMA StartSends ==
    ASSUME Types, NEW s \in Initiators, InitWave(s)
    PROVE  LinksTypeOK(Body)' /\ Sending(s, WaveOf(s, s, NoSite))
  <1> DEFINE body == [action |-> "WAVE", wave |-> s, parent |-> NoSite]
  <1>1. s \in Site
    BY InitiatorsAssumption
  <1>2. WaveOf(s, s, NoSite) \in Message(Body)
    BY <1>1, WrittenIsMessage DEF Types
  <1>3. OriginateTo(s, Neighbours[s], <<Letter(BROADCAST_NEIGHBORS, body)>>)
    BY DEF InitWave, Originate, BuildWave
  <1>4. WaveOf(s, s, NoSite) = [id |-> <<s, sent[s] + 1>>, sender |-> s,
                                dest |-> BROADCAST_NEIGHBORS, body |-> body]
    BY DEF WaveOf
  <1> HIDE DEF body
  <1> QED BY <1>1, <1>2, <1>3, <1>4, OriginateIsSending DEF Types

(* What a step does to what the sites know of the waves. *)
KnownElsewhere(t, w) ==
    \A s \in Site : \A x \in Initiators : s # t \/ x # w =>
        /\ Knows(s, x)' <=> Knows(s, x)
        /\ Knows(s, x) => waves'[s][x] = waves[s][x]

LEMMA SetFacts ==
    ASSUME Types, NEW t \in Site, NEW w \in Initiators, NEW state, Set(t, w, state)
    PROVE  /\ waves' = [s \in Site |-> waves'[s]] /\ KnownElsewhere(t, w)
           /\ Knows(t, w)' /\ waves'[t][w] = state
           /\ \A s \in Site : DOMAIN waves'[s] \subseteq Initiators
  <1>1. waves = [s \in Site |-> waves[s]] /\ \A s \in Site : DOMAIN waves[s] \subseteq Initiators
    BY DEF Types, StatesTyped
  <1>2. /\ waves' = [s \in Site |-> waves'[s]]
        /\ \A s \in Site : s # t => waves'[s] = waves[s]
        /\ waves'[t] = [x \in DOMAIN waves[t] \cup {w} |->
                           IF x = w THEN state ELSE waves[t][x]]
    BY <1>1 DEF Set
  <1>3. DOMAIN waves'[t] = DOMAIN waves[t] \cup {w}
    BY <1>2
  <1>4. KnownElsewhere(t, w)
    BY <1>2, <1>3 DEF KnownElsewhere, Knows
  <1> QED BY <1>1, <1>2, <1>3, <1>4 DEF Knows

LEMMA ForgetFacts ==
    ASSUME Types, NEW t \in Site, NEW w \in Initiators, Forget(t, w)
    PROVE  /\ waves' = [s \in Site |-> waves'[s]] /\ KnownElsewhere(t, w)
           /\ ~Knows(t, w)'
           /\ \A s \in Site : DOMAIN waves'[s] \subseteq Initiators
  <1>1. waves = [s \in Site |-> waves[s]] /\ \A s \in Site : DOMAIN waves[s] \subseteq Initiators
    BY DEF Types, StatesTyped
  <1>2. /\ waves' = [s \in Site |-> waves'[s]]
        /\ \A s \in Site : s # t => waves'[s] = waves[s]
        /\ waves'[t] = [x \in DOMAIN waves[t] \ {w} |-> waves[t][x]]
    BY <1>1 DEF Forget
  <1>3. DOMAIN waves'[t] = DOMAIN waves[t] \ {w}
    BY <1>2
  <1>4. KnownElsewhere(t, w)
    BY <1>2, <1>3 DEF KnownElsewhere, Knows
  <1> QED BY <1>1, <1>2, <1>3, <1>4 DEF Knows

(* What a handler does when t takes a message of the wave w from s. *)
FirstWaveDoes(s, t, w) ==
    /\ Receives(s, t) /\ FirstOf(s, t).body.action = "WAVE" /\ FirstOf(s, t).sender = s
    /\ FirstOf(s, t).body.wave = w /\ w \in Initiators /\ ~Knows(t, w)
    /\ LinksTypeOK(Body)' /\ complete' = complete
    /\ met' = [met EXCEPT ![w] = Append(@, t)]
    /\ \/ /\ NbNeighbors(t) = 1 /\ waves' = waves
          /\ Taking(s, t, {EchoOf(t, w, s)})
       \/ /\ NbNeighbors(t) # 1 /\ Set(t, w, State(s, NbNeighbors(t) - 1))
          /\ Taking(s, t, {WaveOf(t, w, s)})
CountWaveDoes(s, t, w) ==
    /\ Receives(s, t) /\ FirstOf(s, t).body.action = "WAVE"
    /\ FirstOf(s, t).body.wave = w /\ w \in Initiators
    /\ Knows(t, w) /\ FirstOf(s, t).body.parent # t
    /\ LinksTypeOK(Body)' /\ met' = met /\ complete' = complete
    /\ \/ Forget(t, w)
       \/ Set(t, w, [waves[t][w] EXCEPT !.pending = @ - 1])
    /\ \/ Taking(s, t, {})
       \/ /\ waves[t][w].parent \in Site
          /\ Taking(s, t, {EchoOf(t, w, waves[t][w].parent)})
HandleEchoDoes(s, t, w, state) ==
    /\ Receives(s, t) /\ FirstOf(s, t).body.action = "RETURN_WAVE"
    /\ FirstOf(s, t).dest = t /\ FirstOf(s, t).body.wave = w /\ w \in Initiators
    /\ Knows(t, w) /\ state = waves[t][w] /\ ~state.done
    /\ LinksTypeOK(Body)' /\ met' = met
    /\ \/ /\ state.pending > 1 /\ complete' = complete
          /\ Set(t, w, [state EXCEPT !.pending = @ - 1]) /\ Taking(s, t, {})
       \/ /\ state.pending <= 1 /\ state.parent = NoSite
          /\ complete' = complete \cup {w}
          /\ Forget(t, w) /\ Taking(s, t, {})
       \/ /\ state.pending <= 1 /\ state.parent \in Site
          /\ complete' = complete
          /\ Set(t, w, [state EXCEPT !.pending = @ - 1, !.done = TRUE])
          /\ Taking(s, t, {EchoOf(t, w, state.parent)})

LEMMA FirstWaveFacts ==
    ASSUME Types, NEW s \in Site, NEW t \in Site, FirstWave(s, t),
           NEW m, m = FirstOf(s, t), NEW w, w = m.body.wave
    PROVE  FirstWaveDoes(s, t, w)
  <1>1. Receives(s, t) /\ m.body.action = "WAVE" /\ ~Knows(t, w)
    BY DEF FirstWave, ReceivesWave
  <1>2. m.sender = s /\ w \in Initiators
    BY <1>1, ReceivedFacts
  <1>3. met' = [met EXCEPT ![w] = Append(@, t)] /\ complete' = complete
    BY DEF FirstWave
  <1>4. CASE NbNeighbors(t) - 1 = 0
    <2>1. Take(s, t, BuildEcho(w, s)) /\ waves' = waves
      BY <1>2, <1>4 DEF FirstWave
    <2>2. LinksTypeOK(Body)' /\ Taking(s, t, {EchoOf(t, w, s)})
      BY <1>1, <1>2, <2>1, EchoAnswer
    <2> QED BY <1>1, <1>2, <1>3, <1>4, <2>1, <2>2, NbNeighborsFacts DEF FirstWaveDoes
  <1>5. CASE NbNeighbors(t) - 1 # 0
    <2>1. Take(s, t, <<BuildWave(w, s)>>) /\ Set(t, w, State(s, NbNeighbors(t) - 1))
      BY <1>2, <1>5 DEF FirstWave
    <2>2. LinksTypeOK(Body)' /\ Taking(s, t, {WaveOf(t, w, s)})
      BY <1>1, <1>2, <2>1, WaveAnswer
    <2> QED BY <1>1, <1>2, <1>3, <1>5, <2>1, <2>2, NbNeighborsFacts DEF FirstWaveDoes
  <1> QED BY <1>4, <1>5

LEMMA CountWaveFacts ==
    ASSUME Types, NEW s \in Site, NEW t \in Site, CountWave(s, t),
           NEW w, w = FirstOf(s, t).body.wave
    PROVE  CountWaveDoes(s, t, w)
  <1>1. /\ Receives(s, t) /\ FirstOf(s, t).body.action = "WAVE" /\ Knows(t, w)
        /\ FirstOf(s, t).body.parent # t
    BY DEF CountWave, ReceivesWave, ChildsWave
  <1>2. w \in Initiators
    BY <1>1, ReceivedFacts
  <1>3. met' = met /\ complete' = complete
    BY DEF CountWave
  <1>4. \/ Take(s, t, <<>>) /\ Set(t, w, [waves[t][w] EXCEPT !.pending = @ - 1])
        \/ Take(s, t, BuildEcho(w, waves[t][w].parent)) /\ Forget(t, w)
    BY DEF CountWave
  <1>5. waves[t][w].parent = NoSite \/ waves[t][w].parent \in Site
    BY <1>1, NeighboursAssumption DEF Types, StatesTyped, KnownParent, Knows
  <1>6. ASSUME Take(s, t, <<>>) PROVE LinksTypeOK(Body)' /\ Taking(s, t, {})
    BY <1>1, <1>6, NoAnswer
  <1>7. ASSUME Take(s, t, BuildEcho(w, waves[t][w].parent)), waves[t][w].parent \in Site
        PROVE  LinksTypeOK(Body)' /\ Taking(s, t, {EchoOf(t, w, waves[t][w].parent)})
    BY <1>1, <1>2, <1>7, EchoAnswer
  <1>8. ASSUME Take(s, t, BuildEcho(w, waves[t][w].parent)), waves[t][w].parent = NoSite
        PROVE  LinksTypeOK(Body)' /\ Taking(s, t, {})
    <2>1. BuildEcho(w, waves[t][w].parent) = <<>>
      BY <1>8 DEF BuildEcho
    <2> QED BY <1>6, <1>8, <2>1
  <1> QED BY <1>1, <1>2, <1>3, <1>4, <1>5, <1>6, <1>7, <1>8 DEF CountWaveDoes

LEMMA HandleEchoFacts ==
    ASSUME Types, NEW s \in Site, NEW t \in Site, HandleEcho(s, t),
           NEW m, m = FirstOf(s, t), NEW w, w = m.body.wave,
           NEW state, state = waves[t][w]
    PROVE  HandleEchoDoes(s, t, w, state)
  <1>1. Receives(s, t) /\ m.body.action = "RETURN_WAVE" /\ Knows(t, w) /\ ~state.done
    BY DEF HandleEcho, ReceivesWave, LateEcho
  <1>2. w \in Initiators /\ m.dest = t
    BY <1>1, ReceivedFacts
  <1>3. met' = met
    BY DEF HandleEcho
  <1>4. state.parent = NoSite \/ state.parent \in Site
    BY <1>1, NeighboursAssumption DEF Types, StatesTyped, KnownParent, Knows
  <1>5. ASSUME Take(s, t, <<>>) PROVE LinksTypeOK(Body)' /\ Taking(s, t, {})
    BY <1>1, <1>5, NoAnswer
  <1>6. ASSUME Take(s, t, BuildEcho(w, state.parent)), state.parent \in Site
        PROVE  LinksTypeOK(Body)' /\ Taking(s, t, {EchoOf(t, w, state.parent)})
    BY <1>1, <1>2, <1>6, EchoAnswer
  <1>7. \/ /\ state.pending > 1 /\ complete' = complete
           /\ Set(t, w, [state EXCEPT !.pending = @ - 1]) /\ Take(s, t, <<>>)
        \/ /\ state.pending <= 1 /\ state.parent = NoSite
           /\ complete' = complete \cup {w} /\ Forget(t, w) /\ Take(s, t, <<>>)
        \/ /\ state.pending <= 1 /\ state.parent # NoSite /\ complete' = complete
           /\ Set(t, w, [state EXCEPT !.pending = @ - 1, !.done = TRUE])
           /\ Take(s, t, BuildEcho(w, state.parent))
    BY DEF HandleEcho
  <1> QED BY <1>1, <1>2, <1>3, <1>4, <1>5, <1>6, <1>7 DEF HandleEchoDoes

LEMMA PassFacts ==
    ASSUME Types, NEW s \in Site, NEW t \in Site, Pass(s, t)
    PROVE  /\ link[s][t] # <<>> /\ LinksTypeOK(Body)' /\ Taking(s, t, Again(s, t))
           /\ ~(IsNew(t, FirstOf(s, t)) /\ Processes(t, FirstOf(s, t)))
           /\ waves' = waves /\ met' = met /\ complete' = complete
  <1>1. /\ link[s][t] # <<>> /\ TakeTo(s, t, Neighbours[t], <<>>)
        /\ ~(IsNew(t, FirstOf(s, t)) /\ Processes(t, FirstOf(s, t)))
        /\ waves' = waves /\ met' = met /\ complete' = complete
    BY DEF Pass, Relay, RelayTo
  <1>2. LinksTypeOK(Body)' /\ Taking(s, t, Again(s, t))
    BY <1>1, TakeSilent DEF Types
  <1> QED BY <1>1, <1>2

LEMMA IgnoreFacts ==
    ASSUME Types, NEW s \in Site, NEW t \in Site, Ignore(s, t)
    PROVE  /\ Receives(s, t) /\ LinksTypeOK(Body)' /\ Taking(s, t, {})
           /\ Ignorable(t, FirstOf(s, t).body)
           /\ waves' = waves /\ met' = met /\ complete' = complete
  <1>1. /\ Receives(s, t) /\ Take(s, t, <<>>) /\ Ignorable(t, FirstOf(s, t).body)
        /\ waves' = waves /\ met' = met /\ complete' = complete
    BY DEF Ignore
  <1> QED BY <1>1, NoAnswer

LEMMA TakingAddressed ==
    ASSUME Types, NEW s \in Site, NEW t \in Site, NEW out, Taking(s, t, out),
           \A x \in out : Addressed(x)
    PROVE  LinksInv' /\ AllAddressed'
  <1>1. LinksInv'
    BY TakingLinks DEF Types
  <1>2. AllAddressed'
    <2> SUFFICES ASSUME NEW u \in Site, NEW v \in Site, NEW k \in Places(u, v)'
                 PROVE  Addressed(link'[u][v][k])
      BY DEF AllAddressed, Addressed
    <2>1. ASSUME NEW l \in Places(u, v), link'[u][v][k] = link[u][v][l]
          PROVE  Addressed(link'[u][v][k])
      BY <2>1 DEF Types, AllAddressed
    <2> QED BY <2>1, TakingWhence DEF Types
  <1> QED BY <1>1, <1>2

LEMMA SendingAddressed ==
    ASSUME Types, NEW s \in Site, NEW x, Sending(s, x), Addressed(x)
    PROVE  LinksInv' /\ AllAddressed'
  <1>1. LinksInv'
    BY SendingLinks DEF Types
  <1>2. AllAddressed'
    <2> SUFFICES ASSUME NEW u \in Site, NEW v \in Site, NEW k \in Places(u, v)'
                 PROVE  Addressed(link'[u][v][k])
      BY DEF AllAddressed, Addressed
    <2> QED BY SendingWhence DEF Types, AllAddressed
  <1> QED BY <1>1, <1>2

(* Only the state of w at t changes. *)
LEMMA StatesAfter ==
    ASSUME Types, NEW t \in Site, NEW w \in Initiators, KnownElsewhere(t, w),
           \A s \in Site : DOMAIN waves'[s] \subseteq Initiators,
           Knows(t, w)' => waves'[t][w] \in WaveState /\ KnownParent(t, w)'
    PROVE  StatesTyped'
  <1> SUFFICES ASSUME NEW s \in Site, NEW x \in DOMAIN waves'[s]
               PROVE  waves'[s][x] \in WaveState /\ KnownParent(s, x)'
    BY DEF StatesTyped
  <1>1. x \in Initiators
    OBVIOUS
  <1>2. CASE s = t /\ x = w
    BY <1>2 DEF Knows
  <1>3. CASE ~(s = t /\ x = w)
    <2>1. x \in DOMAIN waves[s] /\ waves'[s][x] = waves[s][x]
      BY <1>1, <1>3 DEF KnownElsewhere, Knows
    <2>2. waves[s][x] \in WaveState /\ KnownParent(s, x)
      BY <2>1 DEF Types, StatesTyped
    <2> QED BY <2>1, <2>2 DEF KnownParent
  <1> QED BY <1>2, <1>3

LEMMA TypesInit == ASSUME Init PROVE Types
  <1>1. LinksTypeOK(Body) /\ LinksInv /\ \A u, v \in Site : Places(u, v) = {}
    BY LinksInitFacts DEF Init
  <1>2. AllAddressed
    BY <1>1 DEF AllAddressed
  <1>3. waves = [s \in Site |-> waves[s]] /\ \A s \in Site : DOMAIN waves[s] = {}
    BY DEF Init
  <1>4. met \in [Initiators -> Seq(Site)] /\ complete \subseteq Initiators
    BY DEF Init
  <1> QED BY <1>1, <1>2, <1>3, <1>4 DEF Types, StatesTyped

(* An answer is counted; the last one is answered. *)
LEMMA CountedFacts ==
    ASSUME NEW state \in WaveState
    PROVE  /\ [state EXCEPT !.pending = @ - 1] \in WaveState
           /\ [state EXCEPT !.pending = @ - 1].parent = state.parent
           /\ [state EXCEPT !.pending = @ - 1].done = state.done
           /\ [state EXCEPT !.pending = @ - 1].pending = state.pending - 1
           /\ [state EXCEPT !.pending = @ - 1, !.done = TRUE] \in WaveState
           /\ [state EXCEPT !.pending = @ - 1, !.done = TRUE].parent = state.parent
           /\ [state EXCEPT !.pending = @ - 1, !.done = TRUE].done
  <1> PICK counted : counted = [state EXCEPT !.pending = @ - 1]
    OBVIOUS
  <1> PICK answered : answered = [counted EXCEPT !.done = TRUE]
    OBVIOUS
  <1>1. /\ counted \in WaveState /\ counted.parent = state.parent
        /\ counted.done = state.done /\ counted.pending = state.pending - 1
    BY DEF WaveState
  <1>2. /\ answered \in WaveState /\ answered.parent = counted.parent
        /\ answered.done = TRUE
    BY <1>1 DEF WaveState
  <1>3. [state EXCEPT !.pending = @ - 1, !.done = TRUE] = answered
    BY DEF WaveState
  <1> QED BY <1>1, <1>2, <1>3

LEMMA TypesNext == ASSUME Types, [Next]_vars PROVE Types'
  <1>1. ASSUME NEW s \in Site, InitWave(s)
        PROVE  Types'
    <2>1. s \in Initiators /\ complete' = complete
      BY <1>1 DEF InitWave
    <2>2. LinksTypeOK(Body)' /\ Sending(s, WaveOf(s, s, NoSite))
      BY <1>1, <2>1, StartSends
    <2>3. Addressed(WaveOf(s, s, NoSite))
      BY <2>1, WrittenIsMessage DEF Types
    <2>4. LinksInv' /\ AllAddressed'
      BY <2>2, <2>3, SendingAddressed
    <2>5. NbNeighbors(s) \in Nat
      BY NbNeighborsFacts
    <2>6. Set(s, s, State(NoSite, NbNeighbors(s)))
      BY <1>1 DEF InitWave
    <2>7. StatesTyped' /\ waves' = [x \in Site |-> waves'[x]]
      <3>1. State(NoSite, NbNeighbors(s)) \in WaveState
        BY <2>5 DEF State, WaveState
      <3>2. State(NoSite, NbNeighbors(s)).parent = NoSite
        BY DEF State
      <3> QED BY <2>1, <2>6, <3>1, <3>2, SetFacts, StatesAfter DEF KnownParent
    <2>8. met' \in [Initiators -> Seq(Site)]
      BY <1>1, <2>1 DEF InitWave, Types
    <2> QED BY <2>1, <2>2, <2>4, <2>7, <2>8 DEF Types
  <1>2. ASSUME NEW s \in Site, NEW t \in Site, FirstWave(s, t)
        PROVE  Types'
    <2> PICK m : m = FirstOf(s, t)
      OBVIOUS
    <2> PICK w : w = m.body.wave
      OBVIOUS
    <2>1. /\ Receives(s, t) /\ w \in Initiators /\ LinksTypeOK(Body)'
          /\ met' = [met EXCEPT ![w] = Append(@, t)] /\ complete' = complete
          /\ \/ /\ waves' = waves /\ Taking(s, t, {EchoOf(t, w, s)})
             \/ /\ Set(t, w, State(s, NbNeighbors(t) - 1))
                /\ Taking(s, t, {WaveOf(t, w, s)})
      <3>1. FirstWaveDoes(s, t, w)
        BY <1>2, FirstWaveFacts
      <3> QED BY <3>1 DEF FirstWaveDoes
    <2>2. s \in Neighbours[t] /\ NbNeighbors(t) \in Nat
      BY <2>1, ReceivedFacts, NbNeighborsFacts
    <2>3. Addressed(EchoOf(t, w, s)) /\ Addressed(WaveOf(t, w, s))
      BY <2>1, WrittenIsMessage DEF Types
    <2>4. LinksInv' /\ AllAddressed'
      BY <2>1, <2>3, TakingAddressed
    <2>5. StatesTyped' /\ waves' = [x \in Site |-> waves'[x]]
      <3>1. CASE waves' = waves
        BY <3>1 DEF Types, StatesTyped, KnownParent
      <3>2. CASE Set(t, w, State(s, NbNeighbors(t) - 1))
        <4>1. /\ State(s, NbNeighbors(t) - 1) \in WaveState
              /\ State(s, NbNeighbors(t) - 1).parent = s
          BY <2>2 DEF State, WaveState
        <4> QED BY <2>1, <2>2, <3>2, <4>1, SetFacts, StatesAfter DEF KnownParent
      <3> QED BY <2>1, <3>1, <3>2
    <2>6. met' \in [Initiators -> Seq(Site)]
      BY <2>1 DEF Types
    <2> QED BY <2>1, <2>4, <2>5, <2>6 DEF Types
  <1>3. ASSUME NEW s \in Site, NEW t \in Site, CountWave(s, t)
        PROVE  Types'
    <2> PICK m : m = FirstOf(s, t)
      OBVIOUS
    <2> PICK w : w = m.body.wave
      OBVIOUS
    <2>1. /\ w \in Initiators /\ Knows(t, w) /\ LinksTypeOK(Body)'
          /\ met' = met /\ complete' = complete
          /\ \/ Forget(t, w)
             \/ Set(t, w, [waves[t][w] EXCEPT !.pending = @ - 1])
          /\ \/ Taking(s, t, {})
             \/ waves[t][w].parent \in Site /\ Taking(s, t, {EchoOf(t, w, waves[t][w].parent)})
      <3>1. CountWaveDoes(s, t, w)
        BY <1>3, CountWaveFacts
      <3> QED BY <3>1 DEF CountWaveDoes
    <2>2. LinksInv' /\ AllAddressed'
      BY <2>1, WrittenIsMessage, TakingAddressed DEF Types
    <2>3. StatesTyped' /\ waves' = [x \in Site |-> waves'[x]]
      <3>1. CASE Forget(t, w)
        BY <2>1, <3>1, ForgetFacts, StatesAfter
      <3>2. CASE Set(t, w, [waves[t][w] EXCEPT !.pending = @ - 1])
        <4>1. waves[t][w] \in WaveState /\ KnownParent(t, w)
          BY <2>1 DEF Types, StatesTyped, Knows
        <4>2. PICK n : n = [waves[t][w] EXCEPT !.pending = @ - 1]
          OBVIOUS
        <4>3. n \in WaveState /\ n.parent = waves[t][w].parent
          BY <4>1, <4>2, CountedFacts
        <4>4. Set(t, w, n)
          BY <3>2, <4>2
        <4> QED BY <2>1, <4>1, <4>3, <4>4, SetFacts, StatesAfter DEF KnownParent
      <3> QED BY <2>1, <3>1, <3>2
    <2> QED BY <2>1, <2>2, <2>3 DEF Types
  <1>4. ASSUME NEW s \in Site, NEW t \in Site, HandleEcho(s, t)
        PROVE  Types'
    <2> PICK m : m = FirstOf(s, t)
      OBVIOUS
    <2> PICK w : w = m.body.wave
      OBVIOUS
    <2> PICK state : state = waves[t][w]
      OBVIOUS
    <2>1. /\ w \in Initiators /\ Knows(t, w) /\ LinksTypeOK(Body)' /\ met' = met
          /\ \/ /\ complete' = complete /\ Taking(s, t, {})
                /\ Set(t, w, [state EXCEPT !.pending = @ - 1])
             \/ complete' = complete \cup {w} /\ Forget(t, w) /\ Taking(s, t, {})
             \/ /\ state.parent \in Site /\ complete' = complete
                /\ Set(t, w, [state EXCEPT !.pending = @ - 1, !.done = TRUE])
                /\ Taking(s, t, {EchoOf(t, w, state.parent)})
      <3>1. HandleEchoDoes(s, t, w, state)
        BY <1>4, HandleEchoFacts
      <3> QED BY <3>1 DEF HandleEchoDoes
    <2>2. state \in WaveState /\ KnownParent(t, w) /\ state = waves[t][w]
      BY <2>1 DEF Types, StatesTyped, Knows
    <2>3. LinksInv' /\ AllAddressed'
      BY <2>1, WrittenIsMessage, TakingAddressed DEF Types
    <2>4. StatesTyped' /\ waves' = [x \in Site |-> waves'[x]]
      <3>1. CASE Forget(t, w)
        BY <2>1, <3>1, ForgetFacts, StatesAfter
      <3>2. ASSUME NEW n, n \in WaveState, n.parent = state.parent, Set(t, w, n)
            PROVE  StatesTyped' /\ waves' = [x \in Site |-> waves'[x]]
        <4>1. n.parent = waves[t][w].parent
          BY <2>2, <3>2
        <4> QED BY SMTT(30), <2>1, <2>2, <3>2, <4>1, SetFacts, StatesAfter DEF KnownParent
      <3>3. /\ [state EXCEPT !.pending = @ - 1] \in WaveState
            /\ [state EXCEPT !.pending = @ - 1].parent = state.parent
            /\ [state EXCEPT !.pending = @ - 1, !.done = TRUE] \in WaveState
            /\ [state EXCEPT !.pending = @ - 1, !.done = TRUE].parent = state.parent
        BY <2>2, CountedFacts
      <3> QED BY <2>1, <3>1, <3>2, <3>3
    <2>5. complete' \subseteq Initiators /\ met' \in [Initiators -> Seq(Site)]
      BY <2>1 DEF Types
    <2> QED BY <2>1, <2>3, <2>4, <2>5 DEF Types
  <1>5. ASSUME NEW s \in Site, NEW t \in Site, Ignore(s, t)
        PROVE  Types'
    <2>1. /\ LinksTypeOK(Body)' /\ Taking(s, t, {})
          /\ waves' = waves /\ met' = met /\ complete' = complete
      BY <1>5, IgnoreFacts
    <2>2. LinksInv' /\ AllAddressed'
      BY <2>1, TakingAddressed
    <2> QED BY <2>1, <2>2 DEF Types, StatesTyped, KnownParent
  <1>6. ASSUME NEW s \in Site, NEW t \in Site, Pass(s, t)
        PROVE  Types'
    <2>1. /\ link[s][t] # <<>> /\ LinksTypeOK(Body)' /\ Taking(s, t, Again(s, t))
          /\ waves' = waves /\ met' = met /\ complete' = complete
      BY <1>6, PassFacts
    <2>2. 1 \in Places(s, t) /\ FirstOf(s, t) = link[s][t][1]
      BY <2>1, FirstFacts DEF Types, Taking
    <2>3. \A x \in Again(s, t) : Addressed(x)
      BY <2>2 DEF Again, Types, AllAddressed
    <2>4. LinksInv' /\ AllAddressed'
      BY <2>1, <2>3, TakingAddressed
    <2> QED BY <2>1, <2>4 DEF Types, StatesTyped, KnownParent
  <1>7. CASE UNCHANGED vars
    BY <1>7 DEF vars, linkVars, Types, LinksTypeOK, LinksInv, Carried, CarriedWell,
                Drawn, SeenDrawn, NoTwins, Places, AllAddressed, Addressed,
                StatesTyped, KnownParent
  <1> QED BY <1>1, <1>2, <1>3, <1>4, <1>5, <1>6, <1>7 DEF Next, Step

(* TypeOK holds in every network: what a site keeps of a wave has a parent *)
(* among its neighbours, or is the state of an initiator.                  *)
THEOREM TypeCorrect == Spec => []TypeOK
  <1>1. Init => Types
    BY TypesInit
  <1>2. Types /\ [Next]_vars => Types'
    BY TypesNext
  <1>3. Types => TypeOK
    BY DEF Types, TypeOK, StatesTyped, KnownParent, MetSites
  <1> QED BY <1>1, <1>2, <1>3, PTL DEF Spec

-----------------------------------------------------------------------------
(* One wave in a tree: what is true of it whatever the other waves do. *)

Waves(w) == {m \in Message(Body) : m.body.action = "WAVE" /\ m.body.wave = w}
Echoes(s, w) ==
    {m \in Message(Body) : m.body.action = "RETURN_WAVE" /\ m.body.wave = w /\ m.sender = s}

(* A site that has met the wave waits for answers, or it has done all that *)
(* it had to do.                                                           *)
Met(s, w) == s \in MetSites(w)
Waits(s, w) == Knows(s, w) /\ ~waves[s][w].done
Over(s, w) == Met(s, w) /\ ~Waits(s, w)

(* The neighbours of t whose answers it has not had yet. *)
Pending(n, t, w) == Toward(n, t, w) /\ (~Over(n, w) \/ On(n, t, Echoes(n, w)))
Owed(t, w) == {n \in Neighbours[t] : Pending(n, t, w)}

(* A wave is written by who has met it, and names the site it came from; a *)
(* site that answers has done all that it had to do.                       *)
Said(u, m, w) ==
    m.body.wave = w =>
        /\ m.body.action = "WAVE" =>
              Met(u, w) /\ (u = w \/ Toward(u, m.body.parent, w))
        /\ m.body.action = "RETURN_WAVE" =>
              Over(m.sender, w) /\ Toward(m.sender, m.dest, w)
AllSaid(w) == \A u, v \in Site : \A k \in Places(u, v) : Said(u, link[u][v][k], w)
Alone(w) ==
    \A u, v \in Site : Single(u, v, Waves(w)) /\ Single(u, v, Echoes(u, w))

(* The wave goes from the initiator outwards, and is on its way to a site  *)
(* until it is met there.                                                  *)
Spreads(w) ==
    \A t \in Site : \A n \in Neighbours[t] : Toward(t, n, w) =>
        /\ Met(t, w) => Met(n, w)
        /\ On(n, t, Waves(w)) <=> Met(n, w) /\ ~Met(t, w)
(* An echo does not overtake the wave of the same site. *)
EchoesBehind(w) ==
    \A t \in Site : \A n \in Neighbours[t] : Toward(n, t, w) /\ Over(n, w) =>
        Followed(n, t, Waves(w), Echoes(n, w))

(* What a site keeps of the wave agrees with what is still to come. *)
Parent(t, w) ==
    Knows(t, w) =>
        /\ Met(t, w)
        /\ IF t = w THEN waves[t][w].parent = NoSite
           ELSE Toward(t, waves[t][w].parent, w)
Counts(t, w) ==
    /\ Over(t, w) => Owed(t, w) = {}
    /\ Waits(t, w) => waves[t][w].pending = Cardinality(Owed(t, w))
    /\ Waits(t, w) /\ Neighbours[t] # {} => Owed(t, w) # {}
Kept(w) == \A t \in Site : Parent(t, w) /\ Counts(t, w)
Ends(w) ==
    /\ w \in complete <=> Over(w, w)
    /\ met[w] # <<>> => Met(w, w)
    /\ \A i, j \in DOMAIN met[w] : met[w][i] = met[w][j] => i = j

OneWave(w) ==
    /\ AllSaid(w) /\ Alone(w) /\ Spreads(w) /\ EchoesBehind(w)
    /\ Kept(w) /\ Ends(w)
InTree == Types /\ TreeInv /\ \A w \in Initiators : OneWave(w)

LEMMA OwedFinite ==
    ASSUME NEW t \in Site, NEW w
    PROVE  IsFiniteSet(Owed(t, w)) /\ Cardinality(Owed(t, w)) \in Nat
  <1>1. Owed(t, w) \subseteq Neighbours[t] /\ IsFiniteSet(Neighbours[t])
    BY NbNeighborsFacts DEF Owed
  <1> QED BY <1>1, FS_Subset, FS_CardinalityType

(* The kinds of the message that t takes, and of what it writes. *)
LEMMA Kinds ==
    ASSUME Types, NEW s \in Site, NEW t \in Site, link[s][t] # <<>>,
           NEW m, m = FirstOf(s, t), NEW w
    PROVE  /\ m \in Waves(w) <=> m.body.action = "WAVE" /\ m.body.wave = w
           /\ m \in Echoes(s, w) <=>
                 m.body.action = "RETURN_WAVE" /\ m.body.wave = w /\ m.sender = s
           /\ m = link[s][t][1] /\ 1 \in Places(s, t) /\ m \in Message(Body)
  <1>1. link[s][t] \in Seq(Message(Body))
    BY DEF Types, LinksTypeOK
  <1>2. m = link[s][t][1]
    BY <1>1 DEF FirstOf
  <1>3. m \in Message(Body) /\ 1 \in Places(s, t)
    BY <1>2, FirstFacts DEF Types
  <1> QED BY <1>2, <1>3 DEF Waves, Echoes

LEMMA WrittenKinds ==
    ASSUME Types, NEW t \in Site, NEW w \in Initiators, NEW x \in Initiators,
           NEW parent \in Site \cup {NoSite}, NEW dest \in Site, NEW u
    PROVE  /\ WaveOf(t, w, parent) \in Waves(x) <=> x = w
           /\ WaveOf(t, w, parent) \notin Echoes(u, x)
           /\ EchoOf(t, w, dest) \notin Waves(x)
           /\ EchoOf(t, w, dest) \in Echoes(u, x) <=> x = w /\ u = t
           /\ WaveOf(t, w, parent).body.wave = w /\ EchoOf(t, w, dest).body.wave = w
  <1>1. WaveOf(t, w, parent) \in Message(Body) /\ EchoOf(t, w, dest) \in Message(Body)
    BY WrittenIsMessage DEF Types
  <1>2. /\ WaveOf(t, w, parent).body.action = "WAVE" /\ WaveOf(t, w, parent).body.wave = w
        /\ EchoOf(t, w, dest).body.action = "RETURN_WAVE"
        /\ EchoOf(t, w, dest).body.wave = w /\ EchoOf(t, w, dest).sender = t
    BY DEF WaveOf, EchoOf
  <1> QED BY <1>1, <1>2 DEF Waves, Echoes

(* A step after which the sites know of w what they knew before. *)
Same(w) ==
    /\ met'[w] = met[w] /\ (w \in complete' <=> w \in complete)
    /\ \A s \in Site :
          /\ Knows(s, w)' <=> Knows(s, w)
          /\ Knows(s, w) => waves'[s][w] = waves[s][w]

LEMMA SameFacts ==
    ASSUME NEW w, Same(w), NEW s \in Site
    PROVE  /\ Met(s, w)' <=> Met(s, w)
           /\ Waits(s, w)' <=> Waits(s, w)
           /\ Over(s, w)' <=> Over(s, w)
  <1>1. Met(s, w)' <=> Met(s, w)
    BY DEF Same, Met, MetSites
  <1>2. Waits(s, w)' <=> Waits(s, w)
    BY DEF Same, Waits
  <1> QED BY <1>1, <1>2 DEF Over

(* What is said stays true as long as nobody forgets what it has met. *)
LEMMA SaidStays ==
    ASSUME NEW w, NEW u, NEW m, Said(u, m, w), Met(u, w) => Met(u, w)',
           Over(m.sender, w) => Over(m.sender, w)'
    PROVE  Said(u, m, w)'
  BY DEF Said

(* A step that neither takes nor writes what counts for w. *)
Calm(w) ==
    /\ AllSaid(w)' /\ Alone(w)'
    /\ \A t \in Site : \A n \in Neighbours[t] :
          /\ Toward(t, n, w) => (On(n, t, Waves(w))' <=> On(n, t, Waves(w)))
          /\ Toward(n, t, w) =>
                /\ On(n, t, Echoes(n, w))' <=> On(n, t, Echoes(n, w))
                /\ Followed(n, t, Waves(w), Echoes(n, w)) =>
                      Followed(n, t, Waves(w), Echoes(n, w))'

LEMMA CalmWave ==
    ASSUME NEW w \in Initiators, OneWave(w), Same(w), Calm(w)
    PROVE  OneWave(w)'
  <1>1. \A s \in Site : /\ Met(s, w)' <=> Met(s, w)
                        /\ Waits(s, w)' <=> Waits(s, w)
                        /\ Over(s, w)' <=> Over(s, w)
    BY SameFacts
  <1>2. \A t \in Site : \A n \in Neighbours[t] : n \in Site
    BY NeighboursAssumption
  <1>3. Spreads(w)'
    BY <1>1, <1>2 DEF OneWave, Calm, Spreads
  <1>4. EchoesBehind(w)'
    BY <1>1, <1>2 DEF OneWave, Calm, EchoesBehind
  <1>5. \A t \in Site : Owed(t, w)' = Owed(t, w)
    BY <1>1, <1>2 DEF Calm, Owed, Pending
  <1>6. ASSUME NEW t \in Site PROVE Parent(t, w)' /\ Counts(t, w)'
    <2>1. Parent(t, w) /\ Counts(t, w)
      BY DEF OneWave, Kept
    <2>2. Parent(t, w)'
      BY <1>1, <2>1 DEF Parent, Same
    <2>3. Waits(t, w) => waves'[t][w] = waves[t][w]
      BY DEF Same, Waits
    <2>4. Counts(t, w)'
      BY <1>1, <1>5, <2>1, <2>3 DEF Counts
    <2> QED BY <2>2, <2>4
  <1>7. Ends(w)'
    <2>1. w \in Site
      BY InitiatorsAssumption
    <2> QED BY <1>1, <2>1 DEF OneWave, Ends, Same
  <1> QED BY <1>3, <1>4, <1>6, <1>7 DEF OneWave, Calm, Kept

(* The sender of a message on a link is a site. *)
LEMMA SenderIsSite ==
    ASSUME Types, NEW u \in Site, NEW v \in Site, NEW k \in Places(u, v)
    PROVE  link[u][v][k].sender \in Site /\ v \in Neighbours[u]
  <1>1. CarriedWell(u, v, link[u][v][k])
    BY DEF Types, LinksInv, Carried
  <1> QED BY <1>1 DEF CarriedWell, Drawn, Ids

(* When nobody forgets, what is written has to be said well. *)
LEMMA TakingSaid ==
    ASSUME Types, NEW s \in Site, NEW t \in Site, NEW out, Taking(s, t, out),
           NEW w, AllSaid(w), \A x \in out : Said(t, x, w)',
           \A u \in Site : Met(u, w) => Met(u, w)',
           \A u \in Site : Over(u, w) => Over(u, w)'
    PROVE  AllSaid(w)'
  <1> SUFFICES ASSUME NEW u \in Site, NEW v \in Site, NEW k \in Places(u, v)',
                      NEW y, y = link'[u][v][k]
               PROVE  Said(u, y, w)'
    BY DEF AllSaid, Said
  <1>1. ASSUME NEW l \in Places(u, v), y = link[u][v][l] PROVE Said(u, y, w)'
    BY <1>1, SenderIsSite, SaidStays DEF AllSaid
  <1>2. ASSUME y \in out, u = t PROVE Said(u, y, w)'
    BY <1>2
  <1> QED BY <1>1, <1>2, TakingWhence DEF Types

LEMMA SendingSaid ==
    ASSUME Types, NEW s \in Site, NEW x, Sending(s, x), NEW w, AllSaid(w), Said(s, x, w)',
           \A u \in Site : Met(u, w) => Met(u, w)',
           \A u \in Site : Over(u, w) => Over(u, w)'
    PROVE  AllSaid(w)'
  <1> SUFFICES ASSUME NEW u \in Site, NEW v \in Site, NEW k \in Places(u, v)',
                      NEW y, y = link'[u][v][k]
               PROVE  Said(u, y, w)'
    BY DEF AllSaid, Said
  <1>1. ASSUME NEW l \in Places(u, v), y = link[u][v][l] PROVE Said(u, y, w)'
    BY <1>1, SenderIsSite, SaidStays DEF AllSaid
  <1> QED BY <1>1, SendingWhence DEF Types

(* The message m, taken by t, and what t writes are of no account to w. *)
Aside(s, t, m, out, w) ==
    /\ Toward(t, s, w) => m \notin Waves(w)
    /\ Toward(s, t, w) => m \notin Echoes(s, w)
    /\ \A x \in out : x.body.wave = w =>
          x = m /\ m.body.action # "WAVE" /\ m.sender # t

LEMMA AsideTaking ==
    ASSUME Types, NEW s \in Site, NEW t \in Site, NEW out, Taking(s, t, out),
           NEW m, m = FirstOf(s, t), NEW w \in Initiators, OneWave(w), Same(w),
           Aside(s, t, m, out, w)
    PROVE  OneWave(w)'
  <1>1. \A u \in Site : (Met(u, w)' <=> Met(u, w)) /\ (Over(u, w)' <=> Over(u, w))
    BY SameFacts
  <1>2. link[s][t] # <<>> /\ 1 \in Places(s, t) /\ m = link[s][t][1]
    BY Kinds DEF Taking
  <1>3. Said(s, m, w) /\ m.sender \in Site
    BY <1>2, SenderIsSite DEF OneWave, AllSaid
  <1>4. ASSUME NEW x \in out PROVE Said(t, x, w)'
    BY <1>1, <1>3, <1>4 DEF Aside, Said
  <1>5. AllSaid(w)'
    BY <1>1, <1>4, TakingSaid DEF OneWave
  <1>6. out \cap Waves(w) = {} /\ out \cap Echoes(t, w) = {}
    BY DEF Aside, Waves, Echoes
  <1>7. Alone(w)'
    <2> SUFFICES ASSUME NEW u \in Site, NEW v \in Site
                 PROVE  Single(u, v, Waves(w))' /\ Single(u, v, Echoes(u, w))'
      BY DEF Alone
    <2>1. Single(u, v, Waves(w)) /\ Single(u, v, Echoes(u, w))
      BY DEF OneWave, Alone
    <2> QED BY <1>6, <2>1, TakingSingle DEF Types
  <1>8. ASSUME NEW v \in Site, NEW n \in Neighbours[v]
        PROVE  /\ Toward(v, n, w) => (On(n, v, Waves(w))' <=> On(n, v, Waves(w)))
               /\ Toward(n, v, w) =>
                     /\ On(n, v, Echoes(n, w))' <=> On(n, v, Echoes(n, w))
                     /\ Followed(n, v, Waves(w), Echoes(n, w)) =>
                           Followed(n, v, Waves(w), Echoes(n, w))'
    <2>1. n \in Site
      BY NeighboursAssumption
    <2>2. ASSUME Toward(v, n, w) PROVE On(n, v, Waves(w))' <=> On(n, v, Waves(w))
      <3>1. ~(n = s /\ v = t /\ m \in Waves(w))
        BY <2>2 DEF Aside
      <3> QED BY <1>6, <2>1, <3>1, TakingOn DEF Types
    <2>3. ASSUME Toward(n, v, w) PROVE On(n, v, Echoes(n, w))' <=> On(n, v, Echoes(n, w))
      <3>1. ~(n = s /\ v = t /\ m \in Echoes(n, w))
        BY <2>3 DEF Aside
      <3>2. ~(n = t /\ out \cap Echoes(n, w) # {})
        BY <1>6
      <3> QED BY <2>1, <3>1, <3>2, TakingOn DEF Types
    <2>4. ASSUME Followed(n, v, Waves(w), Echoes(n, w))
          PROVE  Followed(n, v, Waves(w), Echoes(n, w))'
      BY <1>6, <2>1, <2>4, TakingFollowed DEF Types
    <2> QED BY <2>2, <2>3, <2>4
  <1>9. Calm(w)
    BY <1>5, <1>7, <1>8 DEF Calm
  <1> QED BY <1>9, CalmWave

LEMMA AsideSending ==
    ASSUME Types, NEW s \in Site, NEW x, Sending(s, x), NEW w \in Initiators,
           OneWave(w), Same(w), x.body.wave # w
    PROVE  OneWave(w)'
  <1>1. \A u \in Site : (Met(u, w)' <=> Met(u, w)) /\ (Over(u, w)' <=> Over(u, w))
    BY SameFacts
  <1>2. AllSaid(w)'
    <2>1. Said(s, x, w)'
      BY DEF Said
    <2> QED BY <1>1, <2>1, SendingSaid DEF OneWave
  <1>3. x \notin Waves(w) /\ \A u : x \notin Echoes(u, w)
    BY DEF Waves, Echoes
  <1>4. Alone(w)'
    <2> SUFFICES ASSUME NEW u \in Site, NEW v \in Site
                 PROVE  Single(u, v, Waves(w))' /\ Single(u, v, Echoes(u, w))'
      BY DEF Alone
    <2>1. Single(u, v, Waves(w)) /\ Single(u, v, Echoes(u, w))
      BY DEF OneWave, Alone
    <2> QED BY <1>3, <2>1, SendingOn DEF Types
  <1>5. ASSUME NEW v \in Site, NEW n \in Neighbours[v]
        PROVE  /\ On(n, v, Waves(w))' <=> On(n, v, Waves(w))
               /\ On(n, v, Echoes(n, w))' <=> On(n, v, Echoes(n, w))
               /\ Followed(n, v, Waves(w), Echoes(n, w)) =>
                     Followed(n, v, Waves(w), Echoes(n, w))'
    <2>1. n \in Site
      BY NeighboursAssumption
    <2>2. /\ On(n, v, Waves(w))' <=> On(n, v, Waves(w))
          /\ On(n, v, Echoes(n, w))' <=> On(n, v, Echoes(n, w))
      BY <1>3, <2>1, SendingOn DEF Types
    <2> QED BY <1>3, <2>1, <2>2, SendingFollowed DEF Types
  <1>6. Calm(w)
    BY <1>2, <1>4, <1>5 DEF Calm
  <1> QED BY <1>6, CalmWave

(* What the links say of who has met the wave. *)
LEMMA OnlyTheMetWrite ==
    ASSUME Types, NEW w \in Initiators, AllSaid(w), NEW u \in Site, NEW v \in Site, NEW n
    PROVE  /\ On(u, v, Waves(w)) => Met(u, w)
           /\ On(u, v, Echoes(n, w)) => Over(n, w)
  <1>1. ASSUME On(u, v, Waves(w)) PROVE Met(u, w)
    <2>1. PICK k \in Places(u, v) : link[u][v][k] \in Waves(w)
      BY <1>1 DEF On
    <2>2. Said(u, link[u][v][k], w)
      BY DEF AllSaid
    <2> QED BY <2>1, <2>2 DEF Said, Waves
  <1>2. ASSUME On(u, v, Echoes(n, w)) PROVE Over(n, w)
    <2>1. PICK k \in Places(u, v) : link[u][v][k] \in Echoes(n, w)
      BY <1>2 DEF On
    <2>2. Said(u, link[u][v][k], w)
      BY DEF AllSaid
    <2> QED BY <2>1, <2>2 DEF Said, Echoes
  <1> QED BY <1>1, <1>2

(* Whatever comes from a child finds its parent waiting for it.            *)
LEMMA Expected ==
    ASSUME InTree, NEW w \in Initiators, NEW t \in Site, NEW n \in Neighbours[t],
           Toward(n, t, w), On(n, t, Waves(w)) \/ On(n, t, Echoes(n, w))
    PROVE  Waits(t, w) /\ n \in Owed(t, w) /\ Met(t, w)
  <1>1. n \in Site /\ t \in Neighbours[n]
    BY NeighboursAssumption
  <1>2. OneWave(w) /\ Types
    BY DEF InTree
  <1>3. Met(n, w)
    BY <1>1, <1>2, OnlyTheMetWrite DEF OneWave, Over
  <1>4. Met(t, w)
    BY <1>1, <1>2, <1>3 DEF OneWave, Spreads
  <1>5. On(n, t, Waves(w)) /\ Over(n, w) => On(n, t, Echoes(n, w))
    <2> SUFFICES ASSUME On(n, t, Waves(w)), Over(n, w) PROVE On(n, t, Echoes(n, w))
      OBVIOUS
    <2>1. Followed(n, t, Waves(w), Echoes(n, w))
      BY <1>2 DEF OneWave, EchoesBehind
    <2> QED BY <2>1 DEF On, Followed
  <1>6. n \in Owed(t, w)
    BY <1>5 DEF Owed, Pending
  <1>7. Counts(t, w)
    BY <1>2 DEF OneWave, Kept
  <1> QED BY <1>4, <1>6, <1>7 DEF Counts, Over

(* A wave that comes outwards finds a site that has not met it; any other  *)
(* comes from a child, which names its parent.                             *)
LEMMA WhichWay ==
    ASSUME Tree, InTree, NEW s \in Site, NEW t \in Site, Receives(s, t),
           NEW m, m = FirstOf(s, t), m.body.action = "WAVE", NEW w, w = m.body.wave
    PROVE  /\ w \in Initiators /\ m \in Waves(w) /\ m.sender = s /\ s \in Neighbours[t]
           /\ On(s, t, Waves(w)) /\ Met(s, w)
           /\ Toward(t, s, w) <=> ~Toward(s, t, w)
           /\ Toward(t, s, w) => ~Met(t, w) /\ ~Knows(t, w)
           /\ Toward(s, t, w) => m.body.parent = t /\ Knows(t, w)
  <1>1. /\ w \in Initiators /\ m.sender = s /\ s \in Neighbours[t] /\ t \in Neighbours[s]
        /\ link[s][t] # <<>> /\ m = link[s][t][1] /\ 1 \in Places(s, t)
    BY ReceivedFacts, NeighboursAssumption DEF InTree
  <1>2. m \in Waves(w) /\ On(s, t, Waves(w))
    BY <1>1, Kinds DEF InTree, On
  <1>3. OneWave(w) /\ Types
    BY <1>1 DEF InTree
  <1>4. Said(s, m, w)
    BY <1>1, <1>3 DEF OneWave, AllSaid
  <1>5. Met(s, w)
    BY <1>4 DEF Said
  <1>6. Toward(t, s, w) <=> ~Toward(s, t, w)
    BY <1>1, InitiatorsAssumption, EveryLinkPoints, NotBothWays
  <1>7. ASSUME Toward(t, s, w) PROVE ~Met(t, w) /\ ~Knows(t, w)
    <2>1. ~Met(t, w)
      BY <1>1, <1>2, <1>3, <1>7 DEF OneWave, Spreads
    <2> QED BY <1>3, <2>1 DEF OneWave, Kept, Parent
  <1>8. ASSUME Toward(s, t, w) PROVE m.body.parent = t /\ Knows(t, w)
    <2>1. Waits(t, w)
      BY <1>1, <1>2, <1>8, Expected
    <2>2. s # w
      BY <1>8, NotFromThere
    <2>3. Toward(s, m.body.parent, w)
      BY <1>4, <2>2 DEF Said
    <2>4. m.body.parent \in Site
      BY <2>3, NotFromThere, NeighboursAssumption
    <2>5. m.body.parent = t
      BY <1>1, <1>8, <2>3, <2>4, InitiatorsAssumption, OneWay
    <2> QED BY <2>1, <2>5 DEF Waits
  <1> QED BY <1>1, <1>2, <1>5, <1>6, <1>7, <1>8

(* An echo is taken from the link of its sender, a child of t. *)
LEMMA EchoFromChild ==
    ASSUME Tree, InTree, NEW s \in Site, NEW t \in Site, Receives(s, t),
           NEW m, m = FirstOf(s, t), m.body.action = "RETURN_WAVE", NEW w, w = m.body.wave
    PROVE  /\ w \in Initiators /\ m \in Echoes(s, w) /\ m.sender = s /\ s \in Neighbours[t]
           /\ Toward(s, t, w) /\ On(s, t, Echoes(s, w)) /\ Over(s, w)
           /\ Waits(t, w) /\ s \in Owed(t, w) /\ Met(t, w)
  <1>1. /\ w \in Initiators /\ s \in Neighbours[t] /\ m.dest = t
        /\ link[s][t] # <<>> /\ m = link[s][t][1] /\ 1 \in Places(s, t)
        /\ m.id \notin seen[t] /\ m.sender # t
    BY ReceivedFacts DEF InTree
  <1>2. OneWave(w) /\ Types /\ TreeInv
    BY <1>1 DEF InTree
  <1>3. Said(s, m, w)
    BY <1>1, <1>2 DEF OneWave, AllSaid
  <1>4. Over(m.sender, w) /\ Toward(m.sender, t, w)
    BY <1>1, <1>3 DEF Said
  <1>5. m.sender \in Neighbours[t]
    <2>1. m.sender \in Site
      BY <1>1, <1>2, SenderIsSite
    <2> QED BY <1>4, <2>1, NotFromThere, NeighboursAssumption
  <1>6. m.sender = s
    BY <1>1, <1>2, <1>5, NewIsDirect DEF Types
  <1>7. m \in Echoes(s, w) /\ On(s, t, Echoes(s, w))
    BY <1>1, <1>2, <1>6, Kinds DEF On
  <1> QED BY <1>1, <1>4, <1>6, <1>7, Expected

LEMMA NeverCounts ==
    ASSUME Tree, InTree, NEW s \in Site, NEW t \in Site, CountWave(s, t)
    PROVE  FALSE
  <1> PICK w : w = FirstOf(s, t).body.wave
    OBVIOUS
  <1>1. CountWaveDoes(s, t, w)
    BY CountWaveFacts DEF InTree
  <1>2. /\ Receives(s, t) /\ FirstOf(s, t).body.action = "WAVE"
        /\ Knows(t, w) /\ FirstOf(s, t).body.parent # t
    BY <1>1 DEF CountWaveDoes
  <1> QED BY <1>2, WhichWay

(* The other waves see nothing of a step of w at t. *)
LEMMA OthersSame ==
    ASSUME NEW t \in Site, NEW w \in Initiators, KnownElsewhere(t, w),
           NEW x \in Initiators, x # w, met'[x] = met[x], x \in complete' <=> x \in complete
    PROVE  Same(x)
  BY DEF KnownElsewhere, Same

(* What t knows of w changes, and the other sites know what they knew. *)
AtOne(t, w) ==
    \A s \in Site : s # t =>
        /\ Met(s, w)' <=> Met(s, w)
        /\ Waits(s, w)' <=> Waits(s, w)
        /\ Over(s, w)' <=> Over(s, w)
        /\ Knows(s, w)' <=> Knows(s, w)
        /\ Knows(s, w) => waves'[s][w] = waves[s][w]

LEMMA AtOneFacts ==
    ASSUME NEW t \in Site, NEW w \in Initiators, KnownElsewhere(t, w),
           \A s \in Site : s # t => (Met(s, w)' <=> Met(s, w))
    PROVE  AtOne(t, w)
  <1> SUFFICES ASSUME NEW s \in Site, s # t
               PROVE  /\ Met(s, w)' <=> Met(s, w)
                      /\ Waits(s, w)' <=> Waits(s, w)
                      /\ Over(s, w)' <=> Over(s, w)
                      /\ Knows(s, w)' <=> Knows(s, w)
                      /\ Knows(s, w) => waves'[s][w] = waves[s][w]
    BY DEF AtOne
  <1>1. /\ Met(s, w)' <=> Met(s, w)
        /\ Knows(s, w)' <=> Knows(s, w)
        /\ Knows(s, w) => waves'[s][w] = waves[s][w]
    BY DEF KnownElsewhere
  <1>2. Waits(s, w)' <=> Waits(s, w)
    BY <1>1 DEF Waits
  <1> QED BY <1>1, <1>2 DEF Over

(* Another site keeps its counts when it is owed what it was owed. *)
LEMMA OtherKept ==
    ASSUME NEW t \in Site, NEW w \in Initiators, AtOne(t, w), NEW s \in Site, s # t,
           Parent(s, w), Counts(s, w), Owed(s, w)' = Owed(s, w)
    PROVE  Parent(s, w)' /\ Counts(s, w)'
  <1>1. /\ Met(s, w)' <=> Met(s, w)
        /\ Waits(s, w)' <=> Waits(s, w)
        /\ Over(s, w)' <=> Over(s, w)
        /\ Knows(s, w)' <=> Knows(s, w)
        /\ Knows(s, w) => waves'[s][w] = waves[s][w]
    BY DEF AtOne
  <1>2. Parent(s, w)'
    BY <1>1 DEF Parent
  <1>3. Waits(s, w) => waves'[s][w] = waves[s][w]
    BY <1>1 DEF Waits
  <1> QED BY <1>1, <1>2, <1>3 DEF Counts

(* The click of the user. *)
LEMMA StartWave ==
    ASSUME Tree, InTree, NEW w \in Initiators, InitWave(w)
    PROVE  OneWave(w)'
  <1>1. OneWave(w) /\ Types /\ TreeInv /\ w \in Site /\ met[w] = <<>>
    BY InitiatorsAssumption DEF InTree, InitWave
  <1> PICK x : x = WaveOf(w, w, NoSite)
    OBVIOUS
  <1>2. Sending(w, x)
    BY <1>1, StartSends
  <1>3. x \in Waves(w) /\ \A u : x \notin Echoes(u, w)
    BY <1>1, WrittenKinds
  <1>4. met'[w] = <<w>> /\ complete' = complete
    BY <1>1 DEF InitWave, Types
  <1>5. \A u \in Site : ~Met(u, w) /\ ~Knows(u, w)
    BY <1>1 DEF Met, MetSites, OneWave, Kept, Parent
  <1>6. ASSUME NEW u \in Site
        PROVE  (Met(u, w)' <=> u = w)
    BY <1>4 DEF Met, MetSites
  <1>7. Set(w, w, State(NoSite, NbNeighbors(w)))
    BY DEF InitWave
  <1>8. /\ KnownElsewhere(w, w) /\ Knows(w, w)'
        /\ waves'[w][w] = State(NoSite, NbNeighbors(w))
    BY <1>1, <1>7, SetFacts
  <1>9. /\ waves'[w][w].parent = NoSite /\ waves'[w][w].pending = NbNeighbors(w)
        /\ ~waves'[w][w].done
    BY <1>8 DEF State
  <1>10. \A u \in Site : u # w => ~Knows(u, w)'
    BY <1>5, <1>8 DEF KnownElsewhere
  <1>11. Waits(w, w)' /\ \A u \in Site : ~Over(u, w)'
    <2>1. Waits(w, w)'
      BY <1>8, <1>9 DEF Waits
    <2> QED BY <1>6, <2>1 DEF Over
  <1>12. \A u, v \in Site : ~On(u, v, Waves(w)) /\ \A n \in Site : ~On(u, v, Echoes(n, w))
    BY <1>1, <1>5, OnlyTheMetWrite DEF OneWave, Over
  <1>13. AllSaid(w)'
    <2>1. \A u \in Site : ~Over(u, w)
      BY <1>5 DEF Over
    <2>2. Said(w, x, w)'
      BY <1>1, <1>6 DEF Said, WaveOf
    <2> QED BY <1>1, <1>2, <1>5, <2>1, <2>2, SendingSaid DEF OneWave
  <1>14. Alone(w)'
    <2> SUFFICES ASSUME NEW u \in Site, NEW v \in Site
                 PROVE  Single(u, v, Waves(w))' /\ Single(u, v, Echoes(u, w))'
      BY DEF Alone
    <2>1. Single(u, v, Waves(w)) /\ Single(u, v, Echoes(u, w))
      BY <1>1 DEF OneWave, Alone
    <2> QED BY <1>1, <1>2, <1>12, <2>1, SendingOn DEF Types
  <1>15. Spreads(w)'
    <2> SUFFICES ASSUME NEW t \in Site, NEW n \in Neighbours[t], Toward(t, n, w)
                 PROVE  /\ Met(t, w)' => Met(n, w)'
                        /\ On(n, t, Waves(w))' <=> Met(n, w)' /\ ~Met(t, w)'
      BY DEF Spreads
    <2>1. n \in Site /\ t # w /\ t \in Neighbours[n]
      BY NotFromThere, NeighboursAssumption
    <2>2. On(n, t, Waves(w))' <=> n = w
      BY <1>1, <1>2, <1>3, <1>12, <2>1, SendingOn DEF Types
    <2> QED BY <1>6, <2>1, <2>2
  <1>16. EchoesBehind(w)'
    BY <1>11, NeighboursAssumption DEF EchoesBehind
  <1>17. Owed(w, w)' = Neighbours[w]
    <2>1. \A n \in Neighbours[w] : n \in Site /\ Toward(n, w, w) /\ ~Over(n, w)'
      BY <1>1, <1>11, AllBehindOrigin, NeighboursAssumption
    <2> QED BY <2>1 DEF Owed, Pending
  <1>18. Kept(w)'
    <2> SUFFICES ASSUME NEW t \in Site PROVE Parent(t, w)' /\ Counts(t, w)'
      BY DEF Kept
    <2>1. CASE t = w
      BY <1>6, <1>9, <1>11, <1>17, <2>1 DEF Parent, Counts, NbNeighbors
    <2>2. CASE t # w
      <3>1. ~Knows(t, w)' /\ ~Over(t, w)'
        BY <1>10, <1>11, <2>2
      <3>2. ~Waits(t, w)'
        BY <3>1 DEF Waits
      <3> QED BY <3>1, <3>2 DEF Parent, Counts
    <2> QED BY <2>1, <2>2
  <1>19. Ends(w)'
    <2>1. w \notin complete
      BY <1>1, <1>5 DEF OneWave, Ends, Over
    <2> QED BY <1>1, <1>4, <1>6, <1>11, <2>1 DEF Ends
  <1> QED BY <1>13, <1>14, <1>15, <1>16, <1>18, <1>19 DEF OneWave

(* The wave w, on its way outwards, is met at t. *)
LEMMA MeetWave ==
    ASSUME Tree, InTree, NEW s \in Site, NEW t \in Site, NEW w, FirstWaveDoes(s, t, w)
    PROVE  OneWave(w)'
  <1> PICK m : m = FirstOf(s, t)
    OBVIOUS
  <1>1. /\ Receives(s, t) /\ m.body.action = "WAVE" /\ m.body.wave = w /\ w \in Initiators
        /\ ~Knows(t, w) /\ met' = [met EXCEPT ![w] = Append(@, t)] /\ complete' = complete
    BY DEF FirstWaveDoes
  <1>2. OneWave(w) /\ Types /\ TreeInv /\ w \in Site
    BY <1>1, InitiatorsAssumption DEF InTree
  <1>3. /\ m \in Waves(w) /\ s \in Neighbours[t] /\ On(s, t, Waves(w)) /\ Met(s, w)
        /\ Toward(t, s, w) /\ ~Toward(s, t, w) /\ ~Met(t, w)
    BY <1>1, WhichWay
  <1>4. t # w /\ t \in Neighbours[s] /\ s # t
    BY <1>3, NotFromThere, NeighboursAssumption
  <1>5. m \notin Echoes(s, w)
    BY <1>1 DEF Echoes
  (* t writes an echo, being a leaf, or the wave. *)
  <1>6. PICK out :
           /\ Taking(s, t, out)
           /\ \/ /\ out = {EchoOf(t, w, s)} /\ NbNeighbors(t) = 1 /\ waves' = waves
              \/ /\ out = {WaveOf(t, w, s)} /\ NbNeighbors(t) # 1
                 /\ Set(t, w, State(s, NbNeighbors(t) - 1))
    BY DEF FirstWaveDoes
  <1> DEFINE Leaf == /\ out \cap Waves(w) = {} /\ out \cap Echoes(t, w) # {}
                     /\ NbNeighbors(t) = 1 /\ Over(t, w)' /\ ~Knows(t, w)'
             Inner == /\ out \cap Waves(w) # {} /\ out \cap Echoes(t, w) = {}
                      /\ Waits(t, w)' /\ ~Over(t, w)' /\ NbNeighbors(t) # 1
                      /\ waves'[t][w].parent = s
                      /\ waves'[t][w].pending = NbNeighbors(t) - 1
  <1>7. \A u \in Site : Met(u, w)' <=> Met(u, w) \/ u = t
    <2>1. met[w] \in Seq(Site) /\ met'[w] = Append(met[w], t)
      BY <1>1, <1>2 DEF Types
    <2> QED BY <2>1 DEF Met, MetSites
  <1>8. AtOne(t, w) /\ KnownElsewhere(t, w)
    <2>1. KnownElsewhere(t, w)
      BY <1>1, <1>2, <1>6, SetFacts DEF KnownElsewhere, Knows
    <2> QED BY <1>1, <1>7, <2>1, AtOneFacts
  <1>9. Leaf \/ Inner
    <2>1. CASE out = {EchoOf(t, w, s)} /\ NbNeighbors(t) = 1 /\ waves' = waves
      <3>1. out \cap Waves(w) = {} /\ out \cap Echoes(t, w) # {}
        BY <1>1, <1>2, <2>1, WrittenKinds
      <3>2. ~Knows(t, w)' /\ Met(t, w)'
        BY <1>1, <1>7, <2>1 DEF Knows
      <3> QED BY <2>1, <3>1, <3>2 DEF Over, Waits
    <2>2. CASE /\ out = {WaveOf(t, w, s)} /\ NbNeighbors(t) # 1
               /\ Set(t, w, State(s, NbNeighbors(t) - 1))
      <3>1. out \cap Waves(w) # {} /\ out \cap Echoes(t, w) = {}
        BY <1>1, <1>2, <2>2, WrittenKinds
      <3>2. Knows(t, w)' /\ waves'[t][w] = State(s, NbNeighbors(t) - 1)
        BY <1>1, <1>2, <2>2, SetFacts
      <3>3. /\ ~waves'[t][w].done /\ waves'[t][w].parent = s
            /\ waves'[t][w].pending = NbNeighbors(t) - 1
        BY <3>2 DEF State
      <3> QED BY <2>2, <3>1, <3>2, <3>3 DEF Over, Waits
    <2> QED BY <1>6, <2>1, <2>2
  <1>10. \A x \in out : Said(t, x, w)'
    <2>1. CASE out = {EchoOf(t, w, s)} /\ Over(t, w)'
      BY <1>3, <2>1 DEF Said, EchoOf
    <2>2. CASE out = {WaveOf(t, w, s)}
      BY <1>3, <1>7, <2>2 DEF Said, WaveOf
    <2>3. out = {EchoOf(t, w, s)} => Over(t, w)'
      BY <1>1, <1>2, <1>9, WrittenKinds
    <2> QED BY <1>6, <2>1, <2>2, <2>3
  <1> HIDE DEF Leaf, Inner
  <1>11. ~Over(t, w) /\ \A v \in Site : ~On(t, v, Waves(w)) /\ ~On(t, v, Echoes(t, w))
    BY <1>1, <1>2, <1>3, OnlyTheMetWrite DEF OneWave, Over
  <1>12. AllSaid(w)'
    <2>1. \A u \in Site : Over(u, w) => Over(u, w)'
      BY <1>8, <1>11 DEF AtOne
    <2> QED BY <1>2, <1>6, <1>7, <1>10, <2>1, TakingSaid DEF OneWave
  <1>13. Alone(w)'
    <2> SUFFICES ASSUME NEW u \in Site, NEW v \in Site
                 PROVE  Single(u, v, Waves(w))' /\ Single(u, v, Echoes(u, w))'
      BY DEF Alone
    <2>1. Single(u, v, Waves(w)) /\ Single(u, v, Echoes(u, w))
      BY <1>2 DEF OneWave, Alone
    <2> QED BY <1>2, <1>6, <1>11, <2>1, TakingSingle DEF Types
  <1>14. Spreads(w)'
    <2> SUFFICES ASSUME NEW v \in Site, NEW n \in Neighbours[v], Toward(v, n, w)
                 PROVE  /\ Met(v, w)' => Met(n, w)'
                        /\ On(n, v, Waves(w))' <=> Met(n, w)' /\ ~Met(v, w)'
      BY DEF Spreads
    <2>1. n \in Site /\ v \in Neighbours[n] /\ n # v
      BY NeighboursAssumption
    <2>2. /\ Met(v, w) => Met(n, w)
          /\ On(n, v, Waves(w)) <=> Met(n, w) /\ ~Met(v, w)
      BY <1>2 DEF OneWave, Spreads
    <2>3. CASE v = t
      <3>1. n = s
        BY <1>2, <1>3, <2>1, <2>3, OneWay
      <3>2. Single(s, t, Waves(w))
        BY <1>2 DEF OneWave, Alone
      <3>3. ~On(s, t, Waves(w))'
        BY <1>2, <1>3, <1>6, <3>2, TakingOn DEF Types
      <3> QED BY <1>3, <1>7, <2>1, <2>3, <3>1, <3>3
    <2>4. CASE v # t /\ n # t
      <3>1. On(n, v, Waves(w))' <=> On(n, v, Waves(w))
        BY <1>2, <1>6, <2>1, <2>4, TakingOn DEF Types
      <3> QED BY <1>7, <2>1, <2>2, <2>4, <3>1
    <2>5. CASE n = t
      <3>1. ~Met(v, w)' /\ Met(n, w)'
        BY <1>3, <1>7, <2>1, <2>2, <2>5
      <3>2. CASE Inner
        <4>1. On(n, v, Waves(w))'
          BY <1>2, <1>6, <2>1, <2>5, <3>2, TakingOn DEF Types, Inner
        <4> QED BY <3>1, <4>1
      <3>3. CASE Leaf
        <4>1. v = s
          BY <1>3, <2>1, <2>5, <3>3, OnlyNeighbour DEF Leaf
        <4> QED BY <1>3, <2>5, <4>1
      <3> QED BY <1>9, <3>2, <3>3
    <2> QED BY <2>3, <2>4, <2>5
  <1>15. EchoesBehind(w)'
    <2> SUFFICES ASSUME NEW v \in Site, NEW n \in Neighbours[v], Toward(n, v, w),
                        Over(n, w)'
                 PROVE  Followed(n, v, Waves(w), Echoes(n, w))'
      BY DEF EchoesBehind
    <2>1. n \in Site /\ v \in Neighbours[n]
      BY NeighboursAssumption
    <2>2. CASE n # t
      <3>1. Over(n, w)
        BY <1>8, <2>1, <2>2 DEF AtOne
      <3>2. Followed(n, v, Waves(w), Echoes(n, w))
        BY <1>2, <3>1 DEF OneWave, EchoesBehind
      <3> QED BY <1>2, <1>6, <2>1, <2>2, <3>2, TakingFollowed DEF Types
    <2>3. CASE n = t
      <3>1. out \cap Waves(w) = {} /\ out \cap Echoes(t, w) # {}
        BY <1>9, <2>3 DEF Leaf, Inner
      <3> QED BY <1>2, <1>6, <2>1, <2>3, <3>1, TakingAppends DEF Types
    <2> QED BY <2>2, <2>3
  <1>16. \A n \in Neighbours[t] : Toward(n, t, w) => n # t /\ n \in Site /\ ~Over(n, w)'
    <2> SUFFICES ASSUME NEW n \in Neighbours[t], Toward(n, t, w)
                 PROVE  n # t /\ n \in Site /\ ~Over(n, w)'
      OBVIOUS
    <2>1. n \in Site /\ n # t /\ t \in Neighbours[n]
      BY NeighboursAssumption
    <2>2. ~Met(n, w)
      BY <1>2, <1>3, <2>1 DEF OneWave, Spreads
    <2> QED BY <1>8, <2>1, <2>2 DEF AtOne, Over
  <1>17. Owed(t, w)' = Neighbours[t] \ {s}
    <2>1. \A n \in Neighbours[t] : n # s => Toward(n, t, w)
      BY <1>2, <1>3, OthersBehind
    <2> QED BY <1>3, <1>16, <2>1 DEF Owed, Pending
  <1>18. Parent(t, w)' /\ Counts(t, w)'
    <2>1. CASE Leaf
      <3>1. Owed(t, w)' = {}
        BY <1>3, <1>17, <2>1, OnlyNeighbour DEF Leaf
      <3> QED BY <2>1, <3>1 DEF Leaf, Parent, Counts, Waits
    <2>2. CASE Inner
      <3>1. Cardinality(Neighbours[t] \ {s}) = NbNeighbors(t) - 1
        BY <1>3, NbNeighborsFacts, FS_RemoveElement DEF NbNeighbors
      <3>2. Neighbours[t] \ {s} # {}
        <4>1. NbNeighbors(t) - 1 # 0
          BY <2>2, NbNeighborsFacts DEF Inner
        <4>2. Cardinality({}) = 0
          BY FS_EmptySet
        <4> QED BY <3>1, <4>1, <4>2
      <3>3. Parent(t, w)'
        BY <1>3, <1>4, <1>7, <2>2 DEF Inner, Parent
      <3>4. Counts(t, w)'
        BY <1>17, <2>2, <3>1, <3>2 DEF Inner, Counts
      <3> QED BY <3>3, <3>4
    <2> QED BY <1>9, <2>1, <2>2
  <1>19. ASSUME NEW u \in Site, u # t PROVE Owed(u, w)' = Owed(u, w)
    <2> SUFFICES ASSUME NEW n \in Neighbours[u], Toward(n, u, w)
                 PROVE  (~Over(n, w) \/ On(n, u, Echoes(n, w)))
                            <=> (~Over(n, w)' \/ On(n, u, Echoes(n, w))')
      BY DEF Owed, Pending
    <2>1. n \in Site /\ u \in Neighbours[n]
      BY NeighboursAssumption
    <2>2. CASE n # t
      <3>1. On(n, u, Echoes(n, w))' <=> On(n, u, Echoes(n, w))
        BY <1>2, <1>6, <1>19, <2>1, <2>2, TakingOn DEF Types
      <3> QED BY <1>8, <2>1, <2>2, <3>1 DEF AtOne
    <2>3. CASE n = t
      <3>1. ~Over(n, w)
        BY <1>11, <2>3
      <3>2. Leaf => On(n, u, Echoes(n, w))'
        BY <1>2, <1>6, <2>1, <2>3, TakingOn DEF Types, Leaf
      <3>3. Inner => ~Over(n, w)'
        BY <2>3 DEF Inner
      <3> QED BY <1>9, <3>1, <3>2, <3>3
    <2> QED BY <2>2, <2>3
  <1>20. Kept(w)'
    <2>1. ASSUME NEW u \in Site, u # t PROVE Parent(u, w)' /\ Counts(u, w)'
      <3>1. Parent(u, w) /\ Counts(u, w)
        BY <1>2 DEF OneWave, Kept
      <3> QED BY <1>1, <1>8, <1>19, <2>1, <3>1, OtherKept
    <2> QED BY <1>18, <2>1 DEF Kept
  <1>21. Ends(w)'
    <2>1. met[w] \in Seq(Site) /\ met'[w] = Append(met[w], t)
      BY <1>1, <1>2 DEF Types
    <2>2. \A i \in DOMAIN met[w] : met[w][i] # t
      BY <1>3 DEF Met, MetSites
    <2>3. Met(w, w)
      BY <1>2, <1>3 DEF OneWave, Ends, Met, MetSites
    <2>4. Met(w, w)' /\ (Over(w, w)' <=> Over(w, w))
      BY <1>2, <1>4, <1>7, <1>8, <2>3 DEF AtOne
    <2>5. \A i, j \in DOMAIN met'[w] : met'[w][i] = met'[w][j] => i = j
      <3>1. \A i, j \in DOMAIN met[w] : met[w][i] = met[w][j] => i = j
        BY <1>2 DEF OneWave, Ends
      <3> QED BY <2>1, <2>2, <3>1
    <2> QED BY <1>1, <1>2, <2>4, <2>5 DEF OneWave, Ends
  <1> QED BY <1>12, <1>13, <1>14, <1>15, <1>20, <1>21 DEF OneWave

(* The echo of a child of t, which was waiting for it. *)
LEMMA EchoWave ==
    ASSUME Tree, InTree, NEW s \in Site, NEW t \in Site, NEW w, NEW state,
           HandleEchoDoes(s, t, w, state)
    PROVE  OneWave(w)'
  <1> PICK m : m = FirstOf(s, t)
    OBVIOUS
  <1>1. /\ Receives(s, t) /\ m.body.action = "RETURN_WAVE" /\ m.body.wave = w
        /\ w \in Initiators /\ Knows(t, w) /\ state = waves[t][w] /\ met' = met
    BY DEF HandleEchoDoes
  <1>2. OneWave(w) /\ Types /\ TreeInv /\ w \in Site
    BY <1>1, InitiatorsAssumption DEF InTree
  <1>3. /\ m \in Echoes(s, w) /\ s \in Neighbours[t] /\ On(s, t, Echoes(s, w))
        /\ Toward(s, t, w) /\ Over(s, w) /\ Waits(t, w) /\ s \in Owed(t, w) /\ Met(t, w)
    BY <1>1, EchoFromChild
  <1>4. m \notin Waves(w) /\ s # t /\ t \in Neighbours[s]
    BY <1>1, <1>3, NeighboursAssumption DEF Waves
  <1>5. state \in WaveState /\ Parent(t, w) /\ Counts(t, w)
    BY <1>1, <1>2 DEF Types, StatesTyped, Knows, OneWave, Kept
  <1>6. /\ t = w => state.parent = NoSite
        /\ t # w => Toward(t, state.parent, w) /\ state.parent \in Site
    BY <1>1, <1>5, NotFromThere, NeighboursAssumption DEF Parent
  <1>7. NoSite \notin Site
    BY SiteAssumption DEF NoSite
  (* t waits for more, or is done with the wave. *)
  <1> DEFINE More(out) ==
                 /\ state.pending > 1 /\ complete' = complete /\ out = {}
                 /\ Waits(t, w)' /\ waves'[t][w].parent = state.parent
                 /\ waves'[t][w].pending = state.pending - 1
             Last(out) ==
                 /\ state.pending <= 1 /\ ~Waits(t, w)'
                 /\ \/ /\ t = w /\ out = {} /\ complete' = complete \cup {w} /\ ~Knows(t, w)'
                    \/ /\ t # w /\ out = {EchoOf(t, w, state.parent)}
                       /\ complete' = complete
                       /\ waves'[t][w].parent = state.parent
  <1>8. \A u \in Site : Met(u, w)' <=> Met(u, w)
    BY <1>1 DEF Met, MetSites
  <1>9. KnownElsewhere(t, w) /\ \E out : Taking(s, t, out) /\ (More(out) \/ Last(out))
    <2>1. CASE /\ state.pending > 1 /\ complete' = complete /\ Taking(s, t, {})
               /\ Set(t, w, [state EXCEPT !.pending = @ - 1])
      <3> PICK n : n = [state EXCEPT !.pending = @ - 1]
        OBVIOUS
      <3>1. n.done = state.done /\ n.parent = state.parent /\ n.pending = state.pending - 1
        BY <1>5, CountedFacts
      <3>2. Knows(t, w)' /\ waves'[t][w] = n /\ KnownElsewhere(t, w)
        BY <1>1, <1>2, <2>1, SetFacts
      <3>3. Waits(t, w)'
        BY <1>1, <1>3, <3>1, <3>2 DEF Waits
      <3> QED BY <2>1, <3>1, <3>2, <3>3
    <2>2. CASE /\ state.pending <= 1 /\ state.parent = NoSite /\ Taking(s, t, {})
               /\ complete' = complete \cup {w} /\ Forget(t, w)
      <3>1. ~Knows(t, w)' /\ KnownElsewhere(t, w)
        BY <1>1, <1>2, <2>2, ForgetFacts
      <3>2. t = w /\ ~Waits(t, w)'
        BY <1>6, <1>7, <2>2, <3>1 DEF Waits
      <3> QED BY <2>2, <3>1, <3>2
    <2>3. CASE /\ state.pending <= 1 /\ state.parent \in Site /\ complete' = complete
               /\ Set(t, w, [state EXCEPT !.pending = @ - 1, !.done = TRUE])
               /\ Taking(s, t, {EchoOf(t, w, state.parent)})
      <3> PICK n : n = [state EXCEPT !.pending = @ - 1, !.done = TRUE]
        OBVIOUS
      <3>1. n.done /\ n.parent = state.parent
        BY <1>5, CountedFacts
      <3>2. Knows(t, w)' /\ waves'[t][w] = n /\ KnownElsewhere(t, w)
        BY <1>1, <1>2, <2>3, SetFacts
      <3>3. t # w /\ ~Waits(t, w)'
        BY <1>6, <1>7, <2>3, <3>1, <3>2 DEF Waits
      <3> QED BY <2>3, <3>1, <3>2, <3>3
    <2> QED BY <2>1, <2>2, <2>3 DEF HandleEchoDoes
  <1>10. AtOne(t, w)
    BY <1>1, <1>8, <1>9, AtOneFacts
  <1>11. PICK out : Taking(s, t, out) /\ (More(out) \/ Last(out))
    BY <1>9
  <1> HIDE DEF More, Last
  <1>12. /\ out \cap Waves(w) = {}
         /\ out \cap Echoes(t, w) # {} <=> out # {}
         /\ \A x \in out : x = EchoOf(t, w, state.parent)
         /\ out # {} => Last(out) /\ t # w
    BY <1>1, <1>2, <1>6, <1>11, WrittenKinds DEF More, Last
  <1>13. /\ ~Over(t, w) /\ (Over(t, w)' <=> Last(out)) /\ (More(out) <=> ~Last(out))
         /\ t # w => (out # {} <=> Last(out))
    BY <1>1, <1>3, <1>5, <1>8, <1>11 DEF Over, More, Last, WaveState
  <1>14. \A v \in Site : ~On(t, v, Echoes(t, w))
    BY <1>1, <1>2, <1>13, OnlyTheMetWrite DEF OneWave
  <1>15. AllSaid(w)'
    <2>1. \A u \in Site : Over(u, w) => Over(u, w)'
      BY <1>10, <1>13 DEF AtOne
    <2>2. ASSUME NEW x \in out PROVE Said(t, x, w)'
      <3>1. x = EchoOf(t, w, state.parent) /\ Over(t, w)' /\ t # w
        BY <1>12, <1>13
      <3> QED BY <1>6, <3>1 DEF Said, EchoOf
    <2> QED BY <1>2, <1>8, <1>11, <2>1, <2>2, TakingSaid DEF OneWave
  <1>16. Alone(w)'
    <2> SUFFICES ASSUME NEW u \in Site, NEW v \in Site
                 PROVE  Single(u, v, Waves(w))' /\ Single(u, v, Echoes(u, w))'
      BY DEF Alone
    <2>1. Single(u, v, Waves(w)) /\ Single(u, v, Echoes(u, w))
      BY <1>2 DEF OneWave, Alone
    <2> QED BY <1>2, <1>11, <1>12, <1>14, <2>1, TakingSingle DEF Types
  <1>17. Spreads(w)'
    <2> SUFFICES ASSUME NEW v \in Site, NEW n \in Neighbours[v], Toward(v, n, w)
                 PROVE  /\ Met(v, w)' => Met(n, w)'
                        /\ On(n, v, Waves(w))' <=> Met(n, w)' /\ ~Met(v, w)'
      BY DEF Spreads
    <2>1. n \in Site
      BY NeighboursAssumption
    <2>2. On(n, v, Waves(w))' <=> On(n, v, Waves(w))
      BY <1>2, <1>4, <1>11, <1>12, <2>1, TakingOn DEF Types
    <2> QED BY <1>2, <1>8, <2>1, <2>2 DEF OneWave, Spreads
  <1>18. EchoesBehind(w)'
    <2> SUFFICES ASSUME NEW v \in Site, NEW n \in Neighbours[v], Toward(n, v, w),
                        Over(n, w)'
                 PROVE  Followed(n, v, Waves(w), Echoes(n, w))'
      BY DEF EchoesBehind
    <2>1. n \in Site /\ v \in Neighbours[n]
      BY NeighboursAssumption
    <2>2. CASE n # t
      <3>1. Over(n, w)
        BY <1>10, <2>1, <2>2 DEF AtOne
      <3>2. Followed(n, v, Waves(w), Echoes(n, w))
        BY <1>2, <3>1 DEF OneWave, EchoesBehind
      <3> QED BY <1>2, <1>11, <1>12, <2>1, <2>2, <3>2, TakingFollowed DEF Types
    <2>3. CASE n = t
      <3>1. t # w
        BY <2>3, NotFromThere
      <3>2. out \cap Echoes(t, w) # {}
        BY <1>12, <1>13, <2>3, <3>1
      <3> QED BY <1>2, <1>11, <1>12, <2>1, <2>3, <3>2, TakingAppends DEF Types
    <2> QED BY <2>2, <2>3
  <1>19. Owed(t, w)' = Owed(t, w) \ {s}
    <2>1. ~On(s, t, Echoes(s, w))'
      <3>1. Single(s, t, Echoes(s, w))
        BY <1>2 DEF OneWave, Alone
      <3> QED BY <1>2, <1>3, <1>11, <3>1, TakingOn DEF Types
    <2>2. Over(s, w)'
      BY <1>3, <1>4, <1>10 DEF AtOne
    <2>3. ASSUME NEW n \in Neighbours[t], n # s
          PROVE  Pending(n, t, w)' <=> Pending(n, t, w)
      <3>1. n \in Site /\ n # t
        BY NeighboursAssumption
      <3>2. On(n, t, Echoes(n, w))' <=> On(n, t, Echoes(n, w))
        BY <1>2, <1>11, <2>3, <3>1, TakingOn DEF Types
      <3> QED BY <1>10, <3>1, <3>2 DEF AtOne, Pending
    <2> QED BY <1>3, <2>1, <2>2, <2>3 DEF Owed, Pending
  <1>20. /\ state.pending = Cardinality(Owed(t, w))
         /\ Cardinality(Owed(t, w) \ {s}) = state.pending - 1
         /\ IsFiniteSet(Owed(t, w) \ {s}) /\ Cardinality(Owed(t, w) \ {s}) \in Nat
    <2>1. state.pending = Cardinality(Owed(t, w))
      BY <1>1, <1>3, <1>5 DEF Counts
    <2>2. IsFiniteSet(Owed(t, w)) /\ IsFiniteSet(Owed(t, w) \ {s})
      BY OwedFinite, FS_RemoveElement
    <2>3. Cardinality(Owed(t, w) \ {s}) = Cardinality(Owed(t, w)) - 1
      BY <1>3, <2>2, FS_RemoveElement
    <2>4. Cardinality(Owed(t, w) \ {s}) \in Nat
      BY <2>2, FS_CardinalityType
    <2> QED BY <2>1, <2>2, <2>3, <2>4
  <1>21. Parent(t, w)' /\ Counts(t, w)'
    <2>1. CASE More(out)
      <3>1. Cardinality(Owed(t, w) \ {s}) # 0
        BY <1>5, <1>20, <2>1 DEF More, WaveState
      <3>2. Owed(t, w)' # {}
        <4>1. Cardinality({}) = 0
          BY FS_EmptySet
        <4> QED BY <1>19, <3>1, <4>1
      <3>3. Parent(t, w)'
        BY <1>3, <1>6, <1>8, <2>1 DEF More, Parent
      <3>4. Counts(t, w)'
        BY <1>13, <1>19, <1>20, <2>1, <3>2 DEF More, Counts
      <3> QED BY <3>3, <3>4
    <2>2. CASE Last(out)
      <3>1. Cardinality(Owed(t, w) \ {s}) = 0
        BY <1>5, <1>20, <2>2 DEF Last, WaveState
      <3>2. Owed(t, w)' = {}
        BY <1>19, <1>20, <3>1, FS_EmptySet
      <3>3. Parent(t, w)'
        BY <1>3, <1>6, <1>8, <2>2 DEF Last, Parent
      <3>4. Counts(t, w)'
        BY <2>2, <3>2 DEF Last, Counts
      <3> QED BY <3>3, <3>4
    <2> QED BY <1>11, <2>1, <2>2
  <1>22. ASSUME NEW u \in Site, u # t PROVE Owed(u, w)' = Owed(u, w)
    <2> SUFFICES ASSUME NEW n \in Neighbours[u], Toward(n, u, w)
                 PROVE  (~Over(n, w) \/ On(n, u, Echoes(n, w)))
                            <=> (~Over(n, w)' \/ On(n, u, Echoes(n, w))')
      BY DEF Owed, Pending
    <2>1. n \in Site /\ u \in Neighbours[n]
      BY NeighboursAssumption
    <2>2. CASE n # t
      <3>1. On(n, u, Echoes(n, w))' <=> On(n, u, Echoes(n, w))
        BY <1>2, <1>11, <1>22, <2>1, <2>2, TakingOn DEF Types
      <3> QED BY <1>10, <2>1, <2>2, <3>1 DEF AtOne
    <2>3. CASE n = t
      <3>1. t # w
        BY <2>3, NotFromThere
      <3>2. Last(out) => On(n, u, Echoes(n, w))'
        <4>1. Last(out) => out \cap Echoes(t, w) # {}
          BY <1>12, <1>13, <3>1
        <4> QED BY <1>2, <1>11, <2>1, <2>3, <4>1, TakingOn DEF Types
      <3> QED BY <1>13, <2>3, <3>2
    <2> QED BY <2>2, <2>3
  <1>23. Kept(w)'
    <2>1. ASSUME NEW u \in Site, u # t PROVE Parent(u, w)' /\ Counts(u, w)'
      <3>1. Parent(u, w) /\ Counts(u, w)
        BY <1>2 DEF OneWave, Kept
      <3> QED BY <1>1, <1>10, <1>22, <2>1, <3>1, OtherKept
    <2> QED BY <1>21, <2>1 DEF Kept
  <1>24. Ends(w)'
    <2>1. /\ w \in complete <=> Over(w, w)
          /\ met[w] # <<>> => Met(w, w)
          /\ \A i, j \in DOMAIN met[w] : met[w][i] = met[w][j] => i = j
      BY <1>2 DEF OneWave, Ends
    <2>2. w \in complete' <=> Over(w, w)'
      <3>1. CASE t = w
        BY <1>11, <1>13, <2>1, <3>1 DEF More, Last
      <3>2. CASE t # w
        BY <1>2, <1>10, <1>11, <2>1, <3>2 DEF More, Last, AtOne
      <3> QED BY <3>1, <3>2
    <2> QED BY <1>1, <1>2, <1>8, <2>1, <2>2 DEF Ends
  <1> QED BY <1>15, <1>16, <1>17, <1>18, <1>23, <1>24 DEF OneWave

(* What is taken or written for a wave is of no account to the others. *)
LEMMA OthersAside ==
    ASSUME Types, NEW s \in Site, NEW t \in Site, NEW m, m = FirstOf(s, t),
           NEW w, m.body.wave = w, NEW out, \A y \in out : y.body.wave = w,
           Taking(s, t, out), NEW x \in Initiators, x # w, OneWave(x), Same(x)
    PROVE  OneWave(x)'
  <1>1. Aside(s, t, m, out, x)
    BY DEF Aside, Waves, Echoes
  <1> QED BY <1>1, AsideTaking

LEMMA IgnoreAside ==
    ASSUME Tree, InTree, NEW s \in Site, NEW t \in Site, Ignore(s, t), NEW x \in Initiators
    PROVE  OneWave(x)'
  <1> PICK m : m = FirstOf(s, t)
    OBVIOUS
  <1> PICK w : w = m.body.wave
    OBVIOUS
  <1>1. /\ Receives(s, t) /\ Taking(s, t, {}) /\ Ignorable(t, m.body)
        /\ waves' = waves /\ met' = met /\ complete' = complete
    BY IgnoreFacts DEF InTree
  <1>2. Same(x) /\ OneWave(x) /\ Types
    BY <1>1 DEF InTree, Same, Knows
  <1>3. CASE x # w
    BY <1>1, <1>2, <1>3, OthersAside
  <1>4. CASE x = w
    <2>1. m.body.action = "WAVE" \/ m.body.action = "RETURN_WAVE"
      BY <1>1, <1>2, ReceivedFacts DEF Body
    <2>2. m.body.action # "RETURN_WAVE"
      <3> SUFFICES ASSUME m.body.action = "RETURN_WAVE" PROVE FALSE
        OBVIOUS
      <3>1. Waits(t, w)
        BY <1>1, EchoFromChild
      <3> QED BY <1>1, <3>1 DEF Ignorable, LateEcho, Waits
    <2>3. Knows(t, w)
      BY <1>1, <2>1, <2>2 DEF Ignorable
    <2>4. ~Toward(t, s, w)
      BY <1>1, <2>1, <2>2, <2>3, WhichWay
    <2>5. Aside(s, t, m, {}, w)
      BY <2>2, <2>4 DEF Aside, Echoes
    <2> QED BY <1>1, <1>2, <1>4, <2>5, AsideTaking
  <1> QED BY <1>3, <1>4

(* Who has no part in a message sees it on its way to somebody else. *)
LEMMA PassAside ==
    ASSUME Tree, InTree, NEW s \in Site, NEW t \in Site, Pass(s, t), NEW x \in Initiators
    PROVE  OneWave(x)'
  <1> PICK m : m = FirstOf(s, t)
    OBVIOUS
  <1> PICK w : w = m.body.wave
    OBVIOUS
  <1>1. /\ link[s][t] # <<>> /\ Taking(s, t, Again(s, t))
        /\ ~(IsNew(t, m) /\ Processes(t, m))
        /\ waves' = waves /\ met' = met /\ complete' = complete
    BY PassFacts DEF InTree
  <1>2. Same(x) /\ OneWave(x) /\ Types /\ TreeInv
    BY <1>1 DEF InTree, Same, Knows
  <1>3. /\ m = link[s][t][1] /\ 1 \in Places(s, t) /\ m \in Message(Body)
        /\ CarriedWell(s, t, m) /\ Addressed(m) /\ m.body \in Body
    BY <1>1, <1>2, FirstFacts, Kinds DEF Types, AllAddressed, Message
  <1>4. m.sender = s => IsNew(t, m) /\ m.sender # t
    BY <1>2, <1>3, DirectIsNew DEF Types, IsNew, Id
  <1>5. m.body.action # "WAVE"
    <2> SUFFICES ASSUME m.body.action = "WAVE" PROVE FALSE
      OBVIOUS
    <2>1. m.dest = BROADCAST_NEIGHBORS /\ m.sender = s
      BY <1>3 DEF Addressed, CarriedWell
    <2> QED BY <1>1, <1>4, <2>1 DEF Processes
  <1>6. Toward(s, t, x) => m \notin Echoes(s, x)
    <2> SUFFICES ASSUME Toward(s, t, x), m \in Echoes(s, x) PROVE FALSE
      OBVIOUS
    <2>1. m.sender = s /\ m.body.action = "RETURN_WAVE" /\ m.body.wave = x
      BY DEF Echoes
    <2>2. Toward(s, m.dest, x)
      BY <1>2, <1>3, <2>1 DEF OneWave, AllSaid, Said
    <2>3. m.dest = t
      <3>1. m.dest \in Site /\ x \in Site
        BY <2>2, NotFromThere, NeighboursAssumption, InitiatorsAssumption
      <3> QED BY <2>2, <3>1, OneWay
    <2> QED BY <1>1, <1>4, <2>1, <2>3 DEF Processes
  <1>7. Aside(s, t, m, Again(s, t), x)
    BY <1>5, <1>6 DEF Aside, Again, Forwards, Waves
  <1> QED BY <1>1, <1>2, <1>7, AsideTaking

LEMMA InTreeInit == ASSUME Init PROVE InTree
  <1>1. Types /\ TreeInv /\ \A u, v \in Site : Places(u, v) = {}
    BY TypesInit, TreeInit, LinksInitFacts DEF Init
  <1>2. ASSUME NEW w \in Initiators PROVE OneWave(w)
    <2>1. /\ w \in Site /\ met[w] = <<>> /\ complete = {}
          /\ \A s \in Site : DOMAIN waves[s] = {}
      BY InitiatorsAssumption DEF Init
    <2>2. \A s \in Site : ~Met(s, w) /\ ~Knows(s, w) /\ ~Waits(s, w) /\ ~Over(s, w)
      BY <2>1 DEF Met, MetSites, Knows, Waits, Over
    <2>3. AllSaid(w) /\ Alone(w) /\ \A u, v \in Site : ~On(u, v, Waves(w))
      BY <1>1 DEF AllSaid, Alone, Single, On
    <2>4. Spreads(w) /\ EchoesBehind(w)
      BY <2>2, <2>3, NeighboursAssumption DEF Spreads, EchoesBehind
    <2>5. Kept(w)
      BY <2>2 DEF Kept, Parent, Counts
    <2>6. Ends(w)
      BY <2>1, <2>2 DEF Ends
    <2> QED BY <2>3, <2>4, <2>5, <2>6 DEF OneWave
  <1> QED BY <1>1, <1>2 DEF InTree

LEMMA InTreeNext == ASSUME Tree, InTree, [Next]_vars PROVE InTree'
  <1>1. Types'
    BY TypesNext DEF InTree
  <1>2. ASSUME NEW s \in Site, InitWave(s) PROVE InTree'
    <2>1. s \in Initiators /\ Types
      BY <1>2 DEF InitWave, InTree
    <2>2. Sending(s, WaveOf(s, s, NoSite))
      BY <1>2, <2>1, StartSends
    <2>3. TreeInv'
      BY <2>1, <2>2, SendingTree DEF InTree, Types
    <2>4. ASSUME NEW x \in Initiators, x # s PROVE OneWave(x)'
      <3>1. KnownElsewhere(s, s)
        BY <1>2, <2>1, SetFacts DEF InitWave
      <3>2. met'[x] = met[x] /\ complete' = complete
        BY <1>2, <2>1, <2>4 DEF InitWave, Types
      <3>3. Same(x)
        BY <2>1, <2>4, <3>1, <3>2, OthersSame
      <3>4. WaveOf(s, s, NoSite).body.wave # x
        BY <2>4 DEF WaveOf
      <3> QED BY <2>1, <2>2, <3>3, <3>4, AsideSending DEF InTree
    <2>5. OneWave(s)'
      BY <1>2, <2>1, StartWave
    <2> QED BY <1>1, <2>3, <2>4, <2>5 DEF InTree
  <1>3. ASSUME NEW s \in Site, NEW t \in Site, NEW out, Taking(s, t, out),
               \A x \in Initiators : OneWave(x)'
        PROVE  InTree'
    <2>1. TreeInv'
      BY <1>3, TakingTree DEF InTree, Types
    <2> QED BY <1>1, <1>3, <2>1 DEF InTree
  <1>4. ASSUME NEW s \in Site, NEW t \in Site, FirstWave(s, t) PROVE InTree'
    <2> PICK m : m = FirstOf(s, t)
      OBVIOUS
    <2> PICK w : w = m.body.wave
      OBVIOUS
    <2>1. FirstWaveDoes(s, t, w) /\ Types
      BY <1>4, FirstWaveFacts DEF InTree
    <2>2. /\ w \in Initiators /\ met' = [met EXCEPT ![w] = Append(@, t)]
          /\ complete' = complete /\ s \in Site
      BY <2>1 DEF FirstWaveDoes
    <2>3. PICK out : /\ Taking(s, t, out) /\ \A y \in out : y.body.wave = w
                     /\ waves' = waves \/ Set(t, w, State(s, NbNeighbors(t) - 1))
      BY <2>1 DEF FirstWaveDoes, EchoOf, WaveOf
    <2>4. KnownElsewhere(t, w)
      BY <2>1, <2>2, <2>3, SetFacts DEF KnownElsewhere, Knows
    <2>5. ASSUME NEW x \in Initiators, x # w PROVE OneWave(x)'
      <3>1. met'[x] = met[x]
        BY <2>1, <2>2, <2>5 DEF Types
      <3>2. Same(x)
        BY <2>2, <2>4, <2>5, <3>1, OthersSame
      <3> QED BY <2>1, <2>3, <2>5, <3>2, OthersAside DEF InTree
    <2>6. OneWave(w)'
      BY <2>1, MeetWave
    <2> QED BY <1>3, <2>3, <2>5, <2>6
  <1>5. ASSUME NEW s \in Site, NEW t \in Site, HandleEcho(s, t) PROVE InTree'
    <2> PICK m : m = FirstOf(s, t)
      OBVIOUS
    <2> PICK w : w = m.body.wave
      OBVIOUS
    <2> PICK state : state = waves[t][w]
      OBVIOUS
    <2>1. HandleEchoDoes(s, t, w, state) /\ Types
      BY <1>5, HandleEchoFacts DEF InTree
    <2>2. w \in Initiators /\ met' = met
      BY <2>1 DEF HandleEchoDoes
    <2>3. PICK out : /\ Taking(s, t, out) /\ \A y \in out : y.body.wave = w
      BY SMTT(30), <2>1 DEF HandleEchoDoes, EchoOf
    <2>4. KnownElsewhere(t, w)
      BY SMTT(30), <2>1, <2>2, SetFacts, ForgetFacts DEF HandleEchoDoes
    <2>5. ASSUME NEW x \in Initiators, x # w PROVE OneWave(x)'
      <3>1. x \in complete' <=> x \in complete
        BY <2>1, <2>5 DEF HandleEchoDoes
      <3>2. Same(x)
        BY <2>2, <2>4, <2>5, <3>1, OthersSame
      <3> QED BY <2>1, <2>3, <2>5, <3>2, OthersAside DEF InTree
    <2>6. OneWave(w)'
      BY <2>1, EchoWave
    <2> QED BY <1>3, <2>3, <2>5, <2>6
  <1>6. ASSUME NEW s \in Site, NEW t \in Site, Ignore(s, t) PROVE InTree'
    <2>1. Taking(s, t, {})
      BY <1>6, IgnoreFacts DEF InTree
    <2> QED BY <1>3, <1>6, <2>1, IgnoreAside
  <1>7. ASSUME NEW s \in Site, NEW t \in Site, Pass(s, t) PROVE InTree'
    <2>1. Taking(s, t, Again(s, t))
      BY <1>7, PassFacts DEF InTree
    <2> QED BY <1>3, <1>7, <2>1, PassAside
  <1>8. ASSUME NEW s \in Site, NEW t \in Site, CountWave(s, t) PROVE InTree'
    BY <1>8, NeverCounts
  <1>9. CASE UNCHANGED vars
    <2>1. ASSUME NEW w \in Initiators PROVE OneWave(w)'
      <3>1. Same(w) /\ OneWave(w)
        BY <1>9 DEF vars, Same, Knows, InTree
      <3>2. Calm(w)
        BY SMTT(30), <1>9, <3>1, SameFacts, NeighboursAssumption
           DEF vars, linkVars, OneWave, Calm, AllSaid, Said, Alone, Single, On,
               Followed, Places, Met, MetSites, Over, Waits, Knows
      <3> QED BY <3>1, <3>2, CalmWave
    <2>2. TreeInv'
      BY <1>9 DEF vars, linkVars, InTree, TreeInv, Directed, SeenOnTheWay, Places
    <2> QED BY <1>1, <2>1, <2>2 DEF InTree
  <1> QED BY <1>2, <1>4, <1>5, <1>6, <1>7, <1>8, <1>9 DEF Next, Step

LEMMA InTreeAlways == ASSUME Tree PROVE Spec => []InTree
  <1>1. Init => InTree
    BY InTreeInit
  <1>2. InTree /\ [Next]_vars => InTree'
    BY InTreeNext
  <1> QED BY <1>1, <1>2, PTL DEF Spec

(* In a tree MetOnce holds: no site meets a wave twice, not even one that  *)
(* has answered it and has nothing left to remember it by.                 *)
THEOREM WavesMeetOnce == ASSUME Tree PROVE Spec => []MetOnce
  <1>1. InTree => MetOnce
    BY DEF InTree, OneWave, Ends, MetOnce
  <1> QED BY <1>1, InTreeAlways, PTL

(* In a tree CompleteMeansAll holds: onWaveComplete is called when every   *)
(* site has met the wave, and never before.                                *)
THEOREM WavesCompleteLast == ASSUME Tree PROVE Spec => []CompleteMeansAll
  <1>1. InTree => CompleteMeansAll
    <2> SUFFICES ASSUME InTree, NEW w \in complete PROVE MetSites(w) = Site
      BY DEF CompleteMeansAll
    <2>1. w \in Initiators /\ w \in Site /\ OneWave(w) /\ Types
      BY InitiatorsAssumption DEF InTree, Types
    <2> DEFINE G == {s \in Site : Over(s, w)}
    <2>2. DownClosed(G, w)
      <3>1. w \in G
        BY <2>1 DEF OneWave, Ends
      <3>2. ASSUME NEW s \in G, NEW v \in Neighbours[s], Toward(v, s, w) PROVE v \in G
        <4>1. Owed(s, w) = {} /\ v \in Site
          BY <2>1, NeighboursAssumption DEF OneWave, Kept, Counts
        <4> QED BY <3>2, <4>1 DEF Owed, Pending
      <3> QED BY <3>1, <3>2 DEF DownClosed
    <2>3. G = Site
      BY <2>1, <2>2, Descent
    <2>4. Site \subseteq MetSites(w)
      BY <2>3 DEF Over, Met
    <2>5. MetSites(w) \subseteq Site
      BY <2>1 DEF Types, MetSites
    <2> QED BY <2>4, <2>5
  <1> QED BY <1>1, InTreeAlways, PTL

(* In a tree of two sites at least NoWaveAbandoned holds: while a wave is  *)
(* not complete, something of it is on its way.                            *)
THEOREM WavesNotAbandoned ==
    ASSUME Tree, \A s \in Site : Neighbours[s] # {}
    PROVE  Spec => []NoWaveAbandoned
  <1>1. InTree => NoWaveAbandoned
    <2> SUFFICES ASSUME InTree, Silent, NEW w \in Initiators, met[w] # <<>>, w \notin complete
                 PROVE  FALSE
      BY DEF NoWaveAbandoned
    <2>1. w \in Site /\ OneWave(w)
      BY InitiatorsAssumption DEF InTree
    <2>2. \A u, v \in Site : \A K : ~On(u, v, K)
      BY DEF Silent, On, Places
    (* Every site has met the wave. *)
    <2> DEFINE G == {s \in Site : Met(s, w)}
    <2>3. DownClosed(G, w)
      <3>1. w \in G
        BY <2>1 DEF OneWave, Ends
      <3>2. ASSUME NEW s \in G, NEW v \in Neighbours[s], Toward(v, s, w) PROVE v \in G
        <4>1. v \in Site /\ s \in Neighbours[v] /\ ~On(s, v, Waves(w))
          BY <2>2, NeighboursAssumption
        <4> QED BY <2>1, <3>2, <4>1 DEF OneWave, Spreads
      <3> QED BY <3>1, <3>2 DEF DownClosed
    <2>4. G = Site
      BY <2>1, <2>3, Descent
    (* Who waits, waits for another one that waits. *)
    <2> DEFINE U == {s \in Site : Waits(s, w)}
    <2>5. w \in U
      BY <2>1, <2>4 DEF OneWave, Ends, Over
    <2>6. ASSUME NEW u \in U PROVE \E v \in U : Toward(v, u, w)
      <3>1. Owed(u, w) # {}
        BY <2>1 DEF OneWave, Kept, Counts
      <3>2. PICK v \in Neighbours[u] : Toward(v, u, w) /\ ~Over(v, w)
        BY <2>2, <3>1, NeighboursAssumption DEF Owed, Pending
      <3>3. v \in Site /\ Met(v, w)
        BY <2>4, NeighboursAssumption
      <3> QED BY <3>2, <3>3 DEF Over
    <2>7. U = {}
      BY <2>1, <2>6, NoEndlessDescent
    <2> QED BY <2>5, <2>7
  <1> QED BY <1>1, InTreeAlways, PTL

=============================================================================
