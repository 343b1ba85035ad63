----------------------- MODULE DistributedFileProofs -----------------------
(***************************************************************************)
(* Safety of the distributed queue for every number of sites, every set of *)
(* tasks, every placement of the tasks and every number of UI requests:    *)
(* types, the exclusion of grants, and that no published fact is lost.     *)
(* With one task per site: the exclusion of the tasks themselves, and that *)
(* the sites together implement SharedRegister.                            *)
(*                                                                         *)
(* The argument looks at one ordered pair of sites <<u, v>> at a time: the *)
(* channel net[u][v], the entry tab[v][u] that v keeps for u, the entry    *)
(* tab[u][u] that u keeps for itself, and the clock of u.  PairStep lists  *)
(* the four ways a step can change them.                                   *)
(***************************************************************************)
EXTENDS DistributedFile, TLAPS, SequenceTheorems

Channels == [Site -> [Site -> Seq(NetMessage)]]

-----------------------------------------------------------------------------
(* Sequences and channels. *)

(* The elements of the tail are those of the sequence, one place earlier. *)
LEMMA TailFacts ==
    ASSUME NEW S, NEW q \in Seq(S), q # <<>>
    PROVE  /\ Tail(q) \in Seq(S)
           /\ Len(q) = 1 => Tail(q) = <<>>
           /\ Head(q) \in S /\ Head(q) = q[1]
           /\ Len(q) \in Nat \ {0} /\ Len(Tail(q)) = Len(q) - 1
           /\ \A i \in 1 .. Len(Tail(q)) : Tail(q)[i] = q[i + 1]
  <1>1. /\ Tail(q) \in Seq(S)
        /\ Head(q) \in S /\ Head(q) = q[1]
        /\ Len(q) \in Nat \ {0} /\ Len(Tail(q)) = Len(q) - 1
        /\ \A i \in 1 .. Len(Tail(q)) : Tail(q)[i] = q[i + 1]
    OBVIOUS
  <1>2. Tail(q) # <<>> => Len(Tail(q)) # 0
    BY <1>1, EmptySeq
  <1> QED BY <1>1, <1>2

(* The elements of a sequence, by their places. *)
LEMMA ElementFacts ==
    ASSUME NEW S, NEW q \in Seq(S)
    PROVE  Len(q) \in Nat /\ \A i \in 1 .. Len(q) : q[i] \in S
  OBVIOUS

(* Append leaves every element in place and adds one. *)
LEMMA AppendFacts ==
    ASSUME NEW S, NEW q \in Seq(S), NEW m \in S
    PROVE  /\ Append(q, m) \in Seq(S)
           /\ Len(q) \in Nat /\ Len(Append(q, m)) = Len(q) + 1
           /\ \A i \in 1 .. Len(q) : Append(q, m)[i] = q[i]
           /\ Append(q, m)[Len(q) + 1] = m
  OBVIOUS

(* Pop removes the first message of one channel and leaves the others. *)
LEMMA PopAt ==
    ASSUME NEW chans \in Channels, NEW s \in Site, NEW t \in Site,
           chans[s][t] # <<>>
    PROVE  /\ Pop(chans, s, t) \in Channels
           /\ \A u, v \in Site : Pop(chans, s, t)[u][v] =
                IF u = s /\ v = t THEN Tail(chans[s][t]) ELSE chans[u][v]
  <1>1. Tail(chans[s][t]) \in Seq(NetMessage)
    BY TailFacts DEF Channels
  <1> QED BY <1>1 DEF Pop, Channels

(* SendAcks appends one ACK to the channels towards its destinations. *)
LEMMA SendAcksAt ==
    ASSUME NEW chans \in Channels, NEW s \in Site, NEW dests, NEW c \in Nat
    PROVE  /\ SendAcks(chans, s, dests, c) \in Channels
           /\ \A u, v \in Site : SendAcks(chans, s, dests, c)[u][v] =
                IF u = s /\ v \in dests
                THEN Append(chans[s][v], Msg("ACK", c, {})) ELSE chans[u][v]
  <1>1. Msg("ACK", c, {}) \in NetMessage
    BY DEF Msg, NetMessage, QueueMessage
  <1>2. \A v \in Site : /\ chans[s][v] \in Seq(NetMessage)
                        /\ Append(chans[s][v], Msg("ACK", c, {})) \in Seq(NetMessage)
    BY <1>1, AppendFacts DEF Channels
  <1> QED BY <1>2 DEF SendAcks, Channels

(* Broadcast appends the message to every channel that leaves s for        *)
(* another site.                                                           *)
LEMMA BroadcastAt ==
    ASSUME NEW chans \in Channels, NEW s \in Site, NEW m \in NetMessage
    PROVE  /\ Broadcast(chans, s, m) \in Channels
           /\ \A u, v \in Site : Broadcast(chans, s, m)[u][v] =
                IF u = s /\ v # s THEN Append(chans[s][v], m) ELSE chans[u][v]
  <1>1. \A v \in Site : /\ chans[s][v] \in Seq(NetMessage)
                        /\ Append(chans[s][v], m) \in Seq(NetMessage)
    BY AppendFacts DEF Channels
  <1> QED BY <1>1 DEF Broadcast, Channels

-----------------------------------------------------------------------------
(* Type correctness. *)

(* Clock operations keep clocks natural and move them forward; Update goes *)
(* beyond the stamp it was given.                                          *)
LEMMA ClockFacts ==
    ASSUME NEW c \in Nat, NEW stamp \in Nat
    PROVE  /\ Tick(c) \in Nat /\ Tick(c) > c
           /\ Update(c, stamp) \in Nat /\ Update(c, stamp) > c
           /\ Update(c, stamp) > stamp
  BY DEF Tick, Update

(* What the handlers of the three queue messages have in common keeps the  *)
(* types, whatever entries of the right type they computed.                *)
LEMMA HandleDistributedFileType ==
    ASSUME TypeOK, NEW s \in Site, NEW t \in Site, net[s][t] # <<>>,
           NEW entries \in [Site -> TabEntry], NEW answered \in SUBSET Site,
           HandleDistributedFile(s, t, entries, answered)
    PROVE  TypeOK'
  <1> DEFINE m == Head(net[s][t])
             now == Update(Update(clock[t], m.stamp), m.stamp)
  <1>1. net \in Channels /\ m.stamp \in Nat /\ clock[t] \in Nat
    <2>1. net \in Channels /\ clock[t] \in Nat /\ net[s][t] \in Seq(NetMessage)
      BY DEF TypeOK, Channels
    <2>2. m \in NetMessage
      BY <2>1, TailFacts
    <2> QED BY <2>1, <2>2 DEF NetMessage
  <1>2. now \in Nat
    BY <1>1, ClockFacts
  <1>3. Pop(net, s, t) \in Channels
    BY <1>1, PopAt
  <1>4. SendAcks(Pop(net, s, t), t, answered, now) \in Channels
    BY <1>2, <1>3, SendAcksAt
  <1>5. net' \in Channels
    BY <1>3, <1>4 DEF HandleDistributedFile
  <1>6. clock' \in [Site -> Nat] /\ tab' \in [Site -> [Site -> TabEntry]]
    BY <1>2 DEF HandleDistributedFile, TypeOK
  <1>7. blocked' \in [Site -> BOOLEAN] /\ ackTo' \in [Site -> SUBSET Site]
    <2>1. CASE Ready(entries, t)
      <3>1. /\ blocked' = [blocked EXCEPT ![t] = TRUE]
            /\ ackTo' = [ackTo EXCEPT ![t] = answered]
        BY <2>1 DEF HandleDistributedFile
      <3> QED BY <3>1 DEF TypeOK
    <2>2. CASE ~Ready(entries, t)
      BY <2>2 DEF HandleDistributedFile, TypeOK
    <2> QED BY <2>1, <2>2
  <1>8. UNCHANGED <<out, local, pc, reg, uiLeft, published>>
    BY DEF HandleDistributedFile
  <1> QED BY <1>5, <1>6, <1>7, <1>8 DEF TypeOK, Channels

(* A site that dates its own entry keeps the types. *)
LEMMA DateOwnEntryType ==
    ASSUME TypeOK, NEW s \in Site,
           NEW type \in {"SC_REQUEST", "SC_LIBERATION"}, DateOwnEntry(s, type)
    PROVE  /\ clock' \in [Site -> Nat]
           /\ tab' \in [Site -> [Site -> TabEntry]]
           /\ net' \in Channels
  <1> DEFINE date == Tick(Tick(clock[s]))
  <1>1. date \in Nat
    BY ClockFacts DEF TypeOK
  <1>2. Msg(type, date, {}) \in NetMessage /\ Entry(type, date) \in TabEntry
    BY <1>1 DEF Msg, NetMessage, Entry, TabEntry, QueueMessage
  <1>3. net' \in Channels
    <2>1. net' = Broadcast(net, s, Msg(type, date, {}))
      BY DEF DateOwnEntry
    <2>2. net \in Channels
      BY DEF TypeOK, Channels
    <2> QED BY <1>2, <2>1, <2>2, BroadcastAt
  <1> QED BY <1>1, <1>2, <1>3 DEF DateOwnEntry, TypeOK

(* Handling a network message keeps the types. *)
LEMMA NetworkStepType ==
    ASSUME TypeOK, NEW s \in Site, NEW t \in Site \ {s}, NetworkStep(s, t)
    PROVE  TypeOK'
  <1>1. net[s][t] # <<>> /\ net \in Channels /\ tab[t] \in [Site -> TabEntry]
    BY DEF NetworkStep, SCRequestFromNetwork, SCStopFromNetwork, TypeOK,
           AckFromNetwork, HandleRegisterUpdate, NetworkEvent, Channels
  <1>2. Head(net[s][t]) \in NetMessage
    BY <1>1, TailFacts DEF Channels
  <1>3. \A type \in QueueMessage :
            Entry(type, Head(net[s][t]).stamp) \in TabEntry
    BY <1>2 DEF NetMessage, Entry, TabEntry
  <1>4. CASE SCRequestFromNetwork(s, t)
    <2> DEFINE entries ==
                 [tab[t] EXCEPT ![s] = Entry("SC_REQUEST", Head(net[s][t]).stamp)]
               answered == {s}
    <2>1. entries \in [Site -> TabEntry]
      BY <1>1, <1>3 DEF QueueMessage
    <2>2. HandleDistributedFile(s, t, entries, answered)
      BY <1>4 DEF SCRequestFromNetwork
    <2>3. answered \in SUBSET Site
      OBVIOUS
    <2> HIDE DEF entries, answered
    <2> QED BY <1>1, <2>1, <2>2, <2>3, HandleDistributedFileType
  <1>5. CASE SCStopFromNetwork(s, t)
    <2> DEFINE entries ==
                 [tab[t] EXCEPT ![s] = Entry("SC_LIBERATION", Head(net[s][t]).stamp)]
               answered == {}
    <2>1. entries \in [Site -> TabEntry]
      BY <1>1, <1>3 DEF QueueMessage
    <2>2. HandleDistributedFile(s, t, entries, answered)
      BY <1>5 DEF SCStopFromNetwork
    <2>3. answered \in SUBSET Site
      OBVIOUS
    <2> HIDE DEF entries, answered
    <2> QED BY <1>1, <2>1, <2>2, <2>3, HandleDistributedFileType
  <1>6. CASE AckFromNetwork(s, t)
    <2> DEFINE entries ==
                 [tab[t] EXCEPT ![s] = IF @.type = "SC_REQUEST" THEN @
                                 ELSE Entry("ACK", Head(net[s][t]).stamp)]
               answered == {}
    <2>1. entries \in [Site -> TabEntry]
      BY <1>1, <1>3 DEF QueueMessage
    <2>2. HandleDistributedFile(s, t, entries, answered)
      BY <1>6 DEF AckFromNetwork
    <2>3. answered \in SUBSET Site
      OBVIOUS
    <2> HIDE DEF entries, answered
    <2> QED BY <1>1, <2>1, <2>2, <2>3, HandleDistributedFileType
  <1>7. CASE HandleRegisterUpdate(s, t)
    <2> USE DEF HandleRegisterUpdate, TypeOK
    <2>1. net' \in Channels
      BY <1>1, <1>7, PopAt
    <2>2. clock' \in [Site -> Nat]
      BY <1>2, <1>7, ClockFacts DEF NetMessage
    <2>3. reg' \in [Site -> SUBSET Task]
      BY <1>2, <1>7 DEF NetMessage
    <2> QED BY <1>7, <2>1, <2>2, <2>3 DEF Channels
  <1> QED BY <1>4, <1>5, <1>6, <1>7 DEF NetworkStep

(* Every step keeps every variable in its type. *)
LEMMA NextType == ASSUME TypeOK, Next PROVE TypeOK'
  <1> USE DEF TypeOK
  <1>0. net \in Channels /\ \A a \in Task : SiteOf[a] \in Site
    BY TasksAssumption DEF Channels
  <1>1. ASSUME NEW a \in Task, Ask(a) PROVE TypeOK'
    <2>1. Msg("AskingFromSC", 0, {}) \in LocalMessage
      BY DEF Msg, LocalMessage
    <2>2. out' \in [Site -> Seq(LocalMessage)]
      BY <1>0, <1>1, <2>1, AppendFacts DEF Ask
    <2> QED BY <1>0, <1>1, <2>2 DEF Ask
  <1>2. ASSUME NEW a \in Task, Grant(a) PROVE TypeOK'
    <2>1. net' \in Channels
      BY <1>0, <1>2, SendAcksAt DEF Grant
    <2> QED BY <1>0, <1>2, <2>1 DEF Grant, Channels
  <1>3. ASSUME NEW a \in Task, Publish(a) PROVE TypeOK'
    <2>1. Msg("RegisterUpdate", 0, reg[SiteOf[a]]) \in LocalMessage
      BY <1>0 DEF Msg, LocalMessage
    <2>2. out' \in [Site -> Seq(LocalMessage)]
      BY <1>0, <1>3, <2>1, AppendFacts DEF Publish
    <2> QED BY <1>0, <1>3, <2>2 DEF Publish
  <1>4. ASSUME NEW a \in Task, Finish(a) PROVE TypeOK'
    <2>1. Msg("DoneWithSC", 0, {}) \in LocalMessage
      BY DEF Msg, LocalMessage
    <2>2. out' \in [Site -> Seq(LocalMessage)]
      BY <1>0, <1>4, <2>1, AppendFacts DEF Finish
    <2> QED BY <1>0, <1>4, <2>2 DEF Finish
  <1>5. ASSUME NEW s \in Site, ListenUserUIInput(s) PROVE TypeOK'
    <2>1. Msg("LOCAL_SC_REQUEST", 0, {}) \in LocalMessage
      BY DEF Msg, LocalMessage
    <2>2. local' \in [Site -> Seq(LocalMessage)]
      BY <1>5, <2>1, AppendFacts DEF ListenUserUIInput
    <2>3. uiLeft' \in [Site -> Nat]
      BY <1>5 DEF ListenUserUIInput
    <2> QED BY <1>5, <2>2, <2>3 DEF ListenUserUIInput
  <1>6. ASSUME NEW s \in Site, ListenLocalTorrentOutput(s) PROVE TypeOK'
    <2>1. /\ Tail(out[s]) \in Seq(LocalMessage)
          /\ Head(out[s]) \in LocalMessage
      BY <1>6, TailFacts DEF ListenLocalTorrentOutput
    <2>2. [Head(out[s]) EXCEPT !.stamp = clock[s]] \in LocalMessage
      BY <2>1 DEF LocalMessage
    <2>3. local' \in [Site -> Seq(LocalMessage)]
      BY <1>6, <2>2, AppendFacts DEF ListenLocalTorrentOutput
    <2> QED BY <1>6, <2>1, <2>3 DEF ListenLocalTorrentOutput
  <1>7. ASSUME NEW s \in Site, LocalStep(s) PROVE TypeOK'
    <2>1. local[s] # <<>> /\ local' = [local EXCEPT ![s] = Tail(@)]
      BY <1>7 DEF LocalStep, SCRequestFromBaseApp, SCStopFromBaseApp,
                  ForwardRegisterUpdate, LocalEvent
    <2>2. /\ local' \in [Site -> Seq(LocalMessage)]
          /\ Head(local[s]) \in LocalMessage
      BY <2>1, TailFacts
    <2>3. CASE SCRequestFromBaseApp(s)
      BY <2>2, <2>3, DateOwnEntryType DEF SCRequestFromBaseApp, Channels
    <2>4. CASE SCStopFromBaseApp(s)
      BY <2>2, <2>4, DateOwnEntryType DEF SCStopFromBaseApp, Channels
    <2>5. CASE ForwardRegisterUpdate(s)
      <3>1. Head(local[s]) \in NetMessage
        BY <2>2, <2>5 DEF ForwardRegisterUpdate, LocalEvent, LocalMessage, NetMessage
      <3>2. net' \in Channels
        BY <1>0, <2>5, <3>1, BroadcastAt DEF ForwardRegisterUpdate
      <3>3. clock' \in [Site -> Nat]
        BY <2>5, ClockFacts DEF ForwardRegisterUpdate
      <3> QED BY <2>2, <2>5, <3>2, <3>3 DEF ForwardRegisterUpdate, Channels
    <2> QED BY <1>7, <2>3, <2>4, <2>5 DEF LocalStep
  <1>8. ASSUME NEW s \in Site, NEW t \in Site \ {s}, NetworkStep(s, t)
        PROVE  TypeOK'
    BY <1>8, NetworkStepType
  <1> QED BY <1>1, <1>2, <1>3, <1>4, <1>5, <1>6, <1>7, <1>8 DEF Next, TaskStep

(* Every variable keeps its type, in every reachable state. *)
THEOREM TypeCorrect == Spec => []TypeOK
  <1>1. Init => TypeOK
    BY UiAssumption DEF Init, TypeOK, Entry, TabEntry, QueueMessage
  <1>2. TypeOK /\ [Next]_vars => TypeOK'
    BY NextType DEF TypeOK, vars
  <1> QED BY <1>1, <1>2, PTL DEF Spec

-----------------------------------------------------------------------------
(* One ordered pair of sites. *)

(* The entry that replaces e when message m is handled. *)
Received(e, m) ==
    CASE m.type = "SC_REQUEST" -> Entry("SC_REQUEST", m.stamp)
      [] m.type = "SC_LIBERATION" -> Entry("SC_LIBERATION", m.stamp)
      [] m.type = "ACK" /\ e.type # "SC_REQUEST" -> Entry("ACK", m.stamp)
      [] OTHER -> e

(* What a step can do to the pair <<u, v>>. *)
Keeps(u, v) ==
    /\ net'[u][v] = net[u][v]
    /\ tab'[v][u] = tab[v][u]
    /\ tab'[u][u] = tab[u][u]
Receives(u, v) ==
    /\ net[u][v] # <<>>
    /\ net'[u][v] = Tail(net[u][v])
    /\ tab'[v][u] = Received(tab[v][u], Head(net[u][v]))
    /\ tab'[u][u] = tab[u][u]
    /\ Head(net[u][v]).type = "RegisterUpdate" =>
          reg'[v] = reg[v] \cup Head(net[u][v]).payload
Posts(u, v) ==
    \E m \in NetMessage :
        /\ \/ /\ m.type = "RegisterUpdate"
              /\ ForwardRegisterUpdate(u) /\ m = Head(local[u])
           \/ /\ m.type = "ACK" /\ m.payload = {}
              /\ clock[u] <= m.stamp /\ m.stamp <= clock'[u]
        /\ net'[u][v] = Append(net[u][v], m)
        /\ tab'[v][u] = tab[v][u]
        /\ tab'[u][u] = tab[u][u]
Dates(u, v) ==
    \E type \in {"SC_REQUEST", "SC_LIBERATION"} :
        /\ clock[u] < clock'[u]
        /\ net'[u][v] = Append(net[u][v], Msg(type, clock'[u], {}))
        /\ tab'[v][u] = tab[v][u]
        /\ tab'[u][u] = Entry(type, clock'[u])
PairStep(u, v) ==
    /\ clock[u] <= clock'[u]
    /\ Keeps(u, v) \/ Receives(u, v) \/ Posts(u, v) \/ Dates(u, v)

(* The types, as the proofs below use them. *)
LEMMA TypeFacts ==
    ASSUME TypeOK
    PROVE  /\ net \in Channels
           /\ tab \in [Site -> [Site -> TabEntry]]
           /\ clock \in [Site -> Nat]
           /\ \A u, v \in Site : net[u][v] \in Seq(NetMessage)
  BY DEF TypeOK, Channels

(* A handler of the queue at t, with a message from s: t receives on       *)
(* <<s, t>>, posts its answer on <<t, s>>, and touches no other pair.      *)
LEMMA HandlePairStep ==
    ASSUME TypeOK, NEW s \in Site, NEW t \in Site \ {s}, net[s][t] # <<>>,
           Head(net[s][t]).type # "RegisterUpdate",
           NEW answered \in SUBSET {s}, NEW entries,
           entries = [tab[t] EXCEPT ![s] = Received(@, Head(net[s][t]))],
           HandleDistributedFile(s, t, entries, answered),
           NEW u \in Site, NEW v \in Site \ {u}
    PROVE  PairStep(u, v)
  <1> DEFINE stamp == Head(net[s][t]).stamp
             now == Update(Update(clock[t], stamp), stamp)
  <1>1. /\ net \in Channels
        /\ net[s][t] \in Seq(NetMessage)
        /\ tab \in [Site -> [Site -> TabEntry]]
        /\ clock \in [Site -> Nat]
    BY TypeFacts
  <1>2. stamp \in Nat
    <2>1. Head(net[s][t]) \in NetMessage
      BY <1>1, TailFacts
    <2> QED BY <2>1 DEF NetMessage
  <1>3. now \in Nat /\ clock[t] < now
    <2>1. Update(clock[t], stamp) \in Nat /\ clock[t] < Update(clock[t], stamp)
      BY <1>1, <1>2, ClockFacts
    <2>2. now \in Nat /\ Update(clock[t], stamp) < now
      BY <1>2, <2>1, ClockFacts
    <2> HIDE DEF now, stamp
    <2> QED BY <1>1, <2>1, <2>2
  <1>4. /\ clock' = [clock EXCEPT ![t] = now]
        /\ tab' = [tab EXCEPT ![t] = entries]
        /\ \/ net' = Pop(net, s, t)
           \/ net' = SendAcks(Pop(net, s, t), t, answered, now)
    BY DEF HandleDistributedFile
  <1> HIDE DEF now, stamp
  <1>5. clock[u] <= clock'[u] /\ (u = t => clock'[u] = now)
    BY <1>1, <1>3, <1>4
  <1>6. /\ tab'[u][u] = tab[u][u]
        /\ tab'[v][u] = IF u = s /\ v = t
                        THEN Received(tab[t][s], Head(net[s][t]))
                        ELSE tab[v][u]
    BY <1>1, <1>4
  <1>7. /\ Pop(net, s, t) \in Channels
        /\ Pop(net, s, t)[u][v] =
               IF u = s /\ v = t THEN Tail(net[s][t]) ELSE net[u][v]
    BY <1>1, PopAt
  <1>8. SendAcks(Pop(net, s, t), t, answered, now)[u][v] =
            IF u = t /\ v \in answered
            THEN Append(Pop(net, s, t)[t][v], Msg("ACK", now, {}))
            ELSE Pop(net, s, t)[u][v]
    BY <1>3, <1>7, SendAcksAt
  <1>9. Msg("ACK", now, {}) \in NetMessage
    BY <1>3 DEF Msg, NetMessage, QueueMessage
  <1>10. CASE u = s /\ v = t
    <2>1. net'[u][v] = Tail(net[s][t])
      BY <1>4, <1>7, <1>8, <1>10
    <2> QED BY <1>5, <1>6, <1>10, <2>1 DEF PairStep, Receives
  <1>11. CASE ~(u = s /\ v = t) /\ net'[u][v] = net[u][v]
    BY <1>5, <1>6, <1>11 DEF PairStep, Keeps
  <1>12. CASE ~(u = s /\ v = t) /\ net'[u][v] # net[u][v]
    <2>1. u = t /\ net'[u][v] = Append(net[u][v], Msg("ACK", now, {}))
      BY <1>4, <1>7, <1>8, <1>12
    <2>2. /\ Msg("ACK", now, {}).type = "ACK"
          /\ Msg("ACK", now, {}).stamp = now
          /\ Msg("ACK", now, {}).payload = {}
      BY DEF Msg
    <2>3. clock[u] <= now /\ now <= clock'[u]
      BY <1>3, <1>5, <2>1
    <2>4. Posts(u, v)
      BY <1>6, <1>9, <1>12, <2>1, <2>2, <2>3 DEF Posts
    <2> QED BY <1>5, <2>4 DEF PairStep
  <1> QED BY <1>10, <1>11, <1>12

(* A site that dates its own entry does it towards every other site. *)
LEMMA DatePairStep ==
    ASSUME TypeOK, NEW s \in Site,
           NEW type \in {"SC_REQUEST", "SC_LIBERATION"}, DateOwnEntry(s, type),
           NEW u \in Site, NEW v \in Site \ {u}
    PROVE  PairStep(u, v)
  <1> DEFINE date == Tick(Tick(clock[s]))
             m == Msg(type, date, {})
  <1>1. /\ net \in Channels
        /\ tab \in [Site -> [Site -> TabEntry]]
        /\ clock \in [Site -> Nat]
    BY TypeFacts
  <1>2. date \in Nat /\ clock[s] < date
    BY <1>1 DEF Tick
  <1>3. /\ clock' = [clock EXCEPT ![s] = date]
        /\ tab' = [tab EXCEPT ![s][s] = Entry(type, date)]
        /\ net' = Broadcast(net, s, m)
    BY DEF DateOwnEntry
  <1>4. m \in NetMessage
    BY <1>2 DEF Msg, NetMessage, QueueMessage
  <1> HIDE DEF date, m
  <1>5. net'[u][v] = IF u = s /\ v # s THEN Append(net[s][v], m) ELSE net[u][v]
    BY <1>1, <1>3, <1>4, BroadcastAt
  <1>6. /\ tab'[v][u] = tab[v][u]
        /\ tab'[u][u] = IF u = s THEN Entry(type, date) ELSE tab[u][u]
        /\ clock'[u] = IF u = s THEN date ELSE clock[u]
    BY <1>1, <1>3
  <1>7. CASE u = s
    <2>1. /\ clock[u] < clock'[u]
          /\ net'[u][v] = Append(net[u][v], Msg(type, clock'[u], {}))
          /\ tab'[v][u] = tab[v][u]
          /\ tab'[u][u] = Entry(type, clock'[u])
      BY <1>2, <1>5, <1>6, <1>7 DEF m
    <2>2. clock[u] <= clock'[u]
      BY <1>1, <1>2, <1>6, <1>7
    <2> QED BY <2>1, <2>2 DEF PairStep, Dates
  <1>8. CASE u # s
    BY <1>1, <1>5, <1>6, <1>8 DEF PairStep, Keeps
  <1> QED BY <1>7, <1>8

(* Every step is one of the four for every pair of distinct sites. *)
LEMMA NextPairStep ==
    ASSUME TypeOK, Next, NEW u \in Site, NEW v \in Site \ {u}
    PROVE  PairStep(u, v)
  <1>1. /\ net \in Channels
        /\ tab \in [Site -> [Site -> TabEntry]]
        /\ clock \in [Site -> Nat]
        /\ \A s, t \in Site : net[s][t] \in Seq(NetMessage)
        /\ \A a \in Task : SiteOf[a] \in Site
    BY TypeFacts, TasksAssumption
  <1>2. ASSUME UNCHANGED <<clock, tab, net>> PROVE PairStep(u, v)
    BY <1>1, <1>2 DEF PairStep, Keeps
  <1>3. ASSUME NEW a \in Task, Ask(a) \/ Publish(a) \/ Finish(a)
        PROVE  PairStep(u, v)
    BY <1>2, <1>3 DEF Ask, Publish, Finish
  <1>4. ASSUME NEW a \in Task, Grant(a) PROVE PairStep(u, v)
    <2> DEFINE s == SiteOf[a]
               m == Msg("ACK", clock[s], {})
    <2>1. /\ net' = SendAcks(net, s, ackTo[s], clock[s])
          /\ UNCHANGED <<clock, tab>>
      BY <1>4 DEF Grant
    <2>2. s \in Site /\ clock[s] \in Nat
      BY <1>1
    <2>3. net'[u][v] = IF u = s /\ v \in ackTo[s]
                       THEN Append(net[s][v], m) ELSE net[u][v]
      BY <1>1, <2>1, <2>2, SendAcksAt
    <2>4. /\ m \in NetMessage /\ m.type = "ACK" /\ m.stamp = clock[s]
          /\ m.payload = {}
      BY <2>2 DEF Msg, NetMessage, QueueMessage
    <2>5. clock[u] <= clock'[u] /\ tab'[v][u] = tab[v][u] /\ tab'[u][u] = tab[u][u]
      BY <1>1, <2>1
    <2> HIDE DEF m
    <2>6. CASE u = s /\ v \in ackTo[s]
      <3>1. clock[u] <= m.stamp /\ m.stamp <= clock'[u]
        BY <2>1, <2>2, <2>4, <2>6
      <3> QED BY <2>3, <2>4, <2>5, <2>6, <3>1 DEF PairStep, Posts
    <2>7. CASE ~(u = s /\ v \in ackTo[s])
      BY <2>3, <2>5, <2>7 DEF PairStep, Keeps
    <2> QED BY <2>6, <2>7
  <1>5. ASSUME NEW s \in Site, ListenUserUIInput(s) \/ ListenLocalTorrentOutput(s)
        PROVE  PairStep(u, v)
    BY <1>2, <1>5 DEF ListenUserUIInput, ListenLocalTorrentOutput
  <1>6. ASSUME NEW s \in Site, LocalStep(s) PROVE PairStep(u, v)
    <2>1. CASE SCRequestFromBaseApp(s) \/ SCStopFromBaseApp(s)
      BY <2>1, DatePairStep DEF SCRequestFromBaseApp, SCStopFromBaseApp
    <2>2. CASE ForwardRegisterUpdate(s)
      <3> DEFINE m == Head(local[s])
      <3>1. /\ clock' = [clock EXCEPT ![s] = Tick(@)]
            /\ net' = Broadcast(net, s, m)
            /\ UNCHANGED tab
            /\ m.type = "RegisterUpdate"
            /\ local[s] # <<>>
        BY <2>2 DEF ForwardRegisterUpdate, LocalEvent
      <3>2. local[s] \in Seq(LocalMessage)
        BY DEF TypeOK
      <3>3. m \in LocalMessage
        BY <3>1, <3>2, TailFacts
      <3>4. m \in NetMessage
        BY <3>1, <3>3 DEF LocalMessage, NetMessage
      <3> HIDE DEF m
      <3>5. net'[u][v] = IF u = s /\ v # s THEN Append(net[s][v], m) ELSE net[u][v]
        BY <1>1, <3>1, <3>4, BroadcastAt
      <3>6. clock[u] <= clock'[u]
        BY <1>1, <3>1 DEF Tick
      <3>7. CASE u = s
        BY <2>2, <3>1, <3>4, <3>5, <3>6, <3>7 DEF PairStep, Posts, m
      <3>8. CASE u # s
        BY <3>1, <3>5, <3>6, <3>8 DEF PairStep, Keeps
      <3> QED BY <3>7, <3>8
    <2> QED BY <1>6, <2>1, <2>2 DEF LocalStep
  <1>7. ASSUME NEW s \in Site, NEW t \in Site \ {s}, NetworkStep(s, t)
        PROVE  PairStep(u, v)
    <2> DEFINE m == Head(net[s][t])
               entries == [tab[t] EXCEPT ![s] = Received(@, m)]
    <2>1. net[s][t] # <<>>
      BY <1>7 DEF NetworkStep, SCRequestFromNetwork, SCStopFromNetwork,
                  AckFromNetwork, HandleRegisterUpdate, NetworkEvent
    <2>2. tab[t] \in [Site -> TabEntry]
      BY <1>1
    <2>3. CASE SCRequestFromNetwork(s, t)
      <3>1. m.type = "SC_REQUEST"
        BY <2>3 DEF SCRequestFromNetwork, NetworkEvent
      <3>2. entries = [tab[t] EXCEPT ![s] = Entry("SC_REQUEST", m.stamp)]
        BY <2>2, <3>1 DEF Received
      <3>3. HandleDistributedFile(s, t, entries, {s})
        BY <2>3, <3>2 DEF SCRequestFromNetwork
      <3> HIDE DEF entries
      <3> QED BY <2>1, <3>1, <3>3, HandlePairStep DEF entries
    <2>4. CASE SCStopFromNetwork(s, t)
      <3>1. m.type = "SC_LIBERATION"
        BY <2>4 DEF SCStopFromNetwork, NetworkEvent
      <3>2. entries = [tab[t] EXCEPT ![s] = Entry("SC_LIBERATION", m.stamp)]
        BY <2>2, <3>1 DEF Received
      <3>3. HandleDistributedFile(s, t, entries, {})
        BY <2>4, <3>2 DEF SCStopFromNetwork
      <3> HIDE DEF entries
      <3> QED BY <2>1, <3>1, <3>3, HandlePairStep DEF entries
    <2>5. CASE AckFromNetwork(s, t)
      <3>1. m.type = "ACK"
        BY <2>5 DEF AckFromNetwork, NetworkEvent
      <3>2. entries = [tab[t] EXCEPT ![s] =
                          IF @.type = "SC_REQUEST" THEN @ ELSE Entry("ACK", m.stamp)]
        BY <2>2, <3>1 DEF Received
      <3>3. HandleDistributedFile(s, t, entries, {})
        BY <2>5, <3>2 DEF AckFromNetwork
      <3> HIDE DEF entries
      <3> QED BY <2>1, <3>1, <3>3, HandlePairStep DEF entries
    <2>6. CASE HandleRegisterUpdate(s, t)
      <3>1. /\ m.type = "RegisterUpdate"
            /\ clock' = [clock EXCEPT ![t] = Update(@, m.stamp)]
            /\ net' = Pop(net, s, t)
            /\ UNCHANGED tab
        BY <2>6 DEF HandleRegisterUpdate, NetworkEvent
      <3>2. m \in NetMessage
        BY <1>1, <2>1, TailFacts
      <3>3. m.stamp \in Nat
        BY <3>2 DEF NetMessage
      <3> HIDE DEF m
      <3>4. clock[u] <= clock'[u]
        BY <1>1, <3>1, <3>3 DEF Update
      <3>5. net'[u][v] = IF u = s /\ v = t THEN Tail(net[s][t]) ELSE net[u][v]
        BY <1>1, <2>1, <3>1, PopAt
      <3>6. Received(tab[v][u], m) = tab[v][u]
        BY <3>1 DEF Received
      <3>7. CASE u = s /\ v = t
        <4>1. reg'[v] = reg[v] \cup Head(net[u][v]).payload
          BY <2>6, <3>7 DEF HandleRegisterUpdate, TypeOK
        <4> QED BY <2>1, <3>1, <3>4, <3>5, <3>6, <3>7, <4>1 DEF PairStep, Receives, m
      <3>8. CASE ~(u = s /\ v = t)
        BY <3>1, <3>4, <3>5, <3>8 DEF PairStep, Keeps
      <3> QED BY <3>7, <3>8
    <2> QED BY <1>7, <2>3, <2>4, <2>5, <2>6 DEF NetworkStep
  <1> QED BY <1>3, <1>4, <1>5, <1>6, <1>7 DEF Next, TaskStep

-----------------------------------------------------------------------------
(* The inductive invariant of a pair: with q the channel, e the entry of   *)
(* the receiver, o the own entry of the sender and c the sender's clock.   *)
(* Messages of the queue are dated in the order of the channel, after the  *)
(* entry and no later than the clock; a standing request is announced.     *)

Known(q, e, c) ==
    /\ e.date <= c
    /\ \A i \in 1 .. Len(q) : q[i].type \in QueueMessage => q[i].stamp <= c
Ordered(q, e) ==
    /\ \A i \in 1 .. Len(q) : q[i].type \in QueueMessage => e.date <= q[i].stamp
    /\ \A i, j \in 1 .. Len(q) :
          i <= j /\ q[i].type \in QueueMessage /\ q[j].type \in QueueMessage
             => q[i].stamp <= q[j].stamp
PairInv(q, e, o, c) ==
    /\ Known(q, e, c)
    /\ Ordered(q, e)
    /\ o.type = "SC_REQUEST" => Announced(q, e, o.date)

Pairs ==
    \A u \in Site : \A v \in Site \ {u} :
        PairInv(net[u][v], tab[v][u], tab[u][u], clock[u])

(* The entry that follows a message handled in order is not older, and is  *)
(* either the entry before or dated by the message.                        *)
LEMMA ReceivedFacts ==
    ASSUME NEW q \in Seq(NetMessage), q # <<>>, NEW e \in TabEntry,
           Ordered(q, e)
    PROVE  /\ Received(e, Head(q)) \in TabEntry
           /\ e.date <= Received(e, Head(q)).date
           /\ \/ Received(e, Head(q)) = e
              \/ /\ Head(q).type \in QueueMessage
                 /\ Received(e, Head(q)).date = Head(q).stamp
  <1>1. Head(q) \in NetMessage /\ Head(q) = q[1] /\ Len(q) \in Nat \ {0}
    BY TailFacts
  <1>2. Head(q).type \in QueueMessage => e.date <= Head(q).stamp
    BY <1>1 DEF Ordered
  <1> QED BY <1>1, <1>2 DEF Received, NetMessage, TabEntry, Entry, QueueMessage

(* Handling the first message of the channel keeps the pair invariant. *)
LEMMA PairReceive ==
    ASSUME NEW q \in Seq(NetMessage), q # <<>>, NEW e \in TabEntry,
           NEW o \in TabEntry, NEW c \in Nat, NEW cc \in Nat, c <= cc,
           PairInv(q, e, o, c)
    PROVE  PairInv(Tail(q), Received(e, Head(q)), o, cc)
  <1> DEFINE p == Tail(q)
             m == Head(q)
             f == Received(e, m)
  <1>1. /\ p \in Seq(NetMessage) /\ m \in NetMessage /\ m = q[1]
        /\ Len(q) \in Nat \ {0} /\ Len(p) = Len(q) - 1
        /\ \A i \in 1 .. Len(p) : p[i] = q[i + 1]
    BY TailFacts
  <1>2. Known(q, e, c) /\ Ordered(q, e)
    BY DEF PairInv
  <1>3. /\ f \in TabEntry /\ e.date <= f.date
        /\ f = e \/ (m.type \in QueueMessage /\ f.date = m.stamp)
    BY <1>2, ReceivedFacts
  <1>4. \A i \in 1 .. Len(p) : p[i].stamp \in Nat
    <2>1. \A i \in 1 .. Len(p) : p[i] \in NetMessage
      BY <1>1, ElementFacts
    <2> QED BY <2>1 DEF NetMessage
  <1>5. e.date \in Nat /\ f.date \in Nat /\ o.date \in Nat
    BY <1>3 DEF TabEntry
  <1>6. \A i \in 1 .. Len(p) : i + 1 \in 1 .. Len(q) /\ 1 \in 1 .. Len(q)
    BY <1>1
  <1> HIDE DEF p, m, f
  <1>7. Known(p, f, cc)
    <2>1. f.date <= c
      BY <1>1, <1>2, <1>3, <1>5 DEF Known
    <2>2. \A i \in 1 .. Len(p) : p[i].type \in QueueMessage => p[i].stamp <= c
      BY <1>1, <1>2, <1>6 DEF Known
    <2>3. f.date <= cc
      BY <1>5, <2>1
    <2>4. \A i \in 1 .. Len(p) : p[i].type \in QueueMessage => p[i].stamp <= cc
      BY <1>4, <2>2
    <2> QED BY <2>3, <2>4 DEF Known
  <1>8. Ordered(p, f)
    <2>1. \A i \in 1 .. Len(p) : p[i].type \in QueueMessage => f.date <= p[i].stamp
      BY <1>1, <1>2, <1>3, <1>6 DEF Ordered
    <2>2. \A i, j \in 1 .. Len(p) :
             i <= j /\ p[i].type \in QueueMessage /\ p[j].type \in QueueMessage
                => p[i].stamp <= p[j].stamp
      BY <1>1, <1>2, <1>6 DEF Ordered
    <2> QED BY <2>1, <2>2 DEF Ordered
  <1>9. ASSUME o.type = "SC_REQUEST" PROVE Announced(p, f, o.date)
    <2> DEFINE d == o.date
    <2>1. Announced(q, e, d)
      BY <1>9 DEF PairInv
    <2>2. CASE e = Entry("SC_REQUEST", d) /\ Silent(q, 1)
      <3>1. f = e
        BY <1>1, <2>2 DEF f, Received, Entry, Silent
      <3>2. Silent(p, 1)
        BY <1>1, <1>6, <2>2 DEF Silent
      <3> QED BY <2>2, <3>1, <3>2 DEF Announced
    <2>3. ASSUME /\ e.date < d
                 /\ \E k \in 1 .. Len(q) :
                      /\ q[k].type = "SC_REQUEST" /\ q[k].stamp = d
                      /\ OlderThan(q, k - 1, d)
                      /\ Silent(q, k + 1)
          PROVE  Announced(p, f, d)
      <3> PICK k \in 1 .. Len(q) :
                 /\ q[k].type = "SC_REQUEST" /\ q[k].stamp = d
                 /\ OlderThan(q, k - 1, d)
                 /\ Silent(q, k + 1)
        BY <2>3
      <3>1. CASE k = 1
        <4>1. f = Entry("SC_REQUEST", d)
          BY <1>1, <2>3, <3>1 DEF f, Received
        <4>2. Silent(p, 1)
          BY <1>1, <2>3, <3>1 DEF Silent
        <4> QED BY <4>1, <4>2 DEF Announced
      <3>2. CASE k # 1
        <4>1. k - 1 \in 1 .. Len(p) /\ p[k - 1] = q[k] /\ 1 \in 1 .. k - 1
          BY <1>1, <3>2
        <4>2. f.date < d
          BY <1>1, <1>3, <2>3, <4>1 DEF OlderThan
        <4>3. OlderThan(p, (k - 1) - 1, d)
          <5>1. \A i \in 1 .. (k - 1) - 1 :
                   i \in 1 .. Len(p) /\ i + 1 \in 1 .. k - 1
            BY <1>1
          <5> QED BY <1>1, <2>3, <5>1 DEF OlderThan
        <4>4. Silent(p, (k - 1) + 1)
          <5>1. \A i \in (k - 1) + 1 .. Len(p) :
                   i \in 1 .. Len(p) /\ i + 1 \in k + 1 .. Len(q)
            BY <1>1
          <5> QED BY <1>1, <2>3, <5>1 DEF Silent
        <4> QED BY <2>3, <4>1, <4>2, <4>3, <4>4 DEF Announced
      <3> QED BY <3>1, <3>2
    <2>4. \/ e = Entry("SC_REQUEST", d) /\ Silent(q, 1)
          \/ /\ e.date < d
             /\ \E k \in 1 .. Len(q) :
                  /\ q[k].type = "SC_REQUEST" /\ q[k].stamp = d
                  /\ OlderThan(q, k - 1, d)
                  /\ Silent(q, k + 1)
      BY <2>1 DEF Announced
    <2> QED BY <2>2, <2>3, <2>4
  <1> QED BY <1>7, <1>8, <1>9 DEF PairInv, p, f, m

(* Time passing at the sender keeps the pair invariant. *)
LEMMA PairKeeps ==
    ASSUME NEW q \in Seq(NetMessage), NEW e \in TabEntry, NEW o \in TabEntry,
           NEW c \in Nat, NEW cc \in Nat, c <= cc, PairInv(q, e, o, c)
    PROVE  PairInv(q, e, o, cc)
  <1>1. \A i \in 1 .. Len(q) : q[i] \in NetMessage
    BY ElementFacts
  <1>2. e.date \in Nat /\ \A i \in 1 .. Len(q) : q[i].stamp \in Nat
    BY <1>1 DEF TabEntry, NetMessage
  <1>3. Known(q, e, c)
    BY DEF PairInv
  <1>4. e.date <= cc
    BY <1>2, <1>3 DEF Known
  <1>5. \A i \in 1 .. Len(q) : q[i].type \in QueueMessage => q[i].stamp <= cc
    BY <1>2, <1>3 DEF Known
  <1> QED BY <1>4, <1>5 DEF PairInv, Known

(* A message sent last, dated no earlier than the clock, keeps the channel *)
(* in order and known.                                                     *)
LEMMA PairAppend ==
    ASSUME NEW q \in Seq(NetMessage), NEW e \in TabEntry, NEW c \in Nat,
           NEW cc \in Nat, c <= cc, Known(q, e, c), Ordered(q, e),
           NEW m \in NetMessage,
           m.type \in QueueMessage => c <= m.stamp /\ m.stamp <= cc
    PROVE  Known(Append(q, m), e, cc) /\ Ordered(Append(q, m), e)
  <1> DEFINE p == Append(q, m)
  <1>1. /\ Len(q) \in Nat /\ Len(p) = Len(q) + 1
        /\ \A i \in 1 .. Len(q) : p[i] = q[i]
        /\ p[Len(q) + 1] = m
    BY AppendFacts
  <1>2. \A i \in 1 .. Len(q) : q[i] \in NetMessage
    BY ElementFacts
  <1>3. /\ e.date \in Nat /\ m.stamp \in Nat
        /\ \A i \in 1 .. Len(q) : q[i].stamp \in Nat
    BY <1>2 DEF TabEntry, NetMessage
  <1>4. e.date <= c
    BY DEF Known
  <1>5. \A i \in 1 .. Len(p) : i \in 1 .. Len(q) \/ i = Len(q) + 1
    BY <1>1
  <1>6. \A i \in 1 .. Len(q) : q[i].type \in QueueMessage =>
              q[i].stamp <= c /\ e.date <= q[i].stamp
    BY DEF Known, Ordered
  <1> HIDE DEF p
  <1>7. \A i \in 1 .. Len(p) : p[i].type \in QueueMessage =>
              p[i].stamp <= cc /\ e.date <= p[i].stamp
    BY <1>1, <1>3, <1>4, <1>5, <1>6
  <1>8. ASSUME NEW i \in 1 .. Len(p), NEW j \in 1 .. Len(p), i <= j,
               p[i].type \in QueueMessage, p[j].type \in QueueMessage
        PROVE  p[i].stamp <= p[j].stamp
    <2>1. CASE j \in 1 .. Len(q)
      <3>1. i \in 1 .. Len(q)
        BY <1>1, <1>8, <2>1
      <3> QED BY <1>1, <1>8, <2>1, <3>1 DEF Ordered
    <2>2. CASE j = Len(q) + 1 /\ i \in 1 .. Len(q)
      BY <1>1, <1>3, <1>6, <1>8, <2>2
    <2>3. CASE j = Len(q) + 1 /\ i = Len(q) + 1
      BY <1>1, <1>3, <2>3
    <2> QED BY <1>5, <2>1, <2>2, <2>3
  <1>9. e.date <= cc
    BY <1>3, <1>4
  <1> QED BY <1>7, <1>8, <1>9 DEF Known, Ordered, p

(* An acknowledgement or a register update sent last keeps the pair        *)
(* invariant: it cannot replace the standing request.                      *)
LEMMA PairPosts ==
    ASSUME NEW q \in Seq(NetMessage), NEW e \in TabEntry, NEW o \in TabEntry,
           NEW c \in Nat, NEW cc \in Nat, c <= cc, PairInv(q, e, o, c),
           NEW m \in NetMessage,
           \/ m.type = "RegisterUpdate"
           \/ m.type = "ACK" /\ c <= m.stamp /\ m.stamp <= cc
    PROVE  PairInv(Append(q, m), e, o, cc)
  <1> DEFINE p == Append(q, m)
             d == o.date
  <1>1. /\ Len(q) \in Nat /\ Len(p) = Len(q) + 1
        /\ \A i \in 1 .. Len(q) : p[i] = q[i]
        /\ p[Len(q) + 1] = m
    BY AppendFacts
  <1>2. Known(p, e, cc) /\ Ordered(p, e)
    BY PairAppend DEF PairInv, QueueMessage
  <1> HIDE DEF p
  <1>3. ASSUME NEW k \in Nat \ {0}, Silent(q, k) PROVE Silent(p, k)
    <2>1. \A i \in k .. Len(p) : i \in k .. Len(q) \/ i = Len(q) + 1
      BY <1>1
    <2>2. \A i \in k .. Len(q) : i \in 1 .. Len(q)
      BY <1>1
    <2> QED BY <1>1, <1>3, <2>1, <2>2 DEF Silent
  <1>4. ASSUME o.type = "SC_REQUEST" PROVE Announced(p, e, d)
    <2>1. CASE e = Entry("SC_REQUEST", d) /\ Silent(q, 1)
      BY <1>3, <2>1 DEF Announced
    <2>2. ASSUME /\ e.date < d
                 /\ \E k \in 1 .. Len(q) :
                      /\ q[k].type = "SC_REQUEST" /\ q[k].stamp = d
                      /\ OlderThan(q, k - 1, d)
                      /\ Silent(q, k + 1)
          PROVE  Announced(p, e, d)
      <3> PICK k \in 1 .. Len(q) :
                 /\ q[k].type = "SC_REQUEST" /\ q[k].stamp = d
                 /\ OlderThan(q, k - 1, d)
                 /\ Silent(q, k + 1)
        BY <2>2
      <3>1. k \in 1 .. Len(p) /\ p[k] = q[k] /\ k + 1 \in Nat \ {0}
        BY <1>1
      <3>2. OlderThan(p, k - 1, d)
        <4>1. \A i \in 1 .. k - 1 : i \in 1 .. Len(q)
          BY <1>1
        <4> QED BY <1>1, <4>1 DEF OlderThan
      <3>3. Silent(p, k + 1)
        BY <1>3, <3>1
      <3> QED BY <2>2, <3>1, <3>2, <3>3 DEF Announced
    <2>3. Announced(q, e, d)
      BY <1>4 DEF PairInv
    <2>4. \/ e = Entry("SC_REQUEST", d) /\ Silent(q, 1)
          \/ /\ e.date < d
             /\ \E k \in 1 .. Len(q) :
                  /\ q[k].type = "SC_REQUEST" /\ q[k].stamp = d
                  /\ OlderThan(q, k - 1, d)
                  /\ Silent(q, k + 1)
      BY <2>3 DEF Announced
    <2> QED BY <2>1, <2>2, <2>4
  <1> QED BY <1>2, <1>4 DEF PairInv, p

(* A new date of the sender, later than all it has sent, is announced at   *)
(* the end of the channel.                                                 *)
LEMMA PairDates ==
    ASSUME NEW q \in Seq(NetMessage), NEW e \in TabEntry, NEW o \in TabEntry,
           NEW c \in Nat, NEW cc \in Nat, c < cc, PairInv(q, e, o, c),
           NEW type \in {"SC_REQUEST", "SC_LIBERATION"}
    PROVE  PairInv(Append(q, Msg(type, cc, {})), e, Entry(type, cc), cc)
  <1> DEFINE m == Msg(type, cc, {})
             p == Append(q, m)
  <1>1. m \in NetMessage /\ m.type = type /\ m.stamp = cc
    BY DEF Msg, NetMessage, QueueMessage
  <1> HIDE DEF m
  <1>2. /\ Len(q) \in Nat /\ Len(p) = Len(q) + 1
        /\ \A i \in 1 .. Len(q) : p[i] = q[i]
        /\ p[Len(q) + 1] = m
    BY <1>1, AppendFacts
  <1>3. Known(p, e, cc) /\ Ordered(p, e)
    BY <1>1, PairAppend DEF PairInv
  <1>4. \A i \in 1 .. Len(q) : q[i] \in NetMessage
    BY ElementFacts
  <1>5. e.date \in Nat /\ \A i \in 1 .. Len(q) : q[i].stamp \in Nat
    BY <1>4 DEF TabEntry, NetMessage
  <1> HIDE DEF p
  <1>6. e.date < cc /\ OlderThan(p, Len(q), cc)
    BY <1>2, <1>5 DEF PairInv, Known, OlderThan
  <1>7. ASSUME type = "SC_REQUEST" PROVE Announced(p, e, cc)
    <2>1. Len(q) + 1 \in 1 .. Len(p) /\ (Len(q) + 1) - 1 = Len(q)
      BY <1>2
    <2>2. Silent(p, (Len(q) + 1) + 1)
      BY <1>2 DEF Silent
    <2>3. p[Len(q) + 1].type = "SC_REQUEST" /\ p[Len(q) + 1].stamp = cc
      BY <1>1, <1>2, <1>7
    <2> QED BY <1>6, <2>1, <2>2, <2>3 DEF Announced
  <1>8. Entry(type, cc).type = type /\ Entry(type, cc).date = cc
    BY DEF Entry
  <1> QED BY <1>3, <1>7, <1>8 DEF PairInv, p, m

(* Every step keeps the invariant of every pair. *)
LEMMA NextPairs == ASSUME TypeOK, Pairs, Next PROVE Pairs'
  <1> SUFFICES ASSUME NEW u \in Site, NEW v \in Site \ {u}
               PROVE  PairInv(net'[u][v], tab'[v][u], tab'[u][u], clock'[u])
    BY DEF Pairs
  <1> DEFINE q == net[u][v]
             e == tab[v][u]
             o == tab[u][u]
             c == clock[u]
  <1>1. /\ q \in Seq(NetMessage) /\ e \in TabEntry /\ o \in TabEntry
        /\ c \in Nat /\ clock'[u] \in Nat
    BY NextType DEF TypeOK
  <1>2. PairInv(q, e, o, c)
    BY DEF Pairs
  <1>3. PairStep(u, v)
    BY NextPairStep
  <1>4. CASE Keeps(u, v)
    BY <1>1, <1>2, <1>3, <1>4, PairKeeps DEF PairStep, Keeps
  <1>5. CASE Receives(u, v)
    BY <1>1, <1>2, <1>3, <1>5, PairReceive DEF PairStep, Receives
  <1>6. CASE Posts(u, v)
    <2> PICK m \in NetMessage :
            /\ \/ m.type = "RegisterUpdate"
               \/ m.type = "ACK" /\ clock[u] <= m.stamp /\ m.stamp <= clock'[u]
            /\ net'[u][v] = Append(net[u][v], m)
            /\ tab'[v][u] = tab[v][u]
            /\ tab'[u][u] = tab[u][u]
      BY <1>6 DEF Posts
    <2> QED BY <1>1, <1>2, <1>3, PairPosts DEF PairStep
  <1>7. CASE Dates(u, v)
    BY <1>1, <1>2, <1>7, PairDates DEF Dates
  <1> QED BY <1>3, <1>4, <1>5, <1>6, <1>7 DEF PairStep

(* The invariant holds of the empty channels of the initial state. *)
LEMMA InitPairs == Init => Pairs
  <1> SUFFICES ASSUME Init, NEW u \in Site, NEW v \in Site \ {u}
               PROVE  PairInv(net[u][v], tab[v][u], tab[u][u], clock[u])
    BY DEF Pairs
  <1>1. /\ net[u][v] = <<>> /\ clock[u] = 0
        /\ tab[v][u] = Entry("SC_LIBERATION", 0)
        /\ tab[u][u] = Entry("SC_LIBERATION", 0)
    BY DEF Init
  <1> QED BY <1>1 DEF PairInv, Known, Ordered, Entry

(* The strengthened invariant in every reachable state. *)
THEOREM PairsInvariant == Spec => [](TypeOK /\ Pairs)
  <1>1. Pairs /\ UNCHANGED vars => Pairs'
    BY DEF Pairs, vars
  <1>2. TypeOK /\ Pairs /\ [Next]_vars => Pairs'
    BY <1>1, NextPairs
  <1> QED BY <1>2, InitPairs, TypeCorrect, PTL DEF Spec

-----------------------------------------------------------------------------
(* Exclusion of the grants. *)

(* A site that finds its request first knows the request of no other site  *)
(* to be earlier; what it knows of a standing request is never later than  *)
(* the request itself.                                                     *)
LEMMA PairsExclude == TypeOK /\ Pairs => GrantExclusion
  <1> SUFFICES ASSUME TypeOK, Pairs, NEW s \in Site, NEW t \in Site \ {s},
                      Granted(s), Granted(t)
               PROVE  FALSE
    BY DEF GrantExclusion
  <1>1. ASSUME NEW u \in Site, NEW v \in Site \ {u}, Granted(u)
        PROVE  tab[v][u].date <= tab[u][u].date
    <2>1. Announced(net[u][v], tab[v][u], tab[u][u].date)
      BY <1>1 DEF Pairs, PairInv, Granted, Ready
    <2>2. tab[v][u].date \in Nat /\ tab[u][u].date \in Nat
      BY ZenonT(30) DEF TypeOK, TabEntry
    <2>3. tab[v][u].date = tab[u][u].date \/ tab[v][u].date < tab[u][u].date
      BY <2>1 DEF Announced, Entry
    <2> QED BY <2>2, <2>3
  <1>2. /\ EstPrioritaire(tab[s][s].date, s, tab[s][t].date, t)
        /\ EstPrioritaire(tab[t][t].date, t, tab[t][s].date, s)
    BY DEF Granted, Ready, CompareTab
  <1>3. tab[s][t].date <= tab[t][t].date /\ tab[t][s].date <= tab[s][s].date
    BY <1>1
  <1>4. \A u, v \in Site : tab[u][v].date \in Nat
    <2>1. \A u, v \in Site : tab[u][v] \in TabEntry
      BY DEF TypeOK
    <2> QED BY <2>1 DEF TabEntry
  <1>5. s \in Nat /\ t \in Nat /\ s # t
    BY SitesAssumption DEF Site
  <1> QED BY <1>2, <1>3, <1>4, <1>5 DEF EstPrioritaire

(* At no time do two sites both find that their own request comes first,   *)
(* whatever the number of sites, of tasks, and of requests per site.       *)
THEOREM GrantsExclude == Spec => []GrantExclusion
  BY PairsInvariant, PairsExclude, PTL

(* A standing request is known or announced at every other site. *)
THEOREM RequestsAreAnnounced == Spec => []RequestsAnnounced
  <1>1. Pairs => RequestsAnnounced
    BY DEF Pairs, PairInv, RequestsAnnounced
  <1> QED BY <1>1, PairsInvariant, PTL

(* No step moves the entry kept for another site to an older date. *)
LEMMA NextDates ==
    ASSUME TypeOK, Pairs, Next, NEW s \in Site, NEW t \in Site \ {s}
    PROVE  tab[s][t].date <= tab'[s][t].date
  <1>1. /\ net[t][s] \in Seq(NetMessage)
        /\ tab[s][t] \in TabEntry
    BY DEF TypeOK
  <1>2. s \in Site \ {t}
    OBVIOUS
  <1>3. tab[s][t].date \in Nat /\ Ordered(net[t][s], tab[s][t])
    BY <1>1, <1>2 DEF Pairs, PairInv, TabEntry
  <1>4. PairStep(t, s)
    BY <1>2, NextPairStep
  <1>5. CASE Receives(t, s)
    BY <1>1, <1>3, <1>5, ReceivedFacts DEF Receives
  <1>6. CASE Keeps(t, s) \/ Posts(t, s) \/ Dates(t, s)
    BY <1>3, <1>6 DEF Keeps, Posts, Dates
  <1> QED BY <1>4, <1>5, <1>6 DEF PairStep

(* The same as an action property of the specification. *)
THEOREM DatesAdvance == Spec => DatesNeverGoBack
  <1>1. TypeOK /\ Pairs /\ [Next]_vars =>
            [\A s \in Site : \A t \in Site \ {s} :
                tab[s][t].date <= tab'[s][t].date]_vars
    BY NextDates
  <1> QED BY <1>1, PairsInvariant, PTL DEF Spec, DatesNeverGoBack

-----------------------------------------------------------------------------
(* Mutual exclusion of the tasks, when a site has one user of the section. *)
(*                                                                         *)
(* A grant is not the section: StartSC only says that the request WAS      *)
(* first when a handler looked.  With one user per site nothing dates the  *)
(* own entry of the site again before that user has finished, so that the  *)
(* request still comes first as long as the task is in the section.        *)

Quiet(s) == out[s] = <<>> /\ local[s] = <<>>
OnlyAsking(q) == Len(q) = 1 /\ q[1].type = "AskingFromSC"
Asking(s) ==
    /\ tab[s][s].type # "SC_REQUEST"
    /\ \/ OnlyAsking(out[s]) /\ local[s] = <<>>
       \/ out[s] = <<>> /\ OnlyAsking(local[s])
OnlyUpdates(q) == \A i \in 1 .. Len(q) : q[i].type = "RegisterUpdate"

TaskInv(a) ==
    LET s == SiteOf[a] IN
    /\ uiLeft[s] = 0
    /\ pc[a] = "transfer" => Quiet(s) /\ tab[s][s].type # "SC_REQUEST"
    /\ pc[a] = "waiting" => Quiet(s) \/ Asking(s)
    /\ pc[a] = "inCS" => Quiet(s) /\ Granted(s)
    /\ pc[a] = "published" =>
          OnlyUpdates(out[s]) /\ OnlyUpdates(local[s]) /\ Granted(s)
Control ==
    /\ \A a \in Task : TaskInv(a)
    /\ \A s \in Site : blocked[s] => Granted(s)

(* A request that comes first keeps coming first until the site dates its  *)
(* own entry again.                                                        *)
LEMMA GrantedStable ==
    ASSUME TypeOK, Pairs, Next, NEW s \in Site, Granted(s),
           tab'[s][s] = tab[s][s]
    PROVE  Granted(s)'
  <1>1. \A t \in Site \ {s} : tab[s][t].date <= tab'[s][t].date
    BY NextDates
  <1>2. \A t \in Site : tab[s][t] \in TabEntry /\ tab'[s][t] \in TabEntry
    BY SMTT(30), NextType DEF TypeOK
  <1>3. \A t \in Site : tab[s][t].date \in Nat /\ tab'[s][t].date \in Nat
    BY <1>2 DEF TabEntry
  <1>4. ASSUME NEW t \in Site \ {s}
        PROVE  EstPrioritaire(tab'[s][s].date, s, tab'[s][t].date, t)
    <2>1. EstPrioritaire(tab[s][s].date, s, tab[s][t].date, t)
      BY DEF Granted, Ready, CompareTab
    <2> QED BY <1>1, <1>2, <1>3, <2>1 DEF EstPrioritaire
  <1> QED BY <1>4 DEF Granted, Ready, CompareTab

(* A handler of the queue leaves the own entry alone; when it stops the    *)
(* site, the request of the site comes first.                              *)
LEMMA HandleGrants ==
    ASSUME TypeOK, NEW s \in Site, NEW t \in Site \ {s}, NEW entries,
           NEW answered, HandleDistributedFile(s, t, entries, answered)
    PROVE  /\ tab' = [tab EXCEPT ![t] = entries]
           /\ \A u \in Site : blocked'[u] =>
                 blocked[u] \/ (u = t /\ Ready(tab'[u], u))
           /\ UNCHANGED <<out, local, pc, uiLeft>>
  <1>1. tab' = [tab EXCEPT ![t] = entries] /\ UNCHANGED <<out, local, pc, uiLeft>>
    BY DEF HandleDistributedFile
  <1>2. tab'[t] = entries
    BY <1>1 DEF TypeOK
  <1>3. CASE Ready(entries, t)
    <2>1. blocked' = [blocked EXCEPT ![t] = TRUE]
      BY <1>3 DEF HandleDistributedFile
    <2> QED BY <1>1, <1>2, <1>3, <2>1 DEF TypeOK
  <1>4. CASE ~Ready(entries, t)
    <2>1. blocked' = blocked
      BY <1>4 DEF HandleDistributedFile
    <2> QED BY <1>1, <2>1
  <1> QED BY <1>3, <1>4

(* Every network step only touches the entries of other sites. *)
LEMMA NetworkStepGrants ==
    ASSUME TypeOK, NEW s \in Site, NEW t \in Site \ {s}, NetworkStep(s, t)
    PROVE  /\ \A u \in Site : tab'[u][u] = tab[u][u]
           /\ \A u \in Site : blocked'[u] => blocked[u] \/ Granted(u)'
           /\ UNCHANGED <<out, local, pc, uiLeft>>
  <1>1. tab \in [Site -> [Site -> TabEntry]]
    BY DEF TypeOK
  <1>2. ASSUME NEW e, NEW answered,
               HandleDistributedFile(s, t, [tab[t] EXCEPT ![s] = e], answered)
        PROVE  /\ \A u \in Site : tab'[u][u] = tab[u][u]
               /\ \A u \in Site : blocked'[u] => blocked[u] \/ Granted(u)'
               /\ UNCHANGED <<out, local, pc, uiLeft>>
    <2> DEFINE entries == [tab[t] EXCEPT ![s] = e]
    <2>1. HandleDistributedFile(s, t, entries, answered)
      BY <1>2
    <2>2. entries[t] = tab[t][t]
      BY <1>1
    <2> HIDE DEF entries
    <2>3. /\ tab' = [tab EXCEPT ![t] = entries]
          /\ \A u \in Site : blocked'[u] =>
                blocked[u] \/ (u = t /\ Ready(tab'[u], u))
          /\ UNCHANGED <<out, local, pc, uiLeft>>
      BY <2>1, HandleGrants
    <2>4. \A u \in Site : tab'[u][u] = tab[u][u]
      BY <1>1, <2>2, <2>3
    <2> QED BY <2>3, <2>4 DEF Granted
  <1>3. CASE SCRequestFromNetwork(s, t)
    BY <1>2, <1>3 DEF SCRequestFromNetwork
  <1>4. CASE SCStopFromNetwork(s, t)
    BY <1>2, <1>4 DEF SCStopFromNetwork
  <1>5. CASE AckFromNetwork(s, t)
    BY <1>2, <1>5 DEF AckFromNetwork
  <1>6. CASE HandleRegisterUpdate(s, t)
    BY <1>6 DEF HandleRegisterUpdate
  <1> QED BY <1>3, <1>4, <1>5, <1>6 DEF NetworkStep

(* Taking the first entry off a queue of one, or off a queue of updates. *)
LEMMA QueueTail ==
    ASSUME NEW q \in Seq(LocalMessage), q # <<>>
    PROVE  /\ OnlyAsking(q) => Tail(q) = <<>>
           /\ OnlyUpdates(q) => OnlyUpdates(Tail(q))
           /\ OnlyUpdates(q) => q[1].type = "RegisterUpdate"
  <1>1. /\ Tail(q) \in Seq(LocalMessage)
        /\ Len(q) \in Nat \ {0} /\ Len(Tail(q)) = Len(q) - 1
        /\ \A i \in 1 .. Len(Tail(q)) : Tail(q)[i] = q[i + 1]
    BY TailFacts
  <1>2. \A i \in 1 .. Len(Tail(q)) : i + 1 \in 1 .. Len(q)
    BY <1>1
  <1>3. 1 \in 1 .. Len(q)
    BY <1>1
  <1>6. OnlyAsking(q) => Tail(q) = <<>>
    BY TailFacts DEF OnlyAsking
  <1>7. OnlyUpdates(q) => OnlyUpdates(Tail(q))
    BY <1>1, <1>2 DEF OnlyUpdates
  <1> QED BY <1>3, <1>6, <1>7 DEF OnlyUpdates

(* What a step of task a or of site s leaves untouched keeps TaskInv(b). *)
LEMMA TaskInvStable ==
    ASSUME TypeOK, Pairs, Next, NEW b \in Task, TaskInv(b),
           pc'[b] = pc[b],
           out'[SiteOf[b]] = out[SiteOf[b]],
           local'[SiteOf[b]] = local[SiteOf[b]],
           uiLeft'[SiteOf[b]] = uiLeft[SiteOf[b]],
           tab'[SiteOf[b]][SiteOf[b]] = tab[SiteOf[b]][SiteOf[b]]
    PROVE  TaskInv(b)'
  <1>1. SiteOf[b] \in Site
    BY TasksAssumption
  <1>2. Granted(SiteOf[b]) => Granted(SiteOf[b])'
    BY <1>1, GrantedStable
  <1> QED BY <1>2 DEF TaskInv, Quiet, Asking

(* The site of a task dates its own entry only for that task, while it     *)
(* waits and before it is granted, or after it has finished.               *)
LEMMA WhoDates ==
    ASSUME TypeOK, NEW b \in Task, TaskInv(b), NEW s \in Site, s = SiteOf[b],
           SCRequestFromBaseApp(s) \/ SCStopFromBaseApp(s)
    PROVE  \/ pc[b] = "done"
           \/ /\ pc[b] = "waiting" /\ out[s] = <<>> /\ OnlyAsking(local[s])
              /\ tab[s][s].type # "SC_REQUEST"
  <1>1. /\ local[s] # <<>> /\ local[s] \in Seq(LocalMessage)
        /\ Head(local[s]).type \in {"AskingFromSC", "LOCAL_SC_REQUEST", "DoneWithSC"}
    BY DEF SCRequestFromBaseApp, SCStopFromBaseApp, LocalEvent, TypeOK
  <1>2. Head(local[s]) = local[s][1] /\ 1 \in 1 .. Len(local[s])
    BY <1>1, TailFacts
  <1>3. ~OnlyUpdates(local[s]) /\ ~Quiet(s)
    BY <1>1, <1>2 DEF OnlyUpdates, Quiet
  <1>4. pc[b] \in {"transfer", "waiting", "inCS", "published", "done"}
    BY DEF TypeOK
  <1>5. pc[b] = "waiting" => Asking(s)
    BY <1>3 DEF TaskInv
  <1>6. pc[b] \notin {"transfer", "inCS", "published"}
    BY <1>3 DEF TaskInv
  <1> QED BY <1>1, <1>4, <1>5, <1>6 DEF Asking

(* The steps of one task keep the control invariant of every task. *)
LEMMA TaskStepControl ==
    ASSUME OneUserPerSite, TypeOK, Pairs, Control, Next,
           NEW a \in Task, Ask(a) \/ TaskStep(a), NEW b \in Task
    PROVE  TaskInv(b)'
  <1> DEFINE s == SiteOf[a]
  <1>1. s \in Site /\ TaskInv(a) /\ TaskInv(b) /\ (blocked[s] => Granted(s))
    BY TasksAssumption DEF Control
  <1>2. UNCHANGED <<tab, local, uiLeft>>
    BY DEF TaskStep, Ask, Grant, Publish, Finish
  <1>3. /\ out \in [Site -> Seq(LocalMessage)]
        /\ pc \in [Task -> {"transfer", "waiting", "inCS", "published", "done"}]
    BY DEF TypeOK
  <1>4. CASE b # a
    <2>1. SiteOf[b] # s /\ SiteOf[b] \in Site
      BY <1>4, TasksAssumption DEF OneUserPerSite
    <2>2. pc'[b] = pc[b] /\ out'[SiteOf[b]] = out[SiteOf[b]]
      BY <1>3, <1>4, <2>1 DEF TaskStep, Ask, Grant, Publish, Finish
    <2> QED BY <1>1, <1>2, <2>2, TaskInvStable
  <1>5. CASE b = a
    <2>1. CASE Ask(a)
      <3>1. /\ Quiet(s) /\ tab[s][s].type # "SC_REQUEST" /\ uiLeft[s] = 0
            /\ pc'[a] = "waiting"
            /\ out'[s] = Append(out[s], Msg("AskingFromSC", 0, {}))
        BY <1>1, <1>3, <2>1 DEF Ask, TaskInv
      <3>2. out'[s] = <<Msg("AskingFromSC", 0, {})>>
        BY <3>1 DEF Quiet
      <3>3. OnlyAsking(out'[s])
        BY <3>2 DEF OnlyAsking, Msg
      <3> QED BY <1>2, <1>5, <3>1, <3>3 DEF TaskInv, Asking, Quiet
    <2>2. CASE Grant(a)
      <3>1. /\ Granted(s) /\ uiLeft[s] = 0 /\ pc'[a] = "inCS" /\ UNCHANGED out
            /\ Quiet(s) \/ Asking(s)
        BY <1>1, <1>3, <2>2 DEF Grant, TaskInv
      <3>2. Quiet(s)
        BY <3>1 DEF Asking, Granted, Ready
      <3>3. Granted(s)'
        BY <1>1, <1>2, <3>1, GrantedStable
      <3> QED BY <1>2, <1>5, <3>1, <3>2, <3>3 DEF TaskInv, Quiet
    <2>3. CASE Publish(a)
      <3>1. /\ Quiet(s) /\ Granted(s) /\ uiLeft[s] = 0 /\ pc'[a] = "published"
            /\ out'[s] = Append(out[s], Msg("RegisterUpdate", 0, reg[s]))
        BY <1>1, <1>3, <2>3 DEF Publish, TaskInv
      <3>2. out'[s] = <<Msg("RegisterUpdate", 0, reg[s])>> /\ local'[s] = <<>>
        BY <1>2, <3>1 DEF Quiet
      <3>3. OnlyUpdates(out'[s]) /\ OnlyUpdates(local'[s])
        BY <3>2 DEF OnlyUpdates, Msg
      <3>4. Granted(s)'
        BY <1>1, <1>2, <3>1, GrantedStable
      <3> QED BY <1>2, <1>5, <3>1, <3>3, <3>4 DEF TaskInv
    <2>4. CASE Finish(a)
      BY <1>1, <1>2, <1>3, <1>5, <2>4 DEF Finish, TaskInv
    <2> QED BY <2>1, <2>2, <2>3, <2>4 DEF TaskStep
  <1> QED BY <1>4, <1>5

(* The steps of the event loop of one site keep it. *)
LEMMA SiteStepControl ==
    ASSUME TypeOK, Pairs, Control, Next, NEW s \in Site,
           \/ ListenUserUIInput(s)
           \/ ListenLocalTorrentOutput(s)
           \/ LocalStep(s),
           NEW b \in Task
    PROVE  TaskInv(b)'
  <1>1. /\ TaskInv(b) /\ SiteOf[b] \in Site
        /\ out \in [Site -> Seq(LocalMessage)]
        /\ local \in [Site -> Seq(LocalMessage)]
        /\ uiLeft \in [Site -> Nat]
        /\ tab \in [Site -> [Site -> TabEntry]]
    BY TasksAssumption DEF Control, TypeOK
  <1>2. UNCHANGED pc
    BY DEF ListenUserUIInput, ListenLocalTorrentOutput, LocalStep,
           SCRequestFromBaseApp, SCStopFromBaseApp, ForwardRegisterUpdate
  <1>3. CASE SiteOf[b] # s
    <2>1. /\ out'[SiteOf[b]] = out[SiteOf[b]]
          /\ local'[SiteOf[b]] = local[SiteOf[b]]
          /\ uiLeft'[SiteOf[b]] = uiLeft[SiteOf[b]]
          /\ tab'[SiteOf[b]][SiteOf[b]] = tab[SiteOf[b]][SiteOf[b]]
      BY <1>1, <1>3 DEF ListenUserUIInput, ListenLocalTorrentOutput, LocalStep,
             LocalEvent, DateOwnEntry,
             SCRequestFromBaseApp, SCStopFromBaseApp, ForwardRegisterUpdate
    <2> QED BY <1>1, <1>2, <2>1, TaskInvStable
  <1>4. CASE SiteOf[b] = s
    <2>1. ~ListenUserUIInput(s)
      BY <1>1, <1>4 DEF ListenUserUIInput, TaskInv
    <2>2. CASE ListenLocalTorrentOutput(s)
      <3> DEFINE m == [Head(out[s]) EXCEPT !.stamp = clock[s]]
      <3>1. /\ out[s] # <<>> /\ out'[s] = Tail(out[s])
            /\ local'[s] = Append(local[s], m)
            /\ UNCHANGED <<tab, uiLeft>>
        BY <1>1, <2>2 DEF ListenLocalTorrentOutput
      <3>2. /\ out[s] \in Seq(LocalMessage) /\ local[s] \in Seq(LocalMessage)
            /\ Head(out[s]) \in LocalMessage /\ Head(out[s]) = out[s][1]
            /\ Len(out[s]) \in Nat \ {0}
            /\ Len(Tail(out[s])) = Len(out[s]) - 1
            /\ \A i \in 1 .. Len(Tail(out[s])) : Tail(out[s])[i] = out[s][i + 1]
        BY <1>1, <3>1, TailFacts
      <3>3. m \in LocalMessage /\ m.type = out[s][1].type
        BY <3>2 DEF LocalMessage, TypeOK
      <3> HIDE DEF m
      <3>4. /\ Len(local'[s]) = Len(local[s]) + 1 /\ Len(local[s]) \in Nat
            /\ \A i \in 1 .. Len(local[s]) : local'[s][i] = local[s][i]
            /\ local'[s][Len(local[s]) + 1] = m
        BY <3>1, <3>2, <3>3, AppendFacts
      <3>5. ~Quiet(s)
        BY <3>1 DEF Quiet
      <3>6. Granted(s) => Granted(s)'
        BY <3>1, GrantedStable
      <3>7. Asking(s) => Asking(s)'
        <4>1. ASSUME Asking(s) PROVE Asking(s)'
          <5>1. OnlyAsking(out[s]) /\ local[s] = <<>> /\ tab[s][s].type # "SC_REQUEST"
            BY <3>1, <4>1 DEF Asking
          <5>2. out'[s] = <<>>
            BY <3>1, <3>2, <5>1, QueueTail
          <5>3. OnlyAsking(local'[s])
            BY <3>3, <3>4, <5>1 DEF OnlyAsking
          <5> QED BY <3>1, <5>1, <5>2, <5>3 DEF Asking
        <4> QED BY <4>1
      <3>8. OnlyUpdates(out[s]) /\ OnlyUpdates(local[s]) =>
                OnlyUpdates(out'[s]) /\ OnlyUpdates(local'[s])
        <4>1. ASSUME OnlyUpdates(out[s]) PROVE OnlyUpdates(out'[s])
          BY <3>1, <3>2, <4>1, QueueTail
        <4>2. ASSUME OnlyUpdates(out[s]), OnlyUpdates(local[s])
              PROVE  OnlyUpdates(local'[s])
          <5>1. \A i \in 1 .. Len(local'[s]) :
                    i \in 1 .. Len(local[s]) \/ i = Len(local[s]) + 1
            BY <3>4
          <5>2. m.type = "RegisterUpdate"
            BY <3>2, <3>3, <4>2 DEF OnlyUpdates
          <5> QED BY <3>4, <4>2, <5>1, <5>2 DEF OnlyUpdates
        <4> QED BY <4>1, <4>2
      <3> QED BY <1>1, <1>2, <1>4, <3>1, <3>5, <3>6, <3>7, <3>8 DEF TaskInv
    <2>3. CASE SCRequestFromBaseApp(s) \/ SCStopFromBaseApp(s)
      <3>1. /\ local[s] # <<>> /\ local'[s] = Tail(local[s])
            /\ UNCHANGED <<out, uiLeft>>
        BY <1>1, <2>3 DEF SCRequestFromBaseApp, SCStopFromBaseApp, LocalEvent
      <3>2. CASE pc[b] = "done"
        BY <1>1, <1>2, <1>4, <3>1, <3>2 DEF TaskInv
      <3>3. CASE /\ pc[b] = "waiting" /\ out[s] = <<>> /\ OnlyAsking(local[s])
        <4>1. local'[s] = <<>>
          <5>1. local[s] \in Seq(LocalMessage)
            BY <1>1
          <5> QED BY <3>1, <3>3, <5>1, QueueTail
        <4> QED BY <1>1, <1>2, <1>4, <3>1, <3>3, <4>1 DEF TaskInv, Quiet
      <3> QED BY <1>1, <1>4, <2>3, <3>2, <3>3, WhoDates
    <2>4. CASE ForwardRegisterUpdate(s)
      <3>1. /\ local[s] # <<>> /\ local'[s] = Tail(local[s])
            /\ Head(local[s]).type = "RegisterUpdate"
            /\ UNCHANGED <<out, tab, uiLeft>>
        BY <1>1, <2>4 DEF ForwardRegisterUpdate, LocalEvent
      <3>2. /\ local[s] \in Seq(LocalMessage)
            /\ Head(local[s]) = local[s][1] /\ Len(local[s]) \in Nat \ {0}
            /\ Len(local'[s]) = Len(local[s]) - 1
            /\ \A i \in 1 .. Len(local'[s]) : local'[s][i] = local[s][i + 1]
        BY <1>1, <3>1, TailFacts
      <3>3. ~Quiet(s) /\ ~Asking(s)
        BY <3>1, <3>2 DEF Quiet, Asking, OnlyAsking
      <3>4. OnlyUpdates(local[s]) => OnlyUpdates(local'[s])
        BY <3>2 DEF OnlyUpdates
      <3>5. Granted(s) => Granted(s)'
        BY <3>1, GrantedStable
      <3> QED BY <1>1, <1>2, <1>4, <3>1, <3>3, <3>4, <3>5 DEF TaskInv
    <2> QED BY <2>1, <2>2, <2>3, <2>4 DEF LocalStep
  <1> QED BY <1>3, <1>4

(* Every step keeps the control invariant. *)
LEMMA NextControl ==
    ASSUME OneUserPerSite, TypeOK, Pairs, Control, Next PROVE Control'
  <1>1. \A s \in Site : blocked[s] => Granted(s)
    BY DEF Control
  <1>2. CASE \E a \in Task : Ask(a) \/ TaskStep(a)
    <2> PICK a \in Task : Ask(a) \/ TaskStep(a)
      BY <1>2
    <2>1. \A b \in Task : TaskInv(b)'
      BY TaskStepControl
    <2>2. UNCHANGED tab /\ \A s \in Site : blocked'[s] => blocked[s]
      <3>1. blocked \in [Site -> BOOLEAN]
        BY DEF TypeOK
      <3> QED BY <3>1 DEF TaskStep, Ask, Grant, Publish, Finish
    <2>3. \A s \in Site : blocked'[s] => Granted(s)'
      BY <1>1, <2>2, GrantedStable
    <2> QED BY <2>1, <2>3 DEF Control
  <1>3. CASE \E s \in Site : \/ ListenUserUIInput(s)
                            \/ ListenLocalTorrentOutput(s)
                            \/ LocalStep(s)
    <2> PICK s \in Site : \/ ListenUserUIInput(s)
                         \/ ListenLocalTorrentOutput(s)
                         \/ LocalStep(s)
      BY <1>3
    <2>1. \A b \in Task : TaskInv(b)'
      BY SiteStepControl
    <2>2. /\ UNCHANGED blocked
          /\ \A u \in Site : blocked[u] => tab'[u][u] = tab[u][u]
      <3>1. tab \in [Site -> [Site -> TabEntry]]
        BY DEF TypeOK
      <3> QED BY <3>1 DEF ListenUserUIInput, ListenLocalTorrentOutput, LocalStep,
                 SCRequestFromBaseApp, SCStopFromBaseApp, ForwardRegisterUpdate,
                 LocalEvent, DateOwnEntry
    <2>3. \A u \in Site : blocked'[u] => Granted(u)'
      BY <1>1, <2>2, GrantedStable
    <2> QED BY <2>1, <2>3 DEF Control
  <1>4. CASE \E s \in Site : \E t \in Site \ {s} : NetworkStep(s, t)
    <2> PICK s \in Site : \E t \in Site \ {s} : NetworkStep(s, t)
      BY <1>4
    <2> PICK t \in Site \ {s} : NetworkStep(s, t)
      OBVIOUS
    <2>1. /\ \A u \in Site : tab'[u][u] = tab[u][u]
          /\ \A u \in Site : blocked'[u] => blocked[u] \/ Granted(u)'
          /\ UNCHANGED <<out, local, pc, uiLeft>>
      BY NetworkStepGrants
    <2>2. ASSUME NEW b \in Task PROVE TaskInv(b)'
      <3>1. TaskInv(b) /\ SiteOf[b] \in Site
        BY TasksAssumption DEF Control
      <3> QED BY <2>1, <3>1, TaskInvStable
    <2>3. \A u \in Site : blocked'[u] => Granted(u)'
      BY <1>1, <2>1, GrantedStable
    <2> QED BY <2>2, <2>3 DEF Control
  <1> QED BY <1>2, <1>3, <1>4 DEF Next

(* A task in the section runs at a site whose request comes first. *)
LEMMA ControlExcludes ==
    ASSUME OneUserPerSite, Control, GrantExclusion PROVE Mutex
  <1>1. ASSUME NEW a \in Task, Critical(a) PROVE Granted(SiteOf[a])
    BY <1>1 DEF Control, TaskInv, Critical
  <1>2. \A a \in Task : SiteOf[a] \in Site
    BY TasksAssumption
  <1> QED BY <1>1, <1>2 DEF Mutex, GrantExclusion, OneUserPerSite

LEMMA ControlInvariant == ASSUME OneUserPerSite PROVE Spec => []Control
  <1>1. Init => Control
    <2> SUFFICES ASSUME Init PROVE Control
      OBVIOUS
    <2>1. ASSUME NEW a \in Task PROVE TaskInv(a)
      BY TasksAssumption DEF OneUserPerSite, Init, TaskInv, Quiet, Entry
    <2>2. \A s \in Site : ~blocked[s]
      BY DEF Init
    <2> QED BY <2>1, <2>2 DEF Control
  <1>2. TypeOK /\ Pairs /\ Control /\ [Next]_vars => Control'
    <2>1. ASSUME Control, UNCHANGED vars PROVE Control'
      <3>1. UNCHANGED <<tab, out, local, uiLeft, pc, blocked>>
        BY <2>1 DEF vars
      <3>2. \A s \in Site : Granted(s)' = Granted(s)
        BY <3>1 DEF Granted
      <3>3. \A a \in Task : SiteOf[a] \in Site
        BY TasksAssumption
      <3>4. ASSUME NEW a \in Task PROVE TaskInv(a)'
        <4>1. Granted(SiteOf[a])' = Granted(SiteOf[a])
          BY <3>2, <3>3
        <4>2. TaskInv(a)
          BY <2>1 DEF Control
        <4> QED BY <3>1, <4>1, <4>2 DEF TaskInv, Quiet, Asking
      <3> QED BY <2>1, <3>1, <3>2, <3>4 DEF Control
    <2> QED BY <2>1, NextControl
  <1> QED BY <1>1, <1>2, PairsInvariant, PTL DEF Spec

(* With one user of the section per site, whatever the number of sites:    *)
(* no two goroutines are between StartSC and DoneWithSC at the same time.  *)
THEOREM MutualExclusion == ASSUME OneUserPerSite PROVE Spec => []Mutex
  <1>1. Control /\ GrantExclusion => Mutex
    BY ControlExcludes
  <1> QED BY <1>1, ControlInvariant, GrantsExclude, PTL

-----------------------------------------------------------------------------
(* What the registers are promised, for every number of sites and tasks:   *)
(* no fact is lost, who enters the section has merged all that was         *)
(* published before, and the sites together implement SharedRegister.      *)
(*                                                                         *)
(* The argument: an update is forwarded while the request of its site      *)
(* still comes first (Unforwarded), and as long as it is on its way to t   *)
(* the liberation is behind it, so that t still takes that request for     *)
(* standing, and its own for later (Barred): t is not granted.             *)

(* The invariants. *)

IsUpdate(m) == m.type = "RegisterUpdate"

(* The updates that a site has not forwarded yet come before everything    *)
(* else it has to say, and its request still comes first.                  *)
UpdatesFirst(q) ==
    \A i \in 1 .. Len(q) : IsUpdate(q[i]) => \A j \in 1 .. i : IsUpdate(q[j])
HasUpdate(q) == \E i \in 1 .. Len(q) : IsUpdate(q[i])
Unforwarded(s) ==
    /\ UpdatesFirst(out[s]) /\ UpdatesFirst(local[s])
    /\ HasUpdate(local[s]) => Granted(s)
    /\ HasUpdate(out[s]) => Granted(s) /\ uiLeft[s] = 0 /\ OnlyUpdates(local[s])

(* When the k-th message of channel q is handled, a request dated d is     *)
(* what the receiver, whose entry is e now, knows of the sender.           *)
Mute(q, i, j) == \A n \in i .. j : q[n].type \notin {"SC_REQUEST", "SC_LIBERATION"}
StandsAt(q, e, k, d) ==
    \/ e = Entry("SC_REQUEST", d) /\ Mute(q, 1, k - 1)
    \/ /\ e.date < d
       /\ \E j \in 1 .. k - 1 :
             /\ q[j].type = "SC_REQUEST" /\ q[j].stamp = d
             /\ OlderThan(q, j - 1, d)
             /\ Mute(q, j + 1, k - 1)

(* An update on its way from s to t: the request under which it was        *)
(* published comes before any that t has made or can make.                 *)
Barred(s, t) ==
    \A k \in 1 .. Len(net[s][t]) :
        IsUpdate(net[s][t][k]) =>
            \E d \in 0 .. clock[t] :
                /\ StandsAt(net[s][t], tab[t][s], k, d)
                /\ tab[t][t].type = "SC_REQUEST" =>
                       EstPrioritaire(d, s, tab[t][t].date, t)

SectionInv ==
    /\ \A s \in Site : Unforwarded(s)
    /\ \A s \in Site : \A t \in Site \ {s} : Barred(s, t)

(* The facts F are known at t, or an update that holds them is on its way. *)
Bears(q, F) == \E i \in 1 .. Len(q) : IsUpdate(q[i]) /\ F \subseteq q[i].payload
Reaches(F, t) ==
    \/ F \subseteq reg[t]
    \/ \E s \in Site \ {t} :
          Bears(out[s], F) \/ Bears(local[s], F) \/ Bears(net[s][t], F)

(* Whoever publishes holds its own fact, and nobody knows of a fact that   *)
(* is not there yet.                                                       *)
Asked == {a \in Task : pc[a] # "transfer"}
Within(q, known) == \A i \in 1 .. Len(q) : q[i].payload \subseteq known
FactsInv ==
    /\ \A a \in Asked : a \in reg[SiteOf[a]]
    /\ \A s \in Site : /\ reg[s] \subseteq Asked
                       /\ Within(out[s], Asked) /\ Within(local[s], Asked)
    /\ \A s \in Site : \A t \in Site \ {s} : Within(net[s][t], Asked)
PublishedReaches == \A t \in Site : Reaches(published, t)

-----------------------------------------------------------------------------
(* Queues of one site: the updates stay in front. *)

LEMMA TailUpdates ==
    ASSUME NEW q \in Seq(LocalMessage), q # <<>>, UpdatesFirst(q)
    PROVE  /\ UpdatesFirst(Tail(q))
           /\ HasUpdate(Tail(q)) => HasUpdate(q)
           /\ HasUpdate(q) => IsUpdate(Head(q))
           /\ OnlyUpdates(q) => OnlyUpdates(Tail(q)) /\ IsUpdate(Head(q))
           /\ IsUpdate(Head(q)) => HasUpdate(q)
  <1>1. /\ Len(q) \in Nat \ {0} /\ Len(Tail(q)) = Len(q) - 1 /\ Head(q) = q[1]
        /\ \A i \in 1 .. Len(Tail(q)) : Tail(q)[i] = q[i + 1] /\ i + 1 \in 1 .. Len(q)
    BY TailFacts
  <1>2. UpdatesFirst(Tail(q))
    <2> SUFFICES ASSUME NEW i \in 1 .. Len(Tail(q)), IsUpdate(Tail(q)[i]),
                        NEW j \in 1 .. i
                 PROVE  IsUpdate(Tail(q)[j])
      BY DEF UpdatesFirst
    <2>1. j \in 1 .. Len(Tail(q)) /\ j + 1 \in 1 .. i + 1
      BY <1>1
    <2> QED BY <1>1, <2>1 DEF UpdatesFirst
  <1>3. HasUpdate(Tail(q)) => HasUpdate(q)
    BY <1>1 DEF HasUpdate
  <1>4. HasUpdate(q) => IsUpdate(Head(q))
    BY <1>1 DEF HasUpdate, UpdatesFirst
  <1>5. OnlyUpdates(q) => OnlyUpdates(Tail(q)) /\ IsUpdate(Head(q))
    BY <1>1 DEF OnlyUpdates, IsUpdate
  <1>6. IsUpdate(Head(q)) => HasUpdate(q)
    BY <1>1 DEF HasUpdate
  <1> QED BY <1>2, <1>3, <1>4, <1>5, <1>6

LEMMA AppendUpdates ==
    ASSUME NEW q \in Seq(LocalMessage), NEW m \in LocalMessage, UpdatesFirst(q),
           IsUpdate(m) => OnlyUpdates(q)
    PROVE  /\ UpdatesFirst(Append(q, m))
           /\ HasUpdate(Append(q, m)) => HasUpdate(q) \/ IsUpdate(m)
           /\ IsUpdate(m) => OnlyUpdates(Append(q, m))
  <1> DEFINE w == Append(q, m)
  <1>1. /\ Len(q) \in Nat /\ Len(w) = Len(q) + 1 /\ w[Len(q) + 1] = m
        /\ \A i \in 1 .. Len(q) : w[i] = q[i]
    BY AppendFacts
  <1> HIDE DEF w
  <1>2. \A i \in 1 .. Len(w) : i \in 1 .. Len(q) \/ (i = Len(q) + 1 /\ w[i] = m)
    BY <1>1
  <1>3. HasUpdate(w) => HasUpdate(q) \/ IsUpdate(m)
    BY <1>1, <1>2 DEF HasUpdate
  <1>4. IsUpdate(m) => OnlyUpdates(w)
    BY <1>1, <1>2 DEF OnlyUpdates, IsUpdate
  <1>5. UpdatesFirst(w)
    <2>1. CASE IsUpdate(m)
      <3>1. \A i \in 1 .. Len(w) : IsUpdate(w[i])
        BY <1>4, <2>1 DEF OnlyUpdates, IsUpdate
      <3> QED BY <1>1, <3>1 DEF UpdatesFirst
    <2>2. CASE ~IsUpdate(m)
      <3> SUFFICES ASSUME NEW i \in 1 .. Len(w), IsUpdate(w[i]), NEW j \in 1 .. i
                   PROVE  IsUpdate(w[j])
        BY DEF UpdatesFirst
      <3>1. i \in 1 .. Len(q) /\ j \in 1 .. Len(q)
        BY <1>1, <1>2, <2>2
      <3> QED BY <1>1, <3>1 DEF UpdatesFirst
    <2> QED BY <2>1, <2>2
  <1> QED BY <1>3, <1>4, <1>5 DEF w

LEMMA UnforwardedStep ==
    ASSUME OneUserPerSite, TypeOK, Pairs, Control, Next,
           NEW s \in Site, Unforwarded(s)
    PROVE  Unforwarded(s)'
  <1>types. /\ out \in [Site -> Seq(LocalMessage)]
            /\ local \in [Site -> Seq(LocalMessage)]
            /\ tab \in [Site -> [Site -> TabEntry]]
            /\ uiLeft \in [Site -> Nat]
            /\ pc \in [Task -> {"transfer", "waiting", "inCS", "published", "done"}]
            /\ out[s] \in Seq(LocalMessage) /\ local[s] \in Seq(LocalMessage)
            /\ SiteOf \in [Task -> Site]
    BY TasksAssumption DEF TypeOK
  <1>granted. tab'[s][s] = tab[s][s] /\ Granted(s) => Granted(s)'
    BY GrantedStable
  <1>same. out'[s] = out[s] /\ local'[s] = local[s] /\ uiLeft'[s] = uiLeft[s]
           /\ tab'[s][s] = tab[s][s] => Unforwarded(s)'
    BY <1>granted DEF Unforwarded
  <1>1. ASSUME NEW a \in Task, Ask(a) \/ TaskStep(a) PROVE Unforwarded(s)'
    <2>1. UNCHANGED <<tab, local, uiLeft>>
      BY <1>1 DEF TaskStep, Ask, Grant, Publish, Finish
    <2>2. CASE SiteOf[a] # s \/ Grant(a)
      <3>1. out'[s] = out[s]
        BY <1>1, <1>types, <2>2 DEF TaskStep, Ask, Grant, Publish, Finish
      <3> QED BY <2>1, <3>1, <1>same
    <2>3. CASE SiteOf[a] = s /\ ~Grant(a)
      <3>0. PICK m \in LocalMessage :
              /\ out'[s] = Append(out[s], m)
              /\ IsUpdate(m) => Publish(a)
        <4>1. /\ Msg("AskingFromSC", 0, {}) \in LocalMessage
              /\ Msg("RegisterUpdate", 0, reg[s]) \in LocalMessage
              /\ Msg("DoneWithSC", 0, {}) \in LocalMessage
          BY DEF Msg, LocalMessage, TypeOK
        <4>2. CASE Publish(a)
          BY <1>types, <2>3, <4>1, <4>2 DEF Publish
        <4>3. CASE Ask(a)
          BY <1>types, <2>3, <4>1, <4>3 DEF Ask, IsUpdate, Msg
        <4>4. CASE Finish(a)
          BY <1>types, <2>3, <4>1, <4>4 DEF Finish, IsUpdate, Msg
        <4> QED BY <1>1, <2>3, <4>2, <4>3, <4>4 DEF TaskStep
      <3>1. IsUpdate(m) => Quiet(s) /\ Granted(s) /\ uiLeft[s] = 0
        BY <2>3, <3>0 DEF Publish, Control, TaskInv
      <3>2. IsUpdate(m) => OnlyUpdates(out[s]) /\ OnlyUpdates(local[s])
        BY <3>1 DEF Quiet, OnlyUpdates
      <3>3. /\ UpdatesFirst(out'[s])
            /\ HasUpdate(out'[s]) => HasUpdate(out[s]) \/ IsUpdate(m)
        BY <3>0, <3>2, <1>types, AppendUpdates DEF Unforwarded
      <3>4. local'[s] = local[s] /\ uiLeft'[s] = uiLeft[s]
            /\ (Granted(s) => Granted(s)')
        BY <2>1, <1>granted
      <3> QED BY <3>1, <3>2, <3>3, <3>4 DEF Unforwarded
    <2> QED BY <2>2, <2>3
  <1>2. ASSUME NEW u \in Site, ListenUserUIInput(u) PROVE Unforwarded(s)'
    <2>1. UNCHANGED <<tab, out>>
      BY <1>2 DEF ListenUserUIInput
    <2>2. CASE u # s
      BY <1>2, <1>types, <2>1, <2>2, <1>same DEF ListenUserUIInput
    <2>3. CASE u = s
      <3>1. uiLeft[s] # 0 /\ local'[s] = Append(local[s], Msg("LOCAL_SC_REQUEST", 0, {}))
        BY <1>2, <1>types, <2>3 DEF ListenUserUIInput
      <3>2. /\ Msg("LOCAL_SC_REQUEST", 0, {}) \in LocalMessage
            /\ ~IsUpdate(Msg("LOCAL_SC_REQUEST", 0, {}))
        BY DEF Msg, LocalMessage, IsUpdate
      <3>3. UpdatesFirst(local'[s]) /\ (HasUpdate(local'[s]) => HasUpdate(local[s]))
        BY <3>1, <3>2, <1>types, AppendUpdates DEF Unforwarded
      <3> QED BY <2>1, <3>1, <3>3, <1>granted DEF Unforwarded
    <2> QED BY <2>2, <2>3
  <1>3. ASSUME NEW u \in Site, ListenLocalTorrentOutput(u) PROVE Unforwarded(s)'
    <2>1. UNCHANGED <<tab, uiLeft>>
      BY <1>3 DEF ListenLocalTorrentOutput
    <2>2. CASE u # s
      BY <1>3, <1>types, <2>1, <2>2, <1>same DEF ListenLocalTorrentOutput
    <2>3. CASE u = s
      <3> DEFINE m == [Head(out[s]) EXCEPT !.stamp = clock[s]]
      <3>1. /\ out[s] # <<>> /\ out'[s] = Tail(out[s])
            /\ local'[s] = Append(local[s], m)
        BY <1>3, <1>types, <2>3 DEF ListenLocalTorrentOutput
      <3>2. Head(out[s]) \in LocalMessage /\ clock[s] \in Nat
        BY <3>1, <1>types, TailFacts DEF TypeOK
      <3>3. m \in LocalMessage /\ m.type = Head(out[s]).type
        BY <3>2 DEF LocalMessage
      <3> HIDE DEF m
      <3>4. /\ UpdatesFirst(Tail(out[s]))
            /\ HasUpdate(Tail(out[s])) => HasUpdate(out[s])
            /\ HasUpdate(out[s]) <=> IsUpdate(m)
        BY <3>1, <3>3, <1>types, TailUpdates DEF Unforwarded, IsUpdate
      <3>5. IsUpdate(m) => OnlyUpdates(local[s]) /\ Granted(s) /\ uiLeft[s] = 0
        BY <3>4 DEF Unforwarded
      <3>6. /\ UpdatesFirst(local'[s])
            /\ HasUpdate(local'[s]) => HasUpdate(local[s]) \/ IsUpdate(m)
            /\ IsUpdate(m) => OnlyUpdates(local'[s])
        BY <3>1, <3>3, <3>5, <1>types, AppendUpdates DEF Unforwarded
      <3> QED BY <2>1, <3>1, <3>4, <3>5, <3>6, <1>granted DEF Unforwarded
    <2> QED BY <2>2, <2>3
  <1>4. ASSUME NEW u \in Site, LocalStep(u) PROVE Unforwarded(s)'
    <2>1. UNCHANGED <<out, uiLeft>>
      BY <1>4 DEF LocalStep, SCRequestFromBaseApp, SCStopFromBaseApp,
                  ForwardRegisterUpdate
    <2>2. CASE u # s
      BY <1>4, <1>types, <2>1, <2>2, <1>same
         DEF LocalStep, SCRequestFromBaseApp, SCStopFromBaseApp, DateOwnEntry,
             ForwardRegisterUpdate, LocalEvent
    <2>3. CASE u = s
      <3>1. local[s] # <<>> /\ local'[s] = Tail(local[s])
        BY <1>4, <1>types, <2>3 DEF LocalStep, SCRequestFromBaseApp, SCStopFromBaseApp,
           ForwardRegisterUpdate, LocalEvent
      <3>2. /\ UpdatesFirst(Tail(local[s]))
            /\ HasUpdate(Tail(local[s])) => HasUpdate(local[s])
            /\ HasUpdate(local[s]) => IsUpdate(Head(local[s]))
            /\ OnlyUpdates(local[s]) => OnlyUpdates(Tail(local[s]))
                                        /\ IsUpdate(Head(local[s]))
        BY <3>1, <1>types, TailUpdates DEF Unforwarded
      <3>3. CASE ForwardRegisterUpdate(s)
        <4>1. tab' = tab
          BY <3>3 DEF ForwardRegisterUpdate
        <4> QED BY <2>1, <3>1, <3>2, <4>1, <1>granted DEF Unforwarded
      <3>4. CASE ~ForwardRegisterUpdate(s)
        <4>1. ~IsUpdate(Head(local[s]))
          BY <1>4, <2>3, <3>4 DEF LocalStep, SCRequestFromBaseApp, SCStopFromBaseApp,
             LocalEvent, IsUpdate
        <4> QED BY <2>1, <3>1, <3>2, <4>1 DEF Unforwarded
      <3> QED BY <3>3, <3>4
    <2> QED BY <2>2, <2>3
  <1>5. ASSUME NEW u \in Site, NEW t \in Site \ {u}, NetworkStep(u, t)
        PROVE  Unforwarded(s)'
    BY <1>5, <1>same, NetworkStepGrants
  <1> QED BY <1>1, <1>2, <1>3, <1>4, <1>5 DEF Next

-----------------------------------------------------------------------------
(* Updates on their way: the request behind which they come still stands. *)

(* The first message of the channel is handled. *)
LEMMA StandsTail ==
    ASSUME NEW q \in Seq(NetMessage), q # <<>>, NEW e \in TabEntry, NEW d \in Nat,
           NEW k \in 2 .. Len(q), StandsAt(q, e, k, d)
    PROVE  StandsAt(Tail(q), Received(e, Head(q)), k - 1, d)
  <1> DEFINE w == Tail(q)
             r == Received(e, Head(q))
  <1>1. /\ Len(q) \in Nat \ {0} /\ Len(w) = Len(q) - 1 /\ Head(q) = q[1]
        /\ \A i \in 1 .. Len(w) : w[i] = q[i + 1]
        /\ Head(q) \in NetMessage
    BY TailFacts
  <1>2. /\ q[1].type \in QueueMessage \cup {"RegisterUpdate"}
        /\ q[1].stamp \in Nat /\ e.date \in Nat
    BY <1>1 DEF NetMessage, TabEntry
  <1> HIDE DEF w
  <1>mute. ASSUME NEW j \in 2 .. k, Mute(q, j, k - 1) PROVE Mute(w, j - 1, k - 1 - 1)
    <2> SUFFICES ASSUME NEW n \in (j - 1) .. (k - 1 - 1)
                 PROVE  w[n].type \notin {"SC_REQUEST", "SC_LIBERATION"}
      BY DEF Mute
    <2>1. n \in 1 .. Len(w) /\ n + 1 \in j .. k - 1
      BY <1>1
    <2> QED BY <1>1, <1>mute, <2>1 DEF Mute
  <1>3. CASE e = Entry("SC_REQUEST", d) /\ Mute(q, 1, k - 1)
    <2>1. q[1].type \notin {"SC_REQUEST", "SC_LIBERATION"}
      BY <1>3 DEF Mute
    <2>2. r = e
      BY <1>1, <1>3, <2>1 DEF Received, Entry
    <2>3. Mute(q, 2, k - 1)
      BY <1>3 DEF Mute
    <2>4. Mute(w, 1, k - 1 - 1)
      BY <2>3, <1>mute
    <2> QED BY <1>3, <2>2, <2>4 DEF StandsAt, w
  <1>4. CASE e.date < d /\ \E j \in 1 .. k - 1 :
                 /\ q[j].type = "SC_REQUEST" /\ q[j].stamp = d
                 /\ OlderThan(q, j - 1, d) /\ Mute(q, j + 1, k - 1)
    <2> PICK j \in 1 .. k - 1 :
               /\ q[j].type = "SC_REQUEST" /\ q[j].stamp = d
               /\ OlderThan(q, j - 1, d) /\ Mute(q, j + 1, k - 1)
      BY <1>4
    <2>1. CASE j = 1
      <3>1. r = Entry("SC_REQUEST", d)
        BY <1>1, <2>1 DEF Received
      <3>2. Mute(w, 1, k - 1 - 1)
        BY <2>1, <1>mute
      <3> QED BY <3>1, <3>2 DEF StandsAt, w
    <2>2. CASE j # 1
      <3>1. q[1].type \in QueueMessage => q[1].stamp < d
        BY <2>2 DEF OlderThan
      <3>2. r.date < d
        BY <1>1, <1>2, <1>4, <3>1 DEF Received, Entry, QueueMessage
      <3>3. /\ j - 1 \in 1 .. k - 1 - 1 /\ j - 1 \in 1 .. Len(w)
            /\ w[j - 1].type = "SC_REQUEST" /\ w[j - 1].stamp = d
        BY <1>1, <2>2
      <3>4. OlderThan(w, j - 1 - 1, d)
        <4> SUFFICES ASSUME NEW n \in 1 .. (j - 1 - 1), w[n].type \in QueueMessage
                     PROVE  w[n].stamp < d
          BY DEF OlderThan
        <4>1. n \in 1 .. Len(w) /\ n + 1 \in 1 .. j - 1
          BY <1>1
        <4> QED BY <1>1, <4>1 DEF OlderThan
      <3>5. Mute(w, j - 1 + 1, k - 1 - 1)
        <4>1. Mute(w, j + 1 - 1, k - 1 - 1)
          BY <1>mute
        <4>2. j + 1 - 1 = j - 1 + 1
          OBVIOUS
        <4> QED BY <4>1, <4>2
      <3> HIDE DEF r
      <3>6. StandsAt(w, r, k - 1, d)
        BY <3>2, <3>3, <3>4, <3>5 DEF StandsAt
      <3> QED BY <3>6 DEF w, r
    <2> QED BY <2>1, <2>2
  <1> QED BY <1>3, <1>4 DEF StandsAt

(* Two channels that agree up to k. *)
LEMMA StandsPrefix ==
    ASSUME NEW q, NEW w, NEW e, NEW d, NEW k \in Nat,
           \A i \in 1 .. k - 1 : w[i] = q[i], StandsAt(q, e, k, d)
    PROVE  StandsAt(w, e, k, d)
  <1>1. CASE e = Entry("SC_REQUEST", d) /\ Mute(q, 1, k - 1)
    BY <1>1 DEF StandsAt, Mute
  <1>2. CASE ~(e = Entry("SC_REQUEST", d) /\ Mute(q, 1, k - 1))
    <2> PICK j \in 1 .. k - 1 :
               /\ q[j].type = "SC_REQUEST" /\ q[j].stamp = d
               /\ OlderThan(q, j - 1, d) /\ Mute(q, j + 1, k - 1)
      BY <1>2 DEF StandsAt
    <2>1. OlderThan(w, j - 1, d) /\ Mute(w, j + 1, k - 1)
      BY DEF OlderThan, Mute
    <2>2. w[j].type = "SC_REQUEST" /\ w[j].stamp = d
      OBVIOUS
    <2> QED BY <1>2, <2>1, <2>2 DEF StandsAt
  <1> QED BY <1>1, <1>2

(* A request that is announced stands when what comes next is handled. *)
LEMMA AnnouncedStands ==
    ASSUME NEW q \in Seq(NetMessage), NEW e, NEW d, Announced(q, e, d)
    PROVE  StandsAt(q, e, Len(q) + 1, d)
  <1>1. Len(q) \in Nat
    OBVIOUS
  <1>2. \A i : Silent(q, i) => Mute(q, i, Len(q) + 1 - 1)
    BY <1>1 DEF Silent, Mute
  <1> QED BY <1>1, <1>2 DEF Announced, StandsAt

(* A site that is granted comes before every standing request, and every   *)
(* other site has a clock beyond its date.                                 *)
LEMMA GrantedComesFirst ==
    ASSUME TypeOK, Pairs, NEW s \in Site, NEW t \in Site \ {s}, Granted(s)
    PROVE  /\ Announced(net[s][t], tab[t][s], tab[s][s].date)
           /\ tab[s][s].date \in 0 .. clock[t]
           /\ tab[t][t].type = "SC_REQUEST" =>
                  EstPrioritaire(tab[s][s].date, s, tab[t][t].date, t)
  <1>1. Announced(net[s][t], tab[t][s], tab[s][s].date)
    BY DEF Pairs, PairInv, Granted, Ready
  <1>2. s \in Site \ {t}
    OBVIOUS
  <1>3. /\ tab[s][t].date <= clock[t]
        /\ tab[t][t].type = "SC_REQUEST" =>
               Announced(net[t][s], tab[s][t], tab[t][t].date)
    BY <1>2 DEF Pairs, PairInv, Known
  <1>4. EstPrioritaire(tab[s][s].date, s, tab[s][t].date, t)
    BY DEF Granted, Ready, CompareTab
  <1>5. /\ clock[t] \in Nat
        /\ tab[s][s].date \in Nat /\ tab[s][t].date \in Nat /\ tab[t][t].date \in Nat
    <2>1. \A u, v \in Site : tab[u][v] \in TabEntry
      BY DEF TypeOK
    <2> QED BY <2>1 DEF TypeOK, TabEntry
  <1>6. tab[t][t].type = "SC_REQUEST" =>
            tab[s][t].date = tab[t][t].date \/ tab[s][t].date < tab[t][t].date
    BY <1>3 DEF Announced, Entry
  <1>7. s \in Nat /\ t \in Nat
    BY SitesAssumption DEF Site
  <1> QED BY <1>1, <1>3, <1>4, <1>5, <1>6, <1>7 DEF EstPrioritaire

LEMMA BarredStep ==
    ASSUME TypeOK, Pairs, Next, NEW s \in Site, NEW t \in Site \ {s},
           Unforwarded(s), Barred(s, t)
    PROVE  Barred(s, t)'
  <1> DEFINE q == net[s][t]
             e == tab[t][s]
             o == tab[t][t]
             Before(d, entry) == entry.type = "SC_REQUEST" =>
                                     EstPrioritaire(d, s, entry.date, t)
  <1>types. /\ q \in Seq(NetMessage) /\ e \in TabEntry /\ o \in TabEntry
            /\ clock[t] \in Nat /\ clock'[t] \in Nat /\ Len(q) \in Nat
            /\ local[s] \in Seq(LocalMessage)
    BY SMTT(30), NextType DEF TypeOK
  (* The later requests of t come later. *)
  <1>1. ASSUME NEW d \in 0 .. clock[t], Before(d, o)
        PROVE  d \in 0 .. clock'[t] /\ Before(d, tab'[t][t])
    <2>1. PairStep(t, s)
      BY NextPairStep
    <2>2. clock[t] <= clock'[t]
      BY <2>1 DEF PairStep
    <2>3. CASE Keeps(t, s) \/ Receives(t, s) \/ Posts(t, s)
      BY <1>1, <1>types, <2>2, <2>3 DEF Keeps, Receives, Posts
    <2>4. CASE Dates(t, s)
      <3>1. clock[t] < clock'[t] /\ tab'[t][t].date = clock'[t]
        BY <2>4 DEF Dates, Entry
      <3> QED BY <1>1, <1>types, <3>1 DEF EstPrioritaire
    <2> QED BY <2>1, <2>3, <2>4 DEF PairStep
  <1> HIDE DEF Before
  <1> SUFFICES ASSUME NEW k \in 1 .. Len(net'[s][t]), IsUpdate(net'[s][t][k])
               PROVE  \E d \in 0 .. clock[t] :
                         StandsAt(net'[s][t], tab'[t][s], k, d) /\ Before(d, o)
    BY <1>1, <1>types DEF Barred, Before
  <1>2. \A n \in 1 .. Len(q) : IsUpdate(q[n]) =>
            \E d \in 0 .. clock[t] : StandsAt(q, e, n, d) /\ Before(d, o)
    BY DEF Barred, Before
  <1>3. PairStep(s, t)
    BY NextPairStep
  <1>4. CASE Keeps(s, t)
    BY <1>2, <1>4 DEF Keeps
  <1>5. CASE Receives(s, t)
    <2>1. q # <<>> /\ net'[s][t] = Tail(q) /\ tab'[t][s] = Received(e, Head(q))
      BY <1>5 DEF Receives
    <2>2. k + 1 \in 2 .. Len(q) /\ net'[s][t][k] = q[k + 1] /\ k = (k + 1) - 1
      <3>1. /\ Len(Tail(q)) = Len(q) - 1
            /\ \A n \in 1 .. Len(Tail(q)) : Tail(q)[n] = q[n + 1]
        BY <2>1, <1>types, TailFacts
      <3> QED BY <2>1, <3>1, <1>types
    <2>3. PICK d \in 0 .. clock[t] : StandsAt(q, e, k + 1, d) /\ Before(d, o)
      BY <1>2, <2>2
    <2>4. StandsAt(Tail(q), Received(e, Head(q)), (k + 1) - 1, d)
      BY <2>1, <2>2, <2>3, <1>types, StandsTail
    <2>5. StandsAt(net'[s][t], tab'[t][s], k, d)
      BY <2>1, <2>2, <2>4
    <2> QED BY <2>3, <2>5
  <1>6. CASE Posts(s, t) \/ Dates(s, t)
    <2>1. PICK m \in NetMessage :
            /\ net'[s][t] = Append(q, m) /\ tab'[t][s] = e
            /\ IsUpdate(m) => ForwardRegisterUpdate(s) /\ m = Head(local[s])
      <3>1. CASE Posts(s, t)
        BY <3>1 DEF Posts, IsUpdate
      <3>2. CASE Dates(s, t)
        <4> PICK type \in {"SC_REQUEST", "SC_LIBERATION"} :
                /\ net'[s][t] = Append(q, Msg(type, clock'[s], {}))
                /\ tab'[t][s] = e
          BY <3>2 DEF Dates
        <4>1. /\ Msg(type, clock'[s], {}) \in NetMessage
              /\ ~IsUpdate(Msg(type, clock'[s], {}))
          BY NextType DEF TypeOK, Msg, NetMessage, QueueMessage, IsUpdate
        <4> QED BY <4>1
      <3> QED BY <1>6, <3>1, <3>2
    <2>2. /\ Len(net'[s][t]) = Len(q) + 1 /\ net'[s][t][Len(q) + 1] = m
          /\ \A n \in 1 .. Len(q) : net'[s][t][n] = q[n]
      BY <2>1, <1>types, AppendFacts
    <2>3. CASE k \in 1 .. Len(q)
      <3>1. PICK d \in 0 .. clock[t] : StandsAt(q, e, k, d) /\ Before(d, o)
        BY <1>2, <2>2, <2>3
      <3>2. k \in Nat /\ \A n \in 1 .. k - 1 : net'[s][t][n] = q[n]
        BY <2>2, <2>3, <1>types
      <3>3. StandsAt(net'[s][t], e, k, d)
        BY <3>1, <3>2, StandsPrefix
      <3> QED BY <2>1, <3>1, <3>3
    <2>4. CASE k = Len(q) + 1
      <3> DEFINE d == tab[s][s].date
      <3>1. ForwardRegisterUpdate(s) /\ IsUpdate(Head(local[s]))
        BY <2>1, <2>2, <2>4
      <3>2. local[s] # <<>>
        BY <3>1 DEF ForwardRegisterUpdate, LocalEvent
      <3>3. Granted(s)
        BY <3>1, <3>2, <1>types, TailUpdates DEF Unforwarded
      <3>4. Announced(q, e, d) /\ d \in 0 .. clock[t] /\ Before(d, o)
        BY <3>3, GrantedComesFirst DEF Before
      <3> HIDE DEF d
      <3>5. StandsAt(q, e, Len(q) + 1, d)
        BY <3>4, <1>types, AnnouncedStands
      <3>6. k \in Nat /\ \A n \in 1 .. k - 1 : net'[s][t][n] = q[n]
        BY <2>2, <2>4, <1>types
      <3>7. StandsAt(net'[s][t], e, k, d)
        BY <2>4, <3>5, <3>6, StandsPrefix
      <3> QED BY <2>1, <3>4, <3>7
    <2>5. k \in 1 .. Len(q) \/ k = Len(q) + 1
      BY <2>2, <1>types
    <2> QED BY <2>3, <2>4, <2>5
  <1> QED BY <1>3, <1>4, <1>5, <1>6 DEF PairStep

(* A site for which an update is still on its way is not granted. *)
LEMMA BarredNotGranted ==
    ASSUME TypeOK, NEW s \in Site, NEW t \in Site \ {s}, Barred(s, t),
           NEW k \in 1 .. Len(net[s][t]), IsUpdate(net[s][t][k])
    PROVE  ~Granted(t)
  <1> PICK d \in 0 .. clock[t] :
             /\ StandsAt(net[s][t], tab[t][s], k, d)
             /\ tab[t][t].type = "SC_REQUEST" => EstPrioritaire(d, s, tab[t][t].date, t)
    BY DEF Barred
  <1>1. tab[t][s].date \in Nat /\ tab[t][t].date \in Nat /\ clock[t] \in Nat
    <2>1. \A u, v \in Site : tab[u][v] \in TabEntry
      BY DEF TypeOK
    <2> QED BY <2>1 DEF TypeOK, TabEntry
  <1>2. tab[t][s].date <= d
    BY <1>1 DEF StandsAt, Entry
  <1>3. s \in Nat /\ t \in Nat /\ s # t
    BY SitesAssumption DEF Site
  <1>4. ASSUME Granted(t) PROVE FALSE
    <2>1. /\ tab[t][t].type = "SC_REQUEST"
          /\ EstPrioritaire(tab[t][t].date, t, tab[t][s].date, s)
      BY <1>4 DEF Granted, Ready, CompareTab
    <2> QED BY <1>1, <1>2, <1>3, <2>1 DEF EstPrioritaire
  <1> QED BY <1>4

-----------------------------------------------------------------------------
(* What the updates bear: a fact leaves a queue for the next one only, and *)
(* the last one for the register.                                          *)

LEMMA BearsTail ==
    ASSUME NEW S, NEW q \in Seq(S), q # <<>>, NEW F, Bears(q, F)
    PROVE  Bears(Tail(q), F) \/ (IsUpdate(Head(q)) /\ F \subseteq Head(q).payload)
  <1>1. /\ Head(q) = q[1] /\ Len(q) \in Nat \ {0} /\ Len(Tail(q)) = Len(q) - 1
        /\ \A i \in 1 .. Len(Tail(q)) : Tail(q)[i] = q[i + 1]
    BY TailFacts
  <1> PICK i \in 1 .. Len(q) : IsUpdate(q[i]) /\ F \subseteq q[i].payload
    BY DEF Bears
  <1>2. CASE i = 1
    BY <1>1, <1>2
  <1>3. CASE i # 1
    <2>1. i - 1 \in 1 .. Len(Tail(q)) /\ Tail(q)[i - 1] = q[i]
      BY <1>1, <1>3
    <2> QED BY <2>1 DEF Bears
  <1> QED BY <1>2, <1>3

LEMMA BearsAppend ==
    ASSUME NEW S, NEW q \in Seq(S), NEW m \in S, NEW F,
           Bears(q, F) \/ (IsUpdate(m) /\ F \subseteq m.payload)
    PROVE  Bears(Append(q, m), F)
  <1> DEFINE w == Append(q, m)
  <1>1. /\ Len(q) \in Nat /\ Len(w) = Len(q) + 1 /\ w[Len(q) + 1] = m
        /\ \A i \in 1 .. Len(q) : w[i] = q[i]
    BY AppendFacts
  <1> HIDE DEF w
  <1>2. Bears(w, F)
    BY <1>1 DEF Bears
  <1> QED BY <1>2 DEF w

LEMMA WithinFacts ==
    ASSUME NEW S, NEW q \in Seq(S), NEW known, NEW more, known \subseteq more,
           Within(q, known)
    PROVE  /\ Within(q, more)
           /\ q # <<>> => Within(Tail(q), more) /\ Head(q).payload \subseteq more
           /\ \A m \in S : m.payload \subseteq more => Within(Append(q, m), more)
  <1>1. Within(q, more)
    BY DEF Within
  <1>2. ASSUME q # <<>>
        PROVE  Within(Tail(q), more) /\ Head(q).payload \subseteq more
    <2>1. /\ Head(q) = q[1] /\ Len(q) \in Nat \ {0} /\ Len(Tail(q)) = Len(q) - 1
          /\ \A i \in 1 .. Len(Tail(q)) : Tail(q)[i] = q[i + 1]
      BY <1>2, TailFacts
    <2>2. \A i \in 1 .. Len(Tail(q)) : i + 1 \in 1 .. Len(q)
      BY <2>1
    <2>3. 1 \in 1 .. Len(q)
      BY <2>1
    <2> QED BY <1>1, <2>1, <2>2, <2>3 DEF Within
  <1>3. ASSUME NEW m \in S, m.payload \subseteq more
        PROVE  Within(Append(q, m), more)
    <2> DEFINE w == Append(q, m)
    <2>1. /\ Len(q) \in Nat /\ Len(w) = Len(q) + 1 /\ w[Len(q) + 1] = m
          /\ \A i \in 1 .. Len(q) : w[i] = q[i]
      BY AppendFacts
    <2> HIDE DEF w
    <2>2. Within(w, more)
      BY <1>1, <1>3, <2>1 DEF Within
    <2> QED BY <2>2 DEF w
  <1> QED BY <1>1, <1>2, <1>3

(* What a step can do to the two queues of a site. *)
LEMMA OutStep ==
    ASSUME TypeOK, Next, NEW s \in Site
    PROVE  \/ out'[s] = out[s]
           \/ \E m \in LocalMessage :
                 /\ out'[s] = Append(out[s], m)
                 /\ m.payload \subseteq reg[s]
           \/ ListenLocalTorrentOutput(s)
  <1>1. ASSUME NEW a \in Task, Ask(a) \/ TaskStep(a)
        PROVE  \/ out'[s] = out[s]
               \/ \E m \in LocalMessage :
                     out'[s] = Append(out[s], m) /\ m.payload \subseteq reg[s]
    <2>1. /\ Msg("AskingFromSC", 0, {}) \in LocalMessage
          /\ Msg("AskingFromSC", 0, {}).payload = {}
          /\ Msg("RegisterUpdate", 0, reg[s]) \in LocalMessage
          /\ Msg("RegisterUpdate", 0, reg[s]).payload = reg[s]
          /\ Msg("DoneWithSC", 0, {}) \in LocalMessage
          /\ Msg("DoneWithSC", 0, {}).payload = {}
      BY DEF Msg, LocalMessage, TypeOK
    <2>2. out \in [Site -> Seq(LocalMessage)] /\ SiteOf[a] \in Site
      BY TasksAssumption DEF TypeOK
    <2>3. CASE Ask(a)
      BY <2>1, <2>2, <2>3 DEF Ask
    <2>4. CASE Grant(a)
      BY <2>4 DEF Grant
    <2>5. CASE Publish(a)
      BY <2>1, <2>2, <2>5 DEF Publish
    <2>6. CASE Finish(a)
      BY <2>1, <2>2, <2>6 DEF Finish
    <2> QED BY <1>1, <2>3, <2>4, <2>5, <2>6 DEF TaskStep
  <1>2. ASSUME NEW u \in Site, ListenUserUIInput(u) \/ LocalStep(u)
        PROVE  out'[s] = out[s]
    BY <1>2 DEF ListenUserUIInput, LocalStep, SCRequestFromBaseApp, SCStopFromBaseApp,
                ForwardRegisterUpdate
  <1>3. ASSUME NEW u \in Site, ListenLocalTorrentOutput(u)
        PROVE  out'[s] = out[s] \/ ListenLocalTorrentOutput(s)
    BY <1>3 DEF ListenLocalTorrentOutput, TypeOK
  <1>4. ASSUME NEW u \in Site, NEW v \in Site \ {u}, NetworkStep(u, v)
        PROVE  out'[s] = out[s]
    BY <1>4, NetworkStepGrants
  <1> QED BY <1>1, <1>2, <1>3, <1>4 DEF Next

LEMMA LocalQueueStep ==
    ASSUME TypeOK, Next, NEW s \in Site
    PROVE  \/ local'[s] = local[s]
           \/ \E m \in LocalMessage :
                 /\ local'[s] = Append(local[s], m)
                 /\ m.payload = {} \/ (ListenLocalTorrentOutput(s)
                                       /\ m.payload = Head(out[s]).payload)
           \/ LocalStep(s)
  <1>types. local \in [Site -> Seq(LocalMessage)] /\ out[s] \in Seq(LocalMessage)
            /\ clock[s] \in Nat
    BY DEF TypeOK
  <1>1. ASSUME NEW a \in Task, Ask(a) \/ TaskStep(a) PROVE local'[s] = local[s]
    BY <1>1 DEF TaskStep, Ask, Grant, Publish, Finish
  <1>2. ASSUME NEW u \in Site, ListenUserUIInput(u)
        PROVE  \/ local'[s] = local[s]
               \/ \E m \in LocalMessage :
                     local'[s] = Append(local[s], m) /\ m.payload = {}
    <2>1. /\ Msg("LOCAL_SC_REQUEST", 0, {}) \in LocalMessage
          /\ Msg("LOCAL_SC_REQUEST", 0, {}).payload = {}
      BY DEF Msg, LocalMessage
    <2> QED BY <1>2, <1>types, <2>1 DEF ListenUserUIInput
  <1>3. ASSUME NEW u \in Site, ListenLocalTorrentOutput(u)
        PROVE  \/ local'[s] = local[s]
               \/ \E m \in LocalMessage :
                     /\ local'[s] = Append(local[s], m)
                     /\ ListenLocalTorrentOutput(s) /\ m.payload = Head(out[s]).payload
    <2>1. CASE u # s
      BY <1>3, <1>types, <2>1 DEF ListenLocalTorrentOutput
    <2>2. CASE u = s
      <3> DEFINE m == [Head(out[s]) EXCEPT !.stamp = clock[s]]
      <3>1. out[s] # <<>> /\ local'[s] = Append(local[s], m)
        BY <1>3, <1>types, <2>2 DEF ListenLocalTorrentOutput
      <3>2. Head(out[s]) \in LocalMessage
        BY <3>1, <1>types, TailFacts
      <3>3. m \in LocalMessage /\ m.payload = Head(out[s]).payload
        BY <3>2, <1>types DEF LocalMessage
      <3> QED BY <1>3, <2>2, <3>1, <3>3
    <2> QED BY <2>1, <2>2
  <1>4. ASSUME NEW u \in Site, LocalStep(u)
        PROVE  local'[s] = local[s] \/ LocalStep(s)
    <2>1. CASE u # s
      BY <1>4, <1>types, <2>1 DEF LocalStep, SCRequestFromBaseApp, SCStopFromBaseApp,
         ForwardRegisterUpdate, LocalEvent
    <2> QED BY <1>4, <2>1
  <1>5. ASSUME NEW u \in Site, NEW v \in Site \ {u}, NetworkStep(u, v)
        PROVE  local'[s] = local[s]
    BY <1>5, NetworkStepGrants
  <1> QED BY <1>1, <1>2, <1>3, <1>4, <1>5 DEF Next

(* What a step can do to the register of a site: it only grows. *)
LEMMA RegStep ==
    ASSUME TypeOK, Next, NEW t \in Site
    PROVE  \/ reg'[t] = reg[t]
           \/ \E a \in Task : reg'[t] = reg[t] \cup {a} /\ pc'[a] # "transfer"
           \/ \E s \in Site \ {t} :
                 net[s][t] # <<>> /\ reg'[t] = reg[t] \cup Head(net[s][t]).payload
  <1>types. /\ reg \in [Site -> SUBSET Task] /\ SiteOf \in [Task -> Site]
            /\ pc \in [Task -> {"transfer", "waiting", "inCS", "published", "done"}]
    BY TasksAssumption DEF TypeOK
  <1>1. ASSUME NEW a \in Task, Ask(a) \/ TaskStep(a)
        PROVE  \/ reg'[t] = reg[t]
               \/ \E b \in Task : reg'[t] = reg[t] \cup {b} /\ pc'[b] # "transfer"
    <2>1. CASE Ask(a)
      BY <1>types, <2>1 DEF Ask
    <2>2. CASE TaskStep(a)
      BY <2>2 DEF TaskStep, Grant, Publish, Finish
    <2> QED BY <1>1, <2>1, <2>2
  <1>2. ASSUME NEW u \in Site, \/ ListenUserUIInput(u) \/ ListenLocalTorrentOutput(u)
                               \/ LocalStep(u)
        PROVE  reg'[t] = reg[t]
    BY <1>2 DEF ListenUserUIInput, ListenLocalTorrentOutput, LocalStep,
                SCRequestFromBaseApp, SCStopFromBaseApp, ForwardRegisterUpdate
  <1>3. ASSUME NEW u \in Site, NEW v \in Site \ {u}, NetworkStep(u, v)
        PROVE  \/ reg'[t] = reg[t]
               \/ \E s \in Site \ {t} :
                     net[s][t] # <<>> /\ reg'[t] = reg[t] \cup Head(net[s][t]).payload
    <2>1. CASE HandleRegisterUpdate(u, v)
      BY <1>types, <2>1 DEF HandleRegisterUpdate, NetworkEvent
    <2>2. CASE ~HandleRegisterUpdate(u, v)
      BY <1>3, <2>2 DEF NetworkStep, SCRequestFromNetwork, SCStopFromNetwork,
         AckFromNetwork, HandleDistributedFile
    <2> QED BY <2>1, <2>2
  <1> QED BY <1>1, <1>2, <1>3 DEF Next

(* An update that is forwarded goes to every other site. *)
LEMMA ForwardAppends ==
    ASSUME TypeOK, NEW s \in Site, NEW t \in Site, t # s, ForwardRegisterUpdate(s)
    PROVE  /\ Head(local[s]) \in NetMessage
           /\ net'[s][t] = Append(net[s][t], Head(local[s]))
  <1> DEFINE m == Head(local[s])
  <1>1. /\ net' = Broadcast(net, s, m) /\ net \in Channels
        /\ m.type = "RegisterUpdate" /\ local[s] # <<>>
        /\ local[s] \in Seq(LocalMessage)
    BY TypeFacts DEF ForwardRegisterUpdate, LocalEvent, TypeOK
  <1>2. m \in LocalMessage
    BY <1>1, TailFacts
  <1>3. m \in NetMessage
    BY <1>1, <1>2 DEF LocalMessage, NetMessage
  <1> HIDE DEF m
  <1>4. net'[s][t] = Append(net[s][t], m)
    BY <1>1 DEF Broadcast, Channels
  <1> QED BY <1>3, <1>4 DEF m

(* Facts that are known at t, or on their way, stay so.  F is the same set *)
(* before and after the step.                                              *)
LEMMA ReachesStep ==
    ASSUME TypeOK, Next, NEW F, NEW t \in Site, Reaches(F, t)
    PROVE  \/ F \subseteq reg'[t]
           \/ \E s \in Site \ {t} :
                 Bears(out'[s], F) \/ Bears(local'[s], F) \/ Bears(net'[s][t], F)
  <1> DEFINE Goal == \/ F \subseteq reg'[t]
                     \/ \E s \in Site \ {t} : \/ Bears(out'[s], F)
                                              \/ Bears(local'[s], F)
                                              \/ Bears(net'[s][t], F)
  <1>0. \A s \in Site : /\ out[s] \in Seq(LocalMessage) /\ local[s] \in Seq(LocalMessage)
                        /\ net[s][t] \in Seq(NetMessage)
    BY DEF TypeOK
  <1>1. ASSUME F \subseteq reg[t] PROVE Goal
    <2>1. reg[t] \subseteq reg'[t]
      BY RegStep
    <2> QED BY <1>1, <2>1
  <1>2. ASSUME NEW s \in Site \ {t}, Bears(net[s][t], F) PROVE Goal
    <2>1. t \in Site \ {s}
      OBVIOUS
    <2>2. PairStep(s, t)
      BY <2>1, NextPairStep
    <2>3. CASE Keeps(s, t)
      BY <1>2, <2>3 DEF Keeps
    <2>4. CASE Receives(s, t)
      <3>1. /\ net[s][t] # <<>> /\ net'[s][t] = Tail(net[s][t])
            /\ IsUpdate(Head(net[s][t])) =>
                   reg'[t] = reg[t] \cup Head(net[s][t]).payload
        BY <2>4 DEF Receives, IsUpdate
      <3>2. \/ Bears(Tail(net[s][t]), F)
            \/ IsUpdate(Head(net[s][t])) /\ F \subseteq Head(net[s][t]).payload
        BY <1>0, <1>2, <3>1, BearsTail
      <3> QED BY <3>1, <3>2
    <2>5. CASE Posts(s, t) \/ Dates(s, t)
      <3>1. \E m \in NetMessage : net'[s][t] = Append(net[s][t], m)
        <4>1. \A type \in {"SC_REQUEST", "SC_LIBERATION"} :
                  Msg(type, clock'[s], {}) \in NetMessage
          BY NextType DEF TypeOK, Msg, NetMessage, QueueMessage
        <4> QED BY <2>5, <4>1 DEF Posts, Dates
      <3> PICK m \in NetMessage : net'[s][t] = Append(net[s][t], m)
        BY <3>1
      <3>2. Bears(Append(net[s][t], m), F)
        BY <1>0, <1>2, BearsAppend
      <3> QED BY <3>2
    <2> QED BY <2>2, <2>3, <2>4, <2>5 DEF PairStep
  <1>3. ASSUME NEW s \in Site \ {t}, Bears(local[s], F) PROVE Goal
    <2>1. CASE local'[s] = local[s]
      BY <1>3, <2>1
    <2>2. CASE \E m \in LocalMessage : local'[s] = Append(local[s], m)
      <3> PICK m \in LocalMessage : local'[s] = Append(local[s], m)
        BY <2>2
      <3>1. Bears(Append(local[s], m), F)
        BY <1>0, <1>3, BearsAppend
      <3> QED BY <3>1
    <2>3. CASE LocalStep(s)
      <3>1. local[s] # <<>> /\ local'[s] = Tail(local[s])
        BY <2>3 DEF LocalStep, SCRequestFromBaseApp, SCStopFromBaseApp,
           ForwardRegisterUpdate, LocalEvent, TypeOK
      <3>2. \/ Bears(Tail(local[s]), F)
            \/ IsUpdate(Head(local[s])) /\ F \subseteq Head(local[s]).payload
        BY <1>0, <1>3, <3>1, BearsTail
      <3>3. ASSUME IsUpdate(Head(local[s])), F \subseteq Head(local[s]).payload
            PROVE  Goal
        <4>1. ForwardRegisterUpdate(s)
          BY <2>3, <3>3 DEF LocalStep, SCRequestFromBaseApp, SCStopFromBaseApp,
             LocalEvent, IsUpdate
        <4>2. /\ Head(local[s]) \in NetMessage
              /\ net'[s][t] = Append(net[s][t], Head(local[s]))
          BY <4>1, ForwardAppends
        <4>3. Bears(Append(net[s][t], Head(local[s])), F)
          BY <1>0, <3>3, <4>2, BearsAppend
        <4> QED BY <4>2, <4>3
      <3> QED BY <3>1, <3>2, <3>3
    <2> QED BY <2>1, <2>2, <2>3, LocalQueueStep
  <1>4. ASSUME NEW s \in Site \ {t}, Bears(out[s], F) PROVE Goal
    <2>1. CASE out'[s] = out[s]
      BY <1>4, <2>1
    <2>2. CASE \E m \in LocalMessage : out'[s] = Append(out[s], m)
      <3> PICK m \in LocalMessage : out'[s] = Append(out[s], m)
        BY <2>2
      <3>1. Bears(Append(out[s], m), F)
        BY <1>0, <1>4, BearsAppend
      <3> QED BY <3>1
    <2>3. CASE ListenLocalTorrentOutput(s)
      <3> DEFINE m == [Head(out[s]) EXCEPT !.stamp = clock[s]]
      <3>1. /\ out[s] # <<>> /\ out'[s] = Tail(out[s])
            /\ local'[s] = Append(local[s], m)
        BY <2>3 DEF ListenLocalTorrentOutput, TypeOK
      <3>2. \/ Bears(Tail(out[s]), F)
            \/ IsUpdate(Head(out[s])) /\ F \subseteq Head(out[s]).payload
        BY <1>0, <1>4, <3>1, BearsTail
      <3>3. Head(out[s]) \in LocalMessage /\ clock[s] \in Nat
        BY <1>0, <3>1, TailFacts DEF TypeOK
      <3>4. /\ m \in LocalMessage /\ m.payload = Head(out[s]).payload
            /\ m.type = Head(out[s]).type
        BY <3>3 DEF LocalMessage
      <3> HIDE DEF m
      <3>5. IsUpdate(Head(out[s])) /\ F \subseteq Head(out[s]).payload
               => Bears(local'[s], F)
        BY <1>0, <3>1, <3>4, BearsAppend DEF IsUpdate
      <3> QED BY <3>1, <3>2, <3>5
    <2> QED BY <2>1, <2>2, <2>3, OutStep
  <1> QED BY <1>1, <1>2, <1>3, <1>4 DEF Reaches

(* What is on its way, and what is known, are facts that tasks have        *)
(* recorded.                                                               *)
LEMMA FactsStep ==
    ASSUME TypeOK, FactsInv, Next PROVE FactsInv'
  <1>types. /\ reg \in [Site -> SUBSET Task] /\ SiteOf \in [Task -> Site]
            /\ pc \in [Task -> {"transfer", "waiting", "inCS", "published", "done"}]
            /\ \A s \in Site : /\ out[s] \in Seq(LocalMessage)
                               /\ local[s] \in Seq(LocalMessage)
            /\ \A s, t \in Site : net[s][t] \in Seq(NetMessage)
    BY TasksAssumption DEF TypeOK
  <1> DEFINE now == {a \in Task : pc'[a] # "transfer"}
  <1>0. /\ \A a \in Asked : a \in reg[SiteOf[a]]
        /\ \A s \in Site : /\ reg[s] \subseteq Asked
                           /\ Within(out[s], Asked) /\ Within(local[s], Asked)
        /\ \A s \in Site : \A t \in Site \ {s} : Within(net[s][t], Asked)
    BY DEF FactsInv
  <1>1. /\ Asked \subseteq now
        /\ \A a \in now : a \in Asked \/ Ask(a)
    <2>1. ASSUME NEW a \in Task, Ask(a) \/ TaskStep(a)
          PROVE  /\ Asked \subseteq now
                 /\ \A b \in now : b \in Asked \/ Ask(b)
      BY <2>1, <1>types DEF TaskStep, Ask, Grant, Publish, Finish, Asked
    <2>2. pc' = pc => now = Asked
      BY DEF Asked
    <2>3. ASSUME NEW u \in Site, \/ ListenUserUIInput(u) \/ ListenLocalTorrentOutput(u)
                                 \/ LocalStep(u)
          PROVE  pc' = pc
      BY <2>3 DEF ListenUserUIInput, ListenLocalTorrentOutput, LocalStep,
                  SCRequestFromBaseApp, SCStopFromBaseApp, ForwardRegisterUpdate
    <2>4. ASSUME NEW u \in Site, NEW v \in Site \ {u}, NetworkStep(u, v)
          PROVE  pc' = pc
      BY <2>4, NetworkStepGrants
    <2> QED BY <2>1, <2>2, <2>3, <2>4 DEF Next
  <1>2. ASSUME NEW a \in now PROVE a \in reg'[SiteOf[a]]
    <2>1. CASE a \in Asked
      <3>1. reg[SiteOf[a]] \subseteq reg'[SiteOf[a]]
        BY <1>types, RegStep
      <3> QED BY <1>0, <2>1, <3>1
    <2>2. CASE Ask(a)
      BY <1>types, <2>2 DEF Ask
    <2> QED BY <1>1, <2>1, <2>2
  <1> HIDE DEF now
  <1>out. ASSUME NEW s \in Site
          PROVE  /\ Within(out[s], now)
                 /\ out[s] # <<>> => Within(Tail(out[s]), now)
                                     /\ Head(out[s]).payload \subseteq now
                 /\ \A m \in LocalMessage :
                       m.payload \subseteq now => Within(Append(out[s], m), now)
    <2>1. Within(out[s], Asked) /\ out[s] \in Seq(LocalMessage)
      BY <1>0, <1>types
    <2> QED BY <2>1, <1>1, WithinFacts
  <1>local. ASSUME NEW s \in Site
            PROVE  /\ Within(local[s], now)
                   /\ local[s] # <<>> => Within(Tail(local[s]), now)
                                         /\ Head(local[s]).payload \subseteq now
                   /\ \A m \in LocalMessage :
                         m.payload \subseteq now => Within(Append(local[s], m), now)
    <2>1. Within(local[s], Asked) /\ local[s] \in Seq(LocalMessage)
      BY <1>0, <1>types
    <2> QED BY <2>1, <1>1, WithinFacts
  <1>net. ASSUME NEW s \in Site, NEW t \in Site \ {s}
          PROVE  /\ Within(net[s][t], now)
                 /\ net[s][t] # <<>> => Within(Tail(net[s][t]), now)
                                        /\ Head(net[s][t]).payload \subseteq now
                 /\ \A m \in NetMessage :
                       m.payload \subseteq now => Within(Append(net[s][t], m), now)
    <2>1. Within(net[s][t], Asked) /\ net[s][t] \in Seq(NetMessage)
      BY <1>0, <1>types
    <2> QED BY <2>1, <1>1, WithinFacts
  <1>3. ASSUME NEW t \in Site PROVE reg'[t] \subseteq now
    <2>1. \A s \in Site \ {t} : net[s][t] # <<>> => Head(net[s][t]).payload \subseteq now
      BY <1>net
    <2>2. \A a \in Task : pc'[a] # "transfer" => a \in now
      BY DEF now
    <2> QED BY <1>0, <1>1, <2>1, <2>2, RegStep
  <1>4. ASSUME NEW s \in Site PROVE Within(out'[s], now)
    <2>1. CASE out'[s] = out[s]
      BY <2>1, <1>out
    <2>2. CASE \E m \in LocalMessage :
                  out'[s] = Append(out[s], m) /\ m.payload \subseteq reg[s]
      <3> PICK m \in LocalMessage :
                  out'[s] = Append(out[s], m) /\ m.payload \subseteq reg[s]
        BY <2>2
      <3>1. m.payload \subseteq now
        BY <1>0, <1>1
      <3> QED BY <3>1, <1>out
    <2>3. CASE ListenLocalTorrentOutput(s)
      <3>1. out[s] # <<>> /\ out'[s] = Tail(out[s])
        BY <2>3 DEF ListenLocalTorrentOutput, TypeOK
      <3> QED BY <3>1, <1>out
    <2> QED BY <2>1, <2>2, <2>3, OutStep
  <1>5. ASSUME NEW s \in Site PROVE Within(local'[s], now)
    <2>1. CASE local'[s] = local[s]
      BY <2>1, <1>local
    <2>2. CASE \E m \in LocalMessage :
                 /\ local'[s] = Append(local[s], m)
                 /\ m.payload = {} \/ (ListenLocalTorrentOutput(s)
                                       /\ m.payload = Head(out[s]).payload)
      <3> PICK m \in LocalMessage :
                 /\ local'[s] = Append(local[s], m)
                 /\ m.payload = {} \/ (ListenLocalTorrentOutput(s)
                                       /\ m.payload = Head(out[s]).payload)
        BY <2>2
      <3>1. ListenLocalTorrentOutput(s) => out[s] # <<>>
        BY DEF ListenLocalTorrentOutput
      <3>2. out[s] # <<>> => Head(out[s]).payload \subseteq now
        BY <1>out
      <3>3. m.payload \subseteq now
        BY <3>1, <3>2
      <3> QED BY <3>3, <1>local
    <2>3. CASE LocalStep(s)
      <3>1. local[s] # <<>> /\ local'[s] = Tail(local[s])
        BY <2>3 DEF LocalStep, SCRequestFromBaseApp, SCStopFromBaseApp,
           ForwardRegisterUpdate, LocalEvent, TypeOK
      <3> QED BY <3>1, <1>local
    <2> QED BY <2>1, <2>2, <2>3, LocalQueueStep
  <1>6. ASSUME NEW s \in Site, NEW t \in Site \ {s} PROVE Within(net'[s][t], now)
    <2>0. PairStep(s, t)
      BY NextPairStep
    <2>1. CASE Keeps(s, t)
      BY <2>1, <1>net DEF Keeps
    <2>2. CASE Receives(s, t)
      BY <2>2, <1>net DEF Receives
    <2>3. CASE Posts(s, t) \/ Dates(s, t)
      <3>1. PICK m \in NetMessage :
              /\ net'[s][t] = Append(net[s][t], m)
              /\ \/ m.payload = {}
                 \/ local[s] # <<>> /\ m = Head(local[s])
        <4>1. \A type \in {"SC_REQUEST", "SC_LIBERATION"} :
                  /\ Msg(type, clock'[s], {}) \in NetMessage
                  /\ Msg(type, clock'[s], {}).payload = {}
          BY NextType DEF TypeOK, Msg, NetMessage, QueueMessage
        <4>2. ForwardRegisterUpdate(s) => local[s] # <<>>
          BY DEF ForwardRegisterUpdate, LocalEvent
        <4>3. CASE Posts(s, t)
          BY <4>2, <4>3 DEF Posts
        <4>4. CASE Dates(s, t)
          BY <4>1, <4>4 DEF Dates
        <4> QED BY <2>3, <4>3, <4>4
      <3>2. local[s] # <<>> => Head(local[s]).payload \subseteq now
        BY <1>local
      <3>3. m.payload \subseteq now
        BY <3>1, <3>2
      <3> QED BY <3>1, <3>3, <1>net
    <2> QED BY <2>0, <2>1, <2>2, <2>3 DEF PairStep
  <1> QED BY <1>2, <1>3, <1>4, <1>5, <1>6 DEF FactsInv, Asked, now

-----------------------------------------------------------------------------
(* The theorems. *)

(* A publication is on its way to every other site. *)
LEMMA PublishReaches ==
    ASSUME TypeOK, NEW a \in Task, Publish(a), NEW F, F \subseteq reg[SiteOf[a]],
           NEW t \in Site
    PROVE  \/ F \subseteq reg'[t]
           \/ \E s \in Site \ {t} :
                 Bears(out'[s], F) \/ Bears(local'[s], F) \/ Bears(net'[s][t], F)
  <1> DEFINE s == SiteOf[a]
             m == Msg("RegisterUpdate", 0, reg[s])
  <1>1. /\ s \in Site /\ out[s] \in Seq(LocalMessage) /\ reg' = reg
        /\ out'[s] = Append(out[s], m)
    BY TasksAssumption DEF Publish, TypeOK
  <1>2. m \in LocalMessage /\ IsUpdate(m) /\ m.payload = reg[s]
    BY <1>1 DEF Msg, LocalMessage, IsUpdate, TypeOK
  <1> HIDE DEF m
  <1>3. Bears(out'[s], F)
    BY <1>1, <1>2, BearsAppend
  <1> QED BY <1>1, <1>3

LEMMA PublishedStep ==
    ASSUME TypeOK, PublishedReaches, Next PROVE PublishedReaches'
  <1> SUFFICES ASSUME NEW t \in Site
               PROVE  \/ published' \subseteq reg'[t]
                      \/ \E s \in Site \ {t} : \/ Bears(out'[s], published')
                                               \/ Bears(local'[s], published')
                                               \/ Bears(net'[s][t], published')
    BY DEF PublishedReaches, Reaches
  <1>1. CASE \E a \in Task : Publish(a)
    <2> PICK a \in Task : Publish(a)
      BY <1>1
    <2>1. published' = reg[SiteOf[a]]
      BY DEF Publish
    <2> QED BY <2>1, PublishReaches
  <1>2. CASE ~ \E a \in Task : Publish(a)
    <2>1. published' = published
      <3>1. ASSUME NEW u \in Site, NEW v \in Site \ {u}, NetworkStep(u, v)
            PROVE  published' = published
        BY <3>1 DEF NetworkStep, SCRequestFromNetwork, SCStopFromNetwork,
           AckFromNetwork, HandleRegisterUpdate, HandleDistributedFile
      <3> QED BY <1>2, <3>1 DEF Next, TaskStep, Ask, Grant, Finish, ListenUserUIInput,
              ListenLocalTorrentOutput, LocalStep, SCRequestFromBaseApp,
              SCStopFromBaseApp, ForwardRegisterUpdate
    <2>2. Reaches(published, t)
      BY DEF PublishedReaches
    <2> QED BY <2>1, <2>2, ReachesStep
  <1> QED BY <1>1, <1>2

LEMMA FactsAlways == Spec => [](TypeOK /\ FactsInv /\ PublishedReaches)
  <1>1. Init => FactsInv /\ PublishedReaches
    BY DEF Init, FactsInv, PublishedReaches, Asked, Within, Reaches
  <1>2. TypeOK /\ FactsInv /\ PublishedReaches /\ [Next]_vars
           => FactsInv' /\ PublishedReaches'
    <2>1. ASSUME FactsInv, PublishedReaches, UNCHANGED vars
          PROVE  FactsInv' /\ PublishedReaches'
      BY <2>1 DEF FactsInv, PublishedReaches, Asked, Reaches, vars
    <2> QED BY <2>1, FactsStep, PublishedStep
  <1> QED BY <1>1, <1>2, TypeCorrect, PTL DEF Spec

(* A fact is known to a site, or its task has yet to publish, or an update *)
(* that holds it is queued for that site: nothing is ever dropped, whoever *)
(* asks for the section.                                                   *)
THEOREM FactsAreKept == Spec => []NoFactLost
  <1> DEFINE Kept == \A a \in Task, t \in Site :
               pc[a] \in {"transfer", "waiting", "inCS"} \/ Reaches({a}, t)
  <1>1. Init => Kept
    BY DEF Init
  <1>2. TypeOK /\ FactsInv /\ Kept /\ [Next]_vars => Kept'
    <2> SUFFICES ASSUME TypeOK, FactsInv, Kept, [Next]_vars, NEW a \in Task,
                        NEW t \in Site, pc'[a] \notin {"transfer", "waiting", "inCS"}
                 PROVE  \/ {a} \subseteq reg'[t]
                        \/ \E s \in Site \ {t} : \/ Bears(out'[s], {a})
                                                 \/ Bears(local'[s], {a})
                                                 \/ Bears(net'[s][t], {a})
      BY DEF Reaches
    <2>1. CASE UNCHANGED vars
      BY <2>1 DEF vars, Reaches
    <2>2. CASE Next /\ pc[a] \notin {"transfer", "waiting", "inCS"}
      BY <2>2, ReachesStep
    <2>3. CASE Next /\ pc[a] \in {"transfer", "waiting", "inCS"}
      <3>1. Publish(a)
        <4>1. pc \in [Task -> {"transfer", "waiting", "inCS", "published", "done"}]
          BY DEF TypeOK
        <4>2. ASSUME NEW b \in Task, Ask(b) \/ TaskStep(b) PROVE Publish(a)
          BY <2>3, <4>1, <4>2 DEF Ask, TaskStep, Grant, Publish, Finish
        <4>3. pc' # pc
          BY <2>3
        <4>4. ASSUME NEW u \in Site, \/ ListenUserUIInput(u)
                                     \/ ListenLocalTorrentOutput(u) \/ LocalStep(u)
              PROVE  FALSE
          BY <4>3, <4>4 DEF ListenUserUIInput, ListenLocalTorrentOutput, LocalStep,
             SCRequestFromBaseApp, SCStopFromBaseApp, ForwardRegisterUpdate
        <4>5. ASSUME NEW u \in Site, NEW v \in Site \ {u}, NetworkStep(u, v) PROVE FALSE
          BY <4>3, <4>5, NetworkStepGrants
        <4> QED BY <2>3, <4>2, <4>4, <4>5 DEF Next
      <3>2. {a} \subseteq reg[SiteOf[a]]
        BY <3>1 DEF FactsInv, Asked, Publish
      <3> QED BY <3>1, <3>2, PublishReaches
    <2> QED BY <2>1, <2>2, <2>3
  <1>3. TypeOK /\ Kept => NoFactLost
    <2> SUFFICES ASSUME TypeOK, Kept, NEW a \in Task, NEW t \in Site, Reaches({a}, t)
                 PROVE  a \in reg[t] \/ \E s \in Site : \/ Carries(out[s], a)
                                                        \/ Carries(local[s], a)
                                                        \/ Carries(net[s][t], a)
      BY DEF NoFactLost
    <2>1. ASSUME NEW S, NEW q \in Seq(S), Bears(q, {a}) PROVE Carries(q, a)
      <3>1. DOMAIN q = 1 .. Len(q)
        OBVIOUS
      <3> QED BY <2>1, <3>1 DEF Bears, Carries
    <2>2. \A s \in Site : /\ out[s] \in Seq(LocalMessage)
                          /\ local[s] \in Seq(LocalMessage)
                          /\ net[s][t] \in Seq(NetMessage)
      BY DEF TypeOK
    <2>3. CASE {a} \subseteq reg[t]
      BY <2>3
    <2>4. ASSUME NEW s \in Site \ {t}, \/ Bears(out[s], {a})
                                      \/ Bears(local[s], {a})
                                      \/ Bears(net[s][t], {a})
          PROVE  Carries(out[s], a) \/ Carries(local[s], a) \/ Carries(net[s][t], a)
      BY <2>1, <2>2, <2>4
    <2> QED BY <2>3, <2>4 DEF Reaches
  <1> QED BY <1>1, <1>2, <1>3, FactsAlways, PTL DEF Spec

(* With one user of the section per site, updates travel under the request *)
(* of the site that published them.                                        *)
LEMMA SectionAlways == ASSUME OneUserPerSite PROVE Spec => []SectionInv
  <1>1. Init => SectionInv
    <2> SUFFICES ASSUME Init PROVE SectionInv
      OBVIOUS
    <2>1. \A s \in Site : /\ out[s] = <<>> /\ local[s] = <<>>
                          /\ \A t \in Site : net[s][t] = <<>>
      BY DEF Init
    <2>2. \A i \in 1 .. Len(<<>>) : FALSE
      OBVIOUS
    <2>3. \A s \in Site : Unforwarded(s)
      BY <2>1, <2>2 DEF Unforwarded, UpdatesFirst, HasUpdate
    <2>4. \A s \in Site : \A t \in Site \ {s} : Barred(s, t)
      BY <2>1, <2>2 DEF Barred
    <2> QED BY <2>3, <2>4 DEF SectionInv
  <1>2. TypeOK /\ Pairs /\ Control /\ SectionInv /\ [Next]_vars => SectionInv'
    <2>1. ASSUME TypeOK, Pairs, Control, SectionInv, Next PROVE SectionInv'
      <3>1. \A s \in Site : Unforwarded(s)'
        BY <2>1, UnforwardedStep DEF SectionInv
      <3>2. \A s \in Site : \A t \in Site \ {s} : Barred(s, t)'
        BY <2>1, BarredStep DEF SectionInv
      <3> QED BY <3>1, <3>2 DEF SectionInv
    <2>2. ASSUME SectionInv, UNCHANGED vars PROVE SectionInv'
      <3>1. UNCHANGED <<clock, tab, net, out, local, uiLeft>>
        BY <2>2 DEF vars
      <3>2. \A s \in Site : Granted(s)' = Granted(s)
        BY <3>1 DEF Granted
      <3>3. \A s \in Site : Unforwarded(s)'
        BY <2>2, <3>1, <3>2 DEF SectionInv, Unforwarded
      <3>4. \A s \in Site : \A t \in Site \ {s} : Barred(s, t)'
        BY <2>2, <3>1 DEF SectionInv, Barred
      <3> QED BY <3>3, <3>4 DEF SectionInv
    <2> QED BY <2>1, <2>2
  <1> QED BY <1>1, <1>2, PairsInvariant, ControlInvariant, PTL DEF Spec

(* With one user of the section per site: whoever enters the section finds *)
(* in the register of its site all that was published before.              *)
THEOREM EntrySeesAll == ASSUME OneUserPerSite PROVE Spec => []EntrySeesPublished
  <1>1. TypeOK /\ Pairs /\ Control /\ SectionInv /\ PublishedReaches
           => EntrySeesPublished
    <2> SUFFICES ASSUME TypeOK, Pairs, Control, SectionInv, PublishedReaches,
                        NEW a \in Task, pc[a] = "inCS"
                 PROVE  published \subseteq reg[SiteOf[a]]
      BY DEF EntrySeesPublished
    <2> DEFINE t == SiteOf[a]
    <2>1. t \in Site /\ Granted(t)
      BY TasksAssumption DEF Control, TaskInv
    <2> HIDE DEF t
    <2>2. ASSUME NEW s \in Site \ {t}, \/ Bears(out[s], published)
                                      \/ Bears(local[s], published)
          PROVE  FALSE
      <3>1. HasUpdate(out[s]) \/ HasUpdate(local[s])
        BY <2>2 DEF Bears, HasUpdate
      <3>2. Granted(s)
        BY <3>1 DEF SectionInv, Unforwarded
      <3> QED BY <2>1, <3>2, PairsExclude DEF GrantExclusion
    <2>3. ASSUME NEW s \in Site \ {t}, Bears(net[s][t], published) PROVE FALSE
      <3>1. PICK k \in 1 .. Len(net[s][t]) : IsUpdate(net[s][t][k])
        BY <2>3 DEF Bears
      <3>2. Barred(s, t)
        BY <2>1 DEF SectionInv
      <3> QED BY <2>1, <3>1, <3>2, BarredNotGranted
    <2> QED BY <2>1, <2>2, <2>3 DEF PublishedReaches, Reaches, t
  <1> QED BY <1>1, PairsInvariant, ControlInvariant, SectionAlways, FactsAlways, PTL

(* With one user of the section per site, the sites implement the single   *)
(* register of SharedRegister: one publication at a time, and none of them *)
(* loses what an earlier one said.                                         *)
THEOREM ImplementsSharedRegister ==
    ASSUME OneUserPerSite PROVE Spec => RefinesSharedRegister
  <1>1. Init => Register!Init
    BY DEF Init, Register!Init
  <1>2. TypeOK /\ FactsInv /\ EntrySeesPublished /\ Mutex' /\ [Next]_vars
           => [Register!Next]_<<pc, published>>
    <2> SUFFICES ASSUME TypeOK, FactsInv, EntrySeesPublished, Mutex', [Next]_vars
                 PROVE  Register!Next \/ UNCHANGED <<pc, published>>
      OBVIOUS
    <2>1. ASSUME NEW a \in Task, Ask(a) PROVE Register!Request(a)
      BY <2>1 DEF Ask, Register!Request
    <2>2. ASSUME NEW a \in Task, Grant(a) PROVE Register!Enter(a)
      <3>1. /\ pc[a] = "waiting" /\ pc' = [pc EXCEPT ![a] = "inCS"]
            /\ published' = published
        BY <2>2 DEF Grant
      <3>2. ASSUME NEW b \in Task, pc[b] \in {"inCS", "published"} PROVE FALSE
        <4>1. b # a /\ pc'[a] = "inCS" /\ pc'[b] = pc[b]
          BY <3>1, <3>2 DEF TypeOK
        <4> QED BY <3>2, <4>1 DEF Mutex, Critical
      <3> QED BY <3>1, <3>2 DEF Register!Enter, Register!Critical
    <2>3. ASSUME NEW a \in Task, Publish(a) PROVE Register!Write(a)
      <3> DEFINE content == reg[SiteOf[a]]
      <3>1. /\ pc[a] = "inCS" /\ pc' = [pc EXCEPT ![a] = "published"]
            /\ published' = content
        BY <2>3 DEF Publish
      <3>2. SiteOf[a] \in Site
        BY TasksAssumption
      <3>3. content \subseteq {b \in Task : pc[b] # "transfer"}
        BY <3>2 DEF FactsInv, Asked
      <3>4. published \cup {a} \subseteq content
        BY <3>1 DEF EntrySeesPublished, FactsInv, Asked
      <3> HIDE DEF content
      <3> QED BY <3>1, <3>3, <3>4 DEF Register!Write
    <2>4. ASSUME NEW a \in Task, Finish(a) PROVE Register!Leave(a)
      BY <2>4 DEF Finish, Register!Leave
    <2>5. ASSUME NEW s \in Site, \/ ListenUserUIInput(s)
                                 \/ ListenLocalTorrentOutput(s) \/ LocalStep(s)
          PROVE  UNCHANGED <<pc, published>>
      BY <2>5 DEF ListenUserUIInput, ListenLocalTorrentOutput, LocalStep,
         SCRequestFromBaseApp, SCStopFromBaseApp, ForwardRegisterUpdate
    <2>6. ASSUME NEW s \in Site, NEW t \in Site \ {s}, NetworkStep(s, t)
          PROVE  UNCHANGED <<pc, published>>
      BY <2>6 DEF NetworkStep, SCRequestFromNetwork, SCStopFromNetwork,
         AckFromNetwork, HandleRegisterUpdate, HandleDistributedFile
    <2>7. CASE UNCHANGED vars
      BY <2>7 DEF vars
    <2> QED BY <2>1, <2>2, <2>3, <2>4, <2>5, <2>6, <2>7 DEF Next, TaskStep, Register!Next
  <1> QED BY <1>1, <1>2, FactsAlways, EntrySeesAll, MutualExclusion, PTL
          DEF Spec, RefinesSharedRegister, Register!Spec
=============================================================================
