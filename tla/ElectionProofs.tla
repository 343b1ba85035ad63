--------------------------- MODULE ElectionProofs ---------------------------
(***************************************************************************)
(* What is proved of the elections of election.go: the types in every      *)
(* network, and, when the network is a tree whose users only start an      *)
(* election while their site has not heard of another one, that whoever is *)
(* elected has been followed by all, that it is the smallest of those who  *)
(* stood, and that nobody is elected beside it.                            *)
(*                                                                         *)
(* The restrictions are those of EarlySpec: without them there may be two  *)
(* holders, and in a network with a cycle even with them.                  *)
(***************************************************************************)
EXTENDS Election, LinksProofs

-----------------------------------------------------------------------------
(* The types, in every network. *)

(* Who follows nobody has forgotten all, who follows somebody has a parent. *)
Whole(s) ==
    /\ election[s].elu = NoSite => election[s] = None
    /\ election[s].elu \in Site => election[s].parent \in Site
(* A wave goes over one link, an echo is meant for one site, and who is *)
(* elected tells everybody.                                             *)
Addressed(m) ==
    /\ m.body.action = "WAVE_ELECTION" => m.dest = BROADCAST_NEIGHBORS
    /\ m.body.action = "ECHO_ELECTION" => m.dest \in Site
    /\ m.body.action = "ELECTED" => m.dest = BROADCAST
AllAddressed == \A u, v \in Site : \A k \in Places(u, v) : Addressed(link[u][v][k])
Types ==
    /\ LinksTypeOK(ElectionBody) /\ LinksInv /\ AllAddressed /\ ElectionTypeOK
    /\ tee = Neighbours /\ nb = [s \in Site |-> Cardinality(Neighbours[s])]
    /\ \A s \in Site : Whole(s)

(* The messages that the handlers write. *)
Own(t, dest, action, elu, parent) ==
    [id |-> <<t, sent[t] + 1>>, sender |-> t, dest |-> dest,
     body |-> [action |-> action, elu |-> elu, parent |-> parent]]
WaveOf(t, c, parent) == Own(t, BROADCAST_NEIGHBORS, "WAVE_ELECTION", c, parent)
EchoOf(t, c, dest) == Own(t, dest, "ECHO_ELECTION", c, NoSite)
ElectedOf(t) == Own(t, BROADCAST, "ELECTED", t, NoSite)

LEMMA DegreeFacts ==
    ASSUME Types, NEW s \in Site
    PROVE  /\ IsFiniteSet(Neighbours[s]) /\ nb[s] = Cardinality(Neighbours[s])
           /\ nb[s] \in Nat
  <1>1. Neighbours[s] \subseteq Site
    BY NeighboursAssumption
  <1>2. IsFiniteSet(Neighbours[s])
    BY <1>1, SiteFinite, FS_Subset
  <1>3. nb[s] = Cardinality(Neighbours[s])
    BY DEF Types
  <1> QED BY <1>2, <1>3, FS_CardinalityType

(* The messages that a site writes are messages. *)
LEMMA WrittenIsMessage ==
    ASSUME LinksTypeOK(ElectionBody), NEW t \in Site, NEW c \in Site,
           NEW parent \in Site, NEW dest \in Site
    PROVE  /\ WaveOf(t, c, parent) \in Message(ElectionBody)
           /\ EchoOf(t, c, dest) \in Message(ElectionBody)
           /\ ElectedOf(t) \in Message(ElectionBody)
           /\ Addressed(WaveOf(t, c, parent)) /\ Addressed(EchoOf(t, c, dest))
           /\ Addressed(ElectedOf(t))
  <1>1. <<t, sent[t] + 1>> \in Ids
    <2>1. sent[t] \in Nat
      BY DEF LinksTypeOK
    <2> QED BY <2>1 DEF Ids
  <1>2. /\ Addressed(WaveOf(t, c, parent)) /\ Addressed(EchoOf(t, c, dest))
        /\ Addressed(ElectedOf(t))
    BY DEF Addressed, WaveOf, EchoOf, ElectedOf, Own
  <1>3. WaveOf(t, c, parent) \in Message(ElectionBody)
    BY <1>1 DEF WaveOf, Own, Message, ElectionBody
  <1>4. EchoOf(t, c, dest) \in Message(ElectionBody)
    BY <1>1 DEF EchoOf, Own, Message, ElectionBody
  <1>5. ElectedOf(t) \in Message(ElectionBody)
    BY <1>1 DEF ElectedOf, Own, Message, ElectionBody
  <1> QED BY <1>2, <1>3, <1>4, <1>5

(* What t takes is a message that a site has sent. *)
LEMMA TakenFacts ==
    ASSUME Types, NEW s \in Site, NEW t \in Site, link[s][t] # <<>>,
           NEW m, m = FirstOf(s, t)
    PROVE  /\ 1 \in Places(s, t) /\ m = link[s][t][1] /\ m \in Message(ElectionBody)
           /\ m.body \in ElectionBody /\ m.body.elu \in Site /\ m.sender \in Site
           /\ CarriedWell(s, t, m) /\ s \in Neighbours[t] /\ t \in Neighbours[s]
           /\ Addressed(m)
           /\ m.body.action = "WAVE_ELECTION" => m.sender = s
  <1>1. link[s][t] \in Seq(Message(ElectionBody))
    BY DEF Types, LinksTypeOK
  <1>2. m = link[s][t][1]
    BY <1>1 DEF FirstOf
  <1>3. 1 \in Places(s, t) /\ m \in Message(ElectionBody) /\ CarriedWell(s, t, m)
    BY <1>2, FirstFacts DEF Types
  <1>4. m.body \in ElectionBody /\ m.body.elu \in Site
    BY <1>3 DEF Message, ElectionBody
  <1>5. Addressed(m)
    BY <1>2, <1>3 DEF Types, AllAddressed
  <1>6. s \in Neighbours[t] /\ t \in Neighbours[s] /\ m.sender \in Site
    BY <1>3, NeighboursAssumption DEF CarriedWell, Drawn, Ids
  <1>7. m.body.action = "WAVE_ELECTION" => m.sender = s
    BY <1>3, <1>5 DEF CarriedWell, Addressed
  <1> QED BY <1>2, <1>3, <1>4, <1>5, <1>6, <1>7

(* What t receives is meant for t; a wave or an echo goes no further. *)
LEMMA ReceivedFacts ==
    ASSUME Types, NEW s \in Site, NEW t \in Site, Receives(s, t),
           NEW m, m = FirstOf(s, t)
    PROVE  /\ link[s][t] # <<>> /\ m.id \notin seen[t] /\ m.sender # t
           /\ m.body.action = "ECHO_ELECTION" => m.dest = t
           /\ m.body.action # "ELECTED" => ~Forwards(t, m) /\ Again(s, t) = {}
  <1>1. link[s][t] # <<>> /\ IsNew(t, m) /\ Processes(t, m)
    BY DEF Receives
  <1>2. m.body \in ElectionBody /\ Addressed(m)
    BY <1>1, TakenFacts
  <1>3. m.body.action \in {"WAVE_ELECTION", "ECHO_ELECTION", "ELECTED"}
    BY <1>2 DEF ElectionBody
  <1>4. BROADCAST \notin Site /\ BROADCAST_NEIGHBORS \notin Site
    BY SiteAssumption DEF BROADCAST, BROADCAST_NEIGHBORS
  <1>5. m.body.action = "ECHO_ELECTION" => m.dest = t
    BY <1>1, <1>2, <1>4 DEF Addressed, Processes
  <1>6. m.body.action # "ELECTED" => ~Forwards(t, m)
    BY <1>2, <1>3, <1>5 DEF Addressed, Forwards
  <1>7. m.id \notin seen[t] /\ m.sender # t
    BY <1>1 DEF IsNew, Id, Processes
  <1> QED BY <1>1, <1>5, <1>6, <1>7 DEF Again

(* t answers nothing, or one letter. *)
LEMMA SilentStep ==
    ASSUME Types, NEW s \in Site, NEW t \in Site, link[s][t] # <<>>,
           TakeTo(s, t, tee[t], <<>>)
    PROVE  LinksTypeOK(ElectionBody)' /\ Taking(s, t, Again(s, t))
  <1>1. TakeTo(s, t, Neighbours[t], <<>>)
    BY DEF Types
  <1> QED BY <1>1, TakeSilent DEF Types

LEMMA AnswerStep ==
    ASSUME Types, NEW s \in Site, NEW t \in Site, Receives(s, t),
           FirstOf(s, t).body.action # "ELECTED",
           NEW dest, NEW action, NEW elu, NEW parent,
           Own(t, dest, action, elu, parent) \in Message(ElectionBody),
           TakeTo(s, t, tee[t],
               <<Letter(dest, [action |-> action, elu |-> elu, parent |-> parent])>>)
    PROVE  /\ LinksTypeOK(ElectionBody)'
           /\ Taking(s, t, {Own(t, dest, action, elu, parent)})
  <1> DEFINE body == [action |-> action, elu |-> elu, parent |-> parent]
  <1>1. link[s][t] # <<>> /\ ~Forwards(t, FirstOf(s, t))
    BY ReceivedFacts
  <1>2. TakeTo(s, t, Neighbours[t], <<Letter(dest, body)>>)
    BY DEF Types
  <1>3. Own(t, dest, action, elu, parent) =
           [id |-> <<t, sent[t] + 1>>, sender |-> t, dest |-> dest, body |-> body]
    BY DEF Own
  <1> HIDE DEF body
  <1> QED BY <1>1, <1>2, <1>3, TakeAnswer DEF Types

(* What a handler does to the state of t, and what it leaves alone. *)
States == [elu : Site \cup {NoSite}, parent : Site \cup {NoSite}, pending : Int]
Becomes(t, g) == election' = [election EXCEPT ![t] = g]
Counted(e) == [e EXCEPT !.pending = @ - 1]
Frame == nb' = nb /\ tee' = tee /\ goal' = goal /\ clicksLeft' = clicksLeft

LEMMA BecomesFacts ==
    ASSUME Types, NEW t \in Site, NEW g \in States, Becomes(t, g)
    PROVE  /\ election' \in [Site -> States] /\ election'[t] = g
           /\ \A u \in Site : u # t => election'[u] = election[u]
  <1>1. election \in [Site -> States]
    BY DEF Types, ElectionTypeOK, States
  <1> QED BY <1>1 DEF Becomes

LEMMA CountedFacts ==
    ASSUME NEW e \in States
    PROVE  /\ Counted(e) \in States /\ Counted(e).elu = e.elu
           /\ Counted(e).parent = e.parent /\ Counted(e).pending = e.pending - 1
  BY DEF Counted, States

LEMMA StateFacts ==
    ASSUME NEW elu \in Site \cup {NoSite}, NEW parent \in Site \cup {NoSite},
           NEW pending \in Int
    PROVE  /\ ElectionState(elu, parent, pending) \in States /\ None \in States
           /\ ElectionState(elu, parent, pending).elu = elu
           /\ ElectionState(elu, parent, pending).parent = parent
           /\ ElectionState(elu, parent, pending).pending = pending
           /\ None.elu = NoSite /\ None.parent = NoSite /\ None.pending = 0
  BY DEF ElectionState, None, States

(* Who follows somebody knows its parent. *)
LEMMA FollowsFacts ==
    ASSUME Types, NEW t \in Site
    PROVE  /\ election[t] \in States /\ NoSite \notin Site
           /\ election[t] # None <=> election[t].elu \in Site
           /\ election[t] # None => election[t].parent \in Site
  <1>1. election[t] \in States /\ Whole(t)
    BY DEF Types, ElectionTypeOK, States
  <1>2. NoSite \notin Site
    BY SiteAssumption DEF NoSite
  <1>3. election[t].elu = NoSite \/ election[t].elu \in Site
    BY <1>1 DEF States
  <1>4. None.elu = NoSite
    BY DEF None
  <1> QED BY <1>1, <1>2, <1>3, <1>4 DEF Whole

(* A click, and the handler of each message: m is taken from s.            *)
ClickDoes(s) ==
    /\ clicksLeft[s] > 0 /\ clicksLeft' = [clicksLeft EXCEPT ![s] = @ - 1]
    /\ electedID' = electedID /\ nb' = nb /\ tee' = tee
    /\ LinksTypeOK(ElectionBody)'
    /\ \/ /\ MayStand(s) /\ Becomes(s, ElectionState(s, s, nb[s]))
          /\ goal' = [goal EXCEPT ![s] = ""] /\ Sending(s, WaveOf(s, s, s))
       \/ ~MayStand(s) /\ UNCHANGED <<linkVars, electionVars>>
AdoptDoes(s, t, m) ==
    /\ Receives(s, t) /\ m.body.action = "WAVE_ELECTION" /\ Better(t, m.body.elu)
    /\ Becomes(t, ElectionState(m.body.elu, s, nb[t] - 1))
    /\ electedID' = electedID /\ Frame /\ LinksTypeOK(ElectionBody)'
    /\ \/ nb[t] = 1 /\ Taking(s, t, {EchoOf(t, m.body.elu, s)})
       \/ nb[t] # 1 /\ Taking(s, t, {WaveOf(t, m.body.elu, s)})
IgnoreDoes(s, t, m) ==
    /\ Receives(s, t) /\ m.body.action # "ELECTED"
    /\ m.body.action = "ECHO_ELECTION" => election[t].elu # m.body.elu
    /\ election' = election /\ electedID' = electedID /\ Frame
    /\ LinksTypeOK(ElectionBody)' /\ Taking(s, t, {})
CountWaveDoes(s, t, m) ==
    /\ Receives(s, t) /\ m.body.action = "WAVE_ELECTION"
    /\ election[t].elu = m.body.elu /\ m.body.parent # t
    /\ Becomes(t, Counted(election[t]))
    /\ electedID' = electedID /\ Frame /\ LinksTypeOK(ElectionBody)'
    /\ \/ Taking(s, t, {})
       \/ Taking(s, t, {EchoOf(t, m.body.elu, election[t].parent)})
EchoDoes(s, t, m) ==
    /\ Receives(s, t) /\ m.body.action = "ECHO_ELECTION"
    /\ election[t].elu = m.body.elu
    /\ Becomes(t, Counted(election[t])) /\ Frame /\ LinksTypeOK(ElectionBody)'
AnswerDoes(s, t, m) ==
    /\ EchoDoes(s, t, m) /\ electedID' = electedID
    /\ \/ election[t].pending > 1 /\ Taking(s, t, {})
       \/ /\ election[t].pending <= 1 /\ election[t].elu # t
          /\ Taking(s, t, {EchoOf(t, m.body.elu, election[t].parent)})
WinDoes(s, t, m) ==
    /\ EchoDoes(s, t, m) /\ election[t].pending <= 1 /\ election[t].elu = t
    /\ electedID' = [electedID EXCEPT ![t] = t]
    /\ Taking(s, t, {ElectedOf(t)})
ElectedDoes(s, t, m) ==
    /\ Receives(s, t) /\ m.body.action = "ELECTED" /\ Becomes(t, None)
    /\ electedID' = [electedID EXCEPT ![t] = m.sender]
    /\ Frame /\ LinksTypeOK(ElectionBody)' /\ Taking(s, t, Again(s, t))
PassDoes(s, t, m) ==
    /\ link[s][t] # <<>> /\ ~(IsNew(t, m) /\ Processes(t, m))
    /\ election' = election /\ electedID' = electedID
    /\ Frame /\ LinksTypeOK(ElectionBody)' /\ Taking(s, t, Again(s, t))


LEMMA ClickFacts ==
    ASSUME Types, NEW s \in Site, UserStartsElection(s)
    PROVE  ClickDoes(s)
  <1>1. /\ clicksLeft[s] > 0 /\ clicksLeft' = [clicksLeft EXCEPT ![s] = @ - 1]
        /\ nb' = nb /\ tee' = tee
    BY DEF UserStartsElection
  <1>2. CASE /\ MayStand(s) /\ Stand(s, "")
             /\ OriginateTo(s, tee[s], <<BuildElectionWave(s, s)>>)
    <2> DEFINE body == [action |-> "WAVE_ELECTION", elu |-> s, parent |-> s]
    <2>1. WaveOf(s, s, s) \in Message(ElectionBody)
      BY WrittenIsMessage DEF Types
    <2>2. OriginateTo(s, Neighbours[s], <<Letter(BROADCAST_NEIGHBORS, body)>>)
      BY <1>2 DEF Types, BuildElectionWave
    <2>3. WaveOf(s, s, s) = [id |-> <<s, sent[s] + 1>>, sender |-> s,
                             dest |-> BROADCAST_NEIGHBORS, body |-> body]
      BY DEF WaveOf, Own
    <2> HIDE DEF body
    <2>4. LinksTypeOK(ElectionBody)' /\ Sending(s, WaveOf(s, s, s))
      BY <2>1, <2>2, <2>3, OriginateIsSending DEF Types
    <2> QED BY <1>1, <1>2, <2>4 DEF ClickDoes, Stand, Becomes
  <1>3. CASE ~MayStand(s) /\ UNCHANGED <<linkVars, electionVars>>
    <2>1. LinksTypeOK(ElectionBody)'
      BY <1>3 DEF linkVars, Types, LinksTypeOK
    <2>2. electedID' = electedID
      BY <1>3 DEF electionVars
    <2> QED BY <1>1, <1>3, <2>1, <2>2 DEF ClickDoes
  <1> QED BY <1>2, <1>3 DEF UserStartsElection

LEMMA AdoptFacts ==
    ASSUME Types, NEW s \in Site, NEW t \in Site, AdoptWave(s, t),
           NEW m, m = FirstOf(s, t)
    PROVE  AdoptDoes(s, t, m)
  <1> PICK c : c = m.body.elu
    OBVIOUS
  <1>1. /\ Receives(s, t) /\ m.body.action = "WAVE_ELECTION" /\ Better(t, c)
        /\ Becomes(t, ElectionState(c, m.sender, nb[t] - 1))
        /\ electedID' = electedID /\ Frame
        /\ TakeTo(s, t, tee[t], <<IF nb[t] = 1 THEN BuildElectionEcho(c, m.sender)
                                  ELSE BuildElectionWave(c, m.sender)>>)
    BY DEF AdoptWave, Gets, Becomes, Frame
  <1>2. m.sender = s /\ c \in Site
    BY <1>1, ReceivedFacts, TakenFacts
  <1>3. CASE nb[t] = 1
    <2>1. TakeTo(s, t, tee[t],
              <<Letter(s, [action |-> "ECHO_ELECTION", elu |-> c, parent |-> NoSite])>>)
      BY <1>1, <1>2, <1>3 DEF BuildElectionEcho
    <2>2. EchoOf(t, c, s) \in Message(ElectionBody)
      BY <1>2, WrittenIsMessage DEF Types
    <2>3. LinksTypeOK(ElectionBody)' /\ Taking(s, t, {EchoOf(t, c, s)})
      BY <1>1, <2>1, <2>2, AnswerStep DEF EchoOf
    <2> QED BY <1>1, <1>2, <1>3, <2>3 DEF AdoptDoes
  <1>4. CASE nb[t] # 1
    <2>1. TakeTo(s, t, tee[t],
              <<Letter(BROADCAST_NEIGHBORS,
                       [action |-> "WAVE_ELECTION", elu |-> c, parent |-> s])>>)
      BY <1>1, <1>2, <1>4 DEF BuildElectionWave
    <2>2. WaveOf(t, c, s) \in Message(ElectionBody)
      BY <1>2, WrittenIsMessage DEF Types
    <2>3. LinksTypeOK(ElectionBody)' /\ Taking(s, t, {WaveOf(t, c, s)})
      BY <1>1, <2>1, <2>2, AnswerStep DEF WaveOf
    <2> QED BY <1>1, <1>2, <1>4, <2>3 DEF AdoptDoes
  <1> QED BY <1>3, <1>4

LEMMA IgnoreWaveFacts ==
    ASSUME Types, NEW s \in Site, NEW t \in Site, IgnoreWave(s, t),
           NEW m, m = FirstOf(s, t)
    PROVE  IgnoreDoes(s, t, m)
  <1>1. /\ Receives(s, t) /\ m.body.action = "WAVE_ELECTION"
        /\ TakeTo(s, t, tee[t], <<>>) /\ election' = election /\ electedID' = electedID
        /\ Frame
    BY DEF IgnoreWave, Gets, electionVars, Frame
  <1>2. LinksTypeOK(ElectionBody)' /\ Taking(s, t, Again(s, t)) /\ Again(s, t) = {}
    BY <1>1, ReceivedFacts, SilentStep
  <1> QED BY <1>1, <1>2 DEF IgnoreDoes

LEMMA IgnoreEchoFacts ==
    ASSUME Types, NEW s \in Site, NEW t \in Site, IgnoreEcho(s, t),
           NEW m, m = FirstOf(s, t)
    PROVE  IgnoreDoes(s, t, m)
  <1>1. /\ Receives(s, t) /\ m.body.action = "ECHO_ELECTION"
        /\ ~Answers(t, m.body.elu)
        /\ TakeTo(s, t, tee[t], <<>>) /\ election' = election /\ electedID' = electedID
        /\ Frame
    BY DEF IgnoreEcho, Gets, electionVars, Frame
  <1>2. LinksTypeOK(ElectionBody)' /\ Taking(s, t, Again(s, t)) /\ Again(s, t) = {}
    BY <1>1, ReceivedFacts, SilentStep
  <1>3. election[t].elu # m.body.elu
    <2>1. m.body.elu \in Site
      BY <1>1, ReceivedFacts, TakenFacts
    <2> QED BY <1>1, <2>1, FollowsFacts DEF Answers
  <1> QED BY <1>1, <1>2, <1>3 DEF IgnoreDoes

(* The parent of who follows a wave is a site, to which it may write. *)
LEMMA EchoToParent ==
    ASSUME Types, NEW s \in Site, NEW t \in Site, Receives(s, t),
           NEW m, m = FirstOf(s, t), m.body.action # "ELECTED",
           election[t].elu = m.body.elu,
           TakeTo(s, t, tee[t],
                  <<BuildElectionEcho(election[t].elu, election[t].parent)>>)
    PROVE  /\ LinksTypeOK(ElectionBody)'
           /\ Taking(s, t, {EchoOf(t, m.body.elu, election[t].parent)})
  <1>1. m.body.elu \in Site
    BY ReceivedFacts, TakenFacts
  <1>2. election[t].parent \in Site
    BY <1>1, FollowsFacts
  <1>3. EchoOf(t, m.body.elu, election[t].parent) \in Message(ElectionBody)
    BY <1>1, <1>2, WrittenIsMessage DEF Types
  <1> QED BY <1>3, AnswerStep DEF EchoOf, BuildElectionEcho

LEMMA CountWaveFacts ==
    ASSUME Types, NEW s \in Site, NEW t \in Site, CountWave(s, t),
           NEW m, m = FirstOf(s, t)
    PROVE  CountWaveDoes(s, t, m)
  <1>1. /\ Receives(s, t) /\ m.body.action = "WAVE_ELECTION"
        /\ election[t].elu = m.body.elu /\ m.body.parent # t
        /\ election' = [election EXCEPT ![t].pending = @ - 1]
        /\ electedID' = electedID /\ Frame
    BY DEF CountWave, Gets, Frame
  <1>2. Becomes(t, Counted(election[t]))
    BY <1>1 DEF Becomes, Counted
  <1>3. CASE TakeTo(s, t, tee[t], <<>>)
    <2>1. LinksTypeOK(ElectionBody)' /\ Taking(s, t, {})
      BY <1>1, <1>3, ReceivedFacts, SilentStep
    <2> QED BY <1>1, <1>2, <2>1 DEF CountWaveDoes
  <1>4. CASE TakeTo(s, t, tee[t],
                    <<BuildElectionEcho(election[t].elu, election[t].parent)>>)
    <2>1. /\ LinksTypeOK(ElectionBody)'
          /\ Taking(s, t, {EchoOf(t, m.body.elu, election[t].parent)})
      BY <1>1, <1>4, EchoToParent
    <2> QED BY <1>1, <1>2, <2>1 DEF CountWaveDoes
  <1> QED BY <1>3, <1>4 DEF CountWave

LEMMA CountEchoFacts ==
    ASSUME Types, NEW s \in Site, NEW t \in Site, CountEcho(s, t),
           NEW m, m = FirstOf(s, t)
    PROVE  /\ Receives(s, t) /\ m.body.action = "ECHO_ELECTION"
           /\ election[t].elu = m.body.elu /\ Becomes(t, Counted(election[t]))
  <1>1. /\ Receives(s, t) /\ m.body.action = "ECHO_ELECTION"
        /\ election[t].elu = m.body.elu
        /\ election' = [election EXCEPT ![t].pending = @ - 1]
    BY DEF CountEcho, Gets, Answers
  <1> QED BY <1>1 DEF Becomes, Counted

LEMMA WaitFacts ==
    ASSUME Types, NEW s \in Site, NEW t \in Site, WaitForMoreEchoes(s, t),
           NEW m, m = FirstOf(s, t)
    PROVE  AnswerDoes(s, t, m)
  <1>1. /\ CountEcho(s, t) /\ election[t].pending > 1 /\ TakeTo(s, t, tee[t], <<>>)
        /\ electedID' = electedID /\ Frame
    BY DEF WaitForMoreEchoes, Frame
  <1>2. /\ Receives(s, t) /\ m.body.action = "ECHO_ELECTION"
        /\ election[t].elu = m.body.elu /\ Becomes(t, Counted(election[t]))
    BY <1>1, CountEchoFacts
  <1>3. link[s][t] # <<>> /\ Again(s, t) = {}
    BY <1>2, ReceivedFacts
  <1>4. LinksTypeOK(ElectionBody)' /\ Taking(s, t, {})
    BY <1>1, <1>3, SilentStep
  <1> QED BY <1>1, <1>2, <1>4 DEF AnswerDoes, EchoDoes

LEMMA PassEchoFacts ==
    ASSUME Types, NEW s \in Site, NEW t \in Site, PassEchoToParent(s, t),
           NEW m, m = FirstOf(s, t)
    PROVE  AnswerDoes(s, t, m)
  <1>1. /\ CountEcho(s, t) /\ election[t].pending <= 1 /\ election[t].elu # t
        /\ TakeTo(s, t, tee[t],
                  <<BuildElectionEcho(election[t].elu, election[t].parent)>>)
        /\ electedID' = electedID /\ Frame
    BY DEF PassEchoToParent, Frame
  <1>2. /\ Receives(s, t) /\ m.body.action = "ECHO_ELECTION"
        /\ election[t].elu = m.body.elu /\ Becomes(t, Counted(election[t]))
    BY <1>1, CountEchoFacts
  <1>3. /\ LinksTypeOK(ElectionBody)'
        /\ Taking(s, t, {EchoOf(t, m.body.elu, election[t].parent)})
    BY <1>1, <1>2, EchoToParent
  <1> QED BY <1>1, <1>2, <1>3 DEF AnswerDoes, EchoDoes

LEMMA WinFacts ==
    ASSUME Types, NEW s \in Site, NEW t \in Site, BecomeElected(s, t),
           NEW m, m = FirstOf(s, t)
    PROVE  WinDoes(s, t, m)
  <1>1. /\ CountEcho(s, t) /\ election[t].pending <= 1 /\ election[t].elu = t
        /\ electedID' = [electedID EXCEPT ![t] = t]
        /\ TakeTo(s, t, tee[t], <<BuildElected(t)>>) /\ Frame
    BY DEF BecomeElected, Wins, LastEcho, Frame
  <1>2. /\ Receives(s, t) /\ m.body.action = "ECHO_ELECTION"
        /\ election[t].elu = m.body.elu /\ Becomes(t, Counted(election[t]))
    BY <1>1, CountEchoFacts
  <1>3. ElectedOf(t) \in Message(ElectionBody)
    BY WrittenIsMessage DEF Types
  <1>4. LinksTypeOK(ElectionBody)' /\ Taking(s, t, {ElectedOf(t)})
    BY <1>1, <1>2, <1>3, AnswerStep DEF ElectedOf, BuildElected
  <1> QED BY <1>1, <1>2, <1>4 DEF WinDoes, EchoDoes

LEMMA ElectedFacts ==
    ASSUME Types, NEW s \in Site, NEW t \in Site, HandleElected(s, t),
           NEW m, m = FirstOf(s, t)
    PROVE  ElectedDoes(s, t, m)
  <1>1. /\ Receives(s, t) /\ m.body.action = "ELECTED" /\ Becomes(t, None)
        /\ electedID' = [electedID EXCEPT ![t] = m.sender]
        /\ TakeTo(s, t, tee[t], <<>>) /\ Frame
    BY DEF HandleElected, Gets, Becomes, Frame
  <1>2. LinksTypeOK(ElectionBody)' /\ Taking(s, t, Again(s, t))
    BY <1>1, ReceivedFacts, SilentStep
  <1> QED BY <1>1, <1>2 DEF ElectedDoes

LEMMA PassFacts ==
    ASSUME Types, NEW s \in Site, NEW t \in Site, Pass(s, t),
           NEW m, m = FirstOf(s, t)
    PROVE  PassDoes(s, t, m)
  <1>1. /\ link[s][t] # <<>> /\ ~(IsNew(t, m) /\ Processes(t, m))
        /\ TakeTo(s, t, tee[t], <<>>) /\ election' = election /\ electedID' = electedID
        /\ Frame
    BY DEF Pass, RelayTo, electionVars, Frame
  <1>2. LinksTypeOK(ElectionBody)' /\ Taking(s, t, Again(s, t))
    BY <1>1, SilentStep
  <1> QED BY <1>1, <1>2 DEF PassDoes


LEMMA TakingAddressed ==
    ASSUME Types, NEW s \in Site, NEW t \in Site, NEW out, Taking(s, t, out),
           \A x \in out : Addressed(x)
    PROVE  LinksInv' /\ AllAddressed'
  <1>1. LinksInv'
    BY TakingLinks DEF Types
  <1>2. AllAddressed'
    <2> SUFFICES ASSUME NEW u \in Site, NEW v \in Site, NEW k \in Places(u, v)'
                 PROVE  Addressed(link'[u][v][k])
      BY DEF AllAddressed, Addressed
    <2>1. ASSUME NEW l \in Places(u, v), link'[u][v][k] = link[u][v][l]
          PROVE  Addressed(link'[u][v][k])
      BY <2>1 DEF Types, AllAddressed
    <2> QED BY <2>1, TakingWhence DEF Types
  <1> QED BY <1>1, <1>2

LEMMA SendingAddressed ==
    ASSUME Types, NEW s \in Site, NEW x, Sending(s, x), Addressed(x)
    PROVE  LinksInv' /\ AllAddressed'
  <1>1. LinksInv'
    BY SendingLinks DEF Types
  <1>2. AllAddressed'
    <2> SUFFICES ASSUME NEW u \in Site, NEW v \in Site, NEW k \in Places(u, v)'
                 PROVE  Addressed(link'[u][v][k])
      BY DEF AllAddressed, Addressed
    <2> QED BY SendingWhence DEF Types, AllAddressed
  <1> QED BY <1>1, <1>2

(* What t passes on was addressed when it came. *)
LEMMA AgainAddressed ==
    ASSUME Types, NEW s \in Site, NEW t \in Site, link[s][t] # <<>>,
           NEW x \in Again(s, t)
    PROVE  Addressed(x) /\ x = FirstOf(s, t)
  <1>1. x = FirstOf(s, t)
    BY DEF Again
  <1> QED BY <1>1, TakenFacts

(* Only the state of t changes, to one that is as it should be. *)
LEMMA StatesAfter ==
    ASSUME Types, NEW t \in Site, NEW g \in States, Becomes(t, g),
           g.elu = NoSite => g = None, g.elu \in Site => g.parent \in Site
    PROVE  election' \in [Site -> States] /\ \A s \in Site : Whole(s)'
  <1>1. /\ election' \in [Site -> States] /\ election'[t] = g
        /\ \A u \in Site : u # t => election'[u] = election[u]
    BY BecomesFacts
  <1>2. ASSUME NEW s \in Site PROVE Whole(s)'
    <2>1. Whole(s)
      BY DEF Types
    <2> QED BY <1>1, <2>1 DEF Whole, None
  <1> QED BY <1>1, <1>2

LEMMA TypesInit == ASSUME Init PROVE Types
  <1>1. LinksTypeOK(ElectionBody) /\ LinksInv /\ \A u, v \in Site : Places(u, v) = {}
    BY LinksInitFacts DEF Init
  <1>2. AllAddressed
    BY <1>1 DEF AllAddressed
  <1>3. \A s \in Site : Cardinality(Neighbours[s]) \in Nat
    <2> SUFFICES ASSUME NEW s \in Site PROVE Cardinality(Neighbours[s]) \in Nat
      OBVIOUS
    <2>1. Neighbours[s] \subseteq Site
      BY NeighboursAssumption
    <2> QED BY <2>1, SiteFinite, FS_Subset, FS_CardinalityType
  <1>4. /\ nb = [s \in Site |-> Cardinality(Neighbours[s])] /\ tee = Neighbours
        /\ \A s \in Site : election[s] = None
    BY DEF Init
  <1>5. None \in States /\ None.elu = NoSite /\ NoSite \notin Site
    BY SiteAssumption DEF None, States, NoSite
  <1>6. ElectionTypeOK
    <2>1. nb \in [Site -> Nat] /\ tee \in [Site -> SUBSET Site]
      BY <1>3, <1>4, NeighboursAssumption
    <2>2. election \in [Site -> States]
      BY <1>5 DEF Init
    <2>3. electedID \in [Site -> Site \cup {NoSite}] /\ goal \in [Site -> Goal]
      BY DEF Init, Goal
    <2>4. clicksLeft \in [Site -> Nat]
      BY ClicksAssumption DEF Init
    <2> QED BY <2>1, <2>2, <2>3, <2>4 DEF ElectionTypeOK, States
  <1>7. \A s \in Site : Whole(s)
    BY <1>4, <1>5 DEF Whole
  <1> QED BY <1>1, <1>2, <1>4, <1>6, <1>7 DEF Types

LEMMA TypesNext == ASSUME Types, [Next]_vars PROVE Types'
  <1>0. Goal = {"", "JOINING", "LEAVING"}
    BY DEF Goal
  <1>1. ASSUME NEW s \in Site, ClickDoes(s) PROVE Types'
    <2>1. /\ clicksLeft[s] > 0 /\ clicksLeft' = [clicksLeft EXCEPT ![s] = @ - 1]
          /\ electedID' = electedID /\ nb' = nb /\ tee' = tee
          /\ LinksTypeOK(ElectionBody)'
      BY <1>1 DEF ClickDoes
    <2>2. clicksLeft' \in [Site -> Nat]
      BY <2>1 DEF Types, ElectionTypeOK
    <2>3. CASE /\ Becomes(s, ElectionState(s, s, nb[s]))
               /\ goal' = [goal EXCEPT ![s] = ""] /\ Sending(s, WaveOf(s, s, s))
      <3>1. Addressed(WaveOf(s, s, s))
        BY WrittenIsMessage DEF Types
      <3>2. LinksInv' /\ AllAddressed'
        BY <2>3, <3>1, SendingAddressed
      <3>3. ElectionState(s, s, nb[s]) \in States /\ ElectionState(s, s, nb[s]).elu = s
            /\ ElectionState(s, s, nb[s]).parent = s
        <4>1. nb[s] \in Int /\ s \in Site \cup {NoSite}
          BY DegreeFacts
        <4> QED BY <4>1, StateFacts
      <3>4. s # NoSite
        BY SiteAssumption DEF NoSite
      <3>5. election' \in [Site -> States] /\ \A u \in Site : Whole(u)'
        BY <2>3, <3>3, <3>4, StatesAfter
      <3>6. goal' \in [Site -> Goal]
        BY <1>0, <2>3 DEF Types, ElectionTypeOK
      <3> QED BY <2>1, <2>2, <3>2, <3>5, <3>6 DEF Types, ElectionTypeOK, States
    <2>4. CASE UNCHANGED <<linkVars, electionVars>>
      BY SMTT(30), <2>1, <2>2, <2>4
         DEF linkVars, electionVars, Types, LinksInv, Carried, CarriedWell, Drawn,
             SeenDrawn, NoTwins, Places, AllAddressed, Addressed, ElectionTypeOK, Whole
    <2> QED BY <1>1, <2>3, <2>4 DEF ClickDoes
  <1>2. ASSUME NEW s \in Site, NEW t \in Site, NEW out, Taking(s, t, out),
               \A x \in out : Addressed(x), LinksTypeOK(ElectionBody)', Frame,
               NEW g \in States, Becomes(t, g) \/ (g = election[t] /\ election' = election),
               g.elu = NoSite => g = None, g.elu \in Site => g.parent \in Site,
               NEW h \in Site \cup {NoSite},
               electedID' = electedID \/ electedID' = [electedID EXCEPT ![t] = h]
        PROVE  Types'
    <2>1. LinksInv' /\ AllAddressed'
      BY <1>2, TakingAddressed
    <2>2. Becomes(t, g)
      <3>1. election \in [Site -> States]
        BY DEF Types, ElectionTypeOK, States
      <3> QED BY <1>2, <3>1 DEF Becomes
    <2>3. election' \in [Site -> States] /\ \A u \in Site : Whole(u)'
      BY <1>2, <2>2, StatesAfter
    <2>4. electedID' \in [Site -> Site \cup {NoSite}]
      BY <1>2 DEF Types, ElectionTypeOK
    <2> QED BY <1>2, <2>1, <2>3, <2>4 DEF Types, ElectionTypeOK, States, Frame
  <1>3. ASSUME NEW s \in Site, NEW t \in Site, NEW m, m = FirstOf(s, t), AdoptDoes(s, t, m)
        PROVE  Types'
    <2> PICK c : c = m.body.elu
      OBVIOUS
    <2> PICK g : g = ElectionState(c, s, nb[t] - 1)
      OBVIOUS
    <2>1. Receives(s, t) /\ Becomes(t, g) /\ electedID' = electedID /\ Frame
          /\ LinksTypeOK(ElectionBody)'
      BY <1>3 DEF AdoptDoes
    <2>2. c \in Site /\ c # NoSite
      BY <1>3, <2>1, ReceivedFacts, TakenFacts, SiteAssumption DEF NoSite
    <2>3. g \in States /\ g.elu = c /\ g.parent = s
      <3>1. nb[t] - 1 \in Int
        BY DegreeFacts
      <3> QED BY <2>2, <3>1, StateFacts
    <2>4. PICK out : Taking(s, t, out) /\ \A x \in out : Addressed(x)
      <3>1. Addressed(EchoOf(t, c, s)) /\ Addressed(WaveOf(t, c, s))
        BY <2>2, WrittenIsMessage DEF Types
      <3> QED BY <1>3, <3>1 DEF AdoptDoes
    <2> QED BY <1>2, <2>1, <2>2, <2>3, <2>4
  <1>4. ASSUME NEW s \in Site, NEW t \in Site, NEW out, Taking(s, t, out),
               \A x \in out : Addressed(x), LinksTypeOK(ElectionBody)', Frame,
               election[t].elu \in Site, Becomes(t, Counted(election[t])),
               NEW h \in Site \cup {NoSite},
               electedID' = electedID \/ electedID' = [electedID EXCEPT ![t] = h]
        PROVE  Types'
    <2> PICK g : g = Counted(election[t])
      OBVIOUS
    <2>1. election[t] \in States /\ election[t].parent \in Site /\ NoSite \notin Site
      BY <1>4, FollowsFacts
    <2>2. g \in States /\ g.elu = election[t].elu /\ g.parent = election[t].parent
      BY <2>1, CountedFacts
    <2> QED BY <1>2, <1>4, <2>1, <2>2
  <1>5. ASSUME NEW s \in Site, NEW t \in Site, NEW m, m = FirstOf(s, t),
               election[t].elu = m.body.elu, Receives(s, t)
        PROVE  /\ m.body.elu \in Site /\ election[t].elu \in Site
               /\ Addressed(EchoOf(t, m.body.elu, election[t].parent))
               /\ Addressed(ElectedOf(t))
    <2>1. m.body.elu \in Site
      BY <1>5, ReceivedFacts, TakenFacts
    <2>2. election[t].parent \in Site
      BY <1>5, <2>1, FollowsFacts
    <2> QED BY <1>5, <2>1, <2>2, WrittenIsMessage DEF Types
  <1>6. ASSUME NEW s \in Site, NEW t \in Site, NEW m, m = FirstOf(s, t), CountWaveDoes(s, t, m)
        PROVE  Types'
    <2>1. /\ Receives(s, t) /\ election[t].elu = m.body.elu
          /\ Becomes(t, Counted(election[t])) /\ electedID' = electedID /\ Frame
          /\ LinksTypeOK(ElectionBody)'
      BY <1>6 DEF CountWaveDoes
    <2>2. PICK out : Taking(s, t, out) /\ \A x \in out : Addressed(x)
      BY <1>5, <1>6, <2>1 DEF CountWaveDoes
    <2>3. election[t].elu \in Site
      BY <1>5, <1>6, <2>1
    <2> QED BY <1>4, <2>1, <2>2, <2>3
  <1>7. ASSUME NEW s \in Site, NEW t \in Site, NEW m, m = FirstOf(s, t), AnswerDoes(s, t, m)
        PROVE  Types'
    <2>1. /\ Receives(s, t) /\ election[t].elu = m.body.elu
          /\ Becomes(t, Counted(election[t])) /\ electedID' = electedID /\ Frame
          /\ LinksTypeOK(ElectionBody)'
      BY <1>7 DEF AnswerDoes, EchoDoes
    <2>2. PICK out : Taking(s, t, out) /\ \A x \in out : Addressed(x)
      BY <1>5, <1>7, <2>1 DEF AnswerDoes
    <2>3. election[t].elu \in Site
      BY <1>5, <1>7, <2>1
    <2> QED BY <1>4, <2>1, <2>2, <2>3
  <1>8. ASSUME NEW s \in Site, NEW t \in Site, NEW m, m = FirstOf(s, t), WinDoes(s, t, m)
        PROVE  Types'
    <2>1. /\ Receives(s, t) /\ election[t].elu = m.body.elu
          /\ Becomes(t, Counted(election[t])) /\ Frame
          /\ electedID' = [electedID EXCEPT ![t] = t]
          /\ LinksTypeOK(ElectionBody)' /\ Taking(s, t, {ElectedOf(t)})
      BY <1>8 DEF WinDoes, EchoDoes
    <2>2. election[t].elu \in Site /\ Addressed(ElectedOf(t))
      BY <1>5, <1>8, <2>1
    <2>3. PICK out : Taking(s, t, out) /\ \A x \in out : Addressed(x)
      BY <2>1, <2>2
    <2>4. t \in Site \cup {NoSite}
      OBVIOUS
    <2> QED BY <1>4, <2>1, <2>2, <2>3, <2>4
  <1>9. ASSUME NEW s \in Site, NEW t \in Site, NEW m, m = FirstOf(s, t), ElectedDoes(s, t, m)
        PROVE  Types'
    <2>1. /\ Receives(s, t) /\ Becomes(t, None) /\ Frame
          /\ electedID' = [electedID EXCEPT ![t] = m.sender]
          /\ LinksTypeOK(ElectionBody)' /\ Taking(s, t, Again(s, t))
      BY <1>9 DEF ElectedDoes
    <2>2. link[s][t] # <<>>
      BY <2>1, ReceivedFacts
    <2>3. m.sender \in Site \cup {NoSite} /\ \A x \in Again(s, t) : Addressed(x)
      BY <1>9, <2>2, TakenFacts, AgainAddressed
    <2>4. None \in States /\ None.elu \notin Site
      BY SiteAssumption DEF None, States, NoSite
    <2> QED BY <1>2, <2>1, <2>3, <2>4
  <1>10. ASSUME NEW s \in Site, NEW t \in Site, NEW out, Taking(s, t, out),
                \A x \in out : Addressed(x), LinksTypeOK(ElectionBody)', Frame,
                election' = election, electedID' = electedID
         PROVE  Types'
    <2>1. election[t] \in States /\ Whole(t)
      BY FollowsFacts DEF Types
    <2> QED BY <1>2, <1>10, <2>1 DEF Whole
  <1>11. ASSUME NEW s \in Site, NEW t \in Site, NEW m, m = FirstOf(s, t), IgnoreDoes(s, t, m)
         PROVE  Types'
    BY <1>10, <1>11 DEF IgnoreDoes
  <1>12. ASSUME NEW s \in Site, NEW t \in Site, NEW m, m = FirstOf(s, t), PassDoes(s, t, m)
         PROVE  Types'
    <2>1. /\ link[s][t] # <<>> /\ Taking(s, t, Again(s, t)) /\ Frame
          /\ election' = election /\ electedID' = electedID
          /\ LinksTypeOK(ElectionBody)'
      BY <1>12 DEF PassDoes
    <2>2. \A x \in Again(s, t) : Addressed(x)
      BY <2>1, AgainAddressed
    <2> QED BY <1>10, <2>1, <2>2
  <1>13. CASE UNCHANGED vars
    BY <1>13
       DEF vars, linkVars, electionVars, Types, LinksTypeOK, LinksInv, Carried,
           CarriedWell, Drawn, SeenDrawn, NoTwins, Places, AllAddressed, Addressed,
           ElectionTypeOK, Whole
  <1>14. ASSUME NEW s \in Site, UserStartsElection(s) PROVE Types'
    BY <1>1, <1>14, ClickFacts
  <1>15. ASSUME NEW s \in Site, NEW t \in Site, Step(s, t) PROVE Types'
    <2> PICK m : m = FirstOf(s, t)
      OBVIOUS
    <2>1. CASE WaveStep(s, t)
      BY <1>3, <1>6, <1>11, <2>1, AdoptFacts, IgnoreWaveFacts, CountWaveFacts DEF WaveStep
    <2>2. CASE EchoStep(s, t)
      BY <1>7, <1>11, <2>2, IgnoreEchoFacts, WaitFacts, PassEchoFacts DEF EchoStep
    <2>3. CASE BecomeElected(s, t) \/ HandleElected(s, t) \/ Pass(s, t)
      BY <1>8, <1>9, <1>12, <2>3, WinFacts, ElectedFacts, PassFacts
    <2> QED BY <1>15, <2>1, <2>2, <2>3 DEF Step
  <1> QED BY <1>13, <1>14, <1>15 DEF Next

(* The types of LinksTypeOK and ElectionTypeOK hold in every network, and  *)
(* whoever starts an election, however often.                              *)
THEOREM ElectionTyped == Spec => [](LinksTypeOK(ElectionBody) /\ ElectionTypeOK)
  <1>1. Init => Types
    BY TypesInit
  <1>2. Types /\ [Next]_vars => Types'
    BY TypesNext
  <1>3. Types => LinksTypeOK(ElectionBody) /\ ElectionTypeOK
    BY DEF Types
  <1> QED BY <1>1, <1>2, <1>3, PTL DEF Spec


-----------------------------------------------------------------------------
(* One candidate in a tree, while nobody is elected. *)

Waves(c) ==
    {m \in Message(ElectionBody) : m.body.action = "WAVE_ELECTION" /\ m.body.elu = c}
(* The waves that a site which follows c has no use for any more. *)
Stale(c) ==
    {m \in Message(ElectionBody) : m.body.action = "WAVE_ELECTION" /\ m.body.elu > c}
Echoes(n, c) ==
    {m \in Message(ElectionBody) :
        m.body.action = "ECHO_ELECTION" /\ m.body.elu = c /\ m.sender = n}

(* A site follows c; or it follows c, or somebody better, whom it will not *)
(* leave for c.                                                            *)
Follows(t, c) == election[t].elu = c
Ahead(t, c) == election[t].elu \in Site /\ election[t].elu <= c
Done(t, c) == Follows(t, c) /\ election[t].pending = 0

(* The neighbours of t whose answers it has not had yet. *)
Pending(n, t, c) == Toward(n, t, c) /\ (~Done(n, c) \/ On(n, t, Echoes(n, c)))
Owed(t, c) == {n \in Neighbours[t] : Pending(n, t, c)}

(* A wave is written by who follows it, and names the site it came from;   *)
(* who has answered keeps to that as long as its parent follows c.         *)
SaidWave(u, m, c) ==
    /\ Ahead(u, c)
    /\ u = c \/ (Toward(u, m.body.parent, c) /\ Ahead(m.body.parent, c))
SaidEcho(m, c) ==
    /\ Toward(m.sender, m.dest, c) /\ Ahead(m.sender, c) /\ Ahead(m.dest, c)
    /\ Follows(m.dest, c) \/ Follows(m.sender, c) => Done(m.sender, c)
Said(u, m, c) ==
    m.body.elu = c =>
        /\ m.body.action # "ELECTED" /\ c \in Stood
        /\ m.body.action = "WAVE_ELECTION" => SaidWave(u, m, c)
        /\ m.body.action = "ECHO_ELECTION" => SaidEcho(m, c)
AllSaid(c) == \A u, v \in Site : \A k \in Places(u, v) : Said(u, link[u][v][k], c)
Alone(c) ==
    \A u, v \in Site : Single(u, v, Waves(c)) /\ Single(u, v, Echoes(u, c))

(* A follower of c has had its wave, and passes it on: on a link outwards  *)
(* the wave of c comes behind those it replaces.                           *)
HeardBy(t, c) ==
    /\ c \in Stood
    /\ \A n \in Neighbours[t] :
          /\ Toward(t, n, c) => Ahead(n, c) /\ ~On(n, t, Waves(c))
          /\ Toward(n, t, c) => Followed(t, n, Stale(c), Waves(c))
Heard(c) == \A t \in Site : Follows(t, c) => HeardBy(t, c)
(* An echo does not overtake the waves of the same site. *)
EchoesBehind(c) ==
    \A t \in Site : \A n \in Neighbours[t] : Toward(n, t, c) /\ Done(n, c) =>
        Followed(n, t, Waves(c) \cup Stale(c), Echoes(n, c))

(* What a follower keeps agrees with what is still to come. *)
Parent(t, c) ==
    IF t = c THEN election[t].parent = c ELSE Toward(t, election[t].parent, c)
Counts(t, c) == election[t].pending = Cardinality(Owed(t, c))
Kept(c) == \A t \in Site : Follows(t, c) => Parent(t, c) /\ Counts(t, c)

OneCandidate(c) ==
    AllSaid(c) /\ Alone(c) /\ Heard(c) /\ EchoesBehind(c) /\ Kept(c)

(* Whoever has stood keeps to itself or to a better one; who has heard of  *)
(* nothing can only follow itself.                                         *)
Begun ==
    \A s \in Site :
        /\ clicksLeft[s] <= Clicks[s]
        /\ s \in Stood => Ahead(s, s)
        /\ seen[s] = {} => election[s].elu = NoSite \/ election[s].elu = s
Open ==
    /\ \A s \in Site : electedID[s] = NoSite
    /\ Begun /\ \A c \in Site : OneCandidate(c)

(* Once h is elected, nothing is left of the others. *)
OfHolder(m, h) ==
    /\ m.body.action # "WAVE_ELECTION"
    /\ m.body.action = "ELECTED" => m.sender = h
Settled(h) ==
    /\ electedID[h] = h /\ Smallest(h) /\ OwnParent
    /\ \A s \in Site :
          /\ electedID[s] = NoSite \/ electedID[s] = h
          /\ election[s].elu = NoSite \/ election[s].elu = h
          /\ seen[s] # {}
    /\ \A u, v \in Site : \A k \in Places(u, v) : OfHolder(link[u][v][k], h)

InTree == Types /\ TreeInv /\ (Open \/ \E h \in Site : Settled(h))

-----------------------------------------------------------------------------
(* The state of t changes, if any, and never for the worse. *)
Onward(t) ==
    /\ \A u \in Site : u # t => election'[u] = election[u]
    /\ \A c \in Site : Ahead(t, c) => Ahead(t, c)'
    /\ Stood \subseteq Stood'

LEMMA OnwardFacts ==
    ASSUME NEW t \in Site, Onward(t), NEW u \in Site, NEW c \in Site
    PROVE  /\ Ahead(u, c) => Ahead(u, c)'
           /\ Ahead(u, c) /\ Follows(u, c)' => Follows(u, c)
           /\ u # t => /\ Follows(u, c)' <=> Follows(u, c)
                       /\ Done(u, c)' <=> Done(u, c)
                       /\ Ahead(u, c)' <=> Ahead(u, c)
                       /\ Parent(u, c)' <=> Parent(u, c)
                       /\ election'[u] = election[u]
  <1>1. CASE u # t
    BY <1>1 DEF Onward, Ahead, Follows, Done, Parent
  <1>2. CASE u = t
    <2>1. ASSUME Ahead(t, c), Follows(t, c)' PROVE Follows(t, c)
      <3> PICK d : d = election[t].elu
        OBVIOUS
      <3>1. d \in Site /\ d <= c
        BY <2>1 DEF Ahead
      <3>2. Ahead(t, d)
        BY <3>1, SiteAssumption DEF Ahead
      <3>3. c <= d
        BY <2>1, <3>1, <3>2 DEF Onward, Ahead, Follows
      <3> QED BY <3>1, <3>3, SiteAssumption DEF Follows
    <2> QED BY <1>2, <2>1 DEF Onward
  <1> QED BY <1>1, <1>2

LEMMA OwedFinite ==
    ASSUME Types, NEW t \in Site, NEW c
    PROVE  IsFiniteSet(Owed(t, c)) /\ Cardinality(Owed(t, c)) \in Nat
  <1>1. Owed(t, c) \subseteq Neighbours[t] /\ IsFiniteSet(Neighbours[t])
    BY DegreeFacts DEF Owed
  <1> QED BY <1>1, FS_Subset, FS_CardinalityType

(* The parties of a message on a link are sites. *)
LEMMA OnLink ==
    ASSUME Types, NEW u \in Site, NEW v \in Site, NEW k \in Places(u, v),
           NEW m, m = link[u][v][k]
    PROVE  /\ m \in Message(ElectionBody) /\ m.sender \in Site /\ v \in Neighbours[u]
           /\ m.body.elu \in Site /\ Addressed(m)
           /\ m.body.action = "WAVE_ELECTION" => m.sender = u
  <1>1. CarriedWell(u, v, m) /\ Addressed(m)
    BY DEF Types, LinksInv, Carried, AllAddressed
  <1>2. link[u][v] \in Seq(Message(ElectionBody))
    BY DEF Types, LinksTypeOK
  <1>3. m \in Message(ElectionBody)
    <2> PICK Packet : Packet = Message(ElectionBody)
      OBVIOUS
    <2>1. link[u][v] \in Seq(Packet)
      BY <1>2
    <2>2. m \in Packet
      BY <2>1 DEF Places
    <2> QED BY <2>2
  <1>4. m.body.elu \in Site
    BY <1>3 DEF Message, ElectionBody
  <1>5. m.body.action = "WAVE_ELECTION" => m.sender = u
    BY <1>1 DEF Addressed, CarriedWell
  <1> QED BY <1>1, <1>3, <1>4, <1>5 DEF CarriedWell, Drawn, Ids


(* What has been said stays true, if who has answered c is not drawn away  *)
(* from it while its parent follows c.                                     *)
LEMMA SaidStays ==
    ASSUME NEW t \in Site, Onward(t), NEW c \in Site, NEW u \in Site,
           NEW m, m.sender \in Site, Said(u, m, c),
           m.body.action = "ECHO_ELECTION" /\ m.body.elu = c /\ m.sender = t /\ Done(t, c) =>
              Done(t, c)' \/ ~(Follows(m.dest, c)' \/ Follows(t, c)')
    PROVE  Said(u, m, c)'
  <1> SUFFICES ASSUME m.body.elu = c PROVE Said(u, m, c)'
    BY DEF Said
  <1>1. \A v \in Site : Ahead(v, c) => Ahead(v, c)'
    BY OnwardFacts
  <1>2. c \in Stood'
    BY DEF Said, Onward
  <1>3. ASSUME m.body.action = "WAVE_ELECTION" PROVE SaidWave(u, m, c)'
    <2>1. SaidWave(u, m, c)
      BY <1>3 DEF Said
    <2>2. Toward(u, m.body.parent, c) => m.body.parent \in Site
      BY NotFromThere, NeighboursAssumption
    <2> QED BY <1>1, <2>1, <2>2 DEF SaidWave
  <1>4. ASSUME m.body.action = "ECHO_ELECTION" PROVE SaidEcho(m, c)'
    <2>1. SaidEcho(m, c)
      BY <1>4 DEF Said
    <2>2. m.dest \in Site
      BY <2>1, NotFromThere, NeighboursAssumption DEF SaidEcho
    <2>3. Ahead(m.sender, c)' /\ Ahead(m.dest, c)'
      BY <1>1, <2>1, <2>2 DEF SaidEcho
    <2>4. ASSUME Follows(m.dest, c)' \/ Follows(m.sender, c)' PROVE Done(m.sender, c)'
      <3>1. Follows(m.dest, c) \/ Follows(m.sender, c)
        BY <2>1, <2>2, <2>4, OnwardFacts DEF SaidEcho
      <3>2. Done(m.sender, c)
        BY <2>1, <3>1 DEF SaidEcho
      <3>3. CASE m.sender # t
        BY <3>2, <3>3, OnwardFacts
      <3>4. CASE m.sender = t
        BY <1>4, <2>4, <3>2, <3>4
      <3> QED BY <3>3, <3>4
    <2> QED BY <2>1, <2>3, <2>4 DEF SaidEcho
  <1> QED BY <1>2, <1>3, <1>4 DEF Said

(* A step that draws no one towards c, and of whose messages none is new   *)
(* for c.                                                                  *)
StaysAway(t, c) ==
    /\ Follows(t, c)' => election'[t] = election[t]
    /\ Done(t, c) /\ ~Follows(t, c)' =>
          \A u \in Neighbours[t] : Toward(t, u, c) => ~Follows(u, c)
Aside(t, out, s, m, c) ==
    /\ \A y \in out :
          /\ Follows(t, c)' => y.body.action # "WAVE_ELECTION"
          /\ y.body.elu = c =>
                /\ y = m /\ s \in Site /\ link[s][t] # <<>>
                /\ m.body.action = "ECHO_ELECTION" /\ m.sender # t
    /\ Follows(t, c)' /\ Toward(s, t, c) => m \notin Echoes(s, c)

LEMMA AsideStep ==
    ASSUME Tree, Types, NEW t \in Site, NEW out, NEW s, NEW m, Moved(t, out, s, m),
           Onward(t), NEW c \in Site, OneCandidate(c),
           StaysAway(t, c), Aside(t, out, s, m, c)
    PROVE  OneCandidate(c)'
  <1>1. /\ Follows(t, c)' => Follows(t, c) /\ election'[t] = election[t]
        /\ Done(t, c)' => Done(t, c)
        /\ Done(t, c) /\ Follows(t, c)' => Done(t, c)'
    BY DEF StaysAway, Follows, Done
  <1>2. ASSUME NEW u \in Site
        PROVE  /\ Follows(u, c)' => Follows(u, c) /\ election'[u] = election[u]
               /\ Done(u, c)' => Done(u, c)
               /\ Ahead(u, c) => Ahead(u, c)'
    BY <1>1, OnwardFacts
  <1>3. ASSUME NEW y \in out, y.body.elu = c
        PROVE  y = m /\ m.body.action = "ECHO_ELECTION" /\ m.sender # t /\ Said(t, y, c)
    <2>1. /\ y = m /\ s \in Site /\ link[s][t] # <<>>
          /\ m.body.action = "ECHO_ELECTION" /\ m.sender # t
      BY <1>3 DEF Aside
    <2>2. m = FirstOf(s, t)
      BY <2>1, SiteAssumption DEF Moved, NoSite
    <2>3. 1 \in Places(s, t) /\ m = link[s][t][1]
      BY <2>1, <2>2, TakenFacts
    <2>4. Said(s, m, c)
      BY <2>1, <2>3 DEF OneCandidate, AllSaid
    <2> QED BY <2>1, <2>4 DEF Said
  <1>4. out \cap Waves(c) = {} /\ out \cap Echoes(t, c) = {}
    BY <1>3 DEF Waves, Echoes
  <1>5. Follows(t, c)' => out \cap (Waves(c) \cup Stale(c)) = {}
    BY DEF Aside, Waves, Stale
  <1>6. ASSUME NEW u \in Site, NEW y, y.sender \in Site, Said(u, y, c)
        PROVE  Said(u, y, c)'
    <2>1. ASSUME y.body.action = "ECHO_ELECTION", y.body.elu = c, y.sender = t, Done(t, c),
                 ~Follows(t, c)'
          PROVE  ~Follows(y.dest, c)'
      <3>1. Toward(t, y.dest, c)
        BY <1>6, <2>1 DEF Said, SaidEcho
      <3>2. y.dest \in Neighbours[t] /\ y.dest \in Site
        BY <3>1, NotFromThere, NeighboursAssumption
      <3> QED BY <1>2, <2>1, <3>1, <3>2 DEF StaysAway
    <2>2. y.body.action = "ECHO_ELECTION" /\ y.body.elu = c /\ y.sender = t /\ Done(t, c) =>
             Done(t, c)' \/ ~(Follows(y.dest, c)' \/ Follows(t, c)')
      BY <1>1, <2>1
    <2> QED BY <1>6, <2>2, SaidStays
  <1>7. AllSaid(c)'
    <2> SUFFICES ASSUME NEW u \in Site, NEW v \in Site, NEW k \in Places(u, v)',
                        NEW y, y = link'[u][v][k]
                 PROVE  Said(u, y, c)'
      BY DEF AllSaid, Said
    <2>1. ASSUME NEW l \in Places(u, v), y = link[u][v][l] PROVE Said(u, y, c)'
      <3>1. Said(u, y, c) /\ y.sender \in Site
        BY <2>1, OnLink DEF OneCandidate, AllSaid
      <3> QED BY <1>6, <3>1
    <2>2. ASSUME u = t, y \in out, y.body.elu = c PROVE Said(u, y, c)'
      <3>1. Said(t, y, c) /\ y = m /\ s \in Site /\ link[s][t] # <<>>
        BY <1>3, <2>2 DEF Aside
      <3>2. m = FirstOf(s, t)
        BY <3>1, SiteAssumption DEF Moved, NoSite
      <3>3. y.sender \in Site
        BY <3>1, <3>2, TakenFacts
      <3> QED BY <1>6, <2>2, <3>1, <3>3
    <2>3. y.body.elu # c => Said(u, y, c)'
      BY DEF Said
    <2> QED BY <2>1, <2>2, <2>3, MovedWhence DEF Types
  <1>8. Alone(c)'
    <2> SUFFICES ASSUME NEW u \in Site, NEW v \in Site
                 PROVE  Single(u, v, Waves(c))' /\ Single(u, v, Echoes(u, c))'
      BY DEF Alone
    <2>1. Single(u, v, Waves(c)) /\ Single(u, v, Echoes(u, c))
      BY DEF OneCandidate, Alone
    <2> QED BY <1>4, <2>1, MovedOn DEF Types
  <1>9. Heard(c)'
    <2> SUFFICES ASSUME NEW u \in Site, Follows(u, c)' PROVE HeardBy(u, c)'
      BY DEF Heard
    <2>1. Follows(u, c) /\ HeardBy(u, c)
      BY <1>2 DEF OneCandidate, Heard
    <2>2. c \in Stood'
      BY <2>1 DEF HeardBy, Onward
    <2>3. ASSUME NEW n \in Neighbours[u], Toward(u, n, c)
          PROVE  Ahead(n, c)' /\ ~On(n, u, Waves(c))'
      <3>1. n \in Site /\ Ahead(n, c) /\ ~On(n, u, Waves(c))
        BY <2>1, <2>3, NeighboursAssumption DEF HeardBy
      <3>2. ~On(n, u, Waves(c))'
        BY <1>4, <3>1, MovedOn DEF Types
      <3> QED BY <1>2, <3>1, <3>2
    <2>4. ASSUME NEW n \in Neighbours[u], Toward(n, u, c)
          PROVE  Followed(u, n, Stale(c), Waves(c))'
      <3>1. n \in Site /\ Followed(u, n, Stale(c), Waves(c))
        BY <2>1, <2>4, NeighboursAssumption DEF HeardBy
      <3>2. ~(u = t /\ out \cap Stale(c) # {})
        BY <1>5
      <3> QED BY <3>1, <3>2, MovedFollowed DEF Types
    <2> QED BY <2>2, <2>3, <2>4 DEF HeardBy
  <1>10. EchoesBehind(c)'
    <2> SUFFICES ASSUME NEW v \in Site, NEW n \in Neighbours[v], Toward(n, v, c), Done(n, c)'
                 PROVE  Followed(n, v, Waves(c) \cup Stale(c), Echoes(n, c))'
      BY DEF EchoesBehind, Waves, Stale, Echoes
    <2>1. n \in Site /\ Done(n, c)
      BY <1>2, NeighboursAssumption
    <2>2. Followed(n, v, Waves(c) \cup Stale(c), Echoes(n, c))
      BY <2>1 DEF OneCandidate, EchoesBehind
    <2>3. ~(n = t /\ out \cap (Waves(c) \cup Stale(c)) # {})
      BY <1>5 DEF Done
    <2> QED BY <2>1, <2>2, <2>3, MovedFollowed DEF Types
  <1>11. ASSUME NEW u \in Site, Follows(u, c)' PROVE Owed(u, c)' = Owed(u, c)
    <2> SUFFICES ASSUME NEW n \in Neighbours[u], Toward(n, u, c)
                 PROVE  (~Done(n, c) \/ On(n, u, Echoes(n, c)))
                            <=> (~Done(n, c)' \/ On(n, u, Echoes(n, c))')
      BY DEF Owed, Pending
    <2>1. n \in Site /\ u \in Neighbours[n]
      BY NeighboursAssumption
    <2>2. On(n, u, Echoes(n, c))' <=> On(n, u, Echoes(n, c))
      <3>1. ~(n = s /\ u = t /\ m \in Echoes(n, c))
        BY <1>11 DEF Aside
      <3>2. ~(n = t /\ out \cap Echoes(n, c) # {})
        BY <1>4
      <3> QED BY <2>1, <3>1, <3>2, MovedOn DEF Types
    <2>3. CASE n # t
      BY <2>1, <2>2, <2>3, OnwardFacts
    <2>4. CASE n = t
      <3>1. Done(t, c) => Done(t, c)'
        BY <1>1, <1>2, <1>11, <2>1, <2>4 DEF StaysAway
      <3> QED BY <1>1, <2>2, <2>4, <3>1
    <2> QED BY <2>3, <2>4
  <1>12. Kept(c)'
    <2> SUFFICES ASSUME NEW u \in Site, Follows(u, c)'
                 PROVE  Parent(u, c)' /\ Counts(u, c)'
      BY DEF Kept
    <2>1. Follows(u, c) /\ election'[u] = election[u]
      BY <1>2
    <2>2. Parent(u, c) /\ Counts(u, c)
      BY <2>1 DEF OneCandidate, Kept
    <2>3. Owed(u, c)' = Owed(u, c)
      BY <1>11
    <2> QED BY <2>1, <2>2, <2>3 DEF Parent, Counts
  <1> QED BY <1>7, <1>8, <1>9, <1>10, <1>12 DEF OneCandidate


(* A step by which t turns to c, as a candidate or as a follower: it says  *)
(* so to all its neighbours, or a leaf answers.                            *)
Turns(t, out, x, c) ==
    /\ ~Ahead(t, c) /\ Follows(t, c)' /\ Parent(t, c)' /\ c \in Stood' /\ out = {x}
    /\ election'[t].pending = Cardinality({n \in Neighbours[t] : Toward(n, t, c)})
    /\ \A n \in Neighbours[t] : Toward(t, n, c) => Ahead(n, c) /\ ~On(n, t, Waves(c))'
    /\ \/ /\ x \in Waves(c) /\ SaidWave(t, x, c)'
          /\ t = c \/ election'[t].pending # 0
       \/ /\ x \in Echoes(t, c) /\ Toward(t, x.dest, c) /\ Ahead(x.dest, c)
          /\ election'[t].pending = 0 /\ \A n \in Neighbours[t] : ~Toward(n, t, c)

LEMMA TurnStep ==
    ASSUME Tree, Types, NEW t \in Site, NEW out, NEW s, NEW m, Moved(t, out, s, m),
           Onward(t), NEW c \in Site, OneCandidate(c), NEW x, Turns(t, out, x, c)
    PROVE  OneCandidate(c)'
  <1>1. /\ ~Ahead(t, c) /\ ~Follows(t, c) /\ ~Done(t, c) /\ Follows(t, c)'
        /\ Parent(t, c)' /\ c \in Stood' /\ out = {x}
    <2>1. /\ ~Ahead(t, c) /\ Follows(t, c)' /\ Parent(t, c)' /\ c \in Stood'
          /\ out = {x}
      BY DEF Turns
    <2>2. c <= c
      BY SiteAssumption
    <2>3. ~Follows(t, c)
      BY <2>1, <2>2 DEF Ahead, Follows
    <2> QED BY <2>1, <2>3 DEF Done
  <1>2. CASE x \notin Waves(c) /\ x \notin Echoes(t, c)
    BY <1>2 DEF Turns
  <1>3. x \in Waves(c) => x \notin Echoes(t, c) /\ x \notin Stale(c)
    <2>1. x \in Waves(c) => x.body.elu = c /\ x.body.action = "WAVE_ELECTION"
      BY DEF Waves
    <2>2. ~(c > c)
      BY SiteAssumption
    <2> QED BY <2>1, <2>2 DEF Echoes, Stale
  <1>4. x \in Echoes(t, c) => x \notin Waves(c) /\ x \notin Stale(c)
    BY DEF Waves, Echoes, Stale
  <1>5. Done(t, c)' => t = c \/ x \in Echoes(t, c)
    BY DEF Turns, Done
  (* Nothing of c has been written by t yet. *)
  <1>6. ASSUME NEW u \in Site, NEW v \in Site
        PROVE  ~On(t, v, Waves(c)) /\ ~On(u, v, Echoes(t, c))
    <2>1. ASSUME NEW k \in Places(t, v), link[t][v][k] \in Waves(c) PROVE FALSE
      <3>1. Said(t, link[t][v][k], c)
        BY DEF OneCandidate, AllSaid
      <3> QED BY <1>1, <2>1, <3>1 DEF Said, SaidWave, Waves
    <2>2. ASSUME NEW k \in Places(u, v), link[u][v][k] \in Echoes(t, c) PROVE FALSE
      <3>1. Said(u, link[u][v][k], c)
        BY DEF OneCandidate, AllSaid
      <3> QED BY <1>1, <2>2, <3>1 DEF Said, SaidEcho, Echoes
    <2> QED BY <2>1, <2>2 DEF On
  <1>7. ASSUME NEW n \in Site, t \in Neighbours[n], Toward(n, t, c)
        PROVE  ~Follows(n, c) /\ ~Follows(n, c)' /\ ~Done(n, c) /\ ~Done(n, c)'
    <2>1. n # t
      BY <1>7, NeighboursAssumption
    <2>2. ~Follows(n, c)
      BY <1>1, <1>7 DEF OneCandidate, Heard, HeardBy
    <2> QED BY <2>1, <2>2, OnwardFacts DEF Done
  <1>8. AllSaid(c)'
    <2> SUFFICES ASSUME NEW u \in Site, NEW v \in Site, NEW k \in Places(u, v)',
                        NEW y, y = link'[u][v][k]
                 PROVE  Said(u, y, c)'
      BY DEF AllSaid, Said
    <2>1. ASSUME NEW l \in Places(u, v), y = link[u][v][l] PROVE Said(u, y, c)'
      <3>1. Said(u, y, c) /\ y.sender \in Site
        BY <2>1, OnLink DEF OneCandidate, AllSaid
      <3> QED BY <1>1, <3>1, SaidStays
    <2>2. ASSUME u = t, y = x PROVE Said(u, y, c)'
      <3>1. CASE x \in Waves(c)
        BY <1>1, <1>3, <2>2, <3>1 DEF Turns, Said, Waves
      <3>2. CASE x \in Echoes(t, c)
        <4>1. x.body.action = "ECHO_ELECTION" /\ x.body.elu = c /\ x.sender = t
          BY <3>2 DEF Echoes
        <4>2. /\ Toward(t, x.dest, c) /\ Ahead(x.dest, c) /\ Done(t, c)'
          BY <1>1, <1>4, <3>2 DEF Turns, Done
        <4>3. x.dest \in Site
          BY <4>2, NotFromThere, NeighboursAssumption
        <4>4. Ahead(x.dest, c)' /\ Ahead(t, c)'
          <5>1. Ahead(t, c)'
            BY <1>1, SiteAssumption DEF Ahead, Follows
          <5> QED BY <4>2, <4>3, <5>1, OnwardFacts
        <4> QED BY <1>1, <2>2, <4>1, <4>2, <4>4 DEF Said, SaidEcho
      <3> QED BY <1>2, <3>1, <3>2 DEF Turns
    <2> QED BY <1>1, <2>1, <2>2, MovedWhence DEF Types
  <1>9. Alone(c)'
    <2> SUFFICES ASSUME NEW u \in Site, NEW v \in Site
                 PROVE  Single(u, v, Waves(c))' /\ Single(u, v, Echoes(u, c))'
      BY DEF Alone
    <2>1. Single(u, v, Waves(c)) /\ Single(u, v, Echoes(u, c))
      BY DEF OneCandidate, Alone
    <2>2. u = t => ~On(u, v, Waves(c)) /\ ~On(u, v, Echoes(u, c))
      BY <1>6
    <2> QED BY <2>1, <2>2, MovedOn DEF Types
  <1>10. Heard(c)'
    <2> SUFFICES ASSUME NEW u \in Site, Follows(u, c)' PROVE HeardBy(u, c)'
      BY DEF Heard
    <2>1. CASE u = t
      <3>1. ASSUME NEW n \in Neighbours[t], Toward(t, n, c)
            PROVE  Ahead(n, c)' /\ ~On(n, t, Waves(c))'
        <4>1. n \in Site /\ Ahead(n, c) /\ ~On(n, t, Waves(c))'
          BY <3>1, NeighboursAssumption DEF Turns
        <4> QED BY <4>1, OnwardFacts
      <3>2. ASSUME NEW n \in Neighbours[t], Toward(n, t, c)
            PROVE  Followed(t, n, Stale(c), Waves(c))'
        <4>1. x \in Waves(c)
          BY <3>2 DEF Turns
        <4>2. out \cap Waves(c) # {} /\ out \cap Stale(c) = {}
          BY <1>1, <1>3, <4>1
        <4> QED BY <4>2, MovedAppends DEF Types
      <3> QED BY <1>1, <2>1, <3>1, <3>2 DEF HeardBy
    <2>2. CASE u # t
      <3>1. Follows(u, c) /\ HeardBy(u, c)
        BY <2>2, OnwardFacts DEF OneCandidate, Heard
      <3>2. ASSUME NEW n \in Neighbours[u], Toward(u, n, c)
            PROVE  Ahead(n, c)' /\ ~On(n, u, Waves(c))'
        <4>1. n \in Site /\ Ahead(n, c) /\ ~On(n, u, Waves(c)) /\ n # t
          BY <1>1, <3>1, <3>2, NeighboursAssumption DEF HeardBy
        <4>2. ~On(n, u, Waves(c))'
          BY <4>1, MovedOn DEF Types
        <4> QED BY <4>1, <4>2, OnwardFacts
      <3>3. ASSUME NEW n \in Neighbours[u], Toward(n, u, c)
            PROVE  Followed(u, n, Stale(c), Waves(c))'
        <4>1. n \in Site /\ Followed(u, n, Stale(c), Waves(c))
          BY <3>1, <3>3, NeighboursAssumption DEF HeardBy
        <4> QED BY <2>2, <4>1, MovedFollowed DEF Types
      <3> QED BY <1>1, <3>2, <3>3 DEF HeardBy
    <2> QED BY <2>1, <2>2
  <1>11. EchoesBehind(c)'
    <2> SUFFICES ASSUME NEW v \in Site, NEW n \in Neighbours[v], Toward(n, v, c), Done(n, c)'
                 PROVE  Followed(n, v, Waves(c) \cup Stale(c), Echoes(n, c))'
      BY DEF EchoesBehind, Waves, Stale, Echoes
    <2>1. n \in Site /\ v \in Neighbours[n] /\ n # c
      BY NeighboursAssumption, NotFromThere
    <2>2. CASE n = t
      <3>1. x \in Echoes(t, c)
        BY <1>5, <2>1, <2>2
      <3>2. out \cap Echoes(t, c) # {} /\ out \cap (Waves(c) \cup Stale(c)) = {}
        BY <1>1, <1>4, <3>1
      <3> QED BY <2>1, <2>2, <3>2, MovedAppends DEF Types
    <2>3. CASE n # t
      <3>1. Done(n, c)
        BY <2>1, <2>3, OnwardFacts
      <3>2. Followed(n, v, Waves(c) \cup Stale(c), Echoes(n, c))
        BY <2>1, <3>1 DEF OneCandidate, EchoesBehind
      <3> QED BY <2>1, <2>3, <3>2, MovedFollowed DEF Types
    <2> QED BY <2>2, <2>3
  <1>12. Owed(t, c)' = {n \in Neighbours[t] : Toward(n, t, c)}
    <2>1. ASSUME NEW n \in Neighbours[t], Toward(n, t, c) PROVE ~Done(n, c)'
      <3>1. n \in Site /\ t \in Neighbours[n]
        BY NeighboursAssumption
      <3> QED BY <1>7, <2>1, <3>1
    <2> QED BY <2>1 DEF Owed, Pending
  <1>13. ASSUME NEW u \in Site, u # t PROVE Owed(u, c)' = Owed(u, c)
    <2> SUFFICES ASSUME NEW n \in Neighbours[u], Toward(n, u, c)
                 PROVE  (~Done(n, c) \/ On(n, u, Echoes(n, c)))
                            <=> (~Done(n, c)' \/ On(n, u, Echoes(n, c))')
      BY DEF Owed, Pending
    <2>1. n \in Site /\ u \in Neighbours[n] /\ n # c
      BY NeighboursAssumption, NotFromThere
    <2>2. CASE n # t
      <3>1. On(n, u, Echoes(n, c))' <=> On(n, u, Echoes(n, c))
        BY <1>13, <2>1, <2>2, MovedOn DEF Types
      <3> QED BY <2>1, <2>2, <3>1, OnwardFacts
    <2>3. CASE n = t
      <3>1. Done(t, c)' => On(t, u, Echoes(t, c))'
        <4>1. Done(t, c)' => out \cap Echoes(t, c) # {}
          BY <1>1, <1>5, <2>1, <2>3
        <4> QED BY <2>1, <2>3, <4>1, MovedOn DEF Types
      <3> QED BY <1>1, <2>3, <3>1
    <2> QED BY <2>2, <2>3
  <1>14. Kept(c)'
    <2> SUFFICES ASSUME NEW u \in Site, Follows(u, c)'
                 PROVE  Parent(u, c)' /\ Counts(u, c)'
      BY DEF Kept
    <2>1. CASE u = t
      BY <1>1, <1>12, <2>1 DEF Turns, Counts
    <2>2. CASE u # t
      <3>1. Parent(u, c) /\ Counts(u, c) /\ election'[u] = election[u] /\ Parent(u, c)'
        BY <2>2, OnwardFacts DEF OneCandidate, Kept
      <3> QED BY <1>13, <2>2, <3>1 DEF Counts
    <2> QED BY <2>1, <2>2
  <1> QED BY <1>8, <1>9, <1>10, <1>11, <1>14 DEF OneCandidate

(* t, a follower of c, counts the answer of s; the last one it passes on.  *)
Counting(s, t, out, m, c) ==
    /\ link[s][t] # <<>> /\ Taking(s, t, out) /\ m \in Echoes(s, c) /\ m.dest = t
    /\ Follows(t, c) /\ Becomes(t, Counted(election[t]))
    /\ \/ out = {} /\ election[t].pending > 1
       \/ \E x : /\ out = {x} /\ x \in Echoes(t, c) /\ x.dest = election[t].parent
                 /\ election[t].pending <= 1 /\ t # c

(* The answer that is taken was owed. *)
LEMMA AnswerWasOwed ==
    ASSUME Tree, Types, NEW s \in Site, NEW t \in Site, link[s][t] # <<>>,
           NEW m, m = FirstOf(s, t), NEW c \in Site, OneCandidate(c),
           m \in Echoes(s, c), m.dest = t, Follows(t, c)
    PROVE  /\ Toward(s, t, c) /\ Done(s, c) /\ s \in Neighbours[t] /\ s # t
           /\ On(s, t, Echoes(s, c)) /\ s \in Owed(t, c)
           /\ election[t].pending = Cardinality(Owed(t, c))
           /\ election[t].pending \in Nat \ {0}
  <1>1. 1 \in Places(s, t) /\ m = link[s][t][1] /\ s \in Neighbours[t] /\ s # t
    BY TakenFacts, NeighboursAssumption
  <1>2. Said(s, m, c)
    BY <1>1 DEF OneCandidate, AllSaid
  <1>3. Toward(s, t, c) /\ Done(s, c)
    BY <1>2 DEF Said, SaidEcho, Echoes
  <1>4. On(s, t, Echoes(s, c))
    BY <1>1 DEF On
  <1>5. s \in Owed(t, c)
    BY <1>1, <1>3, <1>4 DEF Owed, Pending
  <1>6. election[t].pending = Cardinality(Owed(t, c))
    BY DEF OneCandidate, Kept, Counts
  <1>7. Cardinality(Owed(t, c)) # 0
    BY <1>5, OwedFinite, FS_EmptySet
  <1> QED BY <1>1, <1>3, <1>4, <1>5, <1>6, <1>7, OwedFinite

LEMMA CountStep ==
    ASSUME Tree, Types, NEW s \in Site, NEW t \in Site, NEW out, NEW m,
           m = FirstOf(s, t), Onward(t), NEW c \in Site, OneCandidate(c),
           Counting(s, t, out, m, c)
    PROVE  OneCandidate(c)'
  <1>1. /\ Moved(t, out, s, m) /\ link[s][t] # <<>> /\ m \in Echoes(s, c)
        /\ m.dest = t /\ Follows(t, c)
    BY DEF Counting, Moved
  <1>2. /\ Toward(s, t, c) /\ Done(s, c) /\ s \in Neighbours[t] /\ s # t
        /\ s \in Owed(t, c) /\ election[t].pending = Cardinality(Owed(t, c))
        /\ election[t].pending \in Nat \ {0}
    BY <1>1, AnswerWasOwed
  <1>3. /\ election'[t].elu = c /\ election'[t].parent = election[t].parent
        /\ election'[t].pending = election[t].pending - 1
    <2>1. election[t] \in States
      BY FollowsFacts
    <2>2. Becomes(t, Counted(election[t]))
      BY DEF Counting
    <2>3. Counted(election[t]) \in States
      BY <2>1, CountedFacts
    <2>4. election'[t] = Counted(election[t])
      BY <2>2, <2>3, BecomesFacts
    <2> QED BY <1>1, <2>1, <2>4, CountedFacts DEF Follows
  <1>4. ~Done(t, c) /\ Follows(t, c)' /\ (Done(t, c)' => election[t].pending = 1)
    BY <1>2, <1>3 DEF Done, Follows
  <1>5. /\ Done(t, c)' => t = c \/ out \cap Echoes(t, c) # {}
        /\ \A y \in out : /\ y \in Echoes(t, c) /\ y.dest = election[t].parent
                          /\ Done(t, c)' /\ t # c
    <2>1. CASE out = {} /\ election[t].pending > 1
      BY <1>2, <1>4, <2>1
    <2>2. CASE \E x : /\ out = {x} /\ x \in Echoes(t, c) /\ x.dest = election[t].parent
                      /\ election[t].pending <= 1 /\ t # c
      BY <1>2, <1>3, <2>2 DEF Done, Follows
    <2> QED BY <2>1, <2>2 DEF Counting
  <1>6. out \cap Waves(c) = {} /\ out \cap (Waves(c) \cup Stale(c)) = {} /\ out \cap Stale(c) = {}
    BY <1>5 DEF Waves, Stale, Echoes
  <1>7. \A u \in Site : (Follows(u, c)' <=> Follows(u, c)) /\ (Done(u, c) => Done(u, c)')
    BY <1>1, <1>4, OnwardFacts
  (* t has not answered c before. *)
  <1>8. ASSUME NEW u \in Site, NEW v \in Site PROVE ~On(u, v, Echoes(t, c))
    <2> SUFFICES ASSUME NEW k \in Places(u, v), link[u][v][k] \in Echoes(t, c)
                 PROVE  FALSE
      BY DEF On
    <2>1. Said(u, link[u][v][k], c)
      BY DEF OneCandidate, AllSaid
    <2> QED BY <1>1, <1>4, <2>1 DEF Said, SaidEcho, Echoes
  <1>9. AllSaid(c)'
    <2> SUFFICES ASSUME NEW u \in Site, NEW v \in Site, NEW k \in Places(u, v)',
                        NEW y, y = link'[u][v][k]
                 PROVE  Said(u, y, c)'
      BY DEF AllSaid, Said
    <2>1. ASSUME NEW l \in Places(u, v), y = link[u][v][l] PROVE Said(u, y, c)'
      <3>1. Said(u, y, c) /\ y.sender \in Site
        BY <2>1, OnLink DEF OneCandidate, AllSaid
      <3> QED BY <1>4, <3>1, SaidStays
    <2>2. ASSUME y \in out PROVE Said(u, y, c)'
      <3>1. y.body.action = "ECHO_ELECTION" /\ y.sender = t
        BY <1>5, <2>2 DEF Echoes
      <3>2. y.dest = election[t].parent /\ Done(t, c)' /\ t # c
        BY <1>5, <2>2
      <3>3. Parent(t, c) /\ HeardBy(t, c)
        BY <1>1 DEF OneCandidate, Kept, Heard
      <3>4. Toward(t, y.dest, c) /\ y.dest \in Neighbours[t] /\ y.dest \in Site
        BY <3>2, <3>3, NotFromThere, NeighboursAssumption DEF Parent
      <3>5. Ahead(y.dest, c) /\ c \in Stood
        BY <3>3, <3>4 DEF HeardBy
      <3>6. Ahead(y.dest, c)' /\ c \in Stood'
        BY <3>4, <3>5, OnwardFacts DEF Onward
      <3>7. Ahead(t, c)'
        <4>1. c <= c
          BY SiteAssumption
        <4> QED BY <1>3, <4>1 DEF Ahead
      <3> QED BY <3>1, <3>2, <3>4, <3>6, <3>7 DEF Said, SaidEcho
    <2> QED BY <1>1, <2>1, <2>2, MovedWhence DEF Types
  <1>10. Alone(c)'
    <2> SUFFICES ASSUME NEW u \in Site, NEW v \in Site
                 PROVE  Single(u, v, Waves(c))' /\ Single(u, v, Echoes(u, c))'
      BY DEF Alone
    <2>1. Single(u, v, Waves(c)) /\ Single(u, v, Echoes(u, c))
      BY DEF OneCandidate, Alone
    <2>2. u = t => ~On(u, v, Echoes(u, c))
      BY <1>8
    <2> QED BY <1>1, <1>6, <2>1, <2>2, MovedOn DEF Types
  <1>11. Heard(c)'
    <2> SUFFICES ASSUME NEW u \in Site, Follows(u, c)' PROVE HeardBy(u, c)'
      BY DEF Heard
    <2>1. HeardBy(u, c)
      BY <1>7 DEF OneCandidate, Heard
    <2>2. c \in Stood'
      BY <2>1 DEF HeardBy, Onward
    <2>3. ASSUME NEW n \in Neighbours[u], Toward(u, n, c)
          PROVE  Ahead(n, c)' /\ ~On(n, u, Waves(c))'
      <3>1. n \in Site /\ Ahead(n, c) /\ ~On(n, u, Waves(c))
        BY <2>1, <2>3, NeighboursAssumption DEF HeardBy
      <3>2. ~On(n, u, Waves(c))'
        BY <1>1, <1>6, <3>1, MovedOn DEF Types
      <3> QED BY <3>1, <3>2, OnwardFacts
    <2>4. ASSUME NEW n \in Neighbours[u], Toward(n, u, c)
          PROVE  Followed(u, n, Stale(c), Waves(c))'
      <3>1. n \in Site /\ Followed(u, n, Stale(c), Waves(c))
        BY <2>1, <2>4, NeighboursAssumption DEF HeardBy
      <3> QED BY <1>1, <1>6, <3>1, MovedFollowed DEF Types
    <2> QED BY <2>2, <2>3, <2>4 DEF HeardBy
  <1>12. EchoesBehind(c)'
    <2> SUFFICES ASSUME NEW v \in Site, NEW n \in Neighbours[v], Toward(n, v, c), Done(n, c)'
                 PROVE  Followed(n, v, Waves(c) \cup Stale(c), Echoes(n, c))'
      BY DEF EchoesBehind, Waves, Stale, Echoes
    <2>1. n \in Site /\ v \in Neighbours[n] /\ n # c
      BY NeighboursAssumption, NotFromThere
    <2>2. CASE n = t
      <3>1. out \cap Echoes(t, c) # {}
        BY <1>5, <2>1, <2>2
      <3> QED BY <1>1, <1>6, <2>1, <2>2, <3>1, MovedAppends DEF Types
    <2>3. CASE n # t
      <3>1. Done(n, c)
        BY <2>1, <2>3, OnwardFacts
      <3>2. Followed(n, v, Waves(c) \cup Stale(c), Echoes(n, c))
        BY <2>1, <3>1 DEF OneCandidate, EchoesBehind
      <3> QED BY <1>1, <2>1, <2>3, <3>2, MovedFollowed DEF Types
    <2> QED BY <2>2, <2>3
  <1>13. Owed(t, c)' = Owed(t, c) \ {s}
    <2>1. ASSUME NEW n \in Neighbours[t], n # s, Toward(n, t, c)
          PROVE  Pending(n, t, c)' <=> Pending(n, t, c)
      <3>1. n \in Site /\ n # t
        BY NeighboursAssumption
      <3>2. On(n, t, Echoes(n, c))' <=> On(n, t, Echoes(n, c))
        BY <1>1, <2>1, <3>1, MovedOn DEF Types
      <3> QED BY <3>1, <3>2, OnwardFacts DEF Pending
    <2>2. ~Pending(s, t, c)'
      <3>1. Single(s, t, Echoes(s, c))
        BY DEF OneCandidate, Alone
      <3>2. ~On(s, t, Echoes(s, c))'
        BY <1>1, <3>1, MovedOn DEF Types
      <3> QED BY <1>2, <1>7, <3>2 DEF Pending
    <2>3. \A n : (Pending(n, t, c) => Toward(n, t, c)) /\ (Pending(n, t, c)' => Toward(n, t, c))
      BY DEF Pending
    <2> QED BY <2>1, <2>2, <2>3 DEF Owed
  <1>14. ASSUME NEW u \in Site, u # t PROVE Owed(u, c)' = Owed(u, c)
    <2> SUFFICES ASSUME NEW n \in Neighbours[u], Toward(n, u, c)
                 PROVE  (~Done(n, c) \/ On(n, u, Echoes(n, c)))
                            <=> (~Done(n, c)' \/ On(n, u, Echoes(n, c))')
      BY DEF Owed, Pending
    <2>1. n \in Site /\ u \in Neighbours[n] /\ n # c
      BY NeighboursAssumption, NotFromThere
    <2>2. CASE n # t
      <3>1. On(n, u, Echoes(n, c))' <=> On(n, u, Echoes(n, c))
        BY <1>1, <1>14, <2>1, <2>2, MovedOn DEF Types
      <3> QED BY <2>1, <2>2, <3>1, OnwardFacts
    <2>3. CASE n = t
      <3>1. Done(t, c)' => On(t, u, Echoes(t, c))'
        BY <1>1, <1>5, <2>1, <2>3, MovedOn DEF Types
      <3> QED BY <1>4, <2>3, <3>1
    <2> QED BY <2>2, <2>3
  <1>15. Kept(c)'
    <2> SUFFICES ASSUME NEW u \in Site, Follows(u, c)'
                 PROVE  Parent(u, c)' /\ Counts(u, c)'
      BY DEF Kept
    <2>1. Parent(u, c) /\ Counts(u, c)
      BY <1>7 DEF OneCandidate, Kept
    <2>2. CASE u = t
      <3>1. Cardinality(Owed(t, c) \ {s}) = Cardinality(Owed(t, c)) - 1
        BY <1>2, OwedFinite, FS_RemoveElement
      <3> QED BY <1>2, <1>3, <1>13, <2>1, <2>2, <3>1 DEF Parent, Counts
    <2>3. CASE u # t
      BY <1>14, <2>1, <2>3, OnwardFacts DEF Counts
    <2> QED BY <2>2, <2>3
  <1> QED BY <1>9, <1>10, <1>11, <1>12, <1>15 DEF OneCandidate

-----------------------------------------------------------------------------
(* The steps in a tree, while nobody is elected. *)

(* What t takes while nobody is elected: a wave from outside, or one that  *)
(* was passed on to its own sender.                                        *)
LEMMA WaveTaken ==
    ASSUME Tree, Types, NEW s \in Site, NEW t \in Site, link[s][t] # <<>>,
           NEW m, m = FirstOf(s, t), m.body.action = "WAVE_ELECTION",
           NEW c \in Site, c = m.body.elu, OneCandidate(c)
    PROVE  /\ m \in Waves(c) /\ Ahead(s, c) /\ c \in Stood
           /\ On(s, t, Waves(c)) /\ s \in Neighbours[t] /\ s # t
           /\ Toward(t, s, c) \/ Toward(s, t, c)
           /\ Toward(s, t, c) => m.body.parent = t /\ Ahead(t, c)
  <1>1. /\ 1 \in Places(s, t) /\ m = link[s][t][1] /\ m \in Message(ElectionBody)
        /\ s \in Neighbours[t] /\ t \in Neighbours[s] /\ s # t
    BY TakenFacts, NeighboursAssumption
  <1>2. m \in Waves(c) /\ On(s, t, Waves(c))
    BY <1>1 DEF Waves, On
  <1>3. Said(s, m, c)
    BY <1>1 DEF OneCandidate, AllSaid
  <1>4. c \in Stood /\ SaidWave(s, m, c)
    BY <1>3 DEF Said
  <1>5. Toward(t, s, c) \/ Toward(s, t, c)
    BY <1>1, EveryLinkPoints
  <1>6. ASSUME Toward(s, t, c) PROVE m.body.parent = t /\ Ahead(t, c)
    <2>1. s # c
      BY <1>6, NotFromThere
    <2>2. Toward(s, m.body.parent, c) /\ Ahead(m.body.parent, c)
      BY <1>4, <2>1 DEF SaidWave
    <2>3. m.body.parent \in Site
      BY <2>2, NotFromThere, NeighboursAssumption
    <2>4. m.body.parent = t
      BY <1>6, <2>2, <2>3, OneWay
    <2> QED BY <2>2, <2>4
  <1> QED BY <1>1, <1>2, <1>4, <1>5, <1>6 DEF SaidWave

(* An answer, from the side where there are answers to come.               *)
LEMMA EchoTaken ==
    ASSUME Tree, Types, TreeInv, NEW s \in Site, NEW t \in Site, Receives(s, t),
           NEW m, m = FirstOf(s, t), m.body.action = "ECHO_ELECTION",
           NEW c \in Site, c = m.body.elu, OneCandidate(c)
    PROVE  m \in Echoes(s, c) /\ m.dest = t
  <1>1. link[s][t] # <<>> /\ m.id \notin seen[t] /\ m.sender # t /\ m.dest = t
    BY ReceivedFacts
  <1>2. 1 \in Places(s, t) /\ m = link[s][t][1] /\ m \in Message(ElectionBody)
    BY <1>1, TakenFacts
  <1>3. Said(s, m, c)
    BY <1>2 DEF OneCandidate, AllSaid
  <1>4. Toward(m.sender, t, c)
    BY <1>1, <1>3 DEF Said, SaidEcho
  <1>5. m.sender \in Site /\ t \in Neighbours[m.sender]
    BY <1>1, <1>4, TakenFacts, NotFromThere
  <1>6. m.sender \in Neighbours[t]
    BY <1>5, NeighboursAssumption
  <1>7. m.sender = s
    BY <1>1, <1>2, <1>6, NewIsDirect DEF Types
  <1> QED BY <1>1, <1>2, <1>7 DEF Echoes

(* What t passes on is an answer for somebody else. *)
LEMMA PassTaken ==
    ASSUME Tree, Types, TreeInv, NEW s \in Site, NEW t \in Site,
           NEW m, m = FirstOf(s, t), link[s][t] # <<>>,
           ~(IsNew(t, m) /\ Processes(t, m)), \A c \in Site : OneCandidate(c)
    PROVE  /\ m.body.action = "ECHO_ELECTION"
           /\ \A c \in Site : Toward(s, t, c) => m \notin Echoes(s, c)
  <1>1. /\ 1 \in Places(s, t) /\ m = link[s][t][1] /\ m.body \in ElectionBody
        /\ m.body.elu \in Site /\ Addressed(m)
    BY TakenFacts
  <1>2. m.body.action = "WAVE_ELECTION" => m.sender = s
    BY TakenFacts
  <1>3. m.sender = s => IsNew(t, m) /\ m.sender # t
    BY <1>1, DirectIsNew DEF Types, IsNew, Id
  <1>4. m.body.action # "WAVE_ELECTION"
    BY <1>1, <1>2, <1>3 DEF Addressed, Processes
  <1>5. Said(s, m, m.body.elu)
    <2>1. OneCandidate(m.body.elu)
      BY <1>1
    <2> QED BY <1>1, <2>1 DEF OneCandidate, AllSaid
  <1>6. m.body.action = "ECHO_ELECTION"
    BY <1>1, <1>4, <1>5 DEF Said, ElectionBody
  <1>7. ASSUME NEW c \in Site, Toward(s, t, c), m \in Echoes(s, c) PROVE FALSE
    <2>1. m.sender = s /\ m.body.elu = c
      BY <1>7 DEF Echoes
    <2>2. Toward(s, m.dest, c)
      BY <1>5, <1>6, <2>1 DEF Said, SaidEcho
    <2>3. m.dest \in Site
      BY <2>2, NotFromThere, NeighboursAssumption
    <2>4. m.dest = t
      BY <1>7, <2>2, <2>3, OneWay
    <2> QED BY <1>3, <2>1, <2>4 DEF Processes
  <1> QED BY <1>6, <1>7

(* Nobody new has stood. *)
LEMMA BegunStays ==
    ASSUME Types, Begun, NEW s \in Site, NEW t \in Site, NEW out, Taking(s, t, out),
           Onward(t), clicksLeft' = clicksLeft
    PROVE  Begun'
  <1>1. seen' = [seen EXCEPT ![t] = @ \cup {FirstOf(s, t).id}]
    BY DEF Taking
  <1>2. seen \in [Site -> SUBSET Ids]
    BY DEF Types, LinksTypeOK
  <1>3. Stood' = Stood
    BY DEF Stood
  <1>4. ASSUME NEW u \in Site
        PROVE  /\ clicksLeft'[u] <= Clicks[u]
               /\ seen'[u] = {} => election'[u].elu = NoSite \/ election'[u].elu = u
    <2>1. clicksLeft'[u] <= Clicks[u]
      BY DEF Begun
    <2>2. ASSUME seen'[u] = {} PROVE election'[u].elu = NoSite \/ election'[u].elu = u
      <3>1. u # t /\ seen[u] = {}
        BY <1>1, <1>2, <2>2
      <3> QED BY <3>1, OnwardFacts DEF Begun
    <2> QED BY <2>1, <2>2
  <1>5. ASSUME NEW u \in Site, u \in Stood' PROVE Ahead(u, u)'
    BY <1>3, <1>5, OnwardFacts DEF Begun
  <1> QED BY <1>4, <1>5 DEF Begun

(* A step that leaves all states alone. *)
LEMMA OnwardSame ==
    ASSUME NEW t \in Site, election' = election, clicksLeft' = clicksLeft
    PROVE  Onward(t) /\ \A c \in Site : StaysAway(t, c)
  BY DEF Onward, Ahead, Stood, StaysAway, Follows, Done

LEMMA OpenIgnore ==
    ASSUME Tree, Types, TreeInv, Open, NEW s \in Site, NEW t \in Site,
           NEW m, m = FirstOf(s, t), IgnoreDoes(s, t, m)
    PROVE  Open'
  <1>1. /\ Receives(s, t) /\ election' = election /\ electedID' = electedID
        /\ clicksLeft' = clicksLeft /\ Taking(s, t, {})
    BY DEF IgnoreDoes, Frame
  <1>2. Onward(t) /\ \A c \in Site : StaysAway(t, c)
    BY <1>1, OnwardSame
  <1>3. Begun'
    BY <1>1, <1>2, BegunStays DEF Open
  <1>4. ASSUME NEW c \in Site PROVE OneCandidate(c)'
    <2>1. Moved(t, {}, s, m)
      BY <1>1 DEF Moved
    <2>2. Aside(t, {}, s, m, c)
      BY <1>1 DEF Aside, Follows, Echoes, IgnoreDoes
    <2> QED BY <1>2, <2>1, <2>2, AsideStep DEF Open
  <1> QED BY <1>1, <1>3, <1>4 DEF Open

LEMMA OpenPass ==
    ASSUME Tree, Types, TreeInv, Open, NEW s \in Site, NEW t \in Site,
           NEW m, m = FirstOf(s, t), PassDoes(s, t, m)
    PROVE  Open'
  <1>1. /\ link[s][t] # <<>> /\ ~(IsNew(t, m) /\ Processes(t, m))
        /\ election' = election /\ electedID' = electedID
        /\ clicksLeft' = clicksLeft /\ Taking(s, t, Again(s, t))
    BY DEF PassDoes, Frame
  <1>2. Onward(t) /\ \A c \in Site : StaysAway(t, c)
    BY <1>1, OnwardSame
  <1>3. Begun'
    BY <1>1, <1>2, BegunStays DEF Open
  <1>4. /\ m.body.action = "ECHO_ELECTION"
        /\ \A c \in Site : Toward(s, t, c) => m \notin Echoes(s, c)
    BY <1>1, PassTaken DEF Open
  <1>5. \A y \in Again(s, t) : y = m /\ m.sender # t
    BY DEF Again, Forwards
  <1>6. ASSUME NEW c \in Site PROVE OneCandidate(c)'
    <2>1. Moved(t, Again(s, t), s, m)
      BY <1>1 DEF Moved
    <2>2. Aside(t, Again(s, t), s, m, c)
      BY <1>1, <1>4, <1>5 DEF Aside
    <2> QED BY <1>2, <2>1, <2>2, AsideStep DEF Open
  <1> QED BY <1>1, <1>3, <1>6 DEF Open

(* In a tree no wave comes from the side where the answers come from: all  *)
(* waves are better or worse, or from the follower that had it from t.     *)
LEMMA OpenNoCount ==
    ASSUME Tree, Types, TreeInv, Open, NEW s \in Site, NEW t \in Site,
           NEW m, m = FirstOf(s, t), CountWaveDoes(s, t, m)
    PROVE  FALSE
  <1> PICK c : c = m.body.elu
    OBVIOUS
  <1>1. /\ Receives(s, t) /\ m.body.action = "WAVE_ELECTION"
        /\ Follows(t, c) /\ m.body.parent # t
    BY DEF CountWaveDoes, Follows
  <1>2. link[s][t] # <<>> /\ c \in Site
    BY <1>1, ReceivedFacts, TakenFacts
  <1>3. OneCandidate(c)
    BY <1>2 DEF Open
  <1>4. /\ On(s, t, Waves(c)) /\ s \in Neighbours[t]
        /\ Toward(t, s, c) \/ Toward(s, t, c)
        /\ Toward(s, t, c) => m.body.parent = t
    BY <1>1, <1>2, <1>3, WaveTaken
  <1>5. Toward(t, s, c)
    BY <1>1, <1>4
  <1>6. HeardBy(t, c)
    BY <1>1, <1>3 DEF OneCandidate, Heard
  <1> QED BY <1>4, <1>5, <1>6 DEF HeardBy

LEMMA OpenNoElected ==
    ASSUME Types, Open, NEW s \in Site, NEW t \in Site,
           NEW m, m = FirstOf(s, t), ElectedDoes(s, t, m)
    PROVE  FALSE
  <1>1. link[s][t] # <<>> /\ m.body.action = "ELECTED"
    BY ReceivedFacts DEF ElectedDoes
  <1>2. 1 \in Places(s, t) /\ m = link[s][t][1] /\ m.body.elu \in Site
    BY <1>1, TakenFacts
  <1>3. OneCandidate(m.body.elu)
    BY <1>2 DEF Open
  <1>4. Said(s, m, m.body.elu)
    BY <1>2, <1>3 DEF OneCandidate, AllSaid
  <1> QED BY <1>1, <1>4 DEF Said

LEMMA OpenAnswer ==
    ASSUME Tree, Types, TreeInv, Open, NEW s \in Site, NEW t \in Site,
           NEW m, m = FirstOf(s, t), AnswerDoes(s, t, m)
    PROVE  Open'
  <1> PICK c : c = m.body.elu
    OBVIOUS
  <1> PICK p : p = election[t].parent
    OBVIOUS
  <1>1. /\ Receives(s, t) /\ m.body.action = "ECHO_ELECTION" /\ Follows(t, c)
        /\ Becomes(t, Counted(election[t])) /\ electedID' = electedID
        /\ clicksLeft' = clicksLeft
    BY DEF AnswerDoes, EchoDoes, Follows, Frame
  <1>2. link[s][t] # <<>> /\ c \in Site
    BY <1>1, ReceivedFacts, TakenFacts
  <1>3. \/ election[t].pending > 1 /\ Taking(s, t, {})
        \/ /\ election[t].pending <= 1 /\ t # c
           /\ Taking(s, t, {EchoOf(t, c, p)})
    BY <1>1 DEF AnswerDoes, Follows
  <1>4. OneCandidate(c)
    BY <1>2 DEF Open
  <1>5. m \in Echoes(s, c) /\ m.dest = t
    BY <1>1, <1>2, <1>4, EchoTaken
  <1>6. election[t] \in States /\ p \in Site
    BY <1>1, <1>2, FollowsFacts DEF Follows
  <1>7. election'[t].elu = c /\ \A u \in Site : u # t => election'[u] = election[u]
    <2>1. Counted(election[t]) \in States /\ Counted(election[t]).elu = c
      BY <1>1, <1>6, CountedFacts DEF Follows
    <2> QED BY <1>1, <2>1, BecomesFacts
  <1>8. Onward(t)
    BY <1>1, <1>7 DEF Onward, Ahead, Follows, Stood
  <1>9. EchoOf(t, c, p) \in Echoes(t, c) /\ EchoOf(t, c, p).dest = p
        /\ EchoOf(t, c, p).body.elu = c
    <2>1. EchoOf(t, c, p) \in Message(ElectionBody)
      BY <1>2, <1>6, WrittenIsMessage DEF Types
    <2> QED BY <2>1 DEF EchoOf, Own, Echoes
  <1>10. PICK out : /\ Taking(s, t, out) /\ \A y \in out : y.body.elu = c
                    /\ \/ out = {} /\ election[t].pending > 1
                       \/ \E x : /\ out = {x} /\ x \in Echoes(t, c) /\ x.dest = p
                                 /\ election[t].pending <= 1 /\ t # c
    BY <1>3, <1>9
  <1>11. Counting(s, t, out, m, c)
    BY <1>1, <1>2, <1>5, <1>10 DEF Counting
  <1>12. OneCandidate(c)'
    BY <1>2, <1>4, <1>8, <1>11, CountStep
  <1>13. ASSUME NEW d \in Site, d # c PROVE OneCandidate(d)'
    <2>1. ~Follows(t, d)' /\ ~Done(t, d)
      BY <1>1, <1>7, <1>13 DEF Follows, Done
    <2>2. Aside(t, out, s, m, d) /\ StaysAway(t, d)
      BY <1>10, <1>13, <2>1 DEF Aside, StaysAway
    <2>3. Moved(t, out, s, m)
      BY <1>10 DEF Moved
    <2> QED BY <1>8, <2>2, <2>3, AsideStep DEF Open
  <1>14. Begun'
    BY <1>1, <1>8, <1>10, BegunStays DEF Open
  <1> QED BY <1>1, <1>12, <1>13, <1>14 DEF Open

(* A better wave comes from the side of its candidate. *)
LEMMA BetterFromOutside ==
    ASSUME Tree, Types, TreeInv, Open, NEW s \in Site, NEW t \in Site,
           NEW m, m = FirstOf(s, t), Receives(s, t),
           m.body.action = "WAVE_ELECTION", NEW c, c = m.body.elu, Better(t, c)
    PROVE  /\ c \in Site /\ ~Ahead(t, c) /\ Toward(t, s, c) /\ Ahead(s, c)
           /\ c \in Stood /\ m \in Waves(c) /\ s \in Neighbours[t] /\ s # t /\ t # c
  <1>1. link[s][t] # <<>> /\ c \in Site
    BY ReceivedFacts, TakenFacts
  <1>2. OneCandidate(c)
    BY <1>1 DEF Open
  <1>3. ~Ahead(t, c)
    <2>1. None.elu = NoSite /\ NoSite \notin Site
      BY SiteAssumption DEF None, NoSite
    <2>2. \A d \in Site : d > c => ~(d <= c)
      BY <1>1, SiteAssumption
    <2> QED BY <2>1, <2>2 DEF Better, Ahead
  <1>4. /\ m \in Waves(c) /\ Ahead(s, c) /\ c \in Stood /\ s \in Neighbours[t] /\ s # t
        /\ Toward(t, s, c) \/ Toward(s, t, c)
        /\ Toward(s, t, c) => Ahead(t, c)
    BY <1>1, <1>2, WaveTaken
  <1>5. Toward(t, s, c)
    BY <1>3, <1>4
  <1> QED BY <1>1, <1>3, <1>4, <1>5, NotFromThere

(* Who is drawn away from d has been told so by who follows somebody better. *)
LEMMA DrawnAway ==
    ASSUME Tree, Types, NEW s \in Site, NEW t \in Site, s \in Neighbours[t],
           NEW c \in Site, NEW d \in Site, c < d, OneCandidate(d),
           Ahead(s, c), Done(t, d), NEW u \in Neighbours[t], Toward(t, u, d)
    PROVE  ~Follows(u, d)
  <1>1. ~Follows(s, d)
    BY SiteAssumption DEF Ahead, Follows
  <1>2. CASE u = s
    BY <1>1, <1>2
  <1>3. CASE u # s
    <2>1. u \in Site
      BY NeighboursAssumption
    <2>2. Toward(s, t, d)
      BY <1>3, <2>1, OthersBehind
    <2>3. Cardinality(Owed(t, d)) = 0
      BY DEF OneCandidate, Kept, Counts, Done
    <2>4. Owed(t, d) = {}
      BY <2>3, OwedFinite, FS_EmptySet
    <2>5. Done(s, d)
      BY <2>2, <2>4 DEF Owed, Pending
    <2> QED BY <1>1, <2>5 DEF Done
  <1> QED BY <1>2, <1>3

LEMMA OpenAdopt ==
    ASSUME Tree, Types, TreeInv, Open, NEW s \in Site, NEW t \in Site,
           NEW m, m = FirstOf(s, t), AdoptDoes(s, t, m)
    PROVE  Open'
  <1> PICK c : c = m.body.elu
    OBVIOUS
  <1>1. /\ Receives(s, t) /\ m.body.action = "WAVE_ELECTION" /\ Better(t, c)
        /\ Becomes(t, ElectionState(c, s, nb[t] - 1))
        /\ electedID' = electedID /\ clicksLeft' = clicksLeft
        /\ \/ nb[t] = 1 /\ Taking(s, t, {EchoOf(t, c, s)})
           \/ nb[t] # 1 /\ Taking(s, t, {WaveOf(t, c, s)})
    BY DEF AdoptDoes, Frame
  <1>2. /\ c \in Site /\ ~Ahead(t, c) /\ Toward(t, s, c) /\ Ahead(s, c)
        /\ c \in Stood /\ m \in Waves(c) /\ s \in Neighbours[t] /\ s # t /\ t # c
    BY <1>1, BetterFromOutside
  <1>3. nb[t] \in Nat /\ nb[t] = Cardinality(Neighbours[t]) /\ IsFiniteSet(Neighbours[t])
    BY DegreeFacts
  <1>4. /\ election'[t].elu = c /\ election'[t].parent = s
        /\ election'[t].pending = nb[t] - 1
        /\ \A u \in Site : u # t => election'[u] = election[u]
    <2> PICK g : g = ElectionState(c, s, nb[t] - 1)
      OBVIOUS
    <2>1. nb[t] - 1 \in Int /\ c \in Site \cup {NoSite} /\ s \in Site \cup {NoSite}
      BY <1>2, <1>3
    <2>2. g \in States /\ g.elu = c /\ g.parent = s /\ g.pending = nb[t] - 1
      BY <2>1, StateFacts
    <2>3. Becomes(t, g)
      BY <1>1
    <2> QED BY <2>2, <2>3, BecomesFacts
  <1>5. Stood' = Stood
    BY <1>1 DEF Stood
  (* t leaves only those that are worse. *)
  <1>6. ASSUME NEW d \in Site, Ahead(t, d) \/ Follows(t, d) PROVE c < d \/ c = d
    <2>1. None.elu = NoSite /\ NoSite \notin Site
      BY SiteAssumption DEF None, NoSite
    <2>2. election[t].elu \in Site /\ election[t].elu <= d /\ election[t].elu > c
      <3>1. d <= d
        BY SiteAssumption
      <3>2. election[t].elu \in Site /\ election[t].elu <= d
        BY <1>6, <3>1 DEF Ahead, Follows
      <3> QED BY <1>1, <2>1, <3>2 DEF Better
    <2> QED BY <1>2, <2>2, SiteAssumption
  <1>7. Onward(t)
    <2> SUFFICES ASSUME NEW d \in Site, Ahead(t, d) PROVE Ahead(t, d)'
      BY <1>4, <1>5 DEF Onward
    <2>1. c <= d
      BY <1>2, <1>6, SiteAssumption
    <2> QED BY <1>2, <1>4, <2>1 DEF Ahead
  <1>8. PICK x : /\ Taking(s, t, {x}) /\ x.body.elu = c
                 /\ \/ /\ nb[t] # 1 /\ x \in Waves(c) /\ x.body.parent = s
                    \/ nb[t] = 1 /\ x \in Echoes(t, c) /\ x.dest = s
    <2>1. /\ WaveOf(t, c, s) \in Message(ElectionBody)
          /\ EchoOf(t, c, s) \in Message(ElectionBody)
      BY <1>2, WrittenIsMessage DEF Types
    <2>2. /\ WaveOf(t, c, s) \in Waves(c) /\ WaveOf(t, c, s).body.parent = s
          /\ WaveOf(t, c, s).body.elu = c
      BY <2>1 DEF WaveOf, Own, Waves
    <2>3. /\ EchoOf(t, c, s) \in Echoes(t, c) /\ EchoOf(t, c, s).dest = s
          /\ EchoOf(t, c, s).body.elu = c
      BY <2>1 DEF EchoOf, Own, Echoes
    <2> QED BY <1>1, <2>2, <2>3
  <1>9. Moved(t, {x}, s, m)
    BY <1>8 DEF Moved
  <1>10. OneCandidate(c)'
    <2> DEFINE Behind == {n \in Neighbours[t] : Toward(n, t, c)}
    <2>1. Behind = Neighbours[t] \ {s}
      <3>1. ASSUME NEW n \in Neighbours[t], n # s PROVE Toward(n, t, c)
        BY <1>2, <3>1, OthersBehind
      <3>2. ~Toward(s, t, c)
        BY <1>2, NotBothWays
      <3> QED BY <3>1, <3>2
    <2>2. Cardinality(Behind) = nb[t] - 1 /\ IsFiniteSet(Behind)
      <3>1. /\ IsFiniteSet(Neighbours[t] \ {s})
            /\ Cardinality(Neighbours[t] \ {s}) = Cardinality(Neighbours[t]) - 1
        BY <1>2, <1>3, FS_RemoveElement
      <3> QED BY <1>3, <2>1, <3>1
    <2>3. election'[t].pending = Cardinality(Behind)
      BY <1>4, <2>2
    <2>4. Ahead(t, c)' /\ Ahead(s, c)' /\ Follows(t, c)' /\ Parent(t, c)'
      <3>1. c <= c
        BY <1>2, SiteAssumption
      <3>2. Ahead(t, c)' /\ Follows(t, c)' /\ Parent(t, c)'
        BY <1>2, <1>4, <3>1 DEF Ahead, Follows, Parent
      <3> QED BY <1>2, <1>7, <3>2, OnwardFacts
    <2>5. ~On(s, t, Waves(c))'
      <3>1. Single(s, t, Waves(c))
        BY <1>2 DEF Open, OneCandidate, Alone
      <3> QED BY <1>2, <1>9, <3>1, MovedOn DEF Types
    <2>6. \A n \in Neighbours[t] : Toward(t, n, c) => Ahead(n, c) /\ ~On(n, t, Waves(c))'
      <3> SUFFICES ASSUME NEW n \in Neighbours[t], Toward(t, n, c)
                   PROVE  Ahead(n, c) /\ ~On(n, t, Waves(c))'
        OBVIOUS
      <3>1. n \in Site
        BY NeighboursAssumption
      <3>2. n = s
        BY <1>2, <3>1, OneWay
      <3> QED BY <1>2, <2>5, <3>2
    <2>7. CASE nb[t] # 1
      <3>1. x \in Waves(c) /\ x.body.parent = s
        BY <1>8, <2>7
      <3>2. SaidWave(t, x, c)'
        BY <1>2, <2>4, <3>1 DEF SaidWave
      <3>3. election'[t].pending # 0
        BY <1>3, <1>4, <2>7
      <3>4. Turns(t, {x}, x, c)
        BY <1>2, <1>5, <2>3, <2>4, <2>6, <3>1, <3>2, <3>3 DEF Turns
      <3> QED BY <1>2, <1>7, <1>9, <3>4, TurnStep DEF Open
    <2>8. CASE nb[t] = 1
      <3>1. x \in Echoes(t, c) /\ x.dest = s
        BY <1>8, <2>8
      <3>2. election'[t].pending = 0
        BY <1>4, <2>8
      <3>3. Behind = {}
        BY <2>2, <2>8, FS_EmptySet
      <3>4. \A n \in Neighbours[t] : ~Toward(n, t, c)
        BY <3>3
      <3>5. Turns(t, {x}, x, c)
        BY <1>2, <1>5, <2>3, <2>4, <2>6, <3>1, <3>2, <3>4 DEF Turns
      <3> QED BY <1>2, <1>7, <1>9, <3>5, TurnStep DEF Open
    <2> QED BY <2>7, <2>8
  <1>11. ASSUME NEW d \in Site, d # c PROVE OneCandidate(d)'
    <2>1. ~Follows(t, d)'
      BY <1>4, <1>11 DEF Follows
    <2>2. OneCandidate(d)
      BY DEF Open
    <2>3. ASSUME Done(t, d), NEW u \in Neighbours[t], Toward(t, u, d) PROVE ~Follows(u, d)
      <3>1. c < d
        BY <1>6, <1>11, <2>3 DEF Done
      <3> QED BY <1>2, <2>2, <2>3, <3>1, DrawnAway
    <2>4. StaysAway(t, d)
      BY <2>1, <2>3 DEF StaysAway
    <2>5. Aside(t, {x}, s, m, d)
      BY <1>8, <1>11, <2>1 DEF Aside
    <2> QED BY <1>7, <1>9, <2>2, <2>4, <2>5, AsideStep
  <1>12. Begun'
    BY <1>1, <1>7, <1>8, BegunStays DEF Open
  <1> QED BY <1>1, <1>10, <1>11, <1>12 DEF Open

(* A site that has heard of nothing stands. *)
LEMMA OpenStand ==
    ASSUME Tree, Types, TreeInv, Open, NEW t \in Site, ClickDoes(t), MayStand(t),
           seen[t] = {}, Sending(t, WaveOf(t, t, t)),
           Becomes(t, ElectionState(t, t, nb[t]))
    PROVE  Open'
  <1> PICK x : x = WaveOf(t, t, t)
    OBVIOUS
  <1>1. clicksLeft[t] > 0 /\ clicksLeft' = [clicksLeft EXCEPT ![t] = @ - 1]
        /\ electedID' = electedID /\ seen' = seen /\ Sending(t, x)
    BY DEF ClickDoes, Sending
  <1>2. clicksLeft \in [Site -> Nat] /\ clicksLeft[t] \in Nat /\ Clicks[t] \in Nat
        /\ \A u \in Site : clicksLeft[u] <= Clicks[u] /\ Clicks[u] \in Nat
    BY ClicksAssumption DEF Types, ElectionTypeOK, Open, Begun
  <1>3. /\ nb[t] \in Nat /\ nb[t] = Cardinality(Neighbours[t])
        /\ t \in Site \cup {NoSite} /\ NoSite \notin Site
    BY DegreeFacts, FollowsFacts
  <1>4. /\ election'[t].elu = t /\ election'[t].parent = t /\ election'[t].pending = nb[t]
        /\ \A u \in Site : u # t => election'[u] = election[u]
    <2> PICK g : g = ElectionState(t, t, nb[t])
      OBVIOUS
    <2>1. nb[t] \in Int
      BY <1>3
    <2>2. g \in States /\ g.elu = t /\ g.parent = t /\ g.pending = nb[t]
      BY <1>3, <2>1, StateFacts
    <2> QED BY <2>2, BecomesFacts
  <1>5. t \in Stood' /\ Stood' = Stood \cup {t} /\ \A u \in Site : clicksLeft'[u] <= Clicks[u]
    BY <1>1, <1>2 DEF Stood
  <1>6. election[t].elu = NoSite
    <2>1. election[t].elu = NoSite \/ election[t].elu = t
      BY DEF Open, Begun
    <2>2. None.elu = NoSite /\ ~(t > t)
      BY SiteAssumption DEF None
    <2> QED BY <2>1, <2>2 DEF MayStand
  <1>7. \A c \in Site : ~Ahead(t, c) /\ ~Follows(t, c) /\ ~Done(t, c)
    BY <1>3, <1>6 DEF Ahead, Follows, Done
  <1>8. Onward(t)
    BY <1>4, <1>5, <1>7 DEF Onward
  <1>9. Moved(t, {x}, NoSite, x)
    BY <1>1 DEF Moved
  <1>10. x \in Waves(t) /\ x.body.elu = t
    <2>1. x \in Message(ElectionBody)
      BY WrittenIsMessage DEF Types
    <2> QED BY <2>1 DEF WaveOf, Own, Waves
  <1>11. Ahead(t, t)' /\ Follows(t, t)' /\ Parent(t, t)'
    <2>1. t <= t
      BY SiteAssumption
    <2> QED BY <1>4, <2>1 DEF Ahead, Follows, Parent
  <1>12. OneCandidate(t)'
    <2>1. {n \in Neighbours[t] : Toward(n, t, t)} = Neighbours[t]
      BY AllBehindOrigin
    <2>2. \A n : ~Toward(t, n, t)
      BY NotFromThere
    <2>3. SaidWave(t, x, t)'
      BY <1>11 DEF SaidWave
    <2>4. Turns(t, {x}, x, t)
      BY <1>3, <1>4, <1>5, <1>7, <1>10, <1>11, <2>1, <2>2, <2>3 DEF Turns
    <2> QED BY <1>8, <1>9, <2>4, TurnStep DEF Open
  <1>13. ASSUME NEW d \in Site, d # t PROVE OneCandidate(d)'
    <2>1. ~Follows(t, d)'
      BY <1>4, <1>13 DEF Follows
    <2>2. StaysAway(t, d)
      BY <1>7, <2>1 DEF StaysAway
    <2>3. Aside(t, {x}, NoSite, x, d)
      BY <1>10, <1>13, <2>1 DEF Aside
    <2> QED BY <1>8, <1>9, <2>2, <2>3, AsideStep DEF Open
  <1>14. Begun'
    <2> SUFFICES ASSUME NEW u \in Site
                 PROVE  /\ clicksLeft'[u] <= Clicks[u]
                        /\ u \in Stood' => Ahead(u, u)'
                        /\ seen'[u] = {} => election'[u].elu = NoSite \/ election'[u].elu = u
      BY DEF Begun
    <2>1. CASE u = t
      BY <1>4, <1>5, <1>11, <2>1
    <2>2. CASE u # t
      <3>1. u \in Stood' => Ahead(u, u)'
        BY <1>5, <1>8, <2>2, OnwardFacts DEF Open, Begun
      <3>2. seen'[u] = {} => election'[u].elu = NoSite \/ election'[u].elu = u
        BY <1>1, <1>4, <2>2 DEF Open, Begun
      <3> QED BY <1>5, <3>1, <3>2
    <2> QED BY <2>1, <2>2
  <1> QED BY <1>1, <1>12, <1>13, <1>14 DEF Open

(* Nothing is written and nobody turns to another one. *)
LEMMA OneCandidateSame ==
    ASSUME NEW c, OneCandidate(c), link' = link, election' = election,
           Stood \subseteq Stood'
    PROVE  OneCandidate(c)'
  <1>1. AllSaid(c)'
    <2> SUFFICES ASSUME NEW u \in Site, NEW v \in Site, NEW k \in Places(u, v)',
                        NEW y, y = link'[u][v][k]
                 PROVE  Said(u, y, c)'
      BY DEF AllSaid, Said
    <2>1. k \in Places(u, v) /\ y = link[u][v][k]
      BY DEF Places
    <2>2. Said(u, y, c)
      BY <2>1 DEF OneCandidate, AllSaid
    <2>3. \A w : /\ Ahead(w, c)' <=> Ahead(w, c)
                 /\ Follows(w, c)' <=> Follows(w, c)
                 /\ Done(w, c)' <=> Done(w, c)
      BY DEF Ahead, Follows, Done
    <2> QED BY <2>2, <2>3 DEF Said, SaidWave, SaidEcho
  <1>2. Alone(c)'
    BY DEF OneCandidate, Alone, Single, Places
  <1>3. Heard(c)'
    BY DEF OneCandidate, Heard, HeardBy, Follows, Ahead, On, Followed, Places
  <1>4. EchoesBehind(c)'
    BY DEF OneCandidate, EchoesBehind, Done, Follows, Followed, Places
  <1>5. Kept(c)'
    <2>1. ASSUME NEW u \in Site PROVE Owed(u, c)' = Owed(u, c)
      BY DEF Owed, Pending, Done, Follows, On, Places
    <2> QED BY <2>1 DEF OneCandidate, Kept, Parent, Counts, Follows
  <1> QED BY <1>1, <1>2, <1>3, <1>4, <1>5 DEF OneCandidate

(* A click of a user whose site follows somebody already.                  *)
LEMMA OpenClick ==
    ASSUME Tree, Types, TreeInv, Open, NEW t \in Site, ClickDoes(t), seen[t] = {}
    PROVE  Open'
  <1>1. CASE MayStand(t) /\ Sending(t, WaveOf(t, t, t))
             /\ Becomes(t, ElectionState(t, t, nb[t]))
    BY <1>1, OpenStand
  <1>2. CASE ~MayStand(t) /\ UNCHANGED <<linkVars, electionVars>>
    <2>1. /\ clicksLeft[t] > 0 /\ clicksLeft' = [clicksLeft EXCEPT ![t] = @ - 1]
          /\ link' = link /\ seen' = seen /\ election' = election /\ electedID' = electedID
      BY <1>2 DEF ClickDoes, linkVars, electionVars
    <2>2. clicksLeft \in [Site -> Nat]
          /\ \A u \in Site : clicksLeft[u] <= Clicks[u] /\ Clicks[u] \in Nat
      BY ClicksAssumption DEF Types, ElectionTypeOK, Open, Begun
    <2>3. Stood' = Stood \cup {t} /\ \A u \in Site : clicksLeft'[u] <= Clicks[u]
      BY <2>1, <2>2 DEF Stood
    <2>4. Ahead(t, t)
      <3>1. election[t] # None /\ ~(election[t].elu > t)
        BY <1>2 DEF MayStand, Open
      <3>2. election[t].elu \in Site
        BY <3>1, FollowsFacts
      <3> QED BY <3>1, <3>2, SiteAssumption DEF Ahead
    <2>5. Begun'
      BY <2>1, <2>3, <2>4 DEF Open, Begun, Ahead
    <2>6. ASSUME NEW c \in Site PROVE OneCandidate(c)'
      BY <2>1, <2>3, OneCandidateSame DEF Open
    <2> QED BY <2>1, <2>5, <2>6 DEF Open
  <1> QED BY <1>1, <1>2 DEF ClickDoes

-----------------------------------------------------------------------------
(* The candidate that gets its last answer.                                *)

(* Only one answer is missing, and it is on its way: the others follow t,  *)
(* each of them has answered, and nobody owes anything else.               *)
AllAnswered(s, t) ==
    /\ \A u \in Site : Follows(u, t) /\ (u # t => Done(u, t))
    /\ \A u \in Site : \A n \in Owed(u, t) : n = s /\ u = t

LEMMA LastAnswer ==
    ASSUME Tree, Types, TreeInv, Open, NEW s \in Site, NEW t \in Site,
           NEW m, m = FirstOf(s, t), WinDoes(s, t, m)
    PROVE  m \in Echoes(s, t) /\ link[s][t] # <<>> /\ AllAnswered(s, t)
  <1>1. /\ Receives(s, t) /\ m.body.action = "ECHO_ELECTION" /\ m.body.elu = t
        /\ Follows(t, t) /\ election[t].pending <= 1
    BY DEF WinDoes, EchoDoes, Follows
  <1>2. OneCandidate(t) /\ link[s][t] # <<>>
    BY <1>1, ReceivedFacts DEF Open
  <1>3. m \in Echoes(s, t) /\ m.dest = t
    BY <1>1, <1>2, EchoTaken
  <1>4. /\ Done(s, t) /\ s \in Owed(t, t) /\ s # t
        /\ election[t].pending = Cardinality(Owed(t, t))
        /\ election[t].pending \in Nat \ {0}
    BY <1>1, <1>2, <1>3, AnswerWasOwed
  <1>5. Owed(t, t) = {s}
    <2>1. Cardinality(Owed(t, t)) = 1
      BY <1>1, <1>4
    <2>2. \E x : Owed(t, t) = {x}
      BY <2>1, OwedFinite, FS_Singleton
    <2> QED BY <1>4, <2>2
  <1>6. ASSUME NEW u \in Site, Done(u, t), u # t PROVE Owed(u, t) = {}
    <2>1. Cardinality(Owed(u, t)) = 0
      BY <1>2, <1>6 DEF OneCandidate, Kept, Counts, Done
    <2> QED BY <2>1, OwedFinite, FS_EmptySet
  <1> DEFINE G == {u \in Site : u = t \/ Done(u, t)}
  <1>7. DownClosed(G, t)
    <2> SUFFICES ASSUME NEW u \in G, NEW v \in Neighbours[u], Toward(v, u, t)
                 PROVE  v \in G
      BY DEF DownClosed
    <2>1. v \in Site /\ u \in Site
      BY NeighboursAssumption
    <2>2. CASE u = t
      <3>1. CASE v = s
        BY <1>4, <3>1
      <3>2. CASE v # s
        BY <1>5, <2>1, <2>2, <3>2 DEF Owed, Pending
      <3> QED BY <3>1, <3>2
    <2>3. CASE u # t
      <3>1. Owed(u, t) = {}
        BY <1>6, <2>3
      <3> QED BY <2>1, <3>1 DEF Owed, Pending
    <2> QED BY <2>2, <2>3
  <1>8. G = Site
    <2>1. G \in SUBSET Site
      OBVIOUS
    <2> HIDE DEF G
    <2> QED BY <1>7, <2>1, Descent
  <1>9. \A u \in Site : u = t \/ Done(u, t)
    BY <1>8
  <1>10. \A u \in Site : Follows(u, t) /\ (u # t => Done(u, t))
    BY <1>1, <1>9 DEF Done
  <1>11. ASSUME NEW u \in Site, NEW n \in Owed(u, t) PROVE n = s /\ u = t
    BY <1>5, <1>6, <1>10
  <1> QED BY <1>2, <1>3, <1>10, <1>11 DEF AllAnswered

(* No wave is left: those of t have met their echo, the worse ones are in  *)
(* front of a wave of t.                                                   *)
LEMMA NoWaveLeft ==
    ASSUME Tree, Types, Open, NEW s \in Site, NEW t \in Site, link[s][t] # <<>>,
           FirstOf(s, t) \in Echoes(s, t), AllAnswered(s, t),
           NEW u \in Site, NEW v \in Site, NEW k \in Places(u, v),
           NEW m, m = link[u][v][k]
    PROVE  OfHolder(m, t)
  <1> PICK c : c = m.body.elu
    OBVIOUS
  <1>1. /\ m \in Message(ElectionBody) /\ c \in Site /\ v \in Neighbours[u]
        /\ u \in Neighbours[v] /\ u # v
    BY OnLink, NeighboursAssumption
  <1>2. OneCandidate(c) /\ OneCandidate(t)
    BY <1>1 DEF Open
  <1>3. Said(u, m, c)
    BY <1>2 DEF OneCandidate, AllSaid
  <1>4. m.body.action # "ELECTED"
    BY <1>3 DEF Said
  <1>5. ASSUME m.body.action = "WAVE_ELECTION" PROVE FALSE
    <2>1. Ahead(u, c) /\ Follows(u, t) /\ Follows(v, t)
      BY <1>3, <1>5 DEF Said, SaidWave, AllAnswered
    <2>2. c = t \/ c > t
      BY <1>1, <2>1, SiteAssumption DEF Ahead, Follows
    <2>3. m \in Waves(t) \cup Stale(t) /\ (m \notin Stale(t) => m \in Waves(t))
      BY <1>1, <1>5, <2>2 DEF Waves, Stale
    <2>4. CASE Toward(u, v, t)
      <3>1. u # t /\ Done(u, t)
        BY <2>4, NotFromThere DEF AllAnswered
      <3>2. Followed(u, v, Waves(t) \cup Stale(t), Echoes(u, t))
        BY <1>1, <1>2, <2>4, <3>1 DEF OneCandidate, EchoesBehind
      <3>3. PICK l \in Places(u, v) : k < l /\ link[u][v][l] \in Echoes(u, t)
        BY <2>3, <3>2 DEF Followed
      <3>4. u \in Owed(v, t)
        BY <1>1, <2>4, <3>3 DEF Owed, Pending, On
      <3>5. u = s /\ v = t
        BY <3>4 DEF AllAnswered
      <3>6. 1 \in Places(s, t) /\ FirstOf(s, t) = link[s][t][1]
        BY TakenFacts
      <3>7. Single(s, t, Echoes(s, t))
        BY <1>2 DEF OneCandidate, Alone
      <3>8. l = 1
        BY <3>3, <3>5, <3>6, <3>7 DEF Single
      <3> QED BY <3>3, <3>8 DEF Places
    <2>5. CASE Toward(v, u, t)
      <3>1. HeardBy(u, t) /\ HeardBy(v, t)
        BY <1>2, <2>1 DEF OneCandidate, Heard
      <3>2. ~On(u, v, Waves(t))
        BY <1>1, <2>5, <3>1 DEF HeardBy
      <3>3. Followed(u, v, Stale(t), Waves(t))
        BY <1>1, <2>5, <3>1 DEF HeardBy
      <3> QED BY <2>3, <3>2, <3>3 DEF On, Followed
    <2> QED BY <1>1, <2>4, <2>5, EveryLinkPoints
  <1> QED BY <1>4, <1>5 DEF OfHolder

LEMMA Winning ==
    ASSUME Tree, Types, TreeInv, Open, NEW s \in Site, NEW t \in Site,
           NEW m, m = FirstOf(s, t), WinDoes(s, t, m)
    PROVE  /\ Settled(t)'
           /\ \A u \in Site : u # t => electedID'[u] = NoSite
           /\ \A u \in Site : election[u] # None /\ election[u].elu <= t
  <1>1. /\ Becomes(t, Counted(election[t])) /\ electedID' = [electedID EXCEPT ![t] = t]
        /\ clicksLeft' = clicksLeft /\ Taking(s, t, {ElectedOf(t)})
    BY DEF WinDoes, EchoDoes, Frame
  <1>2. m \in Echoes(s, t) /\ link[s][t] # <<>> /\ AllAnswered(s, t)
    BY LastAnswer
  <1>3. \A u \in Site : election[u].elu = t
    BY <1>2 DEF AllAnswered, Follows
  <1>4. /\ \A u \in Site : electedID[u] = NoSite
        /\ OneCandidate(t) /\ Begun
    BY DEF Open
  <1>5. NoSite \notin Site /\ t <= t
    BY SiteAssumption DEF NoSite
  <1>6. \A u \in Site : election[u] # None /\ election[u].elu <= t
    BY <1>3, <1>5, FollowsFacts
  <1>7. electedID'[t] = t /\ \A u \in Site : u # t => electedID'[u] = NoSite
    <2>1. electedID \in [Site -> Site \cup {NoSite}]
      BY DEF Types, ElectionTypeOK
    <2> QED BY <1>1, <1>4, <2>1
  <1>8. Smallest(t)'
    <2>1. t \in Stood
      BY <1>3, <1>4 DEF OneCandidate, Heard, Follows, HeardBy
    <2>2. ASSUME NEW u \in Stood PROVE t <= u
      <3>1. u \in Site
        BY DEF Stood
      <3> QED BY <1>3, <1>4, <3>1 DEF Begun, Ahead
    <2>3. Stood' = Stood
      BY <1>1 DEF Stood
    <2> QED BY <2>1, <2>2, <2>3 DEF Smallest
  <1>9. \A u \in Site : election'[u].elu = t /\ election'[u].parent = election[u].parent
    <2>1. election[t] \in States
      BY FollowsFacts
    <2>2. /\ Counted(election[t]) \in States /\ Counted(election[t]).elu = t
          /\ Counted(election[t]).parent = election[t].parent
      BY <1>3, <2>1, CountedFacts
    <2> QED BY <1>1, <1>3, <2>2, BecomesFacts
  <1>10. OwnParent'
    <2> SUFFICES ASSUME NEW u \in Site
                 PROVE  u = t <=> election[u].parent = u
      BY <1>9 DEF OwnParent
    <2>1. Parent(u, t)
      BY <1>3, <1>4 DEF OneCandidate, Kept, Follows
    <2>2. u \notin Neighbours[u]
      BY NeighboursAssumption
    <2> QED BY <2>1, <2>2, NotFromThere DEF Parent
  <1>11. \A u \in Site : seen'[u] # {}
    <2>1. seen' = [seen EXCEPT ![t] = @ \cup {FirstOf(s, t).id}]
      BY <1>1 DEF Taking
    <2>2. seen \in [Site -> SUBSET Ids]
      BY DEF Types, LinksTypeOK
    <2>3. \A u \in Site : u # t => seen[u] # {}
      BY <1>3, <1>4, <1>5 DEF Begun
    <2> QED BY <2>1, <2>2, <2>3
  <1>12. ASSUME NEW u \in Site, NEW v \in Site, NEW k \in Places(u, v)'
         PROVE  OfHolder(link'[u][v][k], t)
    <2>1. \A l \in Places(u, v) : OfHolder(link[u][v][l], t)
      BY <1>2, NoWaveLeft
    <2>2. OfHolder(ElectedOf(t), t)
      BY DEF ElectedOf, Own, OfHolder
    <2> QED BY <1>1, <2>1, <2>2, TakingWhence DEF Types
  <1>13. \A u \in Site : electedID'[u] = NoSite \/ electedID'[u] = t
    BY <1>7
  <1>14. Settled(t)'
    BY <1>7, <1>8, <1>9, <1>10, <1>11, <1>12, <1>13 DEF Settled, OfHolder
  <1> QED BY <1>6, <1>7, <1>14

-----------------------------------------------------------------------------
(* After the election. *)

(* A handler of t that leaves the holder alone and writes nothing about    *)
(* another one.                                                            *)
LEMMA SettledStays ==
    ASSUME Types, NEW h \in Site, Settled(h), NEW s \in Site, NEW t \in Site,
           NEW out, Taking(s, t, out), \A x \in out : OfHolder(x, h),
           clicksLeft' = clicksLeft,
           \A u \in Site : u # t => election'[u] = election[u],
           election'[t].elu = NoSite \/ election'[t].elu = h,
           election'[t].elu = t <=> election'[t].parent = t,
           \A u \in Site : electedID'[u] = electedID[u] \/ electedID'[u] = h
    PROVE  Settled(h)'
  <1>1. electedID'[h] = h /\ Smallest(h)'
    BY DEF Settled, Smallest, Stood
  <1>2. OwnParent'
    BY DEF Settled, OwnParent
  <1>3. \A u \in Site : seen'[u] # {}
    <2>1. seen' = [seen EXCEPT ![t] = @ \cup {FirstOf(s, t).id}]
      BY DEF Taking
    <2>2. seen \in [Site -> SUBSET Ids]
      BY DEF Types, LinksTypeOK
    <2> QED BY <2>1, <2>2 DEF Settled
  <1>4. \A u \in Site : /\ electedID'[u] = NoSite \/ electedID'[u] = h
                        /\ election'[u].elu = NoSite \/ election'[u].elu = h
    BY DEF Settled
  <1>5. ASSUME NEW u \in Site, NEW v \in Site, NEW k \in Places(u, v)'
        PROVE  OfHolder(link'[u][v][k], h)
    <2>1. \A l \in Places(u, v) : OfHolder(link[u][v][l], h)
      BY DEF Settled
    <2> QED BY <2>1, TakingWhence DEF Types
  <1> QED BY <1>1, <1>2, <1>3, <1>4, <1>5 DEF Settled, OfHolder

LEMMA SettledTaken ==
    ASSUME Types, NEW h \in Site, Settled(h), NEW s \in Site, NEW t \in Site,
           link[s][t] # <<>>, NEW m, m = FirstOf(s, t)
    PROVE  OfHolder(m, h) /\ \A x \in Again(s, t) : OfHolder(x, h)
  <1>1. 1 \in Places(s, t) /\ m = link[s][t][1]
    BY TakenFacts
  <1>2. OfHolder(m, h)
    BY <1>1 DEF Settled
  <1> QED BY <1>2 DEF Again

(* Where the holder alone is followed, a state is as it should be. *)
LEMMA SettledState ==
    ASSUME Types, NEW h \in Site, Settled(h), NEW t \in Site
    PROVE  /\ election[t].elu = NoSite \/ election[t].elu = h
           /\ election[t].elu = t <=> election[t].parent = t
           /\ Becomes(t, Counted(election[t])) =>
                 /\ \A u \in Site : u # t => election'[u] = election[u]
                 /\ election'[t].elu = election[t].elu
                 /\ election'[t].parent = election[t].parent
  <1>1. election[t] \in States
    BY FollowsFacts
  <1>2. /\ Counted(election[t]) \in States /\ Counted(election[t]).elu = election[t].elu
        /\ Counted(election[t]).parent = election[t].parent
    BY <1>1, CountedFacts
  <1>3. ASSUME Becomes(t, Counted(election[t]))
        PROVE  /\ \A u \in Site : u # t => election'[u] = election[u]
               /\ election'[t].elu = election[t].elu
               /\ election'[t].parent = election[t].parent
    BY <1>2, <1>3, BecomesFacts
  <1> QED BY <1>3 DEF Settled, OwnParent

(* Each step of a settled network keeps it settled, with the same holder.  *)
LEMMA SettledStep ==
    ASSUME Types, NEW h \in Site, Settled(h), NEW s \in Site, NEW t \in Site, Step(s, t)
    PROVE  Settled(h)'
  <1> PICK m : m = FirstOf(s, t)
    OBVIOUS
  <1>0. /\ election[t].elu = NoSite \/ election[t].elu = h
        /\ election[t].elu = t <=> election[t].parent = t
    BY SettledState
  <1>1. ASSUME Receives(s, t), m.body.action = "WAVE_ELECTION" PROVE FALSE
    BY <1>1, ReceivedFacts, SettledTaken DEF OfHolder
  <1>2. CASE WaveStep(s, t)
    <2>1. Receives(s, t) /\ m.body.action = "WAVE_ELECTION"
      BY <1>2 DEF WaveStep, AdoptWave, IgnoreWave, CountWave, Gets
    <2> QED BY <1>1, <2>1
  <1>3. ASSUME IgnoreDoes(s, t, m) PROVE Settled(h)'
    <2>1. /\ Taking(s, t, {}) /\ election' = election /\ electedID' = electedID
          /\ clicksLeft' = clicksLeft
      BY <1>3 DEF IgnoreDoes, Frame
    <2> QED BY <1>0, <2>1, SettledStays
  <1>4. ASSUME PassDoes(s, t, m) PROVE Settled(h)'
    <2>1. /\ Taking(s, t, Again(s, t)) /\ election' = election /\ electedID' = electedID
          /\ clicksLeft' = clicksLeft /\ link[s][t] # <<>>
      BY <1>4 DEF PassDoes, Frame
    <2>2. \A x \in Again(s, t) : OfHolder(x, h)
      BY <2>1, SettledTaken
    <2> QED BY <1>0, <2>1, <2>2, SettledStays
  <1>5. ASSUME AnswerDoes(s, t, m) PROVE Settled(h)'
    <2>1. /\ Becomes(t, Counted(election[t])) /\ electedID' = electedID
          /\ clicksLeft' = clicksLeft
          /\ \/ Taking(s, t, {})
             \/ Taking(s, t, {EchoOf(t, m.body.elu, election[t].parent)})
      BY <1>5 DEF AnswerDoes, EchoDoes, Frame
    <2>2. OfHolder(EchoOf(t, m.body.elu, election[t].parent), h)
      BY DEF EchoOf, Own, OfHolder
    <2>3. PICK out : Taking(s, t, out) /\ \A x \in out : OfHolder(x, h)
      BY <2>1, <2>2
    <2>4. /\ \A u \in Site : u # t => election'[u] = election[u]
          /\ election'[t].elu = election[t].elu
          /\ election'[t].parent = election[t].parent
      BY <2>1, SettledState
    <2> QED BY <1>0, <2>1, <2>3, <2>4, SettledStays
  <1>6. ASSUME WinDoes(s, t, m) PROVE Settled(h)'
    <2>1. /\ Becomes(t, Counted(election[t])) /\ electedID' = [electedID EXCEPT ![t] = t]
          /\ clicksLeft' = clicksLeft /\ Taking(s, t, {ElectedOf(t)})
          /\ election[t].elu = t
      BY <1>6 DEF WinDoes, EchoDoes, Frame
    <2>2. t = h
      BY <1>0, <2>1, SiteAssumption DEF NoSite
    <2>3. \A x \in {ElectedOf(t)} : OfHolder(x, h)
      BY <2>2 DEF ElectedOf, Own, OfHolder
    <2>4. /\ \A u \in Site : u # t => election'[u] = election[u]
          /\ election'[t].elu = election[t].elu
          /\ election'[t].parent = election[t].parent
      BY <2>1, SettledState
    <2>5. \A u \in Site : electedID'[u] = electedID[u] \/ electedID'[u] = h
      <3>1. electedID \in [Site -> Site \cup {NoSite}]
        BY DEF Types, ElectionTypeOK
      <3> QED BY <2>1, <2>2, <3>1
    <2> QED BY <1>0, <2>1, <2>3, <2>4, <2>5, SettledStays
  <1>7. ASSUME ElectedDoes(s, t, m) PROVE Settled(h)'
    <2>1. /\ Receives(s, t) /\ m.body.action = "ELECTED" /\ Becomes(t, None)
          /\ electedID' = [electedID EXCEPT ![t] = m.sender]
          /\ clicksLeft' = clicksLeft /\ Taking(s, t, Again(s, t))
      BY <1>7 DEF ElectedDoes, Frame
    <2>2. m.sender = h /\ \A x \in Again(s, t) : OfHolder(x, h)
      BY <2>1, ReceivedFacts, SettledTaken DEF OfHolder
    <2>3. /\ \A u \in Site : u # t => election'[u] = election[u]
          /\ election'[t].elu = NoSite /\ election'[t].parent = NoSite
      <3>1. NoSite \in Int
        BY DEF NoSite
      <3>2. None \in States /\ None.elu = NoSite /\ None.parent = NoSite
        BY <3>1 DEF None, States
      <3> QED BY <2>1, <3>2, BecomesFacts
    <2>4. \A u \in Site : electedID'[u] = electedID[u] \/ electedID'[u] = h
      <3>1. electedID \in [Site -> Site \cup {NoSite}]
        BY DEF Types, ElectionTypeOK
      <3> QED BY <2>1, <2>2, <3>1
    <2> QED BY <2>1, <2>2, <2>3, <2>4, SettledStays
  <1>8. CASE EchoStep(s, t)
    BY <1>3, <1>5, <1>8, IgnoreEchoFacts, WaitFacts, PassEchoFacts DEF EchoStep
  <1>9. CASE BecomeElected(s, t) \/ HandleElected(s, t) \/ Pass(s, t)
    BY <1>4, <1>6, <1>7, <1>9, WinFacts, ElectedFacts, PassFacts
  <1> QED BY <1>2, <1>8, <1>9 DEF Step

-----------------------------------------------------------------------------
(* The elections of a tree. *)

LEMMA StepTakes ==
    ASSUME Types, NEW s \in Site, NEW t \in Site, Step(s, t)
    PROVE  \E out : Taking(s, t, out)
  <1> PICK m : m = FirstOf(s, t)
    OBVIOUS
  <1>1. \/ AdoptDoes(s, t, m) \/ IgnoreDoes(s, t, m) \/ CountWaveDoes(s, t, m)
        \/ AnswerDoes(s, t, m) \/ WinDoes(s, t, m) \/ ElectedDoes(s, t, m)
        \/ PassDoes(s, t, m)
    BY AdoptFacts, IgnoreWaveFacts, CountWaveFacts, IgnoreEchoFacts, WaitFacts,
       PassEchoFacts, WinFacts, ElectedFacts, PassFacts DEF Step, WaveStep, EchoStep
  <1> QED BY <1>1
          DEF AdoptDoes, IgnoreDoes, CountWaveDoes, AnswerDoes, WinDoes, ElectedDoes,
              PassDoes

(* A step of an open election keeps it open, or settles it. *)
LEMMA OpenStep ==
    ASSUME Tree, Types, TreeInv, Open, NEW s \in Site, NEW t \in Site, Step(s, t)
    PROVE  \/ Open'
           \/ /\ Settled(t)' /\ \A u \in Site : u # t => electedID'[u] = NoSite
              /\ \A u \in Site : election[u] # None /\ election[u].elu <= t
  <1> PICK m : m = FirstOf(s, t)
    OBVIOUS
  <1>1. CASE AdoptWave(s, t)
    BY <1>1, AdoptFacts, OpenAdopt
  <1>2. CASE IgnoreWave(s, t) \/ IgnoreEcho(s, t)
    BY <1>2, IgnoreWaveFacts, IgnoreEchoFacts, OpenIgnore
  <1>3. CASE CountWave(s, t)
    BY <1>3, CountWaveFacts, OpenNoCount
  <1>4. CASE WaitForMoreEchoes(s, t) \/ PassEchoToParent(s, t)
    BY <1>4, WaitFacts, PassEchoFacts, OpenAnswer
  <1>5. CASE BecomeElected(s, t)
    BY <1>5, WinFacts, Winning
  <1>6. CASE HandleElected(s, t)
    BY <1>6, ElectedFacts, OpenNoElected
  <1>7. CASE Pass(s, t)
    BY <1>7, PassFacts, OpenPass
  <1> QED BY <1>1, <1>2, <1>3, <1>4, <1>5, <1>6, <1>7 DEF Step, WaveStep, EchoStep

LEMMA InTreeInit == ASSUME Init PROVE InTree
  <1>1. Types /\ TreeInv /\ \A u, v \in Site : Places(u, v) = {}
    BY TypesInit, TreeInit, LinksInitFacts DEF Init
  <1>2. /\ \A s \in Site : electedID[s] = NoSite /\ election[s].elu = NoSite
        /\ clicksLeft = Clicks /\ NoSite \notin Site
    BY SiteAssumption DEF Init, None, NoSite
  <1>3. Begun
    <2>1. \A s \in Site : Clicks[s] \in Nat
      BY ClicksAssumption
    <2> QED BY <1>2, <2>1 DEF Begun, Stood
  <1>4. ASSUME NEW c \in Site PROVE OneCandidate(c)
    <2>1. \A u \in Site : ~Follows(u, c) /\ ~Done(u, c)
      BY <1>2 DEF Follows, Done
    <2>2. EchoesBehind(c)
      BY <2>1, NeighboursAssumption DEF EchoesBehind
    <2> QED BY <1>1, <2>1, <2>2 DEF OneCandidate, AllSaid, Alone, Single, Heard, Kept
  <1> QED BY <1>1, <1>2, <1>3, <1>4 DEF InTree, Open

LEMMA InTreeNext == ASSUME Tree, InTree, [EarlyNext]_vars PROVE InTree'
  <1>1. Types' /\ Types /\ TreeInv
    BY TypesNext DEF InTree, EarlyNext
  <1>2. ASSUME NEW s \in Site, UserStartsElection(s), EarlyNext PROVE InTree'
    <2>1. ClickDoes(s)
      BY <1>1, <1>2, ClickFacts
    <2>2. seen[s] = {}
      <3>1. clicksLeft'[s] # clicksLeft[s]
        <4>1. clicksLeft \in [Site -> Nat]
          BY <1>1 DEF Types, ElectionTypeOK
        <4>2. clicksLeft' = [clicksLeft EXCEPT ![s] = @ - 1]
          BY <2>1 DEF ClickDoes
        <4> QED BY <4>1, <4>2
      <3> QED BY <1>2, <3>1 DEF EarlyNext
    <2>3. TreeInv'
      <3>1. CASE \E x : Sending(s, x)
        BY <1>1, <3>1, SendingTree DEF Types
      <3>2. CASE UNCHANGED linkVars
        BY <1>1, <3>2 DEF linkVars, TreeInv, Directed, SeenOnTheWay, Places
      <3> QED BY <2>1, <3>1, <3>2 DEF ClickDoes
    <2>4. Open
      BY <1>2, <2>2 DEF InTree, Settled
    <2>5. Open'
      BY <1>1, <2>1, <2>2, <2>4, OpenClick
    <2> QED BY <1>1, <2>3, <2>5 DEF InTree
  <1>3. ASSUME NEW s \in Site, NEW t \in Site, Step(s, t) PROVE InTree'
    <2>1. TreeInv'
      BY <1>1, <1>3, StepTakes, TakingTree DEF Types
    <2>2. CASE Open
      BY <1>1, <1>3, <2>1, <2>2, OpenStep DEF InTree
    <2>3. ASSUME NEW h \in Site, Settled(h) PROVE InTree'
      BY <1>1, <1>3, <2>1, <2>3, SettledStep DEF InTree
    <2> QED BY <2>2, <2>3 DEF InTree
  <1>4. CASE UNCHANGED vars
    <2>1. /\ link' = link /\ seen' = seen /\ election' = election
          /\ electedID' = electedID /\ clicksLeft' = clicksLeft
      BY <1>4 DEF vars, linkVars, electionVars
    <2>2. TreeInv'
      BY <1>1, <2>1 DEF TreeInv, Directed, SeenOnTheWay, Places
    <2>3. Stood' = Stood
      BY <2>1 DEF Stood
    <2>4. ASSUME Open PROVE Open'
      <3>1. \A c \in Site : OneCandidate(c)'
        BY <2>1, <2>3, <2>4, OneCandidateSame DEF Open
      <3>2. Begun'
        BY <2>1, <2>3, <2>4 DEF Open, Begun, Ahead
      <3> QED BY <2>1, <2>4, <3>1, <3>2 DEF Open
    <2>5. ASSUME NEW h \in Site, Settled(h) PROVE Settled(h)'
      BY <2>1, <2>3, <2>5 DEF Settled, Smallest, OwnParent, OfHolder, Places
    <2> QED BY <1>1, <2>2, <2>4, <2>5 DEF InTree
  <1> QED BY <1>2, <1>3, <1>4 DEF EarlyNext, Next

LEMMA InTreeAlways == ASSUME Tree PROVE EarlySpec => []InTree
  <1>1. Init => InTree
    BY InTreeInit
  <1>2. InTree /\ [EarlyNext]_vars => InTree'
    BY InTreeNext
  <1> QED BY <1>1, <1>2, PTL DEF EarlySpec

(* Nobody but a candidate is its own parent. *)
LEMMA InTreeParents == ASSUME Tree, InTree PROVE TypeOK
  <1>1. CASE Open
    <2> SUFFICES ASSUME NEW s \in Site
                 PROVE  election[s].elu = s <=> election[s].parent = s
      BY DEF InTree, Types, TypeOK, OwnParent
    <2>1. ASSUME election[s].elu = s PROVE election[s].parent = s
      BY <1>1, <2>1 DEF Open, OneCandidate, Kept, Follows, Parent
    <2>2. ASSUME election[s].parent = s PROVE election[s].elu = s
      <3>1. election[s] # None /\ NoSite \notin Site
        BY <2>2, SiteAssumption DEF None, NoSite
      <3> PICK c \in Site : c = election[s].elu
        BY <3>1, FollowsFacts DEF InTree
      <3>2. Parent(s, c)
        BY <1>1 DEF Open, OneCandidate, Kept, Follows
      <3>3. ~Toward(s, s, c)
        BY NotFromThere, NeighboursAssumption
      <3> QED BY <2>2, <3>2, <3>3 DEF Parent
    <2> QED BY <2>1, <2>2
  <1>2. ASSUME NEW h \in Site, Settled(h) PROVE TypeOK
    BY <1>2 DEF InTree, Types, TypeOK, Settled
  <1> QED BY <1>1, <1>2 DEF InTree

(* Who holds the election is the smallest of those who stood. *)
LEMMA InTreeHolder ==
    ASSUME InTree, NEW s \in Site, Holds(s)
    PROVE  Settled(s) /\ Smallest(s) /\ \A t \in Site : Holds(t) => s = t
  <1>1. NoSite \notin Site
    BY SiteAssumption DEF NoSite
  <1>2. PICK h \in Site : Settled(h)
    BY <1>1 DEF InTree, Open, Holds
  <1>3. \A t \in Site : Holds(t) => t = h
    BY <1>1, <1>2 DEF Settled, Holds
  <1> QED BY <1>2, <1>3 DEF Settled

(* In a tree, when users only start early, every variable keeps its type   *)
(* and only a candidate is its own parent.                                 *)
THEOREM TypeCorrectInTree == ASSUME Tree PROVE EarlySpec => []TypeOK
  <1>1. InTree => TypeOK
    BY InTreeParents
  <1> QED BY <1>1, InTreeAlways, PTL

(* In a tree, when users only start early, two sites never hold the        *)
(* election together.                                                      *)
THEOREM OneHolderInTree == ASSUME Tree PROVE EarlySpec => []OneHolder
  <1>1. InTree => OneHolder
    BY InTreeHolder DEF OneHolder
  <1> QED BY <1>1, InTreeAlways, PTL

(* Nobody holds the election but the smallest of those who stood.          *)
HolderIsSmallest == \A s \in Site : Holds(s) => Smallest(s)
THEOREM SmallestHoldsInTree == ASSUME Tree PROVE EarlySpec => []HolderIsSmallest
  <1>1. InTree => HolderIsSmallest
    BY InTreeHolder DEF HolderIsSmallest
  <1> QED BY <1>1, InTreeAlways, PTL

(* What ElectedByAll says of a step. *)
FollowedByAll ==
    \A s \in Site : ~Holds(s) /\ Holds(s)' =>
        \A t \in Site : election[t] # None /\ election[t].elu <= s

LEMMA StepElects ==
    ASSUME Tree, InTree, EarlyNext PROVE FollowedByAll
  <1> SUFFICES ASSUME NEW u \in Site, ~Holds(u), Holds(u)'
               PROVE  \A t \in Site : election[t] # None /\ election[t].elu <= u
    BY DEF FollowedByAll
  <1>1. NoSite \notin Site /\ electedID'[u] # electedID[u]
    BY SiteAssumption DEF NoSite, Holds
  <1>2. ASSUME NEW s \in Site, UserStartsElection(s) PROVE FALSE
    BY <1>1, <1>2, ClickFacts DEF InTree, ClickDoes
  <1>3. ASSUME NEW s \in Site, NEW t \in Site, Step(s, t)
        PROVE  \A v \in Site : election[v] # None /\ election[v].elu <= u
    <2>1. CASE Open
      <3>1. CASE Open'
        BY <1>1, <3>1 DEF Open, Holds
      <3>2. CASE /\ \A v \in Site : v # t => electedID'[v] = NoSite
                 /\ \A v \in Site : election[v] # None /\ election[v].elu <= t
        BY <1>1, <3>2 DEF Holds
      <3> QED BY <1>3, <2>1, <3>1, <3>2, OpenStep DEF InTree
    <2>2. ASSUME NEW h \in Site, Settled(h) PROVE FALSE
      <3>1. Settled(h)'
        BY <1>3, <2>2, SettledStep DEF InTree
      <3>2. electedID[h] = h /\ (electedID'[u] = NoSite \/ electedID'[u] = h)
        BY <2>2, <3>1 DEF Settled
      <3> QED BY <1>1, <3>2 DEF Holds
    <2> QED BY <2>1, <2>2 DEF InTree
  <1> QED BY <1>2, <1>3 DEF EarlyNext, Next

(* Whoever becomes the holder in a tree has been followed by all the sites, *)
(* itself or a smaller name.                                               *)
THEOREM ElectedInTree == ASSUME Tree PROVE EarlySpec => ElectedByAll
  <1>1. InTree /\ [EarlyNext]_vars => [FollowedByAll]_vars
    BY StepElects
  <1> QED BY <1>1, InTreeAlways, PTL DEF EarlySpec, ElectedByAll, FollowedByAll

=============================================================================
